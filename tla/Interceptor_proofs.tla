--------------------------- MODULE Interceptor_proofs ---------------------------
(***************************************************************************)
(* Proofs about Interceptor, for any tunnels, bodies, bounds and size of the  *)
(* store.                                                                  *)
(*                                                                         *)
(* What is promised of an exchange that has gone all the way is promised     *)
(* piece by piece of a tunnel under way: the inductive invariant says, for    *)
(* each place a tunnel can be at, what the store, the file and the events     *)
(* already have of its exchange, and that they have nothing of it before.     *)
(* The store forgets its oldest exchange when it is full, which a count of    *)
(* what it has taken in since tells from an exchange it must still have.      *)
(***************************************************************************)
EXTENDS Interceptor, TLAPS, FiniteSetTheorems

StoreProofs == INSTANCE RequestStore_proofs WITH
  Records <- Record, Max <- StoreSize

Kinds == {"request", "response"}

-----------------------------------------------------------------------------
(* The request store.  A place in its queue is also an age: as many entries as   *)
(* are behind an exchange were taken in since its request.                     *)

Ages ==
  /\ \A e \in Exchanges : born[e] <= taken
  /\ \A i \in 1..Len(queue) :
       queue[i] \in Exchanges => Len(queue) - i <= taken - born[queue[i]]

StoreInv == StoreProofs!IndInv /\ Ages

(* An exchange the live view was promised to have, and may not have any more. *)
Gone(e) == e \in viewLost \/ ~Recent(e)

(* The instance satisfies the assumptions of RequestStore. *)
LEMMA StoreAssumption ==
  /\ StoreSize \in Int
  /\ Absent \notin Record
  /\ Absent \notin [{"request", "response", "timing"} -> Record \cup {Absent}]
  BY InterceptorAssumption, AbsentAssumption

(* The size of the store is a positive number. *)
LEMMA StoreBound == StoreProofs!Bound \in Nat /\ StoreProofs!Bound = Store!Bound
  BY InterceptorAssumption DEF StoreProofs!Bound, Store!Bound

(* What the store has of an exchange after a part of one was put into it: of       *)
(* another it has what it had, unless that one has become too old.              *)
LEMMA StorePut ==
  ASSUME TypeOK, StoreInv, NEW part \in Store!Parts, NEW e \in Ids, NEW r \in Record,
         Store!Put(part, e, r),
         taken' = IF e \in Store!Held THEN taken ELSE taken + 1,
         e \in Store!Held => UNCHANGED born,
         \A o \in Exchanges : UNCHANGED born[o] \/ (o = e /\ born'[o] = taken + 1)
  PROVE  /\ StoreInv'
         /\ \A p \in Store!Parts :
              InStore(p, e)' = IF p = part THEN {r} ELSE InStore(p, e)
         /\ \A p \in Store!Parts, o \in Exchanges \ {e} :
              \/ UNCHANGED InStore(p, o)
              \/ InStore(p, o)' = {} /\ ~Recent(o)'
<1>1. part \in StoreProofs!Parts /\ StoreProofs!Put(part, e, r) /\ StoreProofs!IndInv
  BY DEF Store!Put, StoreProofs!Put, Store!Parts, StoreProofs!Parts, Store!Held, StoreProofs!Held,
         Store!Enqueue, StoreProofs!Enqueue, Store!Surplus, StoreProofs!Surplus, Store!Bound,
         StoreProofs!Bound, StoreInv
<1>2. StoreProofs!IndInv'
  BY <1>1, StoreAssumption, StoreProofs!PutPreserves
<1>3. /\ entries'[e] # Absent
      /\ entries'[e][part] = r
      /\ \A p \in Store!Parts \ {part} :
           entries'[e][p] = IF e \in Store!Held THEN entries[e][p] ELSE Absent
      /\ \A o \in Ids \ {e} :
           \/ entries'[o] = entries[o]
           \/ /\ e \notin Store!Held /\ entries'[o] = Absent
              /\ o = queue[1] /\ Len(queue) = Store!Bound
  BY <1>1, StoreAssumption, StoreBound, StoreProofs!PutMap
  DEF Store!Parts, StoreProofs!Parts, Store!Held, StoreProofs!Held
<1>4. /\ e \in Store!Held => queue' = queue
      /\ e \notin Store!Held =>
           \A i \in 1..Len(queue') :
             \/ i = Len(queue') /\ queue'[i] = e
             \/ \E j \in 1..Len(queue) :
                  /\ queue'[i] = queue[j] /\ queue[j] # e
                  /\ Len(queue') - i = Len(queue) - j + 1
  BY <1>1, StoreAssumption, StoreProofs!PutQueue DEF Store!Held, StoreProofs!Held
<1>5. r # Absent
  BY AbsentAssumption
<1>6. /\ taken \in Nat /\ \A o \in Exchanges : born[o] \in Nat /\ born[o] <= taken
      /\ queue \in Seq(Ids) /\ Len(queue) \in Nat
      /\ queue' \in Seq(Ids) /\ Len(queue') \in Nat
  BY <1>2 DEF TypeOK, StoreInv, Ages, StoreProofs!IndInv, StoreProofs!TypeOK
<1>7. ASSUME NEW p \in Store!Parts
      PROVE  InStore(p, e)' = IF p = part THEN {r} ELSE InStore(p, e)
  <2>1. CASE p = part
    BY <1>3, <1>5, <2>1 DEF InStore, Store!Held
  <2>2. CASE p # part
    BY <1>3, <2>2 DEF InStore, Store!Held
  <2>3. QED
    BY <2>1, <2>2
<1>8. ASSUME NEW p \in Store!Parts, NEW o \in Exchanges \ {e}
      PROVE  UNCHANGED InStore(p, o) \/ (InStore(p, o)' = {} /\ ~Recent(o)')
  <2>1. CASE entries'[o] = entries[o]
    BY <2>1 DEF InStore, Store!Held, Ids
  <2>2. CASE e \notin Store!Held /\ entries'[o] = Absent /\ o = queue[1] /\ Len(queue) = Store!Bound
    <3>1. InStore(p, o)' = {}
      BY <2>2 DEF InStore, Store!Held
    <3>2. Store!Bound \in Nat /\ Store!Bound >= 1 /\ Store!Bound' = Store!Bound
      BY InterceptorAssumption DEF Store!Bound
    <3>3. Len(queue) - 1 <= taken - born[o]
      BY <1>6, <2>2, <3>2 DEF StoreInv, Ages
    <3>4. taken' = taken + 1 /\ born'[o] = born[o]
      BY <2>2
    <3>5. ~(taken' - born'[o] < Store!Bound)
      BY <1>6, <2>2, <3>2, <3>3, <3>4
    <3>6. QED
      BY <3>1, <3>2, <3>5 DEF Recent
  <2>3. QED
    BY <1>3, <2>1, <2>2 DEF Ids
<1>9. Ages'
  <2>1. ASSUME NEW o \in Exchanges PROVE born'[o] <= taken'
    BY <1>6
  <2>2. ASSUME NEW i \in 1..Len(queue'), queue'[i] \in Exchanges
        PROVE  Len(queue') - i <= taken' - born'[queue'[i]]
    <3>1. CASE e \in Store!Held
      BY <1>4, <1>6, <2>2, <3>1 DEF StoreInv, Ages
    <3>2. CASE e \notin Store!Held /\ i = Len(queue') /\ queue'[i] = e
      BY <1>6, <2>1, <2>2, <3>2
    <3>3. ASSUME e \notin Store!Held, NEW j \in 1..Len(queue), queue'[i] = queue[j], queue[j] # e,
                 Len(queue') - i = Len(queue) - j + 1
          PROVE  Len(queue') - i <= taken' - born'[queue'[i]]
      <4>1. queue[j] \in Exchanges /\ Len(queue) - j <= taken - born[queue[j]]
        BY <2>2, <3>3 DEF StoreInv, Ages
      <4>2. taken' = taken + 1 /\ born'[queue[j]] = born[queue[j]]
        BY <3>3, <4>1
      <4>3. QED
        BY <1>6, <3>3, <4>1, <4>2
    <3>4. QED
      BY <1>4, <3>1, <3>2, <3>3
  <2>3. QED
    BY <2>1, <2>2 DEF Ages
<1>10. QED
  BY <1>2, <1>7, <1>8, <1>9 DEF StoreInv

(* A part of an exchange of a tunnel, put there while the view is on.            *)
LEMMA ShowPut ==
  ASSUME TypeOK, StoreInv, NEW part \in Store!Parts, NEW e \in Exchanges, NEW r \in Record,
         Show(part, e, r), capturing
  PROVE  /\ StoreInv' /\ taken' \in Nat /\ born' \in [Exchanges -> Nat]
         /\ \A p \in Store!Parts :
              InStore(p, e)' = IF p = part THEN {r} ELSE InStore(p, e)
         /\ \A p \in Store!Parts, o \in Exchanges \ {e} :
              \/ UNCHANGED InStore(p, o)
              \/ InStore(p, o)' = {} /\ ~Recent(o)'
         /\ \A o \in Exchanges : part # "request" \/ o # e => (Recent(o)' => Recent(o))
<1>1. taken \in Nat /\ born \in [Exchanges -> Nat] /\ e \in Ids
  BY DEF TypeOK, Ids
<1>2. /\ Store!Put(part, e, r)
      /\ taken' = IF e \in Store!Held THEN taken ELSE taken + 1
      /\ e \in Store!Held => UNCHANGED born
      /\ born' = born \/ (part = "request" /\ born' = [born EXCEPT ![e] = taken + 1])
  BY DEF Show, ages
<1>3. /\ taken' \in Nat /\ taken <= taken' /\ born' \in [Exchanges -> Nat]
      /\ \A o \in Exchanges : UNCHANGED born[o] \/ (o = e /\ born'[o] = taken + 1)
      /\ \A o \in Exchanges : part # "request" \/ o # e => UNCHANGED born[o]
  BY <1>1, <1>2
<1>4. \A o \in Exchanges : part # "request" \/ o # e => (Recent(o)' => Recent(o))
  BY <1>1, <1>3, InterceptorAssumption DEF Recent, Store!Bound
<1>5. QED
  BY <1>1, <1>2, <1>3, <1>4, StorePut

(* After Clear the store has nothing. *)
LEMMA StoreClear ==
  ASSUME StoreInv, Store!Clear, UNCHANGED ages
  PROVE  /\ StoreInv'
         /\ \A p \in Store!Parts, o \in Exchanges : InStore(p, o)' = {}
<1>1. StoreProofs!Clear
  BY DEF Store!Clear, StoreProofs!Clear
<1>2. [StoreProofs!Next]_(StoreProofs!vars)
  BY <1>1 DEF StoreProofs!Next
<1>3. StoreProofs!IndInv'
  BY <1>2, StoreAssumption, StoreProofs!NextInv DEF StoreInv
<1>4. \A p \in Store!Parts, o \in Exchanges : InStore(p, o)' = {}
  BY DEF Store!Clear, InStore, Store!Held
<1>5. Len(queue') = 0
  BY DEF Store!Clear
<1>6. Ages'
  BY <1>5 DEF StoreInv, Ages, ages
<1>7. QED
  BY <1>3, <1>4, <1>6 DEF StoreInv

(* A step that leaves the store alone. *)
LEMMA StoreUntouched ==
  ASSUME StoreInv, UNCHANGED <<store, ages>>
  PROVE  StoreInv' /\ \A p, o : InStore(p, o)' = InStore(p, o) /\ Recent(o)' = Recent(o)
<1>1. [StoreProofs!Next]_(StoreProofs!vars)
  BY DEF StoreProofs!vars, store
<1>2. StoreProofs!IndInv'
  BY <1>1, StoreAssumption, StoreProofs!NextInv DEF StoreInv
<1>3. \A p, o : InStore(p, o)' = InStore(p, o) /\ Recent(o)' = Recent(o)
  BY DEF store, ages, InStore, Recent, Store!Held, Store!Bound
<1>4. Ages'
  BY DEF StoreInv, Ages, store, ages
<1>5. QED
  BY <1>2, <1>3, <1>4 DEF StoreInv

(* The store starts empty. *)
LEMMA StoreInit ==
  ASSUME Init
  PROVE  StoreInv /\ \A p \in Store!Parts, o \in Exchanges : InStore(p, o) = {}
<1>1. StoreProofs!Init /\ Store!Init
  BY DEF Init, Store!Init, StoreProofs!Init
<1>2. StoreProofs!IndInv
  BY <1>1, StoreAssumption, StoreProofs!InitInv
<1>3. \A p \in Store!Parts, o \in Exchanges : InStore(p, o) = {}
  BY <1>1 DEF Store!Init, InStore, Store!Held
<1>4. Ages
  BY <1>1 DEF Init, Ages, Store!Init
<1>5. QED
  BY <1>2, <1>3, <1>4 DEF StoreInv

(* Its invariant gives the part of TypeOK that is about it. *)
LEMMA StoreType == StoreInv => Store!TypeOK
  BY DEF StoreInv, StoreProofs!IndInv, StoreProofs!TypeOK, Store!TypeOK, StoreProofs!Exchange,
         Store!Exchange, StoreProofs!Parts, Store!Parts

-----------------------------------------------------------------------------
(* The inductive invariant.                                                 *)

Reading    == {"read", "ended"}
Unheard    == {"read", "capture", "record"}
Unanswered == Unheard \cup {"announce", "send", "transfer", "recordResponse"}
Heard      == {"announce", "send", "transfer", "recordResponse", "publish", "time"}
Answering  == {"transfer", "recordResponse", "publish", "time"}

Nowhere(kind, e)   == InFile(kind, e) = {} /\ InStore(kind, e) = {}
Announced(kind, e) == \E event \in events : event.kind = kind /\ event.exchange = e
One(set)           == \E x : set = {x}

(* A switch has been on since the tunnel read its request, unless history       *)
(* tells otherwise.                                                        *)
SwitchesSeen(t) ==
  pc[t] \notin Reading =>
    /\ Exchange(t) \notin viewLost => capturing
    /\ Exchange(t) \notin storageLost => storing

(* Nothing is recorded of what is still to come.                             *)
NothingYet(t) ==
  /\ \A n \in 1..MaxExchanges, kind \in Kinds : n > number[t] => Nowhere(kind, <<t, n>>)
  /\ pc[t] \in Unheard => Nowhere("request", Exchange(t))
  /\ pc[t] \in Unanswered => Nowhere("response", Exchange(t))

(* What the browsers have been told of the exchange by now, and what the store   *)
(* has of it.                                                              *)
Told(t) ==
  Exchange(t) \notin viewLost =>
    /\ pc[t] \in Heard \ {"announce"} => Announced("request", Exchange(t))
    /\ pc[t] \in Answering => tee[t]
    /\ pc[t] = "time" => Announced("response", Exchange(t))

Shown(t) ==
  ~Gone(Exchange(t)) =>
    /\ pc[t] \in Heard => InStore("request", Exchange(t)) # {}
    /\ pc[t] = "publish" => InStore("response", Exchange(t)) = {CapturedResponse(t)}
    /\ pc[t] = "time" => InStore("response", Exchange(t)) # {}

Viewed(t) == Told(t) /\ Shown(t)

(* What the file has of it. *)
Filed(t) ==
  Exchange(t) \notin storageLost =>
    /\ pc[t] \in Heard => One(InFile("request", Exchange(t)))
    /\ pc[t] \in Answering => tee[t]
    /\ pc[t] \in {"publish", "time"} => One(InFile("response", Exchange(t)))

(* What is about to be recorded is true of the body.                         *)
ToRecord(t) ==
  /\ pc[t] = "record" /\ Exchange(t) \notin viewLost \cap storageLost =>
                         Tells(captured[t], request[t])
  /\ pc[t] = "recordResponse" /\ ~failed[t] => sent[t] = response[t]

(* BodiesAreWhole, of one tunnel. *)
Whole(t) ==
  /\ pc[t] # "read" /\ ~failed[t] => \A r \in Kept("response", Exchange(t)) : Tells(r, response[t])
  /\ pc[t] # "read" /\ Exchange(t) \notin viewLost \cap storageLost =>
       \A r \in Kept("request", Exchange(t)) : Tells(r, request[t])

TunnelInv(t) ==
  SwitchesSeen(t) /\ NothingYet(t) /\ Viewed(t) /\ Filed(t) /\ ToRecord(t) /\ Whole(t)

(* An answered exchange is behind its tunnel.                                *)
AnsweredInv ==
  \A e \in answered : e[2] < number[e[1]] \/ (e[2] = number[e[1]] /\ pc[e[1]] = "ended")

(* A body is said to be available at the earliest when its record is there.     *)
EventInv ==
  \A event \in events : event.available =>
    \/ event.exchange \in answered
    \/ \E t \in Tunnels : event.exchange = Exchange(t) /\ pc[t] = "time"

ExchangeInv ==
  /\ TypeOK /\ StoreInv
  /\ \A t \in Tunnels : TunnelInv(t)
  /\ AnsweredInv /\ SteadyExchangesAreComplete
  /\ EventInv /\ AvailableBodiesAreStored
-----------------------------------------------------------------------------
(* Types *)

(* What is kept of a body is a record that tells what became of it.           *)
LEMMA CapturedTells ==
  ASSUME NEW bytes \in Bodies, NEW most \in Bodies
  PROVE  Captured(bytes, most) \in Record /\ Tells(Captured(bytes, most), bytes)
<1>1. bytes \in Nat /\ most \in Nat /\ 0 \in Bodies
  BY InterceptorAssumption DEF Bodies
<1>2. CASE bytes > most
  BY <1>1, <1>2 DEF Captured, Record, Tells
<1>3. CASE ~(bytes > most)
  <2>1. (bytes > most) = FALSE
    BY <1>1, <1>3
  <2>2. Captured(bytes, most) = [bytes |-> bytes, skipped |-> FALSE]
    BY <2>1 DEF Captured
  <2>3. QED
    BY <2>2 DEF Record, Tells
<1>4. QED
  BY <1>2, <1>3

(* An empty record is a record. *)
LEMMA NothingIsRecord == Nothing \in Record /\ Timing \in Record
<1>1. 0 \in Bodies
  BY InterceptorAssumption DEF Bodies
<1>2. QED
  BY <1>1 DEF Nothing, Timing, Record

(* What a tunnel is about to record is a record. *)
LEMMA TunnelTypes ==
  ASSUME TypeOK, NEW t \in Tunnels
  PROVE  /\ Exchange(t) \in Exchanges /\ captured[t] \in Record
         /\ CapturedResponse(t) \in Record /\ Tells(CapturedResponse(t), sent[t])
<1>1. sent[t] \in Bodies /\ limit[t] \in Bodies
  BY DEF TypeOK
<1>2. QED
  BY <1>1, CapturedTells DEF TypeOK, Exchange, Exchanges, CapturedResponse

Moves(t) == ReadRequest(t) \/ LeaveTunnel(t) \/ Forward(t)

(* The store after a step of a tunnel, by the part it may have put there: it may    *)
(* have lost other exchanges by it, but only such as are old by now.           *)
LEMMA StoreMoves ==
  ASSUME TypeOK, StoreInv, NEW t \in Tunnels, Moves(t)
  PROVE  /\ StoreInv' /\ taken' \in Nat /\ born' \in [Exchanges -> Nat]
         /\ \A part \in Store!Parts, o \in Exchanges :
              \/ UNCHANGED InStore(part, o)
              \/ InStore(part, o)' = {} /\ ~Recent(o)' /\ o # Exchange(t)
              \/ /\ capturing /\ o = Exchange(t)
                 /\ \/ RecordRequest(t) /\ part = "request" /\ InStore(part, o)' = {captured[t]}
                    \/ RecordResponse(t) /\ part = "response"
                         /\ InStore(part, o)' = {CapturedResponse(t)}
                    \/ RecordTiming(t) /\ part = "timing" /\ InStore(part, o)' = {Timing}
         /\ \A o \in Exchanges :
              (RecordRequest(t) /\ o = Exchange(t)) \/ (Recent(o)' => Recent(o))
<1>1. CASE RecordRequest(t) /\ capturing
  <2>1. Show("request", Exchange(t), captured[t])
    BY <1>1 DEF RecordRequest
  <2>2. "request" \in Store!Parts
    BY DEF Store!Parts
  <2>3. QED
    BY <1>1, <2>1, <2>2, TunnelTypes, ShowPut
<1>2. CASE RecordResponse(t) /\ capturing
  <2>1. Show("response", Exchange(t), CapturedResponse(t))
    BY <1>2 DEF RecordResponse
  <2>2. "response" \in Store!Parts
    BY DEF Store!Parts
  <2>3. QED
    BY <1>2, <2>1, <2>2, TunnelTypes, ShowPut
<1>3. CASE RecordTiming(t) /\ capturing
  <2>1. Show("timing", Exchange(t), Timing)
    BY <1>3 DEF RecordTiming
  <2>2. "timing" \in Store!Parts
    BY DEF Store!Parts
  <2>3. QED
    BY <1>3, <2>1, <2>2, NothingIsRecord, TunnelTypes, ShowPut
<1>4. CASE UNCHANGED <<store, ages>>
  <2>1. taken' \in Nat /\ born' \in [Exchanges -> Nat]
    BY <1>4 DEF TypeOK, ages
  <2>2. QED
    BY <1>4, <2>1, StoreUntouched
<1>5. QED
  BY <1>1, <1>2, <1>3, <1>4
  DEF Moves, ReadRequest, LeaveTunnel, Forward, CaptureRequest, RecordRequest, PublishRequestEvent,
      Answer, Transfer, Transferred, RecordResponse, PublishResponseEvent, RecordTiming, Show

(* The file after a step of a tunnel. *)
LEMMA FileMoves ==
  ASSUME NEW t \in Tunnels, Moves(t)
  PROVE  \A kind, o :
           \/ UNCHANGED InFile(kind, o)
           \/ /\ storing /\ o = Exchange(t)
              /\ \/ /\ RecordRequest(t) /\ kind = "request"
                    /\ InFile(kind, o)' = InFile(kind, o) \cup {Written("request", t, captured[t])}
                 \/ /\ RecordResponse(t) /\ kind = "response"
                    /\ InFile(kind, o)' =
                         InFile(kind, o) \cup {Written("response", t, CapturedResponse(t))}
<1>1. CASE RecordRequest(t)
  BY <1>1 DEF RecordRequest, InFile, Written
<1>2. CASE RecordResponse(t)
  BY <1>2 DEF RecordResponse, InFile, Written
<1>3. CASE UNCHANGED file
  BY <1>3 DEF InFile
<1>4. QED
  BY <1>1, <1>2, <1>3
  DEF Moves, ReadRequest, LeaveTunnel, Forward, CaptureRequest, PublishRequestEvent,
      Answer, Transfer, Transferred, PublishResponseEvent, RecordTiming

(* A tunnel's step leaves the others alone, and forgets nothing. *)
LEMMA MovesAlone ==
  ASSUME TypeOK, NEW t \in Tunnels, Moves(t)
  PROVE  /\ \A u \in Tunnels \ {t} :
              UNCHANGED <<pc[u], number[u], request[u], captured[u], response[u], tee[u], limit[u],
                          sent[u], failed[u]>>
         /\ UNCHANGED settings
         /\ viewLost \subseteq viewLost' /\ storageLost \subseteq storageLost'
         /\ events \subseteq events' /\ answered \subseteq answered'
         /\ pc[t] # "ended"
<1>1. CASE ReadRequest(t) \/ LeaveTunnel(t)
  BY <1>1 DEF TypeOK, ReadRequest, LeaveTunnel, Step, tunnel, history
<1>2. CASE CaptureRequest(t) \/ RecordRequest(t) \/ PublishRequestEvent(t)
  BY <1>2 DEF TypeOK, CaptureRequest, RecordRequest, PublishRequestEvent, Step, tunnel, history
<1>3. CASE Answer(t) \/ Transfer(t) \/ Transferred(t)
  BY <1>3 DEF TypeOK, Answer, Transfer, Transferred, Step, tunnel, history
<1>4. CASE RecordResponse(t) \/ PublishResponseEvent(t)
  BY <1>4 DEF TypeOK, RecordResponse, PublishResponseEvent, Step, tunnel, history
<1>5. CASE RecordTiming(t)
  BY <1>5 DEF TypeOK, RecordTiming, Step, tunnel, history
<1>6. QED
  BY <1>1, <1>2, <1>3, <1>4, <1>5 DEF Moves, Forward

(* The variables a tunnel works with keep their types. *)
LEMMA TypeMoves ==
  ASSUME TypeOK, StoreInv, NEW t \in Tunnels, Moves(t)
  PROVE  TypeOK'
<1>1. Store!TypeOK' /\ taken' \in Nat /\ born' \in [Exchanges -> Nat]
  BY StoreMoves, StoreType DEF Store!TypeOK, Store!Exchange, Store!Parts, StoreInv,
     StoreProofs!IndInv, StoreProofs!TypeOK, StoreProofs!Exchange, StoreProofs!Parts
<1>2. Exchange(t) \in Exchanges /\ captured[t] \in Record /\ CapturedResponse(t) \in Record
  BY TunnelTypes
<1>3. /\ UNCHANGED settings
      /\ request[t] \in Bodies /\ maximum \in Bodies
      /\ number[t] \in 1..MaxExchanges
      /\ response[t] \in Nat /\ sent[t] \in Nat /\ response[t] <= MaxBytes
      /\ MaxBytes \in Nat /\ MaxExchanges \in Nat /\ 0 \in Bodies
  BY MovesAlone, InterceptorAssumption DEF TypeOK, Bodies
<1>4. CASE ReadRequest(t) \/ LeaveTunnel(t)
  BY <1>1, <1>2, <1>3, <1>4 DEF TypeOK, ReadRequest, LeaveTunnel, Step, tunnel, settings, history
<1>5. CASE CaptureRequest(t)
  <2>1. Captured(request[t], maximum) \in Record /\ Nothing \in Record
    BY <1>3, CapturedTells, NothingIsRecord
  <2>2. QED
    BY <1>1, <1>3, <1>5, <2>1 DEF TypeOK, CaptureRequest, Step, settings, history
<1>6. CASE RecordRequest(t) \/ RecordResponse(t)
  <2>1. file' \subseteq [kind : {"request", "response"}, exchange : Exchanges, record : Record]
    BY <1>2, <1>6 DEF TypeOK, RecordRequest, RecordResponse, Written
  <2>2. QED
    BY <1>1, <1>3, <1>6, <2>1
    DEF TypeOK, RecordRequest, RecordResponse, Step, tunnel, settings, history
<1>7. CASE PublishRequestEvent(t) \/ PublishResponseEvent(t)
  <2>1. (CapturedResponse(t).bytes > 0) \in BOOLEAN
    OBVIOUS
  <2>2. \A kind \in {"request", "response"}, available \in BOOLEAN :
          Published(kind, t, available)
            \in [kind : {"request", "response"}, exchange : Exchanges, available : BOOLEAN]
    BY <1>2 DEF Published
  <2>3. events' \subseteq [kind : {"request", "response"}, exchange : Exchanges, available : BOOLEAN]
    <3> DEFINE E == [kind : {"request", "response"}, exchange : Exchanges, available : BOOLEAN]
    <3>1. Published("request", t, FALSE) \in E
      BY <2>2
    <3>2. Published("response", t, CapturedResponse(t).bytes > 0) \in E
      BY <2>1, <2>2, Zenon
    <3>3. events \subseteq E
      BY DEF TypeOK
    <3>4. QED
      BY <1>7, <3>1, <3>2, <3>3, Zenon DEF PublishRequestEvent, PublishResponseEvent
  <2>4. QED
    BY <1>1, <1>3, <1>7, <2>3 DEF TypeOK, PublishRequestEvent, PublishResponseEvent, Step, tunnel,
                                  settings, history
<1>8. CASE Answer(t)
  <2>1. PICK bytes \in Bodies, isHtmlOrJs \in BOOLEAN :
          /\ response' = [response EXCEPT ![t] = bytes]
          /\ tee' = [tee EXCEPT ![t] = capturing \/ storing \/ isHtmlOrJs]
    BY <1>8 DEF Answer
  <2>2. tee' \in [Tunnels -> BOOLEAN]
    BY <2>1 DEF TypeOK
  <2>3. /\ response' \in [Tunnels -> Bodies] /\ sent' \in [Tunnels -> Bodies]
        /\ limit' \in [Tunnels -> Bodies]
    BY <1>3, <1>8, <2>1 DEF TypeOK, Answer
  <2>4. \A u \in Tunnels : sent'[u] <= response'[u]
    BY <1>8, <2>1 DEF TypeOK, Answer, Bodies
  <2>5. QED
    BY <1>1, <1>3, <1>8, <2>2, <2>3, <2>4 DEF TypeOK, Answer, Step, settings, history
<1>9. CASE Transfer(t)
  <2>1. sent[t] + 1 \in Bodies /\ sent[t] + 1 <= response[t]
    BY <1>3, <1>9 DEF Transfer, Bodies
  <2>2. sent' \in [Tunnels -> Bodies] /\ \A u \in Tunnels : sent'[u] <= response[u]
    BY <1>9, <2>1 DEF TypeOK, Transfer
  <2>3. QED
    BY <1>1, <1>3, <1>9, <2>2 DEF TypeOK, Transfer, settings, history
<1>10. CASE Transferred(t)
  BY <1>1, <1>3, <1>10 DEF TypeOK, Transferred, Step, settings, history
<1>11. CASE RecordTiming(t)
  <2>1. number' \in [Tunnels -> 1..MaxExchanges]
    BY <1>3, <1>11 DEF TypeOK, RecordTiming
  <2>2. QED
    BY <1>1, <1>2, <1>3, <1>11, <2>1 DEF TypeOK, RecordTiming, settings
<1>12. QED
  BY <1>4, <1>5, <1>6, <1>7, <1>8, <1>9, <1>10, <1>11 DEF Moves, Forward

Changes == PauseOrResume \/ SwitchStorage \/ ChangeLimit \/ ClearStore \/ RecordPlainRequest

(* A plain request is put into the store. *)
LEMMA PlainPut ==
  ASSUME TypeOK, StoreInv, RecordPlainRequest
  PROVE  /\ StoreInv' /\ taken' \in Nat /\ UNCHANGED born
         /\ \A p \in Store!Parts, o \in Exchanges :
              UNCHANGED InStore(p, o) \/ (InStore(p, o)' = {} /\ ~Recent(o)')
         /\ \A o \in Exchanges : Recent(o)' => Recent(o)
<1>1. PICK id \in Plain \ Store!Held : Store!Put("request", id, Nothing)
  BY DEF RecordPlainRequest, Store!PutRequest
<1>2. /\ taken' = taken + 1 /\ UNCHANGED born /\ taken \in Nat /\ born \in [Exchanges -> Nat]
      /\ id \in Ids /\ id \notin Exchanges
  BY PlainAssumption DEF RecordPlainRequest, TypeOK, Ids
<1>3. \A o \in Exchanges : Recent(o)' => Recent(o)
  BY <1>2, InterceptorAssumption DEF Recent, Store!Bound
<1>4. "request" \in Store!Parts
  BY DEF Store!Parts
<1>5. QED
  BY <1>1, <1>2, <1>3, <1>4, NothingIsRecord, StorePut

(* The settings and the store change under the tunnels' feet: what becomes of     *)
(* the rest.                                                               *)
LEMMA ChangesAlone ==
  ASSUME TypeOK, StoreInv, Changes
  PROVE  /\ TypeOK' /\ StoreInv'
         /\ UNCHANGED <<pc, tunnel, file, events, answered>>
         /\ viewLost \subseteq viewLost' /\ storageLost \subseteq storageLost'
         /\ \/ UNCHANGED capturing
            \/ \A t \in Tunnels : pc[t] \notin Reading => Exchange(t) \in viewLost'
         /\ \/ UNCHANGED storing
            \/ \A t \in Tunnels : pc[t] \notin Reading => Exchange(t) \in storageLost'
         /\ \A part \in Store!Parts, o \in Exchanges :
              UNCHANGED InStore(part, o) \/ (InStore(part, o)' = {} /\ Gone(o)')
         /\ \A o \in Exchanges : Recent(o)' => Recent(o)
<1>1. Running \subseteq Exchanges
  BY TunnelTypes DEF Running
<1>2. changes' \in 0..MaxChanges
  BY InterceptorAssumption DEF TypeOK, Changes, PauseOrResume, SwitchStorage, ChangeLimit,
                               ClearStore, RecordPlainRequest, Change
<1>3. \A t \in Tunnels : pc[t] \notin Reading => Exchange(t) \in Running
  BY DEF Running, Reading
<1>4. CASE UNCHANGED <<store, ages>>
  <2>1. StoreInv' /\ \A part, o : UNCHANGED InStore(part, o) /\ Recent(o)' = Recent(o)
    BY <1>4, StoreUntouched
  <2>2. TypeOK'
    BY <1>1, <1>2, <1>4 DEF TypeOK, Changes, PauseOrResume, SwitchStorage, ChangeLimit, ClearStore,
       RecordPlainRequest, tunnel, history, store, ages, Store!TypeOK, Store!Exchange, Store!Parts
  <2>3. QED
    BY <1>3, <2>1, <2>2
    DEF Changes, PauseOrResume, SwitchStorage, ChangeLimit, ClearStore, RecordPlainRequest, history
<1>5. CASE ClearStore
  <2>1. StoreInv' /\ \A part \in Store!Parts, o \in Exchanges : InStore(part, o)' = {}
    BY <1>5, StoreClear DEF ClearStore
  <2>2. Store!TypeOK'
    BY <2>1 DEF Store!TypeOK, Store!Exchange, Store!Parts, StoreInv, StoreProofs!IndInv,
       StoreProofs!TypeOK, StoreProofs!Exchange, StoreProofs!Parts
  <2>3. TypeOK'
    BY <1>1, <1>2, <1>5, <2>2 DEF TypeOK, ClearStore, tunnel, ages
  <2>4. ASSUME NEW part \in Store!Parts, NEW o \in Exchanges
        PROVE  UNCHANGED InStore(part, o) \/ (InStore(part, o)' = {} /\ Gone(o)')
    <3>1. CASE o \in Store!Held
      BY <1>5, <2>1, <3>1 DEF ClearStore, Gone
    <3>2. CASE o \notin Store!Held
      BY <2>1, <3>2 DEF InStore
    <3>3. QED
      BY <3>1, <3>2
  <2>5. \A o \in Exchanges : Recent(o)' => Recent(o)
    BY <1>5 DEF ClearStore, ages, Recent, Store!Bound
  <2>6. QED
    BY <1>3, <1>5, <2>1, <2>3, <2>4, <2>5 DEF ClearStore
<1>6. CASE RecordPlainRequest
  <2>1. Store!TypeOK'
    BY <1>6, PlainPut DEF Store!TypeOK, Store!Exchange, Store!Parts, StoreInv, StoreProofs!IndInv,
       StoreProofs!TypeOK, StoreProofs!Exchange, StoreProofs!Parts
  <2>2. TypeOK'
    BY <1>2, <1>6, <2>1, PlainPut DEF TypeOK, RecordPlainRequest, tunnel, history
  <2>3. QED
    BY <1>6, <2>2, PlainPut DEF RecordPlainRequest, history, Gone
<1>7. QED
  BY <1>4, <1>5, <1>6 DEF Changes, PauseOrResume, SwitchStorage, ChangeLimit

-----------------------------------------------------------------------------
(* One tunnel *)

(* What others do to a tunnel does not break its invariant: a switch that is       *)
(* turned meanwhile is remembered, and the store only loses what is old.       *)
LEMMA TunnelBystander ==
  ASSUME NEW t \in Tunnels, TunnelInv(t), number[t] \in 1..MaxExchanges,
         UNCHANGED <<pc[t], number[t], request[t], captured[t], response[t], tee[t], limit[t],
                     sent[t], failed[t]>>,
         UNCHANGED capturing \/ (pc[t] \notin Reading => Exchange(t) \in viewLost'),
         UNCHANGED storing \/ (pc[t] \notin Reading => Exchange(t) \in storageLost'),
         viewLost \subseteq viewLost', storageLost \subseteq storageLost', events \subseteq events',
         \A kind \in Kinds, n \in 1..MaxExchanges :
           /\ UNCHANGED InFile(kind, <<t, n>>)
           /\ UNCHANGED InStore(kind, <<t, n>>) \/ (InStore(kind, <<t, n>>)' = {} /\ Gone(<<t, n>>)'),
         Recent(Exchange(t))' => Recent(Exchange(t))
  PROVE  TunnelInv(t)'
<1>1. /\ UNCHANGED <<Exchange(t), CapturedResponse(t)>>
      /\ Exchange(t) = <<t, number[t]>>
  BY DEF Exchange, CapturedResponse
<1>2. /\ \A kind \in Kinds : UNCHANGED InFile(kind, Exchange(t))
      /\ ~Gone(Exchange(t))' =>
           /\ ~Gone(Exchange(t))
           /\ \A kind \in Kinds : UNCHANGED InStore(kind, Exchange(t))
  BY <1>1 DEF Gone
<1>3. /\ \A kind \in Kinds : Kept(kind, Exchange(t))' \subseteq Kept(kind, Exchange(t))
      /\ \A kind \in Kinds : Nowhere(kind, Exchange(t)) => Nowhere(kind, Exchange(t))'
      /\ \A kind \in Kinds, n \in 1..MaxExchanges : Nowhere(kind, <<t, n>>) => Nowhere(kind, <<t, n>>)'
  BY <1>1 DEF Kept, Nowhere
<1>4. \A kind \in Kinds : Announced(kind, Exchange(t)) => Announced(kind, Exchange(t))'
  BY <1>1 DEF Announced
<1>5. SwitchesSeen(t)'
  BY <1>1 DEF TunnelInv, SwitchesSeen
<1>6. NothingYet(t)'
  BY <1>1, <1>3 DEF TunnelInv, NothingYet, Kinds
<1>7. Viewed(t)'
  BY <1>1, <1>2, <1>4 DEF TunnelInv, Viewed, Told, Shown, Kinds
<1>8. Filed(t)'
  BY <1>1, <1>2 DEF TunnelInv, Filed, Kinds
<1>9. ToRecord(t)'
  BY <1>1 DEF TunnelInv, ToRecord
<1>10. Whole(t)'
  BY <1>1, <1>3 DEF TunnelInv, Whole, Kinds
<1>11. QED
  BY <1>5, <1>6, <1>7, <1>8, <1>9, <1>10 DEF TunnelInv

(* Exchanges of different tunnels are different. *)
LEMMA TunnelOthers ==
  ASSUME TypeOK, StoreInv, NEW u \in Tunnels, Moves(u),
         NEW t \in Tunnels \ {u}, TunnelInv(t)
  PROVE  TunnelInv(t)'
<1>1. \A n \in 1..MaxExchanges : <<t, n>> # Exchange(u) /\ <<t, n>> \in Exchanges
  BY DEF Exchange, Exchanges
<1>2. \A kind \in Kinds : kind \in Store!Parts
  BY DEF Kinds, Store!Parts
<1>3. \A kind \in Kinds, n \in 1..MaxExchanges :
        /\ UNCHANGED InFile(kind, <<t, n>>)
        /\ UNCHANGED InStore(kind, <<t, n>>) \/ (InStore(kind, <<t, n>>)' = {} /\ Gone(<<t, n>>)')
  BY <1>1, <1>2, FileMoves, StoreMoves DEF Gone
<1>4. number[t] \in 1..MaxExchanges
  BY DEF TypeOK
<1>5. UNCHANGED <<capturing, storing>>
  BY MovesAlone DEF settings
<1>6. Exchange(t) \in Exchanges /\ Exchange(t) # Exchange(u)
  BY <1>1, <1>4 DEF Exchange
<1>7. Recent(Exchange(t))' => Recent(Exchange(t))
  <2>1. Exchange(t)' = Exchange(t)
    BY MovesAlone DEF Exchange
  <2>2. Recent(Exchange(t))' => \A o \in {Exchange(t)} : Recent(o)'
    BY <2>1 DEF Recent
  <2>3. QED
    BY <1>6, <2>2, StoreMoves
<1>8. QED
  BY <1>3, <1>4, <1>5, <1>7, MovesAlone, TunnelBystander

(* The settings and the store, changed by others. *)
LEMMA TunnelChanges ==
  ASSUME TypeOK, StoreInv, Changes, NEW t \in Tunnels, TunnelInv(t)
  PROVE  TunnelInv(t)'
<1>1. /\ UNCHANGED <<pc, tunnel, file, events>>
      /\ viewLost \subseteq viewLost' /\ storageLost \subseteq storageLost'
      /\ UNCHANGED capturing \/ (pc[t] \notin Reading => Exchange(t) \in viewLost')
      /\ UNCHANGED storing \/ (pc[t] \notin Reading => Exchange(t) \in storageLost')
  BY ChangesAlone
<1>2. /\ Exchange(t) \in Exchanges /\ \A n \in 1..MaxExchanges : <<t, n>> \in Exchanges
      /\ UNCHANGED Exchange(t)
  BY <1>1, TunnelTypes DEF Exchange, Exchanges, tunnel
<1>3. \A kind \in Kinds, n \in 1..MaxExchanges :
        /\ UNCHANGED InFile(kind, <<t, n>>)
        /\ UNCHANGED InStore(kind, <<t, n>>) \/ (InStore(kind, <<t, n>>)' = {} /\ Gone(<<t, n>>)')
  <2>1. \A kind, o : UNCHANGED InFile(kind, o)
    BY <1>1 DEF InFile
  <2>2. \A kind \in Kinds : kind \in Store!Parts
    BY DEF Kinds, Store!Parts
  <2>3. QED
    BY <1>2, <2>1, <2>2, ChangesAlone
<1>4. Recent(Exchange(t))' => Recent(Exchange(t))
  <2>1. Recent(Exchange(t))' => \A o \in {Exchange(t)} : Recent(o)'
    BY <1>2 DEF Recent
  <2>2. QED
    BY <1>2, <2>1, ChangesAlone
<1>5. number[t] \in 1..MaxExchanges
  BY DEF TypeOK
<1>6. QED
  BY <1>1, <1>3, <1>4, <1>5, TunnelBystander DEF tunnel

(* Steps that record nothing. *)
LEMMA Unrecorded ==
  ASSUME TypeOK, StoreInv, NEW t \in Tunnels, Moves(t), UNCHANGED <<store, ages, file>>
  PROVE  /\ \A kind, o : UNCHANGED <<InFile(kind, o), InStore(kind, o), Kept(kind, o),
                                     Nowhere(kind, o)>>
         /\ \A kind, o : Announced(kind, o) => Announced(kind, o)'
         /\ \A o : Gone(o) => Gone(o)'
         /\ viewLost \subseteq viewLost' /\ storageLost \subseteq storageLost'
         /\ UNCHANGED <<capturing, storing>>
<1>1. \A kind, o : UNCHANGED <<InFile(kind, o), InStore(kind, o)>> /\ Recent(o)' = Recent(o)
  BY StoreUntouched DEF InFile
<1>2. \A kind, o : Announced(kind, o) => Announced(kind, o)'
  BY MovesAlone DEF Announced
<1>3. QED
  BY <1>1, <1>2, MovesAlone DEF Kept, Nowhere, Gone, settings

(* The tunnel reads a request, or is closed. *)
LEMMA TunnelRead ==
  ASSUME TypeOK, StoreInv, NEW t \in Tunnels, TunnelInv(t), ReadRequest(t)
  PROVE  TunnelInv(t)'
<1>1. /\ \A kind, o : UNCHANGED <<InFile(kind, o), InStore(kind, o), Kept(kind, o), Nowhere(kind, o)>>
      /\ UNCHANGED <<capturing, storing>>
  BY Unrecorded DEF Moves, ReadRequest
<1>2. /\ pc[t] = "read" /\ pc'[t] = "capture" /\ UNCHANGED <<number, Exchange(t)>>
      /\ Exchange(t) \notin viewLost' => capturing
      /\ Exchange(t) \notin storageLost' => storing
  BY DEF TypeOK, ReadRequest, Step, Exchange
<1>3. Nowhere("request", Exchange(t)) /\ Nowhere("response", Exchange(t))
  BY <1>2 DEF TunnelInv, NothingYet, Unheard, Unanswered
<1>4. Kept("request", Exchange(t)) = {} /\ Kept("response", Exchange(t)) = {}
  BY <1>3 DEF Nowhere, Kept
<1>5. SwitchesSeen(t)' /\ Viewed(t)' /\ Filed(t)' /\ ToRecord(t)'
  BY <1>1, <1>2 DEF SwitchesSeen, Viewed, Told, Shown, Filed, ToRecord, Heard, Answering
<1>6. NothingYet(t)'
  BY <1>1, <1>2, <1>3 DEF TunnelInv, NothingYet
<1>7. Whole(t)'
  BY <1>1, <1>2, <1>4 DEF Whole
<1>8. QED
  BY <1>5, <1>6, <1>7 DEF TunnelInv

(* The tunnel is left. *)
LEMMA TunnelLeave ==
  ASSUME TypeOK, StoreInv, NEW t \in Tunnels, TunnelInv(t), LeaveTunnel(t)
  PROVE  TunnelInv(t)'
<1>1. \A kind, o : UNCHANGED <<InFile(kind, o), InStore(kind, o), Kept(kind, o), Nowhere(kind, o)>>
  BY Unrecorded DEF Moves, LeaveTunnel
<1>2. /\ pc[t] \in {"read", "capture", "send"} /\ pc'[t] = "ended"
      /\ UNCHANGED <<tunnel, history, Exchange(t)>>
  BY DEF TypeOK, LeaveTunnel, Exchange, tunnel
<1>3. pc[t] = "read" => Kept("request", Exchange(t)) = {} /\ Kept("response", Exchange(t)) = {}
  BY DEF TunnelInv, NothingYet, Unheard, Unanswered, Nowhere, Kept
<1>4. SwitchesSeen(t)' /\ Viewed(t)' /\ Filed(t)' /\ ToRecord(t)'
  BY <1>2 DEF SwitchesSeen, Viewed, Told, Shown, Filed, ToRecord, Heard, Answering, Reading
<1>5. NothingYet(t)'
  BY <1>1, <1>2 DEF TunnelInv, NothingYet, Unheard, Unanswered, tunnel
<1>6. Whole(t)'
  BY <1>1, <1>2, <1>3 DEF TunnelInv, Whole, tunnel, history
<1>7. QED
  BY <1>4, <1>5, <1>6 DEF TunnelInv

(* The body of the request is captured when somebody wants it: the switches have   *)
(* not been off both unless history tells so.                                 *)
LEMMA TunnelCapture ==
  ASSUME TypeOK, StoreInv, NEW t \in Tunnels, TunnelInv(t), CaptureRequest(t)
  PROVE  TunnelInv(t)'
<1>1. \A kind, o : UNCHANGED <<InFile(kind, o), InStore(kind, o), Kept(kind, o), Nowhere(kind, o)>>
  BY Unrecorded DEF Moves, Forward, CaptureRequest
<1>2. /\ pc[t] = "capture" /\ pc'[t] = "record"
      /\ UNCHANGED <<number, request, response, tee, sent, failed, capturing, storing, history,
                     Exchange(t)>>
      /\ capturing \/ storing => captured'[t] = Captured(request[t], maximum)
      /\ request[t] \in Bodies /\ maximum \in Bodies
  BY DEF TypeOK, CaptureRequest, Step, Exchange, settings
<1>3. Exchange(t) \notin viewLost \cap storageLost => Tells(captured'[t], request[t])
  BY <1>2, CapturedTells DEF TunnelInv, SwitchesSeen, Reading
<1>4. SwitchesSeen(t)' /\ Viewed(t)' /\ Filed(t)'
  BY <1>2 DEF TunnelInv, SwitchesSeen, Viewed, Told, Shown, Filed, Heard, Answering, Reading, history
<1>5. ToRecord(t)'
  BY <1>2, <1>3 DEF ToRecord, history
<1>6. NothingYet(t)'
  BY <1>1, <1>2 DEF TunnelInv, NothingYet, Unheard, Unanswered
<1>7. Whole(t)'
  BY <1>1, <1>2 DEF TunnelInv, Whole, history
<1>8. QED
  BY <1>4, <1>5, <1>6, <1>7 DEF TunnelInv

(* What a recording step leaves of the store and of the file. *)
LEMMA Recorded ==
  ASSUME TypeOK, StoreInv, NEW t \in Tunnels, TunnelInv(t), NEW kind \in Kinds,
         NEW record, Nowhere(kind, Exchange(t)),
         \/ RecordRequest(t) /\ kind = "request" /\ record = captured[t]
         \/ RecordResponse(t) /\ kind = "response" /\ record = CapturedResponse(t)
  PROVE  /\ UNCHANGED <<Exchange(t), tunnel, capturing, storing, history, events>>
         /\ Kept(kind, Exchange(t))' \subseteq {record}
         /\ capturing => InStore(kind, Exchange(t))' = {record}
         /\ storing => One(InFile(kind, Exchange(t)))'
         /\ \A k \in Kinds, o \in Exchanges :
              k # kind \/ o # Exchange(t) =>
                /\ UNCHANGED InFile(k, o) /\ Kept(k, o)' \subseteq Kept(k, o)
                /\ Nowhere(k, o) => Nowhere(k, o)'
                /\ o = Exchange(t) => UNCHANGED InStore(k, o)
         /\ RecordRequest(t) \/ (Gone(Exchange(t)) => Gone(Exchange(t))')
<1>1. UNCHANGED <<Exchange(t), tunnel, capturing, storing, history, events>>
  BY DEF RecordRequest, RecordResponse, Exchange, tunnel, settings
<1>2. Moves(t)
  BY DEF Moves, Forward
<1>3. \A k \in Kinds : k \in Store!Parts
  BY DEF Kinds, Store!Parts
<1>4. \A k \in Kinds, o \in Exchanges :
        k # kind \/ o # Exchange(t) =>
          /\ UNCHANGED InFile(k, o)
          /\ UNCHANGED InStore(k, o) \/ (InStore(k, o)' = {} /\ o # Exchange(t))
  <2>1. ~RecordTiming(t) /\ (RecordRequest(t) => kind = "request")
         /\ (RecordResponse(t) => kind = "response")
    BY DEF RecordTiming, RecordRequest, RecordResponse, Step
  <2>2. QED
    BY <1>2, <1>3, <2>1, FileMoves, StoreMoves
<1>5. InStore(kind, Exchange(t))' = IF capturing THEN {record} ELSE {}
  <2>1. CASE capturing
    <3>1. Show(kind, Exchange(t), record) /\ record \in Record
      BY <2>1, TunnelTypes DEF RecordRequest, RecordResponse
    <3>2. QED
      BY <1>1, <1>3, <2>1, <3>1, ShowPut, TunnelTypes
  <2>2. CASE ~capturing
    BY <1>1, <2>2, StoreUntouched DEF RecordRequest, RecordResponse, Show, Nowhere
  <2>3. QED
    BY <2>1, <2>2
<1>6. InFile(kind, Exchange(t))' = IF storing THEN {Written(kind, t, record)} ELSE {}
  BY DEF RecordRequest, RecordResponse, Nowhere, InFile, Written, Exchange, tunnel
<1>7. Kept(kind, Exchange(t))' \subseteq {record}
  BY <1>1, <1>5, <1>6 DEF Kept, Written
<1>8. RecordRequest(t) \/ (Gone(Exchange(t)) => Gone(Exchange(t))')
  <2>1. ~RecordRequest(t) /\ Recent(Exchange(t))' => Recent(Exchange(t))
    <3>1. Recent(Exchange(t))' => \A o \in {Exchange(t)} : Recent(o)'
      BY <1>1 DEF Recent
    <3>2. QED
      BY <1>2, <3>1, StoreMoves, TunnelTypes
  <2>2. QED
    BY <1>1, <2>1 DEF Gone, history
<1>9. QED
  BY <1>1, <1>4, <1>5, <1>6, <1>7, <1>8 DEF One, Kept, Nowhere

(* The request is recorded wherever somebody wants it. *)
LEMMA TunnelRecord ==
  ASSUME TypeOK, StoreInv, NEW t \in Tunnels, TunnelInv(t), RecordRequest(t)
  PROVE  TunnelInv(t)'
<1>1. pc[t] = "record" /\ pc'[t] = "announce"
  BY DEF TypeOK, RecordRequest, Step
<1>2. Nowhere("request", Exchange(t)) /\ Nowhere("response", Exchange(t))
  BY <1>1 DEF TunnelInv, NothingYet, Unheard, Unanswered
<1>3. /\ UNCHANGED <<Exchange(t), tunnel, capturing, storing, history, events>>
      /\ Kept("request", Exchange(t))' \subseteq {captured[t]}
      /\ capturing => InStore("request", Exchange(t))' = {captured[t]}
      /\ storing => One(InFile("request", Exchange(t)))'
      /\ \A k \in Kinds, o \in Exchanges :
           k # "request" \/ o # Exchange(t) =>
             /\ UNCHANGED InFile(k, o) /\ Kept(k, o)' \subseteq Kept(k, o)
             /\ Nowhere(k, o) => Nowhere(k, o)'
             /\ o = Exchange(t) => UNCHANGED InStore(k, o)
  BY <1>2, Recorded DEF Kinds
<1>4. Exchange(t) \in Exchanges /\ "response" \in Kinds
      /\ \A n \in 1..MaxExchanges : n > number[t] => <<t, n>> \in Exchanges /\ <<t, n>> # Exchange(t)
  BY TunnelTypes DEF Exchange, Exchanges, Kinds, TypeOK
<1>5. SwitchesSeen(t)'
  BY <1>1, <1>3 DEF TunnelInv, SwitchesSeen, Reading, history
<1>6. NothingYet(t)'
  <2>1. \A n \in 1..MaxExchanges, kind \in Kinds : n > number[t] => Nowhere(kind, <<t, n>>)'
    BY <1>3, <1>4 DEF TunnelInv, NothingYet
  <2>2. Nowhere("response", Exchange(t))'
    BY <1>2, <1>3, <1>4
  <2>3. QED
    BY <1>1, <1>3, <2>1, <2>2 DEF NothingYet, Unheard, tunnel
<1>7. Viewed(t)'
  <2>1. Exchange(t) \notin viewLost => capturing
    BY <1>1 DEF TunnelInv, SwitchesSeen, Reading
  <2>2. Told(t)'
    BY <1>1 DEF Told, Heard, Answering
  <2>3. Shown(t)'
    BY <1>1, <1>3, <2>1 DEF Shown, Gone, history
  <2>4. QED
    BY <2>2, <2>3 DEF Viewed
<1>8. Filed(t)'
  BY <1>1, <1>3 DEF TunnelInv, SwitchesSeen, Filed, Answering, Reading, history
<1>9. ToRecord(t)'
  BY <1>1 DEF ToRecord
<1>10. Whole(t)'
  <2>1. Kept("response", Exchange(t))' = {}
    BY <1>2, <1>3, <1>4 DEF Nowhere, Kept
  <2>2. Exchange(t) \notin viewLost \cap storageLost =>
          \A r \in Kept("request", Exchange(t))' : Tells(r, request[t])
    BY <1>1, <1>3 DEF TunnelInv, ToRecord
  <2>3. QED
    BY <1>3, <2>1, <2>2 DEF Whole, tunnel, history
<1>11. QED
  BY <1>5, <1>6, <1>7, <1>8, <1>9, <1>10 DEF TunnelInv

(* An event that has been published announces its exchange. *)
LEMMA PublishedAnnounces ==
  ASSUME NEW t, NEW kind, NEW available, NEW published, Published(kind, t, available) \in published
  PROVE  \E event \in published : event.kind = kind /\ event.exchange = Exchange(t)
  BY DEF Published

(* The request has been announced. *)
LEMMA TunnelAnnounce ==
  ASSUME TypeOK, StoreInv, NEW t \in Tunnels, TunnelInv(t), PublishRequestEvent(t)
  PROVE  TunnelInv(t)'
<1>1. /\ \A kind, o : UNCHANGED <<InFile(kind, o), InStore(kind, o), Kept(kind, o), Nowhere(kind, o)>>
      /\ \A o : Gone(o) => Gone(o)'
  BY Unrecorded DEF Moves, Forward, PublishRequestEvent
<1>2. /\ pc[t] = "announce" /\ pc'[t] = "send"
      /\ UNCHANGED <<tunnel, capturing, storing, history, Exchange(t)>>
  BY DEF TypeOK, PublishRequestEvent, Step, Exchange, settings, tunnel
<1>3. capturing => Announced("request", Exchange(t))'
  <2>1. capturing => Published("request", t, FALSE) \in events'
    BY DEF PublishRequestEvent
  <2>2. Published("request", t, FALSE).kind = "request"
         /\ Published("request", t, FALSE).exchange = Exchange(t)
    BY DEF Published
  <2>3. UNCHANGED Exchange(t)
    BY <1>2
  <2>4. QED
    BY <2>1, <2>2, <2>3 DEF Announced
<1>4. SwitchesSeen(t)' /\ Filed(t)' /\ ToRecord(t)'
  BY <1>1, <1>2 DEF TunnelInv, SwitchesSeen, Filed, ToRecord, Heard, Answering, Reading, history
<1>5. Viewed(t)'
  BY <1>1, <1>2, <1>3 DEF TunnelInv, SwitchesSeen, Viewed, Told, Shown, Heard, Answering, Reading, history
<1>6. NothingYet(t)'
  BY <1>1, <1>2 DEF TunnelInv, NothingYet, Unheard, Unanswered, tunnel
<1>7. Whole(t)'
  BY <1>1, <1>2 DEF TunnelInv, Whole, tunnel, history
<1>8. QED
  BY <1>4, <1>5, <1>6, <1>7 DEF TunnelInv

(* The answer: the tee is set if somebody wants the body. *)
LEMMA TunnelAnswer ==
  ASSUME TypeOK, StoreInv, NEW t \in Tunnels, TunnelInv(t), Answer(t)
  PROVE  TunnelInv(t)'
<1>1. /\ \A kind, o : UNCHANGED <<InFile(kind, o), InStore(kind, o), Kept(kind, o), Nowhere(kind, o)>>
      /\ \A kind, o : Announced(kind, o) => Announced(kind, o)'
      /\ \A o : Gone(o) => Gone(o)'
  BY Unrecorded DEF Moves, Forward, Answer
<1>2. /\ pc[t] = "send" /\ pc'[t] = "transfer"
      /\ UNCHANGED <<number, request, captured, failed, capturing, storing, history, Exchange(t)>>
      /\ capturing \/ storing => tee'[t] = TRUE
  BY DEF TypeOK, Answer, Step, Exchange, settings
<1>3. Nowhere("response", Exchange(t))
  BY <1>2 DEF TunnelInv, NothingYet, Unanswered
<1>4. Kept("response", Exchange(t)) = {}
  BY <1>3 DEF Nowhere, Kept
<1>5. SwitchesSeen(t)' /\ ToRecord(t)'
  BY <1>2 DEF TunnelInv, SwitchesSeen, ToRecord, Reading, history
<1>6. Viewed(t)' /\ Filed(t)'
  BY <1>1, <1>2 DEF TunnelInv, SwitchesSeen, Viewed, Told, Shown, Filed, Heard, Answering, Reading, history
<1>7. NothingYet(t)'
  BY <1>1, <1>2 DEF TunnelInv, NothingYet, Unheard, Unanswered
<1>8. Whole(t)'
  BY <1>1, <1>2, <1>4 DEF TunnelInv, Whole, history
<1>9. QED
  BY <1>5, <1>6, <1>7, <1>8 DEF TunnelInv

(* The body is on its way, or has arrived. *)
LEMMA TunnelTransfer ==
  ASSUME TypeOK, StoreInv, NEW t \in Tunnels, TunnelInv(t), Transfer(t)
  PROVE  TunnelInv(t)'
<1>1. /\ \A kind, o : UNCHANGED <<InFile(kind, o), InStore(kind, o), Kept(kind, o), Nowhere(kind, o)>>
      /\ \A kind, o : Announced(kind, o) => Announced(kind, o)'
      /\ \A o : Gone(o) => Gone(o)'
  BY Unrecorded DEF Moves, Forward, Transfer
<1>2. /\ pc[t] = "transfer" /\ UNCHANGED pc
      /\ UNCHANGED <<number, request, captured, response, tee, failed, capturing, storing,
                     history, Exchange(t)>>
  BY DEF Transfer, Exchange, settings
<1>3. SwitchesSeen(t)' /\ Viewed(t)' /\ Filed(t)' /\ ToRecord(t)'
  BY <1>1, <1>2 DEF TunnelInv, SwitchesSeen, Viewed, Told, Shown, Filed, ToRecord, history
<1>4. NothingYet(t)' /\ Whole(t)'
  BY <1>1, <1>2 DEF TunnelInv, NothingYet, Whole, history
<1>5. QED
  BY <1>3, <1>4 DEF TunnelInv

(* The body has been written, or writing it has failed. *)
LEMMA TunnelTransferred ==
  ASSUME TypeOK, StoreInv, NEW t \in Tunnels, TunnelInv(t), Transferred(t)
  PROVE  TunnelInv(t)'
<1>1. /\ \A kind, o : UNCHANGED <<InFile(kind, o), InStore(kind, o), Kept(kind, o), Nowhere(kind, o)>>
      /\ \A kind, o : Announced(kind, o) => Announced(kind, o)'
      /\ \A o : Gone(o) => Gone(o)'
  BY Unrecorded DEF Moves, Forward, Transferred
<1>2. /\ pc[t] = "transfer" /\ pc'[t] = IF tee[t] THEN "recordResponse" ELSE "time"
      /\ UNCHANGED <<number, request, captured, response, tee, sent, capturing, storing, history,
                     Exchange(t)>>
      /\ failed'[t] \/ sent[t] = response[t]
  BY DEF TypeOK, Transferred, Step, Exchange, settings
<1>3. Nowhere("response", Exchange(t))
  BY <1>2 DEF TunnelInv, NothingYet, Unanswered
<1>4. Kept("response", Exchange(t)) = {}
  BY <1>3 DEF Nowhere, Kept
<1>5. SwitchesSeen(t)' /\ ToRecord(t)'
  BY <1>2 DEF TunnelInv, SwitchesSeen, ToRecord, Reading, history
<1>6. Viewed(t)'
  <2>1. Told(t)'
    BY <1>1, <1>2 DEF TunnelInv, Viewed, Told, Shown, Heard, Answering, history
  <2>2. Shown(t)'
    BY <1>1, <1>2 DEF TunnelInv, Viewed, Told, Shown, Heard, Answering, Gone, history
  <2>3. QED
    BY <2>1, <2>2 DEF Viewed
<1>7. Filed(t)'
  BY <1>1, <1>2 DEF TunnelInv, Filed, Heard, Answering, history
<1>8. NothingYet(t)'
  BY <1>1, <1>2, <1>3 DEF TunnelInv, NothingYet, Unheard
<1>9. Whole(t)'
  BY <1>1, <1>2, <1>4 DEF TunnelInv, Whole, history
<1>10. QED
  BY <1>5, <1>6, <1>7, <1>8, <1>9 DEF TunnelInv

(* The response is recorded wherever somebody wants it. *)
LEMMA TunnelRecordResponse ==
  ASSUME TypeOK, StoreInv, NEW t \in Tunnels, TunnelInv(t), RecordResponse(t)
  PROVE  TunnelInv(t)'
<1>1. pc[t] = "recordResponse" /\ pc'[t] = "publish"
  BY DEF TypeOK, RecordResponse, Step
<1>2. Nowhere("response", Exchange(t))
  BY <1>1 DEF TunnelInv, NothingYet, Unanswered
<1>3. /\ UNCHANGED <<Exchange(t), tunnel, capturing, storing, history, events>>
      /\ Kept("response", Exchange(t))' \subseteq {CapturedResponse(t)}
      /\ capturing => InStore("response", Exchange(t))' = {CapturedResponse(t)}
      /\ storing => One(InFile("response", Exchange(t)))'
      /\ \A k \in Kinds, o \in Exchanges :
           k # "response" \/ o # Exchange(t) =>
             /\ UNCHANGED InFile(k, o) /\ Kept(k, o)' \subseteq Kept(k, o)
             /\ Nowhere(k, o) => Nowhere(k, o)'
             /\ o = Exchange(t) => UNCHANGED InStore(k, o)
      /\ Gone(Exchange(t)) => Gone(Exchange(t))'
  BY <1>1, <1>2, Recorded DEF Kinds, RecordRequest, Step
<1>4. Exchange(t) \in Exchanges /\ "request" \in Kinds
      /\ \A n \in 1..MaxExchanges : n > number[t] => <<t, n>> \in Exchanges /\ <<t, n>> # Exchange(t)
  BY TunnelTypes DEF Exchange, Exchanges, Kinds, TypeOK
<1>5. /\ UNCHANGED <<CapturedResponse(t), InFile("request", Exchange(t)),
                    InStore("request", Exchange(t))>>
      /\ Kept("request", Exchange(t))' \subseteq Kept("request", Exchange(t))
  BY <1>3, <1>4 DEF CapturedResponse, tunnel
<1>6. SwitchesSeen(t)'
  BY <1>1, <1>3 DEF TunnelInv, SwitchesSeen, Reading, history
<1>7. NothingYet(t)'
  <2>1. \A n \in 1..MaxExchanges, kind \in Kinds : n > number[t] => Nowhere(kind, <<t, n>>)'
    BY <1>3, <1>4 DEF TunnelInv, NothingYet
  <2>2. QED
    BY <1>1, <1>3, <2>1 DEF NothingYet, Unheard, Unanswered, tunnel
<1>8. Viewed(t)'
  <2>1. Exchange(t) \notin viewLost => capturing
    BY <1>1 DEF TunnelInv, SwitchesSeen, Reading
  <2>2. Told(t)'
    BY <1>1, <1>3 DEF TunnelInv, Viewed, Told, Heard, Answering, Announced, history, tunnel
  <2>3. Shown(t)'
    BY <1>1, <1>3, <1>5, <2>1 DEF TunnelInv, Viewed, Shown, Heard, Gone, history
  <2>4. QED
    BY <2>2, <2>3 DEF Viewed
<1>9. Filed(t)'
  BY <1>1, <1>3, <1>5 DEF TunnelInv, SwitchesSeen, Filed, Heard, Answering, Reading, history, tunnel
<1>10. ToRecord(t)'
  BY <1>1 DEF ToRecord
<1>11. Whole(t)'
  <2>1. ~failed[t] => \A r \in Kept("response", Exchange(t))' : Tells(r, response[t])
    BY <1>1, <1>3, TunnelTypes DEF TunnelInv, ToRecord
  <2>2. QED
    BY <1>1, <1>3, <1>5, <2>1 DEF TunnelInv, Whole, tunnel, history
<1>12. QED
  BY <1>6, <1>7, <1>8, <1>9, <1>10, <1>11 DEF TunnelInv

(* The response has been announced. *)
LEMMA TunnelPublish ==
  ASSUME TypeOK, StoreInv, NEW t \in Tunnels, TunnelInv(t), PublishResponseEvent(t)
  PROVE  TunnelInv(t)'
<1>1. /\ \A kind, o : UNCHANGED <<InFile(kind, o), InStore(kind, o), Kept(kind, o), Nowhere(kind, o)>>
      /\ \A kind, o : Announced(kind, o) => Announced(kind, o)'
      /\ \A o : Gone(o) => Gone(o)'
  BY Unrecorded DEF Moves, Forward, PublishResponseEvent
<1>2. /\ pc[t] = "publish" /\ pc'[t] = "time"
      /\ UNCHANGED <<tunnel, capturing, storing, history, Exchange(t)>>
  BY DEF TypeOK, PublishResponseEvent, Step, Exchange, settings, tunnel
<1>3. capturing => Announced("response", Exchange(t))'
  <2>1. capturing => Published("response", t, CapturedResponse(t).bytes > 0) \in events'
    BY Zenon DEF PublishResponseEvent
  <2>2. QED
    BY <1>2, <2>1, PublishedAnnounces DEF Announced
<1>4. SwitchesSeen(t)' /\ Filed(t)' /\ ToRecord(t)'
  BY <1>1, <1>2 DEF TunnelInv, SwitchesSeen, Filed, ToRecord, Heard, Answering, Reading, history,
                    tunnel
<1>5. Viewed(t)'
  BY <1>1, <1>2, <1>3 DEF TunnelInv, SwitchesSeen, Viewed, Told, Shown, Heard, Answering, Reading, history, tunnel
<1>6. NothingYet(t)'
  BY <1>1, <1>2 DEF TunnelInv, NothingYet, Unheard, Unanswered, tunnel
<1>7. Whole(t)'
  BY <1>1, <1>2 DEF TunnelInv, Whole, tunnel, history
<1>8. QED
  BY <1>4, <1>5, <1>6, <1>7 DEF TunnelInv

(* The tunnel turns to the next exchange, of which nothing is known, or ends.     *)
LEMMA TunnelTime ==
  ASSUME TypeOK, StoreInv, NEW t \in Tunnels, TunnelInv(t), RecordTiming(t)
  PROVE  TunnelInv(t)'
<1>1. \A kind \in Kinds, o \in Exchanges :
        /\ Kept(kind, o)' \subseteq Kept(kind, o)
        /\ Nowhere(kind, o) => Nowhere(kind, o)'
  <2>1. Moves(t) /\ ~RecordRequest(t) /\ ~RecordResponse(t)
         /\ \A kind \in Kinds : kind \in Store!Parts \ {"timing"}
    BY DEF Moves, Forward, RecordTiming, RecordRequest, RecordResponse, Step, Kinds, Store!Parts
  <2>2. \A kind \in Kinds, o \in Exchanges :
          UNCHANGED InFile(kind, o) /\ InStore(kind, o)' \in {InStore(kind, o), {}}
    BY <2>1, FileMoves, StoreMoves
  <2>3. QED
    BY <2>2 DEF Kept, Nowhere
<1>2. /\ pc[t] = "time"
      /\ UNCHANGED <<request, captured, response, tee, sent, failed, viewLost, storageLost>>
      /\ \/ pc'[t] = "read" /\ number'[t] = number[t] + 1 /\ number[t] + 1 \in 1..MaxExchanges
         \/ pc'[t] = "ended" /\ UNCHANGED number
      /\ number[t] \in Nat
  BY InterceptorAssumption DEF TypeOK, RecordTiming
<1>3. \A n \in 1..MaxExchanges : <<t, n>> \in Exchanges
  BY DEF Exchanges
<1>4. SwitchesSeen(t)' /\ Viewed(t)' /\ Filed(t)' /\ ToRecord(t)'
  BY <1>2 DEF SwitchesSeen, Viewed, Told, Shown, Filed, ToRecord, Heard, Answering, Reading
<1>5. \A n \in 1..MaxExchanges, kind \in Kinds : n > number[t] => Nowhere(kind, <<t, n>>)'
  BY <1>1, <1>3 DEF TunnelInv, NothingYet
<1>6. NothingYet(t)'
  <2>1. CASE pc'[t] = "read"
    <3>1. Exchange(t)' = <<t, number[t] + 1>> /\ number'[t] = number[t] + 1
      BY <1>2, <2>1 DEF Exchange
    <3>2. \A kind \in Kinds : Nowhere(kind, Exchange(t))'
      BY <1>2, <1>5, <3>1
    <3>3. QED
      BY <1>2, <1>5, <3>1, <3>2 DEF NothingYet, Kinds
  <2>2. CASE pc'[t] = "ended"
    BY <1>2, <1>5, <2>2 DEF NothingYet, Unheard, Unanswered
  <2>3. QED
    BY <1>2, <2>1, <2>2
<1>7. Whole(t)'
  <2>1. CASE pc'[t] = "read"
    BY <2>1 DEF Whole
  <2>2. CASE pc'[t] = "ended"
    <3>1. UNCHANGED Exchange(t) /\ Exchange(t) \in Exchanges
      BY <1>2, <2>2, TunnelTypes DEF Exchange
    <3>2. \A kind \in Kinds : Kept(kind, Exchange(t))' \subseteq Kept(kind, Exchange(t))
      BY <1>1, <3>1
    <3>3. QED
      BY <1>2, <3>1, <3>2 DEF TunnelInv, Whole, Kinds
  <2>3. QED
    BY <1>2, <2>1, <2>2
<1>8. QED
  BY <1>4, <1>6, <1>7 DEF TunnelInv

(* A tunnel's own step. *)
LEMMA TunnelMoves ==
  ASSUME TypeOK, StoreInv, NEW t \in Tunnels, Moves(t), TunnelInv(t)
  PROVE  TunnelInv(t)'
  BY TunnelRead, TunnelLeave, TunnelCapture, TunnelRecord, TunnelAnnounce, TunnelAnswer,
     TunnelTransfer, TunnelTransferred, TunnelRecordResponse, TunnelPublish, TunnelTime
  DEF Moves, Forward

-----------------------------------------------------------------------------
(* Exchanges that have gone all the way, and events *)

(* A tunnel under way is at an exchange that has not been answered. *)
LEMMA UnderWay ==
  ASSUME AnsweredInv, NEW t \in Tunnels, pc[t] # "ended", number[t] \in Nat
  PROVE  Exchange(t) \notin answered
  BY DEF AnsweredInv, Exchange

(* An exchange is answered by the timing step of its tunnel, and only by that. *)
LEMMA AnsweredMoves ==
  ASSUME NEW t \in Tunnels, Moves(t)
  PROVE  answered' = IF RecordTiming(t) THEN answered \cup {Exchange(t)} ELSE answered
  BY DEF Moves, ReadRequest, LeaveTunnel, Forward, CaptureRequest, RecordRequest, PublishRequestEvent,
         Answer, Transfer, Transferred, RecordResponse, PublishResponseEvent, RecordTiming, history

(* Tunnels never go back. *)
LEMMA AnsweredStep ==
  ASSUME TypeOK, AnsweredInv, NEW t \in Tunnels, Moves(t)
  PROVE  AnsweredInv'
<1>1. number[t] \in Nat /\ pc[t] # "ended" /\ t \in DOMAIN pc /\ t \in DOMAIN number
  BY MovesAlone, InterceptorAssumption DEF TypeOK
<1>2. Exchange(t) \notin answered
  BY <1>1, UnderWay
<1>3. \/ UNCHANGED number
      \/ RecordTiming(t) /\ number' = [number EXCEPT ![t] = @ + 1]
  BY DEF Moves, ReadRequest, LeaveTunnel, Forward, CaptureRequest, RecordRequest, PublishRequestEvent,
         Answer, Transfer, Transferred, RecordResponse, PublishResponseEvent, RecordTiming, tunnel
<1>4. ASSUME NEW e \in answered
      PROVE  (e[2] < number[e[1]] \/ (e[2] = number[e[1]] /\ pc[e[1]] = "ended"))'
  <2>1. e \in Exchanges /\ e[1] \in Tunnels /\ e[2] \in Nat /\ e = <<e[1], e[2]>>
    BY DEF TypeOK, Exchanges
  <2>2. e[2] < number[e[1]] \/ (e[2] = number[e[1]] /\ pc[e[1]] = "ended")
    BY DEF AnsweredInv
  <2>3. CASE e[1] # t
    BY <2>1, <2>2, <2>3, MovesAlone
  <2>4. CASE e[1] = t
    <3>1. e[2] < number[t]
      BY <1>1, <2>2, <2>4
    <3>2. number'[t] >= number[t]
      BY <1>1, <1>3
    <3>3. number'[t] \in Nat
      BY <1>1, <1>3
    <3>4. QED
      BY <1>1, <2>1, <2>4, <3>1, <3>2, <3>3
  <2>5. QED
    BY <2>3, <2>4
<1>5. CASE RecordTiming(t)
  <2>1. (number[t] < number'[t]) \/ (number'[t] = number[t] /\ pc'[t] = "ended")
    BY <1>1, <1>5 DEF RecordTiming
  <2>2. Exchange(t)[1] = t /\ Exchange(t)[2] = number[t]
    BY DEF Exchange
  <2>3. QED
    BY <1>4, <1>5, <2>1, <2>2, AnsweredMoves DEF AnsweredInv
<1>6. CASE ~RecordTiming(t)
  BY <1>4, <1>6, AnsweredMoves DEF AnsweredInv
<1>7. QED
  BY <1>5, <1>6

(* SteadyViewIsComplete, of one exchange. *)
Complete(e) ==
  /\ Recent(e) => \A part \in Store!Parts : InStore(part, e) # {}
  /\ \A kind \in Kinds : Announced(kind, e)

(* A timing step completes what the live view has of the exchange. *)
LEMMA ViewStep ==
  ASSUME TypeOK, StoreInv, AnsweredInv, SteadyViewIsComplete,
         NEW t \in Tunnels, Moves(t), TunnelInv(t)
  PROVE  SteadyViewIsComplete'
<1>1. number[t] \in Nat /\ pc[t] # "ended" /\ Exchange(t) \in Exchanges
  BY MovesAlone, TunnelTypes, InterceptorAssumption DEF TypeOK
<1>2. Exchange(t) \notin answered
  BY <1>1, UnderWay
<1>3. \A kind, o : Announced(kind, o) => Announced(kind, o)'
  BY MovesAlone DEF Announced
<1>4. ASSUME NEW e \in answered, e \notin viewLost
      PROVE  Complete(e)'
  <2>1. Complete(e)
    BY <1>4 DEF SteadyViewIsComplete, Complete, InStore, Announced, Kinds
  <2>2. e \in Exchanges /\ e # Exchange(t)
    BY <1>2 DEF TypeOK
  <2>3. Recent(e)' => Recent(e) /\ \A part \in Store!Parts : UNCHANGED InStore(part, e)
    BY <2>2, StoreMoves
  <2>4. UNCHANGED Store!Parts
    BY DEF Store!Parts
  <2>5. QED
    BY <1>3, <2>1, <2>3, <2>4 DEF Complete
<1>5. ASSUME RecordTiming(t), Exchange(t) \notin viewLost
      PROVE  \A e \in {Exchange(t)} : Complete(e)'
  <2>1. pc[t] = "time" /\ UNCHANGED viewLost
    BY <1>5 DEF RecordTiming
  <2>2. capturing
    BY <1>5, <2>1 DEF TunnelInv, SwitchesSeen, Reading
  <2>3. /\ Announced("request", Exchange(t)) /\ Announced("response", Exchange(t))
        /\ Recent(Exchange(t)) => /\ InStore("request", Exchange(t)) # {}
                                 /\ InStore("response", Exchange(t)) # {}
    BY <1>5, <2>1 DEF TunnelInv, Viewed, Told, Shown, Heard, Gone
  <2>4. Show("timing", Exchange(t), Timing) /\ Store!Parts = {"request", "response", "timing"}
    BY <1>5 DEF RecordTiming, Store!Parts
  <2>5. \A e \in {Exchange(t)} :
          /\ \A p \in Store!Parts : InStore(p, e)' = IF p = "timing" THEN {Timing} ELSE InStore(p, e)
          /\ Recent(e)' => Recent(e)
    BY <1>1, <2>2, <2>4, NothingIsRecord, ShowPut
  <2>6. \A e \in {Exchange(t)} : Recent(e)' => \A p \in Store!Parts : InStore(p, e)' # {}
    BY <2>3, <2>4, <2>5
  <2>7. QED
    BY <1>3, <2>3, <2>6 DEF Complete, Kinds, Store!Parts
<1>6. \A e \in answered' \ viewLost' : Complete(e)'
  BY <1>4, <1>5, AnsweredMoves, MovesAlone
<1>7. QED
  BY <1>6 DEF SteadyViewIsComplete, Complete, InStore, Announced, Kinds, Store!Parts

(* A set with one element. *)
LEMMA OneIsOne ==
  ASSUME NEW set, One(set)
  PROVE  Cardinality(set) = 1
  BY FS_Singleton DEF One

(* Records are added to the file in their order, and only while their tunnel is   *)
(* at the exchange.                                                         *)
LEMMA FileStep ==
  ASSUME TypeOK, AnsweredInv, SteadyStorageIsComplete, NEW t \in Tunnels, Moves(t), TunnelInv(t)
  PROVE  SteadyStorageIsComplete'
<1>1. number[t] \in Nat /\ pc[t] # "ended"
  BY MovesAlone, InterceptorAssumption DEF TypeOK
<1>2. Exchange(t) \notin answered
  BY <1>1, UnderWay
<1>3. storageLost \subseteq storageLost'
  BY MovesAlone
<1>4. ASSUME NEW e \in answered', e \notin storageLost'
      PROVE  Cardinality(InFile("request", e)') = 1 /\ Cardinality(InFile("response", e)') = 1
  <2>1. CASE e \in answered
    <3>1. UNCHANGED <<InFile("request", e), InFile("response", e)>>
      BY <1>2, <2>1, FileMoves
    <3>2. QED
      BY <1>3, <1>4, <2>1, <3>1 DEF SteadyStorageIsComplete
  <2>2. CASE e \notin answered
    <3>1. RecordTiming(t) /\ e = Exchange(t)
      BY <2>2, AnsweredMoves
    <3>2. UNCHANGED file /\ pc[t] = "time"
      BY <3>1 DEF RecordTiming
    <3>3. One(InFile("request", e)) /\ One(InFile("response", e))
      BY <1>3, <1>4, <3>1, <3>2 DEF TunnelInv, Filed, Heard
    <3>4. UNCHANGED <<InFile("request", e), InFile("response", e)>>
      BY <3>2 DEF InFile
    <3>5. QED
      BY <3>3, <3>4, OneIsOne
  <2>3. QED
    BY <2>1, <2>2
<1>5. ASSUME NEW e \in Exchanges, e \notin storageLost', InFile("response", e)' # {}
      PROVE  InFile("request", e)' # {}
  <2>1. InFile("request", e) \subseteq InFile("request", e)'
    BY FileMoves
  <2>2. InFile("request", e) # {}
    <3>1. CASE UNCHANGED InFile("response", e)
      BY <1>3, <1>5, <3>1 DEF SteadyStorageIsComplete
    <3>2. CASE RecordResponse(t) /\ e = Exchange(t)
      <4>1. pc[t] = "recordResponse"
        BY <3>2 DEF RecordResponse, Step
      <4>2. One(InFile("request", e))
        BY <1>3, <1>5, <3>2, <4>1 DEF TunnelInv, Filed, Heard
      <4>3. QED
        BY <4>2 DEF One
    <3>3. QED
      BY <3>1, <3>2, FileMoves
  <2>3. QED
    BY <2>1, <2>2
<1>6. QED
  BY <1>4, <1>5 DEF SteadyStorageIsComplete

(* The events that a step of a tunnel adds. *)
LEMMA EventMoves ==
  ASSUME NEW t \in Tunnels, Moves(t), NEW event \in events', event \notin events, event.available
  PROVE  /\ PublishResponseEvent(t) /\ capturing
         /\ event.exchange = Exchange(t) /\ CapturedResponse(t).bytes > 0
<1>1. CASE PublishRequestEvent(t)
  BY <1>1 DEF PublishRequestEvent, Published
<1>2. CASE PublishResponseEvent(t)
  <2>1. capturing /\ event = Published("response", t, CapturedResponse(t).bytes > 0)
    BY <1>2, Zenon DEF PublishResponseEvent
  <2>2. event.exchange = Exchange(t) /\ event.available = (CapturedResponse(t).bytes > 0)
    BY <2>1 DEF Published
  <2>3. QED
    BY <1>2, <2>1, <2>2
<1>3. CASE UNCHANGED events
  BY <1>3
<1>4. QED
  BY <1>1, <1>2, <1>3
  DEF Moves, ReadRequest, LeaveTunnel, Forward, CaptureRequest, RecordRequest,
      Answer, Transfer, Transferred, RecordResponse, RecordTiming, history

(* A body is announced in the last place but one, and answered in the last. *)
LEMMA EventStep ==
  ASSUME TypeOK, EventInv, NEW t \in Tunnels, Moves(t)
  PROVE  EventInv'
<1>1. ASSUME NEW event \in events, event.available
      PROVE  \/ event.exchange \in answered'
             \/ \E u \in Tunnels : event.exchange = Exchange(u)' /\ pc'[u] = "time"
  <2>1. CASE event.exchange \in answered
    BY <2>1, MovesAlone
  <2>2. ASSUME NEW u \in Tunnels, event.exchange = Exchange(u), pc[u] = "time"
        PROVE  \/ event.exchange \in answered'
               \/ event.exchange = Exchange(u)' /\ pc'[u] = "time"
    <3>1. CASE u # t
      BY <2>2, <3>1, MovesAlone DEF Exchange
    <3>2. CASE u = t
      <4>1. RecordTiming(t)
        BY <2>2, <3>2 DEF Moves, ReadRequest, LeaveTunnel, Forward, CaptureRequest, RecordRequest,
           PublishRequestEvent, Answer, Transfer, Transferred, RecordResponse,
           PublishResponseEvent, Step
      <4>2. QED
        BY <2>2, <3>2, <4>1, AnsweredMoves
    <3>3. QED
      BY <3>1, <3>2
  <2>3. QED
    BY <1>1, <2>1, <2>2 DEF EventInv
<1>2. ASSUME NEW event \in events', event \notin events, event.available
      PROVE  event.exchange = Exchange(t)' /\ pc'[t] = "time"
  <2>1. PublishResponseEvent(t) /\ event.exchange = Exchange(t)
    BY <1>2, EventMoves
  <2>2. QED
    BY <2>1 DEF TypeOK, PublishResponseEvent, Step, Exchange, tunnel
<1>3. QED
  BY <1>1, <1>2 DEF EventInv

(* What an event said is available stays in the store. *)
LEMMA AvailableStep ==
  ASSUME TypeOK, StoreInv, AnsweredInv, EventInv, AvailableBodiesAreStored,
         NEW t \in Tunnels, Moves(t), TunnelInv(t)
  PROVE  AvailableBodiesAreStored'
<1>1. number[t] \in Nat /\ pc[t] # "ended" /\ Exchange(t) \in Exchanges
  BY MovesAlone, TunnelTypes, InterceptorAssumption DEF TypeOK
<1>2. Exchange(t) \notin answered /\ viewLost \subseteq viewLost'
  BY <1>1, UnderWay, MovesAlone
<1>3. ASSUME NEW event \in events, event.available, event.exchange \notin viewLost',
             Recent(event.exchange)'
      PROVE  \E r \in InStore("response", event.exchange)' : ~r.skipped /\ r.bytes > 0
  <2>1. event.exchange \in Exchanges /\ "response" \in Store!Parts
    BY DEF TypeOK, Store!Parts
  <2>2. ~(RecordResponse(t) /\ event.exchange = Exchange(t))
    <3>1. SUFFICES ASSUME RecordResponse(t), event.exchange = Exchange(t)
                   PROVE  FALSE
      OBVIOUS
    <3>2. PICK u \in Tunnels : event.exchange = Exchange(u) /\ pc[u] = "time"
      BY <1>2, <1>3, <3>1 DEF EventInv
    <3>3. u = t
      BY <3>1, <3>2 DEF Exchange
    <3>4. QED
      BY <3>1, <3>2, <3>3 DEF RecordResponse, Step
  <2>3. UNCHANGED InStore("response", event.exchange)
    BY <1>3, <2>1, <2>2, StoreMoves
  <2>4. Recent(event.exchange)
    <3>1. ~(RecordRequest(t) /\ event.exchange = Exchange(t))
      <4>1. SUFFICES ASSUME RecordRequest(t), event.exchange = Exchange(t)
                     PROVE  FALSE
        OBVIOUS
      <4>2. PICK u \in Tunnels : event.exchange = Exchange(u) /\ pc[u] = "time"
        BY <1>2, <1>3, <4>1 DEF EventInv
      <4>3. u = t
        BY <4>1, <4>2 DEF Exchange
      <4>4. QED
        BY <4>1, <4>2, <4>3 DEF RecordRequest, Step
    <3>2. QED
      BY <1>3, <2>1, <3>1, StoreMoves
  <2>5. QED
    BY <1>2, <1>3, <2>3, <2>4 DEF AvailableBodiesAreStored
<1>4. ASSUME NEW event \in events', event \notin events, event.available,
             event.exchange \notin viewLost', Recent(event.exchange)'
      PROVE  \E r \in InStore("response", event.exchange)' : ~r.skipped /\ r.bytes > 0
  <2>1. PublishResponseEvent(t) /\ event.exchange = Exchange(t) /\ CapturedResponse(t).bytes > 0
    BY <1>4, EventMoves
  <2>2. pc[t] = "publish" /\ UNCHANGED <<store, ages>>
    BY <2>1 DEF PublishResponseEvent, Step
  <2>3. /\ UNCHANGED InStore("response", event.exchange)
        /\ Recent(event.exchange)' = Recent(event.exchange)
    BY <2>2, StoreUntouched
  <2>4. InStore("response", event.exchange) = {CapturedResponse(t)}
    BY <1>2, <1>4, <2>1, <2>2, <2>3 DEF TunnelInv, Viewed, Shown, Gone
  <2>5. ~CapturedResponse(t).skipped
    <3>1. CapturedResponse(t).skipped => CapturedResponse(t).bytes = 0
      BY TunnelTypes DEF CapturedResponse, Captured
    <3>2. QED
      BY <2>1, <3>1
  <2>6. QED
    BY <2>1, <2>3, <2>4, <2>5
<1>5. QED
  BY <1>3, <1>4 DEF AvailableBodiesAreStored, Recent

(* The settings and the store change: the promises that are broken by it are       *)
(* taken back in the history.                                                *)
LEMMA PromisesChange ==
  ASSUME ExchangeInv, Changes
  PROVE  /\ AnsweredInv' /\ SteadyExchangesAreComplete'
         /\ EventInv' /\ AvailableBodiesAreStored'
<1>1. /\ TypeOK /\ StoreInv /\ AnsweredInv /\ EventInv
      /\ SteadyViewIsComplete /\ SteadyStorageIsComplete /\ AvailableBodiesAreStored
  BY DEF ExchangeInv, SteadyExchangesAreComplete
<1>2. /\ UNCHANGED <<pc, number, file, events, answered>>
      /\ viewLost \subseteq viewLost' /\ storageLost \subseteq storageLost'
  BY <1>1, ChangesAlone DEF tunnel
<1>3. \A part \in Store!Parts, o \in Exchanges :
        Recent(o)' /\ o \notin viewLost' => UNCHANGED InStore(part, o) /\ Recent(o)
  BY <1>1, ChangesAlone DEF Gone
<1>4. UNCHANGED <<AnsweredInv, EventInv>>
  BY <1>2 DEF AnsweredInv, EventInv, Exchange
<1>5. SteadyViewIsComplete'
  <2>1. ASSUME NEW e \in answered, e \notin viewLost'
        PROVE  Complete(e)'
    <3>1. Complete(e)
      BY <1>1, <1>2, <2>1 DEF SteadyViewIsComplete, Complete, InStore, Announced, Kinds
    <3>2. e \in Exchanges /\ "request" \in Store!Parts /\ UNCHANGED Store!Parts
      BY <1>1, <2>1 DEF TypeOK, Store!Parts
    <3>3. Recent(e)' => Recent(e) /\ \A part \in Store!Parts : UNCHANGED InStore(part, e)
      BY <1>3, <2>1, <3>2
    <3>4. QED
      BY <1>2, <3>1, <3>2, <3>3 DEF Complete, Announced
  <2>2. QED
    BY <1>2, <2>1 DEF SteadyViewIsComplete, Complete, InStore, Announced, Kinds, Store!Parts
<1>6. SteadyStorageIsComplete'
  <2>1. \A kind, o : UNCHANGED InFile(kind, o)
    BY <1>2 DEF InFile
  <2>2. QED
    BY <1>1, <1>2, <2>1 DEF SteadyStorageIsComplete
<1>7. AvailableBodiesAreStored'
  <2>1. ASSUME NEW event \in events, event.exchange \notin viewLost', Recent(event.exchange)'
        PROVE  UNCHANGED InStore("response", event.exchange) /\ Recent(event.exchange)
    <3>1. event.exchange \in Exchanges /\ "response" \in Store!Parts
      BY <1>1 DEF TypeOK, Store!Parts
    <3>2. QED
      BY <1>3, <2>1, <3>1
  <2>2. QED
    BY <1>1, <1>2, <2>1 DEF AvailableBodiesAreStored
<1>8. QED
  BY <1>1, <1>4, <1>5, <1>6, <1>7 DEF SteadyExchangesAreComplete

-----------------------------------------------------------------------------
(* The theorems *)

(* In the beginning nothing is known of any exchange. *)
LEMMA InitExchanges == Init => ExchangeInv
<1> SUFFICES ASSUME Init PROVE ExchangeInv
  OBVIOUS
<1>1. StoreInv /\ \A p \in Store!Parts, o \in Exchanges : InStore(p, o) = {}
  BY StoreInit
<1>2. 0 \in Bodies /\ 1 \in 1..MaxExchanges /\ 0 \in 0..MaxChanges /\ 0 <= 0
  BY InterceptorAssumption DEF Bodies
<1>3. Store!TypeOK
  BY <1>1, StoreType
<1>4. TypeOK
  BY <1>2, <1>3, NothingIsRecord DEF Init, TypeOK
<1>5. ASSUME NEW t \in Tunnels PROVE TunnelInv(t)
  <2>1. pc[t] = "read" /\ Exchange(t) \in Exchanges
         /\ \A n \in 1..MaxExchanges : <<t, n>> \in Exchanges
    BY <1>4, TunnelTypes DEF Init, Exchanges
  <2>2. \A kind \in Kinds, o \in Exchanges : Nowhere(kind, o)
    BY <1>1 DEF Init, Kinds, Nowhere, InFile, Store!Parts
  <2>3. NothingYet(t)
    BY <2>1, <2>2 DEF NothingYet, Kinds
  <2>4. SwitchesSeen(t) /\ Viewed(t) /\ Filed(t) /\ ToRecord(t) /\ Whole(t)
    BY <2>1 DEF SwitchesSeen, Viewed, Told, Shown, Filed, ToRecord, Whole, Reading, Heard, Answering
  <2>5. QED
    BY <2>3, <2>4 DEF TunnelInv
<1>6. AnsweredInv /\ EventInv /\ AvailableBodiesAreStored /\ SteadyViewIsComplete
  BY DEF Init, AnsweredInv, EventInv, AvailableBodiesAreStored, SteadyViewIsComplete
<1>7. SteadyStorageIsComplete
  BY DEF Init, SteadyStorageIsComplete, InFile
<1>8. QED
  BY <1>1, <1>4, <1>5, <1>6, <1>7 DEF ExchangeInv, SteadyExchangesAreComplete

(* Every step keeps what is known of the exchanges. *)
LEMMA NextExchanges ==
  ASSUME ExchangeInv, Next
  PROVE  ExchangeInv'
<1>1. /\ TypeOK /\ StoreInv /\ AnsweredInv /\ EventInv
      /\ SteadyViewIsComplete /\ SteadyStorageIsComplete /\ AvailableBodiesAreStored
      /\ \A t \in Tunnels : TunnelInv(t)
  BY DEF ExchangeInv, SteadyExchangesAreComplete
<1>2. ASSUME NEW t \in Tunnels, Moves(t) PROVE ExchangeInv'
  <2>1. TypeOK' /\ StoreInv'
    BY <1>1, <1>2, TypeMoves, StoreMoves
  <2>2. \A u \in Tunnels : TunnelInv(u)'
    <3>1. TunnelInv(t)'
      BY <1>1, <1>2, TunnelMoves
    <3>2. ASSUME NEW u \in Tunnels \ {t} PROVE TunnelInv(u)'
      BY <1>1, <1>2, TunnelOthers
    <3>3. QED
      BY <3>1, <3>2
  <2>3. AnsweredInv' /\ EventInv'
    BY <1>1, <1>2, AnsweredStep, EventStep
  <2>4. SteadyViewIsComplete' /\ SteadyStorageIsComplete' /\ AvailableBodiesAreStored'
    BY <1>1, <1>2, ViewStep, FileStep, AvailableStep
  <2>5. QED
    BY <2>1, <2>2, <2>3, <2>4 DEF ExchangeInv, SteadyExchangesAreComplete
<1>3. CASE Changes
  <2>1. TypeOK' /\ StoreInv'
    BY <1>1, <1>3, ChangesAlone
  <2>2. \A t \in Tunnels : TunnelInv(t)'
    BY <1>1, <1>3, TunnelChanges
  <2>3. QED
    BY <1>3, <2>1, <2>2, PromisesChange DEF ExchangeInv
<1>4. QED
  BY <1>2, <1>3 DEF Next, Moves, Changes

(* Nothing changes. *)
LEMMA StutterExchanges ==
  ASSUME ExchangeInv, UNCHANGED vars
  PROVE  ExchangeInv'
<1>1. UNCHANGED <<pc, tunnel, settings, store, ages, file, events, history>>
  BY DEF vars
<1>2. /\ UNCHANGED <<pc, number, request, captured, response, tee, limit, sent, failed>>
      /\ UNCHANGED <<capturing, storing, maximum, changes, queue, entries, file, events>>
      /\ UNCHANGED <<viewLost, storageLost, answered, taken, born>>
  BY <1>1 DEF tunnel, settings, store, ages, history
<1>3. StoreInv' /\ \A p, o : UNCHANGED InStore(p, o) /\ Recent(o)' = Recent(o)
  BY <1>1, StoreUntouched DEF ExchangeInv
<1>4. TypeOK'
  BY <1>2 DEF ExchangeInv, TypeOK, Store!TypeOK, Store!Exchange, Store!Parts
<1>5. \A kind, o : UNCHANGED InFile(kind, o)
  BY <1>2 DEF InFile
<1>6. \A t \in Tunnels : TunnelInv(t)'
  BY <1>2, <1>3, <1>5, TunnelBystander DEF ExchangeInv, TypeOK, Exchange, Recent
<1>7. AnsweredInv' /\ EventInv'
  BY <1>2 DEF ExchangeInv, AnsweredInv, EventInv, Exchange
<1>8. SteadyViewIsComplete' /\ AvailableBodiesAreStored'
  BY <1>2, <1>3 DEF ExchangeInv, SteadyExchangesAreComplete, SteadyViewIsComplete,
                    AvailableBodiesAreStored,
     Store!Held, Store!Parts
<1>9. SteadyStorageIsComplete'
  BY <1>2, <1>5 DEF ExchangeInv, SteadyExchangesAreComplete, SteadyStorageIsComplete
<1>10. QED
  BY <1>3, <1>4, <1>6, <1>7, <1>8, <1>9 DEF ExchangeInv, SteadyExchangesAreComplete

(* The inductive invariant: for each place a tunnel can be at, what the store,    *)
(* the file and the events have of its exchange.                              *)
THEOREM ExchangesInductive == Spec => []ExchangeInv
<1>1. Init => ExchangeInv
  BY InitExchanges
<1>2. ExchangeInv /\ [Next]_vars => ExchangeInv'
  BY NextExchanges, StutterExchanges
<1>3. QED
  BY <1>1, <1>2, PTL DEF Spec

(* forward, recordRequest, recordResponse, recordTiming: live view and storage    *)
(* are kept apart.  The file has every exchange that happened while storage was  *)
(* on, with its parts in their order; the live view has every exchange that      *)
(* happened while it was on, was not cleared, and has not been followed by as    *)
(* many others as the store holds: whatever else is switched meanwhile.        *)
THEOREM SteadyComplete == Spec => []SteadyExchangesAreComplete
<1>1. ExchangeInv => SteadyExchangesAreComplete
  BY DEF ExchangeInv
<1>2. QED
  BY <1>1, ExchangesInductive, PTL

(* capBody, captureLimitWriter, publishResponseEvent: what the store, the file    *)
(* and the events say about bodies is true of them, for the exchanges that        *)
(* BodiesAreWhole and AvailableBodiesAreStored speak of.                        *)
THEOREM BodiesTold == Spec => []BodiesAreTold
<1>1. ExchangeInv => BodiesAreTold
  BY DEF ExchangeInv, BodiesAreTold, BodiesAreWhole, TunnelInv, Whole
<1>2. QED
  BY <1>1, ExchangesInductive, PTL

===============================================================================
