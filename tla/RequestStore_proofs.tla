------------------------- MODULE RequestStore_proofs -------------------------
(***************************************************************************)
(* Proofs about RequestStore, for any set of ids and records and any size.  *)
(*                                                                         *)
(* The inductive invariant is the agreement of queue and map together with  *)
(* the bound on the queue: without the bound Enqueue could drop several ids *)
(* at once, without the agreement the id it drops could be one it keeps.    *)
(***************************************************************************)
EXTENDS RequestStore, TLAPS, FiniteSetTheorems

QueueBounded == Len(queue) <= Bound

IndInv == TypeOK /\ QueueMatchesEntries /\ QueueBounded

(* The size the store really has is a positive number, whatever the caller  *)
(* of NewRequestStore asked for.                                            *)
LEMMA BoundPositive == Bound \in Nat /\ Bound >= 1
  BY RequestStoreAssumption DEF Bound

(* What Enqueue does to a queue that is within the bound: it appends while  *)
(* there is room, and otherwise drops exactly the oldest id.                *)
LEMMA EnqueueRoom ==
  ASSUME IndInv, NEW id \in Ids, NEW exchange \in Exchange, Enqueue(id, exchange),
         Len(queue) < Bound
  PROVE  /\ queue' = Append(queue, id)
         /\ entries' = [entries EXCEPT ![id] = exchange]
<1> DEFINE grown == Append(queue, id)
<1>1. queue \in Seq(Ids) /\ entries \in [Ids -> Exchange \cup {Absent}]
  BY DEF IndInv, TypeOK
<1>2. Len(grown) = Len(queue) + 1 /\ grown \in Seq(Ids) /\ Len(queue) \in Nat
  BY <1>1
<1>3. Surplus(grown) = 0
  BY <1>2, BoundPositive DEF Surplus
<1>4. SubSeq(grown, 1, Len(grown)) = grown
  BY <1>2
<1>5. {grown[i] : i \in 1..Surplus(grown)} = {}
  BY <1>3
<1>6. /\ queue' = SubSeq(grown, Surplus(grown) + 1, Len(grown))
      /\ entries' = [other \in Ids |->
                       IF other \in {grown[i] : i \in 1..Surplus(grown)} THEN Absent
                       ELSE IF other = id THEN exchange ELSE entries[other]]
  BY DEF Enqueue
<1>7. entries' = [other \in Ids |-> IF other = id THEN exchange ELSE entries[other]]
  BY <1>5, <1>6
<1>8. queue' = grown
  BY <1>3, <1>4, <1>6
<1>9. QED
  BY <1>1, <1>7, <1>8

(* In a full store Enqueue drops the head of the queue and its entry. *)
LEMMA EnqueueFull ==
  ASSUME IndInv, NEW id \in Ids, NEW exchange \in Exchange, Enqueue(id, exchange),
         ~(Len(queue) < Bound)
  PROVE  /\ queue # <<>>
         /\ Len(queue) = Bound
         /\ queue' = Append(Tail(queue), id)
         /\ entries' = [other \in Ids |->
                          IF other = queue[1] THEN Absent
                          ELSE IF other = id THEN exchange ELSE entries[other]]
<1> DEFINE grown == Append(queue, id)
<1>1. queue \in Seq(Ids) /\ Len(queue) \in Nat
  BY DEF IndInv, TypeOK
<1>2. Len(queue) = Bound /\ queue # <<>>
  BY <1>1, BoundPositive DEF IndInv, QueueBounded
<1>3. Len(grown) = Len(queue) + 1 /\ grown \in Seq(Ids) /\ grown[1] = queue[1]
  BY <1>1, <1>2, BoundPositive
<1>4. Surplus(grown) = 1
  BY <1>1, <1>2, <1>3, BoundPositive DEF Surplus
<1>5. SubSeq(grown, 2, Len(grown)) = Append(Tail(queue), id)
  BY <1>1, <1>2, <1>3
<1>6. {grown[i] : i \in 1..1} = {queue[1]}
  BY <1>3
<1>7. /\ queue' = SubSeq(grown, Surplus(grown) + 1, Len(grown))
      /\ entries' = [other \in Ids |->
                       IF other \in {grown[i] : i \in 1..Surplus(grown)} THEN Absent
                       ELSE IF other = id THEN exchange ELSE entries[other]]
  BY DEF Enqueue
<1>8. QED
  BY <1>2, <1>4, <1>5, <1>6, <1>7

(* The initial store satisfies the invariant. *)
LEMMA InitInv == Init => IndInv
  BY BoundPositive DEF Init, IndInv, TypeOK, QueueMatchesEntries, QueueBounded, Held,
     Exchange

(* Enqueue of an id without an entry preserves the invariant. *)
LEMMA EnqueuePreserves ==
  ASSUME IndInv, NEW id \in Ids, NEW exchange \in Exchange, Enqueue(id, exchange),
         id \notin Held
  PROVE  IndInv'
<1>1. queue \in Seq(Ids) /\ entries \in [Ids -> Exchange \cup {Absent}]
  BY DEF IndInv, TypeOK
<1>2. Len(queue) \in Nat /\ Len(queue) <= Bound
  BY <1>1 DEF IndInv, QueueBounded
<1>3. exchange # Absent
  BY RequestStoreAssumption DEF Exchange, Parts
<1>4. \A i \in DOMAIN queue : queue[i] # id
  BY <1>1 DEF IndInv, QueueMatchesEntries
<1>5. \A i, j \in 1..Len(queue) : queue[i] = queue[j] => i = j
  BY <1>1 DEF IndInv, QueueMatchesEntries
<1>6. \A other \in Ids : entries[other] # Absent <=> \E i \in 1..Len(queue) : queue[i] = other
  BY <1>1 DEF IndInv, QueueMatchesEntries, Held
<1>7. CASE Len(queue) < Bound
  <2>1. queue' = Append(queue, id) /\ entries' = [entries EXCEPT ![id] = exchange]
    BY <1>7, EnqueueRoom
  <2>2. TypeOK'
    BY <1>1, <2>1 DEF TypeOK
  <2>3. Len(queue') = Len(queue) + 1
    BY <1>1, <2>1
  <2>4. QueueBounded'
    BY <1>2, <1>7, <2>3, BoundPositive DEF QueueBounded, Bound
  <2>5. \A i \in 1..Len(queue') : queue'[i] = IF i = Len(queue) + 1 THEN id ELSE queue[i]
    BY <1>1, <2>1
  <2>6. \A i, j \in 1..Len(queue') : queue'[i] = queue'[j] => i = j
    BY <1>2, <1>4, <1>5, <2>3, <2>5, <1>1
  <2>7. ASSUME NEW other \in Ids
        PROVE  entries'[other] # Absent <=> \E i \in 1..Len(queue') : queue'[i] = other
    <3>1. CASE other = id
      BY <1>1, <1>2, <1>3, <2>1, <2>3, <2>5, <3>1
    <3>2. CASE other # id
      BY <1>1, <1>2, <1>6, <2>1, <2>3, <2>5, <3>2
    <3>3. QED
      BY <3>1, <3>2
  <2>8. DOMAIN queue' = 1..Len(queue')
    BY <2>2 DEF TypeOK
  <2>9. QueueMatchesEntries'
    BY <2>6, <2>7, <2>8 DEF QueueMatchesEntries, Held
  <2>10. QED
    BY <2>2, <2>4, <2>9 DEF IndInv
<1>8. CASE ~(Len(queue) < Bound)
  <2>1. /\ queue # <<>>
        /\ Len(queue) = Bound
        /\ queue' = Append(Tail(queue), id)
        /\ entries' = [other \in Ids |->
                         IF other = queue[1] THEN Absent
                         ELSE IF other = id THEN exchange ELSE entries[other]]
    BY <1>8, EnqueueFull
  <2>2. TypeOK'
    BY <1>1, <2>1 DEF TypeOK
  <2>3. Len(queue') = Len(queue)
    BY <1>1, <2>1, BoundPositive
  <2>4. QueueBounded'
    BY <1>2, <2>3 DEF QueueBounded, Bound
  <2>5. \A i \in 1..Len(queue') : queue'[i] = IF i = Len(queue) THEN id ELSE queue[i + 1]
    BY <1>1, <1>2, <2>1
  <2>6. \A i, j \in 1..Len(queue') : queue'[i] = queue'[j] => i = j
    BY <1>2, <1>4, <1>5, <2>3, <2>5, <1>1
  <2>7. ASSUME NEW other \in Ids
        PROVE  entries'[other] # Absent <=> \E i \in 1..Len(queue') : queue'[i] = other
    <3>1. 1 \in 1..Len(queue) /\ queue[1] # id
      BY <1>1, <1>2, <1>4, <2>1, BoundPositive
    <3>2. CASE other = id
      <4>1. queue'[Len(queue)] = id /\ Len(queue) \in 1..Len(queue')
        BY <2>3, <2>5, <3>1
      <4>2. QED
        BY <1>3, <2>1, <3>1, <3>2, <4>1
    <3>3. CASE other = queue[1]
      <4>1. \A i \in 1..Len(queue') : queue'[i] # queue[1]
        BY <1>2, <1>5, <2>3, <2>5, <3>1
      <4>2. QED
        BY <2>1, <3>3, <4>1
    <3>4. CASE other # id /\ other # queue[1]
      <4>1. entries'[other] = entries[other]
        BY <2>1, <3>4
      <4>2. ASSUME NEW i \in 1..Len(queue), queue[i] = other
            PROVE  \E j \in 1..Len(queue') : queue'[j] = other
        <5>1. i # 1 /\ i - 1 \in 1..Len(queue') /\ i - 1 # Len(queue)
          BY <1>2, <2>3, <3>4, <4>2
        <5>2. queue'[i - 1] = other
          BY <1>2, <2>5, <4>2, <5>1
        <5>3. QED
          BY <5>1, <5>2
      <4>3. ASSUME NEW i \in 1..Len(queue'), queue'[i] = other
            PROVE  \E j \in 1..Len(queue) : queue[j] = other
        BY <1>2, <2>3, <2>5, <3>4, <4>3
      <4>4. QED
        BY <1>6, <4>1, <4>2, <4>3
    <3>5. QED
      BY <3>2, <3>3, <3>4
  <2>8. DOMAIN queue' = 1..Len(queue')
    BY <2>2 DEF TypeOK
  <2>9. QueueMatchesEntries'
    BY <2>6, <2>7, <2>8 DEF QueueMatchesEntries, Held
  <2>10. QED
    BY <2>2, <2>4, <2>9 DEF IndInv
<1>9. QED
  BY <1>7, <1>8

(* A record for an exchange the store holds changes that entry in place.   *)
LEMMA PutPreserves ==
  ASSUME IndInv, NEW part \in Parts, NEW id \in Ids, NEW rec \in Records,
         Put(part, id, rec)
  PROVE  IndInv'
<1>1. CASE id \in Held
  <2>1. entries' = [entries EXCEPT ![id][part] = rec] /\ queue' = queue
    BY <1>1 DEF Put
  <2>2. entries[id] \in Exchange /\ entries \in [Ids -> Exchange \cup {Absent}]
    BY <1>1 DEF Held, IndInv, TypeOK
  <2>3. [entries[id] EXCEPT ![part] = rec] \in Exchange
    BY <2>2 DEF Exchange
  <2>4. [entries[id] EXCEPT ![part] = rec] # Absent
    BY <2>3, RequestStoreAssumption DEF Exchange, Parts
  <2>5. entries' = [entries EXCEPT ![id] = [entries[id] EXCEPT ![part] = rec]]
    BY <2>1
  <2>6. TypeOK'
    BY <2>1, <2>2, <2>3, <2>5 DEF IndInv, TypeOK
  <2>7. \A other \in Ids : entries'[other] # Absent <=> entries[other] # Absent
    BY <1>1, <2>2, <2>4, <2>5 DEF Held
  <2>8. QueueMatchesEntries' /\ QueueBounded'
    BY <2>1, <2>7 DEF IndInv, QueueMatchesEntries, QueueBounded, Held, Bound
  <2>9. QED
    BY <2>6, <2>8 DEF IndInv
<1>2. CASE id \notin Held
  <2>1. [p \in Parts |-> IF p = part THEN rec ELSE Absent] \in Exchange
    BY DEF Exchange
  <2>2. QED
    BY <1>2, <2>1, EnqueuePreserves DEF Put
<1>3. QED
  BY <1>1, <1>2

(* What a part leaves of the map: its exchange has it besides what it had, and     *)
(* of the others at most the oldest is gone.                                  *)
LEMMA PutMap ==
  ASSUME IndInv, NEW part \in Parts, NEW id \in Ids, NEW rec \in Records,
         Put(part, id, rec)
  PROVE  /\ entries'[id] # Absent
         /\ entries'[id][part] = rec
         /\ \A p \in Parts \ {part} :
              entries'[id][p] = IF id \in Held THEN entries[id][p] ELSE Absent
         /\ \A other \in Ids \ {id} :
              \/ entries'[other] = entries[other]
              \/ /\ id \notin Held /\ entries'[other] = Absent
                 /\ other = queue[1] /\ Len(queue) = Bound
<1>1. entries \in [Ids -> Exchange \cup {Absent}] /\ queue \in Seq(Ids)
  BY DEF IndInv, TypeOK
<1>2. CASE id \in Held
  <2>1. entries[id] \in Exchange
    BY <1>1, <1>2 DEF Held
  <2>2. entries' = [entries EXCEPT ![id] = [entries[id] EXCEPT ![part] = rec]]
    BY <1>2 DEF Put
  <2>3. [entries[id] EXCEPT ![part] = rec] \in Exchange
    BY <2>1 DEF Exchange
  <2>4. entries'[id] # Absent
    BY <1>1, <2>2, <2>3, RequestStoreAssumption DEF Exchange, Parts
  <2>5. QED
    BY <1>1, <1>2, <2>1, <2>2, <2>4 DEF Exchange
<1>3. CASE id \notin Held
  <2> DEFINE exchange == [p \in Parts |-> IF p = part THEN rec ELSE Absent]
  <2>1. exchange \in Exchange
    BY DEF Exchange
  <2>2. exchange # Absent
    BY <2>1, RequestStoreAssumption DEF Exchange, Parts
  <2>3. Enqueue(id, exchange)
    BY <1>3 DEF Put
  <2>4. CASE Len(queue) < Bound
    <3>1. entries' = [entries EXCEPT ![id] = exchange]
      BY <2>1, <2>3, <2>4, EnqueueRoom
    <3>2. QED
      BY <1>1, <1>3, <2>2, <3>1
  <2>5. CASE ~(Len(queue) < Bound)
    <3>1. /\ queue # <<>> /\ Len(queue) = Bound
          /\ entries' = [other \in Ids |->
                           IF other = queue[1] THEN Absent
                           ELSE IF other = id THEN exchange ELSE entries[other]]
      BY <2>1, <2>3, <2>5, EnqueueFull
    <3>2. 1 \in DOMAIN queue
      BY <1>1, <3>1
    <3>3. queue[1] # id
      BY <1>3, <3>2 DEF IndInv, QueueMatchesEntries
    <3>4. QED
      BY <1>3, <2>2, <3>1, <3>3
  <2>6. QED
    BY <2>4, <2>5
<1>4. QED
  BY <1>2, <1>3

(* The elements of a sequence with one more at its end. *)
LEMMA Appended ==
  ASSUME NEW S, NEW q \in Seq(S), NEW x \in S
  PROVE  \A i \in 1..Len(q) + 1 : Append(q, x)[i] = IF i = Len(q) + 1 THEN x ELSE q[i]
  OBVIOUS

(* What it leaves of the queue: a new exchange is the youngest, and the others     *)
(* that stay are one place older.                                             *)
LEMMA PutQueue ==
  ASSUME IndInv, NEW part \in Parts, NEW id \in Ids, NEW rec \in Records,
         Put(part, id, rec)
  PROVE  /\ id \in Held => queue' = queue
         /\ id \notin Held =>
              \A i \in 1..Len(queue') :
                \/ i = Len(queue') /\ queue'[i] = id
                \/ \E j \in 1..Len(queue) :
                     /\ queue'[i] = queue[j] /\ queue[j] # id
                     /\ Len(queue') - i = Len(queue) - j + 1
<1>1. queue \in Seq(Ids) /\ Len(queue) \in Nat
  BY DEF IndInv, TypeOK
<1>2. CASE id \in Held
  BY <1>2 DEF Put
<1>3. CASE id \notin Held
  <2> DEFINE exchange == [p \in Parts |-> IF p = part THEN rec ELSE Absent]
  <2>1. exchange \in Exchange
    BY DEF Exchange
  <2>2. Enqueue(id, exchange)
    BY <1>3 DEF Put
  <2>3. \A j \in 1..Len(queue) : queue[j] # id
    BY <1>1, <1>3 DEF IndInv, QueueMatchesEntries
  <2>4. CASE Len(queue) < Bound
    <3>1. queue' = Append(queue, id)
      BY <2>1, <2>2, <2>4, EnqueueRoom
    <3>2. Len(queue') = Len(queue) + 1
      BY <1>1, <3>1
    <3>3. \A i \in 1..Len(queue') : queue'[i] = IF i = Len(queue) + 1 THEN id ELSE queue[i]
      BY <1>1, <3>1
    <3>4. ASSUME NEW i \in 1..Len(queue'), i # Len(queue')
          PROVE  /\ i \in 1..Len(queue) /\ queue'[i] = queue[i]
                 /\ Len(queue') - i = Len(queue) - i + 1
      BY <1>1, <3>2, <3>3, <3>4
    <3>5. \A i \in 1..Len(queue') : i = Len(queue') => queue'[i] = id
      BY <3>2, <3>3
    <3>6. QED
      BY <1>3, <2>3, <3>4, <3>5
  <2>5. CASE ~(Len(queue) < Bound)
    <3>1. queue # <<>> /\ queue' = Append(Tail(queue), id)
      BY <2>1, <2>2, <2>5, EnqueueFull
    <3>2. Len(queue') = Len(queue) /\ Len(queue) >= 1
      BY <1>1, <3>1
    <3>3. \A i \in 1..Len(queue') : queue'[i] = IF i = Len(queue) THEN id ELSE queue[i + 1]
      <4>1. /\ Tail(queue) \in Seq(Ids) /\ Len(Tail(queue)) = Len(queue) - 1
            /\ \A i \in 1..Len(queue) - 1 : Tail(queue)[i] = queue[i + 1]
        BY <1>1, <3>1
      <4>2. \A i \in 1..Len(Tail(queue)) + 1 :
              queue'[i] = IF i = Len(Tail(queue)) + 1 THEN id ELSE Tail(queue)[i]
        BY <3>1, <4>1, Appended
      <4>3. QED
        BY <1>1, <3>2, <4>1, <4>2
    <3>4. ASSUME NEW i \in 1..Len(queue'), i # Len(queue')
          PROVE  \E j \in 1..Len(queue) :
                   /\ queue'[i] = queue[j]
                   /\ Len(queue') - i = Len(queue) - j + 1
      <4>1. i + 1 \in 1..Len(queue) /\ queue'[i] = queue[i + 1]
             /\ Len(queue') - i = Len(queue) - (i + 1) + 1
        BY <1>1, <3>2, <3>3, <3>4
      <4>2. QED
        BY <4>1
    <3>5. \A i \in 1..Len(queue') : i = Len(queue') => queue'[i] = id
      BY <3>2, <3>3
    <3>6. QED
      BY <1>3, <2>3, <3>4, <3>5
  <2>6. QED
    BY <2>4, <2>5
<1>4. QED
  BY <1>2, <1>3

(* Every operation preserves the invariant. *)
LEMMA NextInv == IndInv /\ [Next]_vars => IndInv'
<1> SUFFICES ASSUME IndInv, [Next]_vars PROVE IndInv'
  OBVIOUS
<1>1. ASSUME NEW id \in Ids, NEW rec \in Records,
             PutRequest(id, rec) \/ PutResponse(id, rec) \/ PutTiming(id, rec)
      PROVE  IndInv'
  BY <1>1, PutPreserves DEF PutRequest, PutResponse, PutTiming, Parts
<1>2. CASE Clear
  BY <1>2, BoundPositive DEF Clear, IndInv, TypeOK, QueueMatchesEntries, QueueBounded,
     Held, Bound
<1>3. CASE UNCHANGED vars
  BY <1>3 DEF vars, IndInv, TypeOK, QueueMatchesEntries, QueueBounded, Held, Bound
<1>4. QED
  BY <1>1, <1>2, <1>3 DEF Next

(* The inductive invariant holds in every behaviour. *)
THEOREM Inductive == Spec => []IndInv
  BY InitInv, NextInv, PTL DEF Spec

(* Queue and map of the store have the shape the code gives them. *)
THEOREM TypeCorrect == Spec => []TypeOK
  BY Inductive, PTL DEF IndInv

(* The queue holds exactly the ids of the map, each once: request_store.go  *)
(* 103-111 never deletes an exchange that is still queued, and never leaves *)
(* one in the map that no eviction can reach.                               *)
THEOREM QueueAgrees == Spec => []QueueMatchesEntries
  BY Inductive, PTL DEF IndInv

(* The number Len of the code returns is within the size of the store,      *)
(* although only the queue is ever measured.                                *)
THEOREM SizeBounded == Spec => []Bounded
<1>1. ASSUME IndInv PROVE Bounded
  <2>1. queue \in Seq(Ids) /\ Len(queue) \in Nat /\ Len(queue) <= Bound
    BY <1>1 DEF IndInv, TypeOK, QueueBounded
  <2>2. \A id \in Ids : id \in Held <=> \E i \in 1..Len(queue) : queue[i] = id
    BY <1>1, <2>1 DEF IndInv, QueueMatchesEntries
  <2>3. queue \in [1..Len(queue) -> Held]
    BY <2>1, <2>2
  <2>4. \A id \in Held : \E i \in 1..Len(queue) : queue[i] = id
    BY <2>2 DEF Held
  <2>5. ExistsSurjection(1..Len(queue), Held)
    BY <2>3, <2>4 DEF ExistsSurjection, Surjection
  <2>6. Cardinality(Held) <= Len(queue)
    BY <2>1, <2>5, FS_SurjCardinalityBound
  <2>7. IsFiniteSet(Held)
    BY <2>1, <2>5, FS_NatSurjection
  <2>8. Cardinality(Held) \in Nat
    BY <2>7, FS_CardinalityType
  <2>9. QED
    BY <2>1, <2>6, <2>8, BoundPositive DEF Bounded
<1>2. QED
  BY <1>1, Inductive, PTL

-----------------------------------------------------------------------------
(* The store implements the exchange log. *)

(* What the log is in a state of the store. *)
LogOf == [i \in DOMAIN queue |-> [id |-> queue[i], parts |-> entries[queue[i]]]]

(* The log the store stands for is as long as the queue and in its order. *)
LEMMA LogShape ==
  ASSUME IndInv
  PROVE  /\ LogOf \in Seq(Log!Exchanges)
         /\ Len(LogOf) = Len(queue)
         /\ DOMAIN LogOf = 1..Len(queue)
         /\ \A i \in 1..Len(queue) :
              /\ queue[i] \in Ids
              /\ entries[queue[i]] \in Exchange
              /\ LogOf[i] = [id |-> queue[i], parts |-> entries[queue[i]]]
<1>1. queue \in Seq(Ids) /\ entries \in [Ids -> Exchange \cup {Absent}]
  BY DEF IndInv, TypeOK
<1>2. Len(queue) \in Nat /\ DOMAIN queue = 1..Len(queue)
  BY <1>1
<1>3. \A i \in 1..Len(queue) : queue[i] \in Ids /\ entries[queue[i]] \in Exchange
  BY <1>1, <1>2 DEF IndInv, QueueMatchesEntries, Held
<1>4. \A i \in 1..Len(queue) :
        /\ LogOf[i] = [id |-> queue[i], parts |-> entries[queue[i]]]
        /\ LogOf[i] \in Log!Exchanges
  BY <1>2, <1>3 DEF LogOf, Log!Exchanges, Exchange, Parts, Log!Parts
<1>5. LogOf \in [1..Len(queue) -> Log!Exchanges]
  BY <1>2, <1>4 DEF LogOf
<1>6. QED
  BY <1>2, <1>3, <1>4, <1>5

(* A Put is an Amend or a Begin of the log. *)
LEMMA PutImplements ==
  ASSUME IndInv, IndInv', NEW part \in Parts, NEW id \in Ids, NEW rec \in Records,
         Put(part, id, rec)
  PROVE  Log!Amend(id, part, rec) \/ Log!Begin(id, part, rec)
<1> DEFINE exchange == [p \in Parts |-> IF p = part THEN rec ELSE Absent]
<1> DEFINE started == [id |-> id, parts |-> exchange]
<1>1. /\ queue \in Seq(Ids) /\ queue' \in Seq(Ids)
      /\ entries \in [Ids -> Exchange \cup {Absent}]
      /\ Len(queue) \in Nat
  BY DEF IndInv, TypeOK
<1>2. /\ LogOf \in Seq(Log!Exchanges)
      /\ Len(LogOf) = Len(queue)
      /\ \A i \in 1..Len(queue) :
           /\ queue[i] \in Ids
           /\ entries[queue[i]] \in Exchange
           /\ LogOf[i] = [id |-> queue[i], parts |-> entries[queue[i]]]
  BY LogShape
<1>3. exchange \in Exchange
  BY DEF Exchange
<1>4. \A i, j \in 1..Len(queue) : queue[i] = queue[j] => i = j
  BY <1>1 DEF IndInv, QueueMatchesEntries
<1>5. LogOf' = [i \in 1..Len(queue') |-> [id |-> queue'[i], parts |-> entries'[queue'[i]]]]
  BY <1>1 DEF LogOf
<1>6. CASE id \in Held
  <2>1. entries' = [entries EXCEPT ![id][part] = rec] /\ queue' = queue
    BY <1>6 DEF Put
  <2>2. PICK i \in 1..Len(queue) : queue[i] = id
    BY <1>1, <1>6 DEF IndInv, QueueMatchesEntries
  <2>3. \A j \in 1..Len(queue) : j # i => entries'[queue[j]] = entries[queue[j]]
    BY <1>1, <1>2, <1>4, <2>1, <2>2
  <2>4. entries'[id] = [entries[id] EXCEPT ![part] = rec]
    BY <1>1, <2>1
  <2>5. LogOf' = [LogOf EXCEPT ![i].parts[part] = rec]
    <3>1. \A j \in 1..Len(queue) :
            LogOf'[j] = IF j = i THEN [LogOf[i] EXCEPT !.parts[part] = rec] ELSE LogOf[j]
      <4>1. TAKE j \in 1..Len(queue)
      <4>2. LogOf'[j] = [id |-> queue[j], parts |-> entries'[queue[j]]]
        BY <1>5, <2>1
      <4>3. CASE j = i
        <5>1. LogOf'[i] = [id |-> id, parts |-> [entries[id] EXCEPT ![part] = rec]]
          BY <2>2, <2>4, <4>2, <4>3
        <5>2. LogOf[i] = [id |-> id, parts |-> entries[id]]
          BY <1>2, <2>2
        <5>3. [LogOf[i] EXCEPT !.parts[part] = rec] =
                [id |-> id, parts |-> [entries[id] EXCEPT ![part] = rec]]
          BY <5>2
        <5>4. QED
          BY <4>3, <5>1, <5>3
      <4>4. CASE j # i
        BY <1>2, <2>3, <4>2, <4>4
      <4>5. QED
        BY <4>3, <4>4
    <3>2. DOMAIN LogOf' = 1..Len(queue) /\ DOMAIN LogOf = 1..Len(queue)
      BY <1>1, <1>5, <2>1, LogShape
    <3>3. LogOf' = [j \in 1..Len(queue) |->
                      IF j = i THEN [LogOf[i] EXCEPT !.parts[part] = rec] ELSE LogOf[j]]
      BY <1>5, <2>1, <3>1
    <3>4. QED
      BY <2>2, <3>2, <3>3
  <2>6. i \in DOMAIN LogOf /\ LogOf[i].id = id
    BY <1>2, <2>2, LogShape
  <2>7. QED
    BY <2>5, <2>6 DEF Log!Amend, LogOf
<1>7. CASE id \notin Held
  <2>1. Enqueue(id, exchange)
    BY <1>7 DEF Put
  <2>2. \A i \in 1..Len(queue) : queue[i] # id
    BY <1>1, <1>7 DEF IndInv, QueueMatchesEntries
  <2>3. \A i \in DOMAIN LogOf : LogOf[i].id # id
    BY <1>2, <2>2, LogShape
  <2>4. CASE Len(queue) < Bound
    <3>1. queue' = Append(queue, id) /\ entries' = [entries EXCEPT ![id] = exchange]
      BY <1>3, <2>1, <2>4, EnqueueRoom
    <3>2. Len(queue') = Len(queue) + 1
      BY <1>1, <3>1
    <3>3. \A i \in 1..Len(queue') :
            [id |-> queue'[i], parts |-> entries'[queue'[i]]] =
              IF i = Len(queue) + 1 THEN started ELSE LogOf[i]
      <4>1. TAKE i \in 1..Len(queue')
      <4>2. CASE i = Len(queue) + 1
        BY <1>1, <3>1, <4>2
      <4>3. CASE i # Len(queue) + 1
        <5>1. i \in 1..Len(queue) /\ queue'[i] = queue[i] /\ queue[i] # id
          BY <1>1, <2>2, <3>1, <3>2, <4>3
        <5>2. entries'[queue'[i]] = entries[queue[i]]
          BY <1>1, <1>2, <3>1, <5>1
        <5>3. QED
          BY <1>2, <4>3, <5>1, <5>2
      <4>4. QED
        BY <4>2, <4>3
    <3>4. LogOf' = Append(LogOf, started)
      BY <1>2, <1>5, <3>2, <3>3
    <3>5. Len(LogOf) # Bound
      BY <1>1, <1>2, <2>4, BoundPositive
    <3>6. QED
      BY <2>3, <3>4, <3>5 DEF Log!Begin, LogOf, Log!Parts, Parts
  <2>5. CASE ~(Len(queue) < Bound)
    <3>1. /\ queue # <<>>
          /\ Len(queue) = Bound
          /\ queue' = Append(Tail(queue), id)
          /\ entries' = [other \in Ids |->
                           IF other = queue[1] THEN Absent
                           ELSE IF other = id THEN exchange ELSE entries[other]]
      BY <1>3, <2>1, <2>5, EnqueueFull
    <3>2. Len(queue') = Len(queue) /\ Len(queue) >= 1
      BY <1>1, <3>1, BoundPositive
    <3>3. \A i \in 1..Len(queue) : queue'[i] = IF i = Len(queue) THEN id ELSE queue[i + 1]
      BY <1>1, <3>1, <3>2
    <3>4. \A i \in 1..Len(queue) :
            [id |-> queue'[i], parts |-> entries'[queue'[i]]] =
              IF i = Len(queue) THEN started ELSE LogOf[i + 1]
      <4>1. TAKE i \in 1..Len(queue)
      <4>2. CASE i = Len(queue)
        <5>1. queue'[i] = id /\ id # queue[1]
          BY <1>1, <2>2, <3>2, <3>3, <4>2
        <5>2. QED
          BY <3>1, <4>2, <5>1
      <4>3. CASE i # Len(queue)
        <5>1. i + 1 \in 1..Len(queue) /\ 1 \in 1..Len(queue) /\ i + 1 # 1
          BY <1>1, <3>2, <4>3
        <5>2. queue'[i] = queue[i + 1] /\ queue[i + 1] # id /\ queue[i + 1] # queue[1]
          BY <1>4, <2>2, <3>3, <4>3, <5>1
        <5>3. entries'[queue'[i]] = entries[queue[i + 1]]
          BY <1>2, <3>1, <5>1, <5>2
        <5>4. QED
          BY <1>2, <4>3, <5>1, <5>2, <5>3
      <4>4. QED
        BY <4>2, <4>3
    <3>5. LogOf' = Append(Tail(LogOf), started)
      <4>1. Tail(LogOf) \in Seq(Log!Exchanges) /\ Len(Tail(LogOf)) = Len(queue) - 1
        BY <1>2, <3>2
      <4>2. \A i \in 1..Len(queue) - 1 : Tail(LogOf)[i] = LogOf[i + 1]
        BY <1>2, <3>2
      <4>3. Append(Tail(LogOf), started) =
              [i \in 1..Len(queue) |-> IF i = Len(queue) THEN started ELSE LogOf[i + 1]]
        BY <1>1, <4>1, <4>2
      <4>4. QED
        BY <1>5, <3>2, <3>4, <4>3
    <3>6. Len(LogOf) = Bound
      BY <1>2, <3>1
    <3>7. QED
      BY <2>3, <3>5, <3>6 DEF Log!Begin, LogOf, Log!Parts, Parts
  <2>6. QED
    BY <2>4, <2>5
<1>8. QED
  BY <1>6, <1>7

(* Every operation of the store is a step of the log. *)
LEMMA StepImplements == IndInv /\ IndInv' /\ [Next]_vars => [Log!Next]_LogOf
<1> SUFFICES ASSUME IndInv, IndInv', [Next]_vars PROVE [Log!Next]_LogOf
  OBVIOUS
<1>1. ASSUME NEW id \in Ids, NEW rec \in Records,
             PutRequest(id, rec) \/ PutResponse(id, rec) \/ PutTiming(id, rec)
      PROVE  Log!Next
  <2>1. PICK part \in Parts : Put(part, id, rec)
    BY <1>1 DEF PutRequest, PutResponse, PutTiming, Parts
  <2>2. Log!Amend(id, part, rec) \/ Log!Begin(id, part, rec)
    BY <2>1, PutImplements
  <2>3. QED
    BY <2>2 DEF Log!Next, Log!Parts, Parts
<1>2. CASE Clear
  <2>1. queue' = <<>>
    BY <1>2 DEF Clear
  <2>2. LogOf' = <<>>
    BY <2>1 DEF LogOf
  <2>3. QED
    BY <2>2 DEF Log!Next, Log!Clear, LogOf
<1>3. CASE UNCHANGED vars
  BY <1>3 DEF vars, LogOf
<1>4. QED
  BY <1>1, <1>2, <1>3 DEF Next

(* The store is the exchange log: the exchanges it holds are the last Bound *)
(* to have started, in order, each with the latest of its parts.            *)
THEOREM Refinement == Spec => ImplementsLog
<1>1. Init => Log!Init
  BY DEF Init, Log!Init
<1>2. IndInv /\ IndInv' /\ [Next]_vars => [Log!Next]_LogOf
  BY StepImplements
<1>3. QED
  BY <1>1, <1>2, Inductive, PTL DEF Spec, ImplementsLog, Log!Spec, LogOf
=============================================================================
