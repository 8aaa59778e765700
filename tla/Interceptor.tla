------------------------------ MODULE Interceptor ------------------------------
(***************************************************************************)
(* Decrypted tunnels (proxy/middlewares/https_interceptor.go).  In a loop,   *)
(* each tunnel reads a request of its browser, captures its body, records    *)
(* it in the capture file and in the request store, sends it to the server,  *)
(* streams the answer back while capturing it, and records that.  All the    *)
(* while other goroutines pause and resume the live view, switch storage,    *)
(* clear the store and change the body limit: every step looks at these       *)
(* settings anew.                                                           *)
(*                                                                         *)
(* A body is its number of bytes.  The sink's own interleavings are          *)
(* CaptureStorage's subject; the store is the RequestStore of this project,  *)
(* and forgets the oldest exchange when it is full.  The plain requests of    *)
(* ProxyServer go into the same store.                                      *)
(***************************************************************************)
EXTENDS Integers, Sequences, FiniteSets

CONSTANTS
  Tunnels,
  MaxExchanges,  \* bound: requests a browser sends through one tunnel
  MaxBytes,      \* bound: bytes of a body
  MaxChanges,    \* bound: changes of the settings, and plain requests
  StoreSize,     \* the size of the store: DefaultRequestStoreSize, 500
  Plain,         \* ids of plain requests, which ProxyServer records
  Absent         \* see RequestStore

ASSUME InterceptorAssumption ==
  /\ IsFiniteSet(Tunnels)
  /\ MaxExchanges \in Nat \ {0}
  /\ MaxBytes \in Nat
  /\ MaxChanges \in Nat
  /\ StoreSize \in Int

Exchanges == Tunnels \X (1..MaxExchanges)
Ids       == Exchanges \cup Plain
Bodies    == 0..MaxBytes
Record    == [bytes : Bodies, skipped : BOOLEAN]

(* A pointer that is nil points to no record and to no exchange. *)
ASSUME AbsentAssumption ==
  /\ Absent \notin Record
  /\ Absent \notin [{"request", "response", "timing"} -> Record \cup {Absent}]

ASSUME PlainAssumption == Plain \cap Exchanges = {}

VARIABLES
  pc,        \* where each tunnel is
  number,    \* the exchange each tunnel is at
  request,   \* bytes of the request's body
  captured,  \* what capRequestBody returned
  response,  \* bytes of the response's body
  tee, limit, sent, \* is the response captured, its limit, the bytes written so far
  failed,    \* has writing the response to the browser failed?
  capturing, storing, maximum, changes, \* the settings, and how often they changed
  queue, entries, \* the request store
  file,      \* the records WriteRequest and WriteResponse were given
  events,    \* the events published
  viewLost, storageLost, \* history: exchanges during which the view, the storage was off,
             \* and, for the view, those the user has cleared
  answered,  \* history: exchanges that have gone all the way
  taken,     \* history: the number of entries the store has taken in
  born       \* history: that number when the request of an exchange was

tunnel   == <<number, request, captured, response, tee, limit, sent, failed>>
settings == <<capturing, storing, maximum, changes>>
store    == <<queue, entries>>
ages     == <<taken, born>>
history  == <<viewLost, storageLost, answered>>
vars     == <<pc, tunnel, settings, store, ages, file, events, history>>

Store == INSTANCE RequestStore WITH
  Records <- Record, Max <- StoreSize

Nothing == [bytes |-> 0, skipped |-> FALSE]

(* The contents of a timing record play no part here. *)
Timing == Nothing

Init ==
  /\ pc = [t \in Tunnels |-> "read"]
  /\ number = [t \in Tunnels |-> 1]
  /\ request = [t \in Tunnels |-> 0]
  /\ captured = [t \in Tunnels |-> Nothing]
  /\ response = [t \in Tunnels |-> 0]
  /\ tee = [t \in Tunnels |-> FALSE]
  /\ limit = [t \in Tunnels |-> 0]
  /\ sent = [t \in Tunnels |-> 0]
  /\ failed = [t \in Tunnels |-> FALSE]
  /\ capturing \in BOOLEAN
  /\ storing \in BOOLEAN
  /\ maximum \in Bodies
  /\ changes = 0
  /\ Store!Init
  /\ file = {}
  /\ events = {}
  /\ viewLost = {}
  /\ storageLost = {}
  /\ answered = {}
  /\ taken = 0
  /\ born = [e \in Exchanges |-> 0]

Exchange(t) == <<t, number[t]>>

Step(t, from, to) == pc[t] = from /\ pc' = [pc EXCEPT ![t] = to]

(* capBody and captureLimitWriter: what is kept of a body under a limit. *)
Captured(bytes, most) ==
  [bytes |-> IF bytes > most THEN 0 ELSE bytes, skipped |-> bytes > most]

-----------------------------------------------------------------------------
(* The request *)

ReadRequest(t) ==
  /\ Step(t, "read", "capture")
  /\ \E bytes \in Bodies : request' = [request EXCEPT ![t] = bytes]
  /\ viewLost' = IF capturing THEN viewLost ELSE viewLost \cup {Exchange(t)}
  /\ storageLost' = IF storing THEN storageLost ELSE storageLost \cup {Exchange(t)}
  /\ UNCHANGED <<number, captured, response, tee, limit, sent, failed, settings, store, ages, file,
                 events, answered>>

(* The browser leaves between two requests, or in the middle of a body, or    *)
(* the server cannot be reached: forward returns an error, and the tunnel     *)
(* is closed.                                                               *)
LeaveTunnel(t) ==
  /\ pc[t] \in {"read", "capture", "send"}
  /\ pc' = [pc EXCEPT ![t] = "ended"]
  /\ UNCHANGED <<tunnel, settings, store, ages, file, events, history>>

(* Mutant: only the live view needs the body. *)
CaptureViewed(t) ==
  /\ Step(t, "capture", "record")
  /\ captured' = [captured EXCEPT ![t] =
                    IF capturing THEN Captured(request[t], maximum) ELSE Nothing]
  /\ UNCHANGED <<number, request, response, tee, limit, sent, failed, settings, store, ages, file,
                 events, history>>

CaptureRequest(t) ==
  /\ Step(t, "capture", "record")
  /\ captured' = [captured EXCEPT ![t] =
                    IF capturing \/ storing THEN Captured(request[t], maximum) ELSE Nothing]
  /\ UNCHANGED <<number, request, response, tee, limit, sent, failed, settings, store, ages, file,
                 events, history>>

(* A part of an exchange goes into the store when the live view is on; what    *)
(* this makes of the ages of the entries is history.                        *)
Show(part, e, record) ==
  IF capturing
  THEN /\ Store!Put(part, e, record)
       /\ IF e \in Store!Held THEN UNCHANGED ages
          ELSE /\ taken' = taken + 1
               /\ born' = IF part = "request" THEN [born EXCEPT ![e] = taken + 1] ELSE born
  ELSE UNCHANGED <<store, ages>>

Written(kind, t, record) == [kind |-> kind, exchange |-> Exchange(t), record |-> record]

RecordRequest(t) ==
  /\ Step(t, "record", "announce")
  /\ file' = IF storing THEN file \cup {Written("request", t, captured[t])} ELSE file
  /\ Show("request", Exchange(t), captured[t])
  /\ UNCHANGED <<tunnel, settings, events, history>>

Published(kind, t, available) ==
  [kind |-> kind, exchange |-> Exchange(t), available |-> available]

PublishRequestEvent(t) ==
  /\ Step(t, "announce", "send")
  /\ events' = IF capturing THEN events \cup {Published("request", t, FALSE)} ELSE events
  /\ UNCHANGED <<tunnel, settings, store, ages, file, history>>

-----------------------------------------------------------------------------
(* The response *)

AnswerStored(t) ==
  /\ Step(t, "send", "transfer")
  /\ \E bytes \in Bodies, isHtmlOrJs \in BOOLEAN :
       /\ response' = [response EXCEPT ![t] = bytes]
       /\ tee' = [tee EXCEPT ![t] = storing \/ isHtmlOrJs]
  /\ limit' = [limit EXCEPT ![t] = maximum]
  /\ sent' = [sent EXCEPT ![t] = 0]
  /\ UNCHANGED <<number, request, captured, failed, settings, store, ages, file, events, history>>

(* RoundTrip returns the head of the response; its body will be streamed      *)
(* through a tee if somebody needs it now.                                   *)
Answer(t) ==
  /\ Step(t, "send", "transfer")
  /\ \E bytes \in Bodies, isHtmlOrJs \in BOOLEAN :
       /\ response' = [response EXCEPT ![t] = bytes]
       /\ tee' = [tee EXCEPT ![t] = capturing \/ storing \/ isHtmlOrJs]
  /\ limit' = [limit EXCEPT ![t] = maximum]
  /\ sent' = [sent EXCEPT ![t] = 0]
  /\ UNCHANGED <<number, request, captured, failed, settings, store, ages, file, events, history>>

Transfer(t) ==
  /\ pc[t] = "transfer"
  /\ sent[t] < response[t]
  /\ sent' = [sent EXCEPT ![t] = @ + 1]
  /\ UNCHANGED <<pc, number, request, captured, response, tee, limit, failed, settings, store,
                 ages, file, events, history>>

(* resp.Write returns: everything was written, or the browser or the server   *)
(* has left before.                                                         *)
Transferred(t) ==
  /\ Step(t, "transfer", IF tee[t] THEN "recordResponse" ELSE "time")
  /\ \/ sent[t] = response[t] /\ UNCHANGED failed
     \/ failed' = [failed EXCEPT ![t] = TRUE]
  /\ UNCHANGED <<number, request, captured, response, tee, limit, sent, settings, store, ages, file,
                 events, history>>

CapturedResponse(t) == Captured(sent[t], limit[t])

RecordResponse(t) ==
  /\ Step(t, "recordResponse", "publish")
  /\ file' = IF storing THEN file \cup {Written("response", t, CapturedResponse(t))} ELSE file
  /\ Show("response", Exchange(t), CapturedResponse(t))
  /\ UNCHANGED <<tunnel, settings, events, history>>

PublishResponseEvent(t) ==
  /\ Step(t, "publish", "time")
  /\ events' = IF capturing
               THEN events \cup {Published("response", t, CapturedResponse(t).bytes > 0)}
               ELSE events
  /\ UNCHANGED <<tunnel, settings, store, ages, file, history>>

(* The tunnel goes on with the next request unless writing failed or the      *)
(* browser asked for the connection to be closed.                            *)
RecordTiming(t) ==
  /\ pc[t] = "time"
  /\ Show("timing", Exchange(t), Timing)
  /\ \/ /\ ~failed[t]
        /\ number[t] < MaxExchanges
        /\ pc' = [pc EXCEPT ![t] = "read"]
        /\ number' = [number EXCEPT ![t] = @ + 1]
     \/ /\ pc' = [pc EXCEPT ![t] = "ended"]
        /\ UNCHANGED number
  /\ answered' = answered \cup {Exchange(t)}
  /\ UNCHANGED <<request, captured, response, tee, limit, sent, failed, settings, file, events,
                 viewLost, storageLost>>

Forward(t) == CaptureRequest(t) \/ RecordRequest(t) \/ PublishRequestEvent(t) \/ Answer(t)
              \/ Transfer(t) \/ Transferred(t) \/ RecordResponse(t)
              \/ PublishResponseEvent(t) \/ RecordTiming(t)

-----------------------------------------------------------------------------
(* Other goroutines *)

Running == {Exchange(t) : t \in {u \in Tunnels : pc[u] \notin {"read", "ended"}}}

Change == changes < MaxChanges /\ changes' = changes + 1

PauseOrResume ==
  /\ Change
  /\ capturing' = ~capturing
  /\ viewLost' = viewLost \cup Running
  /\ UNCHANGED <<pc, tunnel, storing, maximum, store, ages, file, events, storageLost, answered>>

SwitchStorage ==
  /\ Change
  /\ storing' = ~storing
  /\ storageLost' = storageLost \cup Running
  /\ UNCHANGED <<pc, tunnel, capturing, maximum, store, ages, file, events, viewLost, answered>>

ChangeLimit ==
  /\ Change
  /\ maximum' \in Bodies \ {maximum}
  /\ UNCHANGED <<pc, tunnel, capturing, storing, store, ages, file, events, history>>

ClearStore ==
  /\ Change
  /\ Store!Clear
  /\ viewLost' = viewLost \cup (Store!Held \cap Exchanges)
  /\ UNCHANGED <<pc, tunnel, capturing, storing, maximum, ages, file, events, storageLost,
                 answered>>

(* A plain request is recorded under an id of its own; nothing is recorded of  *)
(* its answer.                                                             *)
RecordPlainRequest ==
  /\ Change
  /\ capturing
  /\ \E id \in Plain \ Store!Held : Store!PutRequest(id, Nothing)
  /\ taken' = taken + 1
  /\ UNCHANGED <<pc, tunnel, capturing, storing, maximum, born, file, events, history>>

Next ==
  \/ \E t \in Tunnels : ReadRequest(t) \/ LeaveTunnel(t) \/ Forward(t)
  \/ PauseOrResume \/ SwitchStorage \/ ChangeLimit \/ ClearStore \/ RecordPlainRequest

Spec == Init /\ [][Next]_vars

-----------------------------------------------------------------------------
(* The shape of the variables. *)
TypeOK ==
  /\ pc \in [Tunnels -> {"read", "capture", "record", "announce", "send", "transfer",
                         "recordResponse", "publish", "time", "ended"}]
  /\ number \in [Tunnels -> 1..MaxExchanges]
  /\ request \in [Tunnels -> Bodies] /\ captured \in [Tunnels -> Record]
  /\ response \in [Tunnels -> Bodies] /\ tee \in [Tunnels -> BOOLEAN]
  /\ limit \in [Tunnels -> Bodies] /\ sent \in [Tunnels -> Bodies]
  /\ \A t \in Tunnels : sent[t] <= response[t]
  /\ failed \in [Tunnels -> BOOLEAN]
  /\ capturing \in BOOLEAN /\ storing \in BOOLEAN /\ maximum \in Bodies
  /\ changes \in 0..MaxChanges
  /\ Store!TypeOK
  /\ file \subseteq [kind : {"request", "response"}, exchange : Exchanges, record : Record]
  /\ events \subseteq [kind : {"request", "response"}, exchange : Exchanges,
                       available : BOOLEAN]
  /\ viewLost \subseteq Exchanges /\ storageLost \subseteq Exchanges
  /\ answered \subseteq Exchanges
  /\ taken \in Nat /\ born \in [Exchanges -> Nat]

InFile(kind, exchange) == {r \in file : r.kind = kind /\ r.exchange = exchange}

(* The store has taken in fewer entries since the request than it has room for. *)
Recent(e) == taken - born[e] < Store!Bound

(* recordRequest, recordResponse, recordTiming: of an exchange all of which    *)
(* happened while the live view was on, and that the user has not cleared,     *)
(* both events were published; and as long as the store has not taken in as    *)
(* many others as it holds, it has the exchange with its request, response     *)
(* and timing.  All of it whatever happened to storage and limits meanwhile.   *)
SteadyViewIsComplete ==
  \A e \in answered \ viewLost :
    /\ Recent(e) => e \in Store!Held /\ \A part \in Store!Parts : entries[e][part] # Absent
    /\ \A kind \in {"request", "response"} :
         \E event \in events : event.kind = kind /\ event.exchange = e

(* isStoring: persistence is independent of the live view.  An exchange all    *)
(* of which happened while storage was on is in the file with one request and  *)
(* one response record, and never with the response first.                   *)
SteadyStorageIsComplete ==
  /\ \A e \in answered \ storageLost :
       Cardinality(InFile("request", e)) = 1 /\ Cardinality(InFile("response", e)) = 1
  /\ \A e \in Exchanges \ storageLost : InFile("response", e) # {} => InFile("request", e) # {}

(* Live view and storage are kept apart: each has every exchange that       *)
(* happened while it was on.                                               *)
SteadyExchangesAreComplete == SteadyViewIsComplete /\ SteadyStorageIsComplete

InStore(part, e) ==
  IF e \in Store!Held /\ entries[e][part] # Absent THEN {entries[e][part]} ELSE {}

Kept(kind, e) == {r.record : r \in InFile(kind, e)} \cup InStore(kind, e)

(* A record says what became of a body of so many bytes: all of it is there,   *)
(* or it was longer than a limit and is marked as left out.                  *)
Tells(record, bytes) ==
  IF record.skipped THEN record.bytes = 0 ELSE record.bytes = bytes

(* captureLimitWriter, capBody: what the store and the file keep of an         *)
(* exchange is a whole body or a marked omission.  A response counts when it   *)
(* was written to the browser to its end; a request when the view or the       *)
(* storage was on from its start.                                            *)
BodiesAreWhole ==
  \A t \in Tunnels :
    LET e == Exchange(t) IN
    /\ pc[t] # "read" /\ ~failed[t] => \A r \in Kept("response", e) : Tells(r, response[t])
    /\ pc[t] # "read" /\ e \notin viewLost \cap storageLost =>
         \A r \in Kept("request", e) : Tells(r, request[t])

(* publishResponseEvent: the event tells the browser that a body can be        *)
(* fetched only when the store has it, for an exchange the view saw whole and   *)
(* the store has not had to forget.                                          *)
AvailableBodiesAreStored ==
  \A event \in events :
    event.available /\ event.exchange \notin viewLost /\ Recent(event.exchange) =>
      \E r \in InStore("response", event.exchange) : ~r.skipped /\ r.bytes > 0

(* recordRequest, recordResponse: what the store, the file and the events   *)
(* say about the bodies of an exchange is true of them.                    *)
BodiesAreTold == TypeOK /\ BodiesAreWhole /\ AvailableBodiesAreStored

=============================================================================
