---------------------------------- MODULE Hub ----------------------------------
(***************************************************************************)
(* The publish/subscribe hub behind /events (webui/ui_server.go).  Proxy    *)
(* connections and HTTP handlers publish; one SSE handler per browser       *)
(* subscribes a buffered channel, copies what arrives to its browser and    *)
(* unsubscribes when the browser leaves or the hub shuts down.  The hub's    *)
(* own goroutine waits for the shutdown and closes the channels.            *)
(*                                                                         *)
(* A stretch of code under h.mu is one action, whose guard is that nobody    *)
(* holds the lock; only a Publish that finds the hub closed keeps it.        *)
(* Messages are numbered in the order they are published.  The usual names   *)
(* carry the hub's, so that one module can extend Hub and ProxyServer.       *)
(***************************************************************************)
EXTENDS Naturals, Sequences, FiniteSets

CONSTANTS
  Publishers,
  Browsers,    \* SSE handlers that may run at the same time
  Stuck,       \* the browsers that never read what is written to them
  Buffer,      \* capacity of a client's channel, 8 in the code
  MaxMessages  \* bound: calls of Publish in a behaviour

ASSUME HubAssumption ==
  /\ Stuck \subseteq Browsers
  /\ Buffer \in Nat \ {0}
  /\ MaxMessages \in Nat

VARIABLES
  clients,     \* handlers whose channel is registered
  channel,     \* messages waiting in each handler's channel
  channelOpen, \* has the channel not been closed?
  shutdown,    \* is the shutdown channel closed?
  hubClosed,   \* h.closed
  locked,      \* is h.mu held by a Publish that has returned?
  publisher, sseHandler, \* where each goroutine is
  calls,       \* calls of Publish, at most MaxMessages
  sent,        \* history: messages fanned out so far
  seen,        \* history: the last message each handler took, or missed by connecting late
  overflowed   \* history: handlers that had a message dropped

hub     == <<clients, channel, channelOpen, shutdown, hubClosed, locked>>
ghost   == <<sent, seen, overflowed>>
hubVars == <<hub, publisher, sseHandler, calls, ghost>>

HubInit ==
  /\ clients = {}
  /\ channel = [b \in Browsers |-> <<>>]
  /\ channelOpen = [b \in Browsers |-> TRUE]
  /\ shutdown = FALSE
  /\ hubClosed = FALSE
  /\ locked = FALSE
  /\ publisher = [p \in Publishers |-> "idle"]
  /\ sseHandler = [b \in Browsers |-> "away"]
  /\ calls = 0
  /\ sent = 0
  /\ seen = [b \in Browsers |-> 0]
  /\ overflowed = {}

-----------------------------------------------------------------------------
(* Publish *)

CallPublish(p) ==
  /\ publisher[p] = "idle"
  /\ calls < MaxMessages
  /\ calls' = calls + 1
  /\ publisher' = [publisher EXCEPT ![p] = "publishing"]
  /\ UNCHANGED <<hub, sseHandler, ghost>>

Full(b) == Len(channel[b]) = Buffer

(* Mutants: a full channel ends the loop; a full channel blocks the send. *)
FanOutUntilFull(p) ==
  /\ publisher[p] = "publishing"
  /\ ~locked
  /\ ~hubClosed
  /\ sent' = sent + 1
  /\ channel' = [b \in Browsers |->
                   IF b \in clients /\ \A other \in clients : ~Full(other)
                   THEN Append(channel[b], sent + 1) ELSE channel[b]]
  /\ overflowed' = overflowed \cup {b \in clients : Full(b)}
  /\ publisher' = [publisher EXCEPT ![p] = "idle"]
  /\ UNCHANGED <<clients, channelOpen, shutdown, hubClosed, locked, sseHandler, calls,
                 seen>>

FanOutBlocking(p) ==
  /\ publisher[p] = "publishing"
  /\ ~locked
  /\ ~hubClosed
  /\ \A b \in clients : ~Full(b)
  /\ sent' = sent + 1
  /\ channel' = [b \in Browsers |->
                   IF b \in clients THEN Append(channel[b], sent + 1) ELSE channel[b]]
  /\ publisher' = [publisher EXCEPT ![p] = "idle"]
  /\ UNCHANGED <<clients, channelOpen, shutdown, hubClosed, locked, sseHandler, calls,
                 seen, overflowed>>

(* The non-blocking send to every client. *)
FanOut(p) ==
  /\ publisher[p] = "publishing"
  /\ ~locked
  /\ ~hubClosed
  /\ sent' = sent + 1
  /\ channel' = [b \in Browsers |->
                   IF b \in clients /\ ~Full(b)
                   THEN Append(channel[b], sent + 1) ELSE channel[b]]
  /\ overflowed' = overflowed \cup {b \in clients : Full(b)}
  /\ publisher' = [publisher EXCEPT ![p] = "idle"]
  /\ UNCHANGED <<clients, channelOpen, shutdown, hubClosed, locked, sseHandler, calls,
                 seen>>

(* The early return, which does not unlock. *)
FindClosed(p) ==
  /\ publisher[p] = "publishing"
  /\ ~locked
  /\ hubClosed
  /\ locked' = TRUE
  /\ publisher' = [publisher EXCEPT ![p] = "idle"]
  /\ UNCHANGED <<clients, channel, channelOpen, shutdown, hubClosed, sseHandler, calls,
                 ghost>>

-----------------------------------------------------------------------------
(* sseHandler *)

GoesTo(b, place) == sseHandler' = [sseHandler EXCEPT ![b] = place]

Subscribe(b) ==
  /\ sseHandler[b] = "away"
  /\ ~locked
  /\ GoesTo(b, "listening")
  /\ clients' = clients \cup {b}
  /\ channel' = [channel EXCEPT ![b] = <<>>]
  /\ channelOpen' = [channelOpen EXCEPT ![b] = TRUE]
  /\ seen' = [seen EXCEPT ![b] = sent]
  /\ overflowed' = overflowed \ {b}
  /\ UNCHANGED <<shutdown, hubClosed, locked, publisher, calls, sent>>

Receive(b) ==
  /\ sseHandler[b] = "listening"
  /\ channel[b] # <<>>
  /\ channel' = [channel EXCEPT ![b] = Tail(@)]
  /\ seen' = [seen EXCEPT ![b] = Head(channel[b])]
  /\ GoesTo(b, "writing")
  /\ UNCHANGED <<clients, channelOpen, shutdown, hubClosed, locked, publisher, calls,
                 sent, overflowed>>

(* A closed and drained channel delivers the empty string, again and again. *)
ReceiveNothing(b) ==
  /\ sseHandler[b] = "listening"
  /\ channel[b] = <<>>
  /\ ~channelOpen[b]
  /\ GoesTo(b, "writing")
  /\ UNCHANGED <<hub, publisher, calls, ghost>>

Written(b) ==
  /\ sseHandler[b] = "writing"
  /\ GoesTo(b, "listening")
  /\ UNCHANGED <<hub, publisher, calls, ghost>>

(* Mutant: a handler looks for its closed channel instead of the shutdown.   *)
NoticeByChannel(b) ==
  /\ sseHandler[b] = "listening"
  /\ ~channelOpen[b]
  /\ GoesTo(b, "leaving")
  /\ UNCHANGED <<hub, publisher, calls, ghost>>

NoticeShutdown(b) ==
  /\ sseHandler[b] = "listening"
  /\ shutdown
  /\ GoesTo(b, "leaving")
  /\ UNCHANGED <<hub, publisher, calls, ghost>>

(* The browser goes away; a write under way fails, and its error is ignored. *)
Disconnect(b) ==
  /\ sseHandler[b] = "listening"
  /\ GoesTo(b, "leaving")
  /\ UNCHANGED <<hub, publisher, calls, ghost>>

Unsubscribe(b) ==
  /\ sseHandler[b] = "leaving"
  /\ ~locked
  /\ clients' = clients \ {b}
  /\ GoesTo(b, "away")
  /\ UNCHANGED <<channel, channelOpen, shutdown, hubClosed, locked, publisher, calls,
                 ghost>>

-----------------------------------------------------------------------------
(* Close is called once, when the program stops; run does the rest. *)
Close ==
  /\ ~shutdown
  /\ shutdown' = TRUE
  /\ UNCHANGED <<clients, channel, channelOpen, hubClosed, locked, publisher, sseHandler,
                 calls, ghost>>

(* Mutant: the hub is not marked closed. *)
CloseUnmarked ==
  /\ shutdown
  /\ ~locked
  /\ channelOpen' = [b \in Browsers |-> channelOpen[b] /\ b \notin clients]
  /\ UNCHANGED <<clients, channel, shutdown, hubClosed, locked, publisher, sseHandler,
                 calls, ghost>>

CloseClients ==
  /\ shutdown
  /\ ~hubClosed
  /\ ~locked
  /\ hubClosed' = TRUE
  /\ channelOpen' = [b \in Browsers |-> channelOpen[b] /\ b \notin clients]
  /\ UNCHANGED <<clients, channel, shutdown, locked, publisher, sseHandler, calls, ghost>>

-----------------------------------------------------------------------------
HubNext ==
  \/ \E p \in Publishers : CallPublish(p) \/ FanOut(p) \/ FindClosed(p)
  \/ \E b \in Browsers :
       \/ Subscribe(b) \/ Receive(b) \/ ReceiveNothing(b) \/ Written(b)
       \/ NoticeShutdown(b) \/ Disconnect(b) \/ Unsubscribe(b)
  \/ Close \/ CloseClients

HubSpec == HubInit /\ [][HubNext]_hubVars

(* Goroutines that can run do; sync.Mutex hands the lock to a waiter that   *)
(* has waited long, and select chooses at random among the ready cases, so  *)
(* neither starves: strong fairness.  Nothing makes a browser connect,      *)
(* leave or, if it is stuck, take what is written to it.                    *)
Fairness ==
  /\ \A p \in Publishers : SF_hubVars(FanOut(p)) /\ SF_hubVars(FindClosed(p))
  /\ \A b \in Browsers : SF_hubVars(NoticeShutdown(b)) /\ SF_hubVars(Unsubscribe(b))
  /\ \A b \in Browsers \ Stuck : WF_hubVars(Written(b))
  /\ WF_hubVars(CloseClients)

FairSpec == HubSpec /\ Fairness

-----------------------------------------------------------------------------
(* The shape of the state; no channel holds more than its buffer. *)
HubTypeOK ==
  /\ clients \subseteq Browsers
  /\ channel \in [Browsers -> Seq(1..MaxMessages)]
  /\ \A b \in Browsers : Len(channel[b]) <= Buffer
  /\ channelOpen \in [Browsers -> BOOLEAN]
  /\ shutdown \in BOOLEAN
  /\ hubClosed \in BOOLEAN
  /\ locked \in BOOLEAN
  /\ publisher \in [Publishers -> {"idle", "publishing"}]
  /\ sseHandler \in [Browsers -> {"away", "listening", "writing", "leaving"}]
  /\ calls \in 0..MaxMessages
  /\ sent \in 0..MaxMessages
  /\ seen \in [Browsers -> 0..MaxMessages]
  /\ overflowed \subseteq Browsers

(* A message is never sent to a closed channel, which would panic: while    *)
(* the hub lets Publish through, the channels it ranges over are open.      *)
SendsReachOpenChannels == ~hubClosed => \A b \in clients : channelOpen[b]

(* A handler that is somewhere in its loop is registered, and one that has  *)
(* returned is not: no channel without a reader stays in the map.           *)
ClientsAreRunning == clients = {b \in Browsers : sseHandler[b] # "away"}

(* subscribe, unsubscribe, Close: the map of clients holds the running     *)
(* handlers, and Publish finds no closed channel in it.                    *)
HubInv == HubTypeOK /\ SendsReachOpenChannels /\ ClientsAreRunning

(* The events a browser gets are in the order they were published, and as   *)
(* long as its channel never was full there is no gap: a message is lost to *)
(* a slow browser only.                                                     *)
OrderedWithoutGaps ==
  \A b \in clients :
    LET waiting == <<seen[b]>> \o channel[b] IN
    /\ \A i \in 1..Len(channel[b]) : waiting[i] < waiting[i + 1]
    /\ b \notin overflowed => seen[b] + Len(channel[b]) = sent

(* No browser, not even one that has stopped reading, makes Publish wait    *)
(* while the program runs.                                                  *)
BrowsersNeverStallPublish ==
  \A p \in Publishers : publisher[p] = "publishing" ~> publisher[p] = "idle" \/ shutdown

(* Once the hub is told to close, the handler of every browser that reads   *)
(* ends, unless a Publish has left the lock behind.                         *)
HandlersEndAtShutdown ==
  \A b \in Browsers \ Stuck : shutdown ~> sseHandler[b] = "away" \/ locked

=============================================================================
