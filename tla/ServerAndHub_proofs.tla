--------------------------- MODULE ServerAndHub_proofs ---------------------------
(***************************************************************************)
(* Proofs about the two components every proxied connection goes through:   *)
(* ProxyServer, for any set of connections and any bounds, and Hub, for any *)
(* publishers and browsers, stuck ones included, and any channel size.       *)
(*                                                                          *)
(* The server has two inductive invariants on top of TypeOK.                *)
(* ConnectionsInv relates where a connection's goroutine stands to the map  *)
(* and to the connection; RequestsInv, which needs it where a goroutine     *)
(* begins, relates it to what was reported of its request.                  *)
(*                                                                          *)
(* That the events of a browser are in order follows from what its channel  *)
(* holds: later messages than the last one taken, each later than the one   *)
(* before it, and, unless one was dropped, all there are.  That the numbers *)
(* stay within their type takes that messages are counted when the call     *)
(* begins and numbered when it is served.                                   *)
(***************************************************************************)
EXTENDS ProxyServer, Hub, TLAPS, FiniteSetTheorems

(* The goroutine may still use the connection. *)
Live == {"read", "report", "record", "serve", "serving"}

(* The goroutine has given the connection up. *)
Over == {"untrack", "done"}

(* A connection in use is in the map; one given up is closed unless its       *)
(* request was unreadable; one without a goroutine is not yet accepted, in    *)
(* the accept loop's hand, or closed.                                       *)
Connection(c) ==
  /\ handler[c] \in Live => c \in connections
  /\ handler[c] \in Over /\ kind[c] # "unreadable" => socket[c] = "closed"
  /\ handler[c] \in {"none", "read"} => kind[c] = "none"
  /\ socket[c] \in {"none", "backlog"} => handler[c] = "none" /\ c # inHand
  /\ socket[c] = "open" /\ handler[c] = "none" => c = inHand
  /\ c = inHand => handler[c] = "none"

(* A caller that has begun has marked the server closed, so Track, which      *)
(* starts goroutines, is out of reach once Close has gone through the map.    *)
ConnectionsInv ==
  /\ \A c \in Clients : Connection(c)
  /\ caller["main"] # "idle" => closed
  /\ CloseEndsConnections

(* What is known of a request at each place of its goroutine. *)
Request(c) ==
  /\ handler[c] \in {"none", "read", "report", "record", "serve"} => served[c] = "no"
  /\ handler[c] \in {"none", "read", "report"} => c \notin shown
  /\ handler[c] \in {"none", "read", "report", "record"} => c \notin viewed \cup stored
  /\ handler[c] \in {"record", "serve"} /\ Hidden(c) => c \notin shown \cup viewed \cup stored
  /\ handler[c] = "record" /\ c \notin torn => (c \in shown <=> capturing /\ ~Hidden(c))
  /\ handler[c] \notin {"none", "read", "report", "record"} /\ c \notin torn =>
       (c \in shown <=> c \in viewed)

RequestsInv ==
  /\ \A c \in Clients : Request(c)
  /\ ReportedAsServed

-----------------------------------------------------------------------------
(* Types *)

LEMMA InitType == Init => TypeOK
<1> SUFFICES ASSUME Init PROVE TypeOK
  OBVIOUS
<1>1. /\ caller \in [Callers -> {"idle", "listener", "connections", "done"}]
      /\ socket \in [Clients -> {"none", "backlog", "open", "closed"}]
      /\ handler \in [Clients -> {"none", "read", "report", "record", "serve",
                                  "serving", "untrack", "done"}]
      /\ kind \in [Clients -> {"none", "connect", "plain", "unreadable"}]
      /\ snapshot \in [Clients -> BOOLEAN]
      /\ served \in [Clients -> {"no", "decrypted", "forwarded"}]
  BY DEF Init
<1>2. faults \in 0..MaxFaults /\ switches \in 0..MaxSwitches
  BY ProxyServerAssumption DEF Init
<1>3. QED
  BY <1>1, <1>2 DEF Init, TypeOK

LEMMA RunType ==
  ASSUME TypeOK, Run
  PROVE  TypeOK'
<1> USE ProxyServerAssumption DEF TypeOK, settings, history, locals, server
<1>1. ASSUME NEW c \in Clients, Accept(c) PROVE TypeOK'
  BY <1>1 DEF Accept
<1>2. CASE AcceptFails
  BY <1>2 DEF AcceptFails
<1>3. CASE AfterAcceptError
  BY <1>3 DEF AfterAcceptError
<1>4. CASE Reject
  BY <1>4 DEF Reject
<1>5. CASE Track
  BY <1>5 DEF Track
<1>6. CASE RefuseLate
  BY <1>6 DEF RefuseLate
<1>7. QED
  BY <1>1, <1>2, <1>3, <1>4, <1>5, <1>6 DEF Run

LEMMA EndType ==
  ASSUME TypeOK, NEW a \in Callers, End(a)
  PROVE  TypeOK'
<1> USE DEF TypeOK, settings, history, locals, server, Stopped
<1>1. CASE StopAccepting(a)
  BY <1>1 DEF StopAccepting
<1>2. CASE CloseListener(a)
  BY <1>2 DEF CloseListener
<1>3. CASE CloseConnections(a)
  BY <1>3 DEF CloseConnections
<1>4. QED
  BY <1>1, <1>2, <1>3 DEF End

LEMMA HandleType ==
  ASSUME TypeOK, NEW c \in Clients, Handle(c)
  PROVE  TypeOK'
<1> USE DEF TypeOK, settings, history, locals, server, Step
<1>1. CASE ReadRequest(c)
  BY <1>1 DEF ReadRequest
<1>2. CASE ReadFails(c)
  BY <1>2 DEF ReadFails
<1>3. CASE Report(c)
  BY <1>3 DEF Report
<1>4. CASE Record(c)
  BY <1>4 DEF Record
<1>5. CASE Serve(c)
  BY <1>5 DEF Serve
<1>6. CASE Finish(c)
  BY <1>6 DEF Finish
<1>7. CASE Untrack(c)
  BY <1>7 DEF Untrack
<1>8. QED
  BY <1>1, <1>2, <1>3, <1>4, <1>5, <1>6, <1>7 DEF Handle

LEMMA OthersType ==
  ASSUME TypeOK, Others
  PROVE  TypeOK'
<1> USE ProxyServerAssumption
    DEF TypeOK, settings, history, locals, server, Reporting
<1>1. CASE PauseOrResume
  BY <1>1 DEF PauseOrResume
<1>2. CASE SwitchStorage
  BY <1>2 DEF SwitchStorage
<1>3. CASE SwitchPipeline
  BY <1>3 DEF SwitchPipeline
<1>4. QED
  BY <1>1, <1>2, <1>3 DEF Others

LEMMA StepType == TypeOK /\ [Next]_vars => TypeOK'
<1> SUFFICES ASSUME TypeOK, [Next]_vars PROVE TypeOK'
  OBVIOUS
<1>1. ASSUME NEW c \in Clients, Connect(c) PROVE TypeOK'
  BY <1>1 DEF Connect, TypeOK, settings, history, locals, server
<1>2. ASSUME NEW c \in Clients, Collect(c) PROVE TypeOK'
  BY <1>2 DEF Collect, TypeOK, settings, history, locals, server
<1>3. CASE UNCHANGED vars
  BY <1>3 DEF vars, TypeOK, settings, history, locals, server
<1>4. QED
  BY <1>1, <1>2, <1>3, RunType, EndType, HandleType, OthersType DEF Next

(* The variables of the server, its connections and the reports keep their    *)
(* shapes.                                                                  *)
THEOREM TypeCorrect == Spec => []TypeOK
<1>1. QED
  BY InitType, StepType, PTL DEF Spec

-----------------------------------------------------------------------------
(* Connections *)

LEMMA InitConnections == Init => ConnectionsInv
<1> SUFFICES ASSUME Init PROVE ConnectionsInv
  OBVIOUS
<1>1. caller["main"] = "idle"
  BY DEF Init, Callers
<1>2. \A c \in Clients : c # inHand
  BY ProxyServerAssumption DEF Init
<1>3. QED
  BY <1>1, <1>2 DEF Init, ConnectionsInv, Connection, CloseEndsConnections, Live, Over

LEMMA RunConnections ==
  ASSUME TypeOK, ConnectionsInv, Run
  PROVE  ConnectionsInv'
<1> USE DEF TypeOK, ConnectionsInv, Connection, CloseEndsConnections, Unreadable, Live, Over
<1>1. ASSUME NEW c \in Clients, Accept(c) PROVE ConnectionsInv'
  BY <1>1, ProxyServerAssumption DEF Accept, locals
<1>2. CASE AcceptFails
  BY <1>2 DEF AcceptFails, locals
<1>3. CASE AfterAcceptError
  BY <1>3 DEF AfterAcceptError, locals
<1>4. CASE Reject
  BY <1>4, ProxyServerAssumption DEF Reject, locals
<1>5. CASE Track
  BY <1>5, ProxyServerAssumption DEF Track, locals
<1>6. CASE RefuseLate
  BY <1>6, ProxyServerAssumption DEF RefuseLate, locals
<1>7. QED
  BY <1>1, <1>2, <1>3, <1>4, <1>5, <1>6 DEF Run

LEMMA EndConnections ==
  ASSUME TypeOK, ConnectionsInv, NEW a \in Callers, End(a)
  PROVE  ConnectionsInv'
<1> USE DEF TypeOK, ConnectionsInv, Connection, CloseEndsConnections, Unreadable, Live, Over
<1>1. CASE StopAccepting(a)
  BY <1>1 DEF StopAccepting, Stopped, Callers, locals
<1>2. CASE CloseListener(a)
  BY <1>2 DEF CloseListener, Stopped, Callers, locals
<1>3. CASE CloseConnections(a)
  BY <1>3 DEF CloseConnections, Callers, locals
<1>4. QED
  BY <1>1, <1>2, <1>3 DEF End

LEMMA HandleConnections ==
  ASSUME TypeOK, ConnectionsInv, NEW c \in Clients, Handle(c)
  PROVE  ConnectionsInv'
<1> USE DEF TypeOK, ConnectionsInv, Connection, CloseEndsConnections, Unreadable, Live, Over,
            Step, server, locals
<1>1. CASE ReadRequest(c)
  BY <1>1 DEF ReadRequest
<1>2. CASE ReadFails(c)
  BY <1>2 DEF ReadFails
<1>3. CASE Report(c)
  BY <1>3 DEF Report
<1>4. CASE Record(c)
  BY <1>4 DEF Record
<1>5. CASE Serve(c)
  BY <1>5 DEF Serve
<1>6. CASE Finish(c)
  BY <1>6 DEF Finish
<1>7. CASE Untrack(c)
  BY <1>7 DEF Untrack
<1>8. QED
  BY <1>1, <1>2, <1>3, <1>4, <1>5, <1>6, <1>7 DEF Handle

LEMMA StepConnections == TypeOK /\ ConnectionsInv /\ [Next]_vars => ConnectionsInv'
<1> SUFFICES ASSUME TypeOK, ConnectionsInv, [Next]_vars PROVE ConnectionsInv'
  OBVIOUS
<1> USE DEF TypeOK, ConnectionsInv, Connection, CloseEndsConnections, Unreadable, Live, Over,
            server, locals
<1>1. ASSUME NEW c \in Clients, Connect(c) PROVE ConnectionsInv'
  BY <1>1 DEF Connect
<1>2. ASSUME NEW c \in Clients, Collect(c) PROVE ConnectionsInv'
  BY <1>2 DEF Collect
<1>3. CASE Others
  BY <1>3 DEF Others, PauseOrResume, SwitchStorage, SwitchPipeline
<1>4. CASE UNCHANGED vars
  BY <1>4 DEF vars
<1>5. QED
  BY <1>1, <1>2, <1>3, <1>4, RunConnections, EndConnections, HandleConnections DEF Next

-----------------------------------------------------------------------------
(* Requests *)

LEMMA InitRequests == Init => RequestsInv
<1> SUFFICES ASSUME Init, NEW c \in Clients
             PROVE  Request(c) /\ (served[c] = "decrypted" => kind[c] = "connect"
                                      /\ c \notin shown \cup viewed \cup stored)
  BY DEF RequestsInv, ReportedAsServed
<1>1. handler[c] = "none" /\ served[c] = "no"
  BY DEF Init
<1>2. c \notin shown \cup viewed \cup stored
  BY DEF Init
<1>3. QED
  BY <1>1, <1>2 DEF Request

(* A goroutine begins once, with a request nobody has reported. *)
LEMMA RunRequests ==
  ASSUME TypeOK, ConnectionsInv, RequestsInv, Run
  PROVE  RequestsInv'
<1> USE DEF TypeOK, RequestsInv, Request, ReportedAsServed, Hidden, locals, settings, history
<1>1. ASSUME NEW c \in Clients, Accept(c) PROVE RequestsInv'
  BY <1>1 DEF Accept
<1>2. CASE AcceptFails
  BY <1>2 DEF AcceptFails
<1>3. CASE AfterAcceptError
  BY <1>3 DEF AfterAcceptError
<1>4. CASE Reject
  BY <1>4 DEF Reject
<1>5. CASE Track
  <2>1. inHand \in Clients /\ handler[inHand] = "none"
    BY <1>5 DEF Track, ConnectionsInv, Connection
  <2>2. QED
    BY <1>5, <2>1 DEF Track
<1>6. CASE RefuseLate
  BY <1>6 DEF RefuseLate
<1>7. QED
  BY <1>1, <1>2, <1>3, <1>4, <1>5, <1>6 DEF Run

LEMMA HandleRequests ==
  ASSUME TypeOK, RequestsInv, NEW c \in Clients, Handle(c)
  PROVE  RequestsInv'
<1> USE DEF TypeOK, RequestsInv, Request, ReportedAsServed, Hidden, Step,
            locals, settings, history
<1>1. CASE ReadRequest(c)
  BY <1>1 DEF ReadRequest
<1>2. CASE ReadFails(c)
  BY <1>2 DEF ReadFails
<1>3. CASE Report(c)
  BY <1>3 DEF Report
<1>4. CASE Record(c)
  BY <1>4 DEF Record
<1>5. CASE Serve(c)
  BY <1>5 DEF Serve
<1>6. CASE Finish(c)
  BY <1>6 DEF Finish
<1>7. CASE Untrack(c)
  BY <1>7 DEF Untrack
<1>8. QED
  BY <1>1, <1>2, <1>3, <1>4, <1>5, <1>6, <1>7 DEF Handle

(* Switching the view concerns the requests being reported, and marks them.  *)
LEMMA OthersRequests ==
  ASSUME TypeOK, RequestsInv, Others
  PROVE  RequestsInv'
<1> USE DEF TypeOK, RequestsInv, Request, ReportedAsServed, Hidden, locals, history
<1>1. CASE PauseOrResume
  BY <1>1 DEF PauseOrResume, Reporting
<1>2. CASE SwitchStorage
  BY <1>2 DEF SwitchStorage
<1>3. CASE SwitchPipeline
  BY <1>3 DEF SwitchPipeline
<1>4. QED
  BY <1>1, <1>2, <1>3 DEF Others

LEMMA StepRequests == TypeOK /\ ConnectionsInv /\ RequestsInv /\ [Next]_vars => RequestsInv'
<1> SUFFICES ASSUME TypeOK, ConnectionsInv, RequestsInv, [Next]_vars PROVE RequestsInv'
  OBVIOUS
<1> USE DEF TypeOK, RequestsInv, Request, ReportedAsServed, Hidden, locals, settings, history
<1>1. ASSUME NEW c \in Clients, Connect(c) \/ Collect(c) PROVE RequestsInv'
  BY <1>1 DEF Connect, Collect
<1>2. ASSUME NEW a \in Callers, End(a) PROVE RequestsInv'
  BY <1>2 DEF End, StopAccepting, CloseListener, CloseConnections
<1>3. CASE UNCHANGED vars
  BY <1>3 DEF vars
<1>4. QED
  BY <1>1, <1>2, <1>3, RunRequests, HandleRequests, OthersRequests DEF Next

-----------------------------------------------------------------------------
(* Theorems *)

(* The two invariants are inductive on top of the types. *)
THEOREM Inductive == Spec => [](TypeOK /\ ConnectionsInv /\ RequestsInv)
<1>1. Init => TypeOK /\ ConnectionsInv /\ RequestsInv
  BY InitType, InitConnections, InitRequests
<1>2. TypeOK /\ ConnectionsInv /\ RequestsInv /\ [Next]_vars
        => (TypeOK /\ ConnectionsInv /\ RequestsInv)'
  BY StepType, StepConnections, StepRequests
<1>3. QED
  BY <1>1, <1>2, PTL DEF Spec

(* Once Close has returned, no goroutine serves an open connection: however   *)
(* many connections are accepted while it runs, and whether or not the         *)
(* supervisor has stopped the server before.                                *)
THEOREM CloseEnds == Spec => []CloseEndsConnections
<1>1. ConnectionsInv => CloseEndsConnections
  BY DEF ConnectionsInv
<1>2. QED
  BY <1>1, Inductive, PTL

(* An open connection whose request was readable is in the map, or still in   *)
(* the accept loop's hand.                                                  *)
THEOREM Reachable == Spec => []OpenConnectionsAreReachable
<1>1. TypeOK /\ ConnectionsInv => OpenConnectionsAreReachable
  BY DEF TypeOK, ConnectionsInv, Connection, OpenConnectionsAreReachable, Unreadable,
         Live, Over
<1>2. QED
  BY <1>1, Inductive, PTL

(* A tunnel that is decrypted was not reported as such, whatever pipeline is  *)
(* installed meanwhile, and whatever was switched.                          *)
THEOREM TruthfullyReported == Spec => []ReportedAsServed
<1>1. RequestsInv => ReportedAsServed
  BY DEF RequestsInv
<1>2. QED
  BY <1>1, Inductive, PTL

(* The event stream and the store have the same requests, except those during *)
(* whose report the view was switched.                                      *)
THEOREM EventsRecorded == Spec => []EventsHaveRecords
<1>1. TypeOK /\ RequestsInv => EventsHaveRecords
  BY DEF TypeOK, RequestsInv, Request, EventsHaveRecords
<1>2. QED
  BY <1>1, Inductive, PTL

-----------------------------------------------------------------------------
(* The hub *)

Publishing == {p \in Publishers : publisher[p] = "publishing"}

(* Every message is counted before it has a number.                          *)
Counted ==
  /\ IsFiniteSet(Publishing)
  /\ sent + Cardinality(Publishing) <= calls

(* What the channel of a registered handler holds.                           *)
InOrder(b) ==
  /\ seen[b] <= sent
  /\ \A i \in DOMAIN channel[b] : seen[b] < channel[b][i] /\ channel[b][i] <= sent
  /\ \A i, j \in DOMAIN channel[b] : i < j => channel[b][i] < channel[b][j]
Complete(b) ==
  /\ seen[b] + Len(channel[b]) = sent
  /\ \A i \in DOMAIN channel[b] : channel[b][i] = seen[b] + i
ChannelsInOrder ==
  \A b \in clients : InOrder(b) /\ (b \notin overflowed => Complete(b))

HubIndInv == HubInv /\ Counted /\ ChannelsInOrder

LEMMA InitEstablishes == HubInit => HubIndInv
<1> SUFFICES ASSUME HubInit PROVE HubIndInv
  OBVIOUS
<1> USE HubAssumption DEF HubInit
<1>1. HubTypeOK
  <2>1. <<>> \in Seq(1..MaxMessages) /\ Len(<<>>) = 0
    OBVIOUS
  <2>2. /\ channel \in [Browsers -> Seq(1..MaxMessages)]
        /\ \A b \in Browsers : Len(channel[b]) <= Buffer
    BY <2>1
  <2>3. channelOpen \in [Browsers -> BOOLEAN] /\ seen \in [Browsers -> 0..MaxMessages]
    OBVIOUS
  <2>4. /\ publisher \in [Publishers -> {"idle", "publishing"}]
        /\ sseHandler \in [Browsers -> {"away", "listening", "writing", "leaving"}]
    OBVIOUS
  <2>5. shutdown \in BOOLEAN /\ hubClosed \in BOOLEAN /\ locked \in BOOLEAN
    BY Zenon
  <2>6. /\ clients \subseteq Browsers /\ overflowed \subseteq Browsers
        /\ calls \in 0..MaxMessages /\ sent \in 0..MaxMessages
    OBVIOUS
  <2>7. QED
    BY <2>2, <2>3, <2>4, <2>5, <2>6 DEF HubTypeOK
<1>2. Publishing = {}
  BY DEF Publishing
<1>3. Counted
  BY <1>2, FS_EmptySet DEF Counted
<1>4. SendsReachOpenChannels /\ ClientsAreRunning /\ ChannelsInOrder
  BY DEF SendsReachOpenChannels, ClientsAreRunning, ChannelsInOrder
<1>5. QED
  BY <1>1, <1>3, <1>4 DEF HubIndInv, HubInv

(* The publishers at work, when one begins and when one has finished.           *)
LEMMA PublisherBegins ==
  ASSUME HubIndInv, NEW p \in Publishers, publisher[p] = "idle",
         publisher' = [publisher EXCEPT ![p] = "publishing"]
  PROVE  /\ IsFiniteSet(Publishing')
         /\ Cardinality(Publishing') = Cardinality(Publishing) + 1
<1>1. Publishing' = Publishing \cup {p} /\ p \notin Publishing
  BY DEF Publishing, HubIndInv, HubInv, HubTypeOK
<1>2. QED
  BY <1>1, FS_AddElement DEF HubIndInv, Counted

LEMMA PublisherEnds ==
  ASSUME HubIndInv, NEW p \in Publishers, publisher[p] = "publishing",
         publisher' = [publisher EXCEPT ![p] = "idle"]
  PROVE  /\ IsFiniteSet(Publishing')
         /\ Cardinality(Publishing') = Cardinality(Publishing) - 1
         /\ Cardinality(Publishing) \in Nat \ {0}
<1>1. Publishing' = Publishing \ {p} /\ p \in Publishing
  BY DEF Publishing, HubIndInv, HubInv, HubTypeOK
<1>2. QED
  BY <1>1, FS_RemoveElement, FS_CardinalityType, FS_EmptySet DEF HubIndInv, Counted

LEMMA CallKeeps ==
  ASSUME HubIndInv, NEW p \in Publishers, CallPublish(p)
  PROVE  HubIndInv'
<1> USE DEF CallPublish, hub, ghost
<1>1. HubTypeOK'
  BY HubAssumption DEF HubIndInv, HubInv, HubTypeOK
<1>2. Counted'
  <2>1. Cardinality(Publishing) \in Nat /\ sent \in Nat /\ calls \in Nat
    BY FS_CardinalityType DEF HubIndInv, HubInv, HubTypeOK, Counted
  <2>2. /\ IsFiniteSet(Publishing')
        /\ Cardinality(Publishing') = Cardinality(Publishing) + 1
    BY PublisherBegins
  <2>3. calls' = calls + 1 /\ sent' = sent /\ sent + Cardinality(Publishing) <= calls
    BY DEF HubIndInv, Counted
  <2> HIDE DEF CallPublish
  <2>4. QED
    BY <2>1, <2>2, <2>3 DEF Counted
<1>3. SendsReachOpenChannels' /\ ClientsAreRunning'
  BY DEF HubIndInv, HubInv, SendsReachOpenChannels, ClientsAreRunning
<1>4. ChannelsInOrder'
  BY DEF HubIndInv, ChannelsInOrder, InOrder, Complete
<1>5. QED
  BY <1>1, <1>2, <1>3, <1>4 DEF HubIndInv, HubInv

(* Fanning a message out: it gets the next number, and every channel with room   *)
(* gets the message behind the earlier ones.                                  *)
LEMMA FanOutKeeps ==
  ASSUME HubIndInv, NEW p \in Publishers, FanOut(p)
  PROVE  HubIndInv'
<1>1. /\ channel' = [b \in Browsers |->
                       IF b \in clients /\ ~Full(b) THEN Append(channel[b], sent + 1) ELSE channel[b]]
      /\ sent' = sent + 1
      /\ overflowed' = overflowed \cup {b \in clients : Full(b)}
      /\ publisher[p] = "publishing" /\ publisher' = [publisher EXCEPT ![p] = "idle"]
      /\ UNCHANGED <<clients, channelOpen, shutdown, hubClosed, locked, sseHandler, calls, seen>>
  BY DEF FanOut
<1>2. HubTypeOK /\ clients \subseteq Browsers /\ sent \in Nat /\ calls \in 0..MaxMessages
  BY DEF HubIndInv, HubInv, HubTypeOK
<1>3. Counted' /\ sent + 1 \in 1..MaxMessages
  <2>1. /\ IsFiniteSet(Publishing')
        /\ Cardinality(Publishing') = Cardinality(Publishing) - 1
        /\ Cardinality(Publishing) \in Nat \ {0}
    BY <1>1, PublisherEnds
  <2>2. sent + Cardinality(Publishing) <= calls
    BY DEF HubIndInv, Counted
  <2>3. sent' + Cardinality(Publishing') <= calls'
    BY <1>1, <1>2, <2>1, <2>2
  <2>4. sent + 1 \in 1..MaxMessages
    BY <1>2, <2>1, <2>2, HubAssumption
  <2>5. QED
    BY <2>1, <2>3, <2>4 DEF Counted
<1>4. ASSUME NEW b \in Browsers
      PROVE  /\ channel'[b] \in Seq(1..MaxMessages) /\ Len(channel'[b]) <= Buffer
             /\ b \in clients /\ ~Full(b) =>
                  /\ Len(channel'[b]) = Len(channel[b]) + 1
                  /\ channel'[b][Len(channel[b]) + 1] = sent + 1
                  /\ \A i \in 1..Len(channel[b]) : channel'[b][i] = channel[b][i]
             /\ ~(b \in clients /\ ~Full(b)) => channel'[b] = channel[b]
  <2>1. channel[b] \in Seq(1..MaxMessages) /\ Len(channel[b]) <= Buffer
    BY <1>2 DEF HubTypeOK
  <2>2. CASE b \in clients /\ ~Full(b)
    <3>1. channel'[b] = Append(channel[b], sent + 1)
      BY <1>1, <2>2
    <3>2. Len(channel[b]) < Buffer
      BY <2>1, <2>2, HubAssumption DEF Full
    <3>3. QED
      BY <1>3, <2>1, <2>2, <3>1, <3>2, HubAssumption
  <2>3. CASE ~(b \in clients /\ ~Full(b))
    BY <1>1, <2>1, <2>3
  <2>4. QED
    BY <2>2, <2>3
<1>5. HubTypeOK'
  <2>1. channel' \in [Browsers -> Seq(1..MaxMessages)] /\ \A b \in Browsers : Len(channel'[b]) <= Buffer
    BY <1>1, <1>4
  <2>2. sent' \in 0..MaxMessages /\ overflowed' \subseteq Browsers
    BY <1>1, <1>2, <1>3, HubAssumption DEF HubTypeOK
  <2>3. QED
    BY <1>1, <1>2, <2>1, <2>2 DEF HubTypeOK
<1>6. SendsReachOpenChannels' /\ ClientsAreRunning'
  BY <1>1 DEF HubIndInv, HubInv, SendsReachOpenChannels, ClientsAreRunning
<1>7. ChannelsInOrder'
  <2> SUFFICES ASSUME NEW b \in clients
               PROVE  InOrder(b)' /\ (b \notin overflowed' => Complete(b)')
    BY <1>1 DEF ChannelsInOrder
  <2>1. b \in Browsers /\ channel[b] \in Seq(1..MaxMessages) /\ seen[b] \in Nat
    BY <1>2 DEF HubTypeOK
  <2>2. InOrder(b) /\ (b \notin overflowed => Complete(b))
    BY DEF HubIndInv, ChannelsInOrder
  <2>3. CASE Full(b)
    <3>1. b \in overflowed' /\ channel'[b] = channel[b] /\ seen' = seen /\ sent' = sent + 1
      BY <1>1, <1>4, <2>1, <2>3
    <3>2. \A i \in DOMAIN channel[b] : channel[b][i] \in Nat
      BY <2>1, HubAssumption
    <3>3. QED
      BY <1>2, <2>1, <2>2, <3>1, <3>2 DEF InOrder
  <2>4. CASE ~Full(b)
    <3> DEFINE n == Len(channel[b])
    <3>1. /\ Len(channel'[b]) = n + 1 /\ channel'[b][n + 1] = sent + 1
          /\ \A i \in 1..n : channel'[b][i] = channel[b][i]
          /\ channel'[b] \in Seq(1..MaxMessages) /\ n \in Nat
      BY <1>4, <2>1, <2>4
    <3>2. DOMAIN channel[b] = 1..n /\ DOMAIN channel'[b] = 1..(n + 1)
      BY <2>1, <3>1
    <3>3. \A i \in 1..n : channel[b][i] \in Nat
      BY <2>1, HubAssumption
    <3> HIDE DEF n
    <3>4. InOrder(b)'
      BY <1>1, <1>2, <2>1, <2>2, <3>1, <3>2, <3>3 DEF InOrder
    <3>5. ASSUME b \notin overflowed' PROVE Complete(b)'
      <4>1. seen[b] + n = sent /\ \A i \in 1..n : channel[b][i] = seen[b] + i
        BY <1>1, <2>2, <3>2, <3>5 DEF Complete, n
      <4>2. \A i \in 1..(n + 1) : channel'[b][i] = seen[b] + i
        <5>1. TAKE i \in 1..(n + 1)
        <5>2. CASE i \in 1..n
          BY <3>1, <4>1, <5>2
        <5>3. CASE i = n + 1
          <6>1. seen[b] + (n + 1) = sent + 1
            BY <1>2, <2>1, <3>1, <4>1
          <6>2. QED
            BY <3>1, <5>3, <6>1
        <5>4. QED
          BY <3>1, <5>2, <5>3
      <4>3. seen' = seen /\ sent' = sent + 1
        BY <1>1
      <4>4. seen[b] + (n + 1) = sent + 1
        BY <1>2, <2>1, <3>1, <4>1
      <4>5. QED
        BY <3>1, <3>2, <4>2, <4>3, <4>4 DEF Complete
    <3>6. QED
      BY <3>4, <3>5
  <2>5. QED
    BY <2>3, <2>4
<1>8. QED
  BY <1>3, <1>5, <1>6, <1>7 DEF HubIndInv, HubInv

(* The other steps leave the channels as they are, but for a new handler's and   *)
(* the message a handler takes.                                              *)
LEMMA SubscribeKeeps ==
  ASSUME HubIndInv, NEW b \in Browsers, Subscribe(b)
  PROVE  HubIndInv'
<1> USE DEF Subscribe, GoesTo
<1>1. /\ clients' = clients \cup {b} /\ channel' = [channel EXCEPT ![b] = <<>>]
      /\ seen' = [seen EXCEPT ![b] = sent] /\ sent' = sent /\ overflowed' = overflowed \ {b}
      /\ publisher' = publisher /\ calls' = calls
      /\ channelOpen' = [channelOpen EXCEPT ![b] = TRUE]
      /\ sseHandler' = [sseHandler EXCEPT ![b] = "listening"] /\ hubClosed' = hubClosed
  OBVIOUS
<1>2. HubTypeOK
  BY DEF HubIndInv, HubInv
<1>3. HubTypeOK'
  <2>1. <<>> \in Seq(1..MaxMessages) /\ Len(<<>>) = 0
    OBVIOUS
  <2>2. /\ channel' \in [Browsers -> Seq(1..MaxMessages)]
        /\ \A c \in Browsers : Len(channel'[c]) <= Buffer
    BY <1>1, <1>2, <2>1, HubAssumption DEF HubTypeOK
  <2>3. seen' \in [Browsers -> 0..MaxMessages] /\ channelOpen' \in [Browsers -> BOOLEAN]
    BY <1>1, <1>2 DEF HubTypeOK
  <2>4. QED
    BY <1>2, <2>2, <2>3 DEF HubTypeOK
<1>4. Counted'
  BY <1>1 DEF HubIndInv, Counted, Publishing
<1>5. SendsReachOpenChannels' /\ ClientsAreRunning'
  BY <1>1, <1>2 DEF HubIndInv, HubInv, HubTypeOK, SendsReachOpenChannels, ClientsAreRunning
<1>6. ChannelsInOrder'
  <2> SUFFICES ASSUME NEW c \in clients'
               PROVE  InOrder(c)' /\ (c \notin overflowed' => Complete(c)')
    BY DEF ChannelsInOrder
  <2>1. CASE c = b
    <3>1. channel'[c] = <<>> /\ seen'[c] = sent /\ sent \in Nat
      BY <1>1, <1>2, <2>1 DEF HubTypeOK
    <3>2. QED
      BY <1>1, <3>1 DEF InOrder, Complete
  <2>2. CASE c # b
    <3>1. /\ c \in clients /\ c \in Browsers
          /\ channel'[c] = channel[c] /\ seen'[c] = seen[c]
          /\ c \notin overflowed' => c \notin overflowed
      BY <1>1, <1>2, <2>2 DEF HubTypeOK
    <3>2. QED
      BY <1>1, <3>1 DEF HubIndInv, ChannelsInOrder, InOrder, Complete
  <2>3. QED
    BY <2>1, <2>2
<1>7. QED
  BY <1>3, <1>4, <1>5, <1>6 DEF HubIndInv, HubInv

LEMMA ReceiveKeeps ==
  ASSUME HubIndInv, NEW b \in Browsers, Receive(b)
  PROVE  HubIndInv'
<1> USE DEF Receive, GoesTo
<1>1. /\ channel[b] # <<>> /\ channel' = [channel EXCEPT ![b] = Tail(channel[b])]
      /\ seen' = [seen EXCEPT ![b] = Head(channel[b])]
      /\ sent' = sent /\ overflowed' = overflowed /\ clients' = clients
      /\ publisher' = publisher /\ calls' = calls /\ channelOpen' = channelOpen
      /\ sseHandler[b] = "listening" /\ sseHandler' = [sseHandler EXCEPT ![b] = "writing"]
      /\ hubClosed' = hubClosed
  OBVIOUS
<1>2. HubTypeOK
  BY DEF HubIndInv, HubInv
<1> DEFINE n == Len(channel[b])
<1>3. /\ n \in Nat \ {0} /\ n <= Buffer
      /\ Tail(channel[b]) \in Seq(1..MaxMessages) /\ Len(Tail(channel[b])) = n - 1
      /\ \A i \in 1..(n - 1) : Tail(channel[b])[i] = channel[b][i + 1]
      /\ Head(channel[b]) = channel[b][1] /\ channel[b][1] \in 1..MaxMessages
      /\ \A i \in 1..n : channel[b][i] \in Nat
      /\ DOMAIN channel[b] = 1..n /\ DOMAIN Tail(channel[b]) = 1..(n - 1)
  BY <1>1, <1>2, HubAssumption DEF HubTypeOK
<1>4. HubTypeOK'
  <2>1. /\ channel' \in [Browsers -> Seq(1..MaxMessages)]
        /\ \A c \in Browsers : Len(channel'[c]) <= Buffer
    BY <1>1, <1>2, <1>3, HubAssumption DEF HubTypeOK
  <2>2. seen' \in [Browsers -> 0..MaxMessages]
    BY <1>1, <1>2, <1>3, HubAssumption DEF HubTypeOK
  <2>3. QED
    BY <1>2, <2>1, <2>2 DEF HubTypeOK
<1>5. Counted'
  BY <1>1 DEF HubIndInv, Counted, Publishing
<1>6. SendsReachOpenChannels' /\ ClientsAreRunning'
  BY <1>1, <1>2 DEF HubIndInv, HubInv, HubTypeOK, SendsReachOpenChannels, ClientsAreRunning
<1>7. ChannelsInOrder'
  <2> SUFFICES ASSUME NEW c \in clients
               PROVE  InOrder(c)' /\ (c \notin overflowed => Complete(c)')
    BY <1>1 DEF ChannelsInOrder
  <2>1. InOrder(c) /\ (c \notin overflowed => Complete(c)) /\ c \in Browsers
    BY <1>2 DEF HubIndInv, ChannelsInOrder, HubTypeOK
  <2>2. CASE c = b
    <3>1. channel'[c] = Tail(channel[b]) /\ seen'[c] = channel[b][1] /\ sent \in Nat /\ seen[b] \in Nat
      BY <1>1, <1>2, <1>3, <2>1, <2>2 DEF HubTypeOK
    <3> HIDE DEF n
    <3>2. InOrder(c)'
      <4>1. /\ \A i \in 1..n : channel[b][i] <= sent
            /\ \A i, j \in 1..n : i < j => channel[b][i] < channel[b][j]
        BY <1>3, <2>1, <2>2 DEF InOrder
      <4>2. 1 \in 1..n /\ \A i \in 1..(n - 1) : i + 1 \in 1..n /\ 1 < i + 1
        BY <1>3
      <4>3. \A i \in 1..(n - 1) : channel[b][1] < channel'[c][i] /\ channel'[c][i] <= sent
        BY <1>3, <3>1, <4>1, <4>2
      <4>4. ASSUME NEW i \in 1..(n - 1), NEW j \in 1..(n - 1), i < j
            PROVE  channel'[c][i] < channel'[c][j]
        <5>1. i + 1 \in 1..n /\ j + 1 \in 1..n /\ i + 1 < j + 1
          BY <1>3, <4>2, <4>4
        <5>2. channel'[c][i] = channel[b][i + 1] /\ channel'[c][j] = channel[b][j + 1]
          BY <1>3, <3>1
        <5>3. QED
          BY <4>1, <5>1, <5>2
      <4>5. QED
        BY <1>1, <1>3, <3>1, <4>1, <4>2, <4>3, <4>4 DEF InOrder
    <3>3. ASSUME c \notin overflowed PROVE Complete(c)'
      <4>1. seen[b] + n = sent /\ \A i \in 1..n : channel[b][i] = seen[b] + i
        BY <1>3, <2>1, <2>2, <3>3 DEF Complete, n
      <4>2. \A i \in 1..(n - 1) : Tail(channel[b])[i] = (seen[b] + 1) + i
        BY <1>3, <3>1, <4>1
      <4>3. seen'[c] = seen[b] + 1 /\ (seen[b] + 1) + (n - 1) = sent
        BY <1>3, <3>1, <4>1
      <4>4. QED
        BY <1>1, <1>3, <3>1, <4>2, <4>3 DEF Complete
    <3>4. QED
      BY <3>2, <3>3
  <2>3. CASE c # b
    BY <1>1, <2>1, <2>3 DEF InOrder, Complete
  <2>4. QED
    BY <2>2, <2>3
<1>8. QED
  BY <1>4, <1>5, <1>6, <1>7 DEF HubIndInv, HubInv

(* Steps that leave clients, channels and numbers alone.                       *)
LEMMA QuietKeeps ==
  ASSUME HubIndInv, HubTypeOK', ClientsAreRunning', SendsReachOpenChannels',
         UNCHANGED <<clients, channel, publisher, calls, ghost>>
  PROVE  HubIndInv'
<1>1. Counted'
  BY DEF HubIndInv, Counted, Publishing, ghost
<1>2. ChannelsInOrder'
  BY DEF HubIndInv, ChannelsInOrder, InOrder, Complete, ghost
<1>3. QED
  BY <1>1, <1>2 DEF HubIndInv, HubInv

LEMMA HandlerKeeps ==
  ASSUME HubIndInv, NEW b \in Browsers,
         ReceiveNothing(b) \/ Written(b) \/ NoticeShutdown(b) \/ Disconnect(b)
  PROVE  HubIndInv'
<1>1. /\ UNCHANGED <<hub, publisher, calls, ghost>> /\ sseHandler[b] # "away"
      /\ \E place \in {"listening", "writing", "leaving"} :
           sseHandler' = [sseHandler EXCEPT ![b] = place]
  BY DEF ReceiveNothing, Written, NoticeShutdown, Disconnect, GoesTo
<1>2. HubTypeOK'
  BY <1>1 DEF HubIndInv, HubInv, HubTypeOK, hub, ghost
<1>3. ClientsAreRunning' /\ SendsReachOpenChannels'
  BY <1>1 DEF HubIndInv, HubInv, HubTypeOK, ClientsAreRunning, SendsReachOpenChannels, hub
<1>4. QED
  BY <1>1, <1>2, <1>3, QuietKeeps DEF hub

LEMMA UnsubscribeKeeps ==
  ASSUME HubIndInv, NEW b \in Browsers, Unsubscribe(b)
  PROVE  HubIndInv'
<1> USE DEF Unsubscribe, GoesTo
<1>1. HubTypeOK'
  BY DEF HubIndInv, HubInv, HubTypeOK, ghost
<1>2. ClientsAreRunning' /\ SendsReachOpenChannels'
  BY DEF HubIndInv, HubInv, HubTypeOK, ClientsAreRunning, SendsReachOpenChannels
<1>3. Counted'
  BY DEF HubIndInv, Counted, Publishing, ghost
<1>4. ChannelsInOrder'
  BY DEF HubIndInv, ChannelsInOrder, InOrder, Complete, ghost
<1>5. QED
  BY <1>1, <1>2, <1>3, <1>4 DEF HubIndInv, HubInv

LEMMA ClosingKeeps ==
  ASSUME HubIndInv, Close \/ CloseClients
  PROVE  HubIndInv'
<1>1. UNCHANGED <<clients, channel, publisher, sseHandler, calls, ghost>>
  BY DEF Close, CloseClients
<1>2. HubTypeOK'
  <2>1. CASE Close
    BY <2>1 DEF Close, HubIndInv, HubInv, HubTypeOK, ghost
  <2>2. CASE CloseClients
    <3>1. channelOpen' \in [Browsers -> BOOLEAN]
      BY <2>2 DEF CloseClients, HubIndInv, HubInv, HubTypeOK
    <3>2. QED
      BY <2>2, <3>1 DEF CloseClients, HubIndInv, HubInv, HubTypeOK, ghost
  <2>3. QED
    BY <2>1, <2>2
<1>3. ClientsAreRunning' /\ SendsReachOpenChannels'
  <2>1. CASE Close
    BY <2>1 DEF Close, HubIndInv, HubInv, ClientsAreRunning, SendsReachOpenChannels
  <2>2. CASE CloseClients
    BY <2>2 DEF CloseClients, HubIndInv, HubInv, ClientsAreRunning, SendsReachOpenChannels
  <2>3. QED
    BY <2>1, <2>2
<1>4. QED
  BY <1>1, <1>2, <1>3, QuietKeeps

(* A Publish that finds the hub closed keeps the lock and sends nothing.         *)
LEMMA FindClosedKeeps ==
  ASSUME HubIndInv, NEW p \in Publishers, FindClosed(p)
  PROVE  HubIndInv'
<1>1. /\ publisher[p] = "publishing" /\ publisher' = [publisher EXCEPT ![p] = "idle"]
      /\ UNCHANGED <<clients, channel, channelOpen, shutdown, hubClosed, sseHandler, calls, ghost>>
      /\ locked' = TRUE
  BY DEF FindClosed
<1>2. HubTypeOK'
  BY <1>1 DEF HubIndInv, HubInv, HubTypeOK, ghost
<1>3. ClientsAreRunning' /\ SendsReachOpenChannels'
  BY <1>1 DEF HubIndInv, HubInv, ClientsAreRunning, SendsReachOpenChannels
<1>4. Counted'
  <2>1. /\ IsFiniteSet(Publishing')
        /\ Cardinality(Publishing') = Cardinality(Publishing) - 1
        /\ Cardinality(Publishing) \in Nat \ {0}
    BY <1>1, PublisherEnds
  <2>2. sent \in Nat /\ calls \in Nat /\ sent + Cardinality(Publishing) <= calls
    BY DEF HubIndInv, HubInv, HubTypeOK, Counted
  <2>3. sent' = sent /\ calls' = calls
    BY <1>1 DEF ghost
  <2>4. QED
    BY <2>1, <2>2, <2>3 DEF Counted
<1>5. ChannelsInOrder'
  BY <1>1 DEF HubIndInv, ChannelsInOrder, InOrder, Complete, ghost
<1>6. QED
  BY <1>2, <1>3, <1>4, <1>5 DEF HubIndInv, HubInv

LEMMA StutterKeeps ==
  ASSUME HubIndInv, UNCHANGED hubVars
  PROVE  HubIndInv'
<1>1. HubTypeOK' /\ ClientsAreRunning' /\ SendsReachOpenChannels'
  BY DEF HubIndInv, HubInv, HubTypeOK, ClientsAreRunning, SendsReachOpenChannels, hubVars, hub, ghost
<1>2. QED
  BY <1>1, QuietKeeps DEF hubVars, hub, ghost

-----------------------------------------------------------------------------
(* The theorems. *)

(* The hub's invariant and the order of every channel hold initially and are     *)
(* kept by every step of publishers, browsers and the shutdown.               *)
THEOREM HubInductive == HubSpec => []HubIndInv
<1>1. HubInit => HubIndInv
  BY InitEstablishes
<1>2. HubIndInv /\ [HubNext]_hubVars => HubIndInv'
  <2> SUFFICES ASSUME HubIndInv, [HubNext]_hubVars PROVE HubIndInv'
    OBVIOUS
  <2>1. ASSUME NEW p \in Publishers, CallPublish(p) \/ FanOut(p) \/ FindClosed(p)
        PROVE  HubIndInv'
    BY <2>1, CallKeeps, FanOutKeeps, FindClosedKeeps
  <2>2. ASSUME NEW b \in Browsers,
               \/ Subscribe(b) \/ Receive(b) \/ ReceiveNothing(b) \/ Written(b)
               \/ NoticeShutdown(b) \/ Disconnect(b) \/ Unsubscribe(b)
        PROVE  HubIndInv'
    BY <2>2, SubscribeKeeps, ReceiveKeeps, HandlerKeeps, UnsubscribeKeeps
  <2>3. CASE Close \/ CloseClients
    BY <2>3, ClosingKeeps
  <2>4. CASE UNCHANGED hubVars
    BY <2>4, StutterKeeps
  <2>5. QED
    BY <2>1, <2>2, <2>3, <2>4 DEF HubNext
<1>3. QED
  BY <1>1, <1>2, PTL DEF HubSpec

(* The map of clients holds the running handlers, and no message is ever sent    *)
(* to a closed channel (subscribe, unsubscribe, run).                         *)
THEOREM HubCorrect == HubSpec => []HubInv
<1>1. HubIndInv => HubInv
  BY DEF HubIndInv
<1>2. QED
  BY <1>1, HubInductive, PTL

(* Each browser gets its events in the order they were published, all of them    *)
(* unless its channel was full, whatever the other browsers do (Publish).       *)
THEOREM OrderKept == HubSpec => []OrderedWithoutGaps
<1>1. HubIndInv => OrderedWithoutGaps
  <2> SUFFICES ASSUME HubIndInv, NEW b \in clients
               PROVE  /\ \A i \in 1..Len(channel[b]) :
                           (<<seen[b]>> \o channel[b])[i] < (<<seen[b]>> \o channel[b])[i + 1]
                      /\ b \notin overflowed => seen[b] + Len(channel[b]) = sent
    BY DEF OrderedWithoutGaps
  <2> DEFINE n == Len(channel[b])
             waiting == <<seen[b]>> \o channel[b]
  <2>1. /\ channel[b] \in Seq(1..MaxMessages) /\ seen[b] \in Nat
        /\ InOrder(b) /\ (b \notin overflowed => Complete(b))
    BY DEF HubIndInv, HubInv, HubTypeOK, ChannelsInOrder
  <2>2. /\ n \in Nat /\ DOMAIN channel[b] = 1..n
        /\ waiting[1] = seen[b] /\ \A i \in 1..n : waiting[i + 1] = channel[b][i]
    BY <2>1
  <2> HIDE DEF waiting
  <2>3. ASSUME NEW i \in 1..n PROVE waiting[i] < waiting[i + 1]
    <3>1. CASE i = 1
      BY <2>1, <2>2, <3>1 DEF InOrder
    <3>2. CASE i # 1
      <4>1. i - 1 \in 1..n /\ (i - 1) + 1 = i /\ i - 1 < i
        BY <2>2, <3>2
      <4>2. waiting[i] = channel[b][i - 1] /\ waiting[i + 1] = channel[b][i]
        BY <2>2, <4>1
      <4>3. QED
        BY <2>1, <2>2, <4>1, <4>2 DEF InOrder
    <3>3. QED
      BY <3>1, <3>2
  <2>4. b \notin overflowed => seen[b] + n = sent
    BY <2>1 DEF Complete
  <2>5. QED
    BY <2>3, <2>4 DEF waiting
<1>2. QED
  BY <1>1, HubInductive, PTL
=============================================================================
