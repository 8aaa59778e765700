------------------------------ MODULE ProxyServer ------------------------------
(***************************************************************************)
(* One ProxyServer (proxy_server.go): its accept loop, the goroutine of each *)
(* accepted connection up to the middleware and back, and the two callers    *)
(* that end it - the runtime supervisor, which stops accepting, and main,    *)
(* which closes everything at the end of the program.                       *)
(*                                                                         *)
(* While connections are served, other goroutines pause and resume the live  *)
(* view, switch storage, and install another pipeline in the switchable      *)
(* middleware.  A stretch of code under s.mu is one action.                  *)
(***************************************************************************)
EXTENDS Naturals, FiniteSets

CONSTANTS
  Clients,     \* connections that may be made, each once
  Nobody,      \* no connection
  MaxFaults,   \* bound: errors of Accept on an open listener
  MaxSwitches  \* bound: switches of recording and pipeline

ASSUME ProxyServerAssumption ==
  /\ Nobody \notin Clients
  /\ MaxFaults \in Nat
  /\ MaxSwitches \in Nat

VARIABLES
  listening,    \* is the listener open?
  closed,       \* s.closed
  connections,  \* s.connections
  run, inHand,  \* where the accept loop is, and the connection it accepted last
  caller,       \* where StopAccepting and Close are in their callers
  socket,       \* each connection as the operating system sees it
  handler,      \* where each connection's goroutine is
  kind,         \* the request each connection made
  snapshot,     \* the pipeline's decrypting flag, as each goroutine read it
  capturing, storing, decrypting, \* the switches other goroutines set
  faults, switches,  \* counters of the bounds
  shown, viewed, stored, \* history: requests in the event stream, the store, the file
  served,       \* history: how the pipeline treated the request
  torn          \* history: requests during whose report the view was switched

server   == <<listening, closed, connections, run, inHand, caller>>
locals   == <<kind, snapshot>>
settings == <<capturing, storing, decrypting, switches>>
history  == <<shown, viewed, stored, served, torn>>
vars == <<server, socket, handler, locals, settings, faults, history>>

Callers == {"supervisor", "main"}

(* A server may be created at any time, under any settings. *)
Init ==
  /\ listening = TRUE
  /\ closed = FALSE
  /\ connections = {}
  /\ run = "accept"
  /\ inHand = Nobody
  /\ caller = [a \in Callers |-> "idle"]
  /\ socket = [c \in Clients |-> "none"]
  /\ handler = [c \in Clients |-> "none"]
  /\ kind = [c \in Clients |-> "none"]
  /\ snapshot = [c \in Clients |-> FALSE]
  /\ capturing \in BOOLEAN
  /\ storing \in BOOLEAN
  /\ decrypting \in BOOLEAN
  /\ faults = 0
  /\ switches = 0
  /\ shown = {}
  /\ viewed = {}
  /\ stored = {}
  /\ served = [c \in Clients |-> "no"]
  /\ torn = {}

-----------------------------------------------------------------------------
(* The accept loop *)

(* The operating system completes the connection before Accept returns it.  *)
Connect(c) ==
  /\ socket[c] = "none"
  /\ listening
  /\ socket' = [socket EXCEPT ![c] = "backlog"]
  /\ UNCHANGED <<server, handler, locals, settings, faults, history>>

Accept(c) ==
  /\ run = "accept"
  /\ listening
  /\ socket[c] = "backlog"
  /\ socket' = [socket EXCEPT ![c] = "open"]
  /\ inHand' = c
  /\ run' = "accepted"
  /\ UNCHANGED <<listening, closed, connections, caller, handler, locals, settings, faults,
                 history>>

AcceptFails ==
  /\ run = "accept"
  /\ \/ ~listening /\ UNCHANGED faults
     \/ listening /\ faults < MaxFaults /\ faults' = faults + 1
  /\ run' = "failed"
  /\ UNCHANGED <<listening, closed, connections, inHand, caller, socket, handler, locals,
                 settings, history>>

(* Mutant: every error of Accept is retried. *)
RetryAccept ==
  /\ run = "failed"
  /\ run' = "accept"
  /\ UNCHANGED <<listening, closed, connections, inHand, caller, socket, handler, locals,
                 settings, faults, history>>

(* isClosed tells an error of Accept that ends the loop from one it retries. *)
AfterAcceptError ==
  /\ run = "failed"
  /\ run' = IF closed THEN "ended" ELSE "accept"
  /\ UNCHANGED <<listening, closed, connections, inHand, caller, socket, handler, locals,
                 settings, faults, history>>

(* Mutant: the loop still holds the connection it rejected. *)
RejectInHand ==
  /\ run = "accepted"
  /\ socket' = [socket EXCEPT ![inHand] = "closed"]
  /\ run' = "accept"
  /\ UNCHANGED <<listening, closed, connections, inHand, caller, handler, locals, settings,
                 faults, history>>

(* allowsClient refuses the address. *)
Reject ==
  /\ run = "accepted"
  /\ socket' = [socket EXCEPT ![inHand] = "closed"]
  /\ inHand' = Nobody
  /\ run' = "accept"
  /\ UNCHANGED <<listening, closed, connections, caller, handler, locals, settings, faults,
                 history>>

(* Mutant: a connection is tracked whether or not the server was closed. *)
TrackAlways ==
  /\ run = "accepted"
  /\ connections' = connections \cup {inHand}
  /\ handler' = [handler EXCEPT ![inHand] = "read"]
  /\ inHand' = Nobody
  /\ run' = "accept"
  /\ UNCHANGED <<listening, closed, caller, socket, locals, settings, faults, history>>

(* trackConnection, and the goroutine that Run starts. *)
Track ==
  /\ run = "accepted"
  /\ ~closed
  /\ connections' = connections \cup {inHand}
  /\ handler' = [handler EXCEPT ![inHand] = "read"]
  /\ inHand' = Nobody
  /\ run' = "accept"
  /\ UNCHANGED <<listening, closed, caller, socket, locals, settings, faults, history>>

(* trackConnection finds the server closed. *)
RefuseLate ==
  /\ run = "accepted"
  /\ closed
  /\ socket' = [socket EXCEPT ![inHand] = "closed"]
  /\ inHand' = Nobody
  /\ run' = "ended"
  /\ UNCHANGED <<listening, closed, connections, caller, handler, locals, settings, faults,
                 history>>

Run == (\E c \in Clients : Accept(c)) \/ AcceptFails \/ AfterAcceptError
       \/ Reject \/ Track \/ RefuseLate

-----------------------------------------------------------------------------
(* StopAccepting and Close *)

(* Close goes on to the connections, StopAccepting is done. *)
Stopped(a) == IF a = "main" THEN "connections" ELSE "done"

StopAccepting(a) ==
  /\ caller[a] = "idle"
  /\ closed' = TRUE
  /\ caller' = [caller EXCEPT ![a] = IF closed THEN Stopped(a) ELSE "listener"]
  /\ UNCHANGED <<listening, connections, run, inHand, socket, handler, locals, settings,
                 faults, history>>

(* The connections nobody accepted are reset with the listener. *)
CloseListener(a) ==
  /\ caller[a] = "listener"
  /\ listening' = FALSE
  /\ socket' = [c \in Clients |-> IF socket[c] = "backlog" THEN "closed" ELSE socket[c]]
  /\ caller' = [caller EXCEPT ![a] = Stopped(a)]
  /\ UNCHANGED <<closed, connections, run, inHand, handler, locals, settings, faults, history>>

CloseConnections(a) ==
  /\ caller[a] = "connections"
  /\ socket' = [c \in Clients |-> IF c \in connections THEN "closed" ELSE socket[c]]
  /\ caller' = [caller EXCEPT ![a] = "done"]
  /\ UNCHANGED <<listening, closed, connections, run, inHand, handler, locals, settings,
                 faults, history>>

End(a) == StopAccepting(a) \/ CloseListener(a) \/ CloseConnections(a)

-----------------------------------------------------------------------------
(* The goroutine of a connection *)

Step(c, from, to) == handler[c] = from /\ handler' = [handler EXCEPT ![c] = to]

ReadRequest(c) ==
  /\ Step(c, "read", "report")
  /\ socket[c] = "open"
  /\ \E request \in {"connect", "plain"} : kind' = [kind EXCEPT ![c] = request]
  /\ snapshot' = [snapshot EXCEPT ![c] = decrypting]
  /\ UNCHANGED <<server, socket, settings, faults, history>>

(* The end of the connection, or a first line that does not parse: the       *)
(* goroutine ends, and the stream is not closed.                            *)
ReadFails(c) ==
  /\ Step(c, "read", "untrack")
  /\ kind' = [kind EXCEPT ![c] = "unreadable"]
  /\ UNCHANGED <<server, socket, snapshot, settings, faults, history>>

(* A tunnel that will be decrypted is not surfaced as such. *)
Hidden(c) == snapshot[c] /\ kind[c] = "connect"

Report(c) ==
  /\ Step(c, "report", "record")
  /\ shown' = IF capturing /\ ~Hidden(c) THEN shown \cup {c} ELSE shown
  /\ UNCHANGED <<server, socket, locals, settings, faults, viewed, stored, served, torn>>

(* Mutant: what is not stored is not viewed. *)
RecordStored(c) ==
  /\ Step(c, "record", "serve")
  /\ stored' = IF storing /\ ~Hidden(c) THEN stored \cup {c} ELSE stored
  /\ viewed' = IF storing /\ capturing /\ ~Hidden(c) THEN viewed \cup {c} ELSE viewed
  /\ UNCHANGED <<server, socket, locals, settings, faults, shown, served, torn>>

(* recordTopLevelRequest.  What may happen between its look at the sink and   *)
(* its write to it is CaptureStorage's subject.                             *)
Record(c) ==
  /\ Step(c, "record", "serve")
  /\ stored' = IF storing /\ ~Hidden(c) THEN stored \cup {c} ELSE stored
  /\ viewed' = IF capturing /\ ~Hidden(c) THEN viewed \cup {c} ELSE viewed
  /\ UNCHANGED <<server, socket, locals, settings, faults, shown, served, torn>>

(* Mutant: the pipeline is looked up again for the request. *)
ServeCurrent(c) ==
  /\ Step(c, "serve", "serving")
  /\ served' = [served EXCEPT ![c] =
                  IF decrypting /\ kind[c] = "connect" THEN "decrypted" ELSE "forwarded"]
  /\ UNCHANGED <<server, socket, locals, settings, faults, shown, viewed, stored, torn>>

(* The middleware of the snapshot takes over the stream. *)
Serve(c) ==
  /\ Step(c, "serve", "serving")
  /\ served' = [served EXCEPT ![c] = IF Hidden(c) THEN "decrypted" ELSE "forwarded"]
  /\ UNCHANGED <<server, socket, locals, settings, faults, shown, viewed, stored, torn>>

(* HandleProxyRequest returns, and the deferred call closes the stream. *)
Finish(c) ==
  /\ Step(c, "serving", "untrack")
  /\ socket' = [socket EXCEPT ![c] = "closed"]
  /\ snapshot' = [snapshot EXCEPT ![c] = FALSE]
  /\ UNCHANGED <<server, kind, settings, faults, history>>

Untrack(c) ==
  /\ Step(c, "untrack", "done")
  /\ connections' = connections \ {c}
  /\ UNCHANGED <<listening, closed, run, inHand, caller, socket, locals, settings, faults,
                 history>>

(* The garbage collector closes a connection nobody refers to, if it runs. *)
Collect(c) ==
  /\ handler[c] = "done"
  /\ socket[c] = "open"
  /\ socket' = [socket EXCEPT ![c] = "closed"]
  /\ UNCHANGED <<server, handler, locals, settings, faults, history>>

Handle(c) == ReadRequest(c) \/ ReadFails(c) \/ Report(c) \/ Record(c)
             \/ Serve(c) \/ Finish(c) \/ Untrack(c)

-----------------------------------------------------------------------------
(* Other goroutines *)

Reporting == {c \in Clients : handler[c] = "record"}

PauseOrResume ==
  /\ switches < MaxSwitches
  /\ switches' = switches + 1
  /\ capturing' = ~capturing
  /\ torn' = torn \cup Reporting
  /\ UNCHANGED <<server, socket, handler, locals, storing, decrypting, faults, shown, viewed,
                 stored, served>>

SwitchStorage ==
  /\ switches < MaxSwitches
  /\ switches' = switches + 1
  /\ storing' = ~storing
  /\ UNCHANGED <<server, socket, handler, locals, capturing, decrypting, faults, history>>

SwitchPipeline ==
  /\ switches < MaxSwitches
  /\ switches' = switches + 1
  /\ decrypting' = ~decrypting
  /\ UNCHANGED <<server, socket, handler, locals, capturing, storing, faults, history>>

Others == PauseOrResume \/ SwitchStorage \/ SwitchPipeline

Next ==
  \/ \E c \in Clients : Connect(c) \/ Handle(c) \/ Collect(c)
  \/ Run
  \/ \E a \in Callers : End(a)
  \/ Others

(* The accept loop is a goroutine of its own, and a caller that has begun    *)
(* goes on; nothing else is fair.                                           *)
Spec ==
  /\ Init
  /\ [][Next]_vars
  /\ WF_vars(Run)
  /\ \A a \in Callers : WF_vars(CloseListener(a) \/ CloseConnections(a))

-----------------------------------------------------------------------------
(* The shape of the variables, and what is settled about a request before    *)
(* its goroutine goes on.                                                   *)
TypeOK ==
  /\ listening \in BOOLEAN /\ closed \in BOOLEAN
  /\ connections \subseteq Clients
  /\ run \in {"accept", "accepted", "failed", "ended"}
  /\ inHand \in Clients \cup {Nobody}
  /\ run = "accepted" <=> inHand # Nobody
  /\ caller \in [Callers -> {"idle", "listener", "connections", "done"}]
  /\ socket \in [Clients -> {"none", "backlog", "open", "closed"}]
  /\ handler \in [Clients -> {"none", "read", "report", "record", "serve",
                              "serving", "untrack", "done"}]
  /\ kind \in [Clients -> {"none", "connect", "plain", "unreadable"}]
  /\ snapshot \in [Clients -> BOOLEAN]
  /\ capturing \in BOOLEAN /\ storing \in BOOLEAN /\ decrypting \in BOOLEAN
  /\ faults \in 0..MaxFaults
  /\ switches \in 0..MaxSwitches
  /\ shown \subseteq Clients /\ viewed \subseteq Clients
  /\ stored \subseteq Clients /\ torn \subseteq Clients
  /\ served \in [Clients -> {"no", "decrypted", "forwarded"}]

Unreadable == {c \in Clients : kind[c] = "unreadable"}

(* Close: once it has returned, no goroutine is left serving an open         *)
(* connection, however a connection was accepted while it ran and whoever    *)
(* had stopped the server before.                                           *)
CloseEndsConnections ==
  caller["main"] = "done" =>
    \A c \in Clients \ Unreadable : handler[c] # "none" => socket[c] = "closed"

(* trackConnection, untrackConnection: an open connection is waiting to be   *)
(* accepted, in the accept loop's hand, or in the map through which Close     *)
(* reaches it - except one whose request could not be read.                  *)
OpenConnectionsAreReachable ==
  \A c \in Clients \ Unreadable : socket[c] = "open" => c \in connections \/ c = inHand

(* handleRequest: the opaque CONNECT is reported, to the event stream, the    *)
(* store or the file, only when the pipeline that then serves it does not     *)
(* decrypt it, whatever was installed while it was reported; and a plain      *)
(* request is never taken for a tunnel.                                      *)
ReportedAsServed ==
  \A c \in Clients :
    served[c] = "decrypted" => kind[c] = "connect" /\ c \notin shown \cup viewed \cup stored

(* handleRequest, recordTopLevelRequest: a request in the event stream has    *)
(* its record in the store and the other way round, whatever happens to       *)
(* storage, unless the live view was switched between the two reads of it.    *)
EventsHaveRecords ==
  \A c \in Clients \ torn : served[c] # "no" => (c \in shown <=> c \in viewed)

(* Run: once the server is stopped or closed its accept loop ends, also when  *)
(* the listener is closed between Accept and its error.                      *)
AcceptLoopEnds == closed ~> run = "ended"

(* Close "is used for full application shutdown when those active             *)
(* connections must also end": it leaves no connection open.  A connection    *)
(* whose request could not be read is in no map and nobody has closed it.     *)
CloseLeavesNothingOpen ==
  caller["main"] = "done" => \A c \in Clients : handler[c] # "none" => socket[c] = "closed"
=============================================================================
