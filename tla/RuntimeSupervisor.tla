--------------------------- MODULE RuntimeSupervisor ---------------------------
(***************************************************************************)
(* The runtime settings of HttpStackLens.  HTTP handlers of the Web UI     *)
(* (webui/ui_server.go) turn a PUT or POST into a command, hand it to the  *)
(* single supervisor goroutine (runtime_supervisor.go) and wait for its    *)
(* reply; the supervisor rewrites config.yaml, switches the forwarding     *)
(* pipeline, the capture storage and the proxy listener, and updates the   *)
(* stores every other goroutine reads.  After a successful reply three of  *)
(* the handlers write their settings store a second time, and all but one  *)
(* publish a snapshot of the state to the status bar.                      *)
(*                                                                         *)
(* A handler that finds the command channel full waits in the channel's    *)
(* queue of senders, which Go serves in order, and in both cases then      *)
(* waits for its reply: one unbounded FIFO stands for buffer and senders.  *)
(* A cancelled HTTP request changes nothing, for no handler looks at its   *)
(* context.  Shutdown is not modelled: main returns right after it.        *)
(*                                                                         *)
(* os.WriteFile truncates config.yaml before it fills it, so a write that   *)
(* fails leaves the file as it was or leaves part of the new text: Torn.    *)
(* An edit of what is left changes the line it looks for or does not find   *)
(* it; either way the file stays Torn until the next start (ConfigFile).    *)
(***************************************************************************)
EXTENDS Naturals, Sequences

CONSTANTS
  Clients,        \* HTTP handlers that may run at the same time
  AccessModes,    \* access_control.mode values the clients ask for
  Upstreams,      \* upstream proxy settings
  Direct,         \* the settings without an upstream proxy
  CaptureRules,   \* body capture limits
  InitialConfigs, \* contents config.yaml may have when the program starts
  Commands,       \* commands the clients send
  NoMode, NoState,
  Torn,           \* what a failed write leaves of config.yaml
  MaxRequests,    \* bound: requests submitted in a behaviour
  MaxFaults       \* bound: calls that fail in a behaviour

(* The configuration as the program reads it and as config.yaml holds it. *)
AppConfig ==
  [storage: BOOLEAN, decrypt: BOOLEAN, rules: CaptureRules,
   upstream: Upstreams, access: AccessModes]

Kinds == {"storage", "rules", "decrypt", "upstream", "access", "start", "stop",
          "recording"}

(* RuntimeCommand: the fields a kind does not use keep their zero value,   *)
(* which no step reads.                                                    *)
Command ==
  [kind: Kinds, enabled: BOOLEAN, rules: CaptureRules, upstream: Upstreams,
   access: AccessModes]

ASSUME SupervisorAssumption ==
  /\ Direct \in Upstreams
  /\ InitialConfigs \subseteq AppConfig
  /\ Commands \subseteq Command
  /\ Commands # {}
  /\ NoMode \notin AccessModes
  /\ Torn \notin AppConfig
  /\ MaxRequests \in Nat
  /\ MaxFaults \in Nat

Hosts == {"127.0.0.1", "0.0.0.0"}

ListenHost(mode) ==
  IF mode \in {"lan", "interfaces", "allowlist", "open"}
  THEN "0.0.0.0" ELSE "127.0.0.1"

(* What a handler that serves no request holds; no step reads it. *)
NoRequest == CHOOSE command \in Commands : TRUE

VARIABLES
  yaml,          \* config.yaml, or Torn
  config,        \* runtimeConfigState
  decryptStore,  \* DecryptHttpsConfigStore
  upstreamStore, \* UpstreamSettingsStore
  accessStore,   \* AccessControlSettingsStore
  sink,          \* StorageSink: is a capture session open?
  sinkFailed,    \* history: was the last attempt to switch the storage answered with an
                 \* error, or did the start fail to open the file?
  base,          \* decryptHttpsRuntime.base, named by the settings it is built from
  active,        \* SwitchableMiddleware: what new requests run through
  servers,       \* every ProxyServer created so far
  proxy,         \* supervisor.proxy, an index into servers
  retired,       \* supervisor.retired
  running, address, \* ProxyController
  commands,      \* the command channel, as the clients waiting for a reply; the
                 \* supervisor is applying the command of the first
  step, oldAccess, \* where setAccessControl is, and its local variable old
  pc, request,   \* the handlers
  recording,     \* CaptureController
  snapshot,      \* the state a handler has read and is about to publish
  published,     \* the last capture_state event
  overlapped,    \* history: kinds of which two requests were in flight at once, and
                 \* "any" when two of different kinds were
  requests, faults \* what is used of the two bounds

stores    == <<decryptStore, upstreamStore, accessStore>>
capture   == <<sink, sinkFailed>>
pipeline  == <<base, active>>
listener  == <<servers, proxy, retired, running, address>>
loop      == <<commands, step, oldAccess>>
handlers  == <<pc, request, recording, snapshot, published, overlapped, requests>>
vars      == <<yaml, config, stores, capture, pipeline, listener, loop, handlers, faults>>

CaptureState ==
  [recording |-> recording, storing |-> sink, running |-> running,
   address |-> address, decrypt |-> decryptStore.enabled,
   upstream |-> upstreamStore # Direct, access |-> accessStore]

Init ==
  /\ yaml \in InitialConfigs
  /\ config = yaml
  /\ decryptStore = [enabled |-> yaml.decrypt, rules |-> yaml.rules]
  /\ upstreamStore = yaml.upstream
  /\ accessStore = yaml.access
  /\ sink \in {yaml.storage, FALSE}
  /\ sinkFailed = (sink # yaml.storage)
  /\ base = yaml.upstream
  /\ active = [base |-> yaml.upstream, decrypting |-> yaml.decrypt]
  /\ servers = <<[host |-> ListenHost(yaml.access), accepting |-> TRUE]>>
  /\ proxy = 1
  /\ retired = {}
  /\ running = TRUE
  /\ address = ListenHost(yaml.access)
  /\ commands = <<>>
  /\ step = "idle"
  /\ oldAccess = NoMode
  /\ pc = [c \in Clients |-> "idle"]
  /\ request = [c \in Clients |-> NoRequest]
  /\ recording = TRUE
  /\ snapshot = [c \in Clients |-> NoState]
  /\ published = CaptureState
  /\ overlapped = {}
  /\ requests = 0
  /\ faults = 0

-----------------------------------------------------------------------------
(* Outcomes of a call that may fail, and the supervisor's reply.  A handler *)
(* told of an error answers 500 and is done.                               *)

Fails(n)  == faults + n <= MaxFaults /\ faults' = faults + n
Succeeds  == UNCHANGED faults

(* Mutant: an error is not sent back to the waiting handler. *)
ReplyOnSuccessOnly(c, ok) ==
  /\ pc' = [pc EXCEPT ![c] = IF ok THEN "answered" ELSE @]
  /\ commands' = Tail(commands)
  /\ step' = "idle"
  /\ oldAccess' = NoMode
  /\ UNCHANGED <<request, recording, snapshot, published, overlapped, requests>>

Reply(c, ok) ==
  /\ pc' = [pc EXCEPT ![c] = IF ok THEN "answered" ELSE "idle"]
  /\ request' = [request EXCEPT ![c] = IF ok THEN @ ELSE NoRequest]
  /\ commands' = Tail(commands)
  /\ step' = "idle"
  /\ oldAccess' = NoMode
  /\ UNCHANGED <<recording, snapshot, published, overlapped, requests>>

(* A Persist function of config_persistence.go succeeds, or fails with n calls: *)
(* its own and n - 1 more.  That an edit of a torn file finds its section gone  *)
(* is no new failure.                                                          *)
Persist(new) == yaml' = IF yaml = Torn THEN Torn ELSE new

PersistFails(n) ==
  /\ yaml' \in {yaml, Torn}
  /\ Fails(n) \/ (yaml = Torn /\ Fails(n - 1))

(* CreateProxyServer: the host comes from the access store as it is now.   *)
NewServer == [host |-> ListenHost(accessStore), accepting |-> TRUE]

CreateServer ==
  /\ servers' = Append(servers, NewServer)
  /\ proxy' = Len(servers) + 1

(* Mutants: the listener stays open; the server is not remembered. *)
RetireOpenServer ==
  /\ retired' = retired \cup {proxy}
  /\ UNCHANGED <<servers, proxy>>

(* StopAccepting on the current server, which is then retired. *)
RetireServer ==
  /\ servers' = [servers EXCEPT ![proxy].accepting = FALSE]
  /\ retired' = retired \cup {proxy}
  /\ UNCHANGED proxy

At(c, s) == commands # <<>> /\ c = Head(commands) /\ step = s

Applying(c, kind) == At(c, "idle") /\ request[c].kind = kind

-----------------------------------------------------------------------------
(* SetStorageEnabled: switch the sink, then persist the choice.  The sink is   *)
(* not switched back when that fails.                                          *)
ApplyStorage(c) ==
  LET on == request[c].enabled IN
  /\ Applying(c, "storage")
  /\ \/ /\ Succeeds
        /\ sink' = on
        /\ sinkFailed' = FALSE
        /\ Persist([yaml EXCEPT !.storage = on])
        /\ config' = [config EXCEPT !.storage = on]
        /\ Reply(c, TRUE)
     \/ /\ \/ (* opening or closing the file fails: the sink ends up off *)
              sink # on /\ Fails(1) /\ sink' = FALSE /\ UNCHANGED yaml
           \/ (* the file is switched, config.yaml cannot be edited *)
              PersistFails(1) /\ sink' = on
        /\ sinkFailed' = TRUE
        /\ Reply(c, FALSE)
        /\ UNCHANGED config
  /\ UNCHANGED <<stores, pipeline, listener>>

ApplyRules(c) ==
  LET rules == request[c].rules IN
  /\ Applying(c, "rules")
  /\ \/ /\ Succeeds
        /\ Persist([yaml EXCEPT !.rules = rules])
        /\ decryptStore' = [decryptStore EXCEPT !.rules = rules]
        /\ config' = [config EXCEPT !.rules = rules, !.decrypt = decryptStore.enabled]
        /\ Reply(c, TRUE)
     \/ /\ PersistFails(1)
        /\ Reply(c, FALSE)
        /\ UNCHANGED <<decryptStore, config>>
  /\ UNCHANGED <<upstreamStore, accessStore, capture, pipeline, listener>>

(* SetDecryptHTTPS: nothing to switch when the store already has the value. *)
ApplyDecrypt(c) ==
  LET on == request[c].enabled IN
  /\ Applying(c, "decrypt")
  /\ \/ /\ Succeeds
        /\ decryptStore' = [decryptStore EXCEPT !.enabled = on]
        /\ IF decryptStore.enabled = on
           THEN UNCHANGED <<yaml, active>>
           ELSE /\ Persist([yaml EXCEPT !.decrypt = on])
                /\ active' = [base |-> base, decrypting |-> on]
        /\ config' = [config EXCEPT !.decrypt = on, !.rules = decryptStore.rules]
        /\ Reply(c, TRUE)
     \/ (* no interceptor (turning on only), or config.yaml not writable *)
        /\ decryptStore.enabled # on
        /\ PersistFails(1)
        /\ Reply(c, FALSE)
        /\ UNCHANGED <<config, decryptStore, active>>
  /\ UNCHANGED <<upstreamStore, accessStore, capture, base, listener>>

(* Mutant: the new pipeline never decrypts. *)
ReplacePlainBase(u) ==
  /\ base' = u
  /\ active' = [base |-> u, decrypting |-> FALSE]

(* ReplaceBase, when the interceptor it may need can be built. *)
ReplaceBase(u) ==
  /\ base' = u
  /\ active' = [base |-> u, decrypting |-> decryptStore.enabled]

(* SetUpstream: the pipeline first, config.yaml next; when that fails the  *)
(* pipeline of the old configuration is put back, if it can be rebuilt.    *)
ApplyUpstream(c) ==
  LET u == request[c].upstream IN
  /\ Applying(c, "upstream")
  /\ \/ /\ Succeeds
        /\ ReplaceBase(u)
        /\ Persist([yaml EXCEPT !.upstream = u])
        /\ config' = [config EXCEPT !.upstream = u]
        /\ upstreamStore' = u
        /\ Reply(c, TRUE)
     \/ /\ \/ Fails(1) /\ UNCHANGED <<yaml, pipeline>>         \* no new pipeline
           \/ PersistFails(1) /\ ReplaceBase(config.upstream) \* put back
           \/ PersistFails(2) /\ ReplaceBase(u)               \* not put back
        /\ Reply(c, FALSE)
        /\ UNCHANGED <<config, upstreamStore>>
  /\ UNCHANGED <<decryptStore, accessStore, capture, listener>>

ApplyStart(c) ==
  /\ Applying(c, "start")
  /\ \/ /\ running
        /\ Succeeds
        /\ Reply(c, TRUE)
        /\ UNCHANGED listener
     \/ /\ ~running
        /\ Succeeds
        /\ CreateServer
        /\ address' = NewServer.host
        /\ running' = TRUE
        /\ Reply(c, TRUE)
        /\ UNCHANGED retired
     \/ /\ ~running
        /\ Fails(1)
        /\ Reply(c, FALSE)
        /\ UNCHANGED listener
  /\ UNCHANGED <<yaml, config, stores, capture, pipeline>>

ApplyStop(c) ==
  /\ Applying(c, "stop")
  /\ IF running
     THEN RetireServer /\ running' = FALSE /\ UNCHANGED address
     ELSE UNCHANGED listener
  /\ Succeeds
  /\ Reply(c, TRUE)
  /\ UNCHANGED <<yaml, config, stores, capture, pipeline>>

-----------------------------------------------------------------------------
(* SetAccessControl, one action for each stretch between two accesses to   *)
(* the access store, which the handlers write too.                         *)

AccessOf(c) == request[c].access

GoTo(s) == step' = s /\ UNCHANGED <<commands, handlers>>

(* config.Update and SetAddress, the end of a successful change. *)
AdoptAccess(c) ==
  /\ config' = [config EXCEPT !.access = AccessOf(c)]
  /\ address' = ListenHost(AccessOf(c))
  /\ Reply(c, TRUE)

(* Mutant: the old settings are not kept. *)
BeginWithoutOld(c) ==
  /\ Applying(c, "access")
  /\ Succeeds
  /\ Persist([yaml EXCEPT !.access = AccessOf(c)])
  /\ GoTo(IF running /\ ListenHost(accessStore) # ListenHost(AccessOf(c))
          THEN "switch" ELSE "update")
  /\ UNCHANGED <<config, stores, capture, pipeline, listener, oldAccess>>

(* Read the old settings, decide whether to move the listener, persist. *)
BeginAccess(c) ==
  /\ Applying(c, "access")
  /\ \/ /\ Succeeds
        /\ Persist([yaml EXCEPT !.access = AccessOf(c)])
        /\ oldAccess' = accessStore
        /\ GoTo(IF running /\ ListenHost(accessStore) # ListenHost(AccessOf(c))
                THEN "switch" ELSE "update")
     \/ PersistFails(1) /\ Reply(c, FALSE)
  /\ UNCHANGED <<config, stores, capture, pipeline, listener>>

UpdateAccess(c) ==
  /\ At(c, "update")
  /\ accessStore' = AccessOf(c)
  /\ AdoptAccess(c)
  /\ UNCHANGED <<yaml, decryptStore, upstreamStore, capture, pipeline, servers, proxy,
                 retired, running, faults>>

(* Mutant: the new listener is created before the store is updated. *)
SwitchStoreLater(c) ==
  /\ At(c, "switch")
  /\ RetireServer
  /\ GoTo("listen")
  /\ UNCHANGED <<yaml, config, stores, capture, pipeline, running, address, oldAccess,
                 faults>>

SwitchAccess(c) ==
  /\ At(c, "switch")
  /\ RetireServer
  /\ accessStore' = AccessOf(c)
  /\ GoTo("listen")
  /\ UNCHANGED <<yaml, config, decryptStore, upstreamStore, capture, pipeline, running,
                 address, oldAccess, faults>>

ListenAccess(c) ==
  /\ At(c, "listen")
  /\ \/ /\ Succeeds
        /\ CreateServer
        /\ AdoptAccess(c)
     \/ /\ Fails(1)
        /\ GoTo("restore")
        /\ UNCHANGED <<config, servers, proxy, address, oldAccess>>
  /\ UNCHANGED <<yaml, stores, capture, pipeline, retired, running>>

(* Mutant: the rollback forgets config.yaml. *)
RestoreStoreOnly(c) ==
  /\ At(c, "restore")
  /\ accessStore' = oldAccess
  /\ GoTo("relisten")
  /\ UNCHANGED <<yaml, config, decryptStore, upstreamStore, capture, pipeline, listener,
                 oldAccess, faults>>

RestoreAccess(c) ==
  /\ At(c, "restore")
  /\ accessStore' = oldAccess
  /\ \/ Succeeds /\ Persist([yaml EXCEPT !.access = oldAccess])
     \/ PersistFails(1)
  /\ GoTo("relisten")
  /\ UNCHANGED <<config, decryptStore, upstreamStore, capture, pipeline, listener, oldAccess>>

(* Whether or not the old listener comes back, the client gets an error and *)
(* the ProxyController keeps saying that the proxy runs.                   *)
RelistenAccess(c) ==
  /\ At(c, "relisten")
  /\ \/ Succeeds /\ CreateServer
     \/ Fails(1) /\ UNCHANGED <<servers, proxy>>
  /\ Reply(c, FALSE)
  /\ UNCHANGED <<yaml, config, stores, capture, pipeline, retired, running, address>>

-----------------------------------------------------------------------------
(* The HTTP handlers. *)

InFlight(kind) == {c \in Clients : pc[c] # "idle" /\ request[c].kind = kind}

(* Every request has been answered and its handler is done. *)
Settled == \A c \in Clients : pc[c] = "idle"

Accept(c, command, next) ==
  /\ pc[c] = "idle"
  /\ requests < MaxRequests
  /\ requests' = requests + 1
  /\ request' = [request EXCEPT ![c] = command]
  /\ pc' = [pc EXCEPT ![c] = next]
  /\ overlapped' = overlapped \cup {kind \in {command.kind} : InFlight(kind) # {}}
                              \cup {kind \in {"any"} : ~Settled}
  /\ UNCHANGED <<yaml, config, stores, capture, pipeline, listener, step, oldAccess,
                 snapshot, published, faults>>

Submit(c, command) ==
  /\ command.kind # "recording"
  /\ Accept(c, command, "waiting")
  /\ commands' = Append(commands, c)
  /\ UNCHANGED recording

(* Pause and resume write the CaptureController in the handler itself. *)
SetRecording(c, command) ==
  /\ command.kind = "recording"
  /\ Accept(c, command, "applied")
  /\ recording' = command.enabled
  /\ UNCHANGED commands

(* Three handlers write their store themselves after the supervisor has. *)
Answered(c, kind) == pc[c] = "answered" /\ request[c].kind = kind

ReapplyRules(c) ==
  /\ Answered(c, "rules")
  /\ decryptStore' = [decryptStore EXCEPT !.rules = request[c].rules]
  /\ pc' = [pc EXCEPT ![c] = "idle"]
  /\ request' = [request EXCEPT ![c] = NoRequest]
  /\ UNCHANGED <<yaml, config, upstreamStore, accessStore, capture, pipeline, listener, loop,
                 recording, snapshot, published, overlapped, requests, faults>>

ReapplyUpstream(c) ==
  /\ Answered(c, "upstream")
  /\ upstreamStore' = request[c].upstream
  /\ pc' = [pc EXCEPT ![c] = "applied"]
  /\ UNCHANGED <<yaml, config, decryptStore, accessStore, capture, pipeline, listener, loop,
                 request, recording, snapshot, published, overlapped, requests, faults>>

ReapplyAccess(c) ==
  /\ Answered(c, "access")
  /\ accessStore' = request[c].access
  /\ pc' = [pc EXCEPT ![c] = "applied"]
  /\ UNCHANGED <<yaml, config, decryptStore, upstreamStore, capture, pipeline, listener, loop,
                 request, recording, snapshot, published, overlapped, requests, faults>>

(* The other handlers go straight on to the state they publish. *)
Publishes(c) ==
  \/ pc[c] = "applied"
  \/ \E kind \in {"storage", "decrypt", "start", "stop"} : Answered(c, kind)

ReadState(c) ==
  /\ Publishes(c)
  /\ pc' = [pc EXCEPT ![c] = "publishing"]
  /\ snapshot' = [snapshot EXCEPT ![c] = CaptureState]
  /\ UNCHANGED <<yaml, config, stores, capture, pipeline, listener, loop, request,
                 recording, published, overlapped, requests, faults>>

Publish(c) ==
  /\ pc[c] = "publishing"
  /\ pc' = [pc EXCEPT ![c] = "idle"]
  /\ published' = snapshot[c]
  /\ snapshot' = [snapshot EXCEPT ![c] = NoState]
  /\ request' = [request EXCEPT ![c] = NoRequest]
  /\ UNCHANGED <<yaml, config, stores, capture, pipeline, listener, loop, recording,
                 overlapped, requests, faults>>

-----------------------------------------------------------------------------
Supervise(c) ==
  \/ ApplyStorage(c) \/ ApplyRules(c) \/ ApplyDecrypt(c) \/ ApplyUpstream(c)
  \/ ApplyStart(c) \/ ApplyStop(c)
  \/ BeginAccess(c) \/ UpdateAccess(c) \/ SwitchAccess(c) \/ ListenAccess(c)
  \/ RestoreAccess(c) \/ RelistenAccess(c)

Handle(c) ==
  \/ ReapplyRules(c) \/ ReapplyUpstream(c) \/ ReapplyAccess(c)
  \/ ReadState(c) \/ Publish(c)

Ask(c) == \E command \in Commands : Submit(c, command) \/ SetRecording(c, command)

Next == \E c \in Clients : Supervise(c) \/ Handle(c) \/ Ask(c)

Spec == Init /\ [][Next]_vars

(* The supervisor goroutine and a handler that is not blocked keep running; *)
(* nothing makes a client ask.                                             *)
Fairness ==
  /\ WF_vars(\E c \in Clients : Supervise(c))
  /\ \A c \in Clients : WF_vars(Handle(c))

FairSpec == Spec /\ Fairness

-----------------------------------------------------------------------------
(* The shape of the state. *)
TypeOK ==
  /\ yaml \in AppConfig \cup {Torn}
  /\ config \in AppConfig
  /\ decryptStore \in [enabled: BOOLEAN, rules: CaptureRules]
  /\ upstreamStore \in Upstreams
  /\ accessStore \in AccessModes
  /\ {sink, sinkFailed} \subseteq BOOLEAN
  /\ base \in Upstreams
  /\ active \in [base: Upstreams, decrypting: BOOLEAN]
  /\ servers \in Seq([host: Hosts, accepting: BOOLEAN])
  /\ proxy \in DOMAIN servers
  /\ retired \subseteq DOMAIN servers
  /\ running \in BOOLEAN
  /\ address \in Hosts
  /\ commands \in Seq(Clients)
  /\ step \in {"idle", "update", "switch", "listen", "restore", "relisten"}
  /\ oldAccess \in AccessModes \cup {NoMode}
  /\ step # "idle" => commands # <<>> /\ oldAccess \in AccessModes
  /\ pc \in [Clients -> {"idle", "waiting", "answered", "applied", "publishing"}]
  /\ request \in [Clients -> Command]
  /\ recording \in BOOLEAN
  /\ overlapped \subseteq Kinds \cup {"any"}
  /\ requests \in Nat
  /\ faults \in Nat

(* At most one listener is open, and it is the supervisor's current one: a *)
(* second open one would hold the port for ever, since only the current    *)
(* server is ever told to stop accepting.                                  *)
OnlyCurrentServerAccepts ==
  \A i \in DOMAIN servers : servers[i].accepting => i = proxy

(* closeAllProxies ends the connections of the current and of the retired  *)
(* servers: no server the supervisor ever created may be in neither place. *)
NoServerForgotten == DOMAIN servers = retired \cup {proxy}

(* The switch of the Web UI is never "stopped" while a listener is open. *)
StoppedMeansClosed ==
  ~running => \A i \in DOMAIN servers : ~servers[i].accepting

(* RuntimeSupervisor: every server ever created is accounted for, and the  *)
(* port is open exactly where the supervisor and the Web UI look for it.    *)
ServersAccountedFor ==
  OnlyCurrentServerAccepts /\ NoServerForgotten /\ StoppedMeansClosed

(* Between two commands, unless a write of config.yaml has failed half way, *)
(* the file has every setting of the configuration in memory, and the       *)
(* storage it asks for is the one that is on: the next start finds what the *)
(* running program uses.  Exceptions: a storage request answered with an    *)
(* error may leave the sink switched and the file not, or the other way     *)
(* about; a rollback of the access settings may fail as well, and takes its *)
(* old value from a store that a handler may have overwritten, as the       *)
(* capture rules do (runtime_supervisor.go:70-85, 193-209).                 *)
RestartFindsConfig ==
  step = "idle" /\ yaml # Torn =>
    /\ yaml.storage = config.storage
    /\ ~sinkFailed => sink = yaml.storage
    /\ yaml.decrypt = config.decrypt
    /\ yaml.upstream = config.upstream
    /\ "rules" \notin overlapped => yaml.rules = config.rules
    /\ "access" \notin overlapped /\ faults <= 1 => yaml.access = config.access

(* The pipeline new requests run through is the one the configuration       *)
(* describes, again after any single failure: a request answered with an    *)
(* error must not leave its pipeline behind.                                *)
PipelineFollowsConfig ==
  faults <= 1 =>
    /\ active = [base |-> config.upstream, decrypting |-> config.decrypt]
    /\ base = config.upstream
    /\ decryptStore.enabled = config.decrypt

(* When all handlers are done, and no two requests of the same kind were in *)
(* flight together, the stores hold what the configuration holds and the    *)
(* open listener is on the host the access store asks for.                  *)
SettledListenerMatches ==
  Settled =>
    /\ "upstream" \notin overlapped => upstreamStore = config.upstream
    /\ "rules" \notin overlapped => decryptStore.rules = config.rules
    /\ "access" \notin overlapped /\ faults <= 1 =>
         /\ accessStore = config.access
         /\ running => servers[proxy] = [host |-> ListenHost(accessStore),
                                        accepting |-> TRUE]
         /\ running => address = ListenHost(accessStore)

(* captureState, broadcastCaptureState: while handlers do not overlap and no  *)
(* call fails, the last event tells every browser the state all handlers      *)
(* together have left, whichever of them changed it.                         *)
SettledStatusBarInSync ==
  Settled /\ "any" \notin overlapped /\ faults = 0 => published = CaptureState

(* setAccessControl, broadcastCaptureState: once all handlers are done,    *)
(* stores, listener and status bar are the configuration's.               *)
SettledMeansInSync == SettledListenerMatches /\ SettledStatusBarInSync

(* Every request is answered and its handler ends. *)
EveryRequestEnds == \A c \in Clients : pc[c] # "idle" ~> pc[c] = "idle"

=============================================================================
