----------------------- MODULE RuntimeSupervisor_proofs -----------------------
(***************************************************************************)
(* Proofs about RuntimeSupervisor, for any clients, settings and bounds.    *)
(***************************************************************************)
EXTENDS RuntimeSupervisor, TLAPS, SequenceTheorems

(* The placeholder of an idle handler is one of the commands. *)
LEMMA NoRequestIsCommand == NoRequest \in Command
  BY SupervisorAssumption DEF NoRequest

(* ListenHost of any mode is a host. *)
LEMMA ListenHostType == \A mode : ListenHost(mode) \in Hosts
  BY DEF ListenHost, Hosts

(* The initial state is type correct. *)
LEMMA InitType == Init => TypeOK
<1> SUFFICES ASSUME Init PROVE TypeOK
  OBVIOUS
<1>1. yaml \in AppConfig /\ config \in AppConfig /\ yaml \in AppConfig \cup {Torn}
  BY SupervisorAssumption DEF Init
<1>2. /\ decryptStore \in [enabled: BOOLEAN, rules: CaptureRules]
      /\ upstreamStore \in Upstreams
      /\ accessStore \in AccessModes
      /\ {sink, sinkFailed} \subseteq BOOLEAN
      /\ base \in Upstreams
      /\ active \in [base: Upstreams, decrypting: BOOLEAN]
  BY <1>1 DEF Init, AppConfig
<1>3. /\ servers \in Seq([host: Hosts, accepting: BOOLEAN])
      /\ proxy \in DOMAIN servers
      /\ retired \subseteq DOMAIN servers
      /\ address \in Hosts
  BY ListenHostType DEF Init
<1>4. QED
  BY <1>1, <1>2, <1>3, NoRequestIsCommand DEF Init, TypeOK

(* What TypeOK says of the part of the state a reply touches. *)
LEMMA ReplyType ==
  ASSUME TypeOK, NEW c \in Clients, NEW ok \in BOOLEAN, commands # <<>>, Reply(c, ok)
  PROVE  /\ commands' \in Seq(Clients)
         /\ step' = "idle"
         /\ oldAccess' = NoMode
         /\ pc' \in [Clients -> {"idle", "waiting", "answered", "applied", "publishing"}]
         /\ request' \in [Clients -> Command]
         /\ UNCHANGED <<recording, overlapped, requests>>
  BY NoRequestIsCommand DEF TypeOK, Reply

(* The count of failed calls stays a natural number. *)
LEMMA FaultsType ==
  ASSUME TypeOK, NEW n \in Nat, Fails(n) \/ Succeeds
  PROVE  faults' \in Nat
  BY DEF TypeOK, Fails, Succeeds

(* A save leaves a torn file torn, and writes what it is given to any other.  *)
LEMMA PersistCases ==
  ASSUME NEW new, Persist(new)
  PROVE  yaml' = Torn \/ (yaml # Torn /\ yaml' = new)
  BY DEF Persist

(* A save that fails leaves the file as it was, or torn.                      *)
LEMMA PersistFailsCases ==
  ASSUME NEW n, PersistFails(n)
  PROVE  /\ yaml' = Torn \/ UNCHANGED yaml
         /\ Fails(n) \/ (yaml = Torn /\ Fails(n - 1))
  BY DEF PersistFails

(* A save of settings of the right type keeps the type of the file.           *)
LEMMA PersistType ==
  ASSUME TypeOK, NEW new, Persist(new), yaml # Torn => new \in AppConfig
  PROVE  yaml' \in AppConfig \cup {Torn}
  BY PersistCases DEF TypeOK

(* One failed save, or a save and another call that fail, in numbers.         *)
LEMMA PersistFailsType ==
  ASSUME TypeOK, NEW n \in {1, 2}, PersistFails(n)
  PROVE  yaml' \in AppConfig \cup {Torn} /\ faults' \in Nat /\ faults <= faults'
<1>1. yaml \in AppConfig \cup {Torn} /\ faults \in Nat
  BY DEF TypeOK
<1>2. Fails(0) \/ Fails(1) \/ Fails(2)
  BY PersistFailsCases
<1>3. QED
  BY <1>1, <1>2, PersistFailsCases DEF Fails

(* One lemma per command: the step preserves TypeOK. *)
LEMMA TypeStorage ==
  ASSUME TypeOK, NEW c \in Clients, ApplyStorage(c)
  PROVE  TypeOK'
<1>1. request[c] \in Command /\ commands # <<>>
  BY DEF TypeOK, ApplyStorage, Applying, At
<1>2. PICK ok \in BOOLEAN : Reply(c, ok)
  BY DEF ApplyStorage
<1>3. faults' \in Nat
  BY FaultsType, PersistFailsType DEF ApplyStorage
<1>4. yaml' \in AppConfig \cup {Torn} /\ config' \in AppConfig /\ sink' \in BOOLEAN
      /\ sinkFailed' \in BOOLEAN
  <2>1. request[c].enabled \in BOOLEAN /\ sink \in BOOLEAN /\ config \in AppConfig
    BY <1>1 DEF TypeOK, Command
  <2>2. yaml # Torn => [yaml EXCEPT !.storage = request[c].enabled] \in AppConfig
    BY <2>1 DEF TypeOK, AppConfig
  <2>3. Persist([yaml EXCEPT !.storage = request[c].enabled]) \/ PersistFails(1) \/ UNCHANGED yaml
    BY DEF ApplyStorage
  <2>4. yaml' \in AppConfig \cup {Torn}
    BY <2>2, <2>3, PersistType, PersistFailsType DEF TypeOK
  <2>5. (UNCHANGED config) \/ config' = [config EXCEPT !.storage = request[c].enabled]
    BY DEF ApplyStorage
  <2>6. sink' \in {request[c].enabled, FALSE} /\ sinkFailed' \in BOOLEAN
    BY DEF ApplyStorage
  <2>7. QED
    BY <2>1, <2>4, <2>5, <2>6 DEF AppConfig
<1>5. UNCHANGED <<stores, pipeline, listener>>
  BY DEF ApplyStorage
<1>6. QED
  BY <1>1, <1>2, <1>3, <1>4, <1>5, ReplyType DEF TypeOK, stores, capture, pipeline, listener

(* SetBodyCapture preserves TypeOK. *)
LEMMA TypeRules ==
  ASSUME TypeOK, NEW c \in Clients, ApplyRules(c)
  PROVE  TypeOK'
<1>1. request[c] \in Command /\ commands # <<>>
  BY DEF TypeOK, ApplyRules, Applying, At
<1>2. PICK ok \in BOOLEAN : Reply(c, ok)
  BY DEF ApplyRules
<1>3. faults' \in Nat
  BY FaultsType, PersistFailsType DEF ApplyRules
<1>4. /\ yaml' \in AppConfig \cup {Torn} /\ config' \in AppConfig
      /\ decryptStore' \in [enabled: BOOLEAN, rules: CaptureRules]
  <2>1. request[c].rules \in CaptureRules
    BY <1>1 DEF Command
  <2>2. yaml # Torn => [yaml EXCEPT !.rules = request[c].rules] \in AppConfig
    BY <2>1 DEF TypeOK, AppConfig
  <2>3. Persist([yaml EXCEPT !.rules = request[c].rules]) \/ PersistFails(1)
    BY DEF ApplyRules
  <2>4. yaml' \in AppConfig \cup {Torn}
    BY <2>2, <2>3, PersistType, PersistFailsType
  <2>5. \/ UNCHANGED <<config, decryptStore>>
        \/ /\ config' = [config EXCEPT !.rules = request[c].rules, !.decrypt = decryptStore.enabled]
           /\ decryptStore' = [decryptStore EXCEPT !.rules = request[c].rules]
    BY DEF ApplyRules
  <2>6. QED
    BY <2>1, <2>4, <2>5 DEF TypeOK, AppConfig
<1>5. UNCHANGED <<upstreamStore, accessStore, capture, pipeline, listener>>
  BY DEF ApplyRules
<1>6. QED
  BY <1>1, <1>2, <1>3, <1>4, <1>5, ReplyType DEF TypeOK, capture, pipeline, listener

(* SetDecryptHTTPS preserves TypeOK. *)
LEMMA TypeDecrypt ==
  ASSUME TypeOK, NEW c \in Clients, ApplyDecrypt(c)
  PROVE  TypeOK'
<1>1. request[c] \in Command /\ commands # <<>>
  BY DEF TypeOK, ApplyDecrypt, Applying, At
<1>2. PICK ok \in BOOLEAN : Reply(c, ok)
  BY DEF ApplyDecrypt
<1>3. faults' \in Nat
  BY FaultsType, PersistFailsType DEF ApplyDecrypt
<1>4. /\ yaml' \in AppConfig \cup {Torn} /\ config' \in AppConfig
      /\ decryptStore' \in [enabled: BOOLEAN, rules: CaptureRules]
      /\ active' \in [base: Upstreams, decrypting: BOOLEAN]
  <2>1. request[c].enabled \in BOOLEAN
    BY <1>1 DEF Command
  <2>2. decryptStore' \in [enabled: BOOLEAN, rules: CaptureRules]
    BY <2>1 DEF TypeOK, ApplyDecrypt
  <2>3. \/ UNCHANGED <<yaml, active>>
        \/ PersistFails(1) /\ UNCHANGED active
        \/ /\ Persist([yaml EXCEPT !.decrypt = request[c].enabled])
           /\ active' = [base |-> base, decrypting |-> request[c].enabled]
    BY ZenonT(30) DEF ApplyDecrypt
  <2>4. active' \in [base: Upstreams, decrypting: BOOLEAN]
    BY <2>1, <2>3 DEF TypeOK
  <2>5. yaml # Torn => [yaml EXCEPT !.decrypt = request[c].enabled] \in AppConfig
    BY <2>1 DEF TypeOK, AppConfig
  <2>6. yaml' \in AppConfig \cup {Torn}
    BY <2>3, <2>5, PersistType, PersistFailsType DEF TypeOK
  <2>7. config' \in AppConfig
    BY <2>1 DEF TypeOK, ApplyDecrypt, AppConfig
  <2>8. QED
    BY <2>2, <2>4, <2>6, <2>7
<1>5. UNCHANGED <<upstreamStore, accessStore, capture, base, listener>>
  BY DEF ApplyDecrypt
<1>6. QED
  BY <1>1, <1>2, <1>3, <1>4, <1>5, ReplyType DEF TypeOK, capture, listener

(* SetUpstream preserves TypeOK. *)
LEMMA TypeUpstream ==
  ASSUME TypeOK, NEW c \in Clients, ApplyUpstream(c)
  PROVE  TypeOK'
<1>1. request[c] \in Command /\ commands # <<>>
  BY DEF TypeOK, ApplyUpstream, Applying, At
<1>2. PICK ok \in BOOLEAN : Reply(c, ok)
  BY DEF ApplyUpstream
<1>3. faults' \in Nat
  BY FaultsType, PersistFailsType DEF ApplyUpstream
<1>4. /\ yaml' \in AppConfig \cup {Torn} /\ config' \in AppConfig
      /\ upstreamStore' \in Upstreams
      /\ base' \in Upstreams
      /\ active' \in [base: Upstreams, decrypting: BOOLEAN]
  <2>1. request[c].upstream \in Upstreams /\ config.upstream \in Upstreams
    BY <1>1 DEF TypeOK, AppConfig, Command
  <2>2. yaml' \in AppConfig \cup {Torn} /\ config' \in AppConfig
    <3>1. yaml # Torn => [yaml EXCEPT !.upstream = request[c].upstream] \in AppConfig
      BY <2>1 DEF TypeOK, AppConfig
    <3>2. \/ Persist([yaml EXCEPT !.upstream = request[c].upstream])
          \/ PersistFails(1) \/ PersistFails(2) \/ UNCHANGED yaml
      BY DEF ApplyUpstream
    <3>3. yaml' \in AppConfig \cup {Torn}
      BY <3>1, <3>2, PersistType, PersistFailsType DEF TypeOK
    <3>4. (UNCHANGED config) \/ config' = [config EXCEPT !.upstream = request[c].upstream]
      BY DEF ApplyUpstream
    <3>5. QED
      BY <2>1, <3>3, <3>4 DEF TypeOK, AppConfig
  <2>3. upstreamStore' \in Upstreams
    BY <2>1 DEF TypeOK, ApplyUpstream
  <2>4. (UNCHANGED pipeline) \/ (\E u \in Upstreams : ReplaceBase(u))
    BY <2>1 DEF ApplyUpstream
  <2>5. base' \in Upstreams /\ active' \in [base: Upstreams, decrypting: BOOLEAN]
    BY <2>4 DEF TypeOK, ReplaceBase, capture, pipeline
  <2>6. QED
    BY <2>2, <2>3, <2>5
<1>5. UNCHANGED <<decryptStore, accessStore, capture, listener>>
  BY DEF ApplyUpstream
<1>6. QED
  BY <1>1, <1>2, <1>3, <1>4, <1>5, ReplyType DEF TypeOK, capture, listener

-----------------------------------------------------------------------------
(* Creating and retiring a server. *)

(* A created server is appended, and becomes the current one. *)
LEMMA CreateType ==
  ASSUME TypeOK, CreateServer
  PROVE  /\ servers' \in Seq([host: Hosts, accepting: BOOLEAN])
         /\ Len(servers') = Len(servers) + 1
         /\ DOMAIN servers' = DOMAIN servers \cup {Len(servers) + 1}
         /\ proxy' = Len(servers) + 1
         /\ proxy' \notin DOMAIN servers
         /\ \A i \in DOMAIN servers : servers'[i] = servers[i]
<1>1. /\ servers \in Seq([host: Hosts, accepting: BOOLEAN])
      /\ Len(servers) \in Nat
      /\ DOMAIN servers = 1..Len(servers)
  BY DEF TypeOK
<1>2. NewServer \in [host: Hosts, accepting: BOOLEAN]
  BY ListenHostType DEF NewServer
<1>3. QED
  BY <1>1, <1>2 DEF CreateServer

(* Retiring the current server changes nothing of the others. *)
LEMMA RetireType ==
  ASSUME TypeOK, RetireServer
  PROVE  /\ servers' \in Seq([host: Hosts, accepting: BOOLEAN])
         /\ DOMAIN servers' = DOMAIN servers
         /\ ~servers'[proxy].accepting
         /\ \A i \in DOMAIN servers : i # proxy => servers'[i] = servers[i]
         /\ retired' = retired \cup {proxy}
         /\ proxy' = proxy
<1>1. /\ servers \in Seq([host: Hosts, accepting: BOOLEAN])
      /\ proxy \in 1..Len(servers)
      /\ Len(servers) \in Nat
  BY DEF TypeOK
<1>2. [servers[proxy] EXCEPT !.accepting = FALSE] \in [host: Hosts, accepting: BOOLEAN]
  <2>1. servers[proxy] \in [host: Hosts, accepting: BOOLEAN]
    BY <1>1, ElementOfSeq
  <2>2. QED
    BY <2>1
<1>3. servers' = [servers EXCEPT ![proxy] = [servers[proxy] EXCEPT !.accepting = FALSE]]
  BY DEF RetireServer
<1>4. QED
  BY <1>1, <1>2, <1>3 DEF RetireServer

(* StartProxy preserves TypeOK. *)
LEMMA TypeStart ==
  ASSUME TypeOK, NEW c \in Clients, ApplyStart(c)
  PROVE  TypeOK'
<1>1. request[c] \in Command /\ commands # <<>>
  BY DEF TypeOK, ApplyStart, Applying, At
<1>2. PICK ok \in BOOLEAN : Reply(c, ok)
  BY DEF ApplyStart
<1>3. faults' \in Nat
  BY FaultsType DEF ApplyStart
<1>4. UNCHANGED <<yaml, config, stores, capture, pipeline>>
  BY DEF ApplyStart
<1>5. CASE UNCHANGED listener
  BY <1>1, <1>2, <1>3, <1>4, <1>5, ReplyType DEF TypeOK, stores, capture, pipeline, listener
<1>6. CASE CreateServer /\ address' = NewServer.host /\ running' = TRUE
           /\ UNCHANGED retired
  <2>1. address' \in Hosts
    BY <1>6, ListenHostType DEF NewServer
  <2>2. QED
    BY <1>1, <1>2, <1>3, <1>4, <1>6, <2>1, ReplyType, CreateType
    DEF TypeOK, stores, capture, pipeline
<1>7. QED
  BY <1>5, <1>6 DEF ApplyStart

(* StopProxy preserves TypeOK. *)
LEMMA TypeStop ==
  ASSUME TypeOK, NEW c \in Clients, ApplyStop(c)
  PROVE  TypeOK'
<1>1. commands # <<>> /\ Reply(c, TRUE) /\ faults' \in Nat
  BY FaultsType DEF TypeOK, ApplyStop, Applying, At
<1>2. UNCHANGED <<yaml, config, stores, capture, pipeline>>
  BY DEF ApplyStop
<1>3. CASE UNCHANGED listener
  BY <1>1, <1>2, <1>3, ReplyType DEF TypeOK, stores, capture, pipeline, listener
<1>4. CASE RetireServer /\ running' = FALSE /\ UNCHANGED address
  BY <1>1, <1>2, <1>4, ReplyType, RetireType DEF TypeOK, stores, capture, pipeline
<1>5. QED
  BY <1>3, <1>4 DEF ApplyStop

-----------------------------------------------------------------------------
(* The steps of setAccessControl. *)

(* What TypeOK says of the end of setAccessControl. *)
LEMMA AdoptType ==
  ASSUME TypeOK, NEW c \in Clients, commands # <<>>, AdoptAccess(c)
  PROVE  config' \in AppConfig /\ address' \in Hosts /\ Reply(c, TRUE)
<1>1. request[c] \in Command /\ config \in AppConfig
  BY DEF TypeOK
<1>2. config' \in AppConfig
  BY <1>1 DEF AdoptAccess, AccessOf, AppConfig, Command
<1>3. QED
  BY <1>2, ListenHostType DEF AdoptAccess

(* SetAccessControl preserves TypeOK, step by step. *)
LEMMA TypeBegin ==
  ASSUME TypeOK, NEW c \in Clients, BeginAccess(c)
  PROVE  TypeOK'
<1>1. request[c] \in Command /\ commands # <<>>
  BY DEF TypeOK, BeginAccess, Applying, At
<1>2. faults' \in Nat
  BY FaultsType, PersistFailsType DEF BeginAccess
<1>3. yaml' \in AppConfig \cup {Torn}
  <2>1. yaml # Torn => [yaml EXCEPT !.access = AccessOf(c)] \in AppConfig
    BY <1>1 DEF TypeOK, AppConfig, AccessOf, Command
  <2>2. Persist([yaml EXCEPT !.access = AccessOf(c)]) \/ PersistFails(1)
    BY DEF BeginAccess
  <2>3. QED
    BY <2>1, <2>2, PersistType, PersistFailsType
<1>4. UNCHANGED <<config, stores, capture, pipeline, listener>>
  BY DEF BeginAccess
<1>5. CASE Reply(c, FALSE)
  BY <1>1, <1>2, <1>3, <1>4, <1>5, ReplyType DEF TypeOK, stores, capture, pipeline, listener
<1>6. CASE /\ oldAccess' = accessStore
           /\ step' \in {"switch", "update"}
           /\ UNCHANGED <<commands, handlers>>
  BY <1>1, <1>2, <1>3, <1>4, <1>6 DEF TypeOK, stores, capture, pipeline, listener, handlers
<1>7. QED
  BY <1>5, <1>6 DEF BeginAccess, GoTo

(* The update without a restart preserves TypeOK. *)
LEMMA TypeUpdate ==
  ASSUME TypeOK, NEW c \in Clients, UpdateAccess(c)
  PROVE  TypeOK'
<1>1. request[c] \in Command /\ commands # <<>>
  BY DEF TypeOK, UpdateAccess, At
<1>2. config' \in AppConfig /\ address' \in Hosts /\ Reply(c, TRUE)
  BY <1>1, AdoptType DEF UpdateAccess
<1>3. accessStore' \in AccessModes
  BY <1>1 DEF UpdateAccess, AccessOf, Command
<1>4. UNCHANGED <<yaml, decryptStore, upstreamStore, capture, pipeline, servers, proxy,
                  retired, running, faults>>
  BY DEF UpdateAccess
<1>5. QED
  BY <1>1, <1>2, <1>3, <1>4, ReplyType DEF TypeOK, capture, pipeline

(* Retiring the old listener preserves TypeOK. *)
LEMMA TypeSwitch ==
  ASSUME TypeOK, NEW c \in Clients, SwitchAccess(c)
  PROVE  TypeOK'
<1>1. request[c] \in Command /\ commands # <<>> /\ step # "idle"
  BY DEF TypeOK, SwitchAccess, At
<1>2. accessStore' \in AccessModes
  BY <1>1 DEF SwitchAccess, AccessOf, Command
<1>3. RetireServer /\ step' = "listen"
  BY DEF SwitchAccess, GoTo
<1>4. UNCHANGED <<yaml, config, decryptStore, upstreamStore, capture, pipeline, running,
                  address, oldAccess, faults, commands, handlers>>
  BY DEF SwitchAccess, GoTo
<1>5. QED
  BY <1>1, <1>2, <1>3, <1>4, RetireType DEF TypeOK, capture, pipeline, handlers

(* Opening the new listener, or failing to, preserves TypeOK. *)
LEMMA TypeListen ==
  ASSUME TypeOK, NEW c \in Clients, ListenAccess(c)
  PROVE  TypeOK'
<1>1. request[c] \in Command /\ commands # <<>> /\ step # "idle"
  BY DEF TypeOK, ListenAccess, At
<1>2. faults' \in Nat
  BY FaultsType DEF ListenAccess
<1>3. UNCHANGED <<yaml, stores, capture, pipeline, retired, running>>
  BY DEF ListenAccess
<1>4. CASE CreateServer /\ AdoptAccess(c)
  <2>1. config' \in AppConfig /\ address' \in Hosts /\ Reply(c, TRUE)
    BY <1>1, <1>4, AdoptType
  <2>2. QED
    BY <1>1, <1>2, <1>3, <1>4, <2>1, ReplyType, CreateType DEF TypeOK, stores, capture, pipeline
<1>5. CASE /\ step' = "restore"
           /\ UNCHANGED <<config, servers, proxy, address, oldAccess, commands, handlers>>
  BY <1>1, <1>2, <1>3, <1>5 DEF TypeOK, stores, capture, pipeline, handlers
<1>6. QED
  BY <1>4, <1>5 DEF ListenAccess, GoTo

(* Putting the old settings back preserves TypeOK. *)
LEMMA TypeRestore ==
  ASSUME TypeOK, NEW c \in Clients, RestoreAccess(c)
  PROVE  TypeOK'
<1>1. commands # <<>> /\ oldAccess \in AccessModes
  BY DEF TypeOK, RestoreAccess, At
<1>2. faults' \in Nat
  BY FaultsType, PersistFailsType DEF RestoreAccess
<1>3. yaml' \in AppConfig \cup {Torn} /\ accessStore' \in AccessModes
  <2>1. yaml # Torn => [yaml EXCEPT !.access = oldAccess] \in AppConfig
    BY <1>1 DEF TypeOK, AppConfig
  <2>2. (Persist([yaml EXCEPT !.access = oldAccess]) \/ PersistFails(1)) /\ accessStore' = oldAccess
    BY DEF RestoreAccess
  <2>3. QED
    BY <1>1, <2>1, <2>2, PersistType, PersistFailsType
<1>4. /\ step' = "relisten"
      /\ UNCHANGED <<config, decryptStore, upstreamStore, capture, pipeline, listener,
                     oldAccess, commands, handlers>>
  BY DEF RestoreAccess, GoTo
<1>5. QED
  BY <1>1, <1>2, <1>3, <1>4 DEF TypeOK, capture, pipeline, listener, handlers

(* Opening the old listener again preserves TypeOK. *)
LEMMA TypeRelisten ==
  ASSUME TypeOK, NEW c \in Clients, RelistenAccess(c)
  PROVE  TypeOK'
<1>1. commands # <<>> /\ Reply(c, FALSE)
  BY DEF RelistenAccess, At
<1>2. faults' \in Nat
  BY FaultsType DEF RelistenAccess
<1>3. UNCHANGED <<yaml, config, stores, capture, pipeline, retired, running, address>>
  BY DEF RelistenAccess
<1>4. CASE CreateServer
  BY <1>1, <1>2, <1>3, <1>4, ReplyType, CreateType DEF TypeOK, stores, capture, pipeline
<1>5. CASE UNCHANGED <<servers, proxy>>
  BY <1>1, <1>2, <1>3, <1>5, ReplyType DEF TypeOK, stores, capture, pipeline
<1>6. QED
  BY <1>4, <1>5 DEF RelistenAccess

-----------------------------------------------------------------------------
(* The handlers. *)

(* A new request preserves TypeOK. *)
LEMMA TypeAsk ==
  ASSUME TypeOK, NEW c \in Clients, Ask(c)
  PROVE  TypeOK'
<1>1. PICK command \in Commands : Submit(c, command) \/ SetRecording(c, command)
  BY DEF Ask
<1>2. command \in Command
  BY SupervisorAssumption
<1>3. PICK next \in {"waiting", "applied"} : Accept(c, command, next)
  BY <1>1 DEF Submit, SetRecording
<1>4. /\ commands' \in Seq(Clients)
      /\ commands # <<>> => commands' # <<>>
      /\ recording' \in BOOLEAN
  <2>1. CASE Submit(c, command)
    BY <2>1 DEF TypeOK, Submit
  <2>2. CASE SetRecording(c, command)
    BY <1>2, <2>2 DEF TypeOK, SetRecording, Command
  <2>3. QED
    BY <1>1, <2>1, <2>2
<1>5. /\ request' \in [Clients -> Command]
      /\ pc' \in [Clients -> {"idle", "waiting", "answered", "applied", "publishing"}]
      /\ overlapped' \subseteq Kinds \cup {"any"}
      /\ requests' \in Nat
  BY <1>2, <1>3 DEF TypeOK, Accept, Command
<1>6. UNCHANGED <<yaml, config, stores, capture, pipeline, listener, step, oldAccess, faults>>
  BY <1>3 DEF Accept
<1>7. QED
  BY <1>4, <1>5, <1>6 DEF TypeOK, stores, capture, pipeline, listener

(* The handler's second write of a store preserves TypeOK. *)
LEMMA TypeReapply ==
  ASSUME TypeOK, NEW c \in Clients,
         ReapplyRules(c) \/ ReapplyUpstream(c) \/ ReapplyAccess(c)
  PROVE  TypeOK'
<1>1. request[c] \in Command
  BY DEF TypeOK
<1>2. /\ decryptStore' \in [enabled: BOOLEAN, rules: CaptureRules]
      /\ upstreamStore' \in Upstreams
      /\ accessStore' \in AccessModes
  BY <1>1 DEF TypeOK, ReapplyRules, ReapplyUpstream, ReapplyAccess, Command
<1>3. /\ pc' \in [Clients -> {"idle", "waiting", "answered", "applied", "publishing"}]
      /\ request' \in [Clients -> Command]
  BY NoRequestIsCommand DEF TypeOK, ReapplyRules, ReapplyUpstream, ReapplyAccess
<1>4. UNCHANGED <<yaml, config, capture, pipeline, listener, loop, recording, overlapped,
                  requests, faults>>
  BY DEF ReapplyRules, ReapplyUpstream, ReapplyAccess
<1>5. QED
  BY <1>2, <1>3, <1>4 DEF TypeOK, capture, pipeline, listener, loop

(* Reading and publishing a snapshot preserve TypeOK. *)
LEMMA TypePublishing ==
  ASSUME TypeOK, NEW c \in Clients, ReadState(c) \/ Publish(c)
  PROVE  TypeOK'
<1>1. /\ pc' \in [Clients -> {"idle", "waiting", "answered", "applied", "publishing"}]
      /\ request' \in [Clients -> Command]
  <2>1. CASE ReadState(c)
    BY <2>1 DEF TypeOK, ReadState
  <2>2. CASE Publish(c)
    BY <2>2, NoRequestIsCommand DEF TypeOK, Publish
  <2>3. QED
    BY <2>1, <2>2
<1>2. UNCHANGED <<yaml, config, stores, capture, pipeline, listener, loop, recording,
                  overlapped, requests, faults>>
  BY DEF ReadState, Publish
<1>3. QED
  BY <1>1, <1>2 DEF TypeOK, stores, capture, pipeline, listener, loop

(* Every step preserves TypeOK. *)
LEMMA TypeStep == TypeOK /\ [Next]_vars => TypeOK'
<1> SUFFICES ASSUME TypeOK, [Next]_vars PROVE TypeOK'
  OBVIOUS
<1>1. ASSUME NEW c \in Clients, Supervise(c) PROVE TypeOK'
  BY <1>1, TypeStorage, TypeRules, TypeDecrypt, TypeUpstream, TypeStart, TypeStop,
     TypeBegin, TypeUpdate, TypeSwitch, TypeListen, TypeRestore, TypeRelisten
  DEF Supervise
<1>2. ASSUME NEW c \in Clients, Handle(c) \/ Ask(c) PROVE TypeOK'
  BY <1>2, TypeReapply, TypePublishing, TypeAsk DEF Handle
<1>3. CASE UNCHANGED vars
  BY <1>3 DEF vars, TypeOK, stores, capture, pipeline, listener, loop, handlers
<1>4. QED
  BY <1>1, <1>2, <1>3 DEF Next

(* Every variable of the supervisor and of the handlers has its type. *)
THEOREM TypeCorrect == Spec => []TypeOK
  BY InitType, TypeStep, PTL DEF Spec

-----------------------------------------------------------------------------
(* The listener.                                                            *)
(*                                                                         *)
(* None of OnlyCurrentServerAccepts, NoServerForgotten, StoppedMeansClosed  *)
(* is inductive: a new server is created while the proxy is stopped, or in  *)
(* the middle of setAccessControl, and only what is known of the old one at *)
(* that point makes it safe to let go of it.                                *)

(* The current server has been told to stop and has been put with the       *)
(* retired ones.                                                            *)
CurrentRetired == proxy \in retired /\ ~servers[proxy].accepting

ListenerInv ==
  /\ OnlyCurrentServerAccepts
  /\ NoServerForgotten
  /\ ~running => CurrentRetired
  /\ step \in {"listen", "restore", "relisten"} => CurrentRetired
  /\ step \in {"switch", "listen", "restore", "relisten"} => running

(* Initially the one server is current and open. *)
LEMMA InitListener == Init => ListenerInv
  BY DEF Init, ListenerInv, OnlyCurrentServerAccepts, NoServerForgotten

(* A step that leaves servers and running alone and ends or does not begin  *)
(* a change of the listener.                                                *)
LEMMA ListenerUntouched ==
  ASSUME ListenerInv, UNCHANGED <<servers, proxy, retired, running>>,
         step' \in {step, "idle", "update"}
  PROVE  ListenerInv'
  BY DEF ListenerInv, OnlyCurrentServerAccepts, NoServerForgotten, CurrentRetired

(* A server is created only when the current one is retired already. *)
LEMMA CreatePreserves ==
  ASSUME TypeOK, ListenerInv, CurrentRetired, CreateServer, UNCHANGED retired, running',
         step' = "idle"
  PROVE  ListenerInv'
<1>1. /\ DOMAIN servers' = DOMAIN servers \cup {Len(servers) + 1}
      /\ proxy' = Len(servers) + 1
      /\ \A i \in DOMAIN servers : servers'[i] = servers[i]
  BY CreateType
<1>2. \A i \in DOMAIN servers : ~servers[i].accepting
  BY DEF ListenerInv, OnlyCurrentServerAccepts, CurrentRetired
<1>3. OnlyCurrentServerAccepts'
  BY <1>1, <1>2 DEF OnlyCurrentServerAccepts
<1>4. NoServerForgotten'
  BY <1>1 DEF ListenerInv, NoServerForgotten, CurrentRetired
<1>5. QED
  BY <1>3, <1>4 DEF ListenerInv

(* Retiring the current server leaves no listener open. *)
LEMMA RetirePreserves ==
  ASSUME TypeOK, ListenerInv, RetireServer, step' \in {"idle", "listen"},
         step' = "listen" => running'
  PROVE  ListenerInv'
<1>1. /\ DOMAIN servers' = DOMAIN servers
      /\ ~servers'[proxy].accepting
      /\ \A i \in DOMAIN servers : i # proxy => servers'[i] = servers[i]
      /\ retired' = retired \cup {proxy}
      /\ proxy' = proxy
  BY RetireType
<1>2. CurrentRetired'
  BY <1>1 DEF CurrentRetired
<1>3. OnlyCurrentServerAccepts'
  BY <1>1 DEF ListenerInv, OnlyCurrentServerAccepts
<1>4. NoServerForgotten'
  BY <1>1 DEF ListenerInv, NoServerForgotten
<1>5. QED
  BY <1>2, <1>3, <1>4 DEF ListenerInv

(* Every step of the supervisor preserves the invariant. *)
LEMMA ListenerSupervise ==
  ASSUME TypeOK, ListenerInv, NEW c \in Clients, Supervise(c)
  PROVE  ListenerInv'
<1>1. CASE ApplyStorage(c) \/ ApplyRules(c) \/ ApplyDecrypt(c) \/ ApplyUpstream(c)
  <2>1. UNCHANGED listener /\ step' = "idle"
    BY <1>1 DEF ApplyStorage, ApplyRules, ApplyDecrypt, ApplyUpstream, Reply
  <2>2. QED
    BY <2>1, ListenerUntouched DEF listener
<1>2. CASE ApplyStart(c)
  <2>1. step' = "idle"
    BY <1>2 DEF ApplyStart, Reply
  <2>2. CASE UNCHANGED listener
    BY <2>1, <2>2, ListenerUntouched DEF listener
  <2>3. CASE ~running /\ CreateServer /\ running' = TRUE /\ UNCHANGED retired
    BY <2>1, <2>3, CreatePreserves DEF ListenerInv
  <2>4. QED
    BY <1>2, <2>2, <2>3 DEF ApplyStart
<1>3. CASE ApplyStop(c)
  <2>1. step' = "idle"
    BY <1>3 DEF ApplyStop, Reply
  <2>2. CASE UNCHANGED listener
    BY <2>1, <2>2, ListenerUntouched DEF listener
  <2>3. CASE RetireServer
    BY <2>1, <2>3, RetirePreserves
  <2>4. QED
    BY <1>3, <2>2, <2>3 DEF ApplyStop
<1>4. CASE BeginAccess(c)
  <2>1. UNCHANGED listener
    BY <1>4 DEF BeginAccess
  <2>2. step' \in {"idle", "update"} \/ (step' = "switch" /\ running)
    BY <1>4 DEF BeginAccess, Reply, GoTo
  <2>3. CASE step' \in {"idle", "update"}
    BY <2>1, <2>3, ListenerUntouched DEF listener
  <2>4. CASE step' = "switch" /\ running
    BY <2>1, <2>4
    DEF ListenerInv, OnlyCurrentServerAccepts, NoServerForgotten, CurrentRetired, listener
  <2>5. QED
    BY <2>2, <2>3, <2>4
<1>5. CASE UpdateAccess(c)
  <2>1. UNCHANGED <<servers, proxy, retired, running>> /\ step' = "idle"
    BY <1>5 DEF UpdateAccess, AdoptAccess, Reply
  <2>2. QED
    BY <2>1, ListenerUntouched
<1>6. CASE SwitchAccess(c)
  <2>1. RetireServer /\ step' = "listen" /\ step = "switch" /\ UNCHANGED running
    BY <1>6 DEF SwitchAccess, GoTo, At
  <2>2. running'
    BY <2>1 DEF ListenerInv
  <2>3. QED
    BY <2>1, <2>2, RetirePreserves
<1>7. CASE ListenAccess(c)
  <2>1. CurrentRetired /\ running
    BY <1>7 DEF ListenerInv, ListenAccess, At
  <2>2. UNCHANGED <<retired, running>>
    BY <1>7 DEF ListenAccess
  <2>3. CASE CreateServer /\ step' = "idle"
    BY <2>1, <2>2, <2>3, CreatePreserves
  <2>4. CASE UNCHANGED <<servers, proxy>> /\ step' = "restore"
    BY <2>1, <2>2, <2>4
    DEF ListenerInv, OnlyCurrentServerAccepts, NoServerForgotten, CurrentRetired
  <2>5. QED
    BY <1>7, <2>3, <2>4 DEF ListenAccess, AdoptAccess, Reply, GoTo
<1>8. CASE RestoreAccess(c)
  <2>1. CurrentRetired /\ running
    BY <1>8 DEF ListenerInv, RestoreAccess, At
  <2>2. UNCHANGED listener /\ step' = "relisten"
    BY <1>8 DEF RestoreAccess, GoTo
  <2>3. QED
    BY <2>1, <2>2
    DEF ListenerInv, OnlyCurrentServerAccepts, NoServerForgotten, CurrentRetired, listener
<1>9. CASE RelistenAccess(c)
  <2>1. CurrentRetired /\ running
    BY <1>9 DEF ListenerInv, RelistenAccess, At
  <2>2. UNCHANGED <<retired, running>> /\ step' = "idle"
    BY <1>9 DEF RelistenAccess, Reply
  <2>3. CASE CreateServer
    BY <2>1, <2>2, <2>3, CreatePreserves
  <2>4. CASE UNCHANGED <<servers, proxy>>
    BY <2>2, <2>4, ListenerUntouched
  <2>5. QED
    BY <1>9, <2>3, <2>4 DEF RelistenAccess
<1>10. QED
  BY <1>1, <1>2, <1>3, <1>4, <1>5, <1>6, <1>7, <1>8, <1>9 DEF Supervise

(* Every step of the program preserves it: handlers touch no listener. *)
LEMMA ListenerStep == TypeOK /\ ListenerInv /\ [Next]_vars => ListenerInv'
<1> SUFFICES ASSUME TypeOK, ListenerInv, [Next]_vars PROVE ListenerInv'
  OBVIOUS
<1>1. ASSUME NEW c \in Clients, Handle(c) \/ Ask(c) PROVE ListenerInv'
  <2>1. UNCHANGED listener /\ UNCHANGED step
    BY <1>1 DEF Handle, Ask, ReapplyRules, ReapplyUpstream, ReapplyAccess, ReadState,
                Publish, Submit, SetRecording, Accept, loop
  <2>2. QED
    BY <2>1, ListenerUntouched DEF listener
<1>2. CASE UNCHANGED vars
  BY <1>2, ListenerUntouched DEF vars, listener, loop
<1>3. QED
  BY <1>1, <1>2, ListenerSupervise DEF Next

(* The inductive invariant of the listener holds in every behaviour. *)
THEOREM ListenerInductive == Spec => []ListenerInv
  BY InitListener, ListenerStep, TypeCorrect, PTL DEF Spec

(* startProxy and setAccessControl never leave two listeners open. *)
THEOREM OneListener == Spec => []OnlyCurrentServerAccepts
  BY ListenerInductive, PTL DEF ListenerInv

(* closeAllProxies reaches every server that was ever created, on whatever  *)
(* path of setAccessControl or startProxy the supervisor has moved on.      *)
THEOREM ServersReachable == Spec => []NoServerForgotten
  BY ListenerInductive, PTL DEF ListenerInv

(* While the ProxyController says the proxy is stopped, no listener is open. *)
THEOREM StoppedIsClosed == Spec => []StoppedMeansClosed
<1>1. ListenerInv => StoppedMeansClosed
  BY DEF ListenerInv, StoppedMeansClosed, OnlyCurrentServerAccepts, CurrentRetired
<1>2. QED
  BY <1>1, ListenerInductive, PTL

(* startProxy, stopProxy, setAccessControl: all of this holds together.    *)
THEOREM AccountsForServers == Spec => []ServersAccountedFor
  BY OneListener, ServersReachable, StoppedIsClosed, PTL DEF ServersAccountedFor
-----------------------------------------------------------------------------
(* config.yaml.                                                             *)

(* A torn file is the trace of a failed write.                                  *)
TornInv == yaml = Torn => faults >= 1

(* A save of a whole file writes settings, not a part of them.                  *)
LEMMA SavedWhole ==
  ASSUME TypeOK, NEW new, Persist(new), yaml # Torn => new \in AppConfig
  PROVE  yaml' = Torn => yaml = Torn
  BY SupervisorAssumption DEF Persist

(* Only a failed save tears the file. *)
LEMMA TornBySave ==
  ASSUME TypeOK, NEW c \in Clients, Supervise(c), yaml' = Torn
  PROVE  yaml = Torn \/ PersistFails(1) \/ PersistFails(2)
<1>1. request[c] \in Command /\ (yaml # Torn => yaml \in AppConfig)
  BY DEF TypeOK
<1>2. CASE ApplyStorage(c)
  <2>1. yaml # Torn => [yaml EXCEPT !.storage = request[c].enabled] \in AppConfig
    BY <1>1 DEF AppConfig, Command
  <2>2. QED
    BY <1>2, <2>1, SavedWhole DEF ApplyStorage
<1>3. CASE ApplyRules(c)
  <2>1. yaml # Torn => [yaml EXCEPT !.rules = request[c].rules] \in AppConfig
    BY <1>1 DEF AppConfig, Command
  <2>2. QED
    BY <1>3, <2>1, SavedWhole DEF ApplyRules
<1>4. CASE ApplyDecrypt(c)
  <2>1. yaml # Torn => [yaml EXCEPT !.decrypt = request[c].enabled] \in AppConfig
    BY <1>1 DEF AppConfig, Command
  <2>2. \/ UNCHANGED yaml \/ PersistFails(1)
        \/ Persist([yaml EXCEPT !.decrypt = request[c].enabled])
    BY <1>4, ZenonT(30) DEF ApplyDecrypt
  <2>3. QED
    BY <2>1, <2>2, SavedWhole
<1>5. CASE ApplyUpstream(c)
  <2>1. yaml # Torn => [yaml EXCEPT !.upstream = request[c].upstream] \in AppConfig
    BY <1>1 DEF AppConfig, Command
  <2>2. QED
    BY <1>5, <2>1, SavedWhole DEF ApplyUpstream
<1>6. CASE BeginAccess(c)
  <2>1. yaml # Torn => [yaml EXCEPT !.access = AccessOf(c)] \in AppConfig
    BY <1>1 DEF AppConfig, Command, AccessOf
  <2>2. QED
    BY <1>6, <2>1, SavedWhole DEF BeginAccess
<1>7. CASE RestoreAccess(c)
  <2>1. yaml # Torn => [yaml EXCEPT !.access = oldAccess] \in AppConfig
    BY <1>1, <1>7 DEF AppConfig, TypeOK, RestoreAccess, At
  <2>2. QED
    BY <1>7, <2>1, SavedWhole DEF RestoreAccess
<1>8. CASE UNCHANGED yaml
  BY <1>8
<1>9. QED
  BY <1>2, <1>3, <1>4, <1>5, <1>6, <1>7, <1>8
  DEF Supervise, ApplyStart, ApplyStop, UpdateAccess, SwitchAccess, ListenAccess, RelistenAccess

(* The number of failures never decreases. *)
LEMMA FaultsKept ==
  ASSUME TypeOK, NEW c \in Clients, Supervise(c)
  PROVE  faults' \in Nat /\ faults <= faults'
<1>1. Succeeds \/ Fails(1) \/ PersistFails(1) \/ PersistFails(2)
  BY DEF Supervise, ApplyStorage, ApplyRules, ApplyDecrypt, ApplyUpstream, ApplyStart, ApplyStop,
         BeginAccess, UpdateAccess, SwitchAccess, ListenAccess, RestoreAccess, RelistenAccess,
         Succeeds
<1>2. QED
  BY <1>1, PersistFailsType DEF TypeOK, Succeeds, Fails

LEMMA InitTorn == Init => TornInv
  BY SupervisorAssumption DEF Init, TornInv

LEMMA TornStep == TypeOK /\ TornInv /\ [Next]_vars => TornInv'
<1> SUFFICES ASSUME TypeOK, TornInv, [Next]_vars PROVE TornInv'
  OBVIOUS
<1>1. ASSUME NEW c \in Clients, Supervise(c) PROVE TornInv'
  <2> SUFFICES ASSUME yaml' = Torn PROVE faults' >= 1
    BY DEF TornInv
  <2>1. faults \in Nat /\ faults' \in Nat /\ faults <= faults'
    BY <1>1, FaultsKept DEF TypeOK
  <2>2. CASE yaml = Torn
    BY <2>1, <2>2 DEF TornInv
  <2>3. CASE yaml # Torn /\ (PersistFails(1) \/ PersistFails(2))
    BY <2>1, <2>3, PersistFailsCases DEF Fails
  <2>4. QED
    BY <1>1, <2>2, <2>3, TornBySave
<1>2. ASSUME NEW c \in Clients, Handle(c) \/ Ask(c) PROVE TornInv'
  <2>1. UNCHANGED <<yaml, faults>>
    BY <1>2 DEF Handle, Ask, ReapplyRules, ReapplyUpstream, ReapplyAccess, ReadState,
                Publish, Submit, SetRecording, Accept
  <2>2. QED
    BY <2>1 DEF TornInv
<1>3. CASE UNCHANGED vars
  BY <1>3 DEF vars, TornInv
<1>4. QED
  BY <1>1, <1>2, <1>3 DEF Next

(* A torn file has been torn by a call that failed. *)
LEMMA TornByFailure == Spec => []TornInv
  BY InitTorn, TornStep, TypeCorrect, PTL DEF Spec

-----------------------------------------------------------------------------
(* The pipeline.  PipelineFollowsConfig is inductive: every step either     *)
(* leaves pipeline and configuration alone, moves them together, or uses up *)
(* more than the one failure the property allows.                           *)

(* The initial pipeline is built from the configuration that was read. *)
LEMMA InitPipeline == Init => PipelineFollowsConfig
  BY DEF Init, PipelineFollowsConfig

(* A step that changes none of what the property relates preserves it. *)
LEMMA PipelineUntouched ==
  ASSUME PipelineFollowsConfig, UNCHANGED pipeline, faults' <= 1 => faults <= 1,
         UNCHANGED <<config.upstream, config.decrypt, decryptStore.enabled>>
  PROVE  PipelineFollowsConfig'
  BY DEF PipelineFollowsConfig, capture, pipeline

(* The number of failures never decreases. *)
LEMMA FaultsGrow ==
  ASSUME TypeOK, NEW n \in Nat, Fails(n) \/ Succeeds
  PROVE  /\ faults' <= 1 => faults <= 1
         /\ Fails(n) /\ n = 2 => ~(faults' <= 1)
  BY DEF TypeOK, Fails, Succeeds

(* A call that fails together with a save is the second failure at least: the    *)
(* save's own, or the one that tore the file before.                            *)
LEMMA FaultsGrowSaving ==
  ASSUME TypeOK, NEW n \in {1, 2}, PersistFails(n)
  PROVE  /\ faults' <= 1 => faults <= 1
         /\ TornInv => faults' >= n
  BY PersistFailsCases, PersistFailsType DEF TypeOK, Fails, TornInv

(* Turning decryption on or off moves store, pipeline and configuration to  *)
(* the same value, whether or not the store had it already.                *)
LEMMA PipelineDecrypt ==
  ASSUME TypeOK, PipelineFollowsConfig, NEW c \in Clients, ApplyDecrypt(c)
  PROVE  PipelineFollowsConfig'
<1>1. faults' <= 1 => faults <= 1
  BY FaultsGrow, FaultsGrowSaving DEF ApplyDecrypt
<1>2. CASE UNCHANGED <<config, decryptStore, active>>
  BY <1>1, <1>2, PipelineUntouched DEF ApplyDecrypt, capture, pipeline
<1>3. CASE /\ decryptStore' = [decryptStore EXCEPT !.enabled = request[c].enabled]
           /\ IF decryptStore.enabled = request[c].enabled
              THEN UNCHANGED <<yaml, active>>
              ELSE /\ Persist([yaml EXCEPT !.decrypt = request[c].enabled])
                   /\ active' = [base |-> base, decrypting |-> request[c].enabled]
           /\ config' = [config EXCEPT !.decrypt = request[c].enabled,
                                       !.rules = decryptStore.rules]
  <2>1. UNCHANGED base
    BY DEF ApplyDecrypt
  <2>2. /\ config'.upstream = config.upstream
        /\ config'.decrypt = request[c].enabled
        /\ decryptStore'.enabled = request[c].enabled
    BY <1>3 DEF TypeOK, AppConfig
  <2>3. \/ decryptStore.enabled = request[c].enabled /\ UNCHANGED active
        \/ active' = [base |-> base, decrypting |-> request[c].enabled]
    BY <1>3, Zenon
  <2>4. QED
    BY <1>1, <2>1, <2>2, <2>3 DEF PipelineFollowsConfig
<1>4. QED
  BY <1>2, <1>3, Zenon DEF ApplyDecrypt

(* A new upstream proxy: the pipeline of a request that is answered with an *)
(* error is the old one, unless putting it back failed as well.            *)
LEMMA PipelineUpstream ==
  ASSUME TypeOK, TornInv, PipelineFollowsConfig, NEW c \in Clients, ApplyUpstream(c)
  PROVE  PipelineFollowsConfig'
<1>1. faults' <= 1 => faults <= 1
  BY FaultsGrow, FaultsGrowSaving DEF ApplyUpstream
<1>2. UNCHANGED decryptStore
  BY DEF ApplyUpstream
<1>3. CASE ReplaceBase(request[c].upstream)
           /\ config' = [config EXCEPT !.upstream = request[c].upstream]
  BY <1>1, <1>2, <1>3 DEF TypeOK, AppConfig, PipelineFollowsConfig, ReplaceBase
<1>4. CASE UNCHANGED pipeline /\ UNCHANGED config
  BY <1>1, <1>2, <1>4, PipelineUntouched
<1>5. CASE ReplaceBase(config.upstream) /\ UNCHANGED config
  BY <1>1, <1>2, <1>5 DEF PipelineFollowsConfig, ReplaceBase
<1>6. CASE PersistFails(2)
  <2>1. faults' \in Nat /\ faults' >= 2
    BY <1>6, FaultsGrowSaving, PersistFailsType
  <2>2. QED
    BY <2>1 DEF PipelineFollowsConfig
<1>7. QED
  BY <1>3, <1>4, <1>5, <1>6, Zenon DEF ApplyUpstream

(* Every step of the program preserves the property. *)
LEMMA PipelineStep ==
  TypeOK /\ TornInv /\ PipelineFollowsConfig /\ [Next]_vars => PipelineFollowsConfig'
<1> SUFFICES ASSUME TypeOK, TornInv, PipelineFollowsConfig, [Next]_vars
             PROVE  PipelineFollowsConfig'
  OBVIOUS
<1>1. ASSUME NEW c \in Clients, ApplyStorage(c) \/ ApplyRules(c)
      PROVE  PipelineFollowsConfig'
  <2>1. faults' <= 1 => faults <= 1
    BY <1>1, FaultsGrow, FaultsGrowSaving DEF ApplyStorage, ApplyRules
  <2>2. CASE ApplyStorage(c)
    <3>1. UNCHANGED <<config.upstream, config.decrypt>>
      BY <2>2 DEF ApplyStorage, TypeOK, AppConfig
    <3>2. QED
      BY <2>1, <2>2, <3>1, PipelineUntouched DEF ApplyStorage, stores
  <2>3. CASE ApplyRules(c)
    <3>1. UNCHANGED <<config.upstream, decryptStore.enabled, pipeline>>
      BY <2>3 DEF ApplyRules, TypeOK, AppConfig
    <3>2. config'.decrypt \in {config.decrypt, decryptStore.enabled}
      BY <2>3 DEF ApplyRules, TypeOK, AppConfig
    <3>3. QED
      BY <2>1, <3>1, <3>2 DEF PipelineFollowsConfig, capture, pipeline
  <2>4. QED
    BY <1>1, <2>2, <2>3
<1>2. ASSUME NEW c \in Clients, ApplyStart(c) \/ ApplyStop(c)
      PROVE  PipelineFollowsConfig'
  <2>1. faults' <= 1 => faults <= 1
    BY <1>2, FaultsGrow DEF ApplyStart, ApplyStop
  <2>2. UNCHANGED <<config, stores, pipeline>>
    BY <1>2 DEF ApplyStart, ApplyStop
  <2>3. QED
    BY <2>1, <2>2, PipelineUntouched DEF stores
<1>3. ASSUME NEW c \in Clients,
             \/ BeginAccess(c) \/ UpdateAccess(c) \/ SwitchAccess(c)
             \/ ListenAccess(c) \/ RestoreAccess(c) \/ RelistenAccess(c)
      PROVE  PipelineFollowsConfig'
  <2>1. faults' <= 1 => faults <= 1
    BY <1>3, FaultsGrow, FaultsGrowSaving
    DEF BeginAccess, UpdateAccess, SwitchAccess, ListenAccess,
                            RestoreAccess, RelistenAccess
  <2>2. UNCHANGED <<decryptStore, pipeline>>
    BY <1>3 DEF BeginAccess, UpdateAccess, SwitchAccess, ListenAccess, RestoreAccess,
                RelistenAccess, stores
  <2>3. (UNCHANGED config) \/ config' = [config EXCEPT !.access = AccessOf(c)]
    BY <1>3 DEF BeginAccess, UpdateAccess, SwitchAccess, ListenAccess, RestoreAccess,
                RelistenAccess, AdoptAccess
  <2>4. UNCHANGED <<config.upstream, config.decrypt>>
    BY <2>3 DEF TypeOK, AppConfig
  <2>5. QED
    BY <2>1, <2>2, <2>4, PipelineUntouched
<1>4. ASSUME NEW c \in Clients, Handle(c) \/ Ask(c)
      PROVE  PipelineFollowsConfig'
  <2>1. UNCHANGED <<config, pipeline, faults>>
    BY <1>4 DEF Handle, Ask, ReapplyRules, ReapplyUpstream, ReapplyAccess, ReadState,
                Publish, Submit, SetRecording, Accept
  <2>2. UNCHANGED decryptStore.enabled
    <3>1. CASE ReapplyRules(c)
      BY <3>1 DEF ReapplyRules, TypeOK
    <3>2. CASE \/ ReapplyUpstream(c) \/ ReapplyAccess(c)
               \/ ReadState(c) \/ Publish(c) \/ Ask(c)
      BY <3>2 DEF ReapplyUpstream, ReapplyAccess, Ask, ReadState, Publish, Submit,
                  SetRecording, Accept, stores
    <3>3. QED
      BY <1>4, <3>1, <3>2 DEF Handle
  <2>3. QED
    BY <2>1, <2>2, PipelineUntouched
<1>5. CASE UNCHANGED vars
  BY <1>5, PipelineUntouched DEF vars, stores
<1>6. QED
  BY <1>1, <1>2, <1>3, <1>4, <1>5, PipelineDecrypt, PipelineUpstream DEF Next, Supervise

(* Up to one failed call, new requests run through the pipeline that the    *)
(* configuration in memory describes, whatever commands were answered.      *)
THEOREM PipelineIsConfigured == Spec => []PipelineFollowsConfig
  BY InitPipeline, PipelineStep, TypeCorrect, TornByFailure, PTL DEF Spec
-----------------------------------------------------------------------------
(* Settings.                                                                *)
(*                                                                         *)
(* That config.yaml, the stores and the listener agree between commands is    *)
(* not inductive.  Handlers write stores after the supervisor has replied, so   *)
(* it takes who is waiting, who has been answered, and that an answered        *)
(* request is the last of its kind as long as no two of them overlapped; and a  *)
(* change of the access settings passes through states that do not agree.       *)

Snapshots == DOMAIN snapshot = Clients

(* Everyone in the channel waits for a reply, and once; a change of the access   *)
(* settings is under way only for the first.                                 *)
QueueInv ==
  /\ \A i \in DOMAIN commands :
       pc[commands[i]] = "waiting" /\ request[commands[i]].kind # "recording"
  /\ \A i, j \in DOMAIN commands : commands[i] = commands[j] => i = j
  /\ step # "idle" => request[Head(commands)].kind = "access"

(* What overlapped says of the requests that are in flight.                    *)
OverlapInv ==
  /\ \A c, d \in Clients :
       /\ pc[c] # "idle" /\ pc[d] # "idle" /\ c # d
       => /\ "any" \in overlapped
          /\ request[c].kind = request[d].kind => request[c].kind \in overlapped

(* The settings whose stores a handler writes once more hold the value of the    *)
(* last request that was answered.                                           *)
RulesInv ==
  "rules" \notin overlapped =>
    /\ yaml # Torn => yaml.rules = config.rules
    /\ decryptStore.rules = config.rules
    /\ \A c \in Clients : Answered(c, "rules") => request[c].rules = config.rules

UpstreamInv ==
  /\ yaml # Torn => yaml.upstream = config.upstream
  /\ "upstream" \notin overlapped =>
       /\ upstreamStore = config.upstream
       /\ \A c \in Clients : Answered(c, "upstream") => request[c].upstream = config.upstream

StorageInv ==
  /\ yaml # Torn => yaml.storage = config.storage
  /\ ~sinkFailed => sink = config.storage

DecryptInv ==
  /\ yaml # Torn => yaml.decrypt = config.decrypt
  /\ decryptStore.enabled = config.decrypt

(* A change of the access settings in its stretches: which of config.yaml, the    *)
(* store and the listener have the new mode already and which still the old.       *)
AccessInv ==
  "access" \notin overlapped =>
    /\ \A c \in Clients : Answered(c, "access") => request[c].access = config.access
    /\ step \in {"idle", "update", "switch", "relisten"} => accessStore = config.access
    /\ step = "listen" => accessStore = AccessOf(Head(commands))
    /\ step # "idle" => oldAccess = config.access
    /\ step \in {"restore", "relisten"} => faults >= 1
    /\ faults <= 1 =>
         /\ yaml # Torn =>
              /\ step \in {"idle", "relisten"} => yaml.access = config.access
              /\ step \in {"update", "switch", "listen"} =>
                   yaml.access = AccessOf(Head(commands))
         /\ running => address = ListenHost(config.access)
         /\ step = "update" /\ running =>
                               ListenHost(AccessOf(Head(commands))) = ListenHost(config.access)
         /\ step \in {"idle", "update", "switch"} /\ running =>
              servers[proxy] = [host |-> ListenHost(config.access), accepting |-> TRUE]

(* A request whose handler publishes nothing, the one for the capture rules,      *)
(* changes nothing the status bar shows.                                       *)
StatusInv ==
  "any" \notin overlapped /\ faults = 0 =>
    /\ (\A c \in Clients : pc[c] # "idle" => request[c].kind = "rules") => published = CaptureState
    /\ \A c \in Clients : pc[c] = "publishing" => snapshot[c] = CaptureState
    /\ step \notin {"restore", "relisten"}

(* All of it: the inductive invariant of the settings.                        *)
SettingsInv ==
  /\ Snapshots /\ QueueInv /\ OverlapInv
  /\ StorageInv /\ DecryptInv /\ RulesInv /\ UpstreamInv /\ AccessInv /\ StatusInv

(* The first of the channel's queue gets its reply.                            *)
LEMMA ReplyQueue ==
  ASSUME TypeOK, QueueInv, NEW c \in Clients, commands # <<>>, c = Head(commands),
         NEW ok \in BOOLEAN, Reply(c, ok)
  PROVE  /\ pc[c] = "waiting" /\ overlapped' = overlapped /\ step' = "idle"
         /\ \A d \in Clients \ {c} : pc'[d] = pc[d] /\ request'[d] = request[d]
         /\ pc'[c] = IF ok THEN "answered" ELSE "idle"
         /\ ok => request'[c] = request[c]
         /\ QueueInv'
<1>1. /\ commands \in Seq(Clients) /\ Len(commands) \in Nat /\ Len(commands) >= 1
      /\ DOMAIN commands = 1..Len(commands) /\ c = commands[1]
      /\ commands' = Tail(commands)
  BY DEF TypeOK, Reply
<1>2. /\ DOMAIN commands' = 1..Len(commands) - 1
      /\ \A i \in DOMAIN commands' : i + 1 \in DOMAIN commands /\ commands'[i] = commands[i + 1]
  BY <1>1
<1>3. /\ pc[c] = "waiting" /\ overlapped' = overlapped /\ step' = "idle"
      /\ \A d \in Clients \ {c} : pc'[d] = pc[d] /\ request'[d] = request[d]
      /\ pc'[c] = IF ok THEN "answered" ELSE "idle"
      /\ ok => request'[c] = request[c]
  <2>1. pc[c] = "waiting"
    BY <1>1 DEF QueueInv
  <2>2. /\ pc' = [pc EXCEPT ![c] = IF ok THEN "answered" ELSE "idle"]
        /\ request' = [request EXCEPT ![c] = IF ok THEN @ ELSE NoRequest]
        /\ overlapped' = overlapped /\ step' = "idle"
    BY DEF Reply
  <2>3. DOMAIN pc = Clients /\ DOMAIN request = Clients
    BY DEF TypeOK
  <2>4. QED
    BY <2>1, <2>2, <2>3, Zenon
<1>4. \A i \in DOMAIN commands' : commands'[i] \in Clients \ {c}
  BY <1>1, <1>2 DEF QueueInv
<1>5. QED
  BY <1>2, <1>3, <1>4 DEF QueueInv

(* What a step of the supervisor does to the handlers.                         *)
LEMMA Supervised ==
  ASSUME TypeOK, QueueInv, NEW c \in Clients, Supervise(c)
  PROVE  /\ commands # <<>> /\ c = Head(commands) /\ pc[c] = "waiting"
         /\ request[c].kind # "recording"
         /\ overlapped' = overlapped
         /\ \A d \in Clients \ {c} : pc'[d] = pc[d] /\ request'[d] = request[d]
         /\ pc'[c] \in {"waiting", "answered", "idle"}
         /\ pc'[c] # "idle" => request'[c] = request[c]
         /\ UNCHANGED <<snapshot, published, recording>>
         /\ QueueInv'
<1>1. commands # <<>> /\ c = Head(commands)
  BY DEF Supervise, ApplyStorage, ApplyRules, ApplyDecrypt, ApplyUpstream, ApplyStart, ApplyStop,
         BeginAccess, UpdateAccess, SwitchAccess, ListenAccess, RestoreAccess, RelistenAccess,
         Applying, At
<1>2. \/ \E ok \in BOOLEAN : Reply(c, ok)
      \/ UNCHANGED <<commands, handlers>> /\ request[c].kind = "access"
  <2>1. CASE ApplyStorage(c) \/ ApplyRules(c) \/ ApplyDecrypt(c) \/ ApplyUpstream(c) \/ ApplyStart(c) \/ ApplyStop(c)
    BY <2>1 DEF ApplyStorage, ApplyRules, ApplyDecrypt, ApplyUpstream, ApplyStart, ApplyStop
  <2>2. CASE BeginAccess(c)
    BY <2>2 DEF BeginAccess, Applying, GoTo
  <2>3. CASE UpdateAccess(c) \/ SwitchAccess(c) \/ ListenAccess(c) \/ RestoreAccess(c) \/ RelistenAccess(c)
    <3>1. request[c].kind = "access"
      BY <1>1, <2>3 DEF QueueInv, UpdateAccess, SwitchAccess, ListenAccess, RestoreAccess,
                        RelistenAccess, At
    <3>2. QED
      BY <2>3, <3>1 DEF UpdateAccess, SwitchAccess, ListenAccess, RestoreAccess, RelistenAccess,
                        AdoptAccess, GoTo
  <2>4. QED
    BY <2>1, <2>2, <2>3 DEF Supervise
<1>3. /\ commands \in Seq(Clients) /\ 1 \in DOMAIN commands /\ c = commands[1]
  BY <1>1 DEF TypeOK
<1>4. CASE \E ok \in BOOLEAN : Reply(c, ok)
  <2>1. PICK ok \in BOOLEAN : Reply(c, ok)
    BY <1>4
  <2>2. request[c].kind # "recording"
    BY <1>3 DEF QueueInv
  <2>3. UNCHANGED <<snapshot, published, recording>>
    BY <2>1 DEF Reply
  <2>4. /\ pc[c] = "waiting" /\ overlapped' = overlapped
        /\ \A d \in Clients \ {c} : pc'[d] = pc[d] /\ request'[d] = request[d]
        /\ pc'[c] = IF ok THEN "answered" ELSE "idle"
        /\ ok => request'[c] = request[c]
        /\ QueueInv'
    BY <1>1, <2>1, ReplyQueue
  <2>5. QED
    BY <1>1, <2>2, <2>3, <2>4
<1>5. CASE UNCHANGED <<commands, handlers>> /\ request[c].kind = "access"
  BY <1>1, <1>3, <1>5 DEF QueueInv, handlers
<1>6. QED
  BY <1>2, <1>4, <1>5

(* What a step of a handler does to it.                                       *)
LEMMA Handled ==
  ASSUME TypeOK, QueueInv, NEW c \in Clients, Handle(c)
  PROVE  /\ pc[c] \in {"answered", "applied", "publishing"}
         /\ pc'[c] \in {"applied", "publishing", "idle"}
         /\ pc'[c] # "idle" => request'[c] = request[c]
         /\ \A d \in Clients \ {c} : pc'[d] = pc[d] /\ request'[d] = request[d]
         /\ UNCHANGED <<yaml, config, listener, loop, overlapped, faults>>
         /\ QueueInv'
<1>1. /\ pc[c] \in {"answered", "applied", "publishing"}
      /\ pc'[c] \in {"applied", "publishing", "idle"}
      /\ pc'[c] # "idle" => request'[c] = request[c]
      /\ \A d \in Clients \ {c} : pc'[d] = pc[d] /\ request'[d] = request[d]
      /\ UNCHANGED <<yaml, config, listener, loop, overlapped, faults>>
  BY DEF TypeOK, Handle, ReapplyRules, ReapplyUpstream, ReapplyAccess, ReadState, Publish,
         Publishes, Answered
<1>2. /\ \A i \in DOMAIN commands : commands[i] \in Clients \ {c}
      /\ step # "idle" => Head(commands) \in Clients \ {c}
  <2>1. \A i \in DOMAIN commands : commands[i] \in Clients \ {c}
    BY <1>1 DEF TypeOK, QueueInv
  <2>2. step # "idle" => commands \in Seq(Clients) /\ commands # <<>>
    BY DEF TypeOK
  <2>3. QED
    BY <2>1, <2>2
<1>3. QED
  BY <1>1, <1>2 DEF QueueInv, loop

(* What a new request does.                                                  *)
LEMMA Asked ==
  ASSUME TypeOK, QueueInv, NEW c \in Clients, Ask(c)
  PROVE  /\ pc[c] = "idle" /\ pc'[c] \in {"waiting", "applied"}
         /\ \A d \in Clients \ {c} : pc'[d] = pc[d] /\ request'[d] = request[d]
         /\ overlapped \subseteq overlapped'
         /\ \A d \in Clients \ {c} :
              pc[d] # "idle" => /\ "any" \in overlapped'
                                /\ request[d].kind = request'[c].kind => request[d].kind \in overlapped'
         /\ UNCHANGED <<yaml, config, stores, capture, pipeline, listener, step, oldAccess, snapshot,
                        published, faults>>
         /\ recording' = recording \/ request'[c].kind = "recording"
         /\ commands # <<>> => Head(commands') = Head(commands) /\ Head(commands) \in Clients \ {c}
         /\ QueueInv'
<1>1. PICK command \in Commands : Submit(c, command) \/ SetRecording(c, command)
  BY DEF Ask
<1>2. PICK next \in {"waiting", "applied"} : Accept(c, command, next)
  BY <1>1 DEF Submit, SetRecording
<1>3. /\ pc[c] = "idle" /\ pc'[c] = next /\ request'[c] = command
      /\ \A d \in Clients \ {c} : pc'[d] = pc[d] /\ request'[d] = request[d]
      /\ UNCHANGED <<yaml, config, stores, capture, pipeline, listener, step, oldAccess, snapshot,
                     published, faults>>
  BY <1>2 DEF TypeOK, Accept
<1>4. /\ overlapped \subseteq overlapped'
      /\ \A d \in Clients \ {c} :
           pc[d] # "idle" => /\ "any" \in overlapped'
                             /\ request[d].kind = command.kind => request[d].kind \in overlapped'
  BY <1>2 DEF Accept, InFlight, Settled
<1>5. recording' = recording \/ command.kind = "recording"
  BY <1>1 DEF Submit, SetRecording
<1>6. /\ commands \in Seq(Clients) /\ \A i \in DOMAIN commands : commands[i] \in Clients \ {c}
  BY <1>3 DEF TypeOK, QueueInv
<1>7. CASE SetRecording(c, command)
  BY <1>3, <1>4, <1>5, <1>6, <1>7 DEF SetRecording, TypeOK, QueueInv
<1>8. CASE Submit(c, command)
  <2>1. commands' = Append(commands, c) /\ pc'[c] = "waiting" /\ command.kind # "recording"
    BY <1>3, <1>8 DEF Submit, Accept, TypeOK
  <2>2. /\ DOMAIN commands' = 1..Len(commands) + 1 /\ Len(commands) \in Nat
        /\ commands'[Len(commands) + 1] = c
        /\ \A i \in 1..Len(commands) : commands'[i] = commands[i]
        /\ DOMAIN commands = 1..Len(commands)
    BY <1>6, <2>1
  <2>3. commands # <<>> => Head(commands') = Head(commands) /\ Head(commands) \in Clients \ {c}
    BY <1>6, <2>1, <2>2
  <2>4. ASSUME NEW i \in DOMAIN commands'
        PROVE  /\ pc'[commands'[i]] = "waiting" /\ request'[commands'[i]].kind # "recording"
               /\ \A j \in DOMAIN commands' : commands'[i] = commands'[j] => i = j
    <3>1. CASE i = Len(commands) + 1
      BY <1>3, <1>6, <2>1, <2>2, <3>1
    <3>2. CASE i \in 1..Len(commands)
      BY <1>3, <1>6, <2>2, <3>2 DEF QueueInv
    <3>3. QED
      BY <2>2, <3>1, <3>2
  <2>5. (step # "idle" => request[Head(commands)].kind = "access")'
    <3>1. step' # "idle" => commands # <<>> /\ request[Head(commands)].kind = "access"
      BY <1>3 DEF TypeOK, QueueInv
    <3>2. QED
      BY <1>3, <2>3, <3>1
  <2>6. QED
    BY <1>3, <1>4, <1>5, <2>1, <2>3, <2>4, <2>5 DEF QueueInv
<1>9. QED
  BY <1>1, <1>7, <1>8

(* Two requests in flight at once have been noticed when the second came.       *)
LEMMA OverlapStep ==
  ASSUME TypeOK, QueueInv, OverlapInv, [Next]_vars
  PROVE  OverlapInv' /\ QueueInv' /\ overlapped \subseteq overlapped'
<1>1. ASSUME NEW c \in Clients, Supervise(c) PROVE OverlapInv' /\ QueueInv'
              /\ overlapped \subseteq overlapped'
  BY <1>1, Supervised DEF OverlapInv
<1>2. ASSUME NEW c \in Clients, Handle(c) PROVE OverlapInv' /\ QueueInv'
              /\ overlapped \subseteq overlapped'
  BY <1>2, Handled DEF OverlapInv
<1>3. ASSUME NEW c \in Clients, Ask(c) PROVE OverlapInv' /\ QueueInv'
              /\ overlapped \subseteq overlapped'
  BY <1>3, Asked DEF OverlapInv
<1>4. CASE UNCHANGED vars
  BY <1>4 DEF vars, loop, handlers, OverlapInv, QueueInv
<1>5. QED
  BY <1>1, <1>2, <1>3, <1>4 DEF Next

-----------------------------------------------------------------------------
(* Which command writes which setting.                                       *)

(* A change of the access settings, whatever its stretch. *)
ChangeAccess(c) ==
  \/ BeginAccess(c) \/ UpdateAccess(c) \/ SwitchAccess(c) \/ ListenAccess(c)
  \/ RestoreAccess(c) \/ RelistenAccess(c)

(* What a step of the supervisor may do to the file: leave it torn, leave it     *)
(* alone, or write new settings to a whole one.                                *)
Filed(new) ==
  \/ yaml' = Torn
  \/ yaml # Torn /\ UNCHANGED yaml
  \/ yaml # Torn /\ yaml' = new

(* Saves, failed saves and steps without one do one of these.                   *)
LEMMA FiledBy ==
  ASSUME NEW new, \/ Persist(new) \/ UNCHANGED yaml
                  \/ \E n \in {1, 2} : PersistFails(n)
  PROVE  Filed(new)
  BY PersistCases, PersistFailsCases DEF Filed

(* The file keeps its value of a setting, unless it is torn. *)
Kept(old, new) == yaml' # Torn => yaml # Torn /\ new = old

(* A command leaves the settings of the other commands alone. *)
LEMMA Writes ==
  ASSUME TypeOK, NEW c \in Clients, Supervise(c)
  PROVE  /\ \/ ApplyStorage(c)
            \/ Kept(yaml.storage, yaml'.storage) /\ UNCHANGED <<config.storage, capture>>
         /\ \/ ApplyRules(c)
            \/ Kept(yaml.rules, yaml'.rules) /\ UNCHANGED decryptStore.rules
               /\ config'.rules \in {config.rules, decryptStore.rules}
         /\ \/ ApplyRules(c) \/ ApplyDecrypt(c)
            \/ Kept(yaml.decrypt, yaml'.decrypt)
               /\ UNCHANGED <<config.decrypt, config.rules, decryptStore>>
         /\ \/ ApplyUpstream(c)
            \/ Kept(yaml.upstream, yaml'.upstream) /\ UNCHANGED <<config.upstream, upstreamStore>>
         /\ \/ ChangeAccess(c)
            \/ Kept(yaml.access, yaml'.access) /\ UNCHANGED <<config.access, accessStore>>
<1>1. (yaml # Torn => yaml \in AppConfig) /\ config \in AppConfig
  BY DEF TypeOK
<1>2. CASE ApplyStorage(c)
  <2>1. Filed([yaml EXCEPT !.storage = request[c].enabled])
    BY <1>2, FiledBy DEF ApplyStorage
  <2>2. (UNCHANGED config) \/ config' = [config EXCEPT !.storage = request[c].enabled]
    BY <1>2 DEF ApplyStorage
  <2>3. QED
    BY <1>1, <1>2, <2>1, <2>2 DEF AppConfig, ApplyStorage, stores, Filed, Kept
<1>3. CASE ApplyRules(c)
  <2>1. Filed([yaml EXCEPT !.rules = request[c].rules])
    BY <1>3, FiledBy DEF ApplyRules
  <2>2. \/ UNCHANGED config
        \/ config' = [config EXCEPT !.rules = request[c].rules, !.decrypt = decryptStore.enabled]
    BY <1>3 DEF ApplyRules
  <2>3. QED
    BY <1>1, <1>3, <2>1, <2>2 DEF AppConfig, ApplyRules, Filed, Kept
<1>4. CASE ApplyDecrypt(c)
  <2>1. Filed([yaml EXCEPT !.decrypt = request[c].enabled])
    <3>1. \/ UNCHANGED yaml \/ PersistFails(1)
          \/ Persist([yaml EXCEPT !.decrypt = request[c].enabled])
      BY <1>4, ZenonT(30) DEF ApplyDecrypt
    <3>2. QED
      BY <3>1, FiledBy
  <2>2. \/ UNCHANGED <<config, decryptStore>>
        \/ /\ config' = [config EXCEPT !.decrypt = request[c].enabled, !.rules = decryptStore.rules]
           /\ decryptStore' = [decryptStore EXCEPT !.enabled = request[c].enabled]
    BY <1>4, ZenonT(30) DEF ApplyDecrypt
  <2>3. UNCHANGED decryptStore.rules
    BY <2>2 DEF TypeOK
  <2>4. QED
    BY <1>1, <1>4, <2>1, <2>2, <2>3 DEF AppConfig, ApplyDecrypt, Filed, Kept
<1>5. CASE ApplyUpstream(c)
  <2>1. Filed([yaml EXCEPT !.upstream = request[c].upstream])
    BY <1>5, FiledBy DEF ApplyUpstream
  <2>2. (UNCHANGED config) \/ config' = [config EXCEPT !.upstream = request[c].upstream]
    BY <1>5 DEF ApplyUpstream
  <2>3. QED
    BY <1>1, <1>5, <2>1, <2>2 DEF AppConfig, ApplyUpstream, Filed, Kept
<1>6. CASE ApplyStart(c) \/ ApplyStop(c)
  BY <1>6 DEF ApplyStart, ApplyStop, stores, Kept
<1>7. CASE ChangeAccess(c)
  <2>1. \E mode : Filed([yaml EXCEPT !.access = mode])
    BY <1>7, FiledBy
    DEF ChangeAccess, BeginAccess, UpdateAccess, SwitchAccess, ListenAccess, RestoreAccess,
        RelistenAccess
  <2>2. \/ UNCHANGED config
        \/ \E mode : config' = [config EXCEPT !.access = mode]
    BY <1>7 DEF ChangeAccess, BeginAccess, UpdateAccess, SwitchAccess, ListenAccess,
                RestoreAccess, RelistenAccess, AdoptAccess
  <2>3. UNCHANGED <<decryptStore, upstreamStore, capture>>
    BY <1>7 DEF ChangeAccess, BeginAccess, UpdateAccess, SwitchAccess, ListenAccess,
                RestoreAccess, RelistenAccess, stores
  <2>4. QED
    BY <1>1, <1>7, <2>1, <2>2, <2>3 DEF AppConfig, Filed, Kept
<1>8. QED
  BY <1>2, <1>3, <1>4, <1>5, <1>6, <1>7 DEF Supervise, ChangeAccess

(* As long as no two requests of a kind overlapped, there is one at a time.     *)
LEMMA OneOfItsKind ==
  ASSUME OverlapInv, NEW c \in Clients, pc[c] # "idle", request[c].kind \notin overlapped,
         NEW d \in Clients, pc[d] # "idle", request[d].kind = request[c].kind
  PROVE  d = c
  BY DEF OverlapInv

(* Who has been answered after a step of the supervisor.                      *)
LEMMA AnsweredStep ==
  ASSUME TypeOK, QueueInv, NEW c \in Clients, Supervise(c), NEW kind,
         NEW d \in Clients, Answered(d, kind)'
  PROVE  /\ request'[d] = request[d] /\ request[d].kind = kind
         /\ d = c \/ Answered(d, kind)
  BY Supervised DEF Answered

(* Nobody is told of success by a step of a handler or by a new request.        *)
LEMMA AnsweredBefore ==
  ASSUME TypeOK, QueueInv, NEW c \in Clients, Handle(c) \/ Ask(c), NEW kind,
         NEW d \in Clients, Answered(d, kind)'
  PROVE  d # c /\ Answered(d, kind) /\ request'[d] = request[d]
<1>1. CASE Handle(c)
  BY <1>1, Handled DEF Answered
<1>2. CASE Ask(c)
  BY <1>2, Asked DEF Answered
<1>3. QED
  BY <1>1, <1>2

(* The storage switch is saved with the configuration or not at all, and the     *)
(* sink is the configuration's unless the client was told of an error.           *)
LEMMA StorageStep ==
  ASSUME TypeOK, StorageInv, QueueInv, [Next]_vars
  PROVE  StorageInv'
<1>1. ASSUME NEW c \in Clients, Supervise(c) PROVE StorageInv'
  <2>1. CASE ApplyStorage(c)
    <3>1. (yaml # Torn => yaml \in AppConfig) /\ config \in AppConfig
      BY DEF TypeOK
    <3>2. CASE /\ sink' = request[c].enabled
               /\ Persist([yaml EXCEPT !.storage = request[c].enabled])
               /\ config' = [config EXCEPT !.storage = request[c].enabled]
      BY <3>1, <3>2, PersistCases DEF StorageInv, AppConfig
    <3>3. CASE /\ UNCHANGED yaml \/ PersistFails(1)
               /\ sinkFailed' = TRUE /\ UNCHANGED config
      BY <3>3, PersistFailsCases DEF StorageInv
    <3>4. QED
      BY <2>1, <3>2, <3>3 DEF ApplyStorage
  <2>2. QED
    BY <1>1, <2>1, Writes DEF StorageInv, Kept, capture
<1>2. ASSUME NEW c \in Clients, Handle(c) \/ Ask(c) PROVE StorageInv'
  <2>1. UNCHANGED <<yaml, config>>
    BY <1>2, Handled, Asked
  <2>2. UNCHANGED capture
    BY <1>2 DEF Handle, Ask, ReapplyRules, ReapplyUpstream, ReapplyAccess, ReadState,
                Publish, Submit, SetRecording, Accept
  <2>3. QED
    BY <2>1, <2>2 DEF StorageInv, capture
<1>3. CASE UNCHANGED vars
  BY <1>3 DEF vars, StorageInv, capture
<1>4. QED
  BY <1>1, <1>2, <1>3 DEF Next

(* The decryption switch: the store, by which the supervisor decides whether     *)
(* there is anything to save, is the configuration's.                            *)
LEMMA DecryptStep ==
  ASSUME TypeOK, DecryptInv, QueueInv, [Next]_vars
  PROVE  DecryptInv'
<1>1. ASSUME NEW c \in Clients, Supervise(c) PROVE DecryptInv'
  <2>1. (yaml # Torn => yaml \in AppConfig) /\ config \in AppConfig
         /\ decryptStore \in [enabled: BOOLEAN, rules: CaptureRules]
    BY DEF TypeOK
  <2>2. CASE ApplyRules(c)
    <3>1. Filed([yaml EXCEPT !.rules = request[c].rules])
      BY <2>2, FiledBy DEF ApplyRules
    <3>2. yaml' # Torn => yaml # Torn /\ yaml'.decrypt = yaml.decrypt
      BY <2>1, <3>1 DEF Filed, AppConfig
    <3>3. \/ UNCHANGED <<config, decryptStore>>
          \/ /\ decryptStore' = [decryptStore EXCEPT !.rules = request[c].rules]
             /\ config' = [config EXCEPT !.rules = request[c].rules, !.decrypt = decryptStore.enabled]
      BY <2>2 DEF ApplyRules
    <3>4. QED
      BY <2>1, <3>2, <3>3 DEF DecryptInv, AppConfig
  <2>3. CASE ApplyDecrypt(c)
    <3>1. CASE /\ decryptStore' = [decryptStore EXCEPT !.enabled = request[c].enabled]
               /\ config' = [config EXCEPT !.decrypt = request[c].enabled, !.rules = decryptStore.rules]
               /\ \/ decryptStore.enabled = request[c].enabled /\ UNCHANGED yaml
                  \/ Persist([yaml EXCEPT !.decrypt = request[c].enabled])
      <4>1. decryptStore'.enabled = request[c].enabled /\ config'.decrypt = request[c].enabled
        BY <2>1, <3>1 DEF AppConfig
      <4>2. yaml' # Torn => yaml'.decrypt = request[c].enabled
        BY <2>1, <3>1, PersistCases DEF DecryptInv, AppConfig
      <4>3. QED
        BY <4>1, <4>2 DEF DecryptInv
    <3>2. CASE PersistFails(1) /\ UNCHANGED <<config, decryptStore>>
      BY <3>2, PersistFailsCases DEF DecryptInv
    <3>3. QED
      BY <2>3, <3>1, <3>2, ZenonT(30) DEF ApplyDecrypt
  <2>4. QED
    BY <1>1, <2>2, <2>3, Writes DEF DecryptInv, Kept
<1>2. ASSUME NEW c \in Clients, Handle(c) \/ Ask(c) PROVE DecryptInv'
  <2>1. UNCHANGED <<yaml, config>>
    BY <1>2, Handled, Asked
  <2>2. UNCHANGED decryptStore.enabled
    <3>1. CASE ReapplyRules(c)
      BY <3>1 DEF ReapplyRules, TypeOK
    <3>2. CASE \/ ReapplyUpstream(c) \/ ReapplyAccess(c)
               \/ ReadState(c) \/ Publish(c) \/ Ask(c)
      BY <3>2 DEF ReapplyUpstream, ReapplyAccess, Ask, ReadState, Publish, Submit,
                  SetRecording, Accept, stores
    <3>3. QED
      BY <1>2, <3>1, <3>2 DEF Handle
  <2>3. QED
    BY <2>1, <2>2 DEF DecryptInv
<1>3. CASE UNCHANGED vars
  BY <1>3 DEF vars, DecryptInv, stores
<1>4. QED
  BY <1>1, <1>2, <1>3 DEF Next

(* The capture rules.  SetDecryptHTTPS copies them from the store into the      *)
(* configuration, and the handler writes the store after the reply.             *)
LEMMA RulesStep ==
  ASSUME TypeOK, QueueInv, OverlapInv, RulesInv, [Next]_vars
  PROVE  RulesInv'
<1> SUFFICES ASSUME "rules" \notin overlapped' PROVE RulesInv'
  BY DEF RulesInv
<1>1. "rules" \notin overlapped
  BY OverlapStep
<1>2. /\ yaml # Torn => yaml.rules = config.rules
      /\ decryptStore.rules = config.rules
      /\ \A c \in Clients : Answered(c, "rules") => request[c].rules = config.rules
  BY <1>1 DEF RulesInv
<1>3. ASSUME NEW c \in Clients, Supervise(c) PROVE RulesInv'
  <2>1. CASE ApplyRules(c) /\ config' = [config EXCEPT !.rules = request[c].rules, !.decrypt = decryptStore.enabled]
             /\ Persist([yaml EXCEPT !.rules = request[c].rules])
             /\ decryptStore' = [decryptStore EXCEPT !.rules = request[c].rules]
    <3>1. request[c].kind = "rules"
      BY <2>1 DEF ApplyRules, Applying
    <3>2. /\ yaml' # Torn => yaml'.rules = request[c].rules
          /\ decryptStore'.rules = request[c].rules
          /\ config'.rules = request[c].rules
      BY <2>1, PersistCases DEF TypeOK, AppConfig
    <3>3. ASSUME NEW d \in Clients, Answered(d, "rules")'
          PROVE  d = c /\ request'[d] = request[d]
      <4>1. request'[d] = request[d] /\ request[d].kind = "rules" /\ (d = c \/ Answered(d, "rules"))
        BY <1>3, <3>3, AnsweredStep
      <4>2. pc[c] # "idle"
        BY <1>3, Supervised
      <4>3. QED
        BY <1>1, <3>1, <4>1, <4>2, OneOfItsKind DEF Answered
    <3>4. QED
      BY <3>2, <3>3 DEF RulesInv
  <2>2. CASE Reply(c, FALSE) /\ PersistFails(1) /\ UNCHANGED <<decryptStore, config>>
    <3>1. pc'[c] = "idle"
      BY <2>2 DEF Reply, TypeOK
    <3>2. \A d \in Clients : Answered(d, "rules")' => Answered(d, "rules") /\ request'[d] = request[d]
      BY <1>3, <3>1, AnsweredStep DEF Answered
    <3>3. QED
      BY <1>2, <2>2, <3>2, PersistFailsCases DEF RulesInv
  <2>3. CASE ~ApplyRules(c)
    <3>1. /\ yaml' # Torn => yaml # Torn /\ yaml'.rules = yaml.rules
          /\ UNCHANGED decryptStore.rules
          /\ config'.rules \in {config.rules, decryptStore.rules}
      BY <1>3, <2>3, Writes DEF Kept
    <3>2. request[c].kind # "rules"
      BY <1>3, <2>3, Supervised
      DEF Supervise, ApplyStorage, ApplyDecrypt, ApplyUpstream, ApplyStart, ApplyStop,
          BeginAccess, Applying, QueueInv, UpdateAccess, SwitchAccess, ListenAccess,
          RestoreAccess, RelistenAccess, At
    <3>3. \A d \in Clients : Answered(d, "rules")' => Answered(d, "rules") /\ request'[d] = request[d]
      BY <1>3, <3>2, AnsweredStep
    <3>4. QED
      BY <1>2, <3>1, <3>3 DEF RulesInv
  <2>4. QED
    BY <2>1, <2>2, <2>3 DEF ApplyRules
<1>4. ASSUME NEW c \in Clients, Handle(c) \/ Ask(c) PROVE RulesInv'
  <2>1. UNCHANGED <<yaml, config>>
    BY <1>4, Handled, Asked
  <2>2. decryptStore'.rules = config.rules
    <3>1. CASE ReapplyRules(c)
      BY <1>2, <3>1 DEF ReapplyRules, TypeOK
    <3>2. CASE \/ ReapplyUpstream(c) \/ ReapplyAccess(c) \/ ReadState(c) \/ Publish(c)
      BY <1>2, <3>2 DEF ReapplyUpstream, ReapplyAccess, ReadState, Publish, stores
    <3>3. CASE Ask(c)
      BY <1>2, <3>3, Asked DEF stores
    <3>4. QED
      BY <1>4, <3>1, <3>2, <3>3 DEF Handle
  <2>3. \A d \in Clients : Answered(d, "rules")' => Answered(d, "rules") /\ request'[d] = request[d]
    BY <1>4, AnsweredBefore
  <2>4. QED
    BY <1>2, <2>1, <2>2, <2>3 DEF RulesInv
<1>5. CASE UNCHANGED vars
  BY <1>2, <1>5 DEF vars, stores, handlers, RulesInv, Answered
<1>6. QED
  BY <1>3, <1>4, <1>5 DEF Next

(* The upstream proxy: one success writes all three, and the handler writes the *)
(* store once more.                                                          *)
LEMMA UpstreamStep ==
  ASSUME TypeOK, QueueInv, OverlapInv, UpstreamInv, [Next]_vars
  PROVE  UpstreamInv'
<1>1. "upstream" \notin overlapped' => "upstream" \notin overlapped
  BY OverlapStep
<1>2. ASSUME NEW c \in Clients, Supervise(c) PROVE UpstreamInv'
  <2>1. CASE /\ config' = [config EXCEPT !.upstream = request[c].upstream]
             /\ Persist([yaml EXCEPT !.upstream = request[c].upstream])
             /\ upstreamStore' = request[c].upstream
             /\ request[c].kind = "upstream"
    <3>1. /\ config'.upstream = request[c].upstream
          /\ yaml' # Torn => yaml'.upstream = request[c].upstream
      BY <2>1, PersistCases DEF TypeOK, AppConfig
    <3>2. ASSUME "upstream" \notin overlapped', NEW d \in Clients, Answered(d, "upstream")'
          PROVE  d = c /\ request'[d] = request[d]
      <4>1. request'[d] = request[d] /\ request[d].kind = "upstream"
             /\ (d = c \/ Answered(d, "upstream"))
        BY <1>2, <3>2, AnsweredStep
      <4>2. pc[c] # "idle"
        BY <1>2, Supervised
      <4>3. QED
        BY <1>1, <2>1, <3>2, <4>1, <4>2, OneOfItsKind DEF Answered
    <3>3. QED
      BY <2>1, <3>1, <3>2 DEF UpstreamInv
  <2>2. CASE /\ Reply(c, FALSE) /\ UNCHANGED <<config, upstreamStore>>
             /\ UNCHANGED yaml \/ PersistFails(1) \/ PersistFails(2)
    <3>1. pc'[c] = "idle"
      BY <2>2 DEF Reply, TypeOK
    <3>2. \A d \in Clients : Answered(d, "upstream")' => Answered(d, "upstream")
           /\ request'[d] = request[d]
      BY <1>2, <3>1, AnsweredStep DEF Answered
    <3>3. QED
      BY <1>1, <2>2, <3>2, PersistFailsCases DEF UpstreamInv
  <2>3. CASE ~ApplyUpstream(c)
    <3>1. /\ yaml' # Torn => yaml # Torn /\ yaml'.upstream = yaml.upstream
          /\ UNCHANGED <<config.upstream, upstreamStore>>
      BY <1>2, <2>3, Writes DEF Kept
    <3>2. request[c].kind # "upstream"
      BY <1>2, <2>3, Supervised
      DEF Supervise, ApplyStorage, ApplyRules, ApplyDecrypt, ApplyStart, ApplyStop,
          BeginAccess, Applying, QueueInv, UpdateAccess, SwitchAccess, ListenAccess,
          RestoreAccess, RelistenAccess, At
    <3>3. \A d \in Clients : Answered(d, "upstream")' => Answered(d, "upstream")
           /\ request'[d] = request[d]
      BY <1>2, <3>2, AnsweredStep
    <3>4. QED
      BY <1>1, <3>1, <3>3 DEF UpstreamInv
  <2>4. QED
    BY <2>1, <2>2, <2>3 DEF ApplyUpstream, Applying
<1>3. ASSUME NEW c \in Clients, Handle(c) \/ Ask(c) PROVE UpstreamInv'
  <2>1. UNCHANGED <<yaml, config>>
    BY <1>3, Handled, Asked
  <2>2. UNCHANGED upstreamStore \/ (Answered(c, "upstream") /\ upstreamStore' = request[c].upstream)
    BY <1>3, Asked DEF Handle, ReapplyRules, ReapplyUpstream, ReapplyAccess, ReadState, Publish,
                       stores
  <2>3. \A d \in Clients : Answered(d, "upstream")' => Answered(d, "upstream")
         /\ request'[d] = request[d]
    BY <1>3, AnsweredBefore
  <2>4. QED
    BY <1>1, <2>1, <2>2, <2>3 DEF UpstreamInv
<1>4. CASE UNCHANGED vars
  BY <1>4 DEF vars, stores, handlers, UpstreamInv, Answered
<1>5. QED
  BY <1>2, <1>3, <1>4 DEF Next

-----------------------------------------------------------------------------
(* The access settings.                                                      *)

(* The server just created is the current one.                                *)
LEMMA CreatedIsCurrent ==
  ASSUME TypeOK, CreateServer
  PROVE  servers'[proxy'] = [host |-> ListenHost(accessStore), accepting |-> TRUE]
  BY DEF TypeOK, CreateServer, NewServer

(* While the access settings change nobody else asks for a change of them.      *)
LEMMA ChangesAlone ==
  ASSUME TypeOK, QueueInv, OverlapInv, "access" \notin overlapped, NEW c \in Clients,
         Supervise(c), request[c].kind = "access", NEW d \in Clients, Answered(d, "access")'
  PROVE  d = c /\ pc'[c] = "answered" /\ request'[c] = request[c]
<1>1. request'[d] = request[d] /\ request[d].kind = "access" /\ (d = c \/ Answered(d, "access"))
  BY AnsweredStep
<1>2. pc[c] # "idle"
  BY Supervised
<1>3. d = c
  BY <1>1, <1>2, OneOfItsKind DEF Answered
<1>4. QED
  BY <1>1, <1>3 DEF Answered

(* Who is being served, and what it asked for, is not changed by the handlers.   *)
LEMMA ServedIsKept ==
  ASSUME TypeOK, QueueInv, NEW c \in Clients, Handle(c) \/ Ask(c), step # "idle"
  PROVE  /\ Head(commands) \in Clients \ {c}
         /\ pc[Head(commands)] = "waiting" /\ request[Head(commands)].kind = "access"
         /\ UNCHANGED <<Head(commands), AccessOf(Head(commands))>>
<1>1. /\ commands # <<>> /\ commands \in Seq(Clients)
      /\ 1 \in DOMAIN commands /\ Head(commands) = commands[1]
  BY DEF TypeOK
<1>2. pc[Head(commands)] = "waiting" /\ request[Head(commands)].kind = "access"
  BY <1>1 DEF QueueInv
<1>3. Head(commands) \in Clients \ {c} /\ Head(commands') = Head(commands)
  <2>1. CASE Handle(c)
    BY <1>1, <1>2, <2>1, Handled DEF loop
  <2>2. CASE Ask(c)
    BY <1>1, <2>2, Asked
  <2>3. QED
    BY <2>1, <2>2
<1>4. request'[Head(commands)] = request[Head(commands)]
  BY <1>3, Handled, Asked
<1>5. QED
  BY <1>2, <1>3, <1>4 DEF AccessOf

(* A command that is not about access and leaves the listener alone.            *)
LEMMA AccessUntouched ==
  ASSUME TypeOK, QueueInv, AccessInv, NEW c \in Clients, Supervise(c),
         "access" \notin overlapped, request[c].kind # "access", step = "idle", step' = "idle",
         Kept(yaml.access, yaml'.access), UNCHANGED <<config.access, accessStore, listener>>
  PROVE  AccessInv'
<1>1. faults' <= 1 => faults <= 1
  BY FaultsKept DEF TypeOK
<1>2. \A d \in Clients : Answered(d, "access")' => Answered(d, "access") /\ request'[d] = request[d]
  BY AnsweredStep
<1>3. QED
  BY <1>1, <1>2 DEF AccessInv, listener, Kept

(* Turning the proxy on opens the listener the configuration asks for.         *)
LEMMA AccessStart ==
  ASSUME TypeOK, QueueInv, AccessInv, NEW c \in Clients, ApplyStart(c), "access" \notin overlapped
  PROVE  AccessInv'
<1>1. /\ Supervise(c) /\ request[c].kind # "access" /\ step = "idle" /\ step' = "idle"
      /\ UNCHANGED <<yaml, config, accessStore>>
  BY DEF Supervise, ApplyStart, Applying, At, Reply, stores
<1>2. CASE UNCHANGED listener
  BY <1>1, <1>2, AccessUntouched DEF Kept
<1>3. CASE CreateServer /\ address' = NewServer.host
  <2>1. servers'[proxy'] = [host |-> ListenHost(accessStore), accepting |-> TRUE]
    BY <1>3, CreatedIsCurrent
  <2>2. faults' <= 1 => faults <= 1
    BY <1>1, FaultsKept DEF TypeOK
  <2>3. \A d \in Clients : Answered(d, "access")' => Answered(d, "access") /\ request'[d] = request[d]
    BY <1>1, AnsweredStep
  <2>4. QED
    BY <1>1, <1>3, <2>1, <2>2, <2>3 DEF AccessInv, NewServer
<1>4. QED
  BY <1>2, <1>3 DEF ApplyStart

(* Turning it off closes the listener.                                       *)
LEMMA AccessStop ==
  ASSUME TypeOK, QueueInv, AccessInv, NEW c \in Clients, ApplyStop(c), "access" \notin overlapped
  PROVE  AccessInv'
<1>1. /\ Supervise(c) /\ request[c].kind # "access" /\ step = "idle" /\ step' = "idle"
      /\ UNCHANGED <<yaml, config, accessStore>>
  BY DEF Supervise, ApplyStop, Applying, At, Reply, stores
<1>2. CASE UNCHANGED listener
  BY <1>1, <1>2, AccessUntouched DEF Kept
<1>3. CASE running' = FALSE
  <2>1. faults' <= 1 => faults <= 1
    BY <1>1, FaultsKept DEF TypeOK
  <2>2. \A d \in Clients : Answered(d, "access")' => Answered(d, "access") /\ request'[d] = request[d]
    BY <1>1, AnsweredStep
  <2>3. QED
    BY <1>1, <1>3, <2>1, <2>2 DEF AccessInv
<1>4. QED
  BY <1>2, <1>3 DEF ApplyStop

(* What the stretches of setAccessControl have in common.                       *)
LEMMA Changing ==
  ASSUME TypeOK, QueueInv, OverlapInv, NEW c \in Clients, ChangeAccess(c), "access" \notin overlapped
  PROVE  /\ Supervise(c) /\ request[c].kind = "access" /\ c = Head(commands)
         /\ faults \in Nat /\ faults' \in Nat /\ faults <= faults'
         /\ yaml # Torn => yaml \in AppConfig
         /\ config \in AppConfig
         /\ \A d \in Clients : Answered(d, "access")' =>
              d = c /\ pc'[c] = "answered" /\ request'[c] = request[c]
<1>1. Supervise(c)
  BY DEF Supervise, ChangeAccess
<1>2. c = Head(commands)
  BY <1>1, Supervised
<1>3. request[c].kind = "access"
  BY <1>2 DEF QueueInv, ChangeAccess, BeginAccess, Applying, UpdateAccess, SwitchAccess,
              ListenAccess, RestoreAccess, RelistenAccess, At
<1>4. QED
  BY <1>1, <1>2, <1>3, FaultsKept, ChangesAlone DEF TypeOK

(* A failed reply in the middle, or at the end, of a change: nobody is told of    *)
(* success, and what is left is the old mode everywhere.                       *)
LEMMA AccessRefused ==
  ASSUME TypeOK, QueueInv, OverlapInv, AccessInv, NEW c \in Clients, ChangeAccess(c),
         "access" \notin overlapped, Reply(c, FALSE),
         UNCHANGED <<config, accessStore, running, address>>,
         accessStore = config.access,
         faults' <= 1 =>
           /\ yaml' # Torn => yaml'.access = config.access
           /\ running => servers'[proxy'] = [host |-> ListenHost(config.access), accepting |-> TRUE]
  PROVE  AccessInv'
<1>1. step' = "idle" /\ pc'[c] = "idle"
  BY DEF TypeOK, Reply
<1>2. \A d \in Clients : ~Answered(d, "access")'
  BY <1>1, Changing
<1>3. faults' <= 1 => faults <= 1
  BY Changing
<1>4. faults' <= 1 /\ running => address = ListenHost(config.access)
  BY <1>3 DEF AccessInv
<1>5. QED
  BY <1>1, <1>2, <1>4 DEF AccessInv

(* The success of a change: the new mode is everywhere.                         *)
LEMMA AccessAdopted ==
  ASSUME TypeOK, QueueInv, OverlapInv, AccessInv, NEW c \in Clients, ChangeAccess(c),
         "access" \notin overlapped, AdoptAccess(c), UNCHANGED <<yaml, running>>,
         accessStore' = AccessOf(c), faults <= 1 /\ yaml # Torn => yaml.access = AccessOf(c),
         faults <= 1 /\ running =>
           servers'[proxy'] = [host |-> ListenHost(AccessOf(c)), accepting |-> TRUE]
  PROVE  AccessInv'
<1>1. /\ faults' <= 1 => faults <= 1
      /\ config \in AppConfig
      /\ \A d \in Clients : Answered(d, "access")' => d = c /\ request'[c] = request[c]
  BY Changing
<1>2. config'.access = AccessOf(c) /\ address' = ListenHost(AccessOf(c)) /\ step' = "idle"
  BY <1>1 DEF AdoptAccess, AppConfig, Reply
<1>3. QED
  BY <1>1, <1>2 DEF AccessInv, AccessOf

(* The old mode is kept aside, the new one saved.                               *)
LEMMA AccessBegin ==
  ASSUME TypeOK, QueueInv, OverlapInv, AccessInv, NEW c \in Clients, BeginAccess(c),
         "access" \notin overlapped
  PROVE  AccessInv'
<1>1. /\ ChangeAccess(c) /\ step = "idle" /\ c = Head(commands)
      /\ faults' <= 1 => faults <= 1
      /\ yaml # Torn => yaml \in AppConfig
      /\ UNCHANGED <<config, accessStore, listener>>
      /\ accessStore = config.access
  <2>1. ChangeAccess(c)
    BY DEF ChangeAccess
  <2>2. faults \in Nat /\ faults' \in Nat /\ faults <= faults' /\ (yaml # Torn => yaml \in AppConfig)
    BY <2>1, Changing
  <2>3. step = "idle" /\ c = Head(commands) /\ UNCHANGED <<config, accessStore, listener>>
    BY DEF BeginAccess, Applying, At, stores
  <2>4. QED
    BY <2>1, <2>2, <2>3 DEF AccessInv
<1>2. CASE Reply(c, FALSE) /\ PersistFails(1)
  BY <1>1, <1>2, AccessRefused, PersistFailsCases DEF AccessInv, listener
<1>3. CASE /\ Persist([yaml EXCEPT !.access = AccessOf(c)])
           /\ oldAccess' = accessStore
           /\ GoTo(IF running /\ ListenHost(accessStore) # ListenHost(AccessOf(c))
                   THEN "switch" ELSE "update")
  <2>1. /\ yaml' # Torn => yaml'.access = AccessOf(c)
        /\ UNCHANGED <<Head(commands), AccessOf(Head(commands))>>
        /\ UNCHANGED <<pc, request, running, address, servers, proxy>>
        /\ step' \in {"switch", "update"}
        /\ step' = "update" /\ running => ListenHost(AccessOf(c)) = ListenHost(config.access)
    BY <1>1, <1>3, PersistCases DEF GoTo, handlers, listener, AppConfig, AccessOf
  <2>2. QED
    BY <1>1, <1>3, <2>1 DEF AccessInv, Answered
<1>4. QED
  BY <1>2, <1>3 DEF BeginAccess

(* The mode changes, the host does not.                                        *)
LEMMA AccessUpdate ==
  ASSUME TypeOK, QueueInv, OverlapInv, AccessInv, NEW c \in Clients, UpdateAccess(c),
         "access" \notin overlapped
  PROVE  AccessInv'
<1>1. /\ ChangeAccess(c) /\ step = "update" /\ c = Head(commands)
      /\ accessStore' = AccessOf(c) /\ AdoptAccess(c)
      /\ UNCHANGED <<yaml, servers, proxy, running>>
  BY Changing DEF ChangeAccess, UpdateAccess, At
<1>2. /\ faults <= 1 /\ yaml # Torn => yaml.access = AccessOf(c)
      /\ faults <= 1 /\ running =>
           servers'[proxy'] = [host |-> ListenHost(AccessOf(c)), accepting |-> TRUE]
  BY <1>1 DEF AccessInv
<1>3. QED
  BY <1>1, <1>2, AccessAdopted

(* The old listener is closed, the store has the new mode.                     *)
LEMMA AccessSwitch ==
  ASSUME TypeOK, QueueInv, OverlapInv, AccessInv, NEW c \in Clients, SwitchAccess(c),
         "access" \notin overlapped
  PROVE  AccessInv'
<1>1. /\ step = "switch" /\ step' = "listen" /\ c = Head(commands)
      /\ UNCHANGED <<Head(commands), AccessOf(Head(commands))>>
      /\ UNCHANGED <<pc, request, yaml, config, running, address, oldAccess, faults>>
      /\ accessStore' = AccessOf(c)
  BY Changing DEF ChangeAccess, SwitchAccess, At, GoTo, handlers, AccessOf
<1>2. QED
  BY <1>1 DEF AccessInv, Answered, AccessOf

(* The new listener opens, or the change is given up.                           *)
LEMMA AccessListen ==
  ASSUME TypeOK, QueueInv, OverlapInv, AccessInv, NEW c \in Clients, ListenAccess(c),
         "access" \notin overlapped
  PROVE  AccessInv'
<1>1. /\ ChangeAccess(c) /\ step = "listen" /\ c = Head(commands)
      /\ UNCHANGED <<yaml, accessStore, running>>
      /\ accessStore = AccessOf(c) /\ oldAccess = config.access
      /\ faults \in Nat
  BY Changing DEF ChangeAccess, ListenAccess, At, AccessInv, stores, TypeOK
<1>2. CASE CreateServer /\ AdoptAccess(c)
  <2>1. servers'[proxy'] = [host |-> ListenHost(AccessOf(c)), accepting |-> TRUE]
    BY <1>1, <1>2, CreatedIsCurrent
  <2>2. faults <= 1 /\ yaml # Torn => yaml.access = AccessOf(c)
    BY <1>1 DEF AccessInv
  <2>3. QED
    BY <1>1, <1>2, <2>1, <2>2, AccessAdopted
<1>3. CASE /\ Fails(1) /\ GoTo("restore")
           /\ UNCHANGED <<config, servers, proxy, address, oldAccess>>
  <2>1. step' = "restore" /\ faults' = faults + 1 /\ UNCHANGED <<pc, request>>
    BY <1>3 DEF Fails, GoTo, handlers
  <2>2. QED
    BY <1>1, <1>3, <2>1 DEF AccessInv, Answered
<1>4. QED
  BY <1>2, <1>3 DEF ListenAccess

(* Store and config.yaml get the old mode back.                                *)
LEMMA AccessRestore ==
  ASSUME TypeOK, QueueInv, OverlapInv, AccessInv, NEW c \in Clients, RestoreAccess(c),
         "access" \notin overlapped
  PROVE  AccessInv'
<1>1. /\ step = "restore" /\ step' = "relisten"
      /\ UNCHANGED <<pc, request, config, listener, oldAccess>>
      /\ accessStore' = config.access /\ oldAccess = config.access /\ faults >= 1
      /\ faults \in Nat /\ (yaml # Torn => yaml \in AppConfig)
      /\ (Succeeds /\ Persist([yaml EXCEPT !.access = oldAccess])) \/ PersistFails(1)
  BY DEF RestoreAccess, At, GoTo, handlers, AccessInv, TypeOK
<1>2. /\ faults' >= 1
      /\ faults' <= 1 => faults <= 1 /\ (yaml' # Torn => yaml'.access = config.access)
  BY <1>1, PersistCases, PersistFailsCases DEF Succeeds, Fails, AppConfig
<1>3. QED
  BY <1>1, <1>2 DEF AccessInv, Answered, listener

(* The old listener opens again.                                              *)
LEMMA AccessRelisten ==
  ASSUME TypeOK, QueueInv, OverlapInv, AccessInv, NEW c \in Clients, RelistenAccess(c),
         "access" \notin overlapped
  PROVE  AccessInv'
<1>1. /\ ChangeAccess(c) /\ step = "relisten" /\ Reply(c, FALSE)
      /\ UNCHANGED <<yaml, config, accessStore, running, address>>
      /\ accessStore = config.access /\ faults >= 1 /\ faults \in Nat
      /\ (Succeeds /\ CreateServer) \/ Fails(1)
  BY DEF ChangeAccess, RelistenAccess, At, AccessInv, stores, TypeOK
<1>2. CASE Succeeds /\ CreateServer
  <2>1. servers'[proxy'] = [host |-> ListenHost(accessStore), accepting |-> TRUE]
    BY <1>2, CreatedIsCurrent
  <2>2. faults' <= 1 /\ yaml # Torn => yaml.access = config.access
    BY <1>1, <1>2 DEF Succeeds, AccessInv
  <2>3. QED
    BY <1>1, <2>1, <2>2, AccessRefused
<1>3. CASE Fails(1)
  <2>1. ~(faults' <= 1)
    BY <1>1, <1>3 DEF Fails
  <2>2. QED
    BY <1>1, <2>1, AccessRefused
<1>4. QED
  BY <1>1, <1>2, <1>3

(* The handlers: the second write repeats the value of the configuration.        *)
LEMMA AccessHandlers ==
  ASSUME TypeOK, QueueInv, OverlapInv, AccessInv, NEW c \in Clients, Handle(c) \/ Ask(c),
         "access" \notin overlapped
  PROVE  AccessInv'
<1>1. UNCHANGED <<yaml, config, listener, step, oldAccess, faults>>
  BY Handled, Asked DEF loop
<1>2. \A d \in Clients : Answered(d, "access")' => Answered(d, "access") /\ request'[d] = request[d]
  BY AnsweredBefore
<1>3. step # "idle" => UNCHANGED <<Head(commands), AccessOf(Head(commands))>>
  BY ServedIsKept
<1>4. UNCHANGED accessStore \/ (Answered(c, "access") /\ accessStore' = config.access)
  <2>1. CASE ReapplyAccess(c)
    BY <2>1 DEF ReapplyAccess, AccessInv
  <2>2. CASE ReapplyRules(c) \/ ReapplyUpstream(c) \/ ReadState(c) \/ Publish(c) \/ Ask(c)
    BY <2>2, Asked DEF ReapplyRules, ReapplyUpstream, ReadState, Publish, stores
  <2>3. QED
    BY <2>1, <2>2 DEF Handle
<1>5. step # "idle" => ~Answered(c, "access")
  BY ServedIsKept, OneOfItsKind DEF Answered
<1>6. step \in {"idle", "update", "switch", "relisten"} => accessStore' = config.access
  BY <1>4 DEF AccessInv
<1>7. step = "listen" => accessStore' = AccessOf(Head(commands))
  BY <1>4, <1>5 DEF AccessInv
<1>8. QED
  BY <1>1, <1>2, <1>3, <1>6, <1>7 DEF AccessInv, listener

(* Every step of the program. *)
LEMMA AccessStep ==
  ASSUME TypeOK, QueueInv, OverlapInv, AccessInv, [Next]_vars
  PROVE  AccessInv'
<1> SUFFICES ASSUME "access" \notin overlapped' PROVE AccessInv'
  BY DEF AccessInv
<1>1. "access" \notin overlapped
  BY OverlapStep
<1>2. ASSUME NEW c \in Clients,
             ApplyStorage(c) \/ ApplyRules(c) \/ ApplyDecrypt(c) \/ ApplyUpstream(c)
      PROVE  AccessInv'
  <2>1. Supervise(c) /\ request[c].kind # "access" /\ step = "idle" /\ step' = "idle"
         /\ UNCHANGED listener
    BY <1>2 DEF Supervise, ApplyStorage, ApplyRules, ApplyDecrypt, ApplyUpstream, Applying, At, Reply
  <2>2. ~ChangeAccess(c)
    BY <1>1, <2>1, Changing
  <2>3. QED
    BY <1>1, <2>1, <2>2, Writes, AccessUntouched
<1>3. ASSUME NEW c \in Clients, ApplyStart(c) \/ ApplyStop(c) PROVE AccessInv'
  BY <1>1, <1>3, AccessStart, AccessStop
<1>4. ASSUME NEW c \in Clients, ChangeAccess(c) PROVE AccessInv'
  BY <1>1, <1>4, AccessBegin, AccessUpdate, AccessSwitch, AccessListen, AccessRestore,
     AccessRelisten DEF ChangeAccess
<1>5. ASSUME NEW c \in Clients, Handle(c) \/ Ask(c) PROVE AccessInv'
  BY <1>1, <1>5, AccessHandlers
<1>6. CASE UNCHANGED vars
  BY <1>1, <1>6 DEF vars, stores, listener, loop, handlers, AccessInv, Answered, AccessOf
<1>7. QED
  BY <1>2, <1>3, <1>4, <1>5, <1>6 DEF Next, Supervise, ChangeAccess

-----------------------------------------------------------------------------
(* The status bar.                                                           *)

(* As long as nothing fails, every command of the supervisor is answered.       *)
LEMMA NothingRefused ==
  ASSUME TypeOK, TornInv, QueueInv, NEW c \in Clients, Supervise(c), faults' = 0,
         step \notin {"restore", "relisten"}
  PROVE  faults = 0 /\ pc'[c] # "idle" /\ step' \notin {"restore", "relisten"}
<1>1. faults = 0
  BY FaultsKept DEF TypeOK
<1>2. ~Fails(1) /\ ~PersistFails(1) /\ ~PersistFails(2)
  BY <1>1, FaultsGrowSaving DEF Fails
<1>3. ~RestoreAccess(c) /\ ~RelistenAccess(c)
  BY DEF RestoreAccess, RelistenAccess, At
<1>4. \/ Reply(c, TRUE)
      \/ UNCHANGED pc /\ step' \in {"update", "switch", "listen"}
  BY <1>2, <1>3 DEF Supervise, ApplyStorage, ApplyRules, ApplyDecrypt, ApplyUpstream, ApplyStart,
     ApplyStop, BeginAccess, UpdateAccess, SwitchAccess, ListenAccess, AdoptAccess, GoTo, handlers
<1>5. pc[c] = "waiting"
  BY Supervised
<1>6. QED
  BY <1>1, <1>4, <1>5 DEF Reply, TypeOK

(* The capture rules are not part of what is published.                          *)
LEMMA RulesNotShown ==
  ASSUME TypeOK, NEW c \in Clients, ApplyRules(c) \/ ReapplyRules(c)
  PROVE  CaptureState' = CaptureState
<1>1. decryptStore'.enabled = decryptStore.enabled
  BY DEF TypeOK, ApplyRules, ReapplyRules
<1>2. UNCHANGED <<recording, capture, running, address, upstreamStore, accessStore>>
  BY DEF ApplyRules, ReapplyRules, Reply, listener
<1>3. QED
  BY <1>1, <1>2 DEF CaptureState, capture

(* Every handler has a place for the state it has read.                         *)
LEMMA SnapshotsStep ==
  ASSUME TypeOK, Snapshots, QueueInv, [Next]_vars
  PROVE  Snapshots'
<1>1. ASSUME NEW c \in Clients, Supervise(c) \/ Ask(c) PROVE Snapshots'
  BY <1>1, Supervised, Asked DEF Snapshots
<1>2. ASSUME NEW c \in Clients, Handle(c) PROVE Snapshots'
  BY <1>2 DEF Handle, ReapplyRules, ReapplyUpstream, ReapplyAccess, ReadState, Publish, Snapshots
<1>3. CASE UNCHANGED vars
  BY <1>3 DEF vars, handlers, Snapshots
<1>4. QED
  BY <1>1, <1>2, <1>3 DEF Next

(* Without overlap there is one handler at a time, from request to publication.   *)
LEMMA StatusStep ==
  ASSUME TypeOK, TornInv, Snapshots, QueueInv, OverlapInv, StatusInv, [Next]_vars
  PROVE  StatusInv'
<1> SUFFICES ASSUME "any" \notin overlapped', faults' = 0 PROVE StatusInv'
  BY DEF StatusInv
<1>1. "any" \notin overlapped
  BY OverlapStep
<1>2. \A c, d \in Clients : pc[c] # "idle" /\ pc[d] # "idle" => c = d
  BY <1>1 DEF OverlapInv
<1>3. ASSUME NEW c \in Clients, Supervise(c) PROVE StatusInv'
  <2>1. faults = 0
    BY <1>3, FaultsKept DEF TypeOK
  <2>2. step \notin {"restore", "relisten"}
    BY <1>1, <2>1 DEF StatusInv
  <2>3. pc'[c] # "idle" /\ step' \notin {"restore", "relisten"}
    BY <1>3, <2>2, NothingRefused
  <2>4. /\ pc[c] = "waiting" /\ request'[c] = request[c] /\ pc'[c] # "publishing"
        /\ \A d \in Clients \ {c} : pc'[d] = pc[d] /\ request'[d] = request[d]
        /\ UNCHANGED published
    BY <1>3, <2>3, Supervised
  <2>5. \A d \in Clients \ {c} : pc[d] = "idle"
    BY <1>2, <2>4
  <2>6. ASSUME \A d \in Clients : pc'[d] # "idle" => request'[d].kind = "rules"
        PROVE  published' = CaptureState'
    <3>1. request[c].kind = "rules"
      BY <2>3, <2>4, <2>6
    <3>2. ApplyRules(c)
      BY <1>3, <3>1, Supervised
      DEF Supervise, ApplyStorage, ApplyDecrypt, ApplyUpstream, ApplyStart, ApplyStop,
          BeginAccess, Applying, QueueInv, UpdateAccess, SwitchAccess, ListenAccess,
          RestoreAccess, RelistenAccess, At
    <3>3. CaptureState' = CaptureState
      BY <3>2, RulesNotShown
    <3>4. published = CaptureState
      BY <1>1, <2>1, <2>5, <3>1 DEF StatusInv
    <3>5. QED
      BY <2>4, <3>3, <3>4
  <2>7. \A d \in Clients : pc'[d] # "publishing"
    BY <2>4, <2>5
  <2>8. QED
    BY <2>3, <2>6, <2>7 DEF StatusInv
<1>4. ASSUME NEW c \in Clients, Handle(c) PROVE StatusInv'
  <2>1. /\ pc[c] # "idle" /\ UNCHANGED <<faults, step>>
        /\ pc'[c] # "idle" => request'[c] = request[c]
        /\ \A d \in Clients \ {c} : pc'[d] = pc[d]
    BY <1>4, Handled DEF loop
  <2>2. \A d \in Clients \ {c} : pc'[d] = "idle" /\ pc[d] = "idle"
    BY <1>2, <2>1
  <2>3. /\ step' \notin {"restore", "relisten"}
        /\ request[c].kind = "rules" => published = CaptureState
        /\ pc[c] = "publishing" => snapshot[c] = CaptureState
    BY <1>1, <2>1, <2>2 DEF StatusInv
  <2>4. CASE ReapplyRules(c)
    <3>1. pc'[c] = "idle" /\ UNCHANGED published /\ request[c].kind = "rules"
      BY <2>4 DEF ReapplyRules, Answered, TypeOK
    <3>2. CaptureState' = CaptureState
      BY <2>4, RulesNotShown
    <3>3. QED
      BY <2>2, <2>3, <3>1, <3>2 DEF StatusInv
  <2>5. CASE ReapplyUpstream(c) \/ ReapplyAccess(c)
    <3>1. pc'[c] = "applied" /\ request'[c].kind # "rules"
      BY <2>1, <2>5 DEF ReapplyUpstream, ReapplyAccess, Answered, TypeOK
    <3>2. QED
      BY <2>2, <2>3, <3>1 DEF StatusInv
  <2>6. CASE ReadState(c)
    <3>1. CaptureState' = CaptureState
      BY <2>6 DEF ReadState, CaptureState, stores, capture, listener
    <3>2. /\ UNCHANGED published /\ pc'[c] = "publishing" /\ request'[c] = request[c]
          /\ snapshot' = [snapshot EXCEPT ![c] = CaptureState]
      BY <2>6 DEF ReadState, TypeOK
    <3>3. snapshot'[c] = CaptureState
      BY <3>2 DEF Snapshots
    <3>4. QED
      BY <2>2, <2>3, <3>1, <3>2, <3>3 DEF StatusInv
  <2>7. CASE Publish(c)
    <3>1. CaptureState' = CaptureState
      BY <2>7 DEF Publish, CaptureState, stores, capture, listener
    <3>2. published' = snapshot[c] /\ pc[c] = "publishing" /\ pc'[c] = "idle"
      BY <2>7 DEF Publish, TypeOK
    <3>3. QED
      BY <2>2, <2>3, <3>1, <3>2 DEF StatusInv
  <2>8. QED
    BY <1>4, <2>4, <2>5, <2>6, <2>7 DEF Handle
<1>5. ASSUME NEW c \in Clients, Ask(c) PROVE StatusInv'
  <2>1. /\ pc[c] = "idle" /\ pc'[c] \in {"waiting", "applied"}
        /\ \A d \in Clients \ {c} : pc'[d] = pc[d] /\ (pc[d] # "idle" => "any" \in overlapped')
        /\ UNCHANGED <<stores, capture, listener, step, published, faults>>
        /\ recording' = recording \/ request'[c].kind = "recording"
    BY <1>5, Asked
  <2>2. \A d \in Clients : pc[d] = "idle"
    BY <2>1
  <2>3. published = CaptureState /\ step' \notin {"restore", "relisten"}
    BY <1>1, <2>1, <2>2 DEF StatusInv
  <2>4. recording' = recording => CaptureState' = CaptureState
    BY <2>1 DEF CaptureState, stores, capture, listener
  <2>5. \A d \in Clients : pc'[d] # "publishing"
    BY <2>1, <2>2
  <2>6. QED
    BY <2>1, <2>3, <2>4, <2>5 DEF StatusInv
<1>6. CASE UNCHANGED vars
  <2>1. CaptureState' = CaptureState
    BY <1>6 DEF vars, CaptureState, stores, capture, listener, handlers
  <2>2. QED
    BY <1>1, <1>6, <2>1 DEF vars, loop, handlers, StatusInv
<1>7. QED
  BY <1>3, <1>4, <1>5, <1>6 DEF Next

-----------------------------------------------------------------------------
(* All settings together.                                                    *)

(* The program starts with nothing under way and everything as read.             *)
LEMMA InitSettings == Init => SettingsInv
<1> SUFFICES ASSUME Init PROVE SettingsInv
  OBVIOUS
<1>1. /\ commands = <<>> /\ step = "idle" /\ config = yaml /\ faults = 0
      /\ \A c \in Clients : pc[c] = "idle"
      /\ published = CaptureState
  BY DEF Init
<1>2. /\ decryptStore.rules = config.rules /\ upstreamStore = config.upstream
      /\ accessStore = config.access /\ address = ListenHost(config.access) /\ proxy = 1
      /\ servers[proxy] = [host |-> ListenHost(config.access), accepting |-> TRUE]
  BY DEF Init
<1>3. DOMAIN commands = {}
  BY <1>1
<1>4. Snapshots /\ QueueInv /\ OverlapInv /\ StorageInv /\ DecryptInv
  BY <1>1, <1>3 DEF Init, Snapshots, QueueInv, OverlapInv, StorageInv, DecryptInv
<1>5. RulesInv /\ UpstreamInv /\ AccessInv /\ StatusInv
  BY <1>1, <1>2 DEF RulesInv, UpstreamInv, AccessInv, StatusInv, Answered
<1>6. QED
  BY <1>4, <1>5 DEF SettingsInv

(* Every step of the program preserves it. *)
LEMMA SettingsStep ==
  TypeOK /\ TornInv /\ SettingsInv /\ [Next]_vars => SettingsInv'
  BY OverlapStep, StorageStep, DecryptStep, RulesStep, UpstreamStep, AccessStep,
     StatusStep, SnapshotsStep
  DEF SettingsInv

(* The inductive invariant of the settings holds in every behaviour. *)
THEOREM SettingsInductive == Spec => []SettingsInv
  BY InitSettings, SettingsStep, TypeCorrect, TornByFailure, PTL DEF Spec

(* Between two commands a config.yaml that no failed write has torn holds what the *)
(* program runs with: storage, decryption and upstream always, the sink unless   *)
(* the write of a changed storage has failed, the rules unless two requests for   *)
(* them overlapped, and access control up to one failed call of its rollback.    *)
THEOREM RestartConsistent == Spec => []RestartFindsConfig
<1>1. SettingsInv => RestartFindsConfig
  BY DEF SettingsInv, RestartFindsConfig, StorageInv, DecryptInv, UpstreamInv, RulesInv, AccessInv
<1>2. QED
  BY <1>1, SettingsInductive, PTL

(* When all handlers are done the supervisor is between two commands.            *)
LEMMA SettledIsIdle == TypeOK /\ QueueInv /\ Settled => step = "idle"
<1> SUFFICES ASSUME TypeOK, QueueInv, Settled, step # "idle" PROVE FALSE
  BY DEF TypeOK
<1>1. commands \in Seq(Clients) /\ commands # <<>>
  BY DEF TypeOK
<1>2. 1 \in DOMAIN commands /\ commands[1] \in Clients
  BY <1>1
<1>3. QED
  BY <1>2 DEF QueueInv, Settled

(* Once all handlers are done, stores, listener and status bar are the             *)
(* configuration's: setAccessControl, applyRules and SetUpstream with their        *)
(* handlers' second writes, and broadcastCaptureState.                            *)
THEOREM SettledInSync == Spec => []SettledMeansInSync
<1>1. TypeOK /\ SettingsInv => SettledMeansInSync
  <2> SUFFICES ASSUME TypeOK, SettingsInv, Settled PROVE SettledMeansInSync
    BY DEF SettledMeansInSync, SettledListenerMatches, SettledStatusBarInSync
  <2>1. step = "idle"
    BY SettledIsIdle DEF SettingsInv
  <2>2. SettledListenerMatches
    BY <2>1 DEF SettledListenerMatches, SettingsInv, UpstreamInv, RulesInv, AccessInv
  <2>3. SettledStatusBarInSync
    BY DEF SettledStatusBarInSync, SettingsInv, StatusInv, Settled
  <2>4. QED
    BY <2>2, <2>3 DEF SettledMeansInSync
<1>2. QED
  BY <1>1, SettingsInductive, TypeCorrect, PTL
=============================================================================
