# HttpStackLens: specifications, model checking and proofs

HttpStackLens is a local HTTP(S) proxy that records what passes through it and
shows it in a Web UI. This directory models the parts of it whose correctness
depends on the order in which goroutines, HTTP handlers, browsers and failing
calls take their steps, checks them with TLC on small instances, and proves
what matters most for every value of the constants with TLAPS.

Paths below are relative to the repository's sources. Every definition's
source lines are in `PROJECT.json` under `map`.

## 1. The system

### Components, their state and operations

| Component | State | Operations | What makes it correct |
|---|---|---|---|
| Runtime supervisor (`runtime_supervisor.go`, `decrypt_https_runtime.go`) | current and retired proxy servers, base pipeline, running configuration | one command at a time from a channel: storage, body capture, decryption, upstream, access control, start, stop; each persists, applies, and rolls back when a call fails | at most one listener; memory, `config.yaml`, pipeline and listener agree between commands, also after a failure; every command is answered |
| Web UI handlers (`webui/ui_server.go`) | none of their own; they write settings stores and publish | validate, send a command, wait for the reply, write the store again, publish `capture_state` | the settings shown are the settings in use and survive a restart |
| SSE hub (`webui/ui_server.go`) | client channels, `closed`, mutex | publish (non-blocking), subscribe, unsubscribe, close | no send on a closed channel, per-browser order, a stuck browser stalls nobody, handlers end at shutdown |
| Proxy server (`proxy_server.go`) | listener, `closed`, connection map | accept loop, one goroutine per connection (read, report, record, serve), `StopAccepting`, `Close` | every open connection can be reached by `Close`; what is reported is what is served |
| Switchable middleware (`proxy/middlewares/switchable_middleware.go`) | one atomic pair: pipeline and decrypting flag | set both, read both | a connection never sees half of a change |
| HTTPS interceptor (`proxy/middlewares/https_interceptor.go`) | per tunnel: request, captured body, response, tee | loop of exchanges: capture, record, publish, send, stream, record, publish, time | records are complete and truthful although recording is switched at any moment |
| Request store (`storage/request_store.go`) | map of exchanges, queue of ids | put request, response, timing; get; clear | the queue and the map agree, the size is bounded, eviction is first in first out |
| Capture storage (`storage/storage_sink.go`, `capture_session_writer.go`, `capture_session_reader.go`) | open session, file contents | enable, disable, write request/response, close; read, count, page | records never interleave or vanish; a session is not closed under a writer |
| Configuration (`configuration/`) | `config.yaml`, settings stores | read or create, five line edits, snapshot, update; what modes, networks, capture rules and no_proxy lists mean | a persisted value is what the next start reads, the rest of the file stays, the policy is what was typed |
| Upstream Windows authentication (`forward_proxy_server_with_authentication_windows.go`, `upstream_auth_connection.go`) | connection, security context, challenge, attempt and reconnection counts | up to 8 exchanges, up to 2 reconnections | tokens belong to their connection; requests with effects are not replayed; contexts and connections are released once; it ends |
| Windows authentication of browsers (`authentication_server_windows.go`) | security context | 407 loop | nothing is served before authentication; the context is released |
| Tunnel, forward proxy, no_proxy router | two copies per connection | connect, copy both ways | both directions end |
| Certificate store (`certManager/`) | memory cache, files | get, load, create, install | one certificate per host |
| HTTP file store (`webui/http_files.go`) and composer's collection (`webui/wasm/components/composer/`) | folder of `.http` files; list of files, draft, marks, timers, name field, calls in flight | list, save, rename (look up, then move), delete; load and migrate, edit, schedule, save, create, rename, delete | folder and list agree; every scheduled edit is written; a late answer disturbs nothing |
| Composer sender (`composer_sender.go`) | none | build a request, send it through the pipeline, read the answer | the pipeline's connection is closed |
| Update checker (`webui/update_check.go`) | cached result, time | refresh after a time to live | failures are not cached |
| Logging, desktop shell, build tools, embedded assets, OS certificate installers | - | - | not modelled: output, packaging and calls to the operating system |

### How they interact

HTTP handlers send `RuntimeCommand`s through one channel to the supervisor and
wait for the reply in the command. The supervisor owns the proxy servers and
swaps the pipeline in the `SwitchableMiddleware`; connection goroutines of the
proxy read that pair once per connection. Recording is governed by two
switches that any handler or the supervisor flips at any time - the
`CaptureController` (live view: events and request store) and the
`StorageSink` (capture file) - and that recorders read anew at each step.
Recorders publish through the hub, which browsers read over `/events`.
Each connection runs through the pipeline built from the settings: the
authentication of the browser, the no_proxy router, then the tunnel, the
forwarder or the authenticating forwarder. The page keeps the composer's files
in memory and calls the backend's file store over HTTP, one call per save.

### What is hard

- two handlers of the same setting, each of which writes a store that the
  supervisor has already written;
- rollbacks whose own calls fail;
- recording switched between two looks at the switches;
- a shutdown (of the hub, of a server) that overtakes a goroutine between two
  of its steps;
- a shared file written in two pieces per record, switched off under its
  writers, or left behind by a crash;
- parts of an exchange that arrive after the exchange was evicted;
- an authentication bound to a connection that the gateway may close between any
  two of its messages, under two bounds;
- a YAML file edited line by line, and a write of it cut half way;
- autosave, rename and delete of a file in flight at once, with lost answers.

`PROJECT.json` lists each such hazard at its line with the properties that
cover it, or why none does yet.

## 2. The modules

| Module | Models | Composes |
|---|---|---|
| `RuntimeSupervisor` | supervisor, decryption runtime, settings handlers, stores, `config.yaml` as values, listener opens and closes | |
| `MCRuntimeSupervisor` | constants of its instances | extends it |
| `RuntimeSupervisor_proofs` | theorems | extends it |
| `ProxyServer` | one proxy server: accept loop, connection goroutines, the two callers that end it | |
| `Pipeline` | one request through the middlewares: browser authentication, routing, dialling, authentication towards the gateway, relaying | |
| `MCPipeline` | its requests, pipelines and offers | extends it |
| `Pipeline_proofs` | theorems | extends it |
| `Interceptor` | decrypted tunnels under changing settings | an instance of `RequestStore` |
| `Interceptor_proofs` | theorems | extends it and an instance of `RequestStore_proofs` |
| `RequestStore` | the in-memory store | refines `ExchangeLog` |
| `ExchangeLog` | the abstract store: a bounded log of exchanges | |
| `RequestStore_proofs` | theorems, refinement included | extends it |
| `Hub` | publish/subscribe hub and SSE handlers | |
| `ServerAndHub_proofs` | theorems about `ProxyServer` and `Hub`, which every connection goes through | extends both |
| `CaptureStorage` | sink, session writer, files, crash, reader | |
| `CaptureStorage_proofs` | theorems | extends it |
| `SettingsPolicy` | what access modes, network lists, capture rules and no_proxy lists mean: the code's decisions and reference definitions of them | |
| `ConfigFile` | `config.yaml` as lines: read, created, edited, cut, read again | extends `SettingsPolicy` |
| `MCConfigFile` | the files its instances start with, and that they have the layout the proofs are about | extends it |
| `ConfigFile_proofs` | theorems | extends it |
| `Composer` | the page's files, drafts and timers, the folder behind the backend, the calls between them | |
| `MCComposer` | its names and first files | extends it |
| `Composer_proofs` | theorems | extends it |

**State and code.** `RuntimeSupervisor`: `yaml`, `config`, the three stores,
`sink`, `base`/`active` (pipelines named by the settings they are built from),
`servers`/`proxy`/`retired`, `running`/`address`, the command channel, and one
program counter per handler. A command is one action, except `setAccessControl`,
whose steps another handler can observe: `BeginAccess`, `UpdateAccess`,
`SwitchAccess`, `ListenAccess`, `RestoreAccess`, `RelistenAccess`. A failing
call is a disjunct that consumes one of `MaxFaults`. `os.WriteFile` truncates a
file before it fills it, so a failed `Persist` leaves `yaml` as it was or `Torn`,
and a torn file stays so until the next start. The storage keeps the position a
failed persist left it in, and `sinkFailed` remembers that.

`ProxyServer`: `run` is the accept loop, `handler[c]` each connection's
goroutine, `caller` the calls of `StopAccepting` (supervisor) and `Close`
(main); a stretch under `s.mu` is one action.

`Pipeline`: `pc` is where the handler's goroutine stands, from the look at the
browser's authorization to the relay. A connection is its number; `token`
remembers the connection on which its context began, so that a token on the
wrong connection is visible. `auth` holds the local variables of
`HandleProxyRequest`: package, header, completion, attempts and reconnections.
The browser's own `Proxy-Authorization` (`carried`) stays in its request and so goes
to the gateway with it, again on each new connection, until a token of the handler
takes its place (`UpstreamAuthRequest`, `FromBrowser`). The framing of a challenge
(Connection headers, version, lengths, chunking) is modelled by the seven
combinations that the code tells apart. While relaying, the browser's copy reads and
writes in turn (`CopyReads`, `CopyWrites`), and the other end may stop reading
(`GatewayPauses`), which blocks a write for as long as it does. Whether the
browser, the gateway and the security package behave is chosen at the start
(`honest`): a gateway that does not may answer anything and break off anywhere.
The deferred calls of the handler are `Return`. SSPI and the gateway are external.

`Interceptor`: `pc[t]` is the position in `forward`; each look at
`isCapturing`/`isStoring`/`Limits` happens in the action of the code that
makes it. Bodies are byte counts; `Captured` is `capBody` and
`captureLimitWriter`. The transport (`net/http`) is taken to have read the
whole request body before it returns a response. Its store is `RequestStore` with
room for `StoreSize` exchanges, 500 in the code: it forgets the oldest, and the
plain requests of `ProxyServer` (`RecordPlainRequest`) push exchanges out as well.
`taken` counts what it has taken in and `born` the count at each request, so that a
property can tell an exchange the store must still have from an older one.

`RequestStore`: `queue` and `entries` are the slice and the map; each method
holds the lock and is one action. `Hub`: a stretch under `h.mu` is one action;
the messages are numbered so that order and gaps are visible. `CaptureStorage`:
`files[f]` is a sequence of pieces - header, payload, checksum, torn - because
the code writes a record in two writes.

`ConfigFile`: a line is its indentation, kind, key, value, whether a comment
follows and whether it ends with a newline. Keys and values are members of
`Words`, the files that were there before the program of `Texts`. `SetScalar`
rewrites a value in place; `Without` (for one key, with `SkipBlock`) and
`AddTo` are the two halves of the replacing edits. `Parses` and `Load` say what the
YAML library (external) makes of the result, and `Tidy` describes the layout the
edits are made for: that of the shipped `config.yaml` and of `yaml.Marshal`, one step
of indentation per level, list items too. `BeginSave` truncates
the file, `EndSave` completes it, `FailSave` and `Crash` leave a prefix, cut at the
end of a line or within one (`Pieces`: its indentation, part of its key or of a value,
a shorter value, none). A start that cannot read the file although it is there
(`StartUnread`) does what it does without one. Comments and blank lines are lines
like the others. The first files may name any mode, since nothing validates
`config.yaml` at the start. The settings a user may type are small sets that hold every case `SettingsPolicy`
tells apart: each mode, an address, a network, an IPv6 one, an IPv4 one in its IPv6
form, an entry that does not parse, rules for exact, partial and full MIME names.
`SettingsPolicy` has no state:
`NormalizeAccessControl`, `ValidateAccessControl`, `AllowsIP`, `ListenHost`,
`LimitForContentType` and `MatchesNoProxy` are the code's; what they are meant to
decide is stated on its own in the property `PolicyTakesEffect` of `ConfigFile`.
A host has an IPv4 address, its IPv4-in-IPv6 form, and an IPv6 address. Which of
them reach a listener is `Reaches` (external): `net.Listen` on `0.0.0.0` opens a socket
of both families where the system has them, so IPv6 clients reach it too; the two are
told apart for `127.0.0.1`, which only this machine reaches, over IPv4.

`Composer`: the page is a single thread that waits only for the backend, so a
handler is one action, and a call is a record in the bag `calls` that is sent,
served and answered; calls in flight are served in any order, and a rename is
served in two steps (`CheckRename`, `ServeRename`), as the backend does. `files`, `cur`,
`tab`, `raw`, `dirty`, `due`, `saveErr`, `naming` and `busy` are the fields of
`Composer`; `due` is a timer that no later edit has overtaken. A text names the file
it belongs to, so that one file's text under another's name is visible: a file that is
read has the place of its name in `Order` for an id, one that is created the next
number. A write that fails may leave a `Torn` text. The name field can be opened
before the list has come; a file created then is compared with no names, which
`blind` remembers, and leaves the list when that comes (`cut`), while its timer runs
on. `doubtful` holds the files with overlapping calls or a lost answer, `overwritten`
apart from them the innocent files that a late write of such a one has destroyed.

Definitions introduced by a comment "Mutant" are altered copies of the
definition below them, the way a plausible bug would alter the code. No
specification uses them; each property is known to be violated when one of
them takes the definition's place (`PROJECT.json`, `mutants`).

## 3. What the runs check

| Run | Shows | Bounds and why they suffice |
|---|---|---|
| `supervisor` | types; at most one listener, no server forgotten, stopped means closed (`ServersAccountedFor`); `config.yaml`, memory, storage, pipeline and listener agree between commands; status bar and listener in sync with the settings (`SettledMeansInSync`); every request is answered | 2 handlers (a race needs two), 3 requests (change, change back or stop, start), 2 failing calls (a call and its rollback), of which a failed write leaves the file whole or torn; two values per setting |
| `proxy_server` | `Close` leaves no goroutine serving an open connection; reported as served; events have records; the accept loop ends | 2 connections, 1 switch (of view, storage or pipeline; every initial setting), 1 failing Accept, both callers: a race here is between one connection, one caller and one switch |
| `unreadable_request` (violated) | a connection whose request line does not parse stays open after `Close` | 1 connection |
| `pipeline` | the handler's tokens stay on their connection; contexts and connections are released once; requests with effects reach the gateway once; honest exchanges complete; bodiless requests settle; the browser's end ends the relay | 4 requests (GET, HEAD, POST without and with a body) through 5 pipelines (tunnel, forwarder, both with no_proxy, authenticating with and without browser authentication and 401 compatibility); 8 exchanges and 2 reconnections as in the code; a well-behaved gateway closes 2 connections, which is what the reconnections allow for |
| `interceptor` | an exchange recorded throughout is complete in file and view, there until the store has taken in as many others as it holds (`SteadyExchangesAreComplete`); bodies are whole or marked, available bodies can be fetched (`BodiesAreTold`) | 1 tunnel (tunnels share only settings and store), 2 exchanges, bodies of 0 or 1 byte under limits 0 and 1, a store of 2 exchanges, 2 plain requests (with which it evicts, before or between the parts of an exchange), 3 changes of settings or plain requests at any step |
| `request_store` | queue and map agree; bound; refinement of the exchange log | 3 ids, size 2: eviction and re-creation both happen |
| `hub` | sends reach open channels only (`HubInv`); order without gaps unless a message was dropped; publishers are not stalled; handlers end at shutdown | 2 publishers, 2 browsers, one that never reads; buffers of 2 and 3 messages, so that one overflows |
| `capture_storage` | writers have a session and records do not interleave (`SinkInv`); undamaged files hold exactly what was accepted; switching returns | 2 recorders, 2 seconds, 3 records, 1 fault (a torn write or a crash) |
| `config_file` | saved settings survive a restart; the rest of the file stays, comments and blank lines included; the policy in force is what was typed; only a cut write, a missing file or a failed read makes a start fall back to the defaults | four first states (no file, the shipped layout, the legacy keys, comments behind values and an unknown mode), 3 saves of any kind and value in any order, 1 cut write or failed read; cuts after 0, 5, 10, 20 or 27 whole lines and anywhere within the next, which is within each of the sections: an edit meets what one or two others have left |
| `config_compact_lists` (violated) | list items at the indentation of their key survive the removal of the key | one layout, one save |
| `composer` | folder, list and editor agree; settled files are saved; one name operation at a time; scheduled edits are written | 2 names, 1 file at first (a create makes two), up to 2 edits, 2 uses of the name field and 1 failed call, half-done write or lost answer, 4 of them together (`MaxUses`; naming a file before the list has come takes two more), 2 calls in flight: a race here is between two calls |
| `clean_but_unsaved` (violated) | a duplicated request leaves a changed file that nothing marks | as in `composer`, 2 edits, no use of the name field, no failure, 1 call in flight |

Runs marked "violated" check one statement of the repository that the code does
not keep; `PROJECT.json` quotes it under `findings`. Deadlock checking is off
where the bounds let a behaviour end (no request, record, edit or connection left).

Some statements hold only under a condition that the property states, because the
code does not keep more:

- `RestartFindsConfig` unless a write of the file has failed half way; of the storage
  unless the last request for it was answered with an error; of the access settings
  after at most one failed call, and of these and the capture rules when requests for
  them did not overlap. `PipelineFollowsConfig` after at most one failed call (a failed
  rollback is reported but not repaired); `SettledMeansInSync` when requests for the
  same setting did not overlap, of the status bar when none did.
- `EventsHaveRecords` unless the view was switched between event and record;
  `BodiesAreTold` for responses written to their end, and for exchanges whose
  request was looked at with the view or the storage on. Of the store, this one and
  `SteadyExchangesAreComplete` speak as long as it has not taken in as many other
  exchanges as it holds.
- `HandlersEndAtShutdown` as long as nobody has published on the closed hub;
  `UndamagedFilesAreWhole` for files that were not opened twice.
- `SavedSettingsSurvive` and `RestPreserved` of files that no cut write has torn; the
  second not of the comments and blank lines that follow the block of a setting, which
  `skipYamlBlock` takes with it.
- `DiskMirrorsTheList` and `SettledFilesAreSaved` unless a file was named before the
  list had come (`blind`), and of files for which no two calls overlapped and no answer
  was lost (`doubtful`) and that no late write of such a file has destroyed
  (`overwritten`: a file of which nothing else need have gone wrong); the second and
  `EditsAreWritten` also of files without a change that nothing schedules and no failed
  save (`unsaved`).
- `TokensStayOnTheirConnection` of the tokens the handler makes: the browser's own is
  passed on with its request.
- `HonestExchangesComplete` of requests without a body, and where the browser's token
  is not passed on to an authenticating gateway; `BrowserEndsRelay` unless the handler
  is in a write that the other end does not read. What happens to the others is in
  section 5.

**Fairness.** `RuntimeSupervisor`: weak fairness of the supervisor goroutine and
of each handler that is not blocked - the Go scheduler runs a runnable
goroutine; clients need not ask. `ProxyServer`: weak fairness of the accept loop
and of a caller that has begun; nothing makes a client connect or a middleware
return. `Pipeline`: the handler's own steps, in a relay those of the browser's copy: a
write to an end that reads, and the return once a read or a write has found its end
gone; the gateway answers or breaks off; a browser that behaves repeats its request
after a 407. Nobody need leave, send, read or finish. `Hub`: weak fairness of
`Close` once called and of writes to browsers that read; strong fairness of
publishers, whom a starved `sync.Mutex` hands over to, and of SSE handlers, whose
`select` picks at random among what is ready; a browser may never read.
`CaptureStorage`: the switching goroutine and recorders inside the sink; strong
fairness of a recorder waiting for the writer's mutex, because Go's mutex hands
over to a starved waiter. `Composer`: timers fire, the backend serves or fails
every call, answers arrive; nothing is asked of the developer. `Interceptor`,
`RequestStore` and `ConfigFile` have safety properties only.

## 4. What is proved

The theorems hold for any sets of clients, commands, values and ids, and any
bounds, from the modules' named assumptions on their constants
(`SupervisorAssumption`, `RequestStoreAssumption`, `ProxyServerAssumption`,
`PipelineAssumption`, `HubAssumption`, `CaptureStorageAssumption`,
`InterceptorAssumption`, `AbsentAssumption`, `ComposerAssumption`,
`ConfigFileAssumption`), which say that
bounds are numbers, that sets hold what the code's types allow and that
the values for "none" are none of the others; that the tunnels are finitely many;
that the names of composer files come in one order, each once, as `os.ReadDir`
lists them; and that the words of a configuration file include those the program
writes, while the first files are any texts of lines.

`RuntimeSupervisor_proofs`:

- `TypeCorrect`: `TypeOK` is inductive by itself; one lemma per group of actions.
- `ListenerInductive`: `ListenerInv` strengthens the listener properties.
  "Only the current server accepts" does not survive a step on its own: a new
  server is created only where the old one is known to be closed, which takes
  where `setAccessControl` stands (`step`), that the steps after the retirement
  have no open server, and that a stopped controller means a closed current
  server. `OneListener`, `ServersReachable` and `StoppedIsClosed` follow, and
  together they are `AccountsForServers`.
- `PipelineIsConfigured`: `PipelineFollowsConfig` with the type invariant is
  inductive; a step that fails consumes faults (`FaultsGrow`), so only the
  steps within the first failure matter.
- `SettingsInductive`: `SettingsInv` says for each setting what `config.yaml`, the
  configuration, the store and the listener or the pipeline hold of it at every
  place a handler and the supervisor can be at, unless a failed write has torn the file.
  "After a failed call the file still has what the program runs with, the storage that
  is on included" is not inductive: between the update of
  the file and the answer they may differ, and by how much depends on the step and
  on which call failed, and a storage request answered with an error may leave file and
  storage different (`StorageInv`). `RestartConsistent` (`RestartFindsConfig`) and `SettledInSync`
  (`SettledMeansInSync`) follow: at rest nobody is between such steps. The second
  also needs the order of the channel (`QueueInv`) and that requests which overlap
  are marked (`OverlapInv`), since a handler writes its store after its answer.

`RequestStore_proofs`: `Inductive` proves the invariant (queue without
duplicates, queue and entries name the same ids, length within the bound), from
which `TypeCorrect`, `QueueAgrees` and `SizeBounded` follow; `Refinement` proves
that every step of the store is a step of `ExchangeLog` on the log
`queue |-> entries[queue]` or leaves it unchanged.

`ServerAndHub_proofs`, the server: two invariants on top of the types (`Inductive`).

- `ConnectionsInv` gives `CloseEnds` and `Reachable`. That `Close` leaves nobody
  serving an open connection is not inductive: it takes that a goroutine at work
  has its connection in the map (so that `CloseConnections` reaches it), that one
  past its work has closed it or never could read it, and that a caller who has
  begun has marked the server closed (so that `Track` starts no goroutine later).
- `RequestsInv` gives `TruthfullyReported` and `EventsRecorded`. It says, for each
  place of a goroutine, what has been reported so far; where a goroutine begins it
  needs `ConnectionsInv`, which says that it begins once.

`Pipeline_proofs`: for any limit of exchanges and reconnections, any offers and any
gateway. `Inductive` adds to the types that nothing has been dialled before
`Connect`; that at an exchange the connection's number is one more than the
reconnections made, and the context and every token in hand belong to it or are the
browser's, in the header it sent it in and before any challenge for that header
(`Exchanging`, `Handshake`, `Bound`), from which `TokensBound` follows; and that the gateway has run a
request with effects once at most, not at all while its head is still to be sent
(`EffectsCounted`), which is the reason that a restart is refused for it
(`EffectsOnce`). Every way an authentication step can end - the next attempt,
a restart, a return with everything released - is one formula, `Resumed`, so that
each action is proved to lead to it and the invariant is proved from it once.
`AllReleased` says that the handler returns with nothing held.

`ServerAndHub_proofs`, the hub: a channel holds increasing numbers not above what has been sent
(`InOrder`), and exactly the next ones unless it overflowed (`Complete`). A
message is counted when its call begins and numbered when it is served, so that
numbers stay within their type takes that those served and the calls in
progress are never more than were counted (`Counted`). `HubCorrect` and
`OrderKept` follow from `HubInductive`.

`CaptureStorage_proofs`: records do not interleave because a half-written record
is at the end of the current file only while its recorder is between the two
writes and nobody else is (`WriterHolds`, `OpenEnd`), and because switching opens
a file that no recorder is inside of (`Switching`). `SinkCorrect` follows from
`Inductive`, with failed writes and crashes. On top of it, `Contents` says that the
pieces of an intact file come in pairs, except for one payload whose recorder is
between its writes, and that its checked records are exactly those accepted for
it; that takes that no two recorders hold the same record (`RecordsAreDistinct`).
`FilesAreWhole` (`UndamagedFilesAreWhole`) follows.

`Interceptor_proofs`: the interceptor uses the store through `Store`, so the proofs of
`RequestStore` are taken over by an instance of their module (`StoreProofs`) and every
interceptor step is shown to make a store step or none. `ExchangeInv` says, for
each place a tunnel can be at (`TunnelInv`), what store, file and events have of its
exchange so far. The switches change at every step and an entry may be evicted or
cleared between its parts; `viewLost` and `storageLost` remember the exchanges whose
switches changed and those cleared. Eviction is followed by ages (`Ages`): no
more entries are behind an exchange in the queue than the store has taken in since its
request, so one that is evicted is no longer `Recent`; a late part that brings its
entry back is taken in anew. This holds for any size of the store, with other exchanges
and plain requests going into it. Completeness is not
inductive for the others: it takes that the switch
has been on since the request was read (`SwitchesSeen`), which of the parts are
there at each place (`Viewed`, `Filed`), and that nothing is there of an exchange
still to come (`NothingYet`), so that no part is recorded twice. That the records tell the truth
about bodies takes what has been captured but not yet recorded (`ToRecord`).
`SteadyComplete` and `BodiesTold` follow.

`Composer_proofs`: any names, first files, edits, failures and number of calls
in flight, each served, in whole or half, and answered at any time. `ComposerInv` has
two parts. `PageInv` is about the page alone and holds always: types, what calls there
can be, the counters, `busy` and the list. `Agreement` holds until a file is named
before the list has come (`blind`), and till then the list has replaced nothing
(`cut = {}`). It says what the agreement of the page with the folder rests on:

- a create, rename or delete is alone of its kind, `busy` says so, and until its
  answer no other file has the name it takes (`NamingInv`, `Relies`) - from this
  `OneOperation` (`OneNameOperation`);
- the text of a file with no call in flight lies under its own name and nowhere
  else; with one call in flight, where that call, being sent, checked or served, has
  left it (`Placed`); excepted are files of which two calls overlapped or an answer was
  lost (`doubtful`) and those that a late write of such a one was served upon
  (`overwritten`), together `AtRisk`. Only a doubtful file's write can meet another
  file's text: the call of any other is alone, and its name its own. From this
  `MirrorsTheList` (`DiskMirrorsTheList`);
- what the screen shows of a file is scheduled to be saved, in a call on its way, or
  in the folder (`Saved`) - from this `SettledSaved` (`SettledFilesAreSaved`);
- while the collection is read for the first time the folder has not changed since, or
  only by the migration (`ReadingInv`).

A step concerns one file, and the frame lemmas (`Undisturbed`, `EditorKeeps`, `CallKeeps`,
`ServeKeeps`, `AnswerKeeps`) carry the invariant over for all others, so that an
action's proof is about its own file. `OneOperation` and `TypeCorrect` follow from
`PageInv`, so they have no exceptions; `TypeCorrect` gives `TypeOK`, by which a draft
is never written over a file it was not typed in.

`ConfigFile_proofs`: any first files, any number of saves, restarts and cut writes.

- `ConfigTypes` and `PolicyEffective` hold for every text, damaged ones included, cut
  at or within a line, whatever mode it names. `TypeInv` adds to the types that what is
  in force is a configuration with normalized policies, which `Load` makes of any text:
  an absent mode follows the legacy flag, an unknown one stays, admits nobody and
  listens on this machine only.
- `SettingsSurvive`, `RestSurvives` and `ResetsFollowDamage` are proved, with cuts and
  failed reads, for first files in the layout that the edits are made for (`TextsAreTidy`: every text is
  `Tidy`). The hypothesis is needed: with list items at the indentation of their key
  the first property is violated (`config_compact_lists`). It is met: the file of
  defaults is tidy (`DefaultIsTidy`), and so are the files of `config_file`, which TLC
  confirms as an assumption of `MCConfigFile`; another one says that files with
  compact lists, wide indentation or an unfinished last line are not.

`SaveInv` says that the file, or what is being written, holds the settings as typed
(`Holds`): it is tidy, loads as what is wanted and has the rest of the file it was
made from. That an edit turns a file that holds the old settings into one that
holds the new ones is `EditIsApplied`, for any file and any of the five edits.
Removing a block and adding one are both a splice of lines (`Spliced`), which
leaves every other line in place and in order (`SplicedLines`). From this follows
which line belongs to which after a splice (`ParentsSpliced`): a line that stays
keeps the one it belongs to, because the block that goes, or comes, is deeper than
what follows it. Hence a splice keeps the file tidy (`TidySpliced`), changes only
the fields of the keys it is about (`ReadSpliced`) and keeps the rest
(`RestSpliced`); `WithoutIs`, `AddIs` and `SetScalarIs` show what the edits are,
and further lemmas that what is rendered is read back as what was typed. The
functions involved are not recursive: a section's end, a parent or a field is the
least or greatest line with some property (`Least`, `Greatest`), which exists
because finite sets of numbers are well founded.

Only model-checked: all liveness, the completion of honest exchanges of `Pipeline`
included. Liveness rests on fairness and `ENABLED`, which are out of the prover's
reach.

## 5. Not modelled

TLS, the network stack, `net/http`, the YAML library, the operating system's certificate and
authentication libraries are external. Field encodings of capture records, JSON,
HTML and logging are left out, as are:

- the certificate store: files and cryptography; `GetCertificate` looks under a read
  lock and then holds the lock over look-up and creation, so nothing interleaves;
- the update checker: one cached value, its mutex held over the call;
- the operating system's certificate installers, the desktop window, flag parsing;
- the grammars of HTTP and of `.http` files: text processing without state, covered
  by the repository's table tests;
- the page's rendering and event binding, requests within a composer file and
  the response pane;
- build tools, embedded assets and logging.

**Observed while reading.** What the conditions of section 3 leave out, and what
no property is about:

- A handler writes its store again after the supervisor has (`webui/ui_server.go:940`);
  a request applied in between is undone in memory and stays in `config.yaml`,
  although `ARCHITECTURE.md:178-181` says that one goroutine applies all changes.
- Every `Persist` writes with `os.WriteFile`, which truncates first
  (`configuration/config_persistence.go:142`, `:198`, `:254`, `:334`, `:398`): a failed
  write may leave part of the file. After a failed persist of the storage the capture
  file stays switched (`runtime_supervisor.go:73-85`), although the request is answered
  with an error, and the next start goes back.
- A start that cannot read an existing `config.yaml` writes the defaults over it
  (`configuration/config_persistence.go:26-29`, `:41-58`).
- Comments and blank lines between the block of a replaced setting and the next line are
  deleted with it (`skipYamlBlock`, `configuration/config_persistence.go:278-290`).
- A network typed in the IPv4-in-IPv6 form is accepted and admits nobody, for clients
  are judged by their unmapped address (`configuration/access_control.go:137-145`).
- When both listener opens of an access control change fail the controller still
  says running (`runtime_supervisor.go:200`, against `storage/proxy_control.go:5-7`).
- `Publish` on a closed hub returns with the mutex held (`webui/ui_server.go:150`):
  every later publisher blocks, against `ARCHITECTURE.md:207-210`.
- An exchange can leave the live view before its response, however the view was set,
  once 500 others were begun (`storage/request_store.go:101-110`); the response then
  comes back as an entry without a request.
- The reader of capture files refuses a field above 256 MiB
  (`storage/capture_session_reader.go:210`, `:254`), the writer does not: a capture limit
  above that makes files that cannot be read to their end. `CaptureStorage` has records
  within it only.
- Storage switched off and on within one second truncates the first file
  (`main.go:230`, against `storage/storage_sink.go:5-7`).
- A request body that nobody looked at when it passed, but that is recorded
  because recording was switched on meanwhile, is recorded as empty and not as
  omitted (`https_interceptor.go:356`, against `ARCHITECTURE.md:640-643`).
- Only the head of a request with a body goes to an authenticating gateway until the
  final response; one that waits for the body never gets it, and no deadline
  ends the wait (`forward_proxy_server_with_authentication_windows.go:119`). The
  copy of a challenge nobody can answer ends with the gateway's connection only.
- The browser's `Proxy-Authorization`, its NTLM token among them, is passed on to the
  gateway: the authentication of browsers leaves it in the request
  (`authentication_server_windows.go:131`), and `upstreamAuthRequest` removes only
  `Connection` and `Proxy-Connection` (`upstream_auth_connection.go:45-63`). With both
  authentications a gateway that behaves takes it for the first message of a handshake
  and answers with a Type 2; the handler's first step for that is complete
  (`security/auth_client_windows.go:61-80`), and the next 407 goes to the browser.
- The copies of a relay have no deadline (`tunnel_server.go:32-33`,
  `forward_proxy_server.go:50-51`): a write to an end that does not read lasts as long as
  that does, and only the browser's copy is waited for, so that a handler whose other
  end has gone stays until its browser sends or leaves.
- The deferred release of the browser's security context is given nil
  (`authentication_server_windows.go:32`); a body that follows a request answered 407 is
  read as the next request line (`:51`).
- `add_windows_authentication` without an upstream dials an empty host and
  answers 502; `app_windows.go:18-42` reads flags before `flag.Parse`; the comment at
  `upstream_settings.go:30-31` is out of date.
- Two saves of a file may be served out of order, and a save under the old name
  while the file is renamed or deleted brings that name back (`composer.go:1130`), with
  the old text, over whatever file has taken the name since (`webui/http_files.go:105`).
  The page offers to create a file before the list has arrived, and also when it could
  not be read (`files.go:144-157`): the name is compared with no others, a file of that
  name is overwritten (`files.go:189`), and the list, when it comes, takes the place of
  the file just created. The browser's copy of the collection is removed even if
  files of it could not be written (`store.go:124`). `Send` clears its state before the
  exchange has been shown (`composer.go:855-856`).
- `webui/wwwroot/openapi.yaml` (line 234) says of settings that take effect at once that
  they take effect at the next start; `ARCHITECTURE.md` says a damaged record leaves
  the rest of a file readable, while counting and paging stop at the first one;
  request numbers shown in the UI come from one counter per proxy server, one for
  the composer and one for the interceptor, so they repeat.

## 6. What could come next

1. Modules for the certificate store with its files and the interplay of memory
   and disk, for the credential handles on the browser's side of the authentication, and
   for the composer's sender and response pane.
2. Proofs about `SettingsPolicy` beyond `PolicyEffective`: that normalizing is
   idempotent and that the limit of a content type is that of the first rule matching it.
3. The reading of bodies (`chunked`, lengths, the names that `httpFileName` accepts) as
   functions, checked against reference definitions over short inputs.
