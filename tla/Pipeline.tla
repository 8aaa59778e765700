-------------------------------- MODULE Pipeline --------------------------------
(***************************************************************************)
(* One request on its way through the middlewares of proxy/middlewares:      *)
(* the browser is authenticated, no_proxy chooses the route, and the tunnel,  *)
(* the forwarder or the forwarder with Windows authentication connects and    *)
(* relays.  The handler is one goroutine; the browser, the gateway and the    *)
(* security package decide what it meets.                                    *)
(*                                                                         *)
(* A connection to the gateway is known by its number, the browser's is 0.  A *)
(* token remembers the connection its context began on, and whether it is the *)
(* context's first.  The gateway's challenges are those of the connection they *)
(* arrive on.                                                               *)
(***************************************************************************)
EXTENDS Integers, Sequences

CONSTANTS
  Requests,         \* the requests a browser sends
  Setups,           \* how the pipeline was built, and whether no_proxy lists the host
  Offers,           \* what the authenticate headers of a challenge offer
  MaxExchanges,     \* 8 in the code
  MaxReconnections, \* 2 in the code
  MaxClosings       \* bound: connections a well-behaved gateway closes

Packages == {"Kerberos", "NTLM", "Negotiate"}
Methods  == {"GET", "HEAD", "OPTIONS", "CONNECT", "POST"}

ASSUME PipelineAssumption ==
  /\ Requests \subseteq [method : Methods, chunked : BOOLEAN, length : {"none", "zero", "some"}]
  /\ Setups \subseteq [requireAuth : BOOLEAN, outputProxy : BOOLEAN, addAuth : BOOLEAN,
                       treat401 : BOOLEAN, noProxy : BOOLEAN]
  /\ Offers \subseteq Seq([package : Packages \cup {"other"}, token : {"none", "bad", "server"}])
  /\ MaxExchanges \in Nat \ {0}
  /\ MaxReconnections \in Nat
  /\ MaxClosings \in Nat

VARIABLES
  setup, request,
  carried,      \* the Proxy-Authorization in the browser's request, or NoToken
  local,        \* does the application itself send the request (LocalConn)?
  honest,       \* do the browser, the gateway and the security package behave?
  patient,      \* does the gateway wait for a body before its final answer?
  pc,           \* where the handler is
  challenged,   \* has the browser been answered 407?
  serverAuth,   \* the package of the context that validates the browser, or "none"
  browserGone,  \* has the browser closed its connection?
  conn,         \* connections opened to the gateway or the origin; the last one is in use
  open,         \* is the last one open on this side?
  context,      \* the security context towards the gateway, or NoContext
  auth,         \* the authentication's local variables
  token,        \* the token in each authorization header of the request to the gateway
  writing,      \* is the copy of what the browser sends in a write?
  reads,        \* does the other end read what is written?
  gatewayDone,  \* has the other end closed its connection while relaying?
  live,         \* history: contexts acquired and not released
  runs,         \* history: heads the gateway may have acted upon
  status,       \* history: the status of the response forwarded, 0 before
  closings      \* history: connections the well-behaved gateway closed

vars == <<setup, request, carried, local, honest, patient, pc, challenged, serverAuth, browserGone,
          conn, open, context, auth, token, writing, reads, gatewayDone, live, runs, status, closings>>

caller == <<setup, request, local, honest, patient>>
front  == <<carried, challenged, serverAuth>>
copies == <<writing, reads, gatewayDone>>
history == <<live, runs, status, closings>>

NoContext == [conn |-> 0, package |-> "none", fresh |-> TRUE]
NoToken   == [conn |-> 0, package |-> "none", first |-> FALSE]
Headers   == {"Proxy-Authorization", "Authorization"}
Idle      == [package |-> "none", header |-> "none", complete |-> FALSE, attempt |-> 1, reconnections |-> 0]

-----------------------------------------------------------------------------
(* What the code decides about a setup, a request and a response *)

(* Which middleware connects: no_proxy chooses only where an upstream is set. *)
Route(s) ==
  IF s.outputProxy /\ s.noProxy THEN "tunnel"
  ELSE IF s.addAuth THEN "authenticate"
  ELSE IF s.outputProxy THEN "forward"
  ELSE "tunnel"

HasBody(r) == r.chunked \/ r.length = "some"

(* Mutant: the methods are not looked at.                                    *)
CanRestartAnything(r) == ~r.chunked /\ r.length # "some"

CanRestartAfterEOF(r) ==
  ~r.chunked /\ r.length # "some" /\ r.method \in {"GET", "HEAD", "OPTIONS", "CONNECT"}

(* How a response is framed: what its Connection headers say, its version,    *)
(* its Content-Length headers and whether it is chunked.  A head cut off by   *)
(* the end of the connection is read as a head without headers.              *)
Frame(connection, old, lengths, chunked) ==
  [connection |-> connection, old |-> old, lengths |-> lengths, chunked |-> chunked]
Frames ==
  { Frame("none", FALSE, "one", FALSE), Frame("close", FALSE, "one", FALSE),
    Frame("none", TRUE, "one", FALSE), Frame("keep-alive", TRUE, "one", FALSE),
    Frame("none", FALSE, "none", FALSE), Frame("none", FALSE, "none", TRUE),
    Frame("none", FALSE, "invalid", FALSE) }
Cut == Frame("none", FALSE, "none", FALSE)

Heads ==
  [status : {200}, offers : {<<>>}, frame : {Cut}]
    \cup [status : {401, 407}, offers : Offers, frame : Frames]
    \cup [status : {401, 407}, offers : {<<>>}, frame : {Cut}]

(* Mutant: a challenge without length is taken for one that keeps its connection.*)
ClosesWhenSaid(head, method) ==
  \/ head.frame.connection = "close"
  \/ head.frame.old /\ head.frame.connection # "keep-alive"

ClosesConnection(head, method) ==
  \/ head.frame.connection = "close"
  \/ head.frame.old /\ head.frame.connection # "keep-alive"
  \/ method # "HEAD" /\ head.frame.lengths = "none" /\ ~head.frame.chunked

Drains(head, method) == method = "HEAD" \/ head.frame.chunked \/ head.frame.lengths = "one"

ChallengeOf(head) ==
  IF head.status = 407 THEN "Proxy-Authorization"
  ELSE IF head.status = 401 /\ setup.treat401 THEN "Authorization"
  ELSE "none"

(* The offers taken, one replacing the other: the first that fits, then those of *)
(* NTLM.  The package in use stays.                                          *)
Taken(active, offers) ==
  LET Fits(i) == offers[i].package \in Packages /\ active \in {"none", offers[i].package}
  IN {i \in DOMAIN offers :
        Fits(i) /\ (offers[i].package = "NTLM" \/ \A j \in DOMAIN offers : Fits(j) => i <= j)}

(* The last one taken, if any; one whose token cannot be decoded ends the choice.*)
Selected(active, offers) ==
  LET taken == Taken(active, offers)
      bad   == {i \in taken : offers[i].token = "bad"}
  IN {offers[i] : i \in {i \in taken :
        /\ \A j \in bad : i <= j
        /\ i \in bad \/ \A j \in taken : j <= i}}

(* The security package: is the handshake complete after this step?          *)
Completions(ctx, given) ==
  CASE ctx.package = "NTLM" -> {given}
    [] ctx.package = "Negotiate" -> IF ctx.fresh THEN {FALSE} ELSE BOOLEAN
    [] ctx.package = "Kerberos" -> BOOLEAN

-----------------------------------------------------------------------------
Init ==
  /\ setup \in Setups
  /\ request \in Requests
  /\ carried = NoToken
  /\ local \in (IF setup.requireAuth THEN BOOLEAN ELSE {FALSE}) \* of no consequence otherwise
  /\ honest \in BOOLEAN
  /\ patient \in (IF HasBody(request) THEN BOOLEAN ELSE {FALSE})
  /\ pc = IF setup.requireAuth /\ ~local THEN "check" ELSE "connect"
  /\ challenged = FALSE
  /\ serverAuth = "none"
  /\ browserGone = FALSE
  /\ conn = 0
  /\ open = FALSE
  /\ context = NoContext
  /\ auth = Idle
  /\ token = [h \in Headers |-> NoToken]
  /\ writing = FALSE
  /\ reads = TRUE
  /\ gatewayDone = FALSE
  /\ live = 0
  /\ runs = 0
  /\ status = 0
  /\ closings = 0

-----------------------------------------------------------------------------
(* The browser is authenticated (authentication_server_windows.go) *)

(* The token of a request that was authenticated.  NTLM takes the browser's     *)
(* first one for the whole proof; what a gateway makes of the others does not    *)
(* depend on it.                                                             *)
FromBrowser(package) == [conn |-> 0, package |-> package, first |-> TRUE]

(* The authorization its request carries; a well-behaved browser answers a     *)
(* challenge with a token.                                                   *)
Authorizations ==
  IF honest THEN {"NTLM"} \cup (IF challenged THEN {} ELSE {"none"})
  ELSE Packages \cup {"none", "unreadable"}

Challenge407 == challenged' = TRUE /\ pc' = "repeat" /\ UNCHANGED carried

CheckBrowser ==
  /\ pc = "check"
  /\ \E given \in Authorizations :
       \/ given = "none" /\ Challenge407 /\ UNCHANGED serverAuth
       \/ given = "unreadable" /\ pc' = "ended" /\ UNCHANGED front
       \/ /\ given \in Packages
          /\ serverAuth \notin {"none", given}
          /\ pc' = "ended" /\ UNCHANGED front
       \/ /\ given \in Packages
          /\ serverAuth \in {"none", given}
          /\ \/ /\ serverAuth' = given
                /\ pc' = "connect"
                /\ carried' = FromBrowser(given)
                /\ UNCHANGED challenged
             \/ given # "NTLM" /\ serverAuth' = given /\ Challenge407
             \/ /\ ~honest
                /\ serverAuth' \in {serverAuth, given}
                /\ pc' = "ended"
                /\ UNCHANGED <<carried, challenged>>
  /\ UNCHANGED <<caller, browserGone, conn, open, context, auth, token, copies, history>>

(* The next request is read where the last one ended: a body left there is     *)
(* read as a request line, which it is not.                                  *)
RepeatRequest ==
  /\ pc = "repeat"
  /\ pc' = IF HasBody(request) \/ browserGone THEN "ended" ELSE "check"
  /\ UNCHANGED <<caller, front, browserGone, conn, open, context, auth, token, copies, history>>

-----------------------------------------------------------------------------
(* Connecting, and what happens when the handler returns *)

(* Mutant: a restart forgets to release the context it replaces.             *)
ReturnWithoutRelease == pc' = "ended" /\ open' = FALSE /\ context' = NoContext /\ live' = live

(* The deferred calls of the handler: close the connection, release the context. *)
Return ==
  /\ pc' = "ended"
  /\ open' = FALSE
  /\ context' = NoContext
  /\ live' = IF context = NoContext THEN live ELSE live - 1

Dial ==
  /\ conn' = conn + 1
  /\ open' = TRUE

(* upstreamAuthRequest: the browser's request for the gateway.  Its connection   *)
(* headers are replaced, its Proxy-Authorization is passed on.                *)
UpstreamAuthRequest ==
  [h \in Headers |-> IF h = "Proxy-Authorization" THEN carried ELSE NoToken]

(* Without a connection the browser is answered 502.                         *)
Connect ==
  /\ pc = "connect"
  /\ \/ /\ Dial
        /\ IF Route(setup) = "authenticate"
           THEN pc' = "send" /\ token' = UpstreamAuthRequest
           ELSE pc' = "begin" /\ UNCHANGED token
        /\ UNCHANGED <<context, live>>
     \/ /\ ~honest
        /\ Return
        /\ UNCHANGED <<conn, token>>
  /\ UNCHANGED <<caller, front, browserGone, auth, copies, runs, status, closings>>

(* The tunnel answers CONNECT itself and sends any other request on; the       *)
(* forwarder sends every request to the gateway, and stops when it cannot.     *)
BeginRelay ==
  /\ pc = "begin"
  /\ \/ pc' = "relay" /\ UNCHANGED <<open, context, live>>
     \/ ~honest /\ Route(setup) = "forward" /\ Return
  /\ UNCHANGED <<caller, front, browserGone, conn, auth, token, copies, runs, status, closings>>

-----------------------------------------------------------------------------
(* Authentication towards the gateway
   (forward_proxy_server_with_authentication_windows.go) *)

(* Mutant: an attempt is counted where the loop goes on and where it begins. *)
DoubleCount(attempt) == attempt + 2

(* Mutant: the exchanges are not counted.                                    *)
SameAttempt(attempt) == attempt

NextAttempt(attempt) == attempt + 1

(* The next attempt sends a request with these tokens, if there is one left;    *)
(* `held` counts the contexts held by then.                                  *)
SendWith(next, tokens, ctx, held) ==
  /\ token' = tokens
  /\ auth' = [next EXCEPT !.attempt = NextAttempt(auth.attempt)]
  /\ IF auth.attempt >= MaxExchanges
     THEN pc' = "ended" /\ open' = FALSE /\ context' = NoContext /\ live' = held - 1
     ELSE pc' = "send" /\ open' = TRUE /\ context' = ctx /\ live' = held

(* A step of the context: its token replaces what the request had in the header *)
(* the challenge asks for.  `next` is what the handler has noted of the          *)
(* challenge.                                                                *)
TokenOf(ctx, next) == [conn |-> ctx.conn, package |-> next.package, first |-> ctx.fresh]
UpdateContext(ctx, given, next, tokens, held) ==
  \/ \E done \in Completions(ctx, given) :
       SendWith([next EXCEPT !.complete = done], [tokens EXCEPT ![next.header] = TokenOf(ctx, next)],
                [ctx EXCEPT !.fresh = FALSE], held)
  \/ /\ ~honest
     /\ pc' = "ended" /\ open' = FALSE /\ context' = NoContext /\ live' = held - 1
     /\ UNCHANGED <<auth, token>>

(* Mutant: restartAuth keeps the context of the old connection.              *)
ContextOfThePast(number, package) ==
  [conn |-> IF context = NoContext THEN number ELSE context.conn, package |-> package, fresh |-> TRUE]

NewContext(number, package) == [conn |-> number, package |-> package, fresh |-> TRUE]

(* restartAuth: the old connection and context are given up; a new connection,   *)
(* the browser's request again, a new context, and its first token.            *)
Restart(next) ==
  IF auth.reconnections >= MaxReconnections
  THEN Return /\ UNCHANGED <<auth, token, conn>>
  ELSE \/ /\ conn' = conn + 1
          /\ UpdateContext(NewContext(conn + 1, next.package), FALSE,
                           [next EXCEPT !.reconnections = @ + 1], UpstreamAuthRequest,
                           1 + (IF context = NoContext THEN live ELSE live - 1))
       \/ /\ ~honest
          /\ Return
          /\ conn' \in {conn, conn + 1}
          /\ UNCHANGED <<auth, token>>

SendHead ==
  /\ pc = "send"
  /\ pc' = "await"
  /\ runs' = runs + 1
  /\ UNCHANGED <<caller, front, browserGone, conn, open, context, auth, token, copies,
                 live, status, closings>>

(* What a gateway reads first in the head it is sent.                          *)
Proof == token["Proxy-Authorization"]

(* The connection breaks while the head is written or its answer awaited.  Only *)
(* an end of file is an EOF; any other failure of the read is an error.        *)
MayRestart == auth.package # "none" /\ ~auth.complete /\ CanRestartAfterEOF(request)

ConnectionBreaks ==
  /\ pc \in {"send", "await"}
  /\ IF honest
     THEN pc = "await" /\ Proof.first /\ CanRestartAfterEOF(request) /\ closings < MaxClosings
     ELSE TRUE
  /\ closings' = IF honest THEN closings + 1 ELSE closings
  /\ runs' = IF pc = "send" THEN runs + 1 ELSE runs
  /\ \/ MayRestart /\ Restart(auth)
     \/ (~MayRestart \/ (pc = "await" /\ ~honest)) /\ Return /\ UNCHANGED <<auth, token, conn>>
  /\ UNCHANGED <<caller, front, browserGone, copies, status>>

(* What a well-behaved NTLM gateway answers to the head it was sent.            *)
HonestFrames ==
  IF closings < MaxClosings THEN Frames \ {Frame("none", FALSE, "invalid", FALSE)}
  ELSE {Frame("none", FALSE, "one", FALSE)}
HonestChallenges(given) ==
  [status : {407}, offers : {<<[package |-> "NTLM", token |-> given]>>}, frame : HonestFrames]
HonestHeads ==
  IF Proof = NoToken THEN HonestChallenges("none")
  ELSE IF Proof.first THEN HonestChallenges("server")
  ELSE IF Proof.conn = conn THEN [status : {200}, offers : {<<>>}, frame : {Cut}]
  ELSE HonestChallenges("none")

Answers ==
  { head \in (IF honest THEN HonestHeads ELSE Heads) : ~(patient /\ HasBody(request) /\ head.status = 200) }

(* The head goes to the browser.  Then the connections are joined, or, after a  *)
(* challenge nobody can answer, the rest of the response is copied.            *)
Forward(head, then) ==
  /\ status' = head.status
  /\ \/ pc' = then /\ UNCHANGED <<open, context, live>>
     \/ browserGone /\ Return
  /\ UNCHANGED <<auth, token, conn, runs>>

(* The context for the selected package is created on the first challenge.     *)
Answer(selected, next) ==
  LET given == selected.token = "server" IN
  /\ UNCHANGED conn
  /\ IF context # NoContext THEN UpdateContext(context, given, next, token, live)
     ELSE \/ UpdateContext(NewContext(conn, selected.package), given, next, token, live + 1)
          \/ ~honest /\ Return /\ UNCHANGED <<auth, token>>

MeetChallenge(head, challenge, selected) ==
  LET next == [auth EXCEPT !.package = selected.package, !.header = challenge]
  IN /\ runs' = runs - 1
     /\ UNCHANGED status
     /\ IF selected.token = "bad" THEN Return /\ UNCHANGED <<auth, token, conn>>
        ELSE IF ClosesConnection(head, request.method) THEN Restart(next)
        ELSE IF ~Drains(head, request.method) THEN Return /\ UNCHANGED <<auth, token, conn>>
        ELSE Answer(selected, next)

ReceiveHead ==
  /\ pc = "await"
  /\ \E head \in Answers :
       LET challenge == ChallengeOf(head) IN
       /\ closings' = IF honest /\ head.status = 407 /\ ClosesConnection(head, request.method)
                      THEN closings + 1 ELSE closings
       /\ IF challenge = "none" \/ auth.complete THEN Forward(head, "relay")
          ELSE IF Selected(auth.package, head.offers) = {} THEN Forward(head, "copy")
          ELSE \E selected \in Selected(auth.package, head.offers) :
                 MeetChallenge(head, challenge, selected)
  /\ UNCHANGED <<caller, front, browserGone, copies>>

-----------------------------------------------------------------------------
(* Relaying: two copies, and only the browser's is waited for.  It reads from the *)
(* browser and writes to the other end in turn; a write that the other end does   *)
(* not read is blocked, without a deadline.                                   *)

GatewayFinishes ==
  /\ pc \in {"relay", "copy"} /\ ~gatewayDone
  /\ gatewayDone' = TRUE
  /\ UNCHANGED <<caller, front, pc, browserGone, conn, open, context, auth, token, writing, reads, history>>

GatewayPauses ==
  /\ pc = "relay" /\ ~gatewayDone
  /\ reads' = ~reads
  /\ UNCHANGED <<caller, front, pc, browserGone, conn, open, context, auth, token, writing, gatewayDone, history>>

BrowserLeaves ==
  /\ pc # "ended" /\ ~browserGone
  /\ browserGone' = TRUE
  /\ UNCHANGED <<caller, front, pc, conn, open, context, auth, token, copies, history>>

(* The browser has sent something, which the copy has read.                    *)
CopyReads ==
  /\ pc = "relay" /\ ~writing /\ ~browserGone
  /\ writing' = TRUE
  /\ UNCHANGED <<caller, front, pc, browserGone, conn, open, context, auth, token, reads, gatewayDone, history>>

CopyWrites ==
  /\ pc = "relay" /\ writing
  /\ reads \/ gatewayDone \* the first write to a closed connection succeeds
  /\ writing' = FALSE
  /\ UNCHANGED <<caller, front, pc, browserGone, conn, open, context, auth, token, reads, gatewayDone, history>>

(* Mutant: the other copy is waited for.                                     *)
DownloadIsOver == gatewayDone

(* The browser's copy ends when its read finds the browser gone or its write the *)
(* other end.                                                                *)
UploadIsOver == IF writing THEN gatewayDone ELSE browserGone

RelayEnds ==
  /\ pc = "relay"
  /\ UploadIsOver
  /\ Return
  /\ UNCHANGED <<caller, front, browserGone, conn, auth, token, copies, runs, status, closings>>

(* The copy of an unanswered challenge ends with the gateway's connection, or   *)
(* when something arrives for a browser that has gone.                        *)
CopyEnds ==
  /\ pc = "copy"
  /\ gatewayDone \/ browserGone
  /\ Return
  /\ UNCHANGED <<caller, front, browserGone, conn, auth, token, copies, runs, status, closings>>

Next ==
  \/ CheckBrowser \/ RepeatRequest
  \/ Connect \/ BeginRelay
  \/ SendHead \/ ConnectionBreaks \/ ReceiveHead
  \/ GatewayFinishes \/ GatewayPauses \/ BrowserLeaves
  \/ CopyReads \/ CopyWrites \/ RelayEnds \/ CopyEnds

(* The handler's own steps go on, those of its copy among them; the gateway      *)
(* answers or breaks off; a browser that behaves repeats its request.  Nobody     *)
(* need send, read or leave while relaying.                                   *)
Spec ==
  /\ Init /\ [][Next]_vars
  /\ WF_vars(CheckBrowser)
  /\ WF_vars(RepeatRequest)
  /\ WF_vars(Connect) /\ WF_vars(BeginRelay)
  /\ WF_vars(SendHead)
  /\ WF_vars(ReceiveHead)
  /\ WF_vars(CopyWrites) /\ WF_vars(RelayEnds)

-----------------------------------------------------------------------------
(* Properties *)

Contexts == [conn : Nat, package : Packages, fresh : BOOLEAN]
Tokens == [conn : Nat, package : Packages, first : BOOLEAN]

Authentications ==
  [package : Packages \cup {"none"}, header : {"none"} \cup Headers,
   complete : BOOLEAN, attempt : 1 .. MaxExchanges + 1, reconnections : 0 .. MaxReconnections]

(* Every variable stays within what its Go counterpart can hold; connections   *)
(* and exchanges stay within the limits of HandleProxyRequest.               *)
TypeOK ==
  /\ setup \in Setups /\ request \in Requests
  /\ carried \in Tokens \cup {NoToken}
  /\ local \in BOOLEAN /\ honest \in BOOLEAN /\ patient \in BOOLEAN
  /\ pc \in {"check", "repeat", "connect", "begin", "send", "await", "relay", "copy", "ended"}
  /\ challenged \in BOOLEAN /\ serverAuth \in Packages \cup {"none"}
  /\ browserGone \in BOOLEAN /\ gatewayDone \in BOOLEAN
  /\ writing \in BOOLEAN /\ reads \in BOOLEAN
  /\ conn \in 0 .. MaxReconnections + 1 /\ open \in BOOLEAN
  /\ context \in Contexts \cup {NoContext}
  /\ token \in [Headers -> Tokens \cup {NoToken}]
  /\ auth \in Authentications
  /\ live \in Int /\ runs \in Int
  /\ status \in {0, 200, 401, 407}
  /\ closings \in 0 .. MaxClosings

(* A handshake lives on one connection: every token that the handler has made    *)
(* and sends, in either header, belongs to the context in use, which began on     *)
(* the connection it is sent on (restartAuth: "never replay a Type 3 token on a   *)
(* replacement connection").  The only other token it ever sends is the          *)
(* browser's own, which it passes on, on a replacement connection too, until it   *)
(* answers a challenge for that header.                                       *)
TokensStayOnTheirConnection ==
  pc \in {"send", "await"} =>
    \A h \in Headers : token[h] # NoToken =>
      \/ token[h] = carried /\ h = "Proxy-Authorization" /\ auth.header # h
      \/ token[h].conn = conn /\ context.conn = conn /\ context.package = token[h].package

(* Through restarts, errors and the end of the exchanges, one context at most   *)
(* is held, it is released exactly once, and no connection is left open       *)
(* (upstream_auth_flow_windows_test.go counts both).                         *)
NothingLeaks ==
  /\ live = IF context = NoContext THEN 0 ELSE 1
  /\ pc = "ended" => live = 0 /\ ~open

(* A request with side effects or a body reaches the gateway, other than to be  *)
(* challenged, at most once: what broke without an answer is not sent again    *)
(* (canRestartUpstreamAuthAfterEOF).                                         *)
SideEffectsHappenOnce == request.method = "POST" \/ HasBody(request) => runs <= 1

(* The browser's token goes to the gateway with its request.                   *)
PassesTokenOn == Route(setup) = "authenticate" /\ carried # NoToken

(* A browser, a gateway and a security package that behave get a bodiless       *)
(* request answered by the other side, however the gateway frames its          *)
(* challenges, and although it closes two connections meanwhile.  Where the      *)
(* browser's token is passed on to the gateway this is not promised: the gateway *)
(* answers that token with a challenge, the handler takes its own first token    *)
(* for the end of the handshake, and relays the next 407.                      *)
HonestExchangesComplete ==
  (honest /\ ~HasBody(request) /\ pc \in {"check", "connect"}) ~>
    \/ pc = "relay" /\ status \in {0, 200}
    \/ browserGone
    \/ PassesTokenOn

(* Whatever the gateway answers, a bodiless request is not authenticated for    *)
(* ever: it is relayed, its challenge is shown, or the handler gives up.       *)
BodilessRequestsSettle ==
  (pc = "connect" /\ ~HasBody(request)) ~> pc \in {"relay", "copy", "ended"}

(* Once the browser leaves a relay the handler returns and lets the other end go, *)
(* whatever it was copying, unless it is in a write that the other end neither    *)
(* reads nor refuses: nothing ends that one (tunnel_server.go:32-33,             *)
(* forward_proxy_server.go:50-51).                                           *)
BrowserEndsRelay ==
  (pc = "relay" /\ browserGone) ~> pc = "ended" \/ (writing /\ ~reads /\ ~gatewayDone)

=============================================================================
