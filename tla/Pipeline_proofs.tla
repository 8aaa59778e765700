---------------------------- MODULE Pipeline_proofs ----------------------------
(***************************************************************************)
(* Proofs about Pipeline, for any requests, setups and offers and any limits. *)
(*                                                                         *)
(* The inductive invariant says of each place of the handler what it holds:   *)
(* nothing before it connects; while it exchanges messages with the gateway,   *)
(* either no context and at most the browser's token, or a context of the       *)
(* connection in use and tokens of that context beside the browser's; nothing   *)
(* at the end.                                                              *)
(***************************************************************************)
EXTENDS Pipeline, TLAPS

(* A token to be sent is the browser's, or began on the connection in use, as    *)
(* did the context in use.                                                   *)
Bound(h) ==
  \/ token[h] = NoToken
  \/ token[h] = carried /\ h = "Proxy-Authorization" /\ auth.header # h
  \/ context # NoContext /\ token[h].conn = conn /\ token[h].package = context.package

Handshake ==
  /\ \A h \in Headers : Bound(h)
  /\ context # NoContext => context.conn = conn /\ context.package = auth.package

(* Before the handler connects there is nothing to release.                   *)
BeforeConnecting ==
  pc \in {"check", "repeat", "connect"} =>
    /\ ~open /\ conn = 0 /\ runs = 0
    /\ context = NoContext /\ auth = Idle

(* Each connection after the first is one of the counted reconnections.       *)
Exchanging ==
  pc \in {"send", "await"} =>
    /\ conn = 1 + auth.reconnections
    /\ auth.attempt <= MaxExchanges
    /\ auth.package # "none" => auth.header # "none"
    /\ Handshake

(* A request with effects is with the gateway exactly while an answer is awaited.*)
EffectsCounted ==
  request.method = "POST" \/ HasBody(request) =>
    /\ runs <= 1
    /\ pc \in {"begin", "send"} => runs = 0
    /\ pc = "await" => runs = 1

IndInv ==
  /\ TypeOK
  /\ BeforeConnecting
  /\ Exchanging
  /\ EffectsCounted
  /\ NothingLeaks

-----------------------------------------------------------------------------
(* What the steps of the authentication leave behind. *)

(* The handler has returned and released everything, or the next attempt has    *)
(* what it needs.                                                            *)
Resumed ==
  /\ auth' \in Authentications
  /\ token' \in [Headers -> Tokens \cup {NoToken}]
  /\ conn' \in 0 .. MaxReconnections + 1
  /\ context' \in Contexts \cup {NoContext}
  /\ live' = IF context' = NoContext THEN 0 ELSE 1
  /\ open' \in BOOLEAN
  /\ \/ pc' = "ended" /\ ~open' /\ context' = NoContext
     \/ /\ pc' = "send"
        /\ conn' = 1 + auth'.reconnections
        /\ auth'.attempt <= MaxExchanges
        /\ auth'.header # "none"
        /\ Handshake'

(* The deferred calls release what is held, once.                             *)
LEMMA ReturnReleases ==
  ASSUME IndInv, Return
  PROVE  pc' = "ended" /\ open' = FALSE /\ context' = NoContext /\ live' = 0
  BY DEF IndInv, TypeOK, NothingLeaks, Return

LEMMA ReturnTyped ==
  ASSUME IndInv, Return
  PROVE  /\ pc' \in {"ended"} /\ open' \in BOOLEAN
         /\ context' \in Contexts \cup {NoContext} /\ live' \in Int
  BY ReturnReleases

(* A handler that returns without having changed its authentication has resumed.*)
LEMMA ReturnResumes ==
  ASSUME IndInv, Return, UNCHANGED <<auth, token>>, conn' \in 0 .. MaxReconnections + 1
  PROVE  Resumed
  BY ReturnReleases DEF IndInv, TypeOK, Resumed

(* A step of a context that is the only one held by then.                      *)
LEMMA UpdateResumes ==
  ASSUME IndInv, pc \in {"send", "await"},
         NEW ctx \in Contexts, NEW given \in BOOLEAN, NEW next \in Authentications,
         next.attempt = auth.attempt, next.package = ctx.package,
         next.header # "none", UNCHANGED carried,
         ctx.conn = conn', conn' = 1 + next.reconnections,
         NEW tokens \in [Headers -> Tokens \cup {NoToken}],
         \A h \in Headers : \/ tokens[h] = NoToken \/ h = next.header
                            \/ tokens[h] = carried /\ h = "Proxy-Authorization"
                            \/ tokens[h].conn = conn' /\ tokens[h].package = ctx.package,
         UpdateContext(ctx, given, next, tokens, 1)
  PROVE  Resumed
<1>1. conn' \in 0 .. MaxReconnections + 1
  BY PipelineAssumption DEF Authentications
<1>2. CASE \E done \in Completions(ctx, given) :
             SendWith([next EXCEPT !.complete = done], [tokens EXCEPT ![next.header] = TokenOf(ctx, next)],
                      [ctx EXCEPT !.fresh = FALSE], 1)
  <2> PICK done \in Completions(ctx, given) :
             SendWith([next EXCEPT !.complete = done], [tokens EXCEPT ![next.header] = TokenOf(ctx, next)],
                      [ctx EXCEPT !.fresh = FALSE], 1)
    BY <1>2
  <2> DEFINE newToken == TokenOf(ctx, next)
             newTokens == [tokens EXCEPT ![next.header] = newToken]
             newAuth == [[next EXCEPT !.complete = done] EXCEPT !.attempt = auth.attempt + 1]
             newContext == [ctx EXCEPT !.fresh = FALSE]
  <2>1. done \in BOOLEAN
    BY DEF Completions, Contexts, Packages
  <2>2. newToken \in Tokens /\ newToken.conn = conn' /\ newToken.package = ctx.package
    BY DEF Tokens, TokenOf, Contexts, Authentications, Packages
  <2>a. next.header \in Headers
    BY DEF Authentications
  <2>b. /\ newTokens \in [Headers -> Tokens \cup {NoToken}]
        /\ newTokens[next.header] = newToken
        /\ \A h \in Headers : h # next.header => newTokens[h] = tokens[h]
    BY <2>2, <2>a
  <2>3. newContext \in Contexts /\ newContext # NoContext
    BY DEF Contexts, NoContext
  <2>4. newContext.conn = conn' /\ newContext.package = next.package
    BY DEF Contexts
  <2>5. auth.attempt \in 1 .. MaxExchanges
    BY PipelineAssumption DEF IndInv, TypeOK, Exchanging, Authentications
  <2>6. newAuth \in Authentications
    <3>1. auth.attempt + 1 \in 1 .. MaxExchanges + 1
      BY <2>5, PipelineAssumption
    <3>2. [next EXCEPT !.complete = done] \in Authentications
      BY <2>1 DEF Authentications
    <3>3. QED
      BY <3>1, <3>2 DEF Authentications
  <2>7. /\ newAuth.attempt = auth.attempt + 1 /\ newAuth.package = next.package
        /\ newAuth.reconnections = next.reconnections /\ newAuth.header = next.header
    BY DEF Authentications
  <2>8. auth' = newAuth /\ token' = newTokens
    BY DEF SendWith, NextAttempt
  <2> HIDE DEF newToken, newTokens, newAuth, newContext
  <2>9. CASE auth.attempt >= MaxExchanges
    <3>1. pc' = "ended" /\ open' = FALSE /\ context' = NoContext /\ live' = 0
      BY <2>9 DEF SendWith
    <3>2. QED
      BY <1>1, <2>b, <2>6, <2>8, <3>1 DEF Resumed
  <2>10. CASE ~(auth.attempt >= MaxExchanges)
    <3>1. pc' = "send" /\ open' = TRUE /\ context' = newContext /\ live' = 1
      BY <2>10 DEF SendWith, newContext
    <3>2. /\ auth'.attempt <= MaxExchanges /\ conn' = 1 + auth'.reconnections
          /\ auth'.header # "none"
      BY <2>5, <2>7, <2>8, <2>10, PipelineAssumption
    <3>3. ASSUME NEW h \in Headers PROVE Bound(h)'
      <4>1. CASE h = next.header
        BY <2>2, <2>3, <2>4, <2>b, <2>8, <3>1, <4>1 DEF Bound
      <4>2. CASE h # next.header
        <5>1. token'[h] = tokens[h] /\ auth'.header = next.header
          BY <2>b, <2>7, <2>8, <4>2
        <5>2. QED
          BY <2>3, <2>4, <3>1, <4>2, <5>1 DEF Bound
      <4>3. QED
        BY <4>1, <4>2
    <3>4. Handshake'
      BY <2>3, <2>4, <2>7, <2>8, <3>1, <3>3 DEF Handshake
    <3>5. QED
      BY <1>1, <2>b, <2>3, <2>6, <2>8, <3>1, <3>2, <3>4 DEF Resumed
  <2>11. QED
    BY <2>9, <2>10
<1>3. CASE /\ pc' = "ended" /\ open' = FALSE /\ context' = NoContext /\ live' = 1 - 1
           /\ UNCHANGED <<auth, token>>
  <2>1. auth' \in Authentications /\ token' \in [Headers -> Tokens \cup {NoToken}]
    BY <1>3 DEF IndInv, TypeOK
  <2>2. pc' = "ended" /\ open' = FALSE /\ context' = NoContext /\ live' = 0
    BY <1>3
  <2>3. QED
    BY <1>1, <2>1, <2>2 DEF Resumed
<1>4. QED
  BY <1>2, <1>3 DEF UpdateContext

(* What the browser's request brings along.                                   *)
LEMMA RequestCarries ==
  ASSUME IndInv
  PROVE  /\ UpstreamAuthRequest \in [Headers -> Tokens \cup {NoToken}]
         /\ \A h \in Headers : \/ UpstreamAuthRequest[h] = NoToken
                               \/ UpstreamAuthRequest[h] = carried /\ h = "Proxy-Authorization"
  BY DEF IndInv, TypeOK, UpstreamAuthRequest

(* A restart gives up the connection and the context and counts the new one.    *)
LEMMA RestartResumes ==
  ASSUME IndInv, pc \in {"send", "await"},
         NEW next \in Authentications,
         next.attempt = auth.attempt, next.reconnections = auth.reconnections,
         next.package # "none", next.header # "none", UNCHANGED carried,
         Restart(next)
  PROVE  Resumed
<1>1. /\ auth \in Authentications /\ conn = 1 + auth.reconnections
      /\ auth.reconnections \in 0 .. MaxReconnections
      /\ conn \in 0 .. MaxReconnections + 1
  BY DEF IndInv, TypeOK, Exchanging, Authentications
<1>2. CASE auth.reconnections >= MaxReconnections
  <2>1. Return /\ UNCHANGED <<auth, token, conn>>
    BY <1>2 DEF Restart
  <2>2. QED
    BY <1>1, <2>1, ReturnResumes
<1>3. CASE ~(auth.reconnections >= MaxReconnections)
  <2> DEFINE counted == [next EXCEPT !.reconnections = @ + 1]
             ctx == NewContext(conn + 1, next.package)
             held == 1 + (IF context = NoContext THEN live ELSE live - 1)
  <2>1. \/ conn' = conn + 1 /\ UpdateContext(ctx, FALSE, counted, UpstreamAuthRequest, held)
        \/ Return /\ conn' \in {conn, conn + 1} /\ UNCHANGED <<auth, token>>
    BY <1>3 DEF Restart
  <2>2. held = 1
    BY DEF IndInv, NothingLeaks
  <2>3. CASE conn' = conn + 1 /\ UpdateContext(ctx, FALSE, counted, UpstreamAuthRequest, held)
    <3>1. next.reconnections + 1 \in 0 .. MaxReconnections
      BY <1>1, <1>3, PipelineAssumption
    <3>2. counted \in Authentications
      BY <3>1 DEF Authentications
    <3>3. /\ counted.attempt = auth.attempt /\ counted.package = next.package
          /\ counted.header # "none" /\ counted.reconnections = auth.reconnections + 1
      BY DEF Authentications
    <3>4. ctx \in Contexts /\ ctx.conn = conn + 1 /\ ctx.package = next.package
      BY <1>1 DEF NewContext, Contexts, Authentications
    <3>5. UpdateContext(ctx, FALSE, counted, UpstreamAuthRequest, 1)
      BY <2>2, <2>3
    <3>6. conn' = 1 + counted.reconnections
      BY <1>1, <2>3, <3>3
    <3>7. /\ UpstreamAuthRequest \in [Headers -> Tokens \cup {NoToken}]
          /\ \A h \in Headers : \/ UpstreamAuthRequest[h] = NoToken
                                \/ UpstreamAuthRequest[h] = carried /\ h = "Proxy-Authorization"
      BY RequestCarries
    <3> DEFINE sent == UpstreamAuthRequest
    <3>8. UpdateContext(ctx, FALSE, counted, sent, 1)
      BY <3>5
    <3> HIDE DEF counted, ctx, sent
    <3>9. /\ sent \in [Headers -> Tokens \cup {NoToken}]
          /\ \A h \in Headers : \/ sent[h] = NoToken \/ h = counted.header
                                \/ sent[h] = carried /\ h = "Proxy-Authorization"
                                \/ sent[h].conn = conn' /\ sent[h].package = ctx.package
      BY <3>7 DEF sent
    <3>10. ctx \in Contexts /\ ctx.conn = conn' /\ counted.package = ctx.package
      BY <2>3, <3>3, <3>4
    <3>11. FALSE \in BOOLEAN
      OBVIOUS
    <3>12. QED
      BY <3>2, <3>3, <3>6, <3>8, <3>9, <3>10, <3>11, UpdateResumes
  <2>4. CASE Return /\ conn' \in {conn, conn + 1} /\ UNCHANGED <<auth, token>>
    <3>1. conn' \in 0 .. MaxReconnections + 1
      BY <1>1, <1>3, <2>4, PipelineAssumption
    <3>2. QED
      BY <2>4, <3>1, ReturnResumes
  <2>5. QED
    BY <2>1, <2>3, <2>4
<1>4. QED
  BY <1>2, <1>3

(* What is selected is of a package the program knows, the one in use if any.    *)
LEMMA SelectedFits ==
  ASSUME NEW active, NEW offers, NEW selected \in Selected(active, offers)
  PROVE  selected.package \in Packages /\ active \in {"none", selected.package}
  BY DEF Selected, Taken

(* A challenge is met on the connection in use, on a new one, or not at all.     *)
LEMMA MeetResumes ==
  ASSUME IndInv, pc = "await", NEW head, NEW challenge \in {"Proxy-Authorization", "Authorization"},
         NEW selected \in Selected(auth.package, head.offers),
         UNCHANGED carried, MeetChallenge(head, challenge, selected)
  PROVE  Resumed /\ runs' = runs - 1 /\ status' = status
<1> DEFINE next == [auth EXCEPT !.package = selected.package, !.header = challenge]
<1>1. /\ auth \in Authentications /\ conn = 1 + auth.reconnections
      /\ conn \in 0 .. MaxReconnections + 1
  BY DEF IndInv, TypeOK, Exchanging
<1>2. selected.package \in Packages /\ auth.package \in {"none", selected.package}
  BY SelectedFits
<1>3. /\ next \in Authentications /\ next.attempt = auth.attempt
      /\ next.reconnections = auth.reconnections
      /\ next.package = selected.package /\ next.header = challenge
  BY <1>1, <1>2 DEF Authentications, Headers
<1>4. next.package # "none" /\ next.header # "none"
  BY <1>2, <1>3 DEF Packages
<1>5. runs' = runs - 1 /\ status' = status
  BY DEF MeetChallenge
<1>6. \/ Return /\ UNCHANGED <<auth, token, conn>>
      \/ Restart(next)
      \/ Answer(selected, next)
  BY DEF MeetChallenge
<1> HIDE DEF next
<1>7. ASSUME Return, UNCHANGED <<auth, token, conn>>
      PROVE  Resumed
  BY <1>1, <1>7, ReturnResumes
<1>8. ASSUME Restart(next)
      PROVE  Resumed
  BY <1>3, <1>4, <1>8, RestartResumes
<1>9. ASSUME Answer(selected, next)
      PROVE  Resumed
  <2> DEFINE given == selected.token = "server"
  <2>1. given \in BOOLEAN /\ conn' = conn /\ conn' = 1 + next.reconnections
    BY <1>1, <1>3, <1>9 DEF Answer
  <2>a. /\ token \in [Headers -> Tokens \cup {NoToken}]
        /\ \A h \in Headers : \/ token[h] = NoToken
                              \/ token[h] = carried /\ h = "Proxy-Authorization"
                              \/ context # NoContext /\ token[h].conn = conn /\ token[h].package = context.package
    BY DEF IndInv, TypeOK, Exchanging, Handshake, Bound
  <2>2. CASE context # NoContext
    <3>1. UpdateContext(context, given, next, token, live)
      BY <1>9, <2>2 DEF Answer
    <3>2. live = 1
      BY <2>2 DEF IndInv, NothingLeaks
    <3>3. context \in Contexts /\ context.conn = conn /\ context.package = auth.package
      BY <2>2 DEF IndInv, TypeOK, Exchanging, Handshake
    <3>4. context.package = next.package
      BY <1>2, <1>3, <3>3 DEF Contexts, Packages
    <3>5. UpdateContext(context, given, next, token, 1)
      BY <3>1, <3>2
    <3> HIDE DEF given
    <3>6. QED
      BY <1>3, <1>4, <2>1, <2>a, <3>3, <3>4, <3>5, UpdateResumes
  <2>3. CASE context = NoContext
    <3> DEFINE ctx == NewContext(conn, selected.package)
    <3>1. \/ UpdateContext(ctx, given, next, token, live + 1)
          \/ Return /\ UNCHANGED <<auth, token>>
      BY <1>9, <2>3 DEF Answer
    <3>2. live + 1 = 1
      BY <2>3 DEF IndInv, NothingLeaks
    <3>3. ctx \in Contexts /\ ctx.conn = conn /\ ctx.package = next.package
      BY <1>1, <1>2, <1>3 DEF NewContext, Contexts
    <3>4. \/ UpdateContext(ctx, given, next, token, 1)
          \/ Return /\ UNCHANGED <<auth, token>>
      BY <3>1, <3>2
    <3> HIDE DEF given, ctx
    <3>5. CASE UpdateContext(ctx, given, next, token, 1)
      BY <1>3, <1>4, <2>1, <2>3, <2>a, <3>3, <3>5, UpdateResumes
    <3>6. CASE Return /\ UNCHANGED <<auth, token>>
      BY <1>1, <2>1, <3>6, ReturnResumes
    <3>7. QED
      BY <3>4, <3>5, <3>6
  <2>4. QED
    BY <2>2, <2>3
<1>10. QED
  BY <1>5, <1>6, <1>7, <1>8, <1>9

-----------------------------------------------------------------------------
(* Every step keeps the invariant. *)

LEMMA InitEstablishes == Init => IndInv
<1> SUFFICES ASSUME Init PROVE IndInv
  OBVIOUS
<1> USE PipelineAssumption DEF Init
<1>1. auth \in Authentications /\ auth.attempt = 1
  BY DEF Idle, Authentications
<1>2. /\ setup \in Setups /\ request \in Requests
      /\ browserGone \in BOOLEAN /\ gatewayDone \in BOOLEAN
      /\ challenged \in BOOLEAN /\ open \in BOOLEAN
  BY Zenon
<1>a. token \in [Headers -> Tokens \cup {NoToken}] /\ carried \in Tokens \cup {NoToken}
  OBVIOUS
<1>3. local \in BOOLEAN /\ honest \in BOOLEAN /\ patient \in BOOLEAN
  BY Zenon
<1>b. /\ pc \in {"check", "repeat", "connect", "begin", "send", "await", "relay", "copy", "ended"}
      /\ serverAuth \in Packages \cup {"none"} /\ status \in {0, 200, 401, 407}
      /\ writing \in BOOLEAN /\ reads \in BOOLEAN
  OBVIOUS
<1>c. /\ conn \in 0 .. MaxReconnections + 1 /\ closings \in 0 .. MaxClosings
      /\ live \in Int /\ runs \in Int /\ context \in Contexts \cup {NoContext}
  OBVIOUS
<1>4. TypeOK
  BY <1>1, <1>2, <1>3, <1>a, <1>b, <1>c DEF TypeOK
<1>5. QED
  BY <1>4 DEF IndInv, BeforeConnecting, Exchanging, EffectsCounted, NothingLeaks

(* A handler that returns, whatever else the step says of its variables.        *)
LEMMA ReturnKeeps ==
  ASSUME IndInv, Return, TypeOK',
         request' = request, request.method = "POST" \/ HasBody(request) => runs' <= 1
  PROVE  IndInv'
  BY ReturnReleases
     DEF IndInv, BeforeConnecting, Exchanging, EffectsCounted, NothingLeaks, HasBody

(* Authenticating the browser touches nothing the handler has to release.       *)
LEMMA FrontKeeps ==
  ASSUME IndInv, CheckBrowser \/ RepeatRequest
  PROVE  IndInv'
<1>1. ASSUME CheckBrowser PROVE IndInv'
  <2> USE <1>1 DEF CheckBrowser, caller, front, copies, history, Challenge407
  <2>1. TypeOK'
    <3> serverAuth \in Packages \cup {"none"} /\ challenged \in BOOLEAN
      BY DEF IndInv, TypeOK
    <3>1. /\ challenged' = TRUE \/ challenged' = challenged
          /\ serverAuth' \in Packages \cup {"none"}
      OBVIOUS
    <3>2. pc' \in {"repeat", "connect", "ended"}
      OBVIOUS
    <3>3. UNCHANGED <<setup, request, local, honest, patient, browserGone, conn, open, context,
                      auth, token, writing, reads, gatewayDone, live, runs, status, closings>>
      BY DEF copies
    <3>a. carried' \in Tokens \cup {NoToken}
      <4>1. carried \in Tokens \cup {NoToken}
        BY DEF IndInv, TypeOK
      <4>2. \A given \in Packages : FromBrowser(given) \in Tokens
        BY DEF FromBrowser, Tokens
      <4>3. carried' = carried \/ \E given \in Packages : carried' = FromBrowser(given)
        OBVIOUS
      <4>4. QED
        BY <4>1, <4>2, <4>3
    <3> HIDE DEF CheckBrowser
    <3>4. challenged' \in BOOLEAN
      BY <3>1
    <3>5. QED
      BY <3>1, <3>2, <3>3, <3>4, <3>a DEF IndInv, TypeOK
  <2>2. pc = "check" /\ pc' \in {"repeat", "connect", "ended"}
    OBVIOUS
  <2>3. QED
    BY <2>1, <2>2
       DEF IndInv, BeforeConnecting, Exchanging, EffectsCounted, NothingLeaks, HasBody
<1>2. ASSUME RepeatRequest PROVE IndInv'
  <2> USE <1>2 DEF RepeatRequest, caller, front, copies, history
  <2>1. TypeOK'
    BY DEF IndInv, TypeOK
  <2>2. pc = "repeat" /\ pc' \in {"check", "ended"}
    OBVIOUS
  <2>3. QED
    BY <2>1, <2>2
       DEF IndInv, BeforeConnecting, Exchanging, EffectsCounted, NothingLeaks, HasBody
<1>3. QED
  BY <1>1, <1>2

(* The first connection is the one the first attempt expects.                  *)
LEMMA ConnectKeeps ==
  ASSUME IndInv, Connect \/ BeginRelay
  PROVE  IndInv'
<1>1. ASSUME Connect PROVE IndInv'
  <2> USE <1>1 DEF Connect, caller, front, copies
  <2>1. /\ pc = "connect" /\ conn = 0 /\ runs = 0
        /\ context = NoContext /\ auth = Idle /\ live = 0
    BY DEF IndInv, BeforeConnecting, NothingLeaks
  <2>2. CASE /\ Dial /\ pc' \in {"send", "begin"} /\ UNCHANGED <<context, live>>
             /\ token' = UpstreamAuthRequest \/ (token' = token /\ pc' = "begin")
    <3>1. conn' = 1 /\ open' = TRUE
      BY <2>1, <2>2 DEF Dial
    <3>2. TypeOK'
      BY <2>2, <3>1, RequestCarries, PipelineAssumption DEF IndInv, TypeOK
    <3>3. /\ auth.attempt <= MaxExchanges /\ auth.reconnections = 0
          /\ auth.package = "none" /\ auth.header = "none"
      BY <2>1, PipelineAssumption DEF Idle
    <3>a. pc' = "send" => Handshake'
      <4> SUFFICES ASSUME token' = UpstreamAuthRequest PROVE Handshake'
        BY <2>2
      <4>1. \A h \in Headers : Bound(h)'
        BY <3>3, RequestCarries DEF Bound
      <4>2. QED
        BY <2>1, <2>2, <4>1 DEF Handshake
    <3>4. QED
      BY <2>1, <2>2, <3>1, <3>2, <3>3, <3>a
         DEF IndInv, BeforeConnecting, Exchanging, Handshake, EffectsCounted, NothingLeaks, HasBody
  <2>3. CASE Return /\ UNCHANGED <<conn, token>>
    <3>1. TypeOK'
      BY <2>3, ReturnTyped DEF IndInv, TypeOK
    <3>2. QED
      BY <2>1, <2>3, <3>1, ReturnKeeps
  <2>4. QED
    BY <2>2, <2>3
<1>2. ASSUME BeginRelay PROVE IndInv'
  <2> USE <1>2 DEF BeginRelay, caller, front, copies
  <2>1. CASE pc' = "relay" /\ UNCHANGED <<open, context, live>>
    <3>1. TypeOK'
      BY <2>1 DEF IndInv, TypeOK
    <3>2. QED
      BY <2>1, <3>1
         DEF IndInv, BeforeConnecting, Exchanging, EffectsCounted, NothingLeaks, HasBody
  <2>2. CASE Return
    <3>1. TypeOK'
      BY <2>2, ReturnTyped DEF IndInv, TypeOK
    <3>2. QED
      BY <2>2, <3>1, ReturnKeeps DEF IndInv, EffectsCounted
  <2>3. QED
    BY <2>1, <2>2
<1>3. QED
  BY <1>1, <1>2

LEMMA SendKeeps ==
  ASSUME IndInv, SendHead
  PROVE  IndInv'
<1> USE DEF SendHead, caller, front, copies
<1>1. TypeOK'
  BY DEF IndInv, TypeOK
<1>2. QED
  BY <1>1
     DEF IndInv, TypeOK, BeforeConnecting, Exchanging, Handshake, Bound, EffectsCounted, NothingLeaks, HasBody

(* What an authentication that has resumed or returned needs for the invariant. *)
LEMMA ResumedKeeps ==
  ASSUME IndInv, Resumed, UNCHANGED <<caller, front, browserGone, copies>>,
         runs' \in Int, status' \in {0, 200, 401, 407}, closings' \in 0 .. MaxClosings,
         request.method = "POST" \/ HasBody(request) =>
           runs' <= 1 /\ (pc' = "send" => runs' = 0)
  PROVE  IndInv'
<1>1. /\ request' = request /\ pc' \in {"send", "ended"}
      /\ live' = IF context' = NoContext THEN 0 ELSE 1
      /\ pc' = "ended" => ~open' /\ context' = NoContext
  BY DEF Resumed, caller
<1>2. live' \in Int
  BY <1>1
<1>3. TypeOK'
  BY <1>2 DEF Resumed, IndInv, TypeOK, caller, front, copies
<1>4. Exchanging'
  BY <1>1 DEF Resumed, Exchanging
<1>5. BeforeConnecting' /\ NothingLeaks'
  BY <1>1 DEF BeforeConnecting, NothingLeaks
<1>6. EffectsCounted'
  BY <1>1 DEF EffectsCounted, HasBody
<1>7. QED
  BY <1>3, <1>4, <1>5, <1>6 DEF IndInv

LEMMA BreakKeeps ==
  ASSUME IndInv, ConnectionBreaks
  PROVE  IndInv'
<1> USE DEF ConnectionBreaks
<1>1. /\ pc \in {"send", "await"}
      /\ runs' = IF pc = "send" THEN runs + 1 ELSE runs
      /\ UNCHANGED <<caller, front, browserGone, copies, status>>
  OBVIOUS
<1>2. closings' \in 0 .. MaxClosings
  BY PipelineAssumption DEF IndInv, TypeOK
<1>3. runs' \in Int /\ status' \in {0, 200, 401, 407}
  BY <1>1 DEF IndInv, TypeOK
<1>4. CASE MayRestart /\ Restart(auth)
  <2>1. auth \in Authentications /\ auth.package # "none" /\ auth.header # "none"
    BY <1>1, <1>4 DEF MayRestart, IndInv, TypeOK, Exchanging
  <2>2. ~(request.method = "POST" \/ HasBody(request))
    BY <1>4 DEF MayRestart, CanRestartAfterEOF, HasBody
  <2>3. Resumed
    BY <1>1, <1>4, <2>1, RestartResumes DEF front
  <2>4. QED
    BY <1>1, <1>2, <1>3, <2>2, <2>3, ResumedKeeps
<1>5. CASE Return /\ UNCHANGED <<auth, token, conn>>
  <2>1. Resumed /\ pc' = "ended"
    BY <1>5, ReturnResumes, ReturnReleases DEF IndInv, TypeOK
  <2>2. request.method = "POST" \/ HasBody(request) => runs' <= 1
    BY <1>1, <1>3 DEF IndInv, TypeOK, EffectsCounted
  <2>3. QED
    BY <1>1, <1>2, <1>3, <2>1, <2>2, ResumedKeeps
<1>6. QED
  BY <1>4, <1>5

(* A well-behaved gateway closes a connection only while it may.               *)
LEMMA HonestClosings ==
  ASSUME NEW head \in HonestHeads, head.status = 407, ClosesConnection(head, request.method)
  PROVE  closings < MaxClosings
<1>1. CASE closings < MaxClosings
  BY <1>1
<1>2. CASE ~(closings < MaxClosings)
  <2>1. head \in HonestChallenges("none") \cup HonestChallenges("server")
    BY DEF HonestHeads
  <2>2. head.frame = Frame("none", FALSE, "one", FALSE)
    BY <1>2, <2>1 DEF HonestChallenges, HonestFrames
  <2>3. QED
    BY <2>2 DEF ClosesConnection, Frame
<1>3. QED
  BY <1>1, <1>2

LEMMA ReceiveKeeps ==
  ASSUME IndInv, ReceiveHead
  PROVE  IndInv'
<1>1. PICK head \in Answers :
        /\ closings' = IF honest /\ head.status = 407 /\ ClosesConnection(head, request.method)
                       THEN closings + 1 ELSE closings
        /\ IF ChallengeOf(head) = "none" \/ auth.complete THEN Forward(head, "relay")
           ELSE IF Selected(auth.package, head.offers) = {} THEN Forward(head, "copy")
           ELSE \E selected \in Selected(auth.package, head.offers) :
                  MeetChallenge(head, ChallengeOf(head), selected)
  BY DEF ReceiveHead
<1>2. pc = "await" /\ UNCHANGED <<caller, front, browserGone, copies>>
  BY DEF ReceiveHead
<1>3. head.status \in {200, 401, 407}
  <2>1. head \in HonestHeads => head.status \in {200, 407}
    BY DEF HonestHeads, HonestChallenges
  <2>2. head \in Heads => head.status \in {200, 401, 407}
    BY DEF Heads
  <2>3. QED
    BY <2>1, <2>2 DEF Answers
<1>4. closings' \in 0 .. MaxClosings
  <2>1. closings \in 0 .. MaxClosings
    BY DEF IndInv, TypeOK
  <2>2. CASE honest /\ head.status = 407 /\ ClosesConnection(head, request.method)
    <3>1. head \in HonestHeads
      BY <2>2 DEF Answers
    <3>2. closings < MaxClosings
      BY <2>2, <3>1, HonestClosings
    <3>3. QED
      BY <1>1, <2>1, <2>2, <3>2, PipelineAssumption
  <2>3. CASE ~(honest /\ head.status = 407 /\ ClosesConnection(head, request.method))
    BY <1>1, <2>1, <2>3
  <2>4. QED
    BY <2>2, <2>3
<1>5. ASSUME NEW then \in {"relay", "copy"}, Forward(head, then)
      PROVE  IndInv'
  <2>1. status' = head.status /\ UNCHANGED <<auth, token, conn, runs>>
    BY <1>5 DEF Forward
  <2>2. CASE pc' = then /\ UNCHANGED <<open, context, live>>
    <3>1. TypeOK'
      BY <1>2, <1>3, <1>4, <2>1, <2>2 DEF IndInv, TypeOK, caller, front, copies
    <3>2. QED
      BY <1>2, <2>1, <2>2, <3>1
         DEF IndInv, caller, BeforeConnecting, Exchanging, EffectsCounted, NothingLeaks, HasBody
  <2>3. CASE Return
    <3>1. TypeOK'
      BY <1>2, <1>3, <1>4, <2>1, <2>3, ReturnTyped DEF IndInv, TypeOK, caller, front, copies
    <3>2. QED
      BY <1>2, <2>1, <2>3, <3>1, ReturnKeeps DEF IndInv, EffectsCounted, caller
  <2>4. QED
    BY <1>5, <2>2, <2>3 DEF Forward
<1>6. ASSUME ChallengeOf(head) # "none",
             NEW selected \in Selected(auth.package, head.offers),
             MeetChallenge(head, ChallengeOf(head), selected)
      PROVE  IndInv'
  <2>1. ChallengeOf(head) \in {"Proxy-Authorization", "Authorization"}
    BY <1>6 DEF ChallengeOf
  <2>2. Resumed /\ runs' = runs - 1 /\ status' = status
    BY <1>2, <1>6, <2>1, MeetResumes DEF front
  <2>3. runs' \in Int /\ status' \in {0, 200, 401, 407}
    BY <2>2 DEF IndInv, TypeOK
  <2>4. request.method = "POST" \/ HasBody(request) => runs' <= 1 /\ (pc' = "send" => runs' = 0)
    BY <1>2, <2>2 DEF IndInv, TypeOK, EffectsCounted
  <2>5. QED
    BY <1>2, <1>4, <2>2, <2>3, <2>4, ResumedKeeps
<1>7. QED
  BY <1>1, <1>5, <1>6

(* What the other sides do, and the end of a relay.                           *)
LEMMA RelayKeeps ==
  ASSUME IndInv, \/ GatewayFinishes \/ GatewayPauses \/ BrowserLeaves
                 \/ CopyReads \/ CopyWrites \/ RelayEnds \/ CopyEnds
  PROVE  IndInv'
<1>1. ASSUME GatewayFinishes \/ GatewayPauses \/ BrowserLeaves \/ CopyReads \/ CopyWrites
      PROVE  IndInv'
  <2> USE <1>1 DEF GatewayFinishes, GatewayPauses, BrowserLeaves, CopyReads, CopyWrites,
                   caller, front, copies, history
  <2>1. UNCHANGED <<caller, front, pc, conn, open, context, auth, token, history>>
    OBVIOUS
  <2>2. gatewayDone' \in BOOLEAN /\ browserGone' \in BOOLEAN /\ writing' \in BOOLEAN /\ reads' \in BOOLEAN
    <3>1. gatewayDone \in BOOLEAN /\ browserGone \in BOOLEAN /\ writing \in BOOLEAN /\ reads \in BOOLEAN
      BY DEF IndInv, TypeOK
    <3>2. /\ gatewayDone' \in {gatewayDone, TRUE} /\ browserGone' \in {browserGone, TRUE}
          /\ writing' \in {writing, TRUE, FALSE} /\ reads' \in {reads, ~reads}
      OBVIOUS
    <3>3. QED
      BY <3>1, <3>2
  <2> HIDE DEF GatewayFinishes, GatewayPauses, BrowserLeaves, CopyReads, CopyWrites
  <2>3. TypeOK'
    BY <2>1, <2>2 DEF IndInv, TypeOK
  <2>4. QED
    BY <2>1, <2>3
       DEF IndInv, BeforeConnecting, Exchanging, Handshake, Bound, EffectsCounted, NothingLeaks, HasBody
<1>2. ASSUME RelayEnds \/ CopyEnds PROVE IndInv'
  <2> USE <1>2 DEF RelayEnds, CopyEnds, caller, front, copies
  <2>1. Return /\ request' = request /\ runs' = runs
    OBVIOUS
  <2>2. TypeOK'
    BY <2>1, ReturnTyped DEF IndInv, TypeOK
  <2>3. QED
    BY <2>1, <2>2, ReturnKeeps DEF IndInv, EffectsCounted
<1>3. QED
  BY <1>1, <1>2

LEMMA StutterKeeps ==
  ASSUME IndInv, UNCHANGED vars
  PROVE  IndInv'
  BY DEF vars, IndInv, TypeOK, BeforeConnecting, Exchanging, Handshake, Bound, EffectsCounted,
         NothingLeaks, HasBody

-----------------------------------------------------------------------------
(* The theorems. *)

(* The invariant holds initially and is kept by every step of the handler, the  *)
(* browser and the gateway.                                                  *)
THEOREM Inductive == Spec => []IndInv
<1>1. Init => IndInv
  BY InitEstablishes
<1>2. IndInv /\ [Next]_vars => IndInv'
  <2> SUFFICES ASSUME IndInv, [Next]_vars PROVE IndInv'
    OBVIOUS
  <2>1. CASE CheckBrowser \/ RepeatRequest
    BY <2>1, FrontKeeps
  <2>2. CASE Connect \/ BeginRelay
    BY <2>2, ConnectKeeps
  <2>3. CASE SendHead
    BY <2>3, SendKeeps
  <2>4. CASE ConnectionBreaks
    BY <2>4, BreakKeeps
  <2>5. CASE ReceiveHead
    BY <2>5, ReceiveKeeps
  <2>6. CASE \/ GatewayFinishes \/ GatewayPauses \/ BrowserLeaves
             \/ CopyReads \/ CopyWrites \/ RelayEnds \/ CopyEnds
    BY <2>6, RelayKeeps
  <2>7. CASE UNCHANGED vars
    BY <2>7, StutterKeeps
  <2>8. QED
    BY <2>1, <2>2, <2>3, <2>4, <2>5, <2>6, <2>7 DEF Next
<1>3. QED
  BY <1>1, <1>2, PTL DEF Spec

(* The handler's variables keep their types, and its connections and exchanges  *)
(* their limits, whatever the gateway answers.                                *)
THEOREM TypeCorrect == Spec => []TypeOK
<1>1. IndInv => TypeOK
  BY DEF IndInv
<1>2. QED
  BY <1>1, Inductive, PTL

(* No token that the handler has made is sent on another connection than the one  *)
(* its context began on, through any number of restarts (restartAuth), and the    *)
(* browser's token, where its request carries one, only in its own header until   *)
(* a challenge for that header is answered.                                   *)
THEOREM TokensBound == Spec => []TokensStayOnTheirConnection
<1>1. IndInv => TokensStayOnTheirConnection
  BY DEF IndInv, Exchanging, Handshake, Bound, TokensStayOnTheirConnection
<1>2. QED
  BY <1>1, Inductive, PTL

(* One context at most is held, and it and the connection are released by the    *)
(* time the handler returns, on every path (the deferred calls).              *)
THEOREM AllReleased == Spec => []NothingLeaks
<1>1. IndInv => NothingLeaks
  BY DEF IndInv
<1>2. QED
  BY <1>1, Inductive, PTL

(* A request with side effects or a body is with the gateway once at most,      *)
(* however often the connection breaks (canRestartUpstreamAuthAfterEOF).       *)
THEOREM EffectsOnce == Spec => []SideEffectsHappenOnce
<1>1. IndInv => SideEffectsHappenOnce
  BY DEF IndInv, EffectsCounted, SideEffectsHappenOnce
<1>2. QED
  BY <1>1, Inductive, PTL
=============================================================================
