# diagox in TLA+

A verification development for diagox, a SIP PBX: specifications of its parts,
TLC configurations that check them on small instances, and proofs checked by
TLAPS. Paths below are relative to `src/`; `tla/` holds the development.

    tlc -config RLActive.cfg MCRateLimiter.tla      # any run of the table below
    tlapm RateLimiterProofs.tla                     # the proofs

## 1. The system

diagox takes SIP calls, matches the caller to an endpoint and the number to a
route, dials the endpoint of the route and bridges the two. Each INVITE is
served by one goroutine (`PBX.handler`), each REGISTER by another, each
websocket of an agent by a third kind. They share counters, maps and channels.
The SIP dialogs, transactions and media belong to the libraries diago and
sipgo, which are not part of the repository; the models treat them as the
environment of the code.

| component | state | operations | interacts with |
|---|---|---|---|
| rate limiter (`rate_limiter.go`) | three atomic counters | `DialogRPSLimit`, `DialogActiveLimit`, `DialogActiveDec`, `Block` | asked by handler and BridgeCall |
| call handling (`pbx.go`) | locals and defers of a goroutine, metrics, `BridgeCache` | `handler`, `BridgeCall`, `bridgeAnswer`, `inviteFallback`, `waitDialogTermination` | everything below |
| flow RPC (`flow_rpc.go`) | pool of connections, two maps per connection, a channel per dialog | `ServeHTTP` goroutine, `NewServerDialog` | called by BridgeCall, talks to an agent |
| registrar and registry (`registrar.go`, `registry.go`) | map of bindings under a lock | `registerHandler`, `RegisterBinding*`, `endpointResolveRegisteredURI` | read by BridgeCall |
| routing (`routing.go`) | configuration, an index built when it is loaded | `MatchEndpoint`, `MatchIncomingRoute`, `MatchOutgoingRouteEndpoint` | called by BridgeCall, loaded by `config.go` |
| call records and SIP traces (`cdr_storage.go`) | two rings, each under a lock | `CDRWrite`, `CDRRead`, `writeTrace`, `SIPTraceFind` | written by the defers of a call and by the SIP stack, read by the pages of `http.go` |
| dialog cache (`dialog_cache*.go`, `pbx.go:245-380`) | map and file of answered dialogs | `StoreDialog`, `DeleteDialog`, `LoadDialogs`, `ReInviteDialogs` | callbacks on the state of a dialog |
| shutdown (`pbx.go:48-76`) | - | two loops that hang up | runs while handlers still run |
| authentication (`auth.go`, `auth_bearer.go`) | none of its own: challenges are in diago, tokens at a provider | `authorizeInboundDialog`, `authorizeRegister`, `UserAuthenticateBearer` | asked by BridgeCall and registrar |
| configuration (`config.go`) | endpoints and routes, read once at start | `ConfigLoad`, `Validate` | feeds routing |
| bootstrap, HTTP pages, metrics, WebRTC/STUN | read once at start, or output only | - | - |

What is hard in each, and what makes it correct:

* **Rate limiter.** No lock: increments of goroutines that will be refused are
  seen by others, the second is changed in one step and the counter reset in
  another. Places must be counted exactly whatever the interleaving, fewer than
  `Max` dialogs be active, `Block` return by its deadline.
* **Call handling.** Some thirty calls that may fail or panic; either party
  hangs up at any moment, a hang up may itself fail; a timeout changes the callee.
  Clean-up lives in defers whose arguments are bound early and whose bodies read
  variables late. Nothing shared may leak, no party may be left on the line without
  a hang up tried, records must tell what happened, a hang up must end the call.
* **Flow RPC.** Two goroutines meet over maps and a channel; the connection goes
  at any time, and with it its place in a slice whose length and capacity are the
  test for the next one; several dialogs share an alias. Requests must reach their
  dialog, transactions be forgotten, a caller who hangs up be released.
* **Registrar.** Requests overwrite each other; errors are found late. What is
  answered must be what was done, refused requests must leave no trace.
* **Routing.** The index splits the file into tables and must still give the
  precedence the file has; `main.go` logs an invalid file and serves calls with
  it; the registry is asked under another name than the endpoint's own.
* **Records and traces.** A ring at its wrap, read from its newest entry; a page of
  messages that gives up the lock between two of them. A page must show what is
  in the ring, once.
* **Dialog cache.** A file is truncated and then written; callbacks of a dialog run
  while its present state is being handled; another node reads, truncates and
  takes over. The file must say what the node has, an answer must not be missed, an
  orphan must not get lost unnoticed.
* **Shutdown.** Dialogs end, begin and are taken over while two loops hang up.

`PROJECT.json` lists the hazards one by one, each at its line.

## 2. The modules

| module | models | abstract view |
|---|---|---|
| `Admission` | what the incoming limiter promises | - |
| `RateLimiter` | `rate_limiter.go` and its two uses, one step per atomic operation | implements `Admission` |
| `CallService` | what the PBX promises of a call: served, joined, parted, billed | - |
| `CallBridge` | `pbx.go` from the INVITE to the last defer; uses `Admission` for its limiter | implements `CallService` |
| `AgentService` | what handing a call to an agent promises to both sides | - |
| `FlowRPC` | `flow_rpc.go`: connections, readers, dialogs | implements `AgentService` |
| `Location` | what a registrar promises: one address per user, changed as answered | - |
| `Registrar` | `registrar.go`, `registry.go`, the lookup in `pbx.go` | implements `Location` |
| `Routing` | `routing.go`, the endpoints and routes of `config.go`, the target dialled in `pbx.go` | its invariants read the file alone |
| `RecentLog` | what a storage in memory promises: the newest entries, in order | - |
| `CallRecords` | `cdr_storage.go`, the form of the history page and the page of messages in `http.go` | implements `RecentLog` |
| `DialogCache` | `dialog_cache_file.go`, `registerOnStateDialog`, `LoadDialogs`, `ReInviteDialogs` and the two loops of `Serve` | |
| `*Proofs` | the theorems about the module they are named after | |
| `LeastElements` | least and greatest elements of sets of numbers exist; used by three proof modules | |
| `MC*` | the instances TLC checks | |

Composition: `CallBridge` instantiates `Admission`, the specification that
`RateLimiter` is proved to implement, so the calls need not repeat the atomic
operations. The flow endpoint of a call is, in `CallBridge`, an agent that
answers, redirects or leaves (`AgentAnswers`, `AgentLeaves`); `FlowRPC` has the
details, and `AgentService` says what of them BridgeCall and the agent may rely on:
the caller is answered only by an agent who took the call and has not given it back,
and who took it is told once that the caller is gone.

### How state and actions correspond to the code

`RateLimiter`. `rateCount`, `rateTimestamp`, `activeCount` are the fields of
`RateLimiterAtomic`; `second`, `last`, `since`, `wake` are locals of the calling
goroutine; `pc` says which atomic operation comes next. `allowedNow` and
`sinceReset` are history and read by nothing but properties. `blocking`, chosen
once, selects the use: the incoming limiter is asked once, the outgoing one in
`Block`.

`CallBridge`. `h[c]` is the goroutine of call c: a label for the call into diago
it is about to make, the local variables its defers read, and `deferred`, how
many of the eight defers (`Defers`, in order of installation) are installed. A
return, an error or a panic goes to `unwind`, which runs them from last to
first. `caller` and `leg` are the states of the dialogs; `leg[c][0]` is the
routed endpoint, `leg[c][i]` the i-th fallback. Each action is one call into
diago with its outcomes; everything between two such calls is local. Any `Hangup`
may fail (`DeferFails`, `CallerDone`), which the code logs or ignores; `lost` and
`lostIn` are the history of that. The dialog of a fallback is closed when the
closure that dials it returns (`closed`), before the caller is answered; whether its
end is noticed from then on is up to diago (`ClosedCalleeDone`).

`FlowRPC`. `pool` is the slice of an endpoint's connections with its capacity, which
`Connect` compares with the length; `LeavePool` shifts the slice in place, so the
capacity stays. `reader[k]` is the goroutine that reads connection k, with the message
it is handing over; `reg` and `txns` are the two `sync.Map`s; `queue` is the
length of a dialog's channel; `dlg` the label of `NewServerDialog`. Which
operation a queued request asks for is chosen when it is executed, since neither
reader nor channel looks at it. Media operations succeed or fail.

`Registrar`. `registry` is the map; a handler goes through headers, credentials,
contacts and answer. One write under the lock is one step. The credential
stores are asked and may refuse anyone. The contacts of a binding are kept by
their place in the request, so that "the first one" is the least place. `writer` is
history: which handler wrote a user's entry last.

`Routing`. `conf` is the configuration, which `ConfigLoad` fills in, possibly not
to the end; `index` is `endpointIndex`, built one endpoint per step; `req`,
`from`, `route` and `target` are what BridgeCall holds of the call it serves, and
`tried` how many endpoints of the route's fallback `inviteFallback` has gone on to.
Serving a call changes nothing else, so calls are served one after another.
The order that `endpointNames` makes of the file is the relation `Precedes`,
`todo` the set of endpoints the loop has yet to pass over; the tables of exact
addresses and of ranges are sets of rows with the `order` of each, the table of
users a sequence. Numbers and names are short sequences, a range is the set of
its addresses, and an IPv4 address is written in one of its two forms. `valid` records what
`Validate` said, which the program only logs. Which users have a binding is the
constant `Registered`; `Registrar` has the bindings.

`CallRecords`. `data`, `ind`, `end` are the fields of either storage, which are the
same ring, so a run is of one of them (`storage`). Entries are numbered as they
are written. `CDRWrite` and `writeTrace` hold the lock throughout and are one step.
`CDRRead` holds it too, but its loop is modelled slot by slot: `page` has its local
variables, and while it is not `NoPage` no CDR is written. `find` is the local state of a
`SIPTraceFind`, which gives up the lock around each callback. `Options` is what
`pageHistory` makes of a form.

`DialogCache`. `dialogs[n]`, `mu[n]` and `file[n]` are a node's `DialogCacheFile` and
its file, `Torn` when truncated and not written; `st` and `home` are the dialog
itself, `reg` and `due` how far `registerOnStateDialog` and the callbacks are;
`taker[n]` is where `ReInviteDialogs` is and the loaded dialogs it has left; `range`
what a `DialogRange` has yet to visit. `unheard`, `newcomers`, `late`, `dropped`,
`unwritten` and `emptied` are written for the properties: dialogs whose Hangup
failed, dialogs begun after the range of Serve, dialogs stored after their end,
dialogs deleted by the takeover that made them, nodes whose write failed, nodes
whose file a takeover emptied while they serve. An ID is a call and a number:
`Renewed` says which one a takeover gives it. An incoming call gets its second ID at the
first takeover and the same one ever after, because its INVITE has both tags from
then on; the callee of an outgoing call chooses a new tag each time. Left out is
a party that answers a takeover under an ID which a node still has. The cache and the
takeover are run by a program that embeds diagox: it passes the cache through
`ApplyProviders` and calls `LoadDialogs` and `ReInviteDialogs`, which nothing in
`src/` calls. `BridgeCall`'s own outgoing dialogs (`bridgeAnswer`) are never registered
with the cache; the outgoing ones of the model are those of `PBX.invite`.

## 3. The runs

| run | instance | shows |
|---|---|---|
| `rl_active` | both uses; 3 goroutines, Max 3, RPS 2, timeout 1 s, 2 seconds, 4 INVITEs, fair | types; `ActiveAccounted`; `PlacesBounded`; `EpochBounded`; implements `Admission`; `BlockReturns` |
| `rl_race` | 2 goroutines | **violated**: `RPSPerSecond` |
| `cb_safety` | 1 call, two fallbacks, WebRTC callee, hang ups that fail, fair | types; `NobodyWaits`; `HuntsInOrder`; `RecordsAgree`; `OnlyFallbacksAtFault`; `HangupPropagates`; `HandlersEnd` |
| `cb_shared` | 2 calls, Max 3, flow endpoints too, no fallback, hang ups that fail | `SharedAccounted`; implements `CallService` |
| `cb_record` | 1 call | **violated**: `EveryInviteRecorded` |
| `cb_leg` | 1 call | **violated**: `NoCalleeLeft` |
| `fr` | pool 2, channel 1, fair; 2 dialogs on 1 connection and 2 messages, 1 dialog and 3 connections and 1 message, or 2 dialogs and 2 connections and none | types; `PoolAccounted`; `Reachable`; `TransactionsAccounted`; implements `AgentService`; `CallerReleased`; `InviteReaderFreed` |
| `fr_reader` | 1 connection, 1 dialog, 3 messages, fair | **violated**: `ReaderFreed` |
| `reg_bind` | 2 handlers, 2 users, 17 kinds of request, 3 requests | types; `GrantHonoured`; implements `Location` |
| `routing` | 2600 files of 3 endpoints (13 kinds, two of which do not load), 7 tables of routes, requests from every kind of source | types; `SourceHasPrecedence`; `NothingDangles`; `RegistryDialsTheCallee` |
| `records` | rings of 3 slots, 7 writes, 8 lists of filters under 4 pairs of dates, pages of up to 4 rows | types; `RingOrdered`; `PageFaithful`; `FindFaithful`; implements `RecentLog` |
| `takeover` | 2 nodes; an incoming or an outgoing call and 3 crashes or shutdowns, or both calls and one | types; `FileCurrent`; `AnsweredIsCached`; `GhostOnlyLate`; `OrphansAreKept`; `ShutdownHangsUp` |

Each violation is reached under `Spec` or, for `fr_reader`, under fairness, and is the
subject of a finding in `PROJECT.json`, which quotes the text of the repository that
says otherwise.

### Disagreements found

* `rl_race`. A goroutine swaps the timestamp; others count themselves; then it
  stores 0 in the counter. More than `RPS` requests pass in that second.
  `EpochBounded` is what does hold: `RPS` between two resets.
* `cb_record`. `inviteFallback` returns nil on error, `outDialog` is assigned
  from it, the deferred outgoing record reads it and panics. `handler` recovers
  and the other defers run, but no outgoing record is written.
* `cb_leg`. `defer outDialog.Hangup` is bound to the first outgoing dialog. For a
  fallback's dialog only `Close` is deferred, in a closure that returns at once
  (`pbx.go:785, 793`). An answered fallback is hung up only if the caller hangs up
  first; an error while bridging or the timer of six hours leaves it.

  `OnlyFallbacksAtFault` is what does hold in place of the two, callees aside whose Hangup
  was tried and failed: without a fallback nobody is left and both records are
  written; who is left on the line is the fallback that answered, and then both
  records are written; and a record is missing only after every fallback failed, and
  then nobody is left.
* `fr_reader`. The responses to a bye go to a channel of capacity 1 under a context
  without an end. Once the dialog has given up on its bye, a first response fills
  the channel and a second blocks the reading goroutine, and with it every
  dialog of the connection. Responses to an invite do not (`InviteReaderFreed`): their
  context is the call's.

Five more texts say what the code does not do. They concern what is accepted, looked
up or shown, each is seen in a few steps, and each has a configuration of its own beside
the runs, on the instance of the module's run; TLC reports the invariant violated.

| configuration | module | invariant |
|---|---|---|
| `RegBrief.cfg` | `MCRegistrar` | `OnlyBriefRejected` |
| `RoutesFallback.cfg` | `MCRouting` | `FallbacksMapped` |
| `RoutesRegistry.cfg` | `MCRouting` | `AnyRegisteredReached` |
| `RecordsOriginator.cfg` | `MCCallRecords` | `OriginatorHonoured` |
| `RecordsScore.cfg` | `MCCallRecords` | `ScoreHonoured` |

* `OnlyBriefRejected`. `Expires: 0` with a contact that is not `*` and has no `expires` of its own is
  answered 423. The comment above the test (`registrar.go:214-220`) allows 423 "if and only
  if the requested expiration interval is greater than zero".
* `FallbacksMapped`. `Validate` looks at the endpoint of every entry ("Check do dids have mapping
  correct", `config.go:226`) and not at those of its fallback. The call that reaches a
  missing one ends (`pbx.go:1015-1017`). `NothingDangles` is what does hold: the routes, and the
  endpoints entries dial first.
* `AnyRegisteredReached`. "Any register user will be reached", says `diagox.yaml:40` of the default
  route. A callee who registered and is no endpoint of type `user` is not looked up, the
  environment's target is dialled (`routing.go:157-163`, `pbx.go:1059-1061`).
  `RegistryDialsTheCallee` is what does hold: who is looked up is the callee, and every
  callee that is such an endpoint is.
* `OriginatorHonoured`, `ScoreHonoured`. The history page offers `orig_call_id:<originator call id>` and
  `mes: <0.0-1.0>` (`frontend/history.html:12`). The first compares the call's own ID
  (`cdr_storage.go:124`), the second is parsed and never looked at. `PageFaithful` is about
  the other filters and the dates.

`NobodyWaits` speaks of the caller and of the routed endpoint (`leg[c][0]`), not of
fallbacks, because of `cb_leg`; `HangupPropagates` neither, and it promises nothing
when the one who hangs up is a fallback, whose dialog is closed by then.

### What a property excepts, and why

* `NobodyWaits`, `OnlyFallbacksAtFault`, `HangupPropagates`: a party whose own Hangup was tried
  and failed. The code has nothing else to try (`pbx.go:183-185, 672, 986-988`).
* `FileCurrent` has three gaps, each with the moment it begins and ends: a write under
  way has truncated the file; a takeover that had read the file of an earlier
  process empties the one this process wrote (`dialog_cache_file.go:90`), until the next
  write; a write failed, until one does not.
* `AnsweredIsCached` says which answered dialogs are not in the cache, no more and no
  fewer: those that a takeover made and then deleted under the same ID
  (`dialog_cache_file.go:63`). An incoming call that is taken over once is cached.
* `OrphansAreKept` names the step of every loss: the node dies during one of the gaps of
  `FileCurrent` or having dropped the dialog; an INVITE of the takeover fails and the rest
  of its list is given up; the node with the list dies; the dialog's own node starts
  again before its file is read; a takeover empties what it has not read.
* `PageFaithful`: what was stored before the ring last started over is not shown. Right
  after a wrap that is all calls but one. No text of the repository says how far
  back the history goes.

### What else a reader of the code should know

The models do as the code does in these places; for these no text of the
repository was found that says what is meant, so no run calls them wrong.

* A dialog of a flow connection that ends deletes the alias `last` whoever holds
  it (`flow_rpc.go:400`): `Reachable` asks of the alias only that it is not stale.
* A 200 lists every contact of the request with the interval granted, those that it
  withdrew with `expires=0` included (`registrar.go:254-258`).
* `DeleteDialogNode` ignores its `nodeID` (`dialog_cache_file.go:63`). A second takeover
  of an incoming call stores a dialog under the ID that it then deletes.
* `ReInviteDialogs` does not ask whether a dialog of the file is over, or was taken over
  before (`pbx.go:339`, a TODO); the model invites those too.
* The option `Offset` of `CDRRead` has no effect.
* `parseSIPTrace` searches for the text `Call-ID:`, which `X-Orig-Call-ID:` ends with, and
  `TrimLeft` takes a set of characters: a message is never found by the ID of the
  call it belongs to through its `X-Orig-Call-ID` header.
* A file with several endpoints of type `user_dynamic` is refused by `Validate` and
  served all the same, with the first of them; likewise of several default
  endpoints the first is the only one considered, even if its transport does not
  match.
* A route with match `prefix` and no number takes every number and then counts as
  no match (`routing.go:118`).

### Bounds, and why they are enough

* Goroutines: the races of the limiter need one that swaps and one that counts,
  or one that is refused and one that its increment refuses; the third is there
  to hold a place meanwhile. `Max` 3 admits two (`current < Max`), so both
  outcomes happen with three goroutines. The proofs have no such bound.
* `MaxClock`, `MaxArrivals`: two seconds for a change of second; four INVITEs so
  that a goroutine comes back after each way out. `Block` gets its whole timeout
  (`Arrive` does not start one that the clock could not end).
* `CallBridge`: calls share the limiter, the gauge and the bridges and nothing else, so
  `cb_shared` has two and no fallback; everything about one call is in `cb_safety`
  with two fallbacks, so that one fails before the other answers. There the endpoint is
  dialled and not a flow endpoint, which would leave `HuntsInOrder` nothing to say of
  the caller; the flow endpoint is in `cb_shared`, and its waits in `fr`.
* `FlowRPC`: the pool is the code's, of 2, and there is a third connection, which is
  refused until one of the first two, in either order, leaves; and comes after it. One
  dialog is enough for that. Dialogs interact through the maps of one connection, so
  two of them share one in most of the run; on two connections they show that each
  is registered in the map of its own. `Few` in `MCFlowRPC` keeps these instances apart,
  `InOrder` takes one order of connections and calls for all; both hold back
  only the agent and the callers, so the fairness of `FewSpec` is that of `FairSpec`. The
  channel's capacity is 1 instead of 10, so that two messages reach it.
* `Registrar`: requests differ from an ordinary one in one or two respects
  (`AllRequests`), one for every branch of the handler.
* `Routing`: three endpoints, so that one may come between two in the file or
  in precedence; addresses 1 to 4, of which ranges cover two; numbers of up to two
  symbols tell a prefix, a part and the whole apart. Every triple of kinds of
  endpoint is tried, files that fail to load or to validate included. The users with
  a binding are some with an endpoint and one without.

* `CallRecords`: seven writes start a ring of three slots over twice, with a wrap in
  the midst of a find; `PageCap` 4 asks for up to one row more than fits, since the loop
  ends for a full page, for the start of the ring, or for a slot not yet written.
* `DialogCache`: two nodes, since a takeover is by another one; one call of each
  direction, since the loops of Serve treat them apart and `ReInviteDialogs` makes
  an outgoing one of an incoming; three crashes, so that a call is taken over from
  the node that took it over and the node that reads a file is gone too. The only
  ID an incoming call ever changes to is reached with `MaxMoves` 1. While there are two
  calls one node goes down (`Brief` in `MCDialogCache`): the two loops of a shutdown need no
  other to go wrong.

`Calls` are symmetric in `cb_shared`, nodes in `takeover`; neither checks liveness. The
runs do not check deadlock where all goroutines may have finished, which is where
the bounds end.

### Fairness

* `rl_active`: weak fairness of each goroutine's own steps and of the clock. Go
  schedules runnable goroutines and time passes; nothing is assumed of callers
  or of which ready case a `select` takes.
* `cb_safety`: weak fairness of `Goroutine(c)`. Every call into diago is bounded
  by a context or by a timer of the transaction, so each returns. The timer of
  six hours is not assumed, nor that the end of a closed dialog is noticed, nor
  anything of the parties.
* `fr`, `fr_reader`: weak fairness of each reader and each dialog goroutine. The
  agent, the network and the caller owe nothing.

## 4. The proofs

Every component has a proof module. What it proves holds for all values of the
constants that satisfy the named assumptions of its module: finite sets of
goroutines, calls, nodes; natural numbers for limits and capacities; requests and
files of the right types. Every safety invariant, every action property and every
refinement that a passing run checks is proved. `PROJECT.json` lists the theorems.

Each proof has the same shape. `IInv` is the inductive invariant; `Initially` and a
lemma per action (or per action and conjunct, where several disturb it) give
`Invariance == Spec => []IInv`; the theorems about the properties follow from it, those about a
step (`OrphansAreKept`, `ShutdownHangsUp`, `HandlersEnd` and the refinements) from it and a lemma about
the step.

* `RateLimiterProofs`. That `activeCount - 1` is still a natural number needs to know
  who incremented it, so `IInv` has `ActiveAccounted` (the counter is the cardinality
  of the goroutines that hold a place or are giving one back) and `EpochBounded`. A
  step changes that set by one goroutine at most. The refinement maps `holders` to
  `Holding`: an increment that is given back never was a holder.
* `CallBridgeProofs`. `CallSound(c)` says of a single call which defers are installed at
  each label (`DefersSound`), which leg `outDialog` is, which legs may be live, whom
  the defers have hung up, or failed to (`GoneSound`), by the time a given number of them
  is left, and what the records say by then. `SharedAccounted` follows from the number of defers
  alone. Because a step of one call leaves the others' state alone (`Frame`),
  everything but `SharedAccounted` is proved of one call. `CallService` is then implemented by a
  mapping from the bridge, the media in it and the incoming record.

  `OnlyFallbacksAtFault` is about the end of a call, so `FaultSound(c)` says what leads there: a
  live callee is always the one `outDialog` is, `outDialog` is the routed endpoint until a
  fallback is tried, and nil only between a fallback that failed and the end. It is
  inductive on top of `CallSound`.

  `HandlersEnd` is proved from a measure, `Left(c)`: 26 steps and two per fallback still to be
  tried. `Onward` lists the labels each label leads to, `Nearer` shows that all of them are
  lower in the measure, and the one loop, from a fallback that fails to the next one, pays
  with the fallback (`h[c].next` grows). This is the part of `HangupPropagates` that needs no
  fairness: with weak fairness of the goroutine, a measure in Nat that falls with
  each step leaves only the waits to worry about, which TLC checks.
* `FlowRPCProofs`. The invariants the runs check are inductive together. That the slice
  keeps its capacity and each connection its one place is proved of `Without`, which
  moves what follows one place to the front. With them goes `OnSound`: a dialog has its
  connection from `Load` until it returns, and
  `ByeOnlyWhenEnded`, which the run has as part of `AgentService`. `AgentService` is
  implemented by translating the label of `NewServerDialog` into a stage (`StageOf`): the
  agent has the call from its answer to the invitation until the first defer. That bye
  is said once and before the call is given back takes `ByeInOrder`, which ties the
  byes to the labels of the first defer, and that a request is served only of an agent
  who has the call is read off the labels (`RequestServed`).
* `RegistrarProofs`. `Checked` (a request past the headers has a proper interval),
  `LongEnough` (what the registry holds), `Promised` (what an answer says was proposed) and
  `Settled` (the interval answered is the one recorded until another handler writes) together
  give `GrantHonoured`. That the interval granted and the first contact exist
  is the existence of a least element of a finite set of numbers, from
  `LeastElements`, which proves it by a minimal counterexample. The refinement maps
  a binding to the address a call to its user would dial.
* `RoutingProofs`. `Done` is the part of the file passed over. `Indices` says that the
  users in the index are the users of `Done` in the order of the file, the rows those
  of its addresses with orders that agree with the file (`InOrder`), and the dynamic and
  default endpoints the first of `Done`. `Precedes` is a total order on the
  endpoints, so each step appends to the end. From an index that agrees with the
  whole file it follows that `MatchedEndpoint` is the source with precedence: the
  lemma splits on the four classes of endpoints. `Judged` (`valid` is what `Validate`
  says of the present file) and `RouteTaken` give `NothingDangles`, `NotDialled` (no target before
  the first step of dialling) gives `RegistryDialsTheCallee`.
* `CallRecordsProofs`. `RingOrdered`, which gives each slot the number of its entry, is
  inductive with the types, and so is `FindFaithful` on top of it. The refinement
  reads the ring from the slot after `end` and around; a write drops the
  oldest and appends the newest, by cases on whether the ring has started over and
  whether this write starts it over. `PageFaithful` is inductive slot by slot: the rows of
  a page are the entries asked for that lie above the slot the loop is at, newest
  first. What the filters of a form let through is what the form asks for
  (`PassesAsked`), because of two filters on one field the last one counts; that there
  is a last one is the existence of a greatest element.
* `DialogCacheProofs`. `FileSound`, `Cached` and `Ghosts` strengthen `FileCurrent`,
  `AnsweredIsCached` and `GhostOnlyLate` by what is in progress: a takeover that reads,
  stores and deletions that are due. They rest on `RegSound` (what a dialog's state
  says of its registration), `HomeSound`, `LeftSound`, `NoOrphanFiled` and `TakerSound` (where a
  takeover is and what it has left). `HangsUp` says what each of the two loops has yet
  to visit, with what failed and what is new. Two lemmas carry the steps: `DialogMoves`
  lists the nine ways in which a step may move a dialog, `CacheSteps` what a step may do
  to a cache and its file; each part of the invariant is then proved of those and not
  of the twenty actions. `OrphansAreKept` follows from the invariant and the same lists.

Only model-checked: the liveness properties `BlockReturns`, `HangupPropagates`,
`CallerReleased` and `InviteReaderFreed` (liveness under fairness is outside what
tlapm proves), and the disagreements above, each of which is a counterexample.

## 5. What is not modelled

* Formats of messages, SDP, media, audio files; templates and JSON of the HTTP
  server; the YAML, transports and environment of the configuration; bootstrap,
  demonstration dialplans, WebRTC and STUN settings, the table of reason texts. They
  are conversions, wiring done once, or calls into libraries.
* Authentication beyond its outcome: the digest challenge is kept by diago, the
  bearer token is checked by an HTTP request. `AuthorizerDigest` (`auth.go`) has a map of
  challenges of its own, but nothing in `src/` makes or asks one.
* What the defers of a handler still do when the process exits at the end of
  `Serve`: `DialogCache` has the loops, `CallBridge` the defers, and they are not composed. The
  shutdown's context of five minutes is not a state of `DialogCache`.
* What diago does with a dialog that is closed and not hung up: `CallBridge` leaves open
  whether its end is noticed.
* `RegisterBindingContactDelete`, `Router.Route` and `RouteDialog`, which nothing in `src/`
  calls; `CDRPiper`, which only a test uses that is commented out.
* Data races below the steps of the models: the index that several
  goroutines may build and store at once if the file failed to load
  (`routing.go:224`), and writes of a websocket by several goroutines, whose frames
  could interleave. The models take the index for stored whole and a message for
  written or not.

## 6. Plan

What is left: `DialogCache` composed with `CallBridge`, for the handlers that are still
running when `Serve` returns, and which records of theirs are written.
