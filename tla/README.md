# Formal models of DeepSeek Harness Remote

DeepSeek Harness Remote lets clients (desktop, Android, browser, VS Code) use an
agent harness on another machine, the *Host*, through a *Server* that only
routes. Control frames travel over WebSockets to the Server; business data
travels end to end encrypted (Noise IK) over a WebRTC data channel or a Relay.
This directory holds TLA+ models of the parts in which ordering, failure and
concurrency decide whether that works, TLC runs of them, and TLAPS proofs.

## 1. The system

| Component | State | Operations | Hard behaviour | What makes it correct |
| --- | --- | --- | --- | --- |
| **Host tunnels** `packages/plugin/src/server-connection.ts` | `tunnels` (per connection: path, RTC object, data socket, parked handshake, channel, lease), the control socket and its serial frame queue | `handleConnectIncoming`, `handleSignalOffer`, `handleTransportSelected`, `handleHandshake`, `handleRtcOpened/Failed`, `openDataSocket`, `dropTunnel(s)`, `connectOnce` with `finish` | every handler awaits something while callbacks drop the tunnel under it; frames in two orders; outage with some tunnels leased | one data plane per bound channel, no live transport off the table, no lost first request, one client's failure stays its own, leased tunnels survive an outage |
| **Connection controller** `packages/plugin/src/connection-controller.ts` | `active`, `acceptQueue` | `accept`, `disconnect`, `revoke`, `close`, failing sends and requests | accepts are serial but await disconnects; drops and revocations run in between | one active connection per client device; the controller never waits on its caller |
| **Control lease** `packages/webrtc/src/control-lease.ts` | deadline on two clocks, request in flight, ticket, counters | `tick`, `acknowledge`, `valid`, `stop` | suspended timers, clock steps, lost, late and repeated acks | data is used for less than one lease after authorization ended; every lease runs out |
| **Gateway** `apps/server/src/gateway.ts` | `peers`, `links`, per-socket connection state, `closed` | upgrade, hello and its deadline, heartbeat, `connect.*`, `secure.handshake`, `relay`, `transport.selected`, `drop`, `disconnect`, `close` | `send` to a slow peer disconnects it in the middle of a loop that drops links; late frames and close events of replaced sockets; shutdown | links join the sockets they were made for; ends are told; replaced sockets cannot hurt their successors |
| **Store** `apps/server/src/store.ts` | devices, token digests, one JSON file | `register`, `issue`, `refresh`, `invalidate`, `revoke`, `touch` | save after the change, rotation with reuse detection, restarts, lost responses | a refresh token is used once; an invalidated device stays invalid |
| **HTTP API** `apps/server/src/server.ts` | login attempts per address | login, registration, device list, refresh, revoke | limits under load | the Store's operations run once per authorized request |
| **Adaptive transport** `packages/webrtc/src/adaptive-transport.ts` | control socket, data mode, RTC object, data socket, lease, timers | `connect`, the control frames, WebRTC attempt, fallback, `controlLost`, `reopenControl`, `failConnection` | a failure in the middle of any wait; recovery that is itself interrupted, stale sockets and late tokens | it connects or fails once and says so once; the end leaves nothing running; one recovery at a time, which never revives a failed transport |
| **Data channel** `packages/webrtc/src/rtc-data-channel.ts`, `rtc-chunking.ts`, `serial-send.ts` | negotiation, buffered candidates, chunk reassembly, send budget | `connect`, `handleSignal`, `close`, `send`, reassembly | answers, candidates, opens, closes and timeouts in any order, each behind its own await | a channel opens or fails once; candidates are not lost; messages arrive whole, in order, within the budget |
| **Device credentials** `server-api.ts`, `server-credentials.ts` | the credential file, its lock directory, what each API instance caches | `authenticate`, `refreshCredentials`, `authorizeWithAccount`, `revokeCurrentDevice`, `withRefreshLock` | several instances and processes on one file; lost answers; a crash that leaves the lock; sign-in beside a rotation | no used refresh token is presented while answers arrive; the file keeps the live pair |
| **Host control loop** `server-connection.ts` (`run`, `stop`, `resume`) | running promise, retry wake-up | reconnect, stop | stop racing a reconnect, one credential refresh per rejected hello | exactly one control connection; terminal errors end the loop |
| **Client runtime** `client-runtime.ts`, `client-connection.ts`, `client-reconnect.ts`, `typert-gateway-switch.ts` | the connected Host, the authority of the local gateway, virtual workspaces, recovery, generations and abort signals | `setMode`, open, create or list workspaces, agent tools, sign-out, close, loss and recovery | every call awaits several times; carriers close, Hosts are switched and users sign out in between | only the newest selection installs a Host; no open carrier is forgotten; nothing claims a connection there is not |
| **ACP gateway** `packages/plugin/src/acp/gateway.ts`, `peer-bridge.ts` | sessions and their owners, turns, `inboundChain`, `recentFrames`, approvals, streams; per backend its adapter, retries and fence | `call` (load, prompt, cancel), `respond`, `openStream`, `dropPeer`, `handleInbound`, `handleUnavailable`, `reconfigure` | sessions outlive connections and adapters; a crash, a retry or new settings in the middle of a turn; sends that fail one by one | a turn ends and its end is told; output is kept for the next owner; only the owner approves; a backend is not left down silently |
| **RPC router and streams** `rpc-router.ts`, `status-stream.ts`, `control-stream.ts` | pending calls and streams of a peer | `handle`, `closePeerStreams` | close while a call runs | limits hold; nothing is sent after close |
| **Identity store** `identity-store.ts`, `service.ts` | pins of peers | `trustPeer`, `revokePeer` | revocation awaits the disk before it disconnects | a revoked peer is refused |
| Noise, codecs, bridges, tools, user interfaces | | | | see section 8 |

Interaction. A client's `connect.request` makes a *link* at the gateway, which
announces it to the Host (`connect.incoming`); the Host checks the client and
answers, and from then on the gateway forwards signalling, the client's choice
of path and the two handshake frames. The Host's tunnel binds the Noise channel
to the chosen data plane, hands it to the connection controller and only then
sends step 2. With a lease, both ends outlive the control connection until
their last confirmed deadline. On the client, `AdaptiveTransport` is that end of the
link; the client runtime makes one per Host it connects to and sees of it only that
it connects, fails or closes. Before any of this a device signs in once with the
account and then keeps itself authorized with rotating refresh tokens: the API
instances of all processes that share its directory present them to the Store,
which voids the device when it sees one twice and tells the gateway.

The statuses and the list of hazards, each at its line, are in `PROJECT.json`.

## 2. Modules

| Module | Contents |
| --- | --- |
| `HostTunnels` | `HostServerConnection` together with `ConnectionController`, 28 actions |
| `HostTunnelsProofs` | all its safety properties, and that its queues never wait for one another in a circle |
| `BoundedAuthorization` | abstract: what a lease promises |
| `ControlLease` | the lease, its clocks, the network of acks |
| `ControlLeaseProofs` | types, monotony, and the refinement |
| `Gateway` | the self-hosted gateway |
| `GatewayProofs` | the gateway's invariant and its action properties |
| `Store` | the Server's credential store: memory, disk, restarts |
| `StoreProofs` | the Store's invariant |
| `Credentials` | the Store composed with the API instances of one device, the network, the credential file and its lock |
| `CredentialsProofs` | its three invariants, and that the composition implements `Store` |
| `RemoteTransport` | abstract: what a transport promises its owner |
| `RtcDataChannel` | the initiator's end of one WebRTC channel: a record and an operator per event |
| `AdaptiveTransport` | the client's transport, composed with the channel |
| `AdaptiveTransportProofs` | its invariants, and the refinement of `RemoteTransport` |
| `ClientRuntime` | the client's runtime: overlapping calls, carriers, recovery |
| `ClientRuntimeProofs` | its invariants and `NewestWins` |
| `AcpBackend` | one backend of the ACP gateway: adapter, retries, change of settings |
| `AcpGateway` | one session of that backend, composed with it |
| `AcpGatewayProofs` | its inductive invariants, four safety and four action properties |
| `MCHostTunnels`, `MCControlLease`, `MCGateway`, `MCStore`, `MCCredentials`, `MCAdaptiveTransport`, `MCClientRuntime`, `MCAcpGateway` | instances for TLC |

### HostTunnels

The two classes are one module because they share their awaits: the control
queue awaits `connections.accept`, `acceptOne` awaits `disconnect`, and
`disconnect` closes a channel whose `onClose` changes the tunnel table. One
action is one event-loop turn of a handler up to its next await that can
outlast the turn:

- `inMap`, `transport`, `rtc`, `ds`, `parked`, `chan`, `lease` are the fields of
  a tunnel, `carrier` is the data plane the transmit closure of
  `completeHandshake` was made for, `offering` says that `handleSignalOffer`
  is between its lookups.
- `queue` is what the serial `messageQueue` awaits: the device directory
  (`"incoming"`), a Relay attach, a handshake, or `dropTunnel`.
- `acceptQ`, `accepting`, `awaited`, `disc` are `acceptQueue`, and how far each
  `disconnect` is.
- `hsBy` says who called `completeHandshake` and therefore where its error goes:
  to the control queue (which closes the control socket), to `handleRtcOpened`
  (which drops the tunnel) or to `handleRtcFailed` (nowhere).
- `control`, `invalid`, `sweep` are the control socket, `invalidControl`, and
  `dropTunnels` waiting in `connections.close()`.
- `seen` is what the Server delivered, so that it sends only what it can send.

Simplifications: a connection id is announced once (the gateway draws a UUID for
each); LAN, P2P and TURN are one path `"rtc"`; every capability that was offered
is granted (a path that was not granted behaves as `RtcFailed`); microtasks are
not split; malformed frames, relay counters and ICE buffering are left out; the
awaits in `hello.ack` do not block the queue.

### ControlLease and BoundedAuthorization

`mono` and `wall` are the two clocks, `fault` names the one that may go wrong:
`"suspend"` stops the monotonic clock, `"step"` sets the wall clock to any of
`Skews`. The Server is external: it grants any request while authorized, and
whatever it granted may arrive at any time, again and again. The model starts
when `start()` has returned, for one of three endpoints: the Host, a client on WebRTC
(or on the Relay by its control socket), and a client on an independent Relay. They differ in
what they ask the lease. A message is admitted by one `valid()` (`Admit`: `sendNow` and `receive` of the
Host, `send` and the data channel of the client); carrying it is a step of its own (`Carry`), because the
sender awaits the send chain, each chunk's `transmit`, or `waitForRelayCapacity` after it has asked, and does
not ask again; and the client's Relay data socket delivers without asking (`DeliverUnasked`). They also differ
in how they close: a client in the step that stops the lease (`failConnection`), the Host after it has
awaited the end of the RTC connection (`dropTunnel`, `Close`). A closed connection is not followed further, which is why
deadlock is not checked.
`BoundedAuthorization` knows only time, the withdrawal, what is admitted and carried, and the close:
data is admitted before `revokedAt + Lease` only; what is carried was admitted before, or is taken by an
endpoint that does not ask; and nothing is carried after the close.

### Gateway

Handlers are synchronous, so each is one action. The exception that makes the
code hard is inside a handler: `send` to a peer with more than four relay frames
buffered calls `disconnect`, which drops that peer's links, which sends error
frames to their other ends, and so on. `Lost` is the least set of devices closed
under that chain, `Severed` the links that go with it, and `Cut` is what
`disconnect` and `drop` do together. `holds` is a history variable: the links the
peer of a socket was told of and not told the end of.

Time is abstracted: the heartbeat disconnects any of the sockets in `MayFail` and
sweeps any of the links that are not ready. Relay counters are abstracted to
"the frame is refused" (`FrameRefused`).

### Store

`devices` and `tokens` are the Store's state in memory, `disk` what the last
`save` wrote, which `Restart` starts from. Handlers are synchronous, so each is one
action; one that writes twice (`register`) may fail at either write, and so
`RegisterAccepted` has three outcomes. A failed write leaves memory ahead of the disk, as in
the code. A process that dies between two writes leaves the disk a failed write and
`Restart` leave, so crashes need no action of their own. A secret is named by the
pair it was issued in. `answered`, `dead` and `removed` are history: what the Store
told its callers.

### Credentials

EXTENDS `Store`, because the hazards lie between the two: the Server rotates a pair
in one step and the plugin learns of it in another, or never. `Apis` are the
instances, in one process or in several; each has one call at a time (`pc`, `goal`),
with what it `cached`. `lock` is the lock directory: free, held by an
instance, or left by a process that died. A call is `waiting` for the lock,
waiting for an answer (`refreshing`, `registering`, `revoking`), or about to
remove the lock (`returning`, `throwing`). A request that the caller gave up may be served all the same.
`excuses` is history: which kinds of things went wrong, so that a property can say
what must hold when nothing of that kind did.

Left out: OAuth and registration codes (they end in the same unlocked save as
`SignIn`), the two tokens of one pair having different digests, file permissions,
and identity rotation after a removal.

### AdaptiveTransport, RtcDataChannel and RemoteTransport

`RtcDataChannel` has no variables: its operators are what the class does at each
event, and `AdaptiveTransport` applies them to `rtc` and looks at `result` and `closes`
(`RtcBecomes`), as `negotiate()` and the close handler do. `End` is `failConnection`;
every guard of the code that calls it is an action. `socket`, `sockets`, `owed` are
`this.socket`, how many control sockets exist, and the frame the Server has to answer;
`negotiation` is the await `negotiate()` is in, `reopening` that of `reopenControl()` for
an access token, which settles later whatever happened in between. `options` is chosen
at the start among all that the owner may ask for and the Server grant.

Left out: `send` and its byte counters, `ping`, handshake frames passed to the layer above,
diagnostics; chunking and telemetry of the channel. The lease is the one of `ControlLease`
without its clocks: its deadline passes, or a reply moves it. A transport is used once, which
is what its owners do. `RemoteTransport` knows four phases and the number of times its
end was told.

### ClientRuntime

A *task* is one call under way (`setMode`, an open, a listing, a tool); an action is
what it does between two awaits, and any task may take the next. `stage` says which
await it is in, `carrier` the `ConnectedRemote` it holds, `previous` the one `setMode`
replaces, `aborted` its AbortSignal, `outdated` that `codexOpenGeneration` moved on. `carriers`
lists every carrier in the order they were opened, with the Host of those still open;
`era` counts the calls of `beginSelection()` and is history for the properties.

No order of two calls is excluded: a Harness workspace may finish opening while another Host is being
selected, and then makes its carrier recoverable again (833). What follows is in the model, and
`client_overlap` shows it. `recovered` is history, the carriers a recovery opened: `setMode` reads the carrier it
replaces before an await (421), so one that a recovery installs in between stays open and is nobody's, and
`NoOrphan` is about the carriers that calls open.

Left out: the preview (its close is an await and nothing else), feature probes, the
status stream, notes about authorization; the compatibility check is one
of the reasons why `ConnectFails` or `RecoveryFails`; a tool that shares the
connection of the Host it asks takes none of its own.

### AcpGateway and AcpBackend

`AcpBackend` is what happens to one backend whatever its sessions do: `instance` is the
adapter in `backendInstances` (adapters are numbered), `ready` its `isReady()`, `fenced` the
entry in `pendingReconfiguration`, `timer` and `attempts` the retries, `launching` who awaits the
launch in flight, `settling` the suspended calls of `handleUnavailable`, `reset` the await that
`reconfigure` is in. `AcpGateway` joins the actions of it that touch sessions (`Crash`,
`FailSessions`, `ForgetSessions`) with one session: `owner` and `bound` are its entries in
`sessionOwners` and `sessionBackends`, `current`, `preparing` and `cancelled` those of the turn, `turns`
follows every prompt that was accepted, `buffer` is `recentFrames`.

An action is what a handler does between two awaits, and a promise that is settled is
continued before the next event (`Next`). `chain` is `inboundChain` as a queue: its head stays while its
frame is being sent, and a turn that awaits the chain leaves a mark (`Mark`). `wire[c]` are
the frames a connection has yet to send, with who waits for each: the chain, a turn, or a
replay, whose further frames are in `replay[c]`. Sends of a connection that is gone fail one by one.

The adapter is `CursorAcpProcess`; the others have the same interface. Of other
backends it is chosen whether one of them answers and whether its processes can be stopped.
Left out: `close()`, `session/new`, archive, catalogs and history, models, permission presets,
workspace tools, transfers, frames that are too large, the limits and the age of the buffer, catch-up
lists, stream limits, disabling the backend, a cancel when no turn is in progress,
an adapter that dies between its start and its installation, two changes of settings at
once (`service.ts` makes them one after the other).

## 3. Runs

| Run | Instance | Shows |
| --- | --- | --- |
| `tunnels` | 2 connections of 1 peer; the second with WebRTC, Relay assignment and tickets; reordered and repeated handshakes; 1 outage; revocation; stream cleanup that may fail | 4 invariants, `QueueDrains`; 579 thousand states |
| `tunnels_isolation` | 2 peers, one with a Relay assignment | `FailureIsolated` is violated (section 7) |
| `tunnels_ghost` | 2 connections of 1 peer with WebRTC | `ActiveIsOpen` is violated |
| `lease` | lease 3, period 1, freshness 2, 6 time units, 2 requests, either clock wrong, three kinds of endpoint | refinement of `BoundedAuthorization`, `RunsOut`; 384 thousand states |
| `gateway` | a modern and a legacy, revocable host, clients with 2 sockets and 1, of which one stalls and fails; 3 sockets at most, 2 links | 4 invariants, `HealthyKeepsPlace`, `NegotiationEnds`; 265 thousand states |
| `store` | 3 devices for 2 places, 5 tokens before issuing stops, 4 pairs, 1 failed write, 2 restarts among three configurations, 2 time units | 5 invariants; 124 thousand states |
| `credentials` | 2 instances, 3 calls, 3 pairs, 1 crash, 1 failed write, 1 restart of the Server, 2 time units | 3 invariants and `CallsEnd`; 537 thousand states |
| `credentials_overlap` | the same without failures | `RotationKeepsNewer` is violated |
| `adaptive` | every mode: WebRTC, Relay, independent Relay, recovery, in every combination; 2 candidates | 3 invariants, refinement of `RemoteTransport`, `ConnectSettles`, `RecoveryEnds`; 3,883 states |
| `client` | 2 Hosts, 2 tasks, 3 carriers, 2 explicit selections | `NoPhantomAuthority`, `NoOrphan`, `NewestWins`; 1.6 million states |
| `client_overlap` | the same | `RecoveryIsHarness` is violated |
| `acp` | 2 connections, 2 turns, 2 chunks, 1 approval, 1 retry, 1 change of settings, 4 events in all | 4 invariants, `NeverParked`, `NoDeadStream`, `FramesKept`, `EndIsTold`, `TurnsEnd`; 183 thousand states |

The runs repeat no property that is proved for all constants and says little more than its guard:
the types of `HostTunnels`, `ControlLease`, `AdaptiveTransport` and `ClientRuntime`,
`SelectionImmutable`, `RenewalMovesForward`, `ShutdownTellsNobody` and `CandidatesReachPeer` are
theorems only.

Why the bounds are enough. In `HostTunnels` tunnels interact only through the
controller's per-peer replacement, the accept queue and the shared control
socket; two connections of one peer exercise all of them, and the second one
has every kind of transport. Connections of different peers interact only
through the control socket, which the violation runs cover, and the proofs hold
for any number of both. `lease` keeps the order period < freshness < lease of 25 s, 30 s
and 300 s and leaves room for a revocation, a lease and a late ack; two requests are one that is in flight and the
one that supersedes it. In
`gateway` the chain of disconnects needs a slow host, a slow client and two
links; the limits are `MaxSocks` and `MaxLinks`. With one link per client no instance
fills the link table, so the refusal at 256 links is modelled but not reached.
In `store` three devices are needed for a full table beside a device that may
still register; two restarts change a configuration and change it back; with three
pairs issued the table is past its five tokens and a fourth is refused. A registration lasts two units and an access token
one, so both expire while the other devices' stand. In `credentials` two instances
suffice for every exchange over the file, and three calls for a rotation whose answer is lost,
a second one by the other instance and a sign-in between; each bound of 1 (crash, failed write,
restart) is one fault in addition to any number of lost answers. `adaptive` is small because a
transport is: it has no bound but the two candidates, which are enough for one before and one after the
answer; losses, tickets and recoveries repeat without limit. In `client` two tasks
overlap in every pair of awaits; three carriers are the old Host's, the new one's and
a third that comes too late, or a tool's; two selections are one and what supersedes it.
The proofs hold for any number of all of them. In `acp` an event is what the environment begins: a
prompt, a frame, an approval, a load, the loss of a connection, the death of an adapter, a change of
settings; four of them in any combination are a turn with its output, the crash or the loss, and what the
client does next. A change of settings counts as many (`ResetCost`), because it takes five steps that everything
else interleaves with. Two connections are the old owner and the next, two turns one that was
cancelled and its repetition.
Symmetry is used in `store`, whose devices are alike, and in `client`, whose Hosts and tasks are, and
neither run has a liveness property.

Deadlock is not checked: ids, sockets, pairs and calls are used once and run out, a
closed Server, a closed connection and a closed transport do nothing more.

## 4. Properties

The properties are defined, with the code they are about, at the end of each
module. `PROJECT.json` lists for each one a mutant, a plausible bug in a mapped
definition that makes TLC report it (a tunnel that is not looked up again after
an await, a connection that is forgotten instead of disconnected, a deadline
counted from the reply, a table entry overwritten without a disconnect, ...).

## 5. Fairness

- `HostTunnels`: weak fairness of what the Host itself runs to completion: the
  directory lookup and the data attach end (both have deadlines), `closePeerStreams`
  returns or throws, an accept goes on when what it awaits has settled. No frame,
  callback or reconnection is assumed to happen.
- `ControlLease`: time passes, the interval timer set in `start` fires, and a Host that drops a
  tunnel gets to the end of it (`dropTunnel` catches what fails on the way). Requests, acks and data are not fair.
- `Gateway`: the heartbeat interval runs until shutdown and finds each link that stays
  unready older than 30 seconds. No peer is assumed to do anything.
- `Credentials`: the request timer and the lock deadline fire, and the file operations that
  release the lock end. Nothing is assumed of the Server, of the network, or of whoever
  would remove an orphaned lock.
- `AdaptiveTransport`: the timers of the handshake, of the attach and of the negotiation fire, the
  requests with a timeout of their own (ICE servers, statistics, the selected path) end, the lease's
  interval runs, and time passes for a lease that nobody renews. No frame, no socket event, no
  answer of the host, the network or the source of tokens is assumed.
- `AcpGateway`: the chain of promises goes on, a preparation and a request to the adapter end by their
  timeouts (60 seconds and 10 minutes, cursor-process.ts:136), a send ends or its connection does. Nothing is assumed
  of clients, of adapters, of retries or of the user.
- `Store` and `ClientRuntime` have no liveness property.

## 6. Proofs

TLAPS checks every theorem for all values of the constants that satisfy the
named assumptions (`TunnelsAssumption`, `LeaseAssumption`, `GatewayAssumption`, `StoreAssumption`, `CredentialsAssumption`,
`AdaptiveAssumption`, `ClientAssumption`, `BackendAssumption`, `GatewayAssumption` of `AcpGateway`), which say only what kind of values the constants are. TLC evaluates them in the runs.

- **One active connection per peer** (`OneActive`). `OneActivePerPeer` is not
  inductive: what matters is the moment after `acceptOne` removed the old
  connections and before it registers the new one. The invariant `AcceptInv` adds
  that while `accepting`, no active connection belongs to the peer of the head of
  the queue; every other action only removes connections from `active`.
- **One data plane** (`PathExclusive`, `SelectionStays`). `PathInv` says for each
  connection that a tunnel is announced only once, that the path and the RTC
  object of a live tunnel agree (WebRTC has one, the Relay has none, neither is a closed
  one), and that a bound channel has the carrier of its path. The announcement
  is needed because a second one would give a bound channel an undecided path.
  Each action either decides the path of a connection without a channel, or
  only lets parts of tunnels fade (`Fades`).
- **Nothing is lost or left behind in the Host** (`RepliedAreServed`, `NothingIsLeft`). Both follow from what every
  step may do. `Serves`: nothing leaves `active` but by a disconnect, and step 2 is sent only for what is registered,
  whether or not its channel is open. `Clean`: without a control connection the
  queue is idle and a step only takes tunnels away or stops their lease (`Leaves`); a lease is given only when
  step 2 could be sent, that is with a control connection.
- **The Host's queues do not wait for one another in a circle** (`AwaitedIsBegun`, `NeverStuck`), the safety core of
  `QueueDrains`. `LineInv`: a channel joins the accept queue once (it has none before, and keeps it for ever), and
  `completeHandshake` is in `accept()` exactly while it stands there. `QueueAwaitsSomeone`: the control queue awaits a
  handshake exactly while one that it began itself is in `accept()`, a drop only while streams are being closed, and what
  `acceptOne` awaits is being disconnected. So whenever a frame is being handled, the guard of a step the Host runs to
  completion by itself holds (`SomebodyGoesOn`). Each step leaves the accept queue alone (`Stands`), or one
  channel joins it or departs from it. TLC finds `LineInv` and `QueueAwaitsSomeone` to hold on the instance of `tunnels`.
- **The lease implements its promise** (`LeaseIsBounded`). `LeaseInv` has three
  parts: the order of requests, tickets and deadline (`Order`), what is known of the
  clock that is right (`GoodClock`), and, after a revocation, that by this clock neither
  the deadline nor a granted request in flight counts from a later time (`Granted`).
  Whichever clock is wrong, `Passed` is a disjunction, so the right one suffices. `Admit` is the only step that
  needs this; `Carry` needs that a message under way was admitted, and closing takes it away.
- **The gateway's tables** (`LinksAreBound`, `EndsAreTold`, `LinksAreSingle`, `HealthyStays`, `ShutdownIsSilent`). `GatewayInv` ties tables, socket states and
  links together. The chain of disconnects needs no induction: `Lost` is an
  intersection of closed sets, and the lemmas use only that what it disconnects is
  registered, and that the links of what it disconnects are severed.
- **The Store** (`StoreTypes`, `RefreshIsOneChain`, `CredentialsAreDurable`,
  `VoidIsForGood`, `RemovalIsForGood`). Memory and the disk each satisfy `Sound` (tokens of active devices
  only, one unused refresh token and one horizon per device, nothing dead), which is what a restart
  needs to start well. In between, `Owned` says that a pair belongs to one device wherever it is
  recorded, `Durable` that memory and disk agree on pairs that were answered, and `Numbers` that
  pairs are numbered up to `pairs`. The failing writes make these necessary: after one, memory and
  disk are two different sound states.
- **The credentials of a device** (`CredentialsTypes`, `CredentialsImplementStore`, `ReuseNeedsALoss`, `QuietFileStaysLive`). Five
  invariants, each on top of the ones before it. `Calls`: calls are numbered as they begin, and the lock directory is there exactly
  while an instance is between acquiring and removing it, or died there. `PairInv`: what travels or is kept names a pair that was
  issued; with it every step is one of `Store`, whose invariant then holds here too. `NetInv`: each request is sent
  once and is on its way, answered or gone, and whoever does not await an answer any more has left its excuse. `Rotation`:
  as long as no answer to a rotation was lost, the pair on file is spent only while the answer that
  replaces it is on its way, and the holder of the lock presents one that is not. `QuietInv`: when nothing went wrong, whoever
  signs in or out is alone, and what is on its way to an instance works.
- **The client's transport** (`AdaptiveTypes`, `EndLeavesNothing`, `RecoveryIsSingle`, `DetachedSessions`,
  `CandidatesAreKept`, `AdaptiveImplements`). The inductive invariant ties the stages of a lifetime together:
  which waits, timers and sockets go with which stage, that a session has a lease
  only once it is established and is detached only with a confirmed one and a data plane that lives, and
  that the channel of a transport that is over is closed. Each handler either ends the lifetime
  (`End`, one lemma), loses the control connection (`Lose`, another) or changes one part. For the refinement every step is a
  step of `RemoteTransport` or a stutter, because whatever is told is told by `End`, once.
- **The client's runtime** (`ClientTypes`, `NothingIsPhantom`, `NewestIsInstalled`,
  `NothingIsOrphaned`). `Sel` is the inductive invariant: at most one selection is alive, and it carries the current
  era; a recovery that runs belongs to a Host that was lost after that era began; and what a selection is about to
  install is newer than what is installed, unless a recovery came in between (`Newer`). `NoOrphan` needs in
  addition that the newest carrier, while open and opened by a call, is held (`HeldNext`). No theorem assumes anything
  about which calls overlap.
- **The ACP gateway** (`TypeCorrect`, `BackendNeverParked`, `OwnersAreLive`, `AdapterRunsOneTurn`, `AwaitedIsUnderWay`,
  `StreamsAreAlive`, `EndsAreTold`, `FramesStay`).
  `IInv` has five parts. `BackendInv` says at which stages of a change of settings the backend is fenced or down, and
  that nobody launches what is ready; with it each step of the backend keeps it `Tended`, or is the throw
  (`BackendStaysTended`). `SessionTypes` are the types of the session. `AccessInv` ties owner and approvals. `FlowInv` is about who waits
  for whom: the marks of turns in the chain are those of turns that drain, each once (`ChainInv`), a send for the chain is
  the one of its head (`ChainSends`), a turn that tells its end has one send (`TurnSends`), and a replay with frames left has one under way
  (`ReplaySends`). `TurnInv` says that a turn which is being prepared for, or runs in, the adapter that is up is the
  current one unless its preparation was cancelled; `OneTurn` follows.
  The other three need more. `EndsAreTold` follows from `FlowInv`: a turn tells its end with the one send that is its own.
  For `FramesStay` each of the four places of a frame (`OnChain`, `OnWire`, `OnReplay`, `InBuffer`) has lemmas on what its queue
  keeps when it grows and when its head is taken; what the head was sent for says where the frame goes when the send fails.
  `StreamsAreAlive` has an invariant of its own (`CalmInv`): an adapter speaks of a session that has a backend, or stands
  behind a fence, and the fence stands until its adapter is gone (`FenceHolds`). So whatever opens or keeps a stream does
  it for a session that is served, in progress or being replayed, and every step that takes one of these away closes
  the stream, but for the two that `NoDeadStream` names (`StreamsKept`).

Every invariant and action property of a passing run is a theorem. Model-checked only are the seven liveness properties
`QueueDrains`, `RunsOut`, `NegotiationEnds`, `CallsEnd`, `ConnectSettles`, `RecoveryEnds` and `TurnsEnd`: fairness and ENABLED
are beyond the prover. For two of them the safety core is proved, that somebody can always go on: `NeverStuck` and
`AwaitedIsUnderWay`.

## 7. Where code and documentation disagree

Each of these is a run that TLC finds violated, with the documented statement as the property.

1. `FailureIsolated`: a Host that drops a tunnel on its own (a failed Relay
   attach) meets the client's handshake already on its way, throws in the shared
   control queue and closes the control connection of all clients.
   docs/network.md:171 promises that other clients are not affected. The same catch (335) takes the loss of
   the control connection for an "invalid control frame" when a handler answers afterwards, and `finish()` then drops
   tunnels with confirmed leases too (264-269), although docs/design/webrtc-control-recovery.md:15 says they are retained.
2. `ActiveIsOpen`: a channel closed while `acceptOne` awaits the connections it
   replaces is registered afterwards and stays until its next send fails.
3. `RecoveryIsHarness`: a Harness workspace that finishes opening while another Host is being selected makes
   its carrier recoverable again (client-runtime.ts:833). When that carrier closes, the recovery that starts is not
   called off by the selection, whose `beginSelection()` was before it, and puts the old Host's Harness in place of what was
   opened meanwhile, although the comment at 990 says that CodeX and ACP are never replaced with Harness
   authority after a disconnect.
4. `RotationKeepsNewer`: a sign-in does not take the refresh lock. When it overlaps a
   rotation that the Server answered first, it saves its newer pair, and the rotation, late,
   saves its void one over it. server-credentials.ts:25 speaks of serializing the whole
   transaction, server-api.ts:357 keeps a delayed rejection from discarding what another
   writer saved, and a delayed success does discard it.

Noted while modelling, without a run:

- A data channel that closes while `connect()` of the channel resolves the selected path is a
  channel nobody listens to yet (rtc-data-channel.ts:538, adaptive-transport.ts:507): `negotiate()` selects WebRTC on it
  (423) and reports a connection, although adaptive-transport.ts:94 says that every failure path falls back
  to the Relay. Add `INVARIANT SelectedIsOpen` to `MCAdaptiveTransport.cfg` to see it.
- Any error frame that a client receives while it recovers its control connection fails the whole
  transport, although its data plane is alive (adaptive-transport.ts:341); `ErrorFrame` has this behaviour.
- docs/network.md:102 says the path is not taken from the Host's own RTC callback;
  `handleRtcOpened` (server-connection.ts:885) does take it from there.
- An authorization lease bounds what is admitted, not what is carried. The Host asks once per message and then
  awaits the send chain and each chunk's `transmit` (server-connection.ts:1183-1189), the client's `send` awaits
  `waitForRelayCapacity` after it has asked (adaptive-transport.ts:187-198), and frames on the Relay's data socket are delivered
  to the client without asking (720; the Host asks, server-connection.ts:1203) until the next tick
  finds the deadline passed; docs/design/independent-relay-control-recovery.md:13 asks for the check on
  every frame. `ControlLease` has all three, and `Bounded` promises what the code keeps: no admission
  after the lease, and nothing at all after the close, which `RunsOut` says comes.
- A request every 25 s supersedes the one in flight (control-lease.ts:51): with a reply
  latency above that, none counts. A pong counts for the last nonce only
  (gateway.ts:355), with the same effect. A refused request at 256 links costs the client its old
  link (gateway.ts:366). A connection announced twice would leave its old transport open
  (server-connection.ts:527), and an error in the handshake that `handleRtcFailed` resumes is
  nobody's (server-connection.ts:739).
- Client runtime: `setMode` reads the carrier it replaces, then awaits the end of the preview (client-runtime.ts:421). A
  recovery of the kind of item 3 that installs a carrier in between is replaced without being closed. `NoOrphan` is
  therefore about the carriers that calls open; the others are closed by the Server.
- A carrier that closes while the preview is being closed is installed dead
  (client-runtime.ts:423, 943). A CodeX and an ACP open of one Host that overlap leave both virtual
  workspaces set (697). `setMode` superseded after it installed the new carrier leaves the previous one
  to the Server to close.
- ACP gateway, where a property says what the code keeps and its comment in the module says what that leaves out.
  (a) After a crash set a retry, a change of any backend's settings calls the retry off (gateway.ts:861); when the processes
  of a changed backend then cannot be stopped it throws (898) before it schedules anything, so a backend stays down
  until the settings are saved again, although the comment at 902 says that a change elsewhere cannot leave a
  backend parked. `NeverParked` says that this throw is the only step that leaves one so. (b) A turn that the
  adapter answered, and whose adapter is replaced while its output drains, ends untold: the success path asks
  `current()` (681), not `accepted()`, although the comment at 670 says that a turn belongs to the session. The
  antecedent of `EndIsTold` is about the turns that failed, those whose adapter is still installed and those
  being told. (c) When the adapter of pi, claude or hermes crashes while a turn is being prepared, the crash keeps the stream
  of the session for the turn's end (1160), and the preparation, which then fails (622-629) or is cancelled
  (644-653), clears the turn without closing the stream, against the comments at 722 and 1158: the client
  listens to nobody until it closes the stream itself. `NoDeadStream` says that only this and a change
  of settings, which fences before it closes, leave such a stream. `AcpBackend` and `AcpGateway` have all these
  behaviours; drop the named disjunct of a property to see TLC find it.
  (d) A frame handled while `reconfigure` awaits the end of the processes binds the session
  again that was just forgotten (1046), or is buffered for it.
- ACP gateway, from reading: a replay sends outside `inboundChain`, so live frames may come in between, and what it had
  not sent yet is lost when its connection goes (849). An answer to an approval that is past its time deletes it without
  telling the adapter (737). A delivery that fails after a crash may answer a request twice (1091).

## 8. Not modelled

Cryptography (a handshake completes or fails), frame schemas and byte limits (a
frame is valid or not), the WebRTC stacks and the native helper, chunking and the send
chains, the RPC router, the Codex and Harness bridges, the ACP adapters but for what the gateway sees of them, workspace, upload, terminal and
preview tools, user interfaces, logging and configuration. Some keep no state that the properties
are about; the others are reached only through interfaces that the models treat as
nondeterministic, and are in the plan.

## 9. Plan

In order of importance:

1. `Session`: `AdaptiveTransport`, `Gateway` and `HostTunnels` composed with FIFO control
   channels; abstract specification: both ends bound to the same data plane, or closed.
   Runs with reconnects and losses of either end.
2. The safety cores of the other liveness properties, as for `QueueDrains`: while a call, a negotiation, a
   `connect()` or a recovery is under way, a timer of its own is set or a step of its own has its guard.
3. `AcpGateway`: `close()`, several backends, and workspace tools.
4. `HostControlLoop`: run, stop, resume, retries and credential refresh.
5. `SecureChannel` and `RpcRouter`: serialised sends, counters, chunk reassembly
   against a reference definition; pending calls and stream limits.
