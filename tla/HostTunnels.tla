---------------------------- MODULE HostTunnels ----------------------------
(***************************************************************************)
(* The logical connections of a Host: the tunnel table of                  *)
(* HostServerConnection (packages/plugin/src/server-connection.ts), the    *)
(* ConnectionController that owns the authenticated channels               *)
(* (connection-controller.ts) and the callbacks that reach both: control   *)
(* frames, handled one at a time and each to its end; WebRTC events, data  *)
(* socket events, lease expiry and failed sends, which run whenever the    *)
(* frame being handled awaits something.                                   *)
(*                                                                         *)
(* A connection id names one tunnel for ever (the Server draws a fresh     *)
(* UUID for each).  LAN, P2P and TURN are one path, "rtc".  Microtasks     *)
(* (rtc.close(), the continuation of a settled accept) are not split: only *)
(* an await that outlives the current event-loop turn is.                  *)
(***************************************************************************)
EXTENDS Naturals, Sequences, FiniteSets

CONSTANTS
    Conn,          \* connection ids
    Peer,          \* client devices
    PeerOf,        \* the client device of each connection
    Offers,        \* connections whose client tries WebRTC
    Assigned,      \* connections announced with a Relay data-socket assignment
    Ticketed,      \* connections announced with recovery tickets
    MayRevoke,     \* peers the operator may revoke
    Reorder,       \* may the Server deliver secure.handshake before transport.selected?
    Repeat,        \* may the first handshake be delivered twice?
    CloseMayFail,  \* may closing a peer's streams fail?
    MaxOutages     \* bound: outages of the control connection

ASSUME TunnelsAssumption ==
    /\ PeerOf \in [Conn -> Peer]
    /\ Offers \subseteq Conn
    /\ Assigned \subseteq Conn
    /\ Ticketed \subseteq Conn
    /\ MayRevoke \subseteq Peer
    /\ Reorder \in BOOLEAN
    /\ Repeat \in BOOLEAN
    /\ CloseMayFail \in BOOLEAN
    /\ MaxOutages \in Nat

VARIABLES
    inMap,     \* inMap[c]: HostServerConnection.tunnels holds c
    transport, \* tunnel.transport
    rtc,       \* tunnel.rtc: "none", or the state of the object
    offering,  \* offering[c]: handleSignalOffer awaits the backend or TURN credentials
    ds,        \* tunnel.dataSocket / dataReady
    parked,    \* tunnel.pendingHandshake
    chan,      \* tunnel.channel
    carrier,   \* the data plane the channel's transmit closure is bound to
    lease,     \* tunnel.lease
    hs,        \* completeHandshake: "none", "accept" (awaits the controller), "done", "failed"
    hsBy,      \* who called completeHandshake, and so who sees it throw
    replied,   \* step 2 of the handshake was sent
    active,    \* ConnectionController.active
    disc,      \* disc[c]: disconnect awaits router.closePeerStreams()
    acceptQ,   \* channels in ConnectionController.acceptQueue, the first one in acceptOne
    accepting, \* acceptOne awaits the connections it replaces
    awaited,   \* the connections it replaces
    queue,     \* what the control frame queue awaits
    control,   \* the control socket: "online", "closed" (not yet finished), "offline"
    invalid,   \* connectOnce's invalidControl
    sweep,     \* dropTunnels is in connections.close()
    trusted,   \* peers with a pin in the IdentityStore
    revoking,  \* revokePeer of each peer: "no", "saving" the pins, "done"
    seen,      \* the Server's frames for c that were handled
    outages

tunnelVars  == <<inMap, transport, rtc, offering, ds, parked, chan, carrier, lease>>
hsVars      == <<hs, hsBy, replied>>
ctrlVars    == <<active, disc, acceptQ, accepting, awaited>>
socketVars  == <<queue, control, invalid, sweep>>
peerVars    == <<trusted, revoking>>
vars == <<tunnelVars, hsVars, ctrlVars, socketVars, peerVars, seen, outages>>

Idle == <<"idle">>
Frames == {"incoming", "offer", "answered", "selected", "handshake", "again", "ended"}
Over   == {"ended"}

TypeOK ==
    /\ inMap     \in [Conn -> BOOLEAN]
    /\ transport \in [Conn -> {"none", "negotiating", "rtc", "relay"}]
    /\ rtc       \in [Conn -> {"none", "starting", "open", "closed"}]
    /\ offering  \in [Conn -> BOOLEAN]
    /\ ds        \in [Conn -> {"none", "opening", "ready", "closed"}]
    /\ parked    \in [Conn -> BOOLEAN]
    /\ chan      \in [Conn -> {"none", "open", "closed"}]
    /\ carrier   \in [Conn -> {"none", "rtc", "relay"}]
    /\ lease     \in [Conn -> {"none", "unconfirmed", "confirmed", "stopped"}]
    /\ hs        \in [Conn -> {"none", "accept", "done", "failed"}]
    /\ hsBy      \in [Conn -> {"none", "queue", "opened", "fallback"}]
    /\ replied   \in [Conn -> BOOLEAN]
    /\ active    \in SUBSET Conn
    /\ disc      \in [Conn -> {"none", "streams", "done", "failed"}]
    /\ acceptQ   \in Seq(Conn)
    /\ accepting \in BOOLEAN
    /\ awaited   \in SUBSET Conn
    /\ queue     \in {Idle} \cup ({"incoming", "attach", "handshake", "drop"} \X Conn)
    /\ control   \in {"online", "closed", "offline"}
    /\ invalid   \in BOOLEAN
    /\ sweep     \in BOOLEAN
    /\ trusted   \in SUBSET Peer
    /\ revoking  \in [Peer -> {"no", "saving", "done"}]
    /\ seen      \in [Conn -> SUBSET Frames]
    /\ outages   \in 0..MaxOutages

Init ==
    /\ inMap     = [c \in Conn |-> FALSE]
    /\ transport = [c \in Conn |-> "none"]
    /\ rtc       = [c \in Conn |-> "none"]
    /\ offering  = [c \in Conn |-> FALSE]
    /\ ds        = [c \in Conn |-> "none"]
    /\ parked    = [c \in Conn |-> FALSE]
    /\ chan      = [c \in Conn |-> "none"]
    /\ carrier   = [c \in Conn |-> "none"]
    /\ lease     = [c \in Conn |-> "none"]
    /\ hs        = [c \in Conn |-> "none"]
    /\ hsBy      = [c \in Conn |-> "none"]
    /\ replied   = [c \in Conn |-> FALSE]
    /\ active    = {}
    /\ disc      = [c \in Conn |-> "none"]
    /\ acceptQ   = <<>>
    /\ accepting = FALSE
    /\ awaited   = {}
    /\ queue     = Idle
    /\ control   = "online"
    /\ invalid   = FALSE
    /\ sweep     = FALSE
    /\ trusted   = Peer
    /\ revoking  = [p \in Peer |-> "no"]
    /\ seen      = [c \in Conn |-> {}]
    /\ outages   = 0

----------------------------------------------------------------------------
(* Pieces of handlers. *)

(* acceptOne starts in the turn that queued the channel or settled the one *)
(* before it: no other event comes between.                                *)
TurnOver == acceptQ = <<>> \/ accepting

CanDetach(c) == lease[c] = "confirmed"

(* Mutant: a new connection replaces nothing but itself. *)
SameConnection(c) == {c}

SamePeer(c) == {d \in Conn : PeerOf[d] = PeerOf[c]}

Stopped(l) == IF l = "none" THEN "none" ELSE "stopped"
Closed(s)  == IF s = "none" THEN "none" ELSE "closed"

(* The tunnels of S leave the table; leases, RTC and data sockets close. *)
Release(S) ==
    /\ inMap' = [c \in Conn |-> inMap[c] /\ c \notin S]
    /\ lease' = [c \in Conn |-> IF c \in S THEN Stopped(lease[c]) ELSE lease[c]]
    /\ rtc'   = [c \in Conn |-> IF c \in S THEN Closed(rtc[c]) ELSE rtc[c]]
    /\ ds'    = [c \in Conn |-> IF c \in S THEN Closed(ds[c]) ELSE ds[c]]

CloseChannels(S) ==
    chan' = [c \in Conn |-> IF c \in S THEN Closed(chan[c]) ELSE chan[c]]

(* Mutant: the connection is forgotten, its streams and channel are not    *)
(* closed.                                                                 *)
Forget(S) == active' = active \ S /\ UNCHANGED disc

(* ConnectionController.disconnect of every connection of S, up to the     *)
(* await of router.closePeerStreams().                                     *)
Disconnect(S) ==
    /\ active' = active \ S
    /\ disc' = [c \in Conn |-> IF c \in S THEN "streams" ELSE disc[c]]

(* dropTunnel: an active channel is closed by the controller once its      *)
(* streams are; any other channel is closed at once.                       *)
DropAll(S) ==
    LET T == {c \in S : inMap[c]} IN
    /\ Release(T)
    /\ Disconnect(T \cap active)
    /\ CloseChannels(T \ active)
    /\ parked' = [c \in Conn |-> parked[c] /\ c \notin T]

(* A handler of the control queue threw: connectOnce marks the control     *)
(* connection invalid and closes its socket.                               *)
QueueThrows == queue' = Idle /\ invalid' = TRUE /\ control' = "closed"
QueueEnds   == queue' = Idle /\ UNCHANGED <<invalid, control>>

(* sendControl throws unless the socket is open. *)
QueueEndsAfterSend == IF control = "online" THEN QueueEnds ELSE QueueThrows

(* The data plane completeHandshake binds the channel to. *)
Via(tr, r) == IF r # "none" /\ tr = "rtc" THEN "rtc" ELSE "relay"

(* completeHandshake up to `await connections.accept(channel)`. *)
BeginAccept(c, by, tr, r) ==
    /\ chan' = [chan EXCEPT ![c] = "open"]
    /\ carrier' = [carrier EXCEPT ![c] = Via(tr, r)]
    /\ transport' = [transport EXCEPT ![c] = IF tr = "negotiating" THEN "relay" ELSE tr]
    /\ parked' = [parked EXCEPT ![c] = FALSE]
    /\ acceptQ' = Append(acceptQ, c)
    /\ hs' = [hs EXCEPT ![c] = "accept"]
    /\ hsBy' = [hsBy EXCEPT ![c] = by]

(* resumePendingHandshake, with the path just decided. *)
ResumePending(c, by, tr, r) ==
    IF parked[c] /\ chan[c] = "none" /\ tr # "negotiating"
    THEN BeginAccept(c, by, tr, r)
    ELSE /\ transport' = [transport EXCEPT ![c] = tr]
         /\ UNCHANGED <<chan, carrier, parked, acceptQ, hs, hsBy>>

(* The same from the control queue, which then awaits the handshake. *)
QueueResumes(c, tr, r) ==
    /\ ResumePending(c, "queue", tr, r)
    /\ queue' = IF parked[c] /\ chan[c] = "none" /\ tr # "negotiating"
                THEN <<"handshake", c>> ELSE Idle

(* The Server's next frame reaches a handler.  Frames that were received   *)
(* before the socket closed are still handled.  With its last frame the    *)
(* Server forgets the connection.                                          *)
Deliver(c, f) ==
    /\ TurnOver
    /\ queue = Idle
    /\ control # "offline"
    /\ seen[c] # Over
    /\ f \notin seen[c]
    /\ seen' = [seen EXCEPT ![c] = IF f = "ended" THEN Over ELSE @ \cup {f}]

----------------------------------------------------------------------------
(* Control frames. *)

(* handleConnectIncoming awaits the device directory and the trust store. *)
ConnectIncoming(c) ==
    /\ Deliver(c, "incoming")
    /\ queue' = <<"incoming", c>>
    /\ UNCHANGED <<tunnelVars, hsVars, ctrlVars, control, invalid, sweep, peerVars, outages>>

IncomingAuthorized(c) ==
    /\ TurnOver
    /\ queue = <<"incoming", c>>
    /\ inMap' = [inMap EXCEPT ![c] = TRUE]
    /\ transport' = [transport EXCEPT ![c] = "negotiating"]
    /\ trusted' = trusted \cup {PeerOf[c]}
    /\ QueueEndsAfterSend
    /\ UNCHANGED <<rtc, offering, ds, parked, chan, carrier, lease, hsVars, ctrlVars,
                   sweep, revoking, seen, outages>>

IncomingRejected(c) ==
    /\ TurnOver
    /\ queue = <<"incoming", c>>
    /\ seen' = [seen EXCEPT ![c] = Over]
    /\ QueueEndsAfterSend
    /\ UNCHANGED <<tunnelVars, hsVars, ctrlVars, sweep, peerVars, outages>>

(* handleSignalOffer runs beside the queue. *)
SignalOffer(c) ==
    /\ c \in Offers /\ Deliver(c, "offer")
    /\ "incoming" \in seen[c] /\ "selected" \notin seen[c]
    /\ offering' = [offering EXCEPT ![c] = inMap[c] /\ chan[c] = "none" /\ rtc[c] = "none"]
    /\ UNCHANGED <<inMap, transport, rtc, ds, parked, chan, carrier, lease, hsVars, ctrlVars,
                   queue, control, invalid, sweep, peerVars, outages>>

(* Mutant: the tunnel is not looked up again after the await. *)
OfferStillGood(c) == rtc[c] = "none" /\ chan[c] = "none"

StillOffered(c) ==
    inMap[c] /\ rtc[c] = "none" /\ chan[c] = "none" /\ transport[c] = "negotiating"

(* The backend is loaded: the tunnel is looked at again before RTC starts. *)
OfferPrepared(c) ==
    /\ TurnOver
    /\ offering[c]
    /\ offering' = [offering EXCEPT ![c] = FALSE]
    /\ IF StillOffered(c)
       THEN /\ rtc' = [rtc EXCEPT ![c] = "starting"]
            /\ seen' = [seen EXCEPT ![c] = IF @ = Over THEN Over ELSE @ \cup {"answered"}]
       ELSE UNCHANGED <<rtc, seen>>
    /\ UNCHANGED <<inMap, transport, ds, parked, chan, carrier, lease, hsVars, ctrlVars,
                   socketVars, peerVars, outages>>

(* No RTC backend, or forceRelay: the offer is ignored. *)
OfferIgnored(c) ==
    /\ TurnOver
    /\ offering[c]
    /\ offering' = [offering EXCEPT ![c] = FALSE]
    /\ UNCHANGED <<inMap, transport, rtc, ds, parked, chan, carrier, lease, hsVars, ctrlVars,
                   socketVars, peerVars, seen, outages>>

(* Mutant: the RTC object stays on the tunnel. *)
KeepRtc(c) == rtc

(* The tunnel gives up its RTC object (which is closed). *)
AbandonRtc(c) == [rtc EXCEPT ![c] = "none"]

(* The client selects the Relay: RTC is abandoned and, with an assignment, *)
(* the queue awaits the data socket.                                       *)
SelectRelay(c) ==
    /\ rtc' = AbandonRtc(c)
    /\ IF c \in Assigned /\ ds[c] = "none"
       THEN /\ transport' = [transport EXCEPT ![c] = "relay"]
            /\ ds' = [ds EXCEPT ![c] = "opening"]
            /\ queue' = <<"attach", c>>
            /\ UNCHANGED <<chan, carrier, parked, acceptQ, hs, hsBy>>
       ELSE QueueResumes(c, "relay", "none") /\ UNCHANGED ds
    /\ UNCHANGED <<control, invalid>>

(* The client selects a WebRTC path; throws if the Host has no RTC. *)
SelectRtc(c) ==
    /\ IF rtc[c] = "none"
       THEN QueueThrows /\ UNCHANGED <<transport, chan, carrier, parked, acceptQ, hs, hsBy>>
       ELSE QueueResumes(c, "rtc", rtc[c]) /\ UNCHANGED <<control, invalid>>
    /\ UNCHANGED <<rtc, ds>>

SelectionIgnored(c) == ~inMap[c] \/ chan[c] # "none"

(* handleTransportSelected: stale and late selections are ignored.  A      *)
(* client can select WebRTC only after the Host answered its offer.        *)
TransportSelected(c) ==
    /\ Deliver(c, "selected")
    /\ "incoming" \in seen[c]
    /\ \E path \in {"rtc", "relay"} :
         /\ path = "rtc" => "answered" \in seen[c]
         /\ IF SelectionIgnored(c)
            THEN UNCHANGED <<transport, rtc, ds, parked, chan, carrier, acceptQ, hs, hsBy,
                             queue, control, invalid>>
            ELSE IF path = "relay" THEN SelectRelay(c) ELSE SelectRtc(c)
    /\ UNCHANGED <<inMap, offering, lease, replied, active, disc, accepting, awaited,
                   sweep, peerVars, outages>>

(* relay.ready arrived: openDataSocket returns. *)
AttachReady(c) ==
    /\ TurnOver
    /\ queue = <<"attach", c>>
    /\ inMap[c]
    /\ ds' = [ds EXCEPT ![c] = "ready"]
    /\ QueueResumes(c, transport[c], rtc[c])
    /\ UNCHANGED <<inMap, rtc, offering, lease, replied, active, disc, accepting, awaited,
                   control, invalid, sweep, peerVars, seen, outages>>

(* The data socket failed, closed or timed out before relay.ready: the     *)
(* tunnel is dropped and an error frame is sent.                           *)
AttachFailed(c) ==
    /\ TurnOver
    /\ queue = <<"attach", c>>
    /\ DropAll({c})
    /\ QueueEndsAfterSend
    /\ UNCHANGED <<transport, offering, carrier, hsVars, acceptQ, accepting, awaited,
                   sweep, peerVars, seen, outages>>

(* handleHandshake: while the path is open the frame is parked, on a bound *)
(* channel it is a repeat and ignored, and without a tunnel it throws.     *)
(* Only a relay-only Server leaves transport.selected out.                 *)
SecureHandshake(c) ==
    /\ \/ Deliver(c, "handshake")
       \/ Repeat /\ "handshake" \in seen[c] /\ Deliver(c, "again")
    /\ "incoming" \in seen[c]
    /\ Reorder \/ "selected" \in seen[c] \/ c \notin Offers \cup Assigned
    /\ LET open == transport[c] = "negotiating" /\ (rtc[c] # "none" \/ c \in Assigned) IN
       \/ /\ inMap[c] /\ chan[c] = "none" /\ open
          /\ parked' = [parked EXCEPT ![c] = TRUE]
          /\ UNCHANGED <<transport, chan, carrier, acceptQ, hs, hsBy, queue, control, invalid>>
       \/ /\ inMap[c] /\ chan[c] = "none" /\ ~open
          /\ BeginAccept(c, "queue", transport[c], rtc[c])
          /\ queue' = <<"handshake", c>>
          /\ UNCHANGED <<control, invalid>>
       \/ /\ inMap[c] /\ chan[c] # "none"
          /\ UNCHANGED <<transport, chan, carrier, parked, acceptQ, hs, hsBy,
                         queue, control, invalid>>
       \/ /\ ~inMap[c]
          /\ QueueThrows
          /\ UNCHANGED <<transport, chan, carrier, parked, acceptQ, hs, hsBy>>
    /\ UNCHANGED <<inMap, rtc, offering, ds, lease, replied, active, disc, accepting, awaited,
                   sweep, peerVars, outages>>

(* An error frame with a connectionId: the queue awaits dropTunnel. *)
ServerClosesConnection(c) ==
    /\ Deliver(c, "ended")
    /\ "incoming" \in seen[c]
    /\ DropAll({c})
    /\ queue' = IF inMap[c] /\ c \in active THEN <<"drop", c>> ELSE Idle
    /\ UNCHANGED <<transport, offering, carrier, hsVars, acceptQ, accepting, awaited,
                   control, invalid, sweep, peerVars, outages>>

(* connection.lease.ack reaches the lease through the tunnel table. *)
LeaseAck(c) ==
    /\ TurnOver
    /\ queue = Idle /\ control = "online"
    /\ inMap[c] /\ lease[c] = "unconfirmed"
    /\ lease' = [lease EXCEPT ![c] = "confirmed"]
    /\ UNCHANGED <<inMap, transport, rtc, offering, ds, parked, chan, carrier, hsVars,
                   ctrlVars, socketVars, peerVars, seen, outages>>

----------------------------------------------------------------------------
(* Callbacks of the data planes and timers. *)

(* handleRtcOpened.  transport.selected is sent to the client; if that     *)
(* throws, the promise's catch runs handleRtcFailed on a selected path.    *)
RtcOpened(c) ==
    /\ TurnOver
    /\ rtc[c] = "starting" /\ inMap[c]
    /\ IF control = "online"
       THEN /\ rtc' = [rtc EXCEPT ![c] = "open"]
            /\ ResumePending(c, "opened", "rtc", "open")
            /\ UNCHANGED <<inMap, ds, lease, active, disc>>
       ELSE /\ transport' = [transport EXCEPT ![c] = "rtc"]
            /\ DropAll({c})
            /\ UNCHANGED <<carrier, acceptQ, hs, hsBy>>
    /\ UNCHANGED <<offering, replied, accepting, awaited, socketVars, peerVars, seen, outages>>

(* handleRtcFailed: a selected path takes the connection with it, a path   *)
(* still negotiated falls back to the Relay.  A path the Server never      *)
(* granted opens into the same handler.                                    *)
RtcFailed(c) ==
    /\ TurnOver
    /\ rtc[c] \in {"starting", "open"} /\ inMap[c]
    /\ IF transport[c] = "rtc"
       THEN DropAll({c}) /\ UNCHANGED <<transport, carrier, acceptQ, hs, hsBy>>
       ELSE /\ rtc' = AbandonRtc(c)
            /\ ResumePending(c, "fallback", "relay", "none")
            /\ UNCHANGED <<inMap, ds, lease, active, disc>>
    /\ UNCHANGED <<offering, replied, accepting, awaited, socketVars, peerVars, seen, outages>>

(* The data socket closed, or relay.detach arrived. *)
DataSocketClosed(c) ==
    /\ TurnOver
    /\ ds[c] = "ready" /\ inMap[c]
    /\ DropAll({c})
    /\ UNCHANGED <<transport, offering, carrier, hsVars, acceptQ, accepting, awaited,
                   socketVars, peerVars, seen, outages>>

(* ControlLease.valid() finds the deadline passed. *)
LeaseExpires(c) ==
    /\ TurnOver
    /\ lease[c] \in {"unconfirmed", "confirmed"}
    /\ IF inMap[c]
       THEN DropAll({c})
       ELSE /\ lease' = [lease EXCEPT ![c] = "stopped"]
            /\ UNCHANGED <<inMap, rtc, ds, active, disc, chan, parked>>
    /\ UNCHANGED <<transport, offering, carrier, hsVars, acceptQ, accepting, awaited,
                   socketVars, peerVars, seen, outages>>

----------------------------------------------------------------------------
(* ConnectionController. *)

(* acceptOne threw, closing the channel itself or not; completeHandshake   *)
(* throws to its caller: the control queue, handleRtcOpened (which drops   *)
(* the tunnel) or handleRtcFailed (nobody).                                *)
AcceptThrows(c, closes) ==
    LET drops  == closes \/ hsBy[c] = "opened" IN
    /\ acceptQ' = Tail(acceptQ)
    /\ accepting' = FALSE
    /\ awaited' = {}
    /\ hs' = [hs EXCEPT ![c] = "failed"]
    /\ Release(IF drops /\ inMap[c] THEN {c} ELSE {})
    /\ CloseChannels(IF closes \/ (drops /\ inMap[c]) THEN {c} ELSE {})
    /\ IF hsBy[c] = "queue" THEN QueueThrows ELSE UNCHANGED <<queue, control, invalid>>
    /\ UNCHANGED <<active, hsBy, replied>>

(* acceptOne registers the channel and completeHandshake goes on: step 2   *)
(* is sent, then the lease is created, whatever became of the tunnel.      *)
Register(c) ==
    LET sent   == control = "online"
        drops  == ~sent /\ hsBy[c] = "opened" /\ inMap[c]
        leased == sent /\ c \in Ticketed /\ (carrier[c] = "rtc" \/ ds[c] = "ready") IN
    /\ acceptQ' = Tail(acceptQ)
    /\ accepting' = FALSE
    /\ awaited' = {}
    /\ active' = IF drops THEN active ELSE active \cup {c}
    /\ disc' = [disc EXCEPT ![c] = IF drops THEN "streams" ELSE @]
    /\ hs' = [hs EXCEPT ![c] = IF sent THEN "done" ELSE "failed"]
    /\ replied' = [replied EXCEPT ![c] = sent]
    /\ lease' = [lease EXCEPT ![c] = IF leased THEN "unconfirmed" ELSE @]
    /\ inMap' = [inMap EXCEPT ![c] = @ /\ ~drops]
    /\ rtc' = [rtc EXCEPT ![c] = IF drops THEN Closed(@) ELSE @]
    /\ ds' = [ds EXCEPT ![c] = IF drops THEN Closed(@) ELSE @]
    /\ IF hsBy[c] # "queue" THEN UNCHANGED <<queue, control, invalid>> ELSE QueueEndsAfterSend
    /\ UNCHANGED <<chan, hsBy>>

(* acceptOne starts: trust is checked, then every active connection of the *)
(* same peer is disconnected.                                              *)
AcceptStarts ==
    /\ acceptQ # <<>> /\ ~accepting
    /\ LET c == Head(acceptQ)
           replaced == active \cap SamePeer(c) IN
       IF PeerOf[c] \notin trusted
       THEN AcceptThrows(c, TRUE) /\ UNCHANGED disc
       ELSE IF replaced = {}
       THEN Register(c)
       ELSE /\ Disconnect(replaced)
            /\ accepting' = TRUE
            /\ awaited' = replaced
            /\ UNCHANGED <<acceptQ, inMap, rtc, ds, lease, chan, hsVars,
                           queue, control, invalid>>
    /\ UNCHANGED <<transport, offering, parked, carrier, sweep, peerVars, seen, outages>>

AcceptFinishes ==
    /\ accepting
    /\ \A d \in awaited : disc[d] = "done"
    /\ Register(Head(acceptQ))
    /\ UNCHANGED <<transport, offering, parked, carrier, sweep, peerVars, seen, outages>>

AcceptFails ==
    /\ accepting
    /\ \E d \in awaited : disc[d] = "failed"
    /\ AcceptThrows(Head(acceptQ), FALSE)
    /\ UNCHANGED <<disc, transport, offering, parked, carrier, sweep, peerVars, seen, outages>>

(* Mutant: dropTunnel's promise is never settled. *)
StillWaits(c) == queue

(* The control queue goes on if it awaited this disconnect. *)
AfterDrop(c) == IF queue = <<"drop", c>> THEN Idle ELSE queue

(* closePeerStreams settled; the channel is closed either way, and takes   *)
(* a tunnel it still owns with it.                                         *)
StreamsClosed(c) ==
    /\ TurnOver
    /\ disc[c] = "streams"
    /\ \E result \in {"done"} \cup (IF CloseMayFail THEN {"failed"} ELSE {}) :
         disc' = [disc EXCEPT ![c] = result]
    /\ CloseChannels({c})
    /\ Release(IF inMap[c] THEN {c} ELSE {})
    /\ queue' = AfterDrop(c)
    /\ UNCHANGED <<transport, offering, parked, carrier, hsVars, active, acceptQ, accepting,
                   awaited, control, invalid, sweep, peerVars, seen, outages>>

(* A send fails: the channel closes itself (and its tunnel), then the      *)
(* controller disconnects the connection.                                  *)
SendFails(c) ==
    /\ TurnOver
    /\ c \in active
    /\ CloseChannels({c})
    /\ Release(IF inMap[c] THEN {c} ELSE {})
    /\ Disconnect({c})
    /\ UNCHANGED <<transport, offering, parked, carrier, hsVars, acceptQ, accepting, awaited,
                   socketVars, peerVars, seen, outages>>

(* The router throws on a request: the connection is disconnected. *)
RequestFails(c) ==
    /\ TurnOver
    /\ c \in active
    /\ Disconnect({c})
    /\ UNCHANGED <<tunnelVars, hsVars, acceptQ, accepting, awaited, socketVars, peerVars,
                   seen, outages>>

(* revokePeer removes the pin, saves, then disconnects what is active. *)
RevokePeer(p) ==
    /\ TurnOver
    /\ p \in MayRevoke /\ p \in trusted /\ revoking[p] = "no"
    /\ trusted' = trusted \ {p}
    /\ revoking' = [revoking EXCEPT ![p] = "saving"]
    /\ UNCHANGED <<tunnelVars, hsVars, ctrlVars, socketVars, seen, outages>>

RevokeDisconnects(p) ==
    /\ TurnOver
    /\ revoking[p] = "saving"
    /\ revoking' = [revoking EXCEPT ![p] = "done"]
    /\ Disconnect({c \in active : PeerOf[c] = p})
    /\ UNCHANGED <<tunnelVars, hsVars, acceptQ, accepting, awaited, socketVars, trusted,
                   seen, outages>>

----------------------------------------------------------------------------
(* The control socket. *)

(* The Server goes away with a retryable close code. *)
Outage ==
    /\ TurnOver
    /\ control = "online" /\ outages < MaxOutages
    /\ outages' = outages + 1
    /\ control' = "closed"
    /\ UNCHANGED <<tunnelVars, hsVars, ctrlVars, queue, invalid, sweep, peerVars, seen>>

(* The tunnels finish() does not retain. *)
Unleased == {c \in Conn : inMap[c] /\ ~CanDetach(c)}

(* connectOnce's onclose waits for the queue, then finish() keeps the      *)
(* tunnels with a confirmed lease or, if there is none or a frame was      *)
(* invalid, drops everything.                                              *)
Finish ==
    LET live == {c \in Conn : inMap[c]} IN
    /\ TurnOver
    /\ control = "closed" /\ queue = Idle
    /\ control' = "offline"
    /\ IF ~invalid /\ \E c \in live : CanDetach(c)
       THEN DropAll(Unleased) /\ UNCHANGED sweep
       ELSE /\ Release(live)
            /\ CloseChannels(live)
            /\ sweep' = TRUE
            /\ UNCHANGED <<active, disc, parked>>
    /\ UNCHANGED <<transport, offering, carrier, hsVars, acceptQ, accepting, awaited,
                   queue, invalid, peerVars, seen, outages>>

(* dropTunnels ends with connections.close(), which awaits acceptQueue. *)
SweepConnections ==
    /\ TurnOver
    /\ sweep /\ acceptQ = <<>>
    /\ Disconnect(active)
    /\ sweep' = FALSE
    /\ UNCHANGED <<tunnelVars, hsVars, acceptQ, accepting, awaited, queue, control, invalid,
                   peerVars, seen, outages>>

(* A new control connection is acknowledged: retained tunnels stay if the  *)
(* Server still grants recovery.  It forwards nothing for the others.      *)
HelloAck ==
    /\ TurnOver
    /\ control = "offline" /\ ~sweep
    /\ control' = "online"
    /\ invalid' = FALSE
    /\ \E granted \in BOOLEAN :
         DropAll({c \in Conn : ~granted /\ lease[c] # "none"})
    /\ seen' = [c \in Conn |-> IF seen[c] # {} /\ ~inMap'[c]
                               THEN Over ELSE seen[c]]
    /\ UNCHANGED <<transport, offering, carrier, hsVars, acceptQ, accepting, awaited,
                   queue, sweep, peerVars, outages>>

----------------------------------------------------------------------------
(* What the Host itself runs to completion. *)
Settles(c) == IncomingAuthorized(c) \/ IncomingRejected(c) \/ AttachReady(c)
              \/ AttachFailed(c) \/ StreamsClosed(c)
Accepts    == AcceptStarts \/ AcceptFinishes \/ AcceptFails

Frame(c)    == ConnectIncoming(c) \/ SignalOffer(c) \/ TransportSelected(c)
               \/ SecureHandshake(c) \/ ServerClosesConnection(c) \/ LeaseAck(c)
Callback(c) == OfferPrepared(c) \/ OfferIgnored(c) \/ RtcOpened(c) \/ RtcFailed(c)
               \/ DataSocketClosed(c) \/ LeaseExpires(c) \/ SendFails(c) \/ RequestFails(c)

Next ==
    \/ Accepts
    \/ \E c \in Conn : Frame(c) \/ Callback(c) \/ Settles(c)
    \/ \E p \in Peer : RevokePeer(p) \/ RevokeDisconnects(p)
    \/ Outage \/ Finish \/ SweepConnections \/ HelloAck

Spec == Init /\ [][Next]_vars

(* The awaits of the Host settle: HTTP calls and the attach have deadlines *)
(* and closePeerStreams returns or throws.                                 *)
Fairness == (\A c \in Conn : WF_vars(Settles(c))) /\ WF_vars(Accepts)

FairSpec == Spec /\ Fairness

----------------------------------------------------------------------------
(* Properties. *)

(* One client device has at most one active connection: acceptQueue lets a *)
(* new channel in only after the old ones left ConnectionController.active *)
(* (connection-controller.ts, acceptOne), however the accepts, drops and   *)
(* disconnects of the peer interleave.                                     *)
OneActivePerPeer ==
    \A c, d \in active : PeerOf[c] = PeerOf[d] => c = d

(* Once step 2 is sent the client may send its first request: an open      *)
(* channel that was replied to is registered with the controller, or is    *)
(* being disconnected by it (the comment before step 2 in                  *)
(* completeHandshake).                                                     *)
RepliedIsServed ==
    \A c \in Conn : replied[c] /\ chan[c] = "open" => c \in active \/ disc[c] # "none"

(* Noise is bound to one data plane: a channel bound to WebRTC on a live   *)
(* tunnel has its RTC object, and one bound to the Relay has no RTC left   *)
(* beside it.                                                              *)
BoundPathExclusive ==
    \A c \in Conn : inMap[c] /\ chan[c] # "none" =>
        IF carrier[c] = "rtc" THEN rtc[c] \in {"starting", "open"} ELSE rtc[c] = "none"

(* docs/network.md:102: a late or conflicting selection, RTC callback or   *)
(* fallback never rewrites the path of a bound channel.                    *)
SelectionImmutable ==
    [][\A c \in Conn : chan[c] # "none" =>
          transport'[c] = transport[c] /\ carrier'[c] = carrier[c]]_vars

(* Without a control connection only tunnels with a confirmed lease are    *)
(* kept: no handler that was still awaiting leaves another one behind.     *)
OfflineOnlyLeased ==
    \A c \in Conn : control = "offline" /\ inMap[c] => CanDetach(c)

(* A tunnel that left the table keeps no transport: its RTC object and its *)
(* data socket are closed, whichever handler dropped it and whichever was  *)
(* still preparing one.                                                    *)
DroppedKeepsNoTransport ==
    \A c \in Conn : ~inMap[c] => rtc[c] \in {"none", "closed"} /\ ds[c] \in {"none", "closed"}

(* Whatever was awaited while the control connection or a tunnel went, it  *)
(* leaves behind neither an unleased tunnel nor a transport of no tunnel.  *)
NothingLeftBehind == OfflineOnlyLeased /\ DroppedKeepsNoTransport

(* The control queue never waits for ever: the handshake it awaits waits   *)
(* for the accept queue, which waits for disconnects, and none of them     *)
(* waits for the control queue.                                            *)
QueueDrains == (queue # Idle) ~> (queue = Idle)

(* docs/network.md:171: losing one logical connection cleans up that one   *)
(* and leaves the other clients alone, so the failure of one connection's  *)
(* data plane never invalidates the shared control connection.             *)
FailureIsolated == ~invalid

(* docs/plugin-integration.md:426: losing one connection clears its        *)
(* tunnel, RPC router and streams, so the controller keeps no connection   *)
(* whose channel is closed (while dropTunnels runs its connections.close() *)
(* is still to come).                                                      *)
ActiveIsOpen == ~sweep => \A c \in active : chan[c] = "open"
=============================================================================
