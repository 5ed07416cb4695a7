------------------------- MODULE HostTunnelsProofs -------------------------
(***************************************************************************)
(* Proofs about HostTunnels, for every set of connections and peers, every *)
(* assignment of them and every bound: types, one active connection per    *)
(* peer, the path of a bound channel, what a reply promises and what is    *)
(* left behind.                                                            *)
(***************************************************************************)
EXTENDS HostTunnels, TLAPS

(***************************************************************************)
(* Types: what each piece of a handler may assign, then every action.      *)
(***************************************************************************)

USE TunnelsAssumption DEF TunnelsAssumption

By    == {"none", "queue", "opened", "fallback"}
Paths == {"none", "negotiating", "rtc", "relay"}

TransportTypes ==
    /\ inMap \in [Conn -> BOOLEAN]
    /\ lease \in [Conn -> {"none", "unconfirmed", "confirmed", "stopped"}]
    /\ rtc   \in [Conn -> {"none", "starting", "open", "closed"}]
    /\ ds    \in [Conn -> {"none", "opening", "ready", "closed"}]

ChannelTypes == chan \in [Conn -> {"none", "open", "closed"}]

ControllerTypes ==
    /\ active \in SUBSET Conn
    /\ disc \in [Conn -> {"none", "streams", "done", "failed"}]

HandshakeTypes ==
    /\ transport \in [Conn -> Paths]
    /\ parked    \in [Conn -> BOOLEAN]
    /\ chan      \in [Conn -> {"none", "open", "closed"}]
    /\ carrier   \in [Conn -> {"none", "rtc", "relay"}]
    /\ hs        \in [Conn -> {"none", "accept", "done", "failed"}]
    /\ hsBy      \in [Conn -> By]
    /\ acceptQ   \in Seq(Conn)

QueueType == queue \in {Idle} \cup ({"incoming", "attach", "handshake", "drop"} \X Conn)

SocketTypes == QueueType /\ control \in {"online", "closed", "offline"} /\ invalid \in BOOLEAN

LEMMA ReleaseTypes == ASSUME TypeOK, NEW S, Release(S) PROVE TransportTypes'
  BY DEF TypeOK, Release, Stopped, Closed, TransportTypes

LEMMA CloseTypes == ASSUME TypeOK, NEW S, CloseChannels(S) PROVE ChannelTypes'
  BY DEF TypeOK, CloseChannels, Closed, ChannelTypes

LEMMA DisconnectTypes == ASSUME TypeOK, NEW S, Disconnect(S) PROVE ControllerTypes'
  BY DEF TypeOK, Disconnect, ControllerTypes

LEMMA DropTypes ==
    ASSUME TypeOK, NEW S, DropAll(S)
    PROVE  TransportTypes' /\ ChannelTypes' /\ ControllerTypes' /\ parked' \in [Conn -> BOOLEAN]
<1>1. parked' \in [Conn -> BOOLEAN]
  BY DEF TypeOK, DropAll
<1> QED BY <1>1, ReleaseTypes, CloseTypes, DisconnectTypes DEF DropAll

LEMMA QueueTypes ==
    ASSUME TypeOK, QueueThrows \/ QueueEnds \/ QueueEndsAfterSend PROVE SocketTypes'
  BY DEF TypeOK, QueueThrows, QueueEnds, QueueEndsAfterSend, SocketTypes, QueueType

LEMMA BeginTypes ==
    ASSUME TypeOK, NEW c \in Conn, NEW by \in By, NEW tr \in Paths, NEW r, BeginAccept(c, by, tr, r)
    PROVE  HandshakeTypes'
<1>1. Via(tr, r) \in {"rtc", "relay"}
  BY DEF Via
<1>2. (IF tr = "negotiating" THEN "relay" ELSE tr) \in Paths
  BY DEF Paths
<1>3. acceptQ' \in Seq(Conn)
  BY DEF TypeOK, BeginAccept
<1>4. transport' \in [Conn -> Paths] /\ hsBy' \in [Conn -> By]
  BY <1>2 DEF TypeOK, BeginAccept, By, Paths
<1>5. carrier' \in [Conn -> {"none", "rtc", "relay"}]
  BY <1>1 DEF TypeOK, BeginAccept
<1> QED BY <1>3, <1>4, <1>5 DEF TypeOK, BeginAccept, HandshakeTypes

LEMMA ResumeTypes ==
    ASSUME TypeOK, NEW c \in Conn, NEW by \in By, NEW tr \in Paths, NEW r,
           ResumePending(c, by, tr, r)
    PROVE  HandshakeTypes'
<1>1. CASE BeginAccept(c, by, tr, r)
  BY <1>1, BeginTypes
<1>2. CASE /\ transport' = [transport EXCEPT ![c] = tr]
           /\ UNCHANGED <<chan, carrier, parked, acceptQ, hs, hsBy>>
  BY <1>2 DEF TypeOK, HandshakeTypes, By, Paths
<1> QED BY <1>1, <1>2 DEF ResumePending

LEMMA QueueResumeTypes ==
    ASSUME TypeOK, NEW c \in Conn, NEW tr \in Paths, NEW r, QueueResumes(c, tr, r)
    PROVE  HandshakeTypes' /\ QueueType'
<1>1. HandshakeTypes'
  BY ResumeTypes DEF QueueResumes, By
<1>2. QueueType'
  BY DEF QueueResumes, QueueType
<1> QED BY <1>1, <1>2

(* Control frames. *)
LEMMA FrameTypes == ASSUME TypeOK, NEW c \in Conn, Frame(c) PROVE TypeOK'
<1> USE DEF tunnelVars, hsVars, ctrlVars, socketVars, peerVars
<1>0. ASSUME NEW f \in Frames, Deliver(c, f) PROVE seen' \in [Conn -> SUBSET Frames]
  BY <1>0 DEF TypeOK, Deliver, Over, Frames
<1>1. CASE ConnectIncoming(c)
  BY <1>1, <1>0 DEF TypeOK, ConnectIncoming, Frames
<1>2. CASE SignalOffer(c)
  BY <1>2, <1>0 DEF TypeOK, SignalOffer, Frames
<1>3. CASE TransportSelected(c)
  <2>1. seen' \in [Conn -> SUBSET Frames]
    BY <1>3, <1>0 DEF TransportSelected, Frames
  <2>2. UNCHANGED <<inMap, offering, lease, replied, active, disc, accepting, awaited, sweep,
                    peerVars, outages>>
    BY <1>3 DEF TransportSelected
  <2>3. \/ UNCHANGED <<transport, rtc, ds, parked, chan, carrier, acceptQ, hs, hsBy, queue,
                       control, invalid>>
        \/ SelectRelay(c)
        \/ SelectRtc(c)
    BY <1>3 DEF TransportSelected
  <2>4. CASE UNCHANGED <<transport, rtc, ds, parked, chan, carrier, acceptQ, hs, hsBy, queue,
                         control, invalid>>
    BY <2>1, <2>2, <2>4 DEF TypeOK
  <2>5. CASE SelectRelay(c)
    <3>1. rtc' \in [Conn -> {"none", "starting", "open", "closed"}]
      BY <2>5 DEF SelectRelay, AbandonRtc, TypeOK
    <3>2. CASE c \in Assigned /\ ds[c] = "none"
      <4>1. /\ transport' \in [Conn -> Paths]
            /\ ds' \in [Conn -> {"none", "opening", "ready", "closed"}]
        <5>1. /\ transport' = [transport EXCEPT ![c] = "relay"]
              /\ ds' = [ds EXCEPT ![c] = "opening"]
          BY <2>5, <3>2 DEF SelectRelay
        <5> QED BY <5>1 DEF TypeOK, Paths
      <4>2. queue' = <<"attach", c>>
            /\ UNCHANGED <<chan, carrier, parked, acceptQ, hs, hsBy, control, invalid>>
        BY <2>5, <3>2 DEF SelectRelay
      <4> QED BY <2>1, <2>2, <3>1, <4>1, <4>2 DEF TypeOK, Paths
    <3>3. CASE ~(c \in Assigned /\ ds[c] = "none")
      <4>1. HandshakeTypes' /\ QueueType' /\ UNCHANGED ds
        BY <2>5, <3>3, QueueResumeTypes DEF SelectRelay, Paths
      <4> QED BY <2>1, <2>2, <2>5, <3>1, <4>1
              DEF SelectRelay, TypeOK, HandshakeTypes, QueueType, By, Paths
    <3> QED BY <3>2, <3>3
  <2>6. CASE SelectRtc(c)
    <3>1. CASE rtc[c] = "none"
      BY <2>1, <2>2, <2>6, <3>1 DEF SelectRtc, QueueThrows, TypeOK
    <3>2. CASE rtc[c] # "none"
      <4>1. HandshakeTypes' /\ QueueType'
        BY <2>6, <3>2, QueueResumeTypes DEF SelectRtc, Paths
      <4> QED BY <2>1, <2>2, <2>6, <3>2, <4>1
              DEF SelectRtc, TypeOK, HandshakeTypes, QueueType, By, Paths
    <3> QED BY <3>1, <3>2
  <2> QED BY <2>3, <2>4, <2>5, <2>6
<1>4. CASE SecureHandshake(c)
  <2>1. seen' \in [Conn -> SUBSET Frames]
    BY <1>4, <1>0 DEF SecureHandshake, Frames
  <2>2. UNCHANGED <<inMap, rtc, offering, ds, lease, replied, active, disc, accepting, awaited,
                    sweep, peerVars, outages>>
    BY <1>4 DEF SecureHandshake
  <2>3. CASE /\ parked' = [parked EXCEPT ![c] = TRUE]
             /\ UNCHANGED <<transport, chan, carrier, acceptQ, hs, hsBy, queue, control, invalid>>
    BY <2>1, <2>2, <2>3 DEF TypeOK
  <2>4. CASE /\ BeginAccept(c, "queue", transport[c], rtc[c])
             /\ queue' = <<"handshake", c>> /\ UNCHANGED <<control, invalid>>
    <3>1. transport[c] \in Paths
      BY DEF TypeOK, Paths
    <3>2. HandshakeTypes'
      BY <2>4, <3>1, BeginTypes DEF By
    <3> QED BY <2>1, <2>2, <2>4, <3>2 DEF TypeOK, HandshakeTypes, By, Paths
  <2>5. CASE UNCHANGED <<transport, chan, carrier, parked, acceptQ, hs, hsBy, queue, control,
                         invalid>>
    BY <2>1, <2>2, <2>5 DEF TypeOK
  <2>6. CASE QueueThrows /\ UNCHANGED <<transport, chan, carrier, parked, acceptQ, hs, hsBy>>
    BY <2>1, <2>2, <2>6 DEF TypeOK, QueueThrows
  <2> QED BY <1>4, <2>3, <2>4, <2>5, <2>6 DEF SecureHandshake
<1>5. CASE ServerClosesConnection(c)
  <2>1. seen' \in [Conn -> SUBSET Frames] /\ QueueType'
    BY <1>5, <1>0 DEF ServerClosesConnection, Frames, QueueType
  <2> QED BY <1>5, <2>1, DropTypes DEF ServerClosesConnection, TypeOK, TransportTypes,
            ChannelTypes, ControllerTypes, QueueType
<1>6. CASE LeaseAck(c)
  BY <1>6 DEF TypeOK, LeaseAck
<1> QED BY <1>1, <1>2, <1>3, <1>4, <1>5, <1>6 DEF Frame

(* Callbacks of the data planes and timers. *)
LEMMA CallbackTypes == ASSUME TypeOK, NEW c \in Conn, Callback(c) PROVE TypeOK'
<1> USE DEF tunnelVars, hsVars, ctrlVars, socketVars, peerVars
<1>1. CASE OfferPrepared(c)
  BY <1>1 DEF TypeOK, OfferPrepared, StillOffered, Over, Frames
<1>2. CASE OfferIgnored(c)
  BY <1>2 DEF TypeOK, OfferIgnored
<1>3. CASE RtcOpened(c)
  <2>1. CASE control = "online"
    <3>1. HandshakeTypes'
      BY <1>3, <2>1, ResumeTypes DEF RtcOpened, By, Paths
    <3>2. rtc' \in [Conn -> {"none", "starting", "open", "closed"}]
      BY <1>3, <2>1 DEF RtcOpened, TypeOK
    <3> QED BY <1>3, <2>1, <3>1, <3>2 DEF RtcOpened, TypeOK, HandshakeTypes, By, Paths
  <2>2. CASE control # "online"
    BY <1>3, <2>2, DropTypes DEF RtcOpened, TypeOK, TransportTypes, ChannelTypes, ControllerTypes
  <2> QED BY <2>1, <2>2
<1>4. CASE RtcFailed(c)
  <2>1. CASE transport[c] = "rtc"
    BY <1>4, <2>1, DropTypes DEF RtcFailed, TypeOK, TransportTypes, ChannelTypes, ControllerTypes
  <2>2. CASE transport[c] # "rtc"
    <3>1. HandshakeTypes'
      BY <1>4, <2>2, ResumeTypes DEF RtcFailed, By, Paths
    <3>2. rtc' \in [Conn -> {"none", "starting", "open", "closed"}]
      BY <1>4, <2>2 DEF RtcFailed, AbandonRtc, TypeOK
    <3> QED BY <1>4, <2>2, <3>1, <3>2 DEF RtcFailed, TypeOK, HandshakeTypes, By, Paths
  <2> QED BY <2>1, <2>2
<1>5. CASE DataSocketClosed(c)
  BY <1>5, DropTypes DEF DataSocketClosed, TypeOK, TransportTypes, ChannelTypes, ControllerTypes
<1>6. CASE LeaseExpires(c)
  <2>1. TransportTypes' /\ ChannelTypes' /\ ControllerTypes' /\ parked' \in [Conn -> BOOLEAN]
    <3>1. CASE DropAll({c})
      BY <3>1, DropTypes
    <3>2. CASE /\ lease' = [lease EXCEPT ![c] = "stopped"]
               /\ UNCHANGED <<inMap, rtc, ds, active, disc, chan, parked>>
      BY <3>2 DEF TypeOK, TransportTypes, ChannelTypes, ControllerTypes
    <3> QED BY <1>6, <3>1, <3>2 DEF LeaseExpires
  <2> QED BY <1>6, <2>1
          DEF LeaseExpires, TypeOK, TransportTypes, ChannelTypes, ControllerTypes
<1>7. CASE SendFails(c)
  <2>1. TransportTypes'
    BY <1>7, ReleaseTypes DEF SendFails
  <2>2. ChannelTypes' /\ ControllerTypes'
    BY <1>7, CloseTypes, DisconnectTypes DEF SendFails
  <2> QED BY <1>7, <2>1, <2>2 DEF SendFails, TypeOK, TransportTypes, ChannelTypes, ControllerTypes
<1>8. CASE RequestFails(c)
  BY <1>8, DisconnectTypes DEF RequestFails, TypeOK, ControllerTypes
<1> QED BY <1>1, <1>2, <1>3, <1>4, <1>5, <1>6, <1>7, <1>8 DEF Callback

(* Awaits of the Host that settle. *)
LEMMA SettlesTypes == ASSUME TypeOK, NEW c \in Conn, Settles(c) PROVE TypeOK'
<1> USE DEF tunnelVars, hsVars, ctrlVars, socketVars, peerVars
<1>1. CASE IncomingAuthorized(c)
  BY <1>1, QueueTypes DEF IncomingAuthorized, TypeOK, SocketTypes, QueueType
<1>2. CASE IncomingRejected(c)
  BY <1>2, QueueTypes DEF IncomingRejected, TypeOK, SocketTypes, QueueType, Over, Frames
<1>3. CASE AttachReady(c)
  <2>1. transport[c] \in Paths
    BY DEF TypeOK, Paths
  <2>2. HandshakeTypes' /\ QueueType'
    BY <1>3, <2>1, QueueResumeTypes DEF AttachReady
  <2> QED BY <1>3, <2>2 DEF AttachReady, TypeOK, HandshakeTypes, QueueType, By, Paths
<1>4. CASE AttachFailed(c)
  BY <1>4, DropTypes, QueueTypes DEF AttachFailed, TypeOK, TransportTypes, ChannelTypes,
     ControllerTypes, SocketTypes, QueueType
<1>5. CASE StreamsClosed(c)
  BY <1>5, ReleaseTypes, CloseTypes DEF StreamsClosed, AfterDrop, TypeOK, TransportTypes,
     ChannelTypes
<1> QED BY <1>1, <1>2, <1>3, <1>4, <1>5 DEF Settles

(* Peers and the control socket. *)
LEMMA PeerTypes ==
    ASSUME TypeOK, NEW p \in Peer, RevokePeer(p) \/ RevokeDisconnects(p) PROVE TypeOK'
<1> USE DEF tunnelVars, hsVars, ctrlVars, socketVars
<1>1. CASE RevokePeer(p)
  BY <1>1 DEF RevokePeer, TypeOK
<1>2. CASE RevokeDisconnects(p)
  BY <1>2, DisconnectTypes DEF RevokeDisconnects, TypeOK, ControllerTypes
<1> QED BY <1>1, <1>2

LEMMA ControlTypes ==
    ASSUME TypeOK, Outage \/ Finish \/ SweepConnections \/ HelloAck PROVE TypeOK'
<1> USE DEF tunnelVars, hsVars, ctrlVars, peerVars
<1>1. CASE Outage
  BY <1>1 DEF Outage, TypeOK
<1>2. CASE Finish
  <2>1. TransportTypes' /\ ChannelTypes' /\ ControllerTypes' /\ parked' \in [Conn -> BOOLEAN]
    <3>1. CASE DropAll(Unleased)
      BY <3>1, DropTypes
    <3>2. CASE /\ Release({c \in Conn : inMap[c]})
               /\ CloseChannels({c \in Conn : inMap[c]})
               /\ UNCHANGED <<active, disc, parked>>
      BY <3>2, ReleaseTypes, CloseTypes DEF TypeOK, ControllerTypes
    <3> QED BY <1>2, <3>1, <3>2 DEF Finish
  <2>2. sweep' \in BOOLEAN
    BY <1>2 DEF Finish, TypeOK
  <2> QED BY <1>2, <2>1, <2>2
          DEF Finish, TypeOK, TransportTypes, ChannelTypes, ControllerTypes
<1>3. CASE SweepConnections
  BY <1>3, DisconnectTypes DEF SweepConnections, TypeOK, ControllerTypes
<1>4. CASE HelloAck
  <2>1. TransportTypes' /\ ChannelTypes' /\ ControllerTypes' /\ parked' \in [Conn -> BOOLEAN]
    BY <1>4, DropTypes DEF HelloAck
  <2>2. seen' \in [Conn -> SUBSET Frames]
    BY <1>4 DEF HelloAck, TypeOK, Over, Frames
  <2> QED BY <1>4, <2>1, <2>2
          DEF HelloAck, TypeOK, TransportTypes, ChannelTypes, ControllerTypes
<1> QED BY <1>1, <1>2, <1>3, <1>4

(* ConnectionController.acceptOne. *)
LEMMA ThrowTypes ==
    ASSUME TypeOK, NEW c \in Conn, NEW closes \in BOOLEAN, AcceptThrows(c, closes),
           acceptQ # <<>>
    PROVE  /\ acceptQ' \in Seq(Conn) /\ accepting' \in BOOLEAN /\ awaited' \in SUBSET Conn
           /\ hs' \in [Conn -> {"none", "accept", "done", "failed"}]
           /\ TransportTypes' /\ ChannelTypes' /\ SocketTypes'
           /\ UNCHANGED <<active, hsBy, replied>>
<1>1. acceptQ' \in Seq(Conn) /\ accepting' = FALSE /\ awaited' = {}
      /\ UNCHANGED <<active, hsBy, replied>>
  BY DEF TypeOK, AcceptThrows
<1>2. hs' \in [Conn -> {"none", "accept", "done", "failed"}]
  BY DEF TypeOK, AcceptThrows
<1>3. TransportTypes' /\ ChannelTypes'
  BY ReleaseTypes, CloseTypes DEF AcceptThrows
<1>4. SocketTypes'
  <2>1. CASE QueueThrows
    BY <2>1, QueueTypes
  <2>2. CASE UNCHANGED <<queue, control, invalid>>
    BY <2>2 DEF TypeOK, SocketTypes, QueueType
  <2> QED BY <2>1, <2>2 DEF AcceptThrows
<1> QED BY <1>1, <1>2, <1>3, <1>4

LEMMA RegisterTypes ==
    ASSUME TypeOK, NEW c \in Conn, Register(c), acceptQ # <<>>
    PROVE  /\ acceptQ' \in Seq(Conn) /\ accepting' \in BOOLEAN /\ awaited' \in SUBSET Conn
           /\ hs' \in [Conn -> {"none", "accept", "done", "failed"}]
           /\ replied' \in [Conn -> BOOLEAN]
           /\ TransportTypes' /\ ControllerTypes' /\ SocketTypes' /\ UNCHANGED <<chan, hsBy>>
<1>1. acceptQ' \in Seq(Conn) /\ accepting' = FALSE /\ awaited' = {} /\ UNCHANGED <<chan, hsBy>>
  BY DEF TypeOK, Register
<1>2. hs' \in [Conn -> {"none", "accept", "done", "failed"}] /\ replied' \in [Conn -> BOOLEAN]
  BY DEF TypeOK, Register
<1>3. TransportTypes'
  BY DEF TypeOK, Register, TransportTypes, Closed
<1>4. ControllerTypes'
  BY DEF TypeOK, Register, ControllerTypes
<1>5. SocketTypes'
  <2>1. CASE QueueEndsAfterSend
    BY <2>1, QueueTypes
  <2>2. CASE UNCHANGED <<queue, control, invalid>>
    BY <2>2 DEF TypeOK, SocketTypes, QueueType
  <2> QED BY <2>1, <2>2 DEF Register
<1> QED BY <1>1, <1>2, <1>3, <1>4, <1>5

LEMMA AcceptsTypes == ASSUME TypeOK, accepting => acceptQ # <<>>, Accepts PROVE TypeOK'
<1> DEFINE c == Head(acceptQ)
<1> USE DEF hsVars, peerVars
<1>0. ASSUME acceptQ # <<>> PROVE c \in Conn
  BY <1>0 DEF TypeOK
<1>1. CASE AcceptStarts
  <2>1. acceptQ # <<>> /\ c \in Conn
    BY <1>0, <1>1 DEF AcceptStarts
  <2>2. UNCHANGED <<transport, offering, parked, carrier, sweep, peerVars, seen, outages>>
    BY <1>1 DEF AcceptStarts
  <2>3. CASE AcceptThrows(c, TRUE) /\ UNCHANGED disc
    <3>1. /\ acceptQ' \in Seq(Conn) /\ accepting' \in BOOLEAN /\ awaited' \in SUBSET Conn
          /\ hs' \in [Conn -> {"none", "accept", "done", "failed"}]
          /\ TransportTypes' /\ ChannelTypes' /\ SocketTypes'
          /\ UNCHANGED <<active, hsBy, replied>>
      BY <2>1, <2>3, ThrowTypes
    <3> QED BY <2>2, <2>3, <3>1 DEF TypeOK, TransportTypes, ChannelTypes, SocketTypes, QueueType
  <2>4. CASE Register(c)
    <3>1. /\ acceptQ' \in Seq(Conn) /\ accepting' \in BOOLEAN /\ awaited' \in SUBSET Conn
          /\ hs' \in [Conn -> {"none", "accept", "done", "failed"}]
          /\ replied' \in [Conn -> BOOLEAN]
          /\ TransportTypes' /\ ControllerTypes' /\ SocketTypes' /\ UNCHANGED <<chan, hsBy>>
      BY <2>1, <2>4, RegisterTypes
    <3> QED BY <2>2, <3>1 DEF TypeOK, TransportTypes, ControllerTypes, SocketTypes, QueueType
  <2>5. CASE /\ Disconnect(active \cap SamePeer(c))
             /\ accepting' = TRUE /\ awaited' = active \cap SamePeer(c)
             /\ UNCHANGED <<acceptQ, inMap, rtc, ds, lease, chan, hsVars, queue, control, invalid>>
    <3>1. ControllerTypes'
      BY <2>5, DisconnectTypes
    <3>2. awaited' \in SUBSET Conn
      BY <2>5 DEF TypeOK
    <3> QED BY <2>2, <2>5, <3>1, <3>2 DEF TypeOK, ControllerTypes
  <2> QED BY <1>1, <2>3, <2>4, <2>5 DEF AcceptStarts
<1>2. CASE AcceptFinishes
  <2>1. acceptQ # <<>> /\ c \in Conn
    BY <1>0, <1>2 DEF AcceptFinishes
  <2>2. /\ acceptQ' \in Seq(Conn) /\ accepting' \in BOOLEAN /\ awaited' \in SUBSET Conn
        /\ hs' \in [Conn -> {"none", "accept", "done", "failed"}]
        /\ replied' \in [Conn -> BOOLEAN]
        /\ TransportTypes' /\ ControllerTypes' /\ SocketTypes' /\ UNCHANGED <<chan, hsBy>>
    BY <1>2, <2>1, RegisterTypes DEF AcceptFinishes
  <2>3. UNCHANGED <<transport, offering, parked, carrier, sweep, peerVars, seen, outages>>
    BY <1>2 DEF AcceptFinishes
  <2> QED BY <2>2, <2>3 DEF TypeOK, TransportTypes, ControllerTypes, SocketTypes, QueueType
<1>3. CASE AcceptFails
  <2>1. acceptQ # <<>> /\ c \in Conn
    BY <1>0, <1>3 DEF AcceptFails
  <2>2. AcceptThrows(c, FALSE)
        /\ UNCHANGED <<disc, transport, offering, parked, carrier, sweep, peerVars, seen, outages>>
    BY <1>3 DEF AcceptFails
  <2>3. /\ acceptQ' \in Seq(Conn) /\ accepting' \in BOOLEAN /\ awaited' \in SUBSET Conn
        /\ hs' \in [Conn -> {"none", "accept", "done", "failed"}]
        /\ TransportTypes' /\ ChannelTypes' /\ SocketTypes'
        /\ UNCHANGED <<active, hsBy, replied>>
    BY <2>1, <2>2, ThrowTypes
  <2> QED BY <2>2, <2>3 DEF TypeOK, TransportTypes, ChannelTypes, SocketTypes, QueueType
<1> QED BY <1>1, <1>2, <1>3 DEF Accepts

----------------------------------------------------------------------------
(***************************************************************************)
(* One active connection per peer.                                         *)
(***************************************************************************)
(* While acceptOne awaits the connections it replaces, the peer it accepts *)
(* has no active connection: whoever runs meanwhile only removes some.     *)
AcceptInv ==
    /\ active \in SUBSET Conn
    /\ acceptQ \in Seq(Conn)
    /\ accepting \in BOOLEAN
    /\ OneActivePerPeer
    /\ accepting => /\ acceptQ # <<>>
                    /\ \A d \in active : PeerOf[d] # PeerOf[Head(acceptQ)]

(* What every step outside acceptOne does to the controller. *)
Shrinks ==
    /\ active' \subseteq active
    /\ accepting' = accepting
    /\ acceptQ' = acceptQ \/ \E c \in Conn : acceptQ' = Append(acceptQ, c)

LEMMA ShrinkingKeeps == AcceptInv /\ Shrinks => AcceptInv'
<1> SUFFICES ASSUME AcceptInv, Shrinks PROVE AcceptInv'
  OBVIOUS
<1>1. acceptQ' \in Seq(Conn)
  BY DEF AcceptInv, Shrinks
<1>2. acceptQ # <<>> => acceptQ' # <<>> /\ Head(acceptQ') = Head(acceptQ)
  BY DEF AcceptInv, Shrinks
<1> QED BY <1>1, <1>2 DEF AcceptInv, Shrinks, OneActivePerPeer

(* Pieces of handlers, as far as the controller sees them. *)
LEMMA DropShrinks == ASSUME NEW S, DropAll(S) PROVE active' \subseteq active
  BY DEF DropAll, Disconnect

LEMMA ResumeShrinks ==
    ASSUME NEW c \in Conn, NEW by, NEW tr, NEW r, ResumePending(c, by, tr, r)
    PROVE  acceptQ' = acceptQ \/ acceptQ' = Append(acceptQ, c)
  BY DEF ResumePending, BeginAccept

LEMMA FrameShrinks == ASSUME NEW c \in Conn, Frame(c) PROVE Shrinks
<1>1. CASE ConnectIncoming(c)
  BY <1>1 DEF ConnectIncoming, Shrinks, ctrlVars
<1>2. CASE SignalOffer(c)
  BY <1>2 DEF SignalOffer, Shrinks, ctrlVars
<1>3. CASE TransportSelected(c)
  <2>1. acceptQ' = acceptQ \/ acceptQ' = Append(acceptQ, c)
    <3> USE <1>3
    <3>1. \/ UNCHANGED acceptQ
          \/ SelectRelay(c)
          \/ SelectRtc(c)
      BY DEF TransportSelected
    <3>2. CASE SelectRelay(c)
      BY <3>2, ResumeShrinks DEF SelectRelay, QueueResumes
    <3>3. CASE SelectRtc(c)
      BY <3>3, ResumeShrinks DEF SelectRtc, QueueResumes
    <3> QED BY <3>1, <3>2, <3>3
  <2>2. UNCHANGED <<active, accepting>>
    BY <1>3 DEF TransportSelected
  <2> QED BY <2>1, <2>2 DEF Shrinks
<1>4. CASE SecureHandshake(c)
  <2>1. acceptQ' = acceptQ \/ acceptQ' = Append(acceptQ, c)
    BY <1>4 DEF SecureHandshake, BeginAccept
  <2>2. UNCHANGED <<active, accepting>>
    BY <1>4 DEF SecureHandshake
  <2> QED BY <2>1, <2>2 DEF Shrinks
<1>5. CASE ServerClosesConnection(c)
  BY <1>5, DropShrinks DEF ServerClosesConnection, Shrinks
<1>6. CASE LeaseAck(c)
  BY <1>6 DEF LeaseAck, Shrinks, ctrlVars
<1> QED BY <1>1, <1>2, <1>3, <1>4, <1>5, <1>6 DEF Frame

LEMMA CallbackShrinks == ASSUME NEW c \in Conn, Callback(c) PROVE Shrinks
<1>1. CASE OfferPrepared(c) \/ OfferIgnored(c)
  BY <1>1 DEF OfferPrepared, OfferIgnored, Shrinks, ctrlVars
<1>2. CASE RtcOpened(c)
  BY <1>2, DropShrinks, ResumeShrinks DEF RtcOpened, Shrinks
<1>3. CASE RtcFailed(c)
  BY <1>3, DropShrinks, ResumeShrinks DEF RtcFailed, Shrinks
<1>4. CASE DataSocketClosed(c)
  BY <1>4, DropShrinks DEF DataSocketClosed, Shrinks
<1>5. CASE LeaseExpires(c)
  BY <1>5, DropShrinks DEF LeaseExpires, Shrinks
<1>6. CASE SendFails(c)
  BY <1>6 DEF SendFails, Disconnect, Shrinks
<1>7. CASE RequestFails(c)
  BY <1>7 DEF RequestFails, Disconnect, Shrinks
<1> QED BY <1>1, <1>2, <1>3, <1>4, <1>5, <1>6, <1>7 DEF Callback

LEMMA SettlesShrinks == ASSUME NEW c \in Conn, Settles(c) PROVE Shrinks
<1>1. CASE IncomingAuthorized(c) \/ IncomingRejected(c)
  BY <1>1 DEF IncomingAuthorized, IncomingRejected, Shrinks, ctrlVars
<1>2. CASE AttachReady(c)
  BY <1>2, ResumeShrinks DEF AttachReady, QueueResumes, Shrinks
<1>3. CASE AttachFailed(c)
  BY <1>3, DropShrinks DEF AttachFailed, Shrinks
<1>4. CASE StreamsClosed(c)
  BY <1>4 DEF StreamsClosed, Shrinks
<1> QED BY <1>1, <1>2, <1>3, <1>4 DEF Settles

LEMMA PeerShrinks == ASSUME NEW p \in Peer, RevokePeer(p) \/ RevokeDisconnects(p) PROVE Shrinks
  BY DEF RevokePeer, RevokeDisconnects, Disconnect, Shrinks, ctrlVars

LEMMA SocketShrinks == Outage \/ Finish \/ SweepConnections \/ HelloAck => Shrinks
<1>1. Outage => Shrinks
  BY DEF Outage, Shrinks, ctrlVars
<1>2. Finish => Shrinks
  BY DropShrinks DEF Finish, Shrinks
<1>3. SweepConnections => Shrinks
  BY DEF SweepConnections, Disconnect, Shrinks
<1>4. HelloAck => Shrinks
  BY DropShrinks DEF HelloAck, Shrinks
<1> QED BY <1>1, <1>2, <1>3, <1>4

(* A channel is registered when no active connection is of its peer. *)
LEMMA RegisterKeeps ==
    ASSUME AcceptInv, acceptQ # <<>>, Register(Head(acceptQ)),
           \A d \in active : PeerOf[d] # PeerOf[Head(acceptQ)]
    PROVE  AcceptInv'
<1>1. Head(acceptQ) \in Conn /\ Tail(acceptQ) \in Seq(Conn)
  BY DEF AcceptInv
<1>2. acceptQ' = Tail(acceptQ) /\ accepting' = FALSE
  BY DEF Register
<1>3. active' = active \/ active' = active \cup {Head(acceptQ)}
  BY DEF Register
<1> QED BY <1>1, <1>2, <1>3 DEF AcceptInv, OneActivePerPeer

(* A channel that is refused leaves the controller as it was. *)
LEMMA ThrowKeeps ==
    ASSUME AcceptInv, acceptQ # <<>>, NEW closes \in BOOLEAN, AcceptThrows(Head(acceptQ), closes)
    PROVE  AcceptInv'
<1>1. acceptQ' = Tail(acceptQ) /\ accepting' = FALSE /\ active' = active
  BY DEF AcceptThrows
<1>2. Tail(acceptQ) \in Seq(Conn)
  BY DEF AcceptInv
<1> QED BY <1>1, <1>2 DEF AcceptInv, OneActivePerPeer

LEMMA AcceptsKeep == AcceptInv /\ Accepts => AcceptInv'
<1> SUFFICES ASSUME AcceptInv, Accepts PROVE AcceptInv'
  OBVIOUS
<1>1. CASE AcceptStarts
  <2> DEFINE c == Head(acceptQ)
             replaced == active \cap SamePeer(c)
  <2>0. acceptQ # <<>> /\ c \in Conn
    BY <1>1 DEF AcceptStarts, AcceptInv
  <2>1. CASE PeerOf[c] \notin trusted
    BY <1>1, <2>0, <2>1, ThrowKeeps DEF AcceptStarts
  <2>2. CASE PeerOf[c] \in trusted /\ replaced = {}
    <3>1. \A d \in active : PeerOf[d] # PeerOf[c]
      BY <2>2 DEF SamePeer, AcceptInv
    <3>2. Register(c)
      BY <1>1, <2>2 DEF AcceptStarts
    <3> QED BY <2>0, <3>1, <3>2, RegisterKeeps
  <2>3. CASE PeerOf[c] \in trusted /\ replaced # {}
    <3>1. active' = active \ replaced /\ accepting' = TRUE /\ acceptQ' = acceptQ
      BY <1>1, <2>3 DEF AcceptStarts, Disconnect
    <3>2. \A d \in active' : PeerOf[d] # PeerOf[c]
      BY <3>1 DEF SamePeer, AcceptInv
    <3> HIDE DEF replaced
    <3> QED BY <2>0, <3>1, <3>2 DEF AcceptInv, OneActivePerPeer
  <2> QED BY <2>1, <2>2, <2>3
<1>2. CASE AcceptFinishes
  BY <1>2, RegisterKeeps DEF AcceptFinishes, AcceptInv
<1>3. CASE AcceptFails
  BY <1>3, ThrowKeeps DEF AcceptFails, AcceptInv
<1> QED BY <1>1, <1>2, <1>3 DEF Accepts

LEMMA AcceptNext == AcceptInv /\ [Next]_vars => AcceptInv'
<1> SUFFICES ASSUME AcceptInv, [Next]_vars PROVE AcceptInv'
  OBVIOUS
<1>1. CASE Accepts
  BY <1>1, AcceptsKeep
<1>2. ASSUME NEW c \in Conn, Frame(c) \/ Callback(c) \/ Settles(c) PROVE AcceptInv'
  BY <1>2, FrameShrinks, CallbackShrinks, SettlesShrinks, ShrinkingKeeps
<1>3. ASSUME NEW p \in Peer, RevokePeer(p) \/ RevokeDisconnects(p) PROVE AcceptInv'
  BY <1>3, PeerShrinks, ShrinkingKeeps
<1>4. CASE Outage \/ Finish \/ SweepConnections \/ HelloAck
  BY <1>4, SocketShrinks, ShrinkingKeeps
<1>5. CASE UNCHANGED vars
  BY <1>5, ShrinkingKeeps DEF vars, ctrlVars, Shrinks
<1> QED BY <1>1, <1>2, <1>3, <1>4, <1>5 DEF Next

LEMMA AcceptInit == Init => AcceptInv
<1>1. Init => active = {} /\ acceptQ = <<>> /\ accepting = FALSE
  BY DEF Init
<1>2. <<>> \in Seq(Conn)
  OBVIOUS
<1>3. ASSUME active = {}, acceptQ = <<>>, accepting = FALSE PROVE AcceptInv
  BY <1>2, <1>3 DEF AcceptInv, OneActivePerPeer
<1> QED BY <1>1, <1>3

(* A client device has at most one active connection, in every             *)
(* interleaving of accepts, drops, disconnects, revocations and outages    *)
(* (ConnectionController.acceptOne and acceptQueue).                       *)
THEOREM OneActive == Spec => []OneActivePerPeer
<1>1. AcceptInv => OneActivePerPeer
  BY DEF AcceptInv
<1> QED BY <1>1, AcceptInit, AcceptNext, PTL DEF Spec

LEMMA TypesInit == Init => TypeOK
<1> SUFFICES ASSUME Init PROVE TypeOK
  OBVIOUS
<1> USE DEF Init
<1>1. /\ inMap \in [Conn -> BOOLEAN] /\ offering \in [Conn -> BOOLEAN]
      /\ parked \in [Conn -> BOOLEAN] /\ replied \in [Conn -> BOOLEAN]
      /\ trusted \in SUBSET Peer /\ seen \in [Conn -> SUBSET Frames]
  <2>1. {} \in SUBSET Frames /\ Peer \in SUBSET Peer
    OBVIOUS
  <2>2. trusted = Peer /\ seen = [c \in Conn |-> {}]
    OBVIOUS
  <2>3. seen \in [Conn -> SUBSET Frames]
    BY <2>1, <2>2
  <2> QED BY <2>1, <2>2, <2>3
<1>5. revoking \in [Peer -> {"no", "saving", "done"}] /\ outages \in 0..MaxOutages
  BY TunnelsAssumption DEF TunnelsAssumption
<1>2. acceptQ \in Seq(Conn)
  OBVIOUS
<1>3. /\ active \in SUBSET Conn /\ awaited \in SUBSET Conn /\ accepting \in BOOLEAN
      /\ invalid \in BOOLEAN /\ sweep \in BOOLEAN
      /\ control \in {"online", "closed", "offline"} /\ QueueType
  BY DEF QueueType
<1>4. /\ transport \in [Conn -> Paths] /\ carrier \in [Conn -> {"none", "rtc", "relay"}]
      /\ hs \in [Conn -> {"none", "accept", "done", "failed"}] /\ hsBy \in [Conn -> By]
      /\ disc \in [Conn -> {"none", "streams", "done", "failed"}]
      /\ TransportTypes /\ ChannelTypes
  BY DEF Paths, By, TransportTypes, ChannelTypes
<1> HIDE DEF Init
<1> QED BY <1>1, <1>2, <1>3, <1>4, <1>5
        DEF TypeOK, QueueType, Paths, By, TransportTypes, ChannelTypes

LEMMA TypesNext == TypeOK /\ AcceptInv /\ [Next]_vars => TypeOK'
<1> SUFFICES ASSUME TypeOK, AcceptInv, [Next]_vars PROVE TypeOK'
  OBVIOUS
<1>1. CASE Accepts
  BY <1>1, AcceptsTypes DEF AcceptInv
<1>2. ASSUME NEW c \in Conn, Frame(c) \/ Callback(c) \/ Settles(c) PROVE TypeOK'
  BY <1>2, FrameTypes, CallbackTypes, SettlesTypes
<1>3. ASSUME NEW p \in Peer, RevokePeer(p) \/ RevokeDisconnects(p) PROVE TypeOK'
  BY <1>3, PeerTypes
<1>4. CASE Outage \/ Finish \/ SweepConnections \/ HelloAck
  BY <1>4, ControlTypes
<1>5. CASE UNCHANGED vars
  BY <1>5 DEF vars, tunnelVars, hsVars, ctrlVars, socketVars, peerVars, TypeOK
<1> QED BY <1>1, <1>2, <1>3, <1>4, <1>5 DEF Next

(* Every table, queue and state of the Host keeps its type (the fields of  *)
(* HostServerConnection and ConnectionController).  AcceptInv is needed:   *)
(* acceptOne takes the head of a queue that is not empty.                  *)
THEOREM TunnelTypes == Spec => []TypeOK
  BY AcceptInit, AcceptNext, TypesInit, TypesNext, PTL DEF Spec

----------------------------------------------------------------------------
(***************************************************************************)
(* The data plane of a connection is decided once: the path a tunnel       *)
(* negotiates, selects and binds its channel to.                           *)
(***************************************************************************)
Heard(c) == seen[c] = Over \/ "incoming" \in seen[c]

(* A tunnel is announced once; its path and its RTC object agree until it  *)
(* leaves the table; a bound channel has the carrier of its path.          *)
Path(c) ==
    /\ inMap[c] \/ chan[c] # "none" \/ rtc[c] # "none" => Heard(c)
    /\ queue = <<"incoming", c>> => Heard(c) /\ ~inMap[c] /\ chan[c] = "none" /\ rtc[c] = "none"
    /\ inMap[c] => /\ rtc[c] # "closed" /\ transport[c] # "none"
                   /\ transport[c] = "rtc" => rtc[c] # "none"
                   /\ transport[c] = "relay" => rtc[c] = "none"
    /\ chan[c] # "none" => transport[c] = carrier[c] /\ carrier[c] # "none"

PathInv == \A c \in Conn : Path(c)

(* What a step does to a connection whose path it does not decide.         *)
Fades(d) ==
    /\ inMap'[d] => inMap[d] /\ rtc'[d] = rtc[d]
    /\ rtc'[d] # "none" => rtc[d] # "none"
    /\ chan'[d] # "none" => chan[d] # "none"
SamePath(d) == transport'[d] = transport[d] /\ carrier'[d] = carrier[d]
Hears(d) == (Heard(d) => Heard(d)') /\ (queue' = <<"incoming", d>> => queue = <<"incoming", d>>)

Quiet(d) == Fades(d) /\ SamePath(d) /\ Hears(d)

Immutable(d) == chan[d] # "none" => SamePath(d)

LEMMA QuietKeeps == ASSUME NEW d \in Conn, Path(d), Quiet(d) PROVE Path(d)' /\ Immutable(d)
  BY DEF Path, Quiet, Fades, SamePath, Hears, Immutable, Heard

(* Pieces of handlers. *)
LEMMA ReleaseFades ==
    ASSUME TypeOK, NEW S, Release(S), NEW d \in Conn
    PROVE  (inMap'[d] => inMap[d] /\ rtc'[d] = rtc[d]) /\ (rtc'[d] # "none" => rtc[d] # "none")
  BY DEF TypeOK, Release, Closed

LEMMA CloseFades ==
    ASSUME TypeOK, NEW S, CloseChannels(S), NEW d \in Conn
    PROVE  chan'[d] # "none" => chan[d] # "none"
  BY DEF TypeOK, CloseChannels, Closed

LEMMA DropFades == ASSUME TypeOK, NEW S, DropAll(S), NEW d \in Conn PROVE Fades(d)
<1> DEFINE T == {c \in S : inMap[c]}
<1>1. Release(T) /\ CloseChannels(T \ active)
  BY DEF DropAll
<1> HIDE DEF T
<1>2. (inMap'[d] => inMap[d] /\ rtc'[d] = rtc[d]) /\ (rtc'[d] # "none" => rtc[d] # "none")
  BY <1>1, ReleaseFades
<1>3. chan'[d] # "none" => chan[d] # "none"
  BY <1>1, CloseFades
<1> QED BY <1>2, <1>3 DEF Fades

LEMMA ThrowFades ==
    ASSUME TypeOK, NEW c, NEW closes, AcceptThrows(c, closes), NEW d \in Conn
    PROVE  Fades(d) /\ (queue' = queue \/ queue' = Idle)
<1>1. Fades(d)
  BY ReleaseFades, CloseFades DEF AcceptThrows, Fades
<1>2. queue' = queue \/ queue' = Idle
  BY DEF AcceptThrows, QueueThrows
<1> QED BY <1>1, <1>2

LEMMA RegisterFades ==
    ASSUME TypeOK, NEW c \in Conn, Register(c), NEW d \in Conn
    PROVE  Fades(d) /\ (queue' = queue \/ queue' = Idle)
<1>1. Fades(d)
  <2>1. PICK drops \in BOOLEAN : /\ inMap' = [inMap EXCEPT ![c] = @ /\ ~drops]
                                 /\ rtc' = [rtc EXCEPT ![c] = IF drops THEN Closed(@) ELSE @]
    BY DEF Register
  <2>2. chan' = chan
    BY DEF Register
  <2>3. inMap \in [Conn -> BOOLEAN] /\ DOMAIN rtc = Conn
    BY DEF TypeOK
  <2>4. CASE drops
    BY <2>1, <2>2, <2>3, <2>4 DEF Closed, Fades
  <2>5. CASE ~drops
    BY <2>1, <2>2, <2>3, <2>5 DEF Fades
  <2> QED BY <2>4, <2>5
<1>2. queue' = queue \/ queue' = Idle
  BY DEF Register, QueueEndsAfterSend, QueueThrows, QueueEnds
<1> QED BY <1>1, <1>2

LEMMA DeliverHears ==
    ASSUME TypeOK, NEW c \in Conn, NEW f \in Frames, Deliver(c, f), NEW d \in Conn
    PROVE  /\ Heard(d) => Heard(d)'
           /\ f \in {"incoming", "ended"} => Heard(c)'
           /\ f = "incoming" => ~Heard(c)
           /\ queue = Idle
  BY DEF TypeOK, Deliver, Heard, Over, Frames

(* completeHandshake binds the carrier of the path decided. *)
LEMMA BeginBinds ==
    ASSUME TypeOK, NEW c \in Conn, NEW by, NEW tr \in Paths, NEW r, BeginAccept(c, by, tr, r),
           tr = "rtc" => r # "none", tr # "none"
    PROVE  /\ transport'[c] = carrier'[c] /\ carrier'[c] # "none"
           /\ transport'[c] = (IF tr = "negotiating" THEN "relay" ELSE tr)
           /\ \A d \in Conn \ {c} : SamePath(d) /\ chan'[d] = chan[d]
  BY DEF TypeOK, BeginAccept, Via, Paths, SamePath

LEMMA ResumeBinds ==
    ASSUME TypeOK, NEW c \in Conn, NEW by, NEW tr \in Paths, NEW r, ResumePending(c, by, tr, r),
           tr = "rtc" => r # "none", tr # "none"
    PROVE  /\ transport'[c] = tr
           /\ chan[c] # "none" => chan'[c] = chan[c] /\ carrier'[c] = carrier[c]
           /\ chan[c] = "none" /\ chan'[c] # "none" =>
                 transport'[c] = carrier'[c] /\ carrier'[c] # "none"
           /\ \A d \in Conn \ {c} : SamePath(d) /\ chan'[d] = chan[d]
<1>1. CASE BeginAccept(c, by, tr, r) /\ chan[c] = "none" /\ tr # "negotiating"
  BY <1>1, BeginBinds
<1>2. CASE /\ transport' = [transport EXCEPT ![c] = tr]
           /\ UNCHANGED <<chan, carrier, parked, acceptQ, hs, hsBy>>
  BY <1>2 DEF TypeOK, SamePath
<1> QED BY <1>1, <1>2 DEF ResumePending

----------------------------------------------------------------------------
(* Steps that decide no path. *)
LEMMA AcceptsQuiet == ASSUME TypeOK, AcceptInv, Accepts, NEW d \in Conn PROVE Quiet(d)
<1> DEFINE c == Head(acceptQ)
<1>1. acceptQ # <<>> /\ c \in Conn
  <2>1. acceptQ # <<>>
    BY DEF AcceptInv, Accepts, AcceptStarts, AcceptFinishes, AcceptFails
  <2> QED BY <2>1 DEF AcceptInv
<1>2. UNCHANGED <<transport, carrier, seen>>
  BY DEF Accepts, AcceptStarts, AcceptFinishes, AcceptFails
<1>3. Fades(d) /\ (queue' = queue \/ queue' = Idle)
  <2>1. CASE \E closes \in BOOLEAN : AcceptThrows(c, closes)
    BY <2>1, ThrowFades
  <2>2. CASE Register(c)
    BY <1>1, <2>2, RegisterFades
  <2>3. CASE UNCHANGED <<inMap, rtc, chan, queue>>
    BY <2>3 DEF Fades
  <2> QED BY <2>1, <2>2, <2>3 DEF Accepts, AcceptStarts, AcceptFinishes, AcceptFails
<1> QED BY <1>2, <1>3 DEF Quiet, SamePath, Hears, Heard, Idle

LEMMA EndsQuiet ==
    ASSUME TypeOK, NEW c \in Conn, NEW d \in Conn,
           \/ SignalOffer(c) \/ OfferIgnored(c) \/ LeaseAck(c) \/ RequestFails(c)
           \/ IncomingRejected(c)
    PROVE  Quiet(d)
<1>1. CASE SignalOffer(c)
  BY <1>1, DeliverHears DEF SignalOffer, Frames, Quiet, Fades, SamePath, Hears, Idle
<1>2. CASE OfferIgnored(c)
  BY <1>2 DEF OfferIgnored, socketVars, Quiet, Fades, SamePath, Hears, Heard
<1>3. CASE LeaseAck(c)
  BY <1>3 DEF LeaseAck, socketVars, Quiet, Fades, SamePath, Hears, Heard
<1>4. CASE RequestFails(c)
  BY <1>4 DEF RequestFails, tunnelVars, socketVars, Quiet, Fades, SamePath, Hears, Heard
<1>5. CASE IncomingRejected(c)
  <2>1. Heard(d) => Heard(d)'
    BY <1>5 DEF IncomingRejected, TypeOK, Heard
  <2>2. queue' = Idle /\ UNCHANGED <<inMap, rtc, chan, transport, carrier>>
    BY <1>5 DEF IncomingRejected, tunnelVars, QueueEndsAfterSend, QueueEnds, QueueThrows
  <2> QED BY <2>1, <2>2 DEF Quiet, Fades, SamePath, Hears, Idle
<1> QED BY <1>1, <1>2, <1>3, <1>4, <1>5

LEMMA DropsQuiet ==
    ASSUME TypeOK, NEW c \in Conn, NEW d \in Conn,
           \/ ServerClosesConnection(c) \/ AttachFailed(c) \/ DataSocketClosed(c)
           \/ LeaseExpires(c) \/ SendFails(c) \/ StreamsClosed(c)
    PROVE  Quiet(d)
<1>1. CASE ServerClosesConnection(c)
  BY <1>1, DropFades, DeliverHears
     DEF ServerClosesConnection, Frames, Quiet, SamePath, Hears, Idle
<1>2. CASE AttachFailed(c)
  <2>1. queue' = Idle
    BY <1>2 DEF AttachFailed, QueueEndsAfterSend, QueueEnds, QueueThrows
  <2> QED BY <1>2, <2>1, DropFades DEF AttachFailed, Quiet, SamePath, Hears, Heard, Idle
<1>3. CASE DataSocketClosed(c)
  BY <1>3, DropFades DEF DataSocketClosed, socketVars, Quiet, SamePath, Hears, Heard
<1>4. CASE LeaseExpires(c)
  <2>1. Fades(d)
    BY <1>4, DropFades DEF LeaseExpires, Fades
  <2> QED BY <1>4, <2>1 DEF LeaseExpires, socketVars, Quiet, SamePath, Hears, Heard
<1>5. CASE SendFails(c)
  <2>1. Fades(d)
    BY <1>5, ReleaseFades, CloseFades DEF SendFails, Fades
  <2> QED BY <1>5, <2>1 DEF SendFails, socketVars, Quiet, SamePath, Hears, Heard
<1>6. CASE StreamsClosed(c)
  <2>1. Fades(d)
    BY <1>6, ReleaseFades, CloseFades DEF StreamsClosed, Fades
  <2>2. queue' = queue \/ queue' = Idle
    BY <1>6 DEF StreamsClosed, AfterDrop
  <2> QED BY <1>6, <2>1, <2>2 DEF StreamsClosed, Quiet, SamePath, Hears, Heard, Idle
<1> QED BY <1>1, <1>2, <1>3, <1>4, <1>5, <1>6

LEMMA ControlQuiet ==
    ASSUME TypeOK, Outage \/ Finish \/ SweepConnections \/ HelloAck, NEW d \in Conn PROVE Quiet(d)
<1>1. CASE Outage
  BY <1>1 DEF Outage, tunnelVars, Quiet, Fades, SamePath, Hears, Heard
<1>2. CASE Finish
  <2>1. CASE DropAll(Unleased)
    BY <1>2, <2>1, DropFades DEF Finish, Quiet, SamePath, Hears, Heard
  <2>2. CASE Release({c \in Conn : inMap[c]}) /\ CloseChannels({c \in Conn : inMap[c]})
    <3>1. Fades(d)
      BY <2>2, ReleaseFades, CloseFades DEF Fades
    <3> QED BY <1>2, <3>1 DEF Finish, Quiet, SamePath, Hears, Heard
  <2> QED BY <1>2, <2>1, <2>2 DEF Finish
<1>3. CASE SweepConnections
  BY <1>3 DEF SweepConnections, tunnelVars, Quiet, Fades, SamePath, Hears, Heard
<1>4. CASE HelloAck
  <2>1. Fades(d)
    BY <1>4, DropFades DEF HelloAck
  <2>2. Heard(d) => Heard(d)'
    BY <1>4 DEF HelloAck, TypeOK, Heard
  <2> QED BY <1>4, <2>1, <2>2 DEF HelloAck, Quiet, SamePath, Hears
<1> QED BY <1>1, <1>2, <1>3, <1>4

LEMMA PeerQuiet ==
    ASSUME NEW p \in Peer, RevokePeer(p) \/ RevokeDisconnects(p), NEW d \in Conn PROVE Quiet(d)
  BY DEF RevokePeer, RevokeDisconnects, tunnelVars, socketVars, Quiet, Fades, SamePath, Hears, Heard

----------------------------------------------------------------------------
(* Steps that announce a tunnel or decide its path. *)
Kept(d) == Path(d)' /\ Immutable(d)

LEMMA IncomingKeeps ==
    ASSUME TypeOK, PathInv, NEW c \in Conn, NEW d \in Conn,
           ConnectIncoming(c) \/ IncomingAuthorized(c)
    PROVE  Kept(d)
<1> USE DEF Kept
<1>1. CASE ConnectIncoming(c)
  <2>1. CASE d = c
    <3>1. ~Heard(c) /\ Heard(c)'
      BY <1>1, DeliverHears DEF ConnectIncoming, Frames
    <3>2. UNCHANGED <<inMap, transport, rtc, chan, carrier>>
      BY <1>1 DEF ConnectIncoming, tunnelVars
    <3> QED BY <2>1, <3>1, <3>2 DEF PathInv, Path, Immutable, SamePath
  <2>2. CASE d # c
    <3>1. Heard(d) => Heard(d)'
      BY <1>1, DeliverHears DEF ConnectIncoming, Frames
    <3>2. UNCHANGED <<inMap, transport, rtc, chan, carrier>> /\ queue' = <<"incoming", c>>
      BY <1>1 DEF ConnectIncoming, tunnelVars
    <3>3. Quiet(d)
      BY <2>2, <3>1, <3>2 DEF Quiet, Fades, SamePath, Hears
    <3> QED BY <3>3, QuietKeeps DEF PathInv
  <2> QED BY <2>1, <2>2
<1>2. CASE IncomingAuthorized(c)
  <2>1. /\ queue = <<"incoming", c>> /\ queue' = Idle /\ UNCHANGED <<rtc, chan, carrier, seen>>
        /\ inMap' = [inMap EXCEPT ![c] = TRUE]
        /\ transport' = [transport EXCEPT ![c] = "negotiating"]
    BY <1>2 DEF IncomingAuthorized, QueueEndsAfterSend, QueueEnds, QueueThrows
  <2>2. DOMAIN inMap = Conn /\ DOMAIN transport = Conn
    BY DEF TypeOK
  <2>3. queue' # <<"incoming", d>> /\ (Heard(d) => Heard(d)')
    BY <2>1 DEF Idle, Heard
  <2>4. CASE d = c
    <3>1. Path(c)
      BY DEF PathInv
    <3>2. rtc[c] = "none" /\ chan[c] = "none" /\ Heard(c)
      BY <1>2, <2>1, <3>1 DEF Path, IncomingAuthorized
    <3> QED BY <2>1, <2>2, <2>3, <2>4, <3>2 DEF Path, Immutable, Kept
  <2>5. CASE d # c
    <3>1. Quiet(d)
      BY <2>1, <2>2, <2>3, <2>5 DEF Quiet, Fades, SamePath, Hears
    <3> QED BY <3>1, QuietKeeps DEF PathInv
  <2> QED BY <2>4, <2>5
<1> QED BY <1>1, <1>2

LEMMA PreparedKeeps ==
    ASSUME TypeOK, PathInv, NEW c \in Conn, NEW d \in Conn, OfferPrepared(c) PROVE Kept(d)
<1>1. UNCHANGED <<inMap, transport, chan, carrier, queue>> /\ (Heard(d) => Heard(d)')
  BY DEF OfferPrepared, socketVars, TypeOK, Heard
<1>2. CASE rtc' = rtc
  <2>1. Quiet(d)
    BY <1>1, <1>2 DEF Quiet, Fades, SamePath, Hears
  <2> QED BY <2>1, QuietKeeps DEF PathInv, Kept
<1>3. CASE StillOffered(c) /\ rtc' = [rtc EXCEPT ![c] = "starting"]
  BY <1>1, <1>3 DEF StillOffered, TypeOK, PathInv, Path, Immutable, SamePath, Kept
<1> QED BY <1>2, <1>3 DEF OfferPrepared

(* What the deciding steps have in common: the path of c is tr, and its RTC *)
(* object agrees.                                                           *)
LEMMA DecidedKeeps ==
    ASSUME TypeOK, PathInv, NEW c \in Conn, NEW d \in Conn, inMap[c], inMap' = inMap,
           NEW tr \in Paths, tr # "none", transport'[c] = tr,
           chan[c] # "none" => chan'[c] = chan[c] /\ carrier'[c] = carrier[c] /\ tr = transport[c],
           chan[c] = "none" /\ chan'[c] # "none" =>
               transport'[c] = carrier'[c] /\ carrier'[c] # "none",
           \A e \in Conn \ {c} : SamePath(e) /\ chan'[e] = chan[e] /\ rtc'[e] = rtc[e],
           rtc'[c] # "closed", tr = "rtc" => rtc'[c] # "none", tr = "relay" => rtc'[c] = "none",
           Hears(d)
    PROVE  Kept(d)
<1>1. CASE d = c
  BY <1>1 DEF PathInv, Path, Immutable, SamePath, Kept, Hears
<1>2. CASE d # c
  <2>1. Quiet(d)
    BY <1>2 DEF Quiet, Fades
  <2> QED BY <2>1, QuietKeeps DEF PathInv, Kept
<1> QED BY <1>1, <1>2

(* A bound channel whose tunnel has an RTC object is bound to it. *)
LEMMA BoundToRtc ==
    ASSUME TypeOK, PathInv, NEW c \in Conn, inMap[c], rtc[c] \in {"starting", "open"}
    PROVE  transport[c] \in {"negotiating", "rtc"} /\ (chan[c] # "none" => transport[c] = "rtc")
  BY DEF TypeOK, PathInv, Path

LEMMA OpenedKeeps ==
    ASSUME TypeOK, PathInv, NEW c \in Conn, NEW d \in Conn, RtcOpened(c) PROVE Kept(d)
<1>1. inMap[c] /\ rtc[c] = "starting" /\ UNCHANGED <<queue, seen>>
  BY DEF RtcOpened, socketVars
<1>2. chan[c] # "none" => transport[c] = "rtc"
  BY <1>1, BoundToRtc
<1>3. CASE control = "online"
  <2>1. /\ rtc' = [rtc EXCEPT ![c] = "open"] /\ inMap' = inMap
        /\ ResumePending(c, "opened", "rtc", "open")
    BY <1>3 DEF RtcOpened
  <2>2. rtc'[c] = "open" /\ \A e \in Conn \ {c} : rtc'[e] = rtc[e]
    BY <2>1 DEF TypeOK
  <2>3. "rtc" \in Paths
    BY DEF Paths
  <2>4. /\ transport'[c] = "rtc"
        /\ chan[c] # "none" => chan'[c] = chan[c] /\ carrier'[c] = carrier[c]
        /\ chan[c] = "none" /\ chan'[c] # "none" =>
              transport'[c] = carrier'[c] /\ carrier'[c] # "none"
        /\ \A e \in Conn \ {c} : SamePath(e) /\ chan'[e] = chan[e]
    BY <2>1, <2>3, ResumeBinds
  <2>5. Hears(d)
    BY <1>1 DEF Hears, Heard
  <2> QED BY <1>1, <1>2, <2>1, <2>2, <2>3, <2>4, <2>5, DecidedKeeps
<1>4. CASE control # "online"
  <2>1. /\ transport' = [transport EXCEPT ![c] = "rtc"] /\ DropAll({c}) /\ UNCHANGED carrier
    BY <1>4 DEF RtcOpened
  <2>2. Fades(d) /\ ~inMap'[c]
    BY <2>1, DropFades DEF DropAll, Release
  <2>3. CASE d = c
    BY <1>1, <1>2, <2>1, <2>2, <2>3
       DEF Fades, Kept, PathInv, Path, Immutable, SamePath, Heard, TypeOK
  <2>4. CASE d # c
    <3>1. Quiet(d)
      BY <1>1, <2>1, <2>2, <2>4 DEF TypeOK, Quiet, SamePath, Hears, Heard
    <3> QED BY <3>1, QuietKeeps DEF PathInv, Kept
  <2> QED BY <2>3, <2>4
<1> QED BY <1>3, <1>4

LEMMA FailedKeeps ==
    ASSUME TypeOK, PathInv, NEW c \in Conn, NEW d \in Conn, RtcFailed(c) PROVE Kept(d)
<1>1. inMap[c] /\ rtc[c] \in {"starting", "open"} /\ UNCHANGED <<queue, seen>>
  BY DEF RtcFailed, socketVars
<1>2. CASE transport[c] = "rtc"
  <2>1. DropAll({c}) /\ UNCHANGED <<transport, carrier>>
    BY <1>2 DEF RtcFailed
  <2>2. Quiet(d)
    BY <1>1, <2>1, DropFades DEF Quiet, SamePath, Hears, Heard
  <2> QED BY <2>2, QuietKeeps DEF PathInv, Kept
<1>3. CASE transport[c] # "rtc"
  <2>1. rtc' = AbandonRtc(c) /\ inMap' = inMap /\ ResumePending(c, "fallback", "relay", "none")
    BY <1>3 DEF RtcFailed
  <2>2. rtc'[c] = "none" /\ \A e \in Conn \ {c} : rtc'[e] = rtc[e]
    BY <2>1 DEF TypeOK, AbandonRtc
  <2>3. "relay" \in Paths /\ chan[c] = "none"
    BY <1>1, <1>3, BoundToRtc DEF Paths
  <2>4. /\ transport'[c] = "relay"
        /\ chan'[c] # "none" => transport'[c] = carrier'[c] /\ carrier'[c] # "none"
        /\ \A e \in Conn \ {c} : SamePath(e) /\ chan'[e] = chan[e]
    BY <2>1, <2>3, ResumeBinds
  <2>5. Hears(d)
    BY <1>1 DEF Hears, Heard
  <2> QED BY <1>1, <2>1, <2>2, <2>3, <2>4, <2>5, DecidedKeeps
<1> QED BY <1>2, <1>3

LEMMA AttachedKeeps ==
    ASSUME TypeOK, PathInv, NEW c \in Conn, NEW d \in Conn, AttachReady(c) PROVE Kept(d)
<1>1. /\ inMap[c] /\ UNCHANGED <<inMap, rtc, seen>> /\ queue' \in {<<"handshake", c>>, Idle}
      /\ ResumePending(c, "queue", transport[c], rtc[c])
  BY DEF AttachReady, QueueResumes
<1>2. /\ transport[c] \in Paths /\ transport[c] # "none" /\ rtc[c] # "closed"
      /\ transport[c] = "rtc" => rtc[c] # "none"
      /\ transport[c] = "relay" => rtc[c] = "none"
  BY <1>1 DEF TypeOK, PathInv, Path, Paths
<1>3. /\ transport'[c] = transport[c]
      /\ chan[c] # "none" => chan'[c] = chan[c] /\ carrier'[c] = carrier[c]
      /\ chan[c] = "none" /\ chan'[c] # "none" =>
            transport'[c] = carrier'[c] /\ carrier'[c] # "none"
      /\ \A e \in Conn \ {c} : SamePath(e) /\ chan'[e] = chan[e]
  BY <1>1, <1>2, ResumeBinds
<1>4. Hears(d)
  BY <1>1 DEF Hears, Heard, Idle
<1> QED BY <1>1, <1>2, <1>3, <1>4, DecidedKeeps

LEMMA SelectedKeeps ==
    ASSUME TypeOK, PathInv, NEW c \in Conn, NEW d \in Conn, TransportSelected(c) PROVE Kept(d)
<1>1. inMap' = inMap /\ queue = Idle
  BY DEF TransportSelected, Deliver
<1>2. Heard(d) => Heard(d)'
  BY DeliverHears DEF TransportSelected, Frames
<1>3. CASE UNCHANGED <<transport, rtc, chan, carrier, queue>>
  <2>1. Quiet(d)
    BY <1>1, <1>2, <1>3 DEF Quiet, Fades, SamePath, Hears
  <2> QED BY <2>1, QuietKeeps DEF PathInv, Kept
<1>4. CASE inMap[c] /\ chan[c] = "none" /\ SelectRelay(c)
  <2>1. rtc'[c] = "none" /\ \A e \in Conn \ {c} : rtc'[e] = rtc[e]
    BY <1>4 DEF SelectRelay, AbandonRtc, TypeOK
  <2>2. "relay" \in Paths
    BY DEF Paths
  <2>3. CASE /\ transport' = [transport EXCEPT ![c] = "relay"] /\ queue' = <<"attach", c>>
             /\ UNCHANGED <<chan, carrier>>
    <3>1. transport'[c] = "relay" /\ \A e \in Conn \ {c} : SamePath(e)
      BY <2>3 DEF TypeOK, SamePath
    <3>2. Hears(d)
      BY <1>2, <2>3 DEF Hears
    <3> QED BY <1>1, <1>4, <2>1, <2>2, <2>3, <3>1, <3>2, DecidedKeeps
  <2>4. CASE QueueResumes(c, "relay", "none")
    <3>1. ResumePending(c, "queue", "relay", "none") /\ queue' \in {<<"handshake", c>>, Idle}
      BY <2>4 DEF QueueResumes
    <3>2. /\ transport'[c] = "relay"
          /\ chan'[c] # "none" => transport'[c] = carrier'[c] /\ carrier'[c] # "none"
          /\ \A e \in Conn \ {c} : SamePath(e) /\ chan'[e] = chan[e]
      BY <1>4, <2>2, <3>1, ResumeBinds
    <3>3. Hears(d)
      BY <1>1, <1>2, <3>1 DEF Hears, Idle
    <3> QED BY <1>1, <1>4, <2>1, <2>2, <3>2, <3>3, DecidedKeeps
  <2> QED BY <1>4, <2>3, <2>4 DEF SelectRelay
<1>5. CASE inMap[c] /\ chan[c] = "none" /\ SelectRtc(c)
  <2>1. CASE rtc[c] = "none"
    <3>1. queue' = Idle /\ UNCHANGED <<transport, rtc, chan, carrier>>
      BY <1>5, <2>1 DEF SelectRtc, QueueThrows
    <3>2. Quiet(d)
      BY <1>1, <1>2, <3>1 DEF Quiet, Fades, SamePath, Hears
    <3> QED BY <3>2, QuietKeeps DEF PathInv, Kept
  <2>2. CASE rtc[c] # "none"
    <3>1. /\ ResumePending(c, "queue", "rtc", rtc[c]) /\ queue' \in {<<"handshake", c>>, Idle}
          /\ rtc' = rtc
      BY <1>5, <2>2 DEF SelectRtc, QueueResumes
    <3>2. "rtc" \in Paths /\ rtc[c] # "closed"
      BY <1>5 DEF Paths, PathInv, Path
    <3>3. /\ transport'[c] = "rtc"
          /\ chan'[c] # "none" => transport'[c] = carrier'[c] /\ carrier'[c] # "none"
          /\ \A e \in Conn \ {c} : SamePath(e) /\ chan'[e] = chan[e]
      BY <1>5, <2>2, <3>1, <3>2, ResumeBinds
    <3>4. Hears(d)
      BY <1>1, <1>2, <3>1 DEF Hears, Idle
    <3> QED BY <1>1, <1>5, <2>2, <3>1, <3>2, <3>3, <3>4, DecidedKeeps
  <2> QED BY <2>1, <2>2
<1> QED BY <1>3, <1>4, <1>5 DEF TransportSelected, SelectionIgnored

LEMMA HandshakeKeeps ==
    ASSUME TypeOK, PathInv, NEW c \in Conn, NEW d \in Conn, SecureHandshake(c) PROVE Kept(d)
<1>1. UNCHANGED <<inMap, rtc>> /\ queue = Idle
  BY DEF SecureHandshake, Deliver
<1>2. Heard(d) => Heard(d)'
  BY DeliverHears DEF SecureHandshake, Frames
<1>3. CASE UNCHANGED <<transport, chan, carrier>> /\ queue' = Idle
  <2>1. Quiet(d)
    BY <1>1, <1>2, <1>3 DEF Quiet, Fades, SamePath, Hears
  <2> QED BY <2>1, QuietKeeps DEF PathInv, Kept
<1>4. CASE /\ inMap[c] /\ chan[c] = "none" /\ BeginAccept(c, "queue", transport[c], rtc[c])
           /\ transport[c] = "negotiating" => rtc[c] = "none"
           /\ queue' = <<"handshake", c>>
  <2> DEFINE tr == IF transport[c] = "negotiating" THEN "relay" ELSE transport[c]
  <2>1. /\ transport[c] \in Paths /\ transport[c] # "none" /\ rtc[c] # "closed"
        /\ transport[c] = "rtc" => rtc[c] # "none"
        /\ transport[c] = "relay" => rtc[c] = "none"
    BY <1>4 DEF TypeOK, PathInv, Path, Paths
  <2>2. /\ transport'[c] = carrier'[c] /\ carrier'[c] # "none" /\ transport'[c] = tr
        /\ \A e \in Conn \ {c} : SamePath(e) /\ chan'[e] = chan[e]
    BY <1>4, <2>1, BeginBinds
  <2>3. /\ tr \in Paths /\ tr # "none"
        /\ tr = "rtc" => rtc[c] # "none"
        /\ tr = "relay" => rtc[c] = "none"
    BY <1>4, <2>1 DEF Paths
  <2>4. Hears(d)
    BY <1>2, <1>4 DEF Hears
  <2> HIDE DEF tr
  <2> QED BY <1>1, <1>4, <2>1, <2>2, <2>3, <2>4, DecidedKeeps
<1>5. \/ UNCHANGED <<transport, chan, carrier>> /\ queue' = Idle
      \/ /\ inMap[c] /\ chan[c] = "none" /\ BeginAccept(c, "queue", transport[c], rtc[c])
         /\ transport[c] = "negotiating" => rtc[c] = "none"
         /\ queue' = <<"handshake", c>>
  <2> DEFINE open == transport[c] = "negotiating" /\ (rtc[c] # "none" \/ c \in Assigned)
  <2>1. \/ UNCHANGED <<transport, chan, carrier, queue>>
        \/ inMap[c] /\ chan[c] = "none" /\ ~open
              /\ BeginAccept(c, "queue", transport[c], rtc[c]) /\ queue' = <<"handshake", c>>
        \/ QueueThrows /\ UNCHANGED <<transport, chan, carrier>>
    BY DEF SecureHandshake
  <2>2. CASE UNCHANGED <<transport, chan, carrier, queue>>
    BY <1>1, <2>2
  <2>3. CASE inMap[c] /\ chan[c] = "none" /\ ~open
              /\ BeginAccept(c, "queue", transport[c], rtc[c]) /\ queue' = <<"handshake", c>>
    BY <2>3
  <2>4. CASE QueueThrows /\ UNCHANGED <<transport, chan, carrier>>
    BY <2>4 DEF QueueThrows
  <2> QED BY <2>1, <2>2, <2>3, <2>4
<1> QED BY <1>3, <1>4, <1>5

LEMMA PathNext ==
    TypeOK /\ AcceptInv /\ PathInv /\ [Next]_vars
        => PathInv' /\ \A d \in Conn : Immutable(d)
<1> SUFFICES ASSUME TypeOK, AcceptInv, PathInv, [Next]_vars, NEW d \in Conn PROVE Kept(d)
  BY DEF PathInv, Kept
<1>0. ASSUME Quiet(d) PROVE Kept(d)
  BY <1>0, QuietKeeps DEF PathInv, Kept
<1>1. CASE Accepts
  BY <1>0, <1>1, AcceptsQuiet
<1>2. ASSUME NEW c \in Conn, Frame(c) PROVE Kept(d)
  BY <1>0, <1>2, IncomingKeeps, EndsQuiet, SelectedKeeps, HandshakeKeeps, DropsQuiet DEF Frame
<1>3. ASSUME NEW c \in Conn, Callback(c) PROVE Kept(d)
  BY <1>0, <1>3, PreparedKeeps, EndsQuiet, OpenedKeeps, FailedKeeps, DropsQuiet DEF Callback
<1>4. ASSUME NEW c \in Conn, Settles(c) PROVE Kept(d)
  BY <1>0, <1>4, IncomingKeeps, EndsQuiet, AttachedKeeps, DropsQuiet DEF Settles
<1>5. ASSUME NEW p \in Peer, RevokePeer(p) \/ RevokeDisconnects(p) PROVE Kept(d)
  BY <1>0, <1>5, PeerQuiet
<1>6. CASE Outage \/ Finish \/ SweepConnections \/ HelloAck
  BY <1>0, <1>6, ControlQuiet
<1>7. CASE UNCHANGED vars
  <2>1. Quiet(d)
    BY <1>7 DEF vars, tunnelVars, socketVars, Quiet, Fades, SamePath, Hears, Heard
  <2> QED BY <1>0, <2>1
<1> QED BY <1>1, <1>2, <1>3, <1>4, <1>5, <1>6, <1>7 DEF Next

LEMMA PathInit == Init => PathInv
  BY DEF Init, PathInv, Path, Idle

LEMMA PathAlways == Spec => [](TypeOK /\ AcceptInv /\ PathInv)
  BY TypesInit, TypesNext, AcceptInit, AcceptNext, PathInit, PathNext, PTL DEF Spec

(* On a live tunnel, a channel bound to WebRTC has its RTC object and one  *)
(* bound to the Relay has none beside it (completeHandshake,               *)
(* handleTransportSelected, handleRtcFailed).                              *)
THEOREM PathExclusive == Spec => []BoundPathExclusive
<1>1. TypeOK /\ PathInv => BoundPathExclusive
  BY DEF TypeOK, PathInv, Path, BoundPathExclusive
<1> QED BY <1>1, PathAlways, PTL

(* No frame or callback, however late, moves a bound channel to another    *)
(* path (handleTransportSelected, handleRtcOpened, handleRtcFailed).       *)
THEOREM SelectionStays == Spec => SelectionImmutable
<1>1. TypeOK /\ AcceptInv /\ PathInv /\ [Next]_vars
        => [\A c \in Conn : chan[c] # "none" =>
               transport'[c] = transport[c] /\ carrier'[c] = carrier[c]]_vars
  BY PathNext DEF Immutable, SamePath
<1> QED BY <1>1, PathAlways, PTL DEF Spec, SelectionImmutable

----------------------------------------------------------------------------
(***************************************************************************)
(* A connection whose handshake was answered is served until it is being   *)
(* disconnected: nothing leaves ConnectionController.active otherwise.     *)
(***************************************************************************)
Serves ==
    /\ \A d \in Conn : d \in active => d \in active' \/ disc'[d] # "none"
    /\ \A d \in Conn : disc[d] # "none" => disc'[d] # "none"
    /\ \A d \in Conn : replied'[d] => replied[d] \/ d \in active'

LEMMA DisconnectServes ==
    ASSUME TypeOK, NEW S, Disconnect(S), replied' = replied PROVE Serves
  BY DEF TypeOK, Disconnect, Serves

LEMMA DropServes == ASSUME TypeOK, NEW S, DropAll(S), replied' = replied PROVE Serves
  BY DisconnectServes DEF DropAll

LEMMA SameServes == ASSUME UNCHANGED <<active, disc, replied>> PROVE Serves
  BY DEF Serves

LEMMA RegisterServes == ASSUME TypeOK, NEW c \in Conn, Register(c) PROVE Serves
<1> DEFINE sent  == control = "online"
           drops == ~sent /\ hsBy[c] = "opened" /\ inMap[c]
<1>1. /\ active' = IF drops THEN active ELSE active \cup {c}
      /\ disc' = [disc EXCEPT ![c] = IF drops THEN "streams" ELSE @]
      /\ replied' = [replied EXCEPT ![c] = sent]
  BY DEF Register
<1>2. sent => ~drops
  OBVIOUS
<1> HIDE DEF sent, drops
<1> QED BY <1>1, <1>2 DEF TypeOK, Serves

LEMMA AcceptsServe == ASSUME TypeOK, AcceptInv, Accepts PROVE Serves
<1> DEFINE c == Head(acceptQ)
<1>1. acceptQ # <<>> /\ c \in Conn
  <2>1. acceptQ # <<>>
    BY DEF AcceptInv, Accepts, AcceptStarts, AcceptFinishes, AcceptFails
  <2> QED BY <2>1 DEF AcceptInv
<1>2. CASE \E closes \in BOOLEAN : AcceptThrows(c, closes) /\ UNCHANGED disc
  BY <1>2, SameServes DEF AcceptThrows
<1>3. CASE Register(c)
  BY <1>1, <1>3, RegisterServes
<1>4. CASE Disconnect(active \cap SamePeer(c)) /\ UNCHANGED replied
  BY <1>4, DisconnectServes
<1> QED BY <1>2, <1>3, <1>4 DEF Accepts, AcceptStarts, AcceptFinishes, AcceptFails, hsVars

LEMMA StepServes == TypeOK /\ AcceptInv /\ [Next]_vars => Serves
<1> SUFFICES ASSUME TypeOK, AcceptInv, [Next]_vars PROVE Serves
  OBVIOUS
<1>1. CASE Accepts
  BY <1>1, AcceptsServe
<1>2. ASSUME NEW c \in Conn, Frame(c) PROVE Serves
  BY <1>2, SameServes, DropServes
     DEF Frame, ConnectIncoming, SignalOffer, TransportSelected, SecureHandshake,
         ServerClosesConnection, LeaseAck, hsVars, ctrlVars
<1>3. ASSUME NEW c \in Conn, Callback(c) PROVE Serves
  <2>1. CASE OfferPrepared(c) \/ OfferIgnored(c)
    BY <2>1, SameServes DEF OfferPrepared, OfferIgnored, hsVars, ctrlVars
  <2>2. CASE RtcOpened(c) \/ RtcFailed(c)
    BY <2>2, SameServes, DropServes DEF RtcOpened, RtcFailed
  <2>3. CASE DataSocketClosed(c) \/ LeaseExpires(c)
    BY <2>3, SameServes, DropServes DEF DataSocketClosed, LeaseExpires, hsVars
  <2>4. CASE SendFails(c) \/ RequestFails(c)
    BY <2>4, DisconnectServes DEF SendFails, RequestFails, hsVars
  <2> QED BY <1>3, <2>1, <2>2, <2>3, <2>4 DEF Callback
<1>4. ASSUME NEW c \in Conn, Settles(c) PROVE Serves
  <2>1. CASE IncomingAuthorized(c) \/ IncomingRejected(c) \/ AttachReady(c)
    BY <2>1, SameServes DEF IncomingAuthorized, IncomingRejected, AttachReady, hsVars, ctrlVars
  <2>2. CASE AttachFailed(c)
    BY <2>2, DropServes DEF AttachFailed, hsVars
  <2>3. CASE StreamsClosed(c)
    BY <2>3 DEF StreamsClosed, hsVars, TypeOK, Serves
  <2> QED BY <1>4, <2>1, <2>2, <2>3 DEF Settles
<1>5. ASSUME NEW p \in Peer, RevokePeer(p) \/ RevokeDisconnects(p) PROVE Serves
  BY <1>5, SameServes, DisconnectServes DEF RevokePeer, RevokeDisconnects, hsVars, ctrlVars
<1>6. CASE Outage \/ Finish \/ SweepConnections \/ HelloAck
  BY <1>6, SameServes, DropServes, DisconnectServes
     DEF Outage, Finish, SweepConnections, HelloAck, hsVars, ctrlVars
<1>7. CASE UNCHANGED vars
  BY <1>7, SameServes DEF vars, hsVars, ctrlVars
<1> QED BY <1>1, <1>2, <1>3, <1>4, <1>5, <1>6, <1>7 DEF Next

ServedInv == \A c \in Conn : replied[c] => c \in active \/ disc[c] # "none"

(* Whoever was sent step 2 finds its connection registered with the        *)
(* controller, or being disconnected by it (completeHandshake, acceptOne,  *)
(* disconnect).                                                            *)
THEOREM RepliedAreServed == Spec => []RepliedIsServed
<1>1. Init => ServedInv
  BY DEF Init, ServedInv
<1>2. TypeOK /\ AcceptInv /\ ServedInv /\ [Next]_vars => ServedInv'
  BY StepServes DEF Serves, ServedInv
<1>3. ServedInv => RepliedIsServed
  BY DEF ServedInv, RepliedIsServed
<1> QED BY <1>1, <1>2, <1>3, PathAlways, PTL DEF Spec

----------------------------------------------------------------------------
(***************************************************************************)
(* What an outage, a drop or a late callback leaves behind.                *)
(***************************************************************************)
NoTransport(d) ==
    ~inMap[d] => rtc[d] \in {"none", "closed"} /\ ds[d] \in {"none", "closed"}

(* While the control connection is gone its queue has nothing to do, and   *)
(* nothing that still runs adds a tunnel or weakens a lease.               *)
Retained(d) == control = "offline" => queue = Idle /\ (inMap[d] => CanDetach(d))

Clean(d) == NoTransport(d) /\ Retained(d)

(* A step that only takes tunnels away, and no control connection.         *)
Leaves(d) == inMap'[d] => inMap[d] /\ lease'[d] = lease[d]
SameSocket ==
    control' = "offline" => control = "offline" /\ (queue' = queue \/ queue' = Idle)

LEMMA LeavesRetained == ASSUME NEW d, Retained(d), Leaves(d), SameSocket PROVE Retained(d)'
  BY DEF Retained, Leaves, SameSocket, CanDetach

LEMMA ReleaseLeaves ==
    ASSUME TypeOK, NEW S, Release(S), NEW d \in Conn, NoTransport(d)
    PROVE  NoTransport(d)' /\ Leaves(d)
  BY DEF TypeOK, Release, Closed, NoTransport, Leaves

LEMMA DropLeaves ==
    ASSUME TypeOK, NEW S, DropAll(S), NEW d \in Conn, NoTransport(d)
    PROVE  NoTransport(d)' /\ Leaves(d)
  BY ReleaseLeaves DEF DropAll

LEMMA SameLeaves ==
    ASSUME NEW d, NoTransport(d), UNCHANGED <<inMap, rtc, ds, lease>>
    PROVE  NoTransport(d)' /\ Leaves(d)
  BY DEF NoTransport, Leaves

LEMMA QueueSocket ==
    ASSUME QueueThrows \/ QueueEnds \/ QueueEndsAfterSend PROVE SameSocket
  BY DEF QueueThrows, QueueEnds, QueueEndsAfterSend, SameSocket

(* Control frames are handled while the socket is there, or closing. *)
LEMMA FrameLeaves ==
    ASSUME TypeOK, NEW c \in Conn, NEW d \in Conn, Clean(d), Frame(c) PROVE Clean(d)'
<1> USE DEF Clean
<1>1. CASE ConnectIncoming(c) \/ SignalOffer(c)
  BY <1>1 DEF ConnectIncoming, SignalOffer, Deliver, tunnelVars, NoTransport, Retained
<1>2. CASE TransportSelected(c)
  <2>1. control' # "offline" /\ inMap' = inMap
    BY <1>2 DEF TransportSelected, Deliver, SelectRelay, SelectRtc, QueueThrows
  <2>2. \/ UNCHANGED <<rtc, ds>>
        \/ inMap[c] /\ rtc' = AbandonRtc(c)
              /\ (ds' = ds \/ ds' = [ds EXCEPT ![c] = "opening"])
    BY <1>2 DEF TransportSelected, SelectionIgnored, SelectRelay, SelectRtc
  <2>3. NoTransport(d)'
    BY <2>1, <2>2 DEF TypeOK, NoTransport, AbandonRtc
  <2> QED BY <2>1, <2>3 DEF Retained
<1>3. CASE SecureHandshake(c)
  <2>1. control' # "offline" /\ UNCHANGED <<inMap, rtc, ds>>
    BY <1>3 DEF SecureHandshake, Deliver, QueueThrows
  <2> QED BY <2>1 DEF NoTransport, Retained
<1>4. CASE ServerClosesConnection(c)
  <2>1. control' # "offline"
    BY <1>4 DEF ServerClosesConnection, Deliver
  <2> QED BY <1>4, <2>1, DropLeaves DEF ServerClosesConnection, Retained
<1>5. CASE LeaseAck(c)
  BY <1>5 DEF LeaseAck, socketVars, NoTransport, Retained
<1> QED BY <1>1, <1>2, <1>3, <1>4, <1>5 DEF Frame

(* Callbacks run at any time, without a control connection too. *)
LEMMA CallbackLeaves ==
    ASSUME TypeOK, NEW c \in Conn, NEW d \in Conn, Clean(d), Callback(c) PROVE Clean(d)'
<1>0. UNCHANGED socketVars
  BY DEF Callback, OfferPrepared, OfferIgnored, RtcOpened, RtcFailed, DataSocketClosed,
         LeaseExpires, SendFails, RequestFails
<1>1. SameSocket
  BY <1>0 DEF socketVars, SameSocket
<1>2. ASSUME NoTransport(d)' /\ Leaves(d) PROVE Clean(d)'
  BY <1>1, <1>2, LeavesRetained DEF Clean
<1>3. CASE OfferPrepared(c)
  <2>1. /\ UNCHANGED <<inMap, ds, lease>>
        /\ \/ rtc' = rtc
           \/ inMap[c] /\ rtc' = [rtc EXCEPT ![c] = "starting"]
    BY <1>3 DEF OfferPrepared, StillOffered
  <2> QED BY <1>2, <2>1 DEF TypeOK, Clean, NoTransport, Leaves
<1>4. CASE OfferIgnored(c) \/ RequestFails(c)
  BY <1>2, <1>4, SameLeaves DEF OfferIgnored, RequestFails, tunnelVars, Clean
<1>5. CASE RtcOpened(c)
  <2>1. CASE control = "online"
    <3>1. inMap[c] /\ UNCHANGED <<inMap, ds, lease>> /\ rtc' = [rtc EXCEPT ![c] = "open"]
      BY <1>5, <2>1 DEF RtcOpened
    <3> QED BY <1>2, <3>1 DEF TypeOK, Clean, NoTransport, Leaves
  <2>2. CASE control # "online"
    BY <1>2, <1>5, <2>2, DropLeaves DEF RtcOpened, Clean
  <2> QED BY <2>1, <2>2
<1>6. CASE RtcFailed(c)
  <2>1. CASE transport[c] = "rtc"
    BY <1>2, <1>6, <2>1, DropLeaves DEF RtcFailed, Clean
  <2>2. CASE transport[c] # "rtc"
    <3>1. UNCHANGED <<inMap, ds, lease>> /\ rtc' = [rtc EXCEPT ![c] = "none"]
      BY <1>6, <2>2 DEF RtcFailed, AbandonRtc
    <3> QED BY <1>2, <3>1 DEF TypeOK, Clean, NoTransport, Leaves
  <2> QED BY <2>1, <2>2
<1>7. CASE DataSocketClosed(c)
  BY <1>2, <1>7, DropLeaves DEF DataSocketClosed, Clean
<1>8. CASE LeaseExpires(c)
  <2>1. CASE inMap[c]
    BY <1>2, <1>8, <2>1, DropLeaves DEF LeaseExpires, Clean
  <2>2. CASE ~inMap[c]
    <3>1. UNCHANGED <<inMap, rtc, ds>> /\ lease' = [lease EXCEPT ![c] = "stopped"]
      BY <1>8, <2>2 DEF LeaseExpires
    <3> QED BY <1>2, <2>2, <3>1 DEF TypeOK, Clean, NoTransport, Leaves
  <2> QED BY <2>1, <2>2
<1>9. CASE SendFails(c)
  BY <1>2, <1>9, ReleaseLeaves DEF SendFails, Clean
<1> QED BY <1>3, <1>4, <1>5, <1>6, <1>7, <1>8, <1>9 DEF Callback

(* What was awaited settles; while the socket is gone the queue awaits     *)
(* nothing.                                                                *)
LEMMA SettlesLeaves ==
    ASSUME TypeOK, NEW c \in Conn, NEW d \in Conn, Clean(d), Settles(c) PROVE Clean(d)'
<1> USE DEF Clean
<1>1. CASE IncomingAuthorized(c)
  <2>1. control # "offline" /\ (control' = control \/ control' = "closed")
    BY <1>1 DEF IncomingAuthorized, Retained, Idle, QueueEndsAfterSend, QueueEnds, QueueThrows
  <2>2. UNCHANGED <<rtc, ds>> /\ inMap' = [inMap EXCEPT ![c] = TRUE]
    BY <1>1 DEF IncomingAuthorized
  <2> QED BY <2>1, <2>2 DEF TypeOK, NoTransport, Retained
<1>2. CASE IncomingRejected(c)
  BY <1>2, SameLeaves, LeavesRetained, QueueSocket DEF IncomingRejected, tunnelVars
<1>3. CASE AttachReady(c)
  <2>1. control # "offline" /\ control' = control
    BY <1>3 DEF AttachReady, Retained, Idle
  <2>2. inMap[c] /\ UNCHANGED <<inMap, rtc>> /\ ds' = [ds EXCEPT ![c] = "ready"]
    BY <1>3 DEF AttachReady
  <2> QED BY <2>1, <2>2 DEF TypeOK, NoTransport, Retained
<1>4. CASE AttachFailed(c)
  BY <1>4, DropLeaves, LeavesRetained, QueueSocket DEF AttachFailed
<1>5. CASE StreamsClosed(c)
  <2>1. SameSocket
    BY <1>5 DEF StreamsClosed, AfterDrop, SameSocket
  <2> QED BY <1>5, <2>1, ReleaseLeaves, LeavesRetained DEF StreamsClosed
<1> QED BY <1>1, <1>2, <1>3, <1>4, <1>5 DEF Settles

(* A lease is only given when step 2 could be sent. *)
LEMMA RegisterLeaves ==
    ASSUME TypeOK, NEW c \in Conn, Register(c), NEW d \in Conn, Clean(d) PROVE Clean(d)'
<1>1. PICK drops \in BOOLEAN, leased \in BOOLEAN :
        /\ lease' = [lease EXCEPT ![c] = IF leased THEN "unconfirmed" ELSE @]
        /\ inMap' = [inMap EXCEPT ![c] = @ /\ ~drops]
        /\ rtc' = [rtc EXCEPT ![c] = IF drops THEN Closed(@) ELSE @]
        /\ ds' = [ds EXCEPT ![c] = IF drops THEN Closed(@) ELSE @]
        /\ leased => control = "online"
  BY DEF Register
<1>2. NoTransport(d)'
  <2>1. \/ inMap'[d]
        \/ UNCHANGED <<inMap[d], rtc[d], ds[d]>>
        \/ rtc'[d] = Closed(rtc[d]) /\ ds'[d] = Closed(ds[d])
    BY <1>1 DEF TypeOK
  <2> QED BY <2>1 DEF TypeOK, Clean, NoTransport, Closed
<1>3. SameSocket
  BY QueueSocket DEF Register, SameSocket
<1>4. CASE ~leased
  <2>1. Leaves(d)
    BY <1>1, <1>4 DEF TypeOK, Leaves
  <2> QED BY <1>2, <1>3, <2>1, LeavesRetained DEF Clean
<1>5. CASE leased
  BY <1>1, <1>2, <1>3, <1>5 DEF SameSocket, Clean, Retained
<1> QED BY <1>4, <1>5

LEMMA AcceptsLeave ==
    ASSUME TypeOK, AcceptInv, Accepts, NEW d \in Conn, Clean(d) PROVE Clean(d)'
<1> DEFINE c == Head(acceptQ)
<1>1. acceptQ # <<>> /\ c \in Conn
  <2>1. acceptQ # <<>>
    BY DEF AcceptInv, Accepts, AcceptStarts, AcceptFinishes, AcceptFails
  <2> QED BY <2>1 DEF AcceptInv
<1>2. CASE \E closes \in BOOLEAN : AcceptThrows(c, closes)
  <2>1. SameSocket
    BY <1>2, QueueSocket DEF AcceptThrows, SameSocket
  <2>2. NoTransport(d)' /\ Leaves(d)
    BY <1>2, ReleaseLeaves DEF AcceptThrows, Clean
  <2> QED BY <2>1, <2>2, LeavesRetained DEF Clean
<1>3. CASE Register(c)
  BY <1>1, <1>3, RegisterLeaves
<1>4. CASE UNCHANGED <<inMap, rtc, ds, lease, queue, control>>
  BY <1>4, SameLeaves, LeavesRetained DEF Clean, SameSocket
<1> QED BY <1>2, <1>3, <1>4 DEF Accepts, AcceptStarts, AcceptFinishes, AcceptFails

(* finish() keeps what has a confirmed lease, or nothing. *)
LEMMA ControlLeaves ==
    ASSUME TypeOK, Outage \/ Finish \/ SweepConnections \/ HelloAck, NEW d \in Conn, Clean(d)
    PROVE  Clean(d)'
<1> USE DEF Clean
<1>1. CASE Outage
  BY <1>1 DEF Outage, tunnelVars, NoTransport, Retained
<1>2. CASE Finish
  <2>1. queue' = Idle
    BY <1>2 DEF Finish
  <2>2. CASE DropAll(Unleased)
    <3>1. NoTransport(d)' /\ Leaves(d)
      BY <2>2, DropLeaves
    <3>2. inMap'[d] => CanDetach(d)
      BY <2>2 DEF DropAll, Release, Unleased
    <3> QED BY <2>1, <3>1, <3>2 DEF Leaves, Retained, CanDetach
  <2>3. CASE Release({c \in Conn : inMap[c]})
    <3>1. NoTransport(d)' /\ ~inMap'[d]
      BY <2>3, ReleaseLeaves DEF Release
    <3> QED BY <2>1, <3>1 DEF Retained
  <2> QED BY <1>2, <2>2, <2>3 DEF Finish
<1>3. CASE SweepConnections
  BY <1>3, SameLeaves, LeavesRetained DEF SweepConnections, tunnelVars, SameSocket
<1>4. CASE HelloAck
  BY <1>4, DropLeaves DEF HelloAck, Retained
<1> QED BY <1>1, <1>2, <1>3, <1>4

CleanInv == \A d \in Conn : Clean(d)

LEMMA CleanNext == TypeOK /\ AcceptInv /\ CleanInv /\ [Next]_vars => CleanInv'
<1> SUFFICES ASSUME TypeOK, AcceptInv, CleanInv, [Next]_vars, NEW d \in Conn PROVE Clean(d)'
  BY DEF CleanInv
<1>0. Clean(d)
  BY DEF CleanInv
<1>1. CASE Accepts
  BY <1>0, <1>1, AcceptsLeave
<1>2. ASSUME NEW c \in Conn, Frame(c) \/ Callback(c) \/ Settles(c) PROVE Clean(d)'
  BY <1>0, <1>2, FrameLeaves, CallbackLeaves, SettlesLeaves
<1>3. ASSUME NEW p \in Peer, RevokePeer(p) \/ RevokeDisconnects(p) PROVE Clean(d)'
  BY <1>0, <1>3 DEF RevokePeer, RevokeDisconnects, tunnelVars, socketVars, Clean, NoTransport,
                    Retained, CanDetach
<1>4. CASE Outage \/ Finish \/ SweepConnections \/ HelloAck
  BY <1>0, <1>4, ControlLeaves
<1>5. CASE UNCHANGED vars
  BY <1>0, <1>5 DEF vars, tunnelVars, socketVars, Clean, NoTransport, Retained, CanDetach
<1> QED BY <1>1, <1>2, <1>3, <1>4, <1>5 DEF Next

(* Whatever was awaited when the control connection or a tunnel went: an   *)
(* outage keeps no tunnel without a confirmed lease, and a tunnel that     *)
(* left the table has no open RTC object or data socket (finish,           *)
(* dropTunnels, dropTunnel and every handler that looks again after its    *)
(* await).                                                                 *)
THEOREM NothingIsLeft == Spec => []NothingLeftBehind
<1>1. Init => CleanInv
  BY DEF Init, CleanInv, Clean, NoTransport, Retained
<1>2. CleanInv => NothingLeftBehind
  BY DEF CleanInv, Clean, NoTransport, Retained, NothingLeftBehind, OfflineOnlyLeased,
         DroppedKeepsNoTransport
<1> QED BY <1>1, <1>2, CleanNext, PathAlways, PTL DEF Spec

----------------------------------------------------------------------------
(***************************************************************************)
(* What the control queue awaits is under way: the handshake it awaits     *)
(* stands in the accept queue, whose head waits for disconnects only.      *)
(***************************************************************************)
InLine(c) == \E i \in 1..Len(acceptQ) : acceptQ[i] = c

(* A channel joins the accept queue once, and completeHandshake is in      *)
(* accept() exactly while it stands there.                                 *)
LineInv ==
    /\ \A i, j \in 1..Len(acceptQ) : acceptQ[i] = acceptQ[j] => i = j
    /\ \A c \in Conn : hs[c] = "accept" <=> InLine(c)
    /\ \A c \in Conn : hs[c] = "accept" => chan[c] # "none"

(* The control queue awaits a handshake exactly while one it began is in   *)
(* accept(), a drop only while streams are closed; and acceptOne awaits    *)
(* only connections whose disconnect has begun.                            *)
QueueAwaitsSomeone ==
    /\ \A c \in Conn : queue = <<"handshake", c>> <=> hs[c] = "accept" /\ hsBy[c] = "queue"
    /\ \A c \in Conn : queue = <<"drop", c>> => disc[c] = "streams"
    /\ \A d \in awaited : disc[d] # "none"

(* What a step does to the accept queue and to who awaits it. *)
SameAwaited(kind) == \A d \in Conn : queue' = <<kind, d>> <=> queue = <<kind, d>>

Stands == UNCHANGED <<acceptQ, hs, hsBy>> /\ SameAwaited("handshake")

Joins(c, by) ==
    /\ chan[c] = "none" /\ chan'[c] = "open"
    /\ acceptQ' = Append(acceptQ, c)
    /\ hs' = [hs EXCEPT ![c] = "accept"]
    /\ hsBy' = [hsBy EXCEPT ![c] = by]
    /\ \/ by = "queue" /\ queue \in {Idle, <<"attach", c>>} /\ queue' = <<"handshake", c>>
       \/ by # "queue" /\ queue' = queue

Departs(c) ==
    /\ acceptQ # <<>> /\ c = Head(acceptQ)
    /\ acceptQ' = Tail(acceptQ)
    /\ \E result \in {"done", "failed"} : hs' = [hs EXCEPT ![c] = result]
    /\ hsBy' = hsBy
    /\ queue' = IF hsBy[c] = "queue" THEN Idle ELSE queue

Line == Stands \/ \E c \in Conn : Departs(c) \/ \E by : Joins(c, by)

BoundStay == \A d \in Conn : chan[d] # "none" => chan'[d] # "none"
DropsGoOn ==
    \A d \in Conn : (queue = <<"drop", d>> => disc[d] = "streams")
                       => (queue' = <<"drop", d>> => disc'[d] = "streams")
Replaces == awaited' \subseteq awaited \/ \A d \in awaited' : disc'[d] = "streams"

Moves == Line /\ BoundStay /\ DropsGoOn /\ Replaces

LEMMA JoinKeepsLine ==
    ASSUME TypeOK, LineInv, BoundStay, NEW c \in Conn, NEW by, Joins(c, by) PROVE LineInv'
<1>1. ~InLine(c)
  BY DEF LineInv, Joins
<1>2. /\ Len(acceptQ') = Len(acceptQ) + 1 /\ Len(acceptQ) \in Nat
      /\ acceptQ'[Len(acceptQ) + 1] = c
      /\ \A i \in 1..Len(acceptQ) : acceptQ'[i] = acceptQ[i]
  BY DEF Joins, TypeOK
<1>3. \A d \in Conn : InLine(d)' <=> InLine(d) \/ d = c
  <2> TAKE d \in Conn
  <2>1. InLine(d)' <=> \E i \in 1..(Len(acceptQ) + 1) : acceptQ'[i] = d
    BY <1>2 DEF InLine
  <2>2. InLine(d) => InLine(d)'
    BY <1>2, <2>1 DEF InLine
  <2>3. d = c => InLine(d)'
    BY <1>2, <2>1
  <2>4. InLine(d)' => InLine(d) \/ d = c
    <3>1. SUFFICES ASSUME NEW i \in 1..(Len(acceptQ) + 1), acceptQ'[i] = d PROVE InLine(d) \/ d = c
      BY <2>1
    <3>2. i \in 1..Len(acceptQ) \/ i = Len(acceptQ) + 1
      BY <1>2
    <3> QED BY <1>2, <3>1, <3>2 DEF InLine
  <2> QED BY <2>2, <2>3, <2>4
<1>4. \A i, j \in 1..Len(acceptQ') : acceptQ'[i] = acceptQ'[j] => i = j
  <2> TAKE i, j \in 1..Len(acceptQ')
  <2>1. /\ i \in 1..Len(acceptQ) \/ i = Len(acceptQ) + 1
        /\ j \in 1..Len(acceptQ) \/ j = Len(acceptQ) + 1
    BY <1>2
  <2> QED BY <1>1, <1>2, <2>1 DEF LineInv, InLine
<1>5. \A d \in Conn : (hs'[d] = "accept" <=> hs[d] = "accept" \/ d = c)
  BY DEF Joins, TypeOK
<1>6. chan'[c] # "none"
  BY DEF Joins
<1> QED BY <1>3, <1>4, <1>5, <1>6 DEF LineInv, BoundStay

LEMMA DepartKeepsLine ==
    ASSUME TypeOK, LineInv, BoundStay, NEW c \in Conn, Departs(c) PROVE LineInv'
<1>1. /\ Len(acceptQ) \in Nat \ {0} /\ Len(acceptQ') = Len(acceptQ) - 1
      /\ acceptQ[1] = c
      /\ \A i \in 1..Len(acceptQ') : acceptQ'[i] = acceptQ[i + 1]
  BY DEF Departs, TypeOK
<1>2. \A i \in 1..Len(acceptQ') : i + 1 \in 1..Len(acceptQ) /\ i + 1 # 1
  BY <1>1
<1>3. \A d \in Conn : InLine(d)' <=> InLine(d) /\ d # c
  <2> TAKE d \in Conn
  <2>1. InLine(d)' => InLine(d) /\ d # c
    <3>1. SUFFICES ASSUME NEW i \in 1..Len(acceptQ'), acceptQ'[i] = d PROVE InLine(d) /\ d # c
      BY DEF InLine
    <3>2. acceptQ[i + 1] = d /\ i + 1 \in 1..Len(acceptQ) /\ 1 \in 1..Len(acceptQ) /\ i + 1 # 1
      BY <1>1, <1>2, <3>1
    <3> QED BY <1>1, <3>2 DEF InLine, LineInv
  <2>2. InLine(d) /\ d # c => InLine(d)'
    <3>1. SUFFICES ASSUME NEW i \in 1..Len(acceptQ), acceptQ[i] = d, d # c PROVE InLine(d)'
      BY DEF InLine
    <3>2. i - 1 \in 1..Len(acceptQ') /\ (i - 1) + 1 = i
      BY <1>1, <3>1
    <3>3. acceptQ'[i - 1] = d
      BY <1>1, <3>1, <3>2
    <3> QED BY <3>2, <3>3 DEF InLine
  <2> QED BY <2>1, <2>2
<1>4. \A i, j \in 1..Len(acceptQ') : acceptQ'[i] = acceptQ'[j] => i = j
  <2> TAKE i, j \in 1..Len(acceptQ')
  <2>1. acceptQ[i + 1] = acceptQ[j + 1] => i + 1 = j + 1
    BY <1>2 DEF LineInv
  <2> QED BY <1>1, <2>1
<1>5. \A d \in Conn : (hs'[d] = "accept" <=> hs[d] = "accept" /\ d # c)
  BY DEF Departs, TypeOK
<1> QED BY <1>3, <1>4, <1>5 DEF LineInv, BoundStay

LEMMA MovesKeep ==
    ASSUME TypeOK, LineInv, QueueAwaitsSomeone, Moves, Serves PROVE LineInv' /\ QueueAwaitsSomeone'
<1>1. BoundStay /\ (Stands \/ \E c \in Conn : Departs(c) \/ \E by : Joins(c, by))
  BY DEF Moves, Line
<1>2. LineInv'
  <2>1. CASE Stands
    BY <1>1, <2>1 DEF Stands, LineInv, InLine, BoundStay
  <2>2. ASSUME NEW c \in Conn, Departs(c) PROVE LineInv'
    BY <1>1, <2>2, DepartKeepsLine
  <2>3. ASSUME NEW c \in Conn, NEW by, Joins(c, by) PROVE LineInv'
    BY <1>1, <2>3, JoinKeepsLine
  <2> QED BY <1>1, <2>1, <2>2, <2>3
<1>3. ASSUME NEW d \in Conn
      PROVE  queue' = <<"handshake", d>> <=> hs'[d] = "accept" /\ hsBy'[d] = "queue"
  <2>0. queue = <<"handshake", d>> <=> hs[d] = "accept" /\ hsBy[d] = "queue"
    BY DEF QueueAwaitsSomeone
  <2>1. CASE Stands
    BY <2>0, <2>1 DEF Stands, SameAwaited
  <2>2. ASSUME NEW c \in Conn, Departs(c)
        PROVE  queue' = <<"handshake", d>> <=> hs'[d] = "accept" /\ hsBy'[d] = "queue"
    <3>1. InLine(c)
      BY <2>2 DEF Departs, InLine, TypeOK
    <3>2. hs[c] = "accept" /\ (queue = <<"handshake", c>> <=> hsBy[c] = "queue")
      BY <3>1 DEF LineInv, QueueAwaitsSomeone
    <3>3. hs'[d] = "accept" <=> hs[d] = "accept" /\ d # c
      BY <2>2 DEF Departs, TypeOK
    <3>4. hsBy' = hsBy /\ queue' = IF hsBy[c] = "queue" THEN Idle ELSE queue
      BY <2>2 DEF Departs
    <3>5. <<"handshake", c>> = <<"handshake", d>> <=> c = d
      OBVIOUS
    <3>6. CASE hsBy[c] = "queue"
      <4>1. queue = <<"handshake", c>> /\ queue' = <<"idle">>
        BY <3>2, <3>4, <3>6 DEF Idle
      <4>2. queue' # <<"handshake", d>>
        BY <4>1
      <4>3. ~(hs'[d] = "accept" /\ hsBy'[d] = "queue")
        BY <2>0, <3>3, <3>4, <3>5, <4>1
      <4> QED BY <4>2, <4>3
    <3>7. CASE hsBy[c] # "queue"
      <4>1. queue' = queue
        BY <3>4, <3>7
      <4>2. d = c => ~(hs[d] = "accept" /\ hsBy[d] = "queue")
        BY <3>7
      <4> QED BY <2>0, <3>3, <3>4, <4>1, <4>2
    <3> QED BY <3>6, <3>7
  <2>3. ASSUME NEW c \in Conn, NEW by, Joins(c, by)
        PROVE  queue' = <<"handshake", d>> <=> hs'[d] = "accept" /\ hsBy'[d] = "queue"
    <3>1. hs[c] # "accept"
      BY <2>3 DEF Joins, LineInv
    <3>2. /\ hs'[d] = (IF d = c THEN "accept" ELSE hs[d])
          /\ hsBy'[d] = (IF d = c THEN by ELSE hsBy[d])
      BY <2>3 DEF Joins, TypeOK
    <3>3. \/ by = "queue" /\ queue \in {Idle, <<"attach", c>>} /\ queue' = <<"handshake", c>>
          \/ by # "queue" /\ queue' = queue
      BY <2>3 DEF Joins
    <3> QED BY <2>0, <3>1, <3>2, <3>3 DEF Idle
  <2> QED BY <1>1, <2>1, <2>2, <2>3
<1>4. \A d \in Conn : queue' = <<"drop", d>> => disc'[d] = "streams"
  BY DEF Moves, DropsGoOn, QueueAwaitsSomeone
<1>5. \A d \in awaited' : disc'[d] # "none"
  BY DEF Moves, Replaces, QueueAwaitsSomeone, Serves, TypeOK
<1> QED BY <1>2, <1>3, <1>4, <1>5 DEF QueueAwaitsSomeone

(* Pieces of handlers, as far as the queues see them. *)
LEMMA CloseStays ==
    ASSUME TypeOK, NEW S, CloseChannels(S) PROVE BoundStay
  BY DEF TypeOK, CloseChannels, Closed, BoundStay

StreamsStay == \A d \in Conn : disc[d] = "streams" => disc'[d] = "streams"

LEMMA DisconnectStays == ASSUME TypeOK, NEW S, Disconnect(S) PROVE StreamsStay
  BY DEF TypeOK, Disconnect, StreamsStay

LEMMA DropStays == ASSUME TypeOK, NEW S, DropAll(S) PROVE BoundStay /\ StreamsStay
  BY CloseStays, DisconnectStays DEF DropAll

(* A step that leaves the accept queue alone and what the control queue    *)
(* awaits, or ends it.                                                     *)
LEMMA StillMoves ==
    ASSUME UNCHANGED <<acceptQ, awaited, hs, hsBy>>, BoundStay, StreamsStay,
           \/ queue' = queue
           \/ queue' = Idle /\ \A d \in Conn : queue # <<"handshake", d>>
    PROVE  Moves
  BY DEF Moves, Line, Stands, SameAwaited, DropsGoOn, StreamsStay, Replaces, Idle

LEMMA BeginJoins ==
    ASSUME TypeOK, NEW c \in Conn, NEW by, NEW tr, NEW r, BeginAccept(c, by, tr, r),
           chan[c] = "none", UNCHANGED awaited, StreamsStay,
           \/ by = "queue" /\ queue \in {Idle, <<"attach", c>>} /\ queue' = <<"handshake", c>>
           \/ by # "queue" /\ queue' = queue
    PROVE  Moves
<1>1. Joins(c, by)
  BY DEF Joins, BeginAccept, TypeOK
<1>2. BoundStay
  BY DEF BeginAccept, BoundStay, TypeOK
<1>3. DropsGoOn
  BY DEF DropsGoOn, StreamsStay, Idle
<1> QED BY <1>1, <1>2, <1>3 DEF Moves, Line, Replaces

LEMMA ResumeMoves ==
    ASSUME TypeOK, NEW c \in Conn, NEW by, NEW tr, NEW r, ResumePending(c, by, tr, r),
           by # "queue", UNCHANGED <<queue, awaited>>, StreamsStay
    PROVE  Moves
<1>1. CASE BeginAccept(c, by, tr, r) /\ chan[c] = "none"
  BY <1>1, BeginJoins
<1>2. CASE UNCHANGED <<chan, acceptQ, hs, hsBy>>
  BY <1>2, StillMoves DEF BoundStay
<1> QED BY <1>1, <1>2 DEF ResumePending

LEMMA QueueResumeMoves ==
    ASSUME TypeOK, NEW c \in Conn, NEW tr, NEW r, QueueResumes(c, tr, r),
           queue \in {Idle, <<"attach", c>>}, UNCHANGED awaited, StreamsStay
    PROVE  Moves
<1>1. CASE parked[c] /\ chan[c] = "none" /\ tr # "negotiating"
  <2>1. BeginAccept(c, "queue", tr, r) /\ queue' = <<"handshake", c>>
    BY <1>1 DEF QueueResumes, ResumePending
  <2> QED BY <1>1, <2>1, BeginJoins
<1>2. CASE ~(parked[c] /\ chan[c] = "none" /\ tr # "negotiating")
  <2>1. UNCHANGED <<chan, acceptQ, hs, hsBy>> /\ queue' = Idle
    BY <1>2 DEF QueueResumes, ResumePending
  <2>2. \A d \in Conn : queue # <<"handshake", d>>
    BY DEF Idle
  <2> QED BY <2>1, <2>2, StillMoves DEF BoundStay
<1> QED BY <1>1, <1>2

LEMMA ThrowMoves ==
    ASSUME TypeOK, acceptQ # <<>>, NEW c \in Conn, c = Head(acceptQ), NEW closes \in BOOLEAN,
           AcceptThrows(c, closes), UNCHANGED disc
    PROVE  Moves
<1>1. Departs(c)
  BY DEF AcceptThrows, QueueThrows, Departs
<1>2. BoundStay
  BY CloseStays DEF AcceptThrows
<1>3. queue' = queue \/ queue' = Idle
  BY DEF AcceptThrows, QueueThrows
<1>4. DropsGoOn /\ Replaces
  BY <1>3 DEF DropsGoOn, AcceptThrows, Replaces, Idle
<1> QED BY <1>1, <1>2, <1>4 DEF Moves, Line

LEMMA RegisterMoves ==
    ASSUME TypeOK, acceptQ # <<>>, NEW c \in Conn, c = Head(acceptQ), Register(c)
    PROVE  Moves
<1>1. queue' = IF hsBy[c] = "queue" THEN Idle ELSE queue
  BY DEF Register, QueueEndsAfterSend, QueueEnds, QueueThrows
<1>2. PICK result \in {"done", "failed"} : hs' = [hs EXCEPT ![c] = result]
  BY DEF Register
<1>3. Departs(c)
  BY <1>1, <1>2 DEF Register, Departs
<1>4. BoundStay /\ Replaces
  BY DEF Register, BoundStay, Replaces
<1>5. PICK drops \in BOOLEAN : disc' = [disc EXCEPT ![c] = IF drops THEN "streams" ELSE @]
  BY DEF Register
<1>6. StreamsStay
  BY <1>5 DEF StreamsStay, TypeOK
<1>7. DropsGoOn
  BY <1>1, <1>6 DEF DropsGoOn, StreamsStay, Idle
<1> QED BY <1>3, <1>4, <1>7 DEF Moves, Line

LEMMA AcceptsMove == ASSUME TypeOK, AcceptInv, Accepts PROVE Moves
<1>1. acceptQ # <<>>
  BY DEF AcceptInv, Accepts, AcceptStarts, AcceptFinishes, AcceptFails
<1>2. PICK c \in Conn : c = Head(acceptQ)
  BY <1>1 DEF AcceptInv
<1>3. CASE \E closes \in BOOLEAN : AcceptThrows(c, closes) /\ UNCHANGED disc
  BY <1>1, <1>2, <1>3, ThrowMoves
<1>4. CASE Register(c)
  BY <1>1, <1>2, <1>4, RegisterMoves
<1>5. CASE /\ Disconnect(active \cap SamePeer(c)) /\ awaited' = active \cap SamePeer(c)
           /\ UNCHANGED <<acceptQ, chan, hs, hsBy, queue>>
  <2>1. StreamsStay
    BY <1>5, DisconnectStays
  <2>2. Replaces
    BY <1>5 DEF Disconnect, Replaces, TypeOK
  <2>3. Line /\ BoundStay /\ DropsGoOn
    BY <1>5, <2>1 DEF Line, Stands, SameAwaited, BoundStay, DropsGoOn, StreamsStay
  <2> QED BY <2>2, <2>3 DEF Moves
<1> QED BY <1>2, <1>3, <1>4, <1>5
       DEF Accepts, AcceptStarts, AcceptFinishes, AcceptFails, hsVars

LEMMA FrameMoves == ASSUME TypeOK, NEW c \in Conn, Frame(c) PROVE Moves
<1>1. CASE ConnectIncoming(c)
  <2>1. /\ queue = Idle /\ queue' = <<"incoming", c>>
        /\ UNCHANGED <<acceptQ, awaited, hs, hsBy, chan, disc>>
    BY <1>1 DEF ConnectIncoming, Deliver, tunnelVars, hsVars, ctrlVars
  <2>2. Stands
    BY <2>1 DEF Stands, SameAwaited, Idle
  <2> QED BY <2>1, <2>2 DEF Moves, Line, BoundStay, DropsGoOn, Replaces
<1>2. CASE SignalOffer(c) \/ LeaseAck(c)
  BY <1>2, StillMoves
     DEF SignalOffer, LeaseAck, hsVars, ctrlVars, socketVars, BoundStay, StreamsStay
<1>3. CASE TransportSelected(c)
  <2>1. queue = Idle /\ UNCHANGED <<disc, awaited>>
    BY <1>3 DEF TransportSelected, Deliver
  <2>2. StreamsStay
    BY <2>1 DEF StreamsStay
  <2>3. CASE UNCHANGED <<chan, acceptQ, hs, hsBy, queue>>
    BY <2>1, <2>2, <2>3, StillMoves DEF BoundStay
  <2>4. CASE SelectRelay(c)
    <3>1. CASE QueueResumes(c, "relay", "none")
      BY <2>1, <2>2, <3>1, QueueResumeMoves
    <3>2. CASE queue' = <<"attach", c>> /\ UNCHANGED <<chan, acceptQ, hs, hsBy>>
      <4>1. Stands
        BY <2>1, <3>2 DEF Stands, SameAwaited, Idle
      <4> QED BY <2>1, <3>2, <4>1 DEF Moves, Line, BoundStay, DropsGoOn, Replaces
    <3> QED BY <2>4, <3>1, <3>2 DEF SelectRelay
  <2>5. CASE SelectRtc(c)
    <3>1. CASE QueueResumes(c, "rtc", rtc[c])
      BY <2>1, <2>2, <3>1, QueueResumeMoves
    <3>2. CASE QueueThrows /\ UNCHANGED <<chan, acceptQ, hs, hsBy>>
      BY <2>1, <2>2, <3>2, StillMoves DEF QueueThrows, BoundStay
    <3> QED BY <2>5, <3>1, <3>2 DEF SelectRtc
  <2> QED BY <1>3, <2>3, <2>4, <2>5 DEF TransportSelected
<1>4. CASE SecureHandshake(c)
  <2>1. queue = Idle /\ UNCHANGED <<disc, awaited>>
    BY <1>4 DEF SecureHandshake, Deliver
  <2>2. StreamsStay
    BY <2>1 DEF StreamsStay
  <2>3. CASE UNCHANGED <<chan, acceptQ, hs, hsBy>> /\ (queue' = queue \/ QueueThrows)
    BY <2>1, <2>2, <2>3, StillMoves DEF QueueThrows, BoundStay
  <2>4. CASE /\ chan[c] = "none" /\ BeginAccept(c, "queue", transport[c], rtc[c])
             /\ queue' = <<"handshake", c>>
    BY <2>1, <2>2, <2>4, BeginJoins
  <2> QED BY <1>4, <2>3, <2>4 DEF SecureHandshake
<1>5. CASE ServerClosesConnection(c)
  <2>1. queue = Idle /\ DropAll({c}) /\ UNCHANGED <<acceptQ, awaited, hs, hsBy>>
    BY <1>5 DEF ServerClosesConnection, Deliver, hsVars
  <2>2. queue' = IF inMap[c] /\ c \in active THEN <<"drop", c>> ELSE Idle
    BY <1>5 DEF ServerClosesConnection
  <2>3. inMap[c] /\ c \in active => disc'[c] = "streams"
    BY <2>1 DEF DropAll, Disconnect, TypeOK
  <2>4. Stands
    <3>1. queue' \in {<<"drop", c>>, <<"idle">>}
      BY <2>2 DEF Idle
    <3>2. \A d \in Conn : queue # <<"handshake", d>> /\ queue' # <<"handshake", d>>
      BY <2>1, <3>1 DEF Idle
    <3> QED BY <2>1, <3>2 DEF Stands, SameAwaited
  <2>5. DropsGoOn
    BY <2>2, <2>3 DEF DropsGoOn, Idle
  <2> QED BY <2>1, <2>4, <2>5, DropStays DEF Moves, Line, Replaces
<1> QED BY <1>1, <1>2, <1>3, <1>4, <1>5 DEF Frame

LEMMA CallbackMoves == ASSUME TypeOK, NEW c \in Conn, Callback(c) PROVE Moves
<1>1. CASE OfferPrepared(c) \/ OfferIgnored(c)
  BY <1>1, StillMoves
     DEF OfferPrepared, OfferIgnored, hsVars, ctrlVars, socketVars, BoundStay, StreamsStay
<1>2. CASE RtcOpened(c)
  <2>1. UNCHANGED <<queue, awaited>>
    BY <1>2 DEF RtcOpened, socketVars
  <2>2. CASE ResumePending(c, "opened", "rtc", "open") /\ UNCHANGED disc
    BY <2>1, <2>2, ResumeMoves DEF StreamsStay
  <2>3. CASE DropAll({c}) /\ UNCHANGED <<acceptQ, hs, hsBy>>
    BY <2>1, <2>3, DropStays, StillMoves
  <2> QED BY <1>2, <2>2, <2>3 DEF RtcOpened
<1>3. CASE RtcFailed(c)
  <2>1. UNCHANGED <<queue, awaited>>
    BY <1>3 DEF RtcFailed, socketVars
  <2>2. CASE ResumePending(c, "fallback", "relay", "none") /\ UNCHANGED disc
    BY <2>1, <2>2, ResumeMoves DEF StreamsStay
  <2>3. CASE DropAll({c}) /\ UNCHANGED <<acceptQ, hs, hsBy>>
    BY <2>1, <2>3, DropStays, StillMoves
  <2> QED BY <1>3, <2>2, <2>3 DEF RtcFailed
<1>4. CASE DataSocketClosed(c)
  BY <1>4, DropStays, StillMoves DEF DataSocketClosed, hsVars, socketVars
<1>5. CASE LeaseExpires(c)
  <2>1. UNCHANGED <<queue, acceptQ, awaited, hs, hsBy>>
    BY <1>5 DEF LeaseExpires, hsVars, socketVars
  <2>2. BoundStay /\ StreamsStay
    <3>1. CASE DropAll({c})
      BY <3>1, DropStays
    <3>2. CASE UNCHANGED <<chan, disc>>
      BY <3>2 DEF BoundStay, StreamsStay
    <3> QED BY <1>5, <3>1, <3>2 DEF LeaseExpires
  <2> QED BY <2>1, <2>2, StillMoves
<1>6. CASE SendFails(c)
  BY <1>6, CloseStays, DisconnectStays, StillMoves DEF SendFails, hsVars, socketVars
<1>7. CASE RequestFails(c)
  BY <1>7, DisconnectStays, StillMoves
     DEF RequestFails, tunnelVars, hsVars, socketVars, BoundStay
<1> QED BY <1>1, <1>2, <1>3, <1>4, <1>5, <1>6, <1>7 DEF Callback

LEMMA SettlesMoves == ASSUME TypeOK, NEW c \in Conn, Settles(c) PROVE Moves
<1>1. CASE IncomingAuthorized(c) \/ IncomingRejected(c)
  <2>1. queue = <<"incoming", c>> /\ UNCHANGED <<chan, disc, acceptQ, awaited, hs, hsBy>>
    BY <1>1 DEF IncomingAuthorized, IncomingRejected, tunnelVars, hsVars, ctrlVars
  <2>2. queue' = Idle
    BY <1>1 DEF IncomingAuthorized, IncomingRejected, QueueEndsAfterSend, QueueEnds, QueueThrows
  <2>3. \A d \in Conn : queue # <<"handshake", d>>
    BY <2>1
  <2> QED BY <2>1, <2>2, <2>3, StillMoves DEF BoundStay, StreamsStay
<1>2. CASE AttachReady(c)
  <2>1. /\ queue = <<"attach", c>> /\ QueueResumes(c, transport[c], rtc[c])
        /\ UNCHANGED <<disc, awaited>>
    BY <1>2 DEF AttachReady
  <2>2. StreamsStay
    BY <2>1 DEF StreamsStay
  <2> QED BY <2>1, <2>2, QueueResumeMoves
<1>3. CASE AttachFailed(c)
  <2>1. queue' = Idle
    BY <1>3 DEF AttachFailed, QueueEndsAfterSend, QueueEnds, QueueThrows
  <2>2. \A d \in Conn : queue # <<"handshake", d>>
    BY <1>3 DEF AttachFailed
  <2> QED BY <1>3, <2>1, <2>2, DropStays, StillMoves DEF AttachFailed, hsVars
<1>4. CASE StreamsClosed(c)
  <2>1. UNCHANGED <<acceptQ, awaited, hs, hsBy>> /\ queue' = AfterDrop(c)
    BY <1>4 DEF StreamsClosed, hsVars
  <2>2. PICK result : disc' = [disc EXCEPT ![c] = result]
    BY <1>4 DEF StreamsClosed
  <2>3. BoundStay
    BY <1>4, CloseStays DEF StreamsClosed
  <2>4. Stands
    <3>1. CASE queue = <<"drop", c>>
      <4>1. queue' = <<"idle">>
        BY <2>1, <3>1 DEF AfterDrop, Idle
      <4>2. \A d \in Conn : queue # <<"handshake", d>> /\ queue' # <<"handshake", d>>
        BY <3>1, <4>1
      <4> QED BY <2>1, <4>2 DEF Stands, SameAwaited
    <3>2. CASE queue # <<"drop", c>>
      <4>1. queue' = queue
        BY <2>1, <3>2 DEF AfterDrop
      <4> QED BY <2>1, <4>1 DEF Stands, SameAwaited
    <3> QED BY <3>1, <3>2
  <2>5. \A d \in Conn : queue' = <<"drop", d>> => queue = <<"drop", d>> /\ d # c
    BY <2>1 DEF AfterDrop, Idle
  <2>6. DropsGoOn
    BY <2>2, <2>5 DEF DropsGoOn, TypeOK
  <2> QED BY <2>1, <2>3, <2>4, <2>6 DEF Moves, Line, Replaces
<1> QED BY <1>1, <1>2, <1>3, <1>4 DEF Settles

LEMMA StepMoves == ASSUME TypeOK, AcceptInv, [Next]_vars PROVE Moves
<1>1. CASE Accepts
  BY <1>1, AcceptsMove
<1>2. ASSUME NEW c \in Conn, Frame(c) \/ Callback(c) \/ Settles(c) PROVE Moves
  BY <1>2, FrameMoves, CallbackMoves, SettlesMoves
<1>3. ASSUME NEW p \in Peer, RevokePeer(p) \/ RevokeDisconnects(p) PROVE Moves
  <2>1. UNCHANGED <<chan, queue, acceptQ, awaited, hs, hsBy>>
    BY <1>3 DEF RevokePeer, RevokeDisconnects, tunnelVars, hsVars, ctrlVars, socketVars
  <2>2. StreamsStay
    BY <1>3, DisconnectStays DEF RevokePeer, RevokeDisconnects, ctrlVars, StreamsStay
  <2> QED BY <2>1, <2>2, StillMoves DEF BoundStay
<1>4. CASE Outage
  BY <1>4, StillMoves DEF Outage, tunnelVars, hsVars, ctrlVars, BoundStay, StreamsStay
<1>5. CASE Finish
  <2>1. UNCHANGED <<queue, acceptQ, awaited, hs, hsBy>>
    BY <1>5 DEF Finish, hsVars
  <2>2. CASE DropAll(Unleased)
    BY <2>1, <2>2, DropStays, StillMoves
  <2>3. CASE CloseChannels({c \in Conn : inMap[c]}) /\ UNCHANGED disc
    BY <2>1, <2>3, CloseStays, StillMoves DEF StreamsStay
  <2> QED BY <1>5, <2>2, <2>3 DEF Finish
<1>6. CASE SweepConnections
  BY <1>6, DisconnectStays, StillMoves DEF SweepConnections, tunnelVars, hsVars, BoundStay
<1>7. CASE HelloAck
  BY <1>7, DropStays, StillMoves DEF HelloAck, hsVars
<1>8. CASE UNCHANGED vars
  BY <1>8, StillMoves
     DEF vars, tunnelVars, hsVars, ctrlVars, socketVars, BoundStay, StreamsStay
<1> QED BY <1>1, <1>2, <1>3, <1>4, <1>5, <1>6, <1>7, <1>8 DEF Next

WaitInv == LineInv /\ QueueAwaitsSomeone

LEMMA WaitAlways == Spec => [](TypeOK /\ AcceptInv /\ WaitInv)
<1>1. Init => WaitInv
  BY DEF Init, WaitInv, LineInv, QueueAwaitsSomeone, InLine, Idle
<1>2. TypeOK /\ AcceptInv /\ WaitInv /\ [Next]_vars => WaitInv'
  BY StepServes, StepMoves, MovesKeep DEF WaitInv
<1> QED BY <1>1, <1>2, PathAlways, PTL DEF Spec

(* What the control queue awaits is being done by somebody: its handshake  *)
(* stands in the accept queue and no other caller's does in its name, its  *)
(* drop has streams being closed, and every connection acceptOne awaits is *)
(* being disconnected (handleHandshake, dropTunnel, acceptOne).            *)
THEOREM AwaitedIsBegun == Spec => []QueueAwaitsSomeone
<1>1. WaitInv => QueueAwaitsSomeone
  BY DEF WaitInv
<1> QED BY <1>1, WaitAlways, PTL

(* Some handler the Host itself runs to completion can go on: the accept   *)
(* queue's head starts, finishes or fails, or, in a turn of its own, what  *)
(* the queue awaits answers or a peer's streams are closed.                *)
SomebodyGoesOn ==
    \/ acceptQ # <<>> /\ ~accepting
    \/ accepting /\ \A d \in awaited : disc[d] = "done"
    \/ accepting /\ \E d \in awaited : disc[d] = "failed"
    \/ TurnOver /\ \E c \in Conn :
          queue \in {<<"incoming", c>>, <<"attach", c>>} \/ disc[c] = "streams"

QueueNeverStuck == queue # Idle => SomebodyGoesOn

(* No deadlock of the control queue, the accept queue and the disconnects: *)
(* whenever a control frame is still being handled, a step the Host runs   *)
(* to completion by itself has its guard (the safety core of QueueDrains). *)
THEOREM NeverStuck == Spec => []QueueNeverStuck
<1>1. TypeOK /\ AcceptInv /\ WaitInv => QueueNeverStuck
  <2> SUFFICES ASSUME TypeOK, AcceptInv, WaitInv, queue # Idle,
                      ~(acceptQ # <<>> /\ ~accepting)
               PROVE  SomebodyGoesOn
    BY DEF QueueNeverStuck, SomebodyGoesOn
  <2>1. TurnOver
    BY DEF TurnOver
  <2>2. CASE accepting
    <3>1. \A d \in awaited : d \in Conn /\ disc[d] \in {"streams", "done", "failed"}
      BY DEF TypeOK, WaitInv, QueueAwaitsSomeone
    <3> QED BY <2>1, <2>2, <3>1 DEF SomebodyGoesOn
  <2>3. CASE ~accepting
    <3>1. acceptQ = <<>>
      BY <2>3
    <3>2. \A c \in Conn : queue # <<"handshake", c>>
      <4>1. \A c \in Conn : ~InLine(c)
        BY <3>1 DEF InLine
      <4> QED BY <4>1 DEF WaitInv, LineInv, QueueAwaitsSomeone
    <3>3. PICK c \in Conn : queue \in {<<"incoming", c>>, <<"attach", c>>, <<"drop", c>>}
      BY <3>2 DEF TypeOK
    <3>4. queue = <<"drop", c>> => disc[c] = "streams"
      BY DEF WaitInv, QueueAwaitsSomeone
    <3> QED BY <2>1, <3>3, <3>4 DEF SomebodyGoesOn
  <2> QED BY <2>2, <2>3
<1> QED BY <1>1, WaitAlways, PTL
=============================================================================
