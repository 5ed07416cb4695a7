------------------------- MODULE AdaptiveTransport -------------------------
(***************************************************************************)
(* The client's transport (packages/webrtc/src/adaptive-transport.ts): the *)
(* control WebSocket, the negotiation of a data plane after                *)
(* connect.accepted (a WebRTC channel, else the Relay), and the recovery   *)
(* of a lost control connection under an authorization lease.              *)
(*                                                                         *)
(* A transport is used once: its owners make another for another attempt.  *)
(* The Server, the host and the network are external: they answer what     *)
(* they were asked, fail, close and delay as they like.  The lease is the  *)
(* one of ControlLease, without its clocks: its deadline passes or a reply *)
(* moves it.  Frames whose only effect is on the layers above (ping,       *)
(* secure.handshake) and byte counters are left out.                       *)
(***************************************************************************)
EXTENDS RtcDataChannel

CONSTANT Options  \* what the owner asked for and the Server negotiated

OptionType == [
    rtc    : BOOLEAN,   \* WebRTC is wanted, enabled and available
    relay  : BOOLEAN,   \* the Relay is among the transports
    attach : BOOLEAN,   \* the Server assigned an independent Relay
    resume : BOOLEAN]   \* recovery tickets were issued

ASSUME AdaptiveAssumption ==
    /\ Options \subseteq OptionType
    /\ \A o \in Options : o.rtc \/ o.relay

VARIABLES
    options,
    lifetime,      \* "none", "live" or "over"
    socket,        \* this.socket
    sockets,       \* control WebSockets that were made and not closed
    owed,          \* the frame the Server has to answer on it
    controlReady,
    timers,        \* armed timers
    reopening,     \* reopenControl() waits for an access token
    authorized,    \* connectionId is defined
    negotiation,   \* what negotiate() waits for
    dataMode, established,
    dataSocket,
    rtc, hasRtc,   \* the data channel, and whether this.rtc is it
    offered,       \* remote candidates that arrived
    lease,
    outcome, told  \* what connect() returned; calls of the onClose handlers

control == <<socket, sockets, owed, controlReady, timers, reopening>>
data    == <<negotiation, dataMode, established, dataSocket, rtc, hasRtc, offered, outcome>>
vars    == <<options, lifetime, control, authorized, data, lease, told>>

NoLease == [state |-> "none", passed |-> FALSE, asked |-> FALSE]

AdaptiveTypeOK ==
    /\ options \in Options
    /\ lifetime \in {"none", "live", "over"}
    /\ socket \in {"none", "connecting", "open"} /\ sockets \in Nat
    /\ owed \in {"none", "hello", "request"} /\ controlReady \in BOOLEAN
    /\ timers \subseteq {"handshake", "attach", "recovery", "opening"}
    /\ reopening \in BOOLEAN /\ authorized \in BOOLEAN
    /\ negotiation \in {"none", "ice", "rtc", "attach"}
    /\ dataMode \in {"relay", "webrtc"} /\ established \in BOOLEAN
    /\ dataSocket \in {"none", "connecting", "open", "ready"}
    /\ rtc \in Channel /\ hasRtc \in BOOLEAN /\ offered \subseteq Candidates
    /\ lease \in [state : {"none", "first", "confirmed"}, passed : BOOLEAN, asked : BOOLEAN]
    /\ outcome \in {"none", "waiting", "resolved", "rejected"} /\ told \in Nat

Init ==
    /\ options \in Options /\ lifetime = "none"
    /\ socket = "none" /\ sockets = 0 /\ owed = "none" /\ controlReady = FALSE
    /\ timers = {} /\ reopening = FALSE /\ authorized = FALSE
    /\ negotiation = "none" /\ dataMode = "relay" /\ established = FALSE
    /\ dataSocket = "none" /\ rtc = NoChannel /\ hasRtc = FALSE /\ offered = {}
    /\ lease = NoLease /\ outcome = "none" /\ told = 0

----------------------------------------------------------------------------
(* failConnection(): the end of this lifetime, whatever it was doing.      *)

DropSocket == /\ socket' = "none" /\ owed' = "none"
              /\ sockets' = IF socket = "none" THEN sockets ELSE sockets - 1

(* Mutant: the data channel is left to whoever negotiates it. *)
EndKeepingRtc(c) ==
    /\ lifetime' = "over" /\ DropSocket /\ controlReady' = FALSE /\ timers' = {}
    /\ authorized' = FALSE /\ negotiation' = "none" /\ established' = FALSE
    /\ dataSocket' = "none" /\ rtc' = c /\ hasRtc' = FALSE /\ lease' = NoLease
    /\ outcome' = IF outcome = "waiting" THEN "rejected" ELSE outcome
    /\ told' = IF socket # "none" \/ established THEN told + 1 ELSE told
    /\ UNCHANGED <<options, dataMode, offered>>

(* Mutant: the data channel is closed while it still is this.rtc. *)
EndHeardTwice(c) ==
    /\ lifetime' = "over" /\ DropSocket /\ controlReady' = FALSE /\ timers' = {}
    /\ authorized' = FALSE /\ negotiation' = "none" /\ established' = FALSE
    /\ dataSocket' = "none" /\ rtc' = Close(c) /\ hasRtc' = FALSE /\ lease' = NoLease
    /\ outcome' = IF outcome = "waiting" THEN "rejected" ELSE outcome
    /\ told' = told + 1 + (Close(c).closes - c.closes)
    /\ UNCHANGED <<options, dataMode, offered>>

(* c is the data channel as the cause of the failure left it.  The timer   *)
(* of a data socket's attach goes with that socket, a moment later         *)
(* (onclose), and by then rejects nothing that is still awaited.           *)
End(c) ==
    /\ lifetime' = "over" /\ DropSocket /\ controlReady' = FALSE /\ timers' = {}
    /\ authorized' = FALSE /\ negotiation' = "none" /\ established' = FALSE
    /\ dataSocket' = "none" /\ rtc' = Close(c) /\ hasRtc' = FALSE /\ lease' = NoLease
    /\ outcome' = IF outcome = "waiting" THEN "rejected" ELSE outcome
    /\ told' = IF socket # "none" \/ established THEN told + 1 ELSE told
    /\ UNCHANGED <<options, dataMode, offered>>

FailWith(c) == End(c) /\ UNCHANGED reopening

Fail == FailWith(rtc)

----------------------------------------------------------------------------
(* The lease, and the loss of the control connection.                      *)

CanDetach == lease.state = "confirmed" /\ ~lease.passed

DataPlaneAlive ==
    IF dataMode = "webrtc" THEN hasRtc /\ rtc.ready = "open" ELSE dataSocket = "ready"

(* Mutant: the heartbeat of the lost connection may still be found late. *)
DetachStillReady ==
    /\ DropSocket /\ timers' = (timers \ {"opening"}) \cup {"recovery"}
    /\ UNCHANGED <<options, lifetime, controlReady, authorized, data, lease, told>>

Detach ==
    /\ DropSocket /\ controlReady' = FALSE
    /\ timers' = (timers \ {"opening"}) \cup {"recovery"}
    /\ UNCHANGED <<options, lifetime, authorized, data, lease, told>>

(* Mutant: what is left of the data plane is not looked at. *)
LoseBlind(retryable) ==
    \/ retryable /\ CanDetach /\ Detach
    \/ ~(retryable /\ CanDetach) /\ End(rtc)

(* controlLost(): the session goes on without control, or ends. *)
Lose(retryable) ==
    \/ retryable /\ CanDetach /\ DataPlaneAlive /\ Detach
    \/ ~(retryable /\ CanDetach /\ DataPlaneAlive) /\ End(rtc)

ControlLost(retryable) == Lose(retryable) /\ UNCHANGED reopening

(* onerror, or onclose with a code that is retryable or not. *)
SocketLost == socket # "none" /\ \E retryable \in BOOLEAN : ControlLost(retryable)

----------------------------------------------------------------------------
(* connect() and the control frames.                                       *)

Connect ==
    /\ lifetime = "none"
    /\ lifetime' = "live" /\ socket' = "connecting" /\ sockets' = sockets + 1
    /\ timers' = {"handshake"} /\ outcome' = "waiting"
    /\ UNCHANGED <<options, owed, controlReady, reopening, authorized, negotiation, dataMode,
                   established, dataSocket, rtc, hasRtc, offered, lease, told>>

SocketOpens ==
    /\ socket = "connecting"
    /\ socket' = "open" /\ owed' = "hello"
    /\ UNCHANGED <<options, lifetime, sockets, controlReady, timers, reopening, authorized,
                   data, lease, told>>

(* A lease request leaves on the control connection, if there is one. *)
Request == lease' = [lease EXCEPT !.asked = @ \/ socket = "open"]

(* hello.ack: the first asks for the connection, a later one renews the    *)
(* lease.  It fails on a capability the Server does not support (any more).*)
HelloAck ==
    /\ owed = "hello"
    /\ \/ Fail
       \/ /\ lease.state = "none"
          /\ controlReady' = TRUE /\ owed' = "request"
          /\ UNCHANGED <<options, lifetime, socket, sockets, timers, reopening, authorized,
                         data, lease, told>>
       \/ /\ lease.state # "none" /\ ~lease.passed
          /\ controlReady' = TRUE /\ owed' = "none" /\ timers' = timers \ {"opening"}
          /\ Request
          /\ UNCHANGED <<options, lifetime, socket, sockets, reopening, authorized, data, told>>

(* transport.selected and finishConnection(). *)
Finish ==
    /\ established' = TRUE /\ outcome' = "resolved" /\ negotiation' = "none"
    /\ timers' = timers \ {"handshake", "attach"}

(* negotiate() settles on the Relay: its own connection, or the control    *)
(* connection.                                                             *)
UseRelay(c) ==
    /\ rtc' = Close(c) /\ hasRtc' = FALSE /\ dataMode' = "relay" /\ owed' = "none"
    /\ \/ /\ options.attach
          /\ dataSocket' = "connecting" /\ negotiation' = "attach"
          /\ timers' = (timers \ {"handshake"}) \cup {"attach"}
          /\ UNCHANGED <<established, outcome>>
       \/ ~options.attach /\ Finish /\ UNCHANGED dataSocket

(* connect.accepted ends the handshake; WebRTC begins with its ICE servers.*)
Accepted ==
    /\ owed = "request"
    /\ authorized' = TRUE
    /\ \/ ~options.rtc /\ UseRelay(rtc)
       \/ /\ options.rtc
          /\ negotiation' = "ice" /\ timers' = timers \ {"handshake"} /\ owed' = "none"
          /\ UNCHANGED <<dataMode, established, dataSocket, rtc, hasRtc, outcome>>
    /\ UNCHANGED <<options, lifetime, socket, sockets, controlReady, reopening, offered,
                   lease, told>>

(* connect.rejected, error, or a frame that cannot be understood. *)
ErrorFrame == socket = "open" /\ Fail

(* The two timers of connect(), its abort signal, and close(). *)
HandshakeTimeout == "handshake" \in timers /\ Fail
AttachTimeout    == "attach" \in timers /\ Fail
Abort            == outcome = "waiting" /\ Fail
CloseCall        == lifetime = "live" /\ Fail

----------------------------------------------------------------------------
(* negotiate() and tryWebRtc().                                            *)

(* fetchIceServers: the servers, an error or its timeout. *)
IceFetched ==
    /\ negotiation = "ice"
    /\ rtc' = Opening /\ hasRtc' = TRUE /\ negotiation' = "rtc"
    /\ UNCHANGED <<options, lifetime, control, authorized, dataMode, established, dataSocket,
                   offered, outcome, lease, told>>

(* Where negotiate() goes once connect() of the channel resolved: it may   *)
(* have found a path that was not negotiated.                              *)
RtcResolved(c) ==
    \/ /\ dataMode' = "webrtc" /\ rtc' = c /\ Finish
       /\ UNCHANGED <<options, lifetime, socket, sockets, owed, controlReady, reopening,
                      authorized, dataSocket, hasRtc, offered, lease, told>>
    \/ /\ options.relay /\ UseRelay(c)
       /\ UNCHANGED <<options, lifetime, socket, sockets, controlReady, reopening,
                      authorized, offered, lease, told>>
    \/ ~options.relay /\ FailWith(c)

(* ... or was rejected: the Relay is the fallback. *)
RtcRejected(c) ==
    \/ /\ options.relay /\ UseRelay(c)
       /\ UNCHANGED <<options, lifetime, socket, sockets, controlReady, reopening,
                      authorized, offered, lease, told>>
    \/ ~options.relay /\ FailWith(c)

(* The data channel becomes c: negotiate() goes on when connect() settled; *)
(* a close is a loss of the transport once WebRTC is its data plane.       *)
RtcBecomes(c) ==
    \/ negotiation = "rtc" /\ c.result = "resolved" /\ RtcResolved(c)
    \/ negotiation = "rtc" /\ c.result = "rejected" /\ RtcRejected(c)
    \/ negotiation # "rtc" /\ c.closes > rtc.closes /\ hasRtc /\ dataMode = "webrtc" /\ FailWith(c)
    \/ /\ IF negotiation = "rtc" THEN c.result = "waiting"
          ELSE ~(c.closes > rtc.closes /\ hasRtc /\ dataMode = "webrtc")
       /\ rtc' = c
       /\ UNCHANGED <<options, lifetime, control, authorized, negotiation, dataMode, established,
                      dataSocket, hasRtc, offered, outcome, lease, told>>

RtcOffer ==
    /\ rtc.offer = "making"
    /\ \/ RtcBecomes(OfferFails(rtc))
       \/ /\ rtc' = IF rtc.closed THEN [rtc EXCEPT !.offer = "failed"] ELSE OfferGoesOut(rtc)
          /\ UNCHANGED <<options, lifetime, control, authorized, negotiation, dataMode,
                         established, dataSocket, hasRtc, offered, outcome, lease, told>>

(* signal.answer and signal.ice, for this.rtc. *)
RtcAnswer ==
    /\ socket = "open" /\ hasRtc /\ rtc.offer = "sent" /\ rtc.remote = "none"
    /\ RtcBecomes(Answer(rtc))

RtcAnswerTaken ==
    /\ rtc.remote = "setting"
    /\ RtcBecomes(AnswerTaken(rtc)) \/ RtcBecomes(AnswerRefused(rtc))

RtcCandidate ==
    /\ socket = "open" /\ hasRtc /\ rtc.offer = "sent"
    /\ \E i \in Candidates \ offered :
        /\ offered' = offered \cup {i} /\ rtc' = Candidate(rtc, i)
        /\ UNCHANGED <<options, lifetime, control, authorized, negotiation, dataMode, established,
                       dataSocket, hasRtc, outcome, lease, told>>

RtcOpens  == ~rtc.closed /\ rtc.ready = "connecting" /\ rtc.remote = "set" /\ RtcBecomes(Opens(rtc))
RtcCloses == ~rtc.closed /\ rtc.ready \in {"connecting", "open"} /\ RtcBecomes(Closes(rtc))
RtcFails  == rtc.made /\ ~rtc.closed /\ ~rtc.opened /\ ~rtc.failing /\ RtcBecomes(PeerFails(rtc))
RtcGarbled == ~rtc.closed /\ rtc.opened /\ RtcBecomes(Close(rtc))
RtcTimeout == rtc.armed /\ RtcBecomes(TimesOut(rtc))
RtcStats   == rtc.failing /\ RtcBecomes(StatsRead(rtc))
RtcPath    == rtc.selecting /\ RtcBecomes(PathKnown(rtc))

(* The data socket of an independent Relay. *)
DataOpens ==
    /\ dataSocket = "connecting" /\ dataSocket' = "open"
    /\ UNCHANGED <<options, lifetime, control, authorized, negotiation, dataMode, established,
                   rtc, hasRtc, offered, outcome, lease, told>>

DataReady ==
    /\ dataSocket = "open" /\ dataSocket' = "ready" /\ Finish
    /\ UNCHANGED <<options, lifetime, socket, sockets, owed, controlReady, reopening, authorized,
                   dataMode, rtc, hasRtc, offered, lease, told>>

(* It closes or fails, the assignment is another, or the peer detached. *)
DataLost == dataSocket # "none" /\ Fail

----------------------------------------------------------------------------
(* The lease and the recovery of the control connection.                   *)

(* The owner authenticated the host over this transport. *)
MarkSecureReady ==
    /\ established /\ lease.state = "none" /\ options.resume
    /\ dataMode = "webrtc" \/ dataSocket = "ready"
    /\ lease' = [state |-> "first", passed |-> FALSE, asked |-> socket = "open"]
    /\ UNCHANGED <<options, lifetime, control, authorized, data, told>>

DeadlinePasses ==
    /\ lease.state # "none" /\ ~lease.passed
    /\ lease' = [lease EXCEPT !.passed = TRUE]
    /\ UNCHANGED <<options, lifetime, control, authorized, data, told>>

(* Mutant: the timer only asks for more. *)
TickAsks ==
    /\ lease.state # "none" /\ ~lease.passed
    /\ Request /\ UNCHANGED <<options, lifetime, control, authorized, data, told>>

(* The interval timer: the deadline; a Server that was silent for long; or *)
(* the next request.                                                       *)
LeaseTick ==
    /\ lease.state # "none"
    /\ \/ lease.passed /\ Fail
       \/ ~lease.passed /\ controlReady /\ ControlLost(TRUE)
       \/ ~lease.passed /\ Request /\ UNCHANGED <<options, lifetime, control, authorized, data, told>>

(* connection.lease.ack, from a Server that knows this socket. *)
LeaseAck ==
    /\ socket = "open" /\ controlReady /\ lease.asked
    /\ \/ lease.passed /\ Fail
       \/ /\ ~lease.passed
          /\ lease' = [state |-> "confirmed", passed |-> FALSE, asked |-> FALSE]
          /\ UNCHANGED <<options, lifetime, control, authorized, data, told>>

(* send(), or a frame on the data channel, after the deadline. *)
UseExpired == lease.passed /\ Fail

RecoveryFires ==
    /\ "recovery" \in timers
    /\ \/ ~CanDetach /\ Fail
       \/ /\ CanDetach
          /\ timers' = timers \ {"recovery"} /\ reopening' = TRUE
          /\ UNCHANGED <<options, lifetime, socket, sockets, owed, controlReady, authorized,
                         data, lease, told>>

ReopenSocket ==
    /\ socket' = "connecting" /\ sockets' = sockets + 1 /\ timers' = timers \cup {"opening"}
    /\ UNCHANGED <<options, lifetime, owed, controlReady, authorized, data, lease, told>>

(* reopenControl() goes on with a token, or without one: the transport may *)
(* be over by now, or its lease.                                           *)
TokenSettles ==
    /\ reopening /\ reopening' = FALSE
    /\ \/ /\ lifetime = "over"
          /\ UNCHANGED <<options, lifetime, socket, sockets, owed, controlReady, timers,
                         authorized, data, lease, told>>
       \/ lifetime = "live" /\ ~CanDetach /\ End(rtc)
       \/ lifetime = "live" /\ CanDetach /\ ReopenSocket
       \/ lifetime = "live" /\ \E retryable \in BOOLEAN : Lose(retryable)

(* The handshake of the new connection takes too long. *)
OpeningTimeout == "opening" \in timers /\ ControlLost(TRUE)

----------------------------------------------------------------------------
Next ==
    \/ Connect \/ SocketOpens \/ HelloAck \/ Accepted \/ ErrorFrame \/ SocketLost
    \/ HandshakeTimeout \/ AttachTimeout \/ Abort \/ CloseCall
    \/ IceFetched \/ RtcOffer \/ RtcAnswer \/ RtcAnswerTaken \/ RtcCandidate
    \/ RtcOpens \/ RtcCloses \/ RtcFails \/ RtcGarbled \/ RtcTimeout \/ RtcStats \/ RtcPath
    \/ DataOpens \/ DataReady \/ DataLost
    \/ MarkSecureReady \/ DeadlinePasses \/ LeaseTick \/ LeaseAck \/ UseExpired
    \/ RecoveryFires \/ TokenSettles \/ OpeningTimeout

Spec == Init /\ [][Next]_vars

(* Timers fire, statistics are read within their own timeout, and time     *)
(* passes for a lease nobody renews.  Nothing is assumed of the Server,    *)
(* the host, the network or the source of access tokens.                   *)
Unrenewed == ~controlReady /\ DeadlinePasses

FairSpec ==
    /\ Spec
    /\ WF_vars(HandshakeTimeout) /\ WF_vars(AttachTimeout)
    /\ WF_vars(IceFetched) /\ WF_vars(RtcTimeout) /\ WF_vars(RtcStats) /\ WF_vars(RtcPath)
    /\ WF_vars(LeaseTick) /\ WF_vars(Unrenewed)

----------------------------------------------------------------------------
(* Properties. *)

(* Once it is over nothing is left running: no socket, no timer, no lease, *)
(* no peer connection, also when it ended inside a wait of negotiate() or  *)
(* reopenControl() that settles later (failConnection and the checks after *)
(* each await).                                                            *)
EndReleases ==
    lifetime = "over" =>
        /\ socket = "none" /\ sockets = 0 /\ dataSocket = "none"
        /\ timers = {} /\ lease = NoLease
        /\ rtc.made => rtc.closed /\ ~rtc.armed

(* However the control connection is lost while it is being recovered,     *)
(* there is one recovery: a timer, a wait for a token or a socket, never   *)
(* two of them, and never two sockets (controlLost, reopenControl).        *)
Recoveries ==
    {x \in {"timer", "token", "socket"} :
        \/ x = "timer" /\ "recovery" \in timers
        \/ x = "token" /\ reopening
        \/ x = "socket" /\ socket # "none"}
OneRecovery ==
    /\ sockets = IF socket = "none" THEN 0 ELSE 1
    /\ lifetime = "live" => \E x \in {"timer", "token", "socket"} : Recoveries = {x}

(* A session that goes on without its control connection was authorized    *)
(* by both ends and has the data plane it was authorized with, all the     *)
(* time (controlLost, rtc.onClose, the data socket's onclose).             *)
DetachedIsHealthy ==
    lifetime = "live" /\ socket = "none" =>
        established /\ lease.state = "confirmed" /\ DataPlaneAlive

(* Candidates that come before the answer reach the peer connection too.   *)
CandidatesReachPeer == hasRtc => KeepsCandidates(rtc, offered)

(* What its owner sees is a RemoteTransport: connect() settles once, and a *)
(* loss is told once, whichever of its parts is lost first.                *)
Phase == CASE lifetime = "none" -> "idle"
           [] lifetime = "over" -> "over"
           [] lifetime = "live" /\ outcome = "resolved" -> "connected"
           [] lifetime = "live" /\ outcome # "resolved" -> "connecting"
Contract == INSTANCE RemoteTransport WITH phase <- Phase, told <- told
ImplementsContract == Contract!Spec

(* connect() returns, although its timer ends at connect.accepted and each *)
(* later stage has another, and although a data channel that opened can no *)
(* longer time out.                                                        *)
ConnectSettles == outcome = "waiting" ~> outcome # "waiting"

(* A session without control gets it back or ends, also when no token      *)
(* ever comes.                                                             *)
RecoveryEnds == (lifetime = "live" /\ established /\ ~controlReady) ~>
                    (controlReady \/ lifetime = "over")

(* Does not hold (README, section 7): a transport that selected WebRTC has *)
(* an open channel.                                                        *)
SelectedIsOpen == established /\ dataMode = "webrtc" => rtc.opened
=============================================================================
