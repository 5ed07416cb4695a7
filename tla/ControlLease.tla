---------------------------- MODULE ControlLease ----------------------------
(***************************************************************************)
(* The authorization lease of one connection at one endpoint               *)
(* (packages/webrtc/src/control-lease.ts), with its two clocks, a control  *)
(* connection that loses, delays and repeats frames, and the Server, which *)
(* is external: it grants a request only while the connection is           *)
(* authorized.  The endpoint starts after start() returned; it is the      *)
(* Host, or a client on WebRTC or on an independent Relay, which differ in *)
(* what they ask the lease and in how they close.                          *)
(*                                                                         *)
(* Acks for another connection or of another length are ignored by the     *)
(* code and left out.  A ticket is named by the request that brought it.   *)
(***************************************************************************)
EXTENDS Integers

CONSTANTS
    Lease,        \* WEBRTC_LEASE_MS
    Every,        \* the renewal period
    Fresh,        \* the age at which an unanswered request is too old
    Faults,       \* which clock may go wrong: "suspend" the monotonic one, "step" the other
    Skews,        \* offsets of Date.now() to physical time
    MaxTime,      \* bound: physical time
    MaxRequests   \* bound: requests

ASSUME LeaseAssumption ==
    /\ Lease \in Nat \ {0} /\ Every \in Nat /\ Fresh \in Nat
    /\ Faults \subseteq {"suspend", "step"}
    /\ Skews \subseteq Int
    /\ MaxTime \in Nat /\ MaxRequests \in Nat

VARIABLES
    now,          \* physical time
    mono, wall,   \* performance.now() and Date.now()
    fault,        \* the clock that may go wrong
    stopped, confirmed, sent, deadline, sequence, lastRequest, ticket,
    expirations,  \* calls of the expired callback
    requested,    \* requests that left the endpoint
    acks,         \* requests the Server granted; any of them may arrive, at any time
    revoked, revokedAt,
    endpoint,     \* the side and the data plane of the connection
    underway,     \* a message that valid() admitted has not been carried yet
    done,         \* what was done with data at this moment: "admit", "carry"
    closed        \* the data plane is closed

clocks == <<now, mono, wall, fault>>
lease  == <<stopped, confirmed, sent, deadline, sequence, lastRequest, ticket, expirations>>
server == <<requested, acks, revoked, revokedAt>>
data   == <<endpoint, underway, done>>
vars   == <<clocks, lease, server, data, closed>>

None == [id |-> 0, mono |-> 0, wall |-> 0]

TypeOK ==
    /\ now \in Nat /\ mono \in Nat /\ wall \in Int /\ fault \in Faults
    /\ stopped \in BOOLEAN /\ confirmed \in BOOLEAN
    /\ sent \in [id : Nat, mono : Nat, wall : Int]
    /\ deadline \in [mono : Nat, wall : Int]
    /\ sequence \in Nat /\ lastRequest \in Nat /\ ticket \in Nat
    /\ expirations \in {0, 1}
    /\ requested \in SUBSET Nat /\ acks \in SUBSET Nat
    /\ revoked \in BOOLEAN /\ revokedAt \in Nat
    /\ endpoint \in {"host", "client", "relayClient"}
    /\ underway \in BOOLEAN /\ done \subseteq {"admit", "carry"} /\ closed \in BOOLEAN

(* start(): a deadline for the first confirmation, and a first request,    *)
(* which throws while the control connection is down.                      *)
Init ==
    /\ now = 0 /\ mono = 0 /\ wall \in Skews /\ fault \in Faults
    /\ stopped = FALSE /\ confirmed = FALSE
    /\ deadline = [mono |-> Lease, wall |-> wall + Lease]
    /\ sequence = 1 /\ lastRequest = 0 /\ ticket = 0 /\ expirations = 0
    /\ \/ sent = None /\ requested = {}
       \/ sent = [id |-> 1, mono |-> 0, wall |-> wall] /\ requested = {1}
    /\ acks = {} /\ revoked = FALSE /\ revokedAt = 0
    /\ endpoint \in {"host", "client", "relayClient"}
    /\ underway = FALSE /\ done = {} /\ closed = FALSE

----------------------------------------------------------------------------
(* The clocks.  performance.now() may stand still while the device sleeps; *)
(* Date.now() may be set to another time.  A closed connection is not      *)
(* followed any further.                                                   *)

TimePasses ==
    /\ ~closed /\ now < MaxTime
    /\ now' = now + 1 /\ mono' = mono + 1 /\ wall' = wall + 1
    /\ done' = {}
    /\ UNCHANGED <<fault, lease, server, endpoint, underway, closed>>

Suspend ==
    /\ ~closed /\ fault = "suspend" /\ now < MaxTime
    /\ now' = now + 1 /\ wall' = wall + 1
    /\ done' = {}
    /\ UNCHANGED <<mono, fault, lease, server, endpoint, underway, closed>>

WallSteps ==
    /\ ~closed /\ fault = "step"
    /\ \E s \in Skews : wall' = now + s
    /\ UNCHANGED <<now, mono, fault, lease, server, data, closed>>

----------------------------------------------------------------------------
(* Mutant: both clocks have to agree. *)
BothPassed == mono >= deadline.mono /\ wall >= deadline.wall

Passed == mono >= deadline.mono \/ wall >= deadline.wall

(* A client closes in the step that stops its lease (failConnection); the  *)
(* Host awaits its RTC connection's end first (dropTunnel).                *)
Closes ==
    /\ closed' = (endpoint # "host") /\ underway' = (underway /\ ~closed')
    /\ done' = {} /\ endpoint' = endpoint

(* valid() finds the deadline passed: stop(), then the callback. *)
Expire ==
    /\ stopped' = TRUE /\ sent' = None /\ expirations' = expirations + 1
    /\ Closes
    /\ UNCHANGED <<confirmed, deadline, sequence, lastRequest, ticket>>

(* A request gets the next number, whether it leaves the endpoint ... *)
Numbered ==
    /\ sequence < MaxRequests
    /\ sequence' = sequence + 1
    /\ lastRequest' = mono
    /\ UNCHANGED <<stopped, confirmed, deadline, ticket, expirations>>

RequestLeaves ==
    /\ Numbered
    /\ sent' = [id |-> sequence + 1, mono |-> mono, wall |-> wall]
    /\ requested' = requested \cup {sequence + 1}

(* ... or throws, and the one before it stays the one in flight. *)
RequestThrows == Numbered /\ UNCHANGED <<sent, requested>>

(* The interval timer; force is for a control connection just recovered. *)
Tick(force) ==
    /\ ~stopped
    /\ \/ Passed /\ Expire /\ UNCHANGED requested
       \/ /\ ~Passed
          /\ force \/ mono - lastRequest >= Every
          /\ RequestLeaves \/ RequestThrows
          /\ UNCHANGED <<data, closed>>
    /\ UNCHANGED <<clocks, acks, revoked, revokedAt>>

(* The reply is to the request in flight, and not too late. *)
Matches(id) ==
    sent # None /\ sent.id = id /\ mono - sent.mono < Fresh /\ wall - sent.wall < Fresh

(* Mutant: the new deadline counts from the reply. *)
WindowFromReply == [mono |-> mono + Lease, wall |-> wall + Lease]

Window == [mono |-> sent.mono + Lease, wall |-> sent.wall + Lease]

(* acknowledge() of a reply, which stays in the network to arrive again. *)
Acknowledge(id) ==
    /\ id \in acks /\ ~stopped
    /\ \/ Passed /\ Expire
       \/ /\ ~Passed /\ Matches(id)
          /\ sent' = None /\ ticket' = id /\ confirmed' = TRUE /\ deadline' = Window
          /\ UNCHANGED <<stopped, sequence, lastRequest, expirations, data, closed>>
    /\ UNCHANGED <<clocks, server>>

(* A message is to be sent, or came in where the receiver asks: valid() is *)
(* asked, once.                                                            *)
Admit ==
    /\ ~stopped
    /\ \/ Passed /\ Expire
       \/ /\ ~Passed
          /\ done' = done \cup {"admit"} /\ underway' = TRUE
          /\ UNCHANGED <<lease, endpoint, closed>>
    /\ UNCHANGED <<clocks, server>>

(* An admitted message, or a part of it, is transmitted or handed on.  The *)
(* sender awaited its turn and the carrier's capacity after it had asked,  *)
(* and does not ask again.                                                 *)
Carry ==
    /\ ~closed /\ underway
    /\ done' = done \cup {"carry"} /\ underway' \in BOOLEAN
    /\ UNCHANGED <<clocks, lease, server, endpoint, closed>>

(* The client's Relay data socket hands on what arrives, and never asks. *)
DeliverUnasked ==
    /\ ~closed /\ endpoint = "relayClient"
    /\ done' = done \cup {"carry"}
    /\ UNCHANGED <<clocks, lease, server, endpoint, underway, closed>>

(* stop(): the connection is closed for another reason. *)
Stop ==
    /\ ~stopped
    /\ stopped' = TRUE /\ sent' = None
    /\ Closes
    /\ UNCHANGED <<clocks, confirmed, deadline, sequence, lastRequest, ticket, expirations,
                   server>>

(* The Host's dropTunnel goes on: the data socket and the channel close. *)
Close ==
    /\ stopped /\ ~closed
    /\ closed' = TRUE /\ underway' = FALSE /\ done' = {}
    /\ UNCHANGED <<clocks, lease, server, endpoint>>

----------------------------------------------------------------------------
(* The Server. *)

Grant(id) ==
    /\ ~stopped /\ id \in requested /\ ~revoked
    /\ acks' = acks \cup {id}
    /\ UNCHANGED <<clocks, lease, requested, revoked, revokedAt, data, closed>>

(* Bounded so that the lease can run out before MaxTime. *)
Revoke ==
    /\ ~stopped /\ ~revoked /\ now + Lease < MaxTime
    /\ revoked' = TRUE /\ revokedAt' = now
    /\ UNCHANGED <<clocks, lease, requested, acks, data, closed>>

----------------------------------------------------------------------------
Next ==
    \/ TimePasses \/ Suspend \/ WallSteps
    \/ \E force \in BOOLEAN : Tick(force)
    \/ \E id \in 1..MaxRequests : Acknowledge(id) \/ Grant(id)
    \/ Admit \/ Carry \/ DeliverUnasked \/ Stop \/ Close \/ Revoke

Spec == Init /\ [][Next]_vars

(* Time passes while the program runs, the interval timer fires, and a     *)
(* Host that drops a tunnel gets to the end of it.                         *)
FairSpec == Spec /\ WF_vars(TimePasses) /\ WF_vars(Tick(FALSE)) /\ WF_vars(Close)

----------------------------------------------------------------------------
(* Properties. *)

(* With one of its clocks wrong, either of them, and with replies lost,    *)
(* late, repeated and superseded, the endpoint admits data of a connection *)
(* the Server no longer authorizes for less than Lease.  What it admitted  *)
(* may be carried later, and what a client takes from its Relay socket may *)
(* come at any time, but neither once the data plane is closed (valid,     *)
(* acknowledge, dropTunnel, failConnection).                               *)
Abstract == INSTANCE BoundedAuthorization WITH
                Lease <- Lease, now <- now, revoked <- revoked, revokedAt <- revokedAt,
                unasked <- endpoint = "relayClient", underway <- underway,
                done <- done, stopped <- stopped, closed <- closed
Bounded  == Abstract!Spec

(* A repeated or superseded reply never brings an older ticket back, nor   *)
(* an earlier deadline: both come from one request, sent after the last    *)
(* one that was granted (acknowledge).                                     *)
RenewalMovesForward ==
    [][ticket' # ticket => ticket' > ticket /\ deadline'.mono >= deadline.mono]_vars

(* An endpoint nobody renews any more closes its connection by itself,     *)
(* also when nothing is sent and a clock is wrong (the timer in start).    *)
RunsOut == revoked ~> closed

=============================================================================
