------------------------------ MODULE Gateway ------------------------------
(***************************************************************************)
(* The self-hosted Server's WebSocket gateway (apps/server/src/gateway.ts): *)
(* the sockets and the state each one's handlers close over, the table of  *)
(* registered peers, the table of links (logical connections) and the      *)
(* handlers that change them: frames, the hello deadline, the heartbeat,   *)
(* socket events, revocation and shutdown.  Each handler runs to its end.  *)
(*                                                                         *)
(* A send to a socket whose buffer is full disconnects its peer at once,   *)
(* in the middle of the handler that sent: Lost follows that chain.        *)
(***************************************************************************)
EXTENDS Naturals, FiniteSets

CONSTANTS
    Device,    \* devices of the account
    Host,      \* the devices whose role is host
    Modern,    \* hosts that understand connection-scoped errors (modernHost)
    Sock,      \* sockets, each used once
    DevOf,     \* the device whose token a socket presents
    Link,      \* connection ids, each drawn once
    None,
    MayStall,  \* sockets whose peer may stop reading for a while
    MayFail,   \* sockets that may fail: silence, close, malformed frames
    MayRevoke, \* devices that may be revoked
    MaxSocks,  \* the Server's limit of sockets (256)
    MaxLinks   \* the Server's limit of links (256)

ASSUME GatewayAssumption ==
    /\ Host \subseteq Device
    /\ Modern \subseteq Host
    /\ DevOf \in [Sock -> Device]
    /\ None \notin Sock
    /\ MayStall \subseteq Sock
    /\ MayFail \subseteq Sock
    /\ MayRevoke \subseteq Device
    /\ MaxSocks \in Nat
    /\ MaxLinks \in Nat

VARIABLES
    sock,    \* readyState of each socket: "new", "open", "closing", "closed"
    state,   \* accept()'s state of each socket
    peers,   \* Gateway.peers: the registered socket of each device
    stage,   \* Gateway.links: the stage of each link, "new" before and "gone" after
    made,    \* the sockets a link was made for; their devices are link.host, link.client
    slow,    \* sockets with more than four relay frames buffered
    revoked, \* devices revoked in the Store
    closed,  \* Gateway.closed
    holds    \* holds[s]: the links the peer of s was told of, and not of their end

netVars  == <<sock, state, slow>>
linkVars == <<stage, made>>
vars == <<netVars, peers, linkVars, revoked, closed, holds>>

Negotiating == {"pending", "accepted", "handshake"}
Established == {"accepted", "handshake", "ready"}

Live       == {l \in Link : stage[l] \in Negotiating \cup {"ready"}}
Registered == {d \in Device : peers[d] # None}

HostOf(l)   == DevOf[made[l].host]
ClientOf(l) == DevOf[made[l].client]
Ends(l)     == {HostOf(l), ClientOf(l)}

TypeOK ==
    /\ sock    \in [Sock -> {"new", "open", "closing", "closed"}]
    /\ state   \in [Sock -> {"awaiting_hello", "authenticated", "closing", "closed"}]
    /\ peers   \in [Device -> Sock \cup {None}]
    /\ stage   \in [Link -> Negotiating \cup {"new", "ready", "gone"}]
    /\ made    \in [Link -> [host : Sock, client : Sock] \cup {None}]
    /\ slow    \in SUBSET Sock
    /\ revoked \in SUBSET Device
    /\ closed  \in BOOLEAN
    /\ holds   \in [Sock -> SUBSET Link]
    /\ \A d \in Registered : DevOf[peers[d]] = d
    /\ \A l \in Live : made[l] \in [host : Sock, client : Sock]

Init ==
    /\ sock    = [s \in Sock |-> "new"]
    /\ state   = [s \in Sock |-> "awaiting_hello"]
    /\ peers   = [d \in Device |-> None]
    /\ stage   = [l \in Link |-> "new"]
    /\ made    = [l \in Link |-> None]
    /\ slow    = {}
    /\ revoked = {}
    /\ closed  = FALSE
    /\ holds   = [s \in Sock |-> {}]

----------------------------------------------------------------------------
(* Disconnecting and dropping. *)

(* drop() tells clients and modern hosts. *)
Notified(d) == d \in Host => d \in Modern

(* send() to d finds too much buffered and disconnects it. *)
Chokes(d) == d \in Registered /\ sock[peers[d]] = "open" /\ peers[d] \in slow

(* Of the links K, those gone once the links L are dropped and the devices *)
(* X disconnected.                                                         *)
Severed(K, X, L) == {l \in K : l \in L \/ Ends(l) \cap X # {}}

(* The devices disconnected when R are and the links L are dropped: every  *)
(* drop sends, and a send may disconnect.                                  *)
Lost(K, R, L) ==
    LET chokers == {d \in Registered : Chokes(d) /\ Notified(d)}
        Spread(X) == \A d \in chokers \ X : \A l \in Severed(K, X, L) : d \notin Ends(l) IN
    {d \in R \cup chokers : \A X \in SUBSET chokers : Spread(R \cup X) => d \in R \cup X}

Unregistered(X) == [d \in Device |-> IF d \in X THEN None ELSE peers[d]]

(* ws.close() on the registered sockets of X. *)
Closing(X) ==
    [s \in Sock |-> IF sock[s] = "open" /\ \E d \in X : peers[d] = s THEN "closing" ELSE sock[s]]

Without(S) == [l \in Link |-> IF l \in S THEN "gone" ELSE stage[l]]

(* Mutant: hosts are not told. *)
TellsClients(X, S) ==
    [s \in Sock |->
        IF sock[s] = "open" /\ \E d \in Device \ (X \cup Host) : peers[d] = s
        THEN holds[s] \ S ELSE holds[s]]

(* The registered sockets left open are told of the end of their links. *)
ToldEnd(X, S) ==
    [s \in Sock |->
        IF sock[s] = "open" /\ \E d \in Device \ X : peers[d] = s /\ Notified(d)
        THEN holds[s] \ S ELSE holds[s]]

(* The devices X are disconnected and the links S gone. *)
Apply(X, S) ==
    /\ peers' = Unregistered(X)
    /\ sock' = Closing(X)
    /\ stage' = Without(S)
    /\ holds' = ToldEnd(X, S)

(* disconnect() of the devices R and drop() of the links L. *)
Cut(R, L) == LET X == Lost(Live, R, L) IN Apply(X, Severed(Live, X, L))

(* send() of a frame, with nothing else to do. *)
Send(d) == IF Chokes(d) THEN Cut({d}, {}) ELSE UNCHANGED <<peers, sock, stage, holds>>

----------------------------------------------------------------------------
(* Sockets. *)

Upgrade(s) ==
    /\ ~closed
    /\ sock[s] = "new"
    /\ Cardinality({t \in Sock : sock[t] \in {"open", "closing"}}) < MaxSocks
    /\ sock' = [sock EXCEPT ![s] = "open"]
    /\ UNCHANGED <<state, slow, peers, linkVars, revoked, closed, holds>>

(* Mutant: frames of a socket that is being closed are read. *)
ReadsUntilClosed(s) ==
    sock[s] \in {"open", "closing"} /\ state[s] \in {"awaiting_hello", "authenticated"}

(* The frame guard of accept(). *)
Reads(s) == sock[s] = "open" /\ state[s] \in {"awaiting_hello", "authenticated"}

(* A frame of the registered peer of d is handled. *)
Speaks(s) == Reads(s) /\ state[s] = "authenticated" /\ peers[DevOf[s]] = s

(* Mutant: a hello registers the device it names. *)
Claimed(s) == Device

(* The device a hello registers: the one its token was issued to. *)
Authenticated(s) == {DevOf[s]}

(* disconnect(CONNECTION_REPLACED): of the device's former socket, with    *)
(* the links of the device.                                                *)
Replace(d) ==
    LET X == Lost(Live, {d}, {}) IN [x |-> X, cut |-> Severed(Live, X, {})]

Hello(s) ==
    /\ Reads(s) /\ state[s] = "awaiting_hello"
    /\ state' = [state EXCEPT ![s] = "authenticated"]
    /\ \E d \in Authenticated(s) :
         LET former == Replace(d) IN
         /\ d \notin revoked
         /\ peers' = [Unregistered(former.x) EXCEPT ![d] = s]
         /\ sock' = Closing(former.x)
         /\ stage' = Without(former.cut)
         /\ holds' = ToldEnd(former.x, former.cut)
    /\ UNCHANGED <<slow, made, revoked, closed>>

HelloTimeout(s) ==
    /\ sock[s] = "open" /\ state[s] = "awaiting_hello"
    /\ state' = [state EXCEPT ![s] = "closing"]
    /\ sock' = [sock EXCEPT ![s] = "closing"]
    /\ UNCHANGED <<slow, peers, linkVars, revoked, closed, holds>>

(* A frame that is refused and names no link of its sender: the socket is  *)
(* closed, through the peer table once the sender is a peer.  A peer that  *)
(* is not the registered one is refused whatever it sends.                 *)
BadFrame(s) ==
    /\ Reads(s)
    /\ s \in MayFail \/ DevOf[s] \in revoked
       \/ (state[s] = "authenticated" /\ peers[DevOf[s]] # s)
    /\ state' = [state EXCEPT ![s] = "closing"]
    /\ IF state[s] = "authenticated"
       THEN Cut({DevOf[s]}, {})
       ELSE /\ sock' = [sock EXCEPT ![s] = "closing"]
            /\ UNCHANGED <<peers, stage, holds>>
    /\ UNCHANGED <<slow, made, revoked, closed>>

(* The other side starts to close. *)
PeerCloses(s) ==
    /\ s \in MayFail
    /\ sock[s] = "open"
    /\ sock' = [sock EXCEPT ![s] = "closing"]
    /\ UNCHANGED <<state, slow, peers, linkVars, revoked, closed, holds>>

(* The socket that closed is still the registered one. *)
Current(s) == peers[DevOf[s]] = s

(* The close event: of a closing socket at the latest when it is           *)
(* terminated, of an open one when the network fails.                      *)
SocketCloses(s) ==
    /\ sock[s] = "closing" \/ (sock[s] = "open" /\ s \in MayFail)
    /\ state' = [state EXCEPT ![s] = "closed"]
    /\ slow' = slow \ {s}
    /\ LET X == Lost(Live, IF Current(s) THEN {DevOf[s]} ELSE {}, {})
           S == Severed(Live, X, {}) IN
       /\ peers' = Unregistered(X)
       /\ sock' = [Closing(X) EXCEPT ![s] = "closed"]
       /\ stage' = Without(S)
       /\ holds' = ToldEnd(X, S)
    /\ UNCHANGED <<made, revoked, closed>>

(* The peer stops reading, or reads on. *)
Stalls(s) ==
    /\ s \in MayStall
    /\ sock[s] = "open" /\ state[s] = "authenticated"
    /\ slow' = IF s \in slow THEN slow \ {s} ELSE slow \cup {s}
    /\ UNCHANGED <<sock, state, peers, linkVars, revoked, closed, holds>>

----------------------------------------------------------------------------
(* Links. *)

(* Mutant: only the client's link to the same host is replaced. *)
SameRoute(c, h) == {l \in Live : ClientOf(l) = c /\ HostOf(l) = h}

(* The links a request replaces: the client's, and all of a legacy host. *)
Replaced(c, h) ==
    {l \in Live : ClientOf(l) = c \/ (HostOf(l) = h /\ h \notin Modern)}

(* connect.request.  Dropping the replaced links may disconnect the host   *)
(* or the client: the new link is made all the same, with the host it      *)
(* looked up before.                                                       *)
ConnectRequest(s, h, n) ==
    LET c     == DevOf[s]
        old   == Replaced(c, h)
        first == Lost(Live, {}, old)
        full  == Cardinality(Live \ Severed(Live, first, old)) >= MaxLinks
        chokes == h \notin first /\ Chokes(h)
        R == IF full THEN {c}
             ELSE IF chokes THEN {h} \cup (IF Chokes(c) THEN {c} ELSE {}) ELSE {}
        X == Lost(Live, R, old)
        S == Severed(Live, X, old)
        told == ~full /\ h \notin X /\ sock[peers[h]] = "open" IN
    /\ Speaks(s) /\ c \notin Host
    /\ h \in Host \cap Registered
    /\ stage[n] = "new"
    /\ peers' = Unregistered(X)
    /\ sock' = Closing(X)
    /\ state' = IF full THEN [state EXCEPT ![s] = "closing"] ELSE state
    /\ stage' = [Without(S) EXCEPT ![n] = IF full THEN @ ELSE IF chokes THEN "gone" ELSE "pending"]
    /\ made' = IF full THEN made ELSE [made EXCEPT ![n] = [host |-> peers[h], client |-> s]]
    /\ holds' = IF told THEN [ToldEnd(X, S) EXCEPT ![peers[h]] = @ \cup {n}] ELSE ToldEnd(X, S)
    /\ UNCHANGED <<slow, revoked, closed>>

(* Mutant: the other end is not looked up first. *)
PassOn(l, d, to) ==
    IF Chokes(d) THEN Cut({d}, {})
    ELSE stage' = [stage EXCEPT ![l] = to] /\ UNCHANGED <<holds, peers, sock>>

(* A frame about l for its end d is passed on, with l moved to stage to:   *)
(* with nobody registered the link is dropped.                             *)
Forward(l, d, to) ==
    IF d \notin Registered THEN Cut({}, {l})
    ELSE IF Chokes(d) THEN Cut({d}, {})
    ELSE /\ stage' = [stage EXCEPT ![l] = to]
         /\ holds' = [holds EXCEPT ![peers[d]] = IF sock[peers[d]] = "open" THEN @ \cup {l} ELSE @]
         /\ UNCHANGED <<peers, sock>>

FrameFrom(l, d) == l \in Live /\ d \in Registered /\ Speaks(peers[d])

LinkFrame == UNCHANGED <<state, slow, made, revoked, closed>>

ConnectAccepted(l) ==
    /\ FrameFrom(l, HostOf(l))
    /\ stage[l] = "pending"
    /\ Forward(l, ClientOf(l), "accepted")
    /\ LinkFrame

ConnectRejected(l) ==
    /\ FrameFrom(l, HostOf(l))
    /\ stage[l] = "pending"
    /\ IF ClientOf(l) \notin Registered THEN Cut({}, {l})
       ELSE LET K == Live \ {l}
                X == Lost(K, IF Chokes(ClientOf(l)) THEN {ClientOf(l)} ELSE {}, {}) IN
            Apply(X, Severed(K, X, {}) \cup {l})
    /\ LinkFrame

(* secure.handshake, step 1 from the client and step 2 from the host. *)
FirstHandshake(l) ==
    /\ FrameFrom(l, ClientOf(l))
    /\ stage[l] = "accepted"
    /\ Forward(l, HostOf(l), "handshake")
    /\ LinkFrame

SecondHandshake(l) ==
    /\ FrameFrom(l, HostOf(l))
    /\ stage[l] = "handshake"
    /\ Forward(l, ClientOf(l), "ready")
    /\ LinkFrame

(* transport.selected to a modern host; relay, with its counter increased, *)
(* to the other end.                                                       *)
Relay(l) ==
    /\ \/ /\ FrameFrom(l, ClientOf(l)) /\ stage[l] \in Established
          /\ stage[l] = "ready" \/ HostOf(l) \in Modern
          /\ Forward(l, HostOf(l), stage[l])
       \/ /\ FrameFrom(l, HostOf(l)) /\ stage[l] = "ready"
          /\ Forward(l, ClientOf(l), stage[l])
    /\ LinkFrame

(* A frame about a link of its sender is refused: the link is dropped. *)
FrameRefused(l) ==
    /\ l \in Live
    /\ \E d \in Ends(l) : FrameFrom(l, d) /\ peers[d] \in MayFail
    /\ Cut({}, {l})
    /\ LinkFrame

(* The Server answers a frame: pong, HOST_OFFLINE, an error about a        *)
(* connection that is not the sender's.                                    *)
Answer(s) == Speaks(s) /\ Send(DevOf[s]) /\ LinkFrame

----------------------------------------------------------------------------
(* The Server. *)

(* Mutant: only requests nobody answered are swept. *)
Unanswered == {l \in Live : stage[l] = "pending"}

Unready == {l \in Live : stage[l] # "ready"}

(* Peers whose last pong may be too old. *)
Silent == {d \in Registered : peers[d] \in MayFail}

(* The heartbeat: peers that were silent for too long are disconnected,    *)
(* the others are sent a ping; links not ready after 30 seconds are        *)
(* dropped.                                                                *)
Heartbeat(late, old) ==
    /\ ~closed
    /\ Cut(late \cup {d \in Device : Chokes(d)}, old)
    /\ LinkFrame

(* Store.invalidate: the device is revoked, registered anew or reuses a    *)
(* refresh token.                                                          *)
Invalidate(d) ==
    /\ d \in MayRevoke
    /\ revoked' \in {revoked, revoked \cup {d}}
    /\ Cut({d}, {})
    /\ UNCHANGED <<state, slow, made, closed>>

(* Every socket is closed before the first close event. *)
ClosesSockets ==
    /\ sock' = [s \in Sock |-> IF sock[s] = "open" THEN "closing" ELSE sock[s]]
    /\ UNCHANGED <<peers, stage, holds>>

Shutdown ==
    /\ ~closed
    /\ closed' = TRUE
    /\ ClosesSockets
    /\ UNCHANGED <<state, slow, made, revoked>>

----------------------------------------------------------------------------
SocketEvent(s) ==
    Upgrade(s) \/ Hello(s) \/ HelloTimeout(s) \/ BadFrame(s) \/ PeerCloses(s)
    \/ SocketCloses(s) \/ Stalls(s) \/ Answer(s)

LinkEvent(l) ==
    ConnectAccepted(l) \/ ConnectRejected(l) \/ FirstHandshake(l) \/ SecondHandshake(l)
    \/ Relay(l) \/ FrameRefused(l)

Next ==
    \/ \E s \in Sock : SocketEvent(s)
    \/ \E s \in Sock, h \in Host, n \in Link : ConnectRequest(s, h, n)
    \/ \E l \in Link : LinkEvent(l)
    \/ \E late \in SUBSET Silent, old \in SUBSET Unready : Heartbeat(late, old)
    \/ \E d \in Device : Invalidate(d)
    \/ Shutdown

Spec == Init /\ [][Next]_vars

(* The heartbeat goes on, and finds every link that stays unready older    *)
(* than 30 seconds.                                                        *)
Sweeps(l) ==
    /\ l \in Unready
    /\ \E late \in SUBSET Silent, old \in SUBSET Unready : l \in old /\ Heartbeat(late, old)

FairSpec == Spec /\ \A l \in Link : WF_vars(Sweeps(l))

----------------------------------------------------------------------------
(* Properties. *)

(* A link that was accepted joins the two sockets it was made for, both    *)
(* registered: a device that reconnects, is revoked, fails or reads too    *)
(* slowly never finds its next socket on an old link.                      *)
EstablishedIsBound ==
    \A l \in Link : stage[l] \in Established =>
        peers[HostOf(l)] = made[l].host /\ peers[ClientOf(l)] = made[l].client

(* An open socket that said hello is the registered one of its device: no  *)
(* handler leaves a socket open that no device can be reached on.          *)
AuthenticatedIsRegistered ==
    \A s \in Sock : sock[s] = "open" /\ state[s] = "authenticated" => peers[DevOf[s]] = s

(* The tables, the links and the sockets agree, through every disconnect   *)
(* in the middle of a handler.                                             *)
TablesAgree == EstablishedIsBound /\ AuthenticatedIsRegistered

(* The comment on ConnectionState and the guards of the message and close  *)
(* handlers: whatever still arrives on a device's older sockets, a healthy *)
(* registered socket is only displaced by a newer hello, or disconnected   *)
(* for what it did or for a revocation.                                    *)
HealthyKeepsPlace ==
    [][\A d \in Device :
          LET s == peers[d] IN
          s # None /\ s \notin MayFail /\ s \notin slow /\ d \notin MayRevoke /\ sock[s] = "open"
            /\ peers'[d] # s
          => \/ state'[s] = "closing"
             \/ peers'[d] # None /\ state[peers'[d]] = "awaiting_hello"]_vars

(* Nobody keeps a connection the Server forgot: an open socket of a client *)
(* or a modern host that was told of a link is told of its end.            *)
EndIsTold ==
    \A s \in Sock : sock[s] = "open" /\ Notified(DevOf[s]) => holds[s] \subseteq Live

(* A client has at most one link, and so has a host that cannot tell the   *)
(* failure of one connection from its own.                                 *)
OneLinkEach ==
    \A k, l \in Live : k # l =>
        /\ ClientOf(k) # ClientOf(l)
        /\ HostOf(k) = HostOf(l) => HostOf(k) \in Modern

(* The comment in close(): a shutdown is not the failure of a connection,  *)
(* so no peer is told that its links ended.                                *)
ShutdownTellsNobody ==
    [][closed' => \A s \in Sock : holds[s] \subseteq holds'[s]]_vars

(* No link stays under negotiation for ever, even one whose client or host *)
(* was disconnected while it was made.                                     *)
NegotiationEnds ==
    \A l \in Link : stage[l] \in Negotiating ~> (stage[l] \notin Negotiating \/ closed)

=============================================================================
