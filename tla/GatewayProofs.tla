--------------------------- MODULE GatewayProofs ---------------------------
(* Proofs about Gateway, for every set of devices, sockets and links, and  *)
(* every limit.                                                            *)
EXTENDS Gateway, TLAPS

SockStates == {"new", "open", "closing", "closed"}
HandlerStates == {"awaiting_hello", "authenticated", "closing", "closed"}
Stages == Negotiating \cup {"new", "ready", "gone"}

(* A live link was made for sockets that are still registered, or whose    *)
(* device is not registered at all: a hello drops the links of its device. *)
Linked ==
    \A l \in Live :
        /\ made[l] \in [host : Sock, client : Sock]
        /\ peers[HostOf(l)] \in {made[l].host, None}
        /\ peers[ClientOf(l)] \in {made[l].client, None}
        /\ stage[l] # "pending" =>
              peers[HostOf(l)] = made[l].host /\ peers[ClientOf(l)] = made[l].client

(* What an open socket is, and what it was told.  Nothing was told to one  *)
(* that did not say hello; none is open after the shutdown.                *)
SockInv(s) ==
    /\ sock[s] = "new" => state[s] = "awaiting_hello" /\ holds[s] = {}
    /\ sock[s] = "open" =>
          /\ ~closed
          /\ \/ state[s] = "awaiting_hello" /\ holds[s] = {}
             \/ state[s] = "authenticated" /\ peers[DevOf[s]] = s
          /\ Notified(DevOf[s]) => holds[s] \subseteq Live

(* A registered socket said hello. *)
Greeted == \A d \in Registered : state[peers[d]] # "awaiting_hello"

GatewayInv == TypeOK /\ Linked /\ OneLinkEach /\ Greeted /\ \A s \in Sock : SockInv(s)

----------------------------------------------------------------------------
(* Disconnecting and dropping. *)

(* What is lost was asked to be, or choked on the news. *)
LEMMA LostChoked ==
    ASSUME NEW K, NEW R \in SUBSET Device, NEW L
    PROVE  /\ Lost(K, R, L) \in SUBSET Device
           /\ R \subseteq Lost(K, R, L)
           /\ \A d \in Lost(K, R, L) \ R : Chokes(d)
  BY DEF Lost, Registered

(* The links left have no end among the devices disconnected. *)
Parts(X, S) ==
    /\ X \in SUBSET Device
    /\ S \in SUBSET Live
    /\ \A l \in Live \ S : HostOf(l) \notin X /\ ClientOf(l) \notin X

LEMMA SeveredParts ==
    ASSUME NEW X \in SUBSET Device, NEW L
    PROVE  Parts(X, Severed(Live, X, L)) /\ L \cap Live \subseteq Severed(Live, X, L)
  BY DEF Parts, Severed, Ends

(* The tables after the devices X are disconnected and the links S gone;   *)
(* one of X may have said hello again.                                     *)
TablesCut(X, S) ==
    /\ peers' \in [Device -> Sock \cup {None}]
    /\ \A d \in Device \ X : peers'[d] = peers[d]
    /\ \A d \in X : \/ peers'[d] = None
                    \/ DevOf[peers'[d]] = d /\ state'[peers'[d]] = "authenticated"
    /\ stage' = Without(S)
    /\ holds' = ToldEnd(X, S)

LEMMA CutParts ==
    ASSUME TypeOK, NEW R \in SUBSET Device, NEW L, Cut(R, L)
    PROVE  \E X, S : /\ Parts(X, S) /\ R \subseteq X /\ TablesCut(X, S) /\ sock' = Closing(X)
                     /\ \A d \in X \ R : Chokes(d)
<1> DEFINE X == Lost(Live, R, L)
           S == Severed(Live, X, L)
<1>1. X \in SUBSET Device /\ R \subseteq X /\ \A d \in X \ R : Chokes(d)
  BY LostChoked
<1>2. Parts(X, S)
  BY <1>1, SeveredParts
<1>3. TablesCut(X, S) /\ sock' = Closing(X)
  BY <1>1 DEF TypeOK, Cut, Apply, TablesCut, Unregistered
<1> QED BY <1>1, <1>2, <1>3

(* The link part of the invariant: links only end, and peers only go. *)
LEMMA CutLinks ==
    ASSUME GatewayInv, NEW X, NEW S, Parts(X, S), TablesCut(X, S), made' = made
    PROVE  /\ Live' = Live \ S
           /\ Linked' /\ OneLinkEach'
           /\ stage' \in [Link -> Stages]
           /\ holds' \in [Sock -> SUBSET Link]
           /\ \A d \in Registered' : DevOf[peers'[d]] = d
<1>1. Live' = Live \ S /\ \A l \in Live' : stage'[l] = stage[l]
  BY DEF GatewayInv, TypeOK, TablesCut, Without, Live, Negotiating, Parts
<1>2. \A l \in Live : HostOf(l) \in Device /\ ClientOf(l) \in Device
  BY GatewayAssumption DEF GatewayInv, Linked, HostOf, ClientOf
<1>3. \A l \in Live' : HostOf(l)' = HostOf(l) /\ ClientOf(l)' = ClientOf(l)
  BY DEF HostOf, ClientOf
<1>4. Linked'
  BY <1>1, <1>2, <1>3 DEF GatewayInv, Linked, Parts, TablesCut
<1>5. OneLinkEach'
  BY <1>1, <1>3 DEF GatewayInv, OneLinkEach
<1>6. stage' \in [Link -> Stages] /\ holds' \in [Sock -> SUBSET Link]
  BY DEF GatewayInv, TypeOK, TablesCut, Without, Stages, ToldEnd
<1>7. \A d \in Registered' : DevOf[peers'[d]] = d
  BY DEF Registered, GatewayInv, TypeOK, TablesCut
<1> QED BY <1>1, <1>4, <1>5, <1>6, <1>7

(* The socket part: sockets of the devices X close, the others stay.       *)
LEMMA CutSocks ==
    ASSUME GatewayInv, NEW X, NEW S, Parts(X, S), TablesCut(X, S), made' = made,
           NEW s \in Sock, closed' = closed,
           sock'[s] \in {"new", "open"} => sock'[s] = Closing(X)[s] /\ state'[s] = state[s]
    PROVE  SockInv(s)'
<1>1. Live' = Live \ S
  BY CutLinks
<1>2. CASE sock'[s] = "new"
  <2>1. sock[s] = "new"
    BY <1>2 DEF Closing
  <2>2. holds'[s] = holds[s]
    BY <2>1 DEF TablesCut, ToldEnd
  <2> QED BY <1>2, <2>1, <2>2 DEF SockInv, GatewayInv
<1>3. CASE sock'[s] = "open"
  <2>1. sock[s] = "open" /\ \A d \in X : peers[d] # s
    BY <1>3 DEF Closing
  <2>2. CASE state[s] = "awaiting_hello" /\ holds[s] = {}
    <3>1. holds'[s] = {}
      BY <2>2 DEF TablesCut, ToldEnd
    <3> QED BY <1>3, <2>1, <2>2, <3>1 DEF SockInv, GatewayInv
  <2>3. CASE state[s] = "authenticated" /\ peers[DevOf[s]] = s
    <3>1. DevOf[s] \in Device \ X
      BY <2>1, <2>3, GatewayAssumption
    <3>2. peers'[DevOf[s]] = s
      BY <2>3, <3>1 DEF TablesCut
    <3>3. Notified(DevOf[s]) => holds'[s] = holds[s] \ S
      BY <2>1, <2>3, <3>1 DEF TablesCut, ToldEnd
    <3> QED BY <1>1, <1>3, <2>1, <2>3, <3>2, <3>3 DEF SockInv, GatewayInv, Notified
  <2> QED BY <2>1, <2>2, <2>3 DEF GatewayInv, SockInv
<1> QED BY <1>2, <1>3 DEF SockInv

(* What a step has to show: the invariant, and the two action properties.  *)
Excused(d) ==
    LET s == peers[d] IN
    \/ s = None \/ s \in MayFail \/ s \in slow \/ d \in MayRevoke \/ sock[s] # "open"
    \/ peers'[d] = s \/ state'[s] = "closing"
    \/ peers'[d] # None /\ state[peers'[d]] = "awaiting_hello"

Tells == closed' => \A s \in Sock : holds[s] \subseteq holds'[s]

Kept == GatewayInv' /\ (\A d \in Device : Excused(d)) /\ Tells

LEMMA CutKeeps ==
    ASSUME GatewayInv, NEW X, NEW S, Parts(X, S), TablesCut(X, S), made' = made, closed' = closed,
           sock' \in [Sock -> SockStates], state' \in [Sock -> HandlerStates],
           slow' \in SUBSET Sock, revoked' \in SUBSET Device,
           \A d \in X : Excused(d),
           \A s \in Sock :
               /\ state'[s] = "awaiting_hello" => state[s] = "awaiting_hello"
               /\ sock'[s] \in {"new", "open"} =>
                      (sock'[s] = Closing(X)[s] /\ state'[s] = state[s]) \/ SockInv(s)'
    PROVE  Kept
<1>1. \A s \in Sock : SockInv(s)'
  <2> TAKE s \in Sock
  <2>1. CASE sock'[s] \notin {"new", "open"}
    BY <2>1 DEF SockInv
  <2>2. CASE sock'[s] \in {"new", "open"}
    BY <2>2, CutSocks
  <2> QED BY <2>1, <2>2
<1>2. /\ Linked' /\ OneLinkEach'
      /\ stage' \in [Link -> Stages]
      /\ holds' \in [Sock -> SUBSET Link]
      /\ \A d \in Registered' : DevOf[peers'[d]] = d
  BY CutLinks
<1>3. \A l \in Live' : made'[l] \in [host : Sock, client : Sock]
  BY CutLinks DEF GatewayInv, TypeOK
<1>4. TypeOK'
  BY <1>2, <1>3 DEF GatewayInv, TypeOK, SockStates, HandlerStates, Stages, TablesCut
<1>5. Greeted'
  BY DEF Greeted, Registered, GatewayInv, TypeOK, TablesCut
<1>6. \A d \in Device : Excused(d)
  BY DEF Excused, TablesCut
<1>7. Tells
  BY DEF Tells, GatewayInv, SockInv, TablesCut, ToldEnd
<1> QED BY <1>1, <1>2, <1>4, <1>5, <1>6, <1>7 DEF GatewayInv, Kept

(* The tables stay and no socket but a closing one changes. *)
LEMMA TablesKeep ==
    ASSUME GatewayInv, UNCHANGED <<peers, stage, made, holds, revoked>>,
           sock' \in [Sock -> SockStates], state' \in [Sock -> HandlerStates],
           slow' \in SUBSET Sock, closed' \in BOOLEAN,
           \A s \in Sock :
               /\ state'[s] = "awaiting_hello" => state[s] = "awaiting_hello"
               /\ sock'[s] = "new" => sock[s] = "new" /\ state'[s] = state[s]
               /\ sock'[s] = "open" => /\ sock[s] \in {"new", "open"} /\ ~closed'
                                       /\ state'[s] = state[s]
    PROVE  Kept
<1>1. Live' = Live /\ Registered' = Registered
  BY DEF Live, Registered
<1>2. TypeOK'
  BY <1>1 DEF GatewayInv, TypeOK, SockStates, HandlerStates
<1>3. Linked' /\ OneLinkEach' /\ Greeted'
  BY <1>1 DEF GatewayInv, TypeOK, Linked, OneLinkEach, HostOf, ClientOf, Greeted, Registered
<1>4. \A s \in Sock : SockInv(s)'
  BY <1>1 DEF GatewayInv, SockInv, Notified
<1> QED BY <1>2, <1>3, <1>4 DEF GatewayInv, Kept, Excused, Tells

----------------------------------------------------------------------------
(* Steps that only disconnect and drop. *)

LEMMA CutLinkFrame ==
    ASSUME GatewayInv, NEW R \in SUBSET Device, NEW L, Cut(R, L),
           UNCHANGED <<state, slow, made, closed>>, revoked' \in SUBSET Device,
           \A d \in R : Excused(d)
    PROVE  Kept
<1>1. PICK X, S : /\ Parts(X, S) /\ R \subseteq X /\ TablesCut(X, S) /\ sock' = Closing(X)
                  /\ \A d \in X \ R : Chokes(d)
  BY CutParts DEF GatewayInv
<1>2. \A d \in X : Excused(d)
  BY <1>1 DEF Excused, Chokes
<1>3. sock' \in [Sock -> SockStates]
  BY <1>1 DEF GatewayInv, TypeOK, SockStates, Closing
<1>4. state' \in [Sock -> HandlerStates] /\ slow' \in SUBSET Sock
  BY DEF GatewayInv, TypeOK, HandlerStates
<1> QED BY <1>1, <1>2, <1>3, <1>4, CutKeeps

LEMMA ChokingExcused == ASSUME NEW d, Chokes(d) PROVE Excused(d)
  BY DEF Chokes, Excused

LEMMA AnswerKeeps == ASSUME GatewayInv, NEW s \in Sock, Answer(s) PROVE Kept
<1>1. CASE Chokes(DevOf[s])
  <2>1. Cut({DevOf[s]}, {}) /\ DevOf[s] \in Device
    BY <1>1, GatewayAssumption DEF Answer, Send
  <2> QED BY <1>1, <2>1, CutLinkFrame, ChokingExcused DEF Answer, LinkFrame, GatewayInv, TypeOK
<1>2. CASE ~Chokes(DevOf[s])
  BY <1>2, TablesKeep DEF Answer, Send, LinkFrame, GatewayInv, TypeOK, SockInv, SockStates, HandlerStates
<1> QED BY <1>1, <1>2

LEMMA RefusedKeeps == ASSUME GatewayInv, NEW l \in Link, FrameRefused(l) PROVE Kept
  BY CutLinkFrame DEF FrameRefused, LinkFrame, GatewayInv, TypeOK

LEMMA HeartbeatKeeps ==
    ASSUME GatewayInv, NEW late \in SUBSET Silent, NEW old, Heartbeat(late, old) PROVE Kept
<1> DEFINE R == late \cup {d \in Device : Chokes(d)}
<1>1. R \in SUBSET Device /\ Cut(R, old)
  BY DEF Silent, Registered, Heartbeat
<1>2. \A d \in R : Excused(d)
  BY ChokingExcused DEF Silent, Excused
<1> QED BY <1>1, <1>2, CutLinkFrame DEF Heartbeat, LinkFrame, GatewayInv, TypeOK

LEMMA InvalidateKeeps == ASSUME GatewayInv, NEW d \in Device, Invalidate(d) PROVE Kept
<1>1. Excused(d) /\ revoked' \in SUBSET Device
  BY DEF Invalidate, Excused, GatewayInv, TypeOK
<1> QED BY <1>1, CutLinkFrame DEF Invalidate

----------------------------------------------------------------------------
(* Sockets. *)

LEMMA QuietSocketKeeps ==
    ASSUME GatewayInv, NEW s \in Sock,
           Upgrade(s) \/ HelloTimeout(s) \/ PeerCloses(s) \/ Stalls(s) \/ Shutdown
    PROVE  Kept
<1>1. CASE Upgrade(s)
  BY <1>1, TablesKeep DEF Upgrade, linkVars, GatewayInv, TypeOK, SockStates, HandlerStates, SockInv
<1>2. CASE HelloTimeout(s)
  BY <1>2, TablesKeep DEF HelloTimeout, linkVars, GatewayInv, TypeOK, SockStates, HandlerStates, SockInv
<1>3. CASE PeerCloses(s)
  BY <1>3, TablesKeep DEF PeerCloses, linkVars, GatewayInv, TypeOK, SockStates, HandlerStates, SockInv
<1>4. CASE Stalls(s)
  BY <1>4, TablesKeep DEF Stalls, linkVars, GatewayInv, TypeOK, SockStates, HandlerStates, SockInv
<1>5. CASE Shutdown
  BY <1>5, TablesKeep DEF Shutdown, ClosesSockets, GatewayInv, TypeOK, SockStates, HandlerStates, SockInv
<1> QED BY <1>1, <1>2, <1>3, <1>4, <1>5

LEMMA BadFrameKeeps == ASSUME GatewayInv, NEW s \in Sock, BadFrame(s) PROVE Kept
<1>1. CASE state[s] # "authenticated"
  BY <1>1, TablesKeep DEF BadFrame, Reads, GatewayInv, TypeOK, SockStates, HandlerStates, SockInv
<1>2. CASE state[s] = "authenticated"
  <2>1. sock[s] = "open" /\ peers[DevOf[s]] = s /\ DevOf[s] \in Device
    BY <1>2, GatewayAssumption DEF BadFrame, Reads, GatewayInv, SockInv
  <2>2. PICK X, S : /\ Parts(X, S) /\ {DevOf[s]} \subseteq X /\ TablesCut(X, S)
                    /\ sock' = Closing(X) /\ \A d \in X \ {DevOf[s]} : Chokes(d)
    <3>1. Cut({DevOf[s]}, {})
      BY <1>2 DEF BadFrame
    <3> QED BY <2>1, <3>1, CutParts DEF GatewayInv
  <2>3. state' \in [Sock -> HandlerStates] /\ state'[s] = "closing"
        /\ \A t \in Sock \ {s} : state'[t] = state[t]
    BY DEF BadFrame, GatewayInv, TypeOK, HandlerStates
  <2>4. \A d \in X : Excused(d)
    BY <2>1, <2>2, <2>3, ChokingExcused DEF Excused
  <2>5. sock' \in [Sock -> SockStates] /\ sock'[s] = "closing"
    BY <2>1, <2>2 DEF GatewayInv, TypeOK, SockStates, Closing
  <2>6. slow' \in SUBSET Sock /\ revoked' \in SUBSET Device /\ made' = made /\ closed' = closed
    BY DEF BadFrame, GatewayInv, TypeOK
  <2> QED BY <2>2, <2>3, <2>4, <2>5, <2>6, CutKeeps
<1> QED BY <1>1, <1>2

LEMMA SocketClosesKeeps == ASSUME GatewayInv, NEW s \in Sock, SocketCloses(s) PROVE Kept
<1> DEFINE R == IF Current(s) THEN {DevOf[s]} ELSE {}
           X == Lost(Live, R, {})
           S == Severed(Live, X, {})
<1>1. R \in SUBSET Device
  BY GatewayAssumption
<1>2. /\ X \in SUBSET Device /\ R \subseteq X /\ \A d \in X \ R : Chokes(d)
      /\ Parts(X, S)
  BY <1>1, LostChoked, SeveredParts
<1>3. /\ peers' = Unregistered(X) /\ sock' = [Closing(X) EXCEPT ![s] = "closed"]
      /\ stage' = Without(S) /\ holds' = ToldEnd(X, S)
  BY DEF SocketCloses
<1> HIDE DEF X, S
<1>4. TablesCut(X, S)
  BY <1>2, <1>3 DEF TablesCut, Unregistered, GatewayInv, TypeOK
<1>5. /\ state' \in [Sock -> HandlerStates] /\ state'[s] = "closed"
      /\ \A t \in Sock \ {s} : state'[t] = state[t]
  BY DEF SocketCloses, GatewayInv, TypeOK, HandlerStates
<1>6. \A d \in X : Excused(d)
  <2>1. \A d \in R : Excused(d)
    BY DEF Current, SocketCloses, Excused
  <2> QED BY <1>2, <2>1, ChokingExcused
<1>7. /\ sock' \in [Sock -> SockStates] /\ sock'[s] = "closed"
      /\ \A t \in Sock \ {s} : sock'[t] = Closing(X)[t]
  BY <1>3 DEF GatewayInv, TypeOK, SockStates, Closing
<1>8. slow' \in SUBSET Sock /\ revoked' \in SUBSET Device /\ made' = made /\ closed' = closed
  BY DEF SocketCloses, GatewayInv, TypeOK
<1>9. \A t \in Sock :
         /\ state'[t] = "awaiting_hello" => state[t] = "awaiting_hello"
         /\ sock'[t] \in {"new", "open"} => sock'[t] = Closing(X)[t] /\ state'[t] = state[t]
  BY <1>5, <1>7
<1> HIDE DEF R
<1> QED BY <1>2, <1>4, <1>5, <1>6, <1>7, <1>8, <1>9, CutKeeps

LEMMA HelloKeeps == ASSUME GatewayInv, NEW s \in Sock, Hello(s) PROVE Kept
<1> DEFINE d == DevOf[s]
           X == Lost(Live, {d}, {})
           S == Severed(Live, X, {})
<1>1. d \in Device /\ s # None
  BY GatewayAssumption
<1>2. /\ X \in SUBSET Device /\ d \in X /\ \A e \in X \ {d} : Chokes(e)
      /\ Parts(X, S)
  <2>1. {d} \in SUBSET Device
    BY <1>1
  <2>2. X \in SUBSET Device /\ {d} \subseteq X /\ \A e \in X \ {d} : Chokes(e)
    BY <2>1, LostChoked
  <2>3. Parts(X, S)
    BY <2>2, SeveredParts
  <2> QED BY <2>2, <2>3
<1>3. /\ peers' = [Unregistered(X) EXCEPT ![d] = s] /\ sock' = Closing(X)
      /\ stage' = Without(S) /\ holds' = ToldEnd(X, S)
  BY DEF Hello, Authenticated, Replace
<1>4. /\ state' \in [Sock -> HandlerStates] /\ \A t \in Sock \ {s} : state'[t] = state[t]
      /\ state'[s] = "authenticated" /\ state[s] = "awaiting_hello" /\ sock[s] = "open"
  BY DEF Hello, Reads, GatewayInv, TypeOK, HandlerStates
<1> HIDE DEF X, S
<1>5. /\ peers' \in [Device -> Sock \cup {None}] /\ peers'[d] = s
      /\ \A e \in Device \ {d} : peers'[e] = IF e \in X THEN None ELSE peers[e]
  BY <1>1, <1>2, <1>3 DEF Unregistered, GatewayInv, TypeOK
<1>6. TablesCut(X, S)
  BY <1>1, <1>2, <1>3, <1>4, <1>5 DEF TablesCut
<1>7. \A e \in X : Excused(e)
  BY <1>2, <1>4, <1>5, <1>1, ChokingExcused DEF Excused
<1>8. sock' \in [Sock -> SockStates]
  BY <1>3 DEF GatewayInv, TypeOK, SockStates, Closing
<1>9. slow' \in SUBSET Sock /\ revoked' \in SUBSET Device /\ made' = made /\ closed' = closed
  BY DEF Hello, GatewayInv, TypeOK
<1>10. SockInv(s)'
  <2>1. holds'[s] = {}
    BY <1>3, <1>4 DEF ToldEnd, GatewayInv, SockInv
  <2>2. sock'[s] # "new" /\ ~closed
    BY <1>3, <1>4 DEF Closing, GatewayInv, SockInv
  <2> QED BY <1>4, <1>5, <1>9, <2>1, <2>2 DEF SockInv
<1> QED BY <1>2, <1>3, <1>4, <1>6, <1>7, <1>8, <1>9, <1>10, CutKeeps

----------------------------------------------------------------------------
(* Links. *)

(* A frame passed on changes the stage of a link whose ends are both       *)
(* registered, and its receiver learns of the link.                        *)
LEMMA PassKeeps ==
    ASSUME GatewayInv, NEW l \in Link, l \in Live, HostOf(l) \in Registered, ClientOf(l) \in Registered,
           NEW d \in Ends(l), NEW to \in Established,
           stage' = [stage EXCEPT ![l] = to],
           holds' = [holds EXCEPT ![peers[d]] = IF sock[peers[d]] = "open" THEN @ \cup {l} ELSE @],
           UNCHANGED <<peers, sock, state, slow, made, revoked, closed>>
    PROVE  Kept
<1>1. Live' = Live /\ Registered' = Registered
  BY DEF Live, Registered, Established, Negotiating, GatewayInv, TypeOK
<1>2. d \in Registered /\ peers[d] \in Sock
  BY DEF Ends, GatewayInv, TypeOK, Registered
<1>3. TypeOK'
  <2>1. stage' \in [Link -> Negotiating \cup {"new", "ready", "gone"}]
    BY DEF GatewayInv, TypeOK, Established, Negotiating
  <2>2. holds' \in [Sock -> SUBSET Link]
    BY DEF GatewayInv, TypeOK
  <2> QED BY <1>1, <2>1, <2>2 DEF GatewayInv, TypeOK
<1>4. Linked'
  BY <1>1 DEF GatewayInv, TypeOK, Linked, HostOf, ClientOf, Registered
<1>5. OneLinkEach' /\ Greeted'
  BY <1>1 DEF GatewayInv, OneLinkEach, HostOf, ClientOf, Greeted
<1>6. ASSUME NEW s \in Sock PROVE SockInv(s)' /\ holds[s] \subseteq holds'[s]
  <2>1. CASE s # peers[d]
    BY <1>1, <2>1 DEF GatewayInv, TypeOK, SockInv, Notified
  <2>2. CASE s = peers[d]
    <3>1. holds'[s] = IF sock[s] = "open" THEN holds[s] \cup {l} ELSE holds[s]
      BY <1>2, <2>2 DEF GatewayInv, TypeOK
    <3>2. state[s] # "awaiting_hello"
      BY <1>2, <2>2 DEF GatewayInv, Greeted
    <3> QED BY <1>1, <3>1, <3>2 DEF GatewayInv, SockInv, Notified
  <2> QED BY <2>1, <2>2
<1> QED BY <1>3, <1>4, <1>5, <1>6 DEF GatewayInv, Kept, Excused, Tells

LEMMA ForwardKeeps ==
    ASSUME GatewayInv, NEW l \in Link, NEW d \in Ends(l), NEW e, Ends(l) = {d, e},
           FrameFrom(l, e), NEW to \in Established, Forward(l, d, to), LinkFrame
    PROVE  Kept
<1>1. l \in Live /\ e \in Registered
  BY DEF FrameFrom
<1>2. d \in Device
  BY <1>1, GatewayAssumption DEF GatewayInv, Linked, Ends, HostOf, ClientOf
<1>3. CASE d \notin Registered
  BY <1>3, CutLinkFrame DEF Forward, LinkFrame, GatewayInv, TypeOK
<1>4. CASE d \in Registered /\ Chokes(d)
  BY <1>2, <1>4, CutLinkFrame, ChokingExcused DEF Forward, LinkFrame, GatewayInv, TypeOK
<1>5. CASE d \in Registered /\ ~Chokes(d)
  <2>1. HostOf(l) \in Registered /\ ClientOf(l) \in Registered
    BY <1>1, <1>5 DEF Ends
  <2> QED BY <1>1, <1>5, <2>1, PassKeeps DEF Forward, LinkFrame
<1> QED BY <1>3, <1>4, <1>5

LEMMA RejectedKeeps == ASSUME GatewayInv, NEW l \in Link, ConnectRejected(l) PROVE Kept
<1> DEFINE c == ClientOf(l)
           K == Live \ {l}
           R == IF Chokes(c) THEN {c} ELSE {}
           X == Lost(K, R, {})
           S == Severed(K, X, {}) \cup {l}
<1>1. c \in Device /\ l \in Live
  BY GatewayAssumption DEF ConnectRejected, FrameFrom, GatewayInv, Linked, ClientOf
<1>2. CASE c \notin Registered
  BY <1>2, CutLinkFrame DEF ConnectRejected, LinkFrame, GatewayInv, TypeOK
<1>3. CASE c \in Registered
  <2>1. R \in SUBSET Device
    BY <1>1
  <2>2. X \in SUBSET Device /\ \A d \in X : Chokes(d)
    BY <2>1, LostChoked
  <2>3. Parts(X, S)
    BY <1>1, <2>2 DEF Parts, Severed, Ends
  <2>4. Apply(X, S)
    BY <1>3 DEF ConnectRejected
  <2> HIDE DEF X, S
  <2>5. TablesCut(X, S) /\ sock' = Closing(X)
    BY <2>2, <2>4 DEF Apply, TablesCut, Unregistered, GatewayInv, TypeOK
  <2>6. sock' \in [Sock -> SockStates]
    BY <2>5 DEF GatewayInv, TypeOK, SockStates, Closing
  <2>7. \A d \in X : Excused(d)
    BY <2>2, ChokingExcused
  <2>8. /\ UNCHANGED <<state, made, closed>> /\ state' \in [Sock -> HandlerStates]
        /\ slow' \in SUBSET Sock /\ revoked' \in SUBSET Device
    BY DEF ConnectRejected, LinkFrame, GatewayInv, TypeOK, HandlerStates
  <2> QED BY <2>3, <2>5, <2>6, <2>7, <2>8, CutKeeps
<1> QED BY <1>2, <1>3

LEMMA LinkEventKeeps == ASSUME GatewayInv, NEW l \in Link, LinkEvent(l) PROVE Kept
<1>1. Ends(l) = {HostOf(l), ClientOf(l)} /\ Ends(l) = {ClientOf(l), HostOf(l)}
  BY DEF Ends
<1>2. {"accepted", "handshake", "ready"} = Established
  BY DEF Established
<1>3. CASE ConnectAccepted(l)
  BY <1>1, <1>2, <1>3, ForwardKeeps DEF ConnectAccepted
<1>4. CASE ConnectRejected(l)
  BY <1>4, RejectedKeeps
<1>5. CASE FirstHandshake(l)
  BY <1>1, <1>2, <1>5, ForwardKeeps DEF FirstHandshake
<1>6. CASE SecondHandshake(l)
  BY <1>1, <1>2, <1>6, ForwardKeeps DEF SecondHandshake
<1>7. CASE Relay(l)
  BY <1>1, <1>2, <1>7, ForwardKeeps DEF Relay
<1>8. CASE FrameRefused(l)
  BY <1>8, RefusedKeeps
<1> QED BY <1>3, <1>4, <1>5, <1>6, <1>7, <1>8 DEF LinkEvent

(* The request over the limit: the client is disconnected. *)
LEMMA FullRequestKeeps ==
    ASSUME GatewayInv, NEW s \in Sock, Speaks(s), NEW X, NEW S, Parts(X, S), DevOf[s] \in X,
           \A d \in X \ {DevOf[s]} : Chokes(d),
           peers' = Unregistered(X), sock' = Closing(X), stage' = Without(S), holds' = ToldEnd(X, S),
           state' = [state EXCEPT ![s] = "closing"], UNCHANGED <<slow, made, revoked, closed>>
    PROVE  Kept
<1>1. sock[s] = "open" /\ peers[DevOf[s]] = s
  BY DEF Speaks, Reads
<1>2. TablesCut(X, S)
  BY DEF Parts, TablesCut, Unregistered, GatewayInv, TypeOK
<1>3. /\ state' \in [Sock -> HandlerStates] /\ state'[s] = "closing"
      /\ \A t \in Sock \ {s} : state'[t] = state[t]
  BY DEF GatewayInv, TypeOK, HandlerStates
<1>4. sock' \in [Sock -> SockStates] /\ sock'[s] = "closing"
  BY <1>1 DEF GatewayInv, TypeOK, SockStates, Closing
<1>5. \A d \in X : Excused(d)
  BY <1>1, <1>3, ChokingExcused DEF Excused
<1>6. slow' \in SUBSET Sock /\ revoked' \in SUBSET Device
  BY DEF GatewayInv, TypeOK
<1> QED BY <1>2, <1>3, <1>4, <1>5, <1>6, CutKeeps

(* The request that makes the link n, which is gone at once if the host    *)
(* chokes on the announcement.                                             *)
LEMMA NewLinkKeeps ==
    ASSUME GatewayInv, NEW s \in Sock, Speaks(s), NEW h \in Host, h \in Registered,
           DevOf[s] \notin Host, NEW n \in Link, stage[n] = "new",
           NEW X, NEW S, Parts(X, S), Replaced(DevOf[s], h) \subseteq S, \A d \in X : Chokes(d),
           NEW gone \in BOOLEAN, gone => h \in X, NEW told \in BOOLEAN,
           told => h \notin X,
           peers' = Unregistered(X), sock' = Closing(X), state' = state,
           stage' = [Without(S) EXCEPT ![n] = IF gone THEN "gone" ELSE "pending"],
           made' = [made EXCEPT ![n] = [host |-> peers[h], client |-> s]],
           holds' = IF told THEN [ToldEnd(X, S) EXCEPT ![peers[h]] = @ \cup {n}] ELSE ToldEnd(X, S),
           UNCHANGED <<slow, revoked, closed>>
    PROVE  Kept
<1> DEFINE c == DevOf[s]
<1>1. /\ sock[s] = "open" /\ peers[c] = s /\ c \in Device /\ h \in Device
      /\ peers[h] \in Sock /\ DevOf[peers[h]] = h /\ peers[h] # None /\ s # None
  BY GatewayAssumption DEF Speaks, Reads, Registered, GatewayInv, TypeOK
<1>2. n \notin Live
  BY DEF Live, Negotiating
<1>3. /\ Live' = (Live \ S) \cup (IF gone THEN {} ELSE {n})
      /\ \A l \in Live \ S : stage'[l] = stage[l] /\ made'[l] = made[l]
  BY <1>2 DEF GatewayInv, TypeOK, Without, Live, Negotiating, Parts
<1>4. stage' \in [Link -> Stages] /\ (~gone => stage'[n] = "pending")
  BY DEF GatewayInv, TypeOK, Without, Stages, Negotiating
<1>5. /\ made' \in [Link -> [host : Sock, client : Sock] \cup {None}]
      /\ made'[n] = [host |-> peers[h], client |-> s]
  BY <1>1 DEF GatewayInv, TypeOK
<1>6. /\ HostOf(n)' = h /\ ClientOf(n)' = c
      /\ \A l \in Live \ S : HostOf(l)' = HostOf(l) /\ ClientOf(l)' = ClientOf(l)
  BY <1>1, <1>3, <1>5 DEF HostOf, ClientOf
<1>7. /\ peers' \in [Device -> Sock \cup {None}]
      /\ \A d \in Device : peers'[d] = IF d \in X THEN None ELSE peers[d]
  BY DEF Unregistered, GatewayInv, TypeOK
<1>8. Linked'
  <2>1. \A l \in Live \ S : HostOf(l) \in Device /\ ClientOf(l) \in Device
    BY GatewayAssumption DEF GatewayInv, Linked, HostOf, ClientOf
  <2>2. ASSUME NEW l \in Live \ S
        PROVE  /\ made'[l] \in [host : Sock, client : Sock]
               /\ peers'[HostOf(l)'] \in {made'[l].host, None}
               /\ peers'[ClientOf(l)'] \in {made'[l].client, None}
               /\ stage'[l] # "pending" =>
                     peers'[HostOf(l)'] = made'[l].host /\ peers'[ClientOf(l)'] = made'[l].client
    BY <1>3, <1>6, <1>7, <2>1 DEF GatewayInv, Linked, Parts
  <2>3. /\ made'[n] \in [host : Sock, client : Sock]
        /\ peers'[h] \in {made'[n].host, None} /\ peers'[c] \in {made'[n].client, None}
    BY <1>1, <1>5, <1>7
  <2> QED BY <1>3, <1>4, <1>6, <2>2, <2>3 DEF Linked
<1>9. OneLinkEach'
  <2>1. \A l \in Live \ S : ClientOf(l) # c /\ (HostOf(l) = h => h \in Modern)
    BY DEF Replaced
  <2>2. \A k, l \in Live \ S : k # l =>
            ClientOf(k) # ClientOf(l) /\ (HostOf(k) = HostOf(l) => HostOf(k) \in Modern)
    BY DEF GatewayInv, OneLinkEach
  <2> QED BY <1>3, <1>6, <2>1, <2>2 DEF OneLinkEach
<1>10. /\ holds' \in [Sock -> SUBSET Link]
       /\ \A t \in Sock : holds'[t] = IF told /\ t = peers[h] THEN ToldEnd(X, S)[t] \cup {n}
                                                              ELSE ToldEnd(X, S)[t]
  <2>1. ToldEnd(X, S) \in [Sock -> SUBSET Link]
    BY DEF ToldEnd, GatewayInv, TypeOK
  <2> QED BY <1>1, <2>1
<1>11. ASSUME NEW t \in Sock PROVE SockInv(t)'
  <2>1. CASE sock'[t] = "new"
    <3>1. sock[t] = "new" /\ state[t] = "awaiting_hello" /\ holds[t] = {}
      BY <2>1 DEF Closing, GatewayInv, SockInv
    <3>2. t # peers[h]
      BY <1>1, <3>1 DEF GatewayInv, Greeted
    <3> QED BY <1>10, <2>1, <3>1, <3>2 DEF SockInv, ToldEnd
  <2>2. CASE sock'[t] = "open"
    <3>1. sock[t] = "open" /\ (\A d \in X : peers[d] # t) /\ SockInv(t)
      BY <2>2 DEF Closing, GatewayInv
    <3>2. CASE state[t] = "awaiting_hello" /\ holds[t] = {}
      <4>1. t # peers[h]
        BY <1>1, <3>2 DEF GatewayInv, Greeted
      <4>2. holds'[t] = {}
        BY <1>10, <3>2, <4>1 DEF ToldEnd
      <4> QED BY <2>2, <3>1, <3>2, <4>2 DEF SockInv
    <3>3. CASE state[t] = "authenticated" /\ peers[DevOf[t]] = t
      <4>1. DevOf[t] \in Device \ X
        BY <3>1, <3>3, GatewayAssumption
      <4>2. Notified(DevOf[t]) => ToldEnd(X, S)[t] = holds[t] \ S
        BY <3>1, <3>3, <4>1 DEF ToldEnd
      <4>3. told => ~gone
        OBVIOUS
      <4>4. Notified(DevOf[t]) => holds'[t] \subseteq Live'
        BY <1>3, <1>10, <3>1, <4>2, <4>3 DEF SockInv
      <4> QED BY <1>7, <2>2, <3>1, <3>3, <4>1, <4>4 DEF SockInv, Notified
    <3> QED BY <3>1, <3>2, <3>3 DEF SockInv
  <2> QED BY <2>1, <2>2 DEF SockInv
<1>12. TypeOK'
  <2>1. sock' \in [Sock -> {"new", "open", "closing", "closed"}]
    BY DEF Closing, GatewayInv, TypeOK
  <2>2. \A d \in Registered' : DevOf[peers'[d]] = d
    BY <1>7 DEF Registered, GatewayInv, TypeOK
  <2>3. \A l \in Live' : made'[l] \in [host : Sock, client : Sock]
    BY <1>8 DEF Linked
  <2> QED BY <1>4, <1>5, <1>7, <1>10, <2>1, <2>2, <2>3 DEF GatewayInv, TypeOK, Stages
<1>13. Greeted'
  BY <1>7 DEF Greeted, Registered, GatewayInv
<1>14. \A d \in Device : Excused(d)
  BY <1>7, ChokingExcused DEF Excused
<1>15. Tells
  BY <1>1, <1>10 DEF Tells, GatewayInv, SockInv
<1> QED BY <1>8, <1>9, <1>11, <1>12, <1>13, <1>14, <1>15 DEF GatewayInv, Kept

LEMMA RequestKeeps ==
    ASSUME GatewayInv, NEW s \in Sock, NEW h \in Host, NEW n \in Link, ConnectRequest(s, h, n)
    PROVE  Kept
<1> DEFINE c      == DevOf[s]
           old    == Replaced(c, h)
           first  == Lost(Live, {}, old)
           full   == Cardinality(Live \ Severed(Live, first, old)) >= MaxLinks
           chokes == h \notin first /\ Chokes(h)
           R == IF full THEN {c} ELSE IF chokes THEN {h} \cup (IF Chokes(c) THEN {c} ELSE {}) ELSE {}
           X == Lost(Live, R, old)
           S == Severed(Live, X, old)
           told == ~full /\ h \notin X /\ sock[peers[h]] = "open"
<1>1. /\ Speaks(s) /\ c \notin Host /\ h \in Registered /\ stage[n] = "new"
      /\ peers' = Unregistered(X) /\ sock' = Closing(X)
      /\ state' = IF full THEN [state EXCEPT ![s] = "closing"] ELSE state
      /\ stage' = [Without(S) EXCEPT ![n] = IF full THEN @ ELSE IF chokes THEN "gone" ELSE "pending"]
      /\ made' = IF full THEN made ELSE [made EXCEPT ![n] = [host |-> peers[h], client |-> s]]
      /\ holds' = IF told THEN [ToldEnd(X, S) EXCEPT ![peers[h]] = @ \cup {n}] ELSE ToldEnd(X, S)
      /\ UNCHANGED <<slow, revoked, closed>>
  BY DEF ConnectRequest
<1>2. c \in Device /\ h \in Device
  BY GatewayAssumption
<1>3. R \in SUBSET Device /\ (full => R = {c}) /\ (~full => \A d \in R : Chokes(d))
      /\ (~full /\ chokes => h \in R)
  <2>1. chokes => Chokes(h)
    OBVIOUS
  <2> HIDE DEF full, chokes
  <2> QED BY <1>2, <2>1
<1> HIDE DEF old, R
<1>4. X \in SUBSET Device /\ R \subseteq X /\ \A d \in X \ R : Chokes(d)
  BY <1>3, LostChoked
<1>5. Parts(X, S) /\ old \cap Live \subseteq S
  BY <1>4, SeveredParts
<1>6. old \subseteq S
  BY <1>5 DEF Replaced, old
<1> HIDE DEF X, S
<1>7. CASE full
  <2>1. stage' = Without(S)
    BY <1>1, <1>7 DEF Without
  <2> QED BY <1>1, <1>3, <1>4, <1>5, <1>7, <2>1, FullRequestKeeps
<1>8. CASE ~full
  <2>1. told \in BOOLEAN /\ chokes \in BOOLEAN /\ (told => h \notin X) /\ (chokes => h \in X)
    BY <1>3, <1>4, <1>8
  <2>2. \A d \in X : Chokes(d)
    BY <1>3, <1>4, <1>8
  <2>3. Replaced(c, h) \subseteq S
    BY <1>6 DEF old
  <2>4. /\ state' = state
        /\ stage' = [Without(S) EXCEPT ![n] = IF chokes THEN "gone" ELSE "pending"]
        /\ made' = [made EXCEPT ![n] = [host |-> peers[h], client |-> s]]
    BY <1>1, <1>8
  <2> HIDE DEF told, chokes, full
  <2> QED BY <1>1, <1>5, <2>1, <2>2, <2>3, <2>4, NewLinkKeeps
<1> QED BY <1>7, <1>8

----------------------------------------------------------------------------
LEMMA GatewayInit == Init => GatewayInv
<1> SUFFICES ASSUME Init PROVE GatewayInv
  OBVIOUS
<1>1. Live = {} /\ Registered = {}
  BY DEF Init, Live, Registered, Negotiating
<1>2. TypeOK
  BY <1>1 DEF Init, TypeOK, Negotiating
<1> QED BY <1>1, <1>2 DEF Init, GatewayInv, Linked, OneLinkEach, Greeted, SockInv

LEMMA GatewayNext == GatewayInv /\ [Next]_vars => Kept
<1> SUFFICES ASSUME GatewayInv, [Next]_vars PROVE Kept
  OBVIOUS
<1>1. ASSUME NEW s \in Sock, SocketEvent(s) PROVE Kept
  BY <1>1, QuietSocketKeeps, HelloKeeps, BadFrameKeeps, SocketClosesKeeps, AnswerKeeps
     DEF SocketEvent
<1>2. ASSUME NEW s \in Sock, NEW h \in Host, NEW n \in Link, ConnectRequest(s, h, n) PROVE Kept
  BY <1>2, RequestKeeps
<1>3. ASSUME NEW l \in Link, LinkEvent(l) PROVE Kept
  BY <1>3, LinkEventKeeps
<1>4. ASSUME NEW late \in SUBSET Silent, NEW old \in SUBSET Unready, Heartbeat(late, old) PROVE Kept
  BY <1>4, HeartbeatKeeps
<1>5. ASSUME NEW d \in Device, Invalidate(d) PROVE Kept
  BY <1>5, InvalidateKeeps
<1>6. CASE Shutdown
  BY <1>6, TablesKeep DEF Shutdown, ClosesSockets, GatewayInv, TypeOK, SockStates, HandlerStates, SockInv
<1>7. CASE UNCHANGED vars
  BY <1>7, TablesKeep
     DEF vars, netVars, linkVars, GatewayInv, TypeOK, SockStates, HandlerStates, SockInv
<1> QED BY <1>1, <1>2, <1>3, <1>4, <1>5, <1>6, <1>7 DEF Next

(* The inductive invariant of the gateway's tables. *)
THEOREM GatewayInvariant == Spec => []GatewayInv
<1>1. GatewayInv /\ [Next]_vars => GatewayInv'
  BY GatewayNext DEF Kept
<1> QED BY <1>1, GatewayInit, PTL DEF Spec

(* The tables have their types: every registered socket presented a token  *)
(* of the device it is registered for.                                     *)
THEOREM GatewayTypes == Spec => []TypeOK
<1>1. GatewayInv => TypeOK
  BY DEF GatewayInv
<1> QED BY <1>1, GatewayInvariant, PTL

(* An accepted link joins the two registered sockets it was made for, and  *)
(* an open socket that said hello is the registered one of its device.     *)
THEOREM LinksAreBound == Spec => []TablesAgree
<1>1. GatewayInv => EstablishedIsBound
  BY DEF GatewayInv, TypeOK, Linked, EstablishedIsBound, Live, Established, Negotiating
<1>2. GatewayInv => AuthenticatedIsRegistered
  BY DEF GatewayInv, SockInv, AuthenticatedIsRegistered
<1>3. GatewayInv => TablesAgree
  BY <1>1, <1>2 DEF TablesAgree
<1> QED BY <1>3, GatewayInvariant, PTL

(* Every end of a link is reported to the open sockets that know of it. *)
THEOREM EndsAreTold == Spec => []EndIsTold
<1>1. GatewayInv => EndIsTold
  BY DEF GatewayInv, SockInv, EndIsTold
<1> QED BY <1>1, GatewayInvariant, PTL

(* Clients and legacy hosts have at most one link. *)
THEOREM LinksAreSingle == Spec => []OneLinkEach
<1>1. GatewayInv => OneLinkEach
  BY DEF GatewayInv
<1> QED BY <1>1, GatewayInvariant, PTL

(* A healthy registered socket is displaced by a newer hello only. *)
THEOREM HealthyStays == Spec => HealthyKeepsPlace
<1> DEFINE Stays == \A d \in Device :
              LET s == peers[d] IN
              s # None /\ s \notin MayFail /\ s \notin slow /\ d \notin MayRevoke
                /\ sock[s] = "open" /\ peers'[d] # s
              => \/ state'[s] = "closing"
                 \/ peers'[d] # None /\ state[peers'[d]] = "awaiting_hello"
<1>1. GatewayInv /\ [Next]_vars => [Stays]_vars
  BY GatewayNext DEF Kept, Excused
<1> QED BY <1>1, GatewayInvariant, PTL DEF Spec, HealthyKeepsPlace

(* A shutdown reports no end of a connection to anyone. *)
THEOREM ShutdownIsSilent == Spec => ShutdownTellsNobody
<1>1. GatewayInv /\ [Next]_vars => [closed' => \A s \in Sock : holds[s] \subseteq holds'[s]]_vars
  BY GatewayNext DEF Kept, Tells
<1> QED BY <1>1, GatewayInvariant, PTL DEF Spec, ShutdownTellsNobody

=============================================================================
