------------------------- MODULE ControlLeaseProofs -------------------------
(* Proofs about ControlLease, for every length of the lease, the renewal   *)
(* period and the age limit, every set of clock offsets and every bound.   *)
EXTENDS ControlLease, TLAPS

(* Requests are numbered in the order they are sent; the one in flight is  *)
(* newer than the ticket held, and was sent no earlier than the request    *)
(* the deadline counts from.                                               *)
Order ==
    /\ acks \subseteq requested
    /\ \A id \in requested : id <= sequence
    /\ ticket <= sequence
    /\ deadline.mono <= mono + Lease
    /\ sent # None => /\ sent.id > ticket /\ sent.id <= sequence
                      /\ sent.mono <= mono /\ deadline.mono <= sent.mono + Lease
    /\ stopped => sent = None
    /\ expirations = 1 => stopped

(* The clock that does not go wrong keeps its distance to physical time.   *)
GoodClock ==
    /\ fault = "step" => mono = now
    /\ fault = "suspend" => /\ deadline.wall <= wall + Lease
                            /\ sent # None => sent.wall <= wall

(* By the good clock, neither the deadline nor a request that was granted  *)
(* is of a time after the revocation.                                      *)
Granted ==
    revoked =>
        /\ revokedAt <= now
        /\ fault = "step" =>
              /\ deadline.mono <= revokedAt + Lease
              /\ sent # None /\ sent.id \in acks => sent.mono <= revokedAt
        /\ fault = "suspend" =>
              /\ deadline.wall <= (wall - now) + revokedAt + Lease
              /\ sent # None /\ sent.id \in acks => sent.wall <= (wall - now) + revokedAt

(* The data plane is closed only when the lease is stopped. *)
Ended == closed => stopped

LeaseInv == TypeOK /\ Order /\ GoodClock /\ Granted /\ Ended

USE LeaseAssumption DEF LeaseAssumption

(* start() establishes the invariant. *)
LEMMA LeaseInit == Init => LeaseInv
<1> SUFFICES ASSUME Init PROVE LeaseInv
  OBVIOUS
<1> USE DEF Init, None
<1>1. TypeOK
  <2>1. sent \in [id : Nat, mono : Nat, wall : Int] /\ requested \in SUBSET Nat
    OBVIOUS
  <2>2. deadline \in [mono : Nat, wall : Int]
    OBVIOUS
  <2> QED BY <2>1, <2>2 DEF TypeOK
<1>2. Order
  BY DEF Order
<1>3. GoodClock
  BY DEF GoodClock
<1>4. Granted
  BY DEF Granted
<1>5. Ended
  BY DEF Ended
<1> QED BY <1>1, <1>2, <1>3, <1>4, <1>5 DEF LeaseInv

(* The clocks only let time pass, and only the one that may fails. *)
LEMMA ClocksKeepInv == LeaseInv /\ (TimePasses \/ Suspend \/ WallSteps) => LeaseInv'
<1>1. LeaseInv /\ TimePasses => LeaseInv'
  BY DEF TimePasses, LeaseInv, TypeOK, Order, GoodClock, Granted, Ended, None, lease, server, data
<1>2. LeaseInv /\ Suspend => LeaseInv'
  BY DEF Suspend, LeaseInv, TypeOK, Order, GoodClock, Granted, Ended, None, lease, server, data
<1>3. LeaseInv /\ WallSteps => LeaseInv'
  BY DEF WallSteps, LeaseInv, TypeOK, Order, GoodClock, Granted, Ended, None, lease, server, data
<1> QED BY <1>1, <1>2, <1>3

(* The expiry of a lease, with whatever noticed it. *)
LEMMA ExpireKeepsInv == LeaseInv /\ ~stopped /\ Expire /\ UNCHANGED <<clocks, server>> => LeaseInv'
<1> SUFFICES ASSUME LeaseInv, ~stopped, Expire, UNCHANGED <<clocks, server>> PROVE LeaseInv'
  OBVIOUS
<1> USE DEF Expire, Closes, LeaseInv, clocks, server, None
<1>1. TypeOK'
  BY DEF TypeOK, Order
<1>2. Order' /\ GoodClock' /\ Granted' /\ Ended'
  BY DEF TypeOK, Order, GoodClock, Granted, Ended
<1> QED BY <1>1, <1>2

(* A request gets a number no reply has. *)
LEMMA TickKeepsInv == ASSUME NEW force \in BOOLEAN, LeaseInv, Tick(force) PROVE LeaseInv'
<1>1. CASE Expire /\ UNCHANGED requested
  BY <1>1, ExpireKeepsInv DEF Tick, server
<1>2. CASE RequestLeaves /\ UNCHANGED <<data, closed>>
  <2> USE DEF LeaseInv, Tick, RequestLeaves, Numbered, clocks, data
  <2>1. requested' \in SUBSET Nat /\ (\A id \in requested' : id <= sequence')
    <3>1. requested \in SUBSET Nat /\ sequence \in Nat /\ (\A id \in requested : id <= sequence)
      BY DEF TypeOK, Order
    <3>2. requested' = requested \cup {sequence + 1} /\ sequence' = sequence + 1
      BY <1>2
    <3> HIDE DEF LeaseInv, Tick, RequestLeaves, Numbered, clocks, data
    <3> QED BY <3>1, <3>2
  <2>2. TypeOK'
    BY <1>2, <2>1 DEF TypeOK
  <2>3. Order'
    BY <1>2, <2>1 DEF TypeOK, Order, None
  <2>4. GoodClock'
    BY <1>2 DEF TypeOK, GoodClock, None
  <2>5. Granted'
    <3>1. sequence + 1 \notin acks
      BY DEF TypeOK, Order
    <3> QED BY <1>2, <3>1 DEF TypeOK, Granted, None
  <2>6. Ended'
    BY <1>2 DEF Ended
  <2> QED BY <2>2, <2>3, <2>4, <2>5, <2>6
<1>3. CASE RequestThrows /\ UNCHANGED <<data, closed>>
  BY <1>3 DEF LeaseInv, Tick, RequestThrows, Numbered, clocks, data, TypeOK, Order, GoodClock,
              Granted, Ended, None
<1> QED BY <1>1, <1>2, <1>3 DEF Tick

(* An accepted reply is to a request that was granted. *)
LEMMA AcknowledgeKeepsInv ==
    ASSUME NEW id \in 1..MaxRequests, LeaseInv, Acknowledge(id) PROVE LeaseInv'
<1>1. CASE Expire
  BY <1>1, ExpireKeepsInv DEF Acknowledge
<1>2. CASE ~Passed /\ Matches(id) /\ sent' = None /\ ticket' = id /\ confirmed' = TRUE
           /\ deadline' = Window
           /\ UNCHANGED <<stopped, sequence, lastRequest, expirations, data, closed>>
  BY <1>2 DEF Acknowledge, Matches, Window, LeaseInv, TypeOK, Order, GoodClock, Granted, Ended,
              None,              clocks, server, data
<1> QED BY <1>1, <1>2 DEF Acknowledge

(* Every step keeps the invariant. *)
LEMMA LeaseNext == LeaseInv /\ [Next]_vars => LeaseInv'
<1> SUFFICES ASSUME LeaseInv, [Next]_vars PROVE LeaseInv'
  OBVIOUS
<1>1. CASE TimePasses \/ Suspend \/ WallSteps
  BY <1>1, ClocksKeepInv
<1>2. ASSUME NEW force \in BOOLEAN, Tick(force) PROVE LeaseInv'
  BY <1>2, TickKeepsInv
<1>3. ASSUME NEW id \in 1..MaxRequests, Acknowledge(id) PROVE LeaseInv'
  BY <1>3, AcknowledgeKeepsInv
<1>4. ASSUME NEW id \in 1..MaxRequests, Grant(id) PROVE LeaseInv'
  BY <1>4 DEF Grant, LeaseInv, TypeOK, Order, GoodClock, Granted, Ended, None, clocks, lease, data
<1>5. CASE Admit
  <2>1. CASE Expire
    BY <1>5, <2>1, ExpireKeepsInv DEF Admit
  <2>2. CASE /\ done' = done \cup {"admit"} /\ underway' = TRUE
             /\ UNCHANGED <<lease, endpoint, closed>>
    BY <1>5, <2>2 DEF Admit, LeaseInv, TypeOK, Order, GoodClock, Granted, Ended, None, clocks,
                     lease, server
  <2> QED BY <1>5, <2>1, <2>2 DEF Admit
<1>6. CASE Carry \/ DeliverUnasked \/ Close
  <2>1. UNCHANGED <<clocks, lease, server, endpoint>>
    BY <1>6 DEF Carry, DeliverUnasked, Close
  <2>2. underway' \in BOOLEAN /\ done' \subseteq {"admit", "carry"} /\ closed' \in BOOLEAN
    BY <1>6 DEF Carry, DeliverUnasked, Close, LeaseInv, TypeOK
  <2>3. closed' => stopped
    BY <1>6 DEF Carry, DeliverUnasked, Close, LeaseInv, Ended
  <2> QED BY <2>1, <2>2, <2>3 DEF LeaseInv, TypeOK, Order, GoodClock, Granted, Ended, None, clocks,
                                  lease, server
<1>7. CASE Stop
  BY <1>7 DEF Stop, Closes, LeaseInv, TypeOK, Order, GoodClock, Granted, Ended, None, clocks, server
<1>8. CASE Revoke
  BY <1>8 DEF Revoke, LeaseInv, TypeOK, Order, GoodClock, Granted, Ended, None, clocks, lease, data
<1>9. CASE UNCHANGED vars
  BY <1>9 DEF vars, LeaseInv, TypeOK, Order, GoodClock, Granted, Ended, None, clocks, lease,
              server, data
<1> QED BY <1>1, <1>2, <1>3, <1>4, <1>5, <1>6, <1>7, <1>8, <1>9 DEF Next

(* The invariant holds in every state the lease reaches (control-lease.ts, *)
(* all of it).                                                             *)
THEOREM LeaseInvariant == Spec => []LeaseInv
  BY LeaseInit, LeaseNext, PTL DEF Spec

(* Every field keeps its type, and the expired callback is called at most  *)
(* once, whoever finds the deadline passed.                                *)
THEOREM LeaseTypes == Spec => []TypeOK
<1>1. LeaseInv => TypeOK
  BY DEF LeaseInv
<1> QED BY <1>1, LeaseInvariant, PTL

(* No reply, however late or often it comes, goes back to an older ticket  *)
(* or an earlier deadline (acknowledge).                                   *)
THEOREM LeaseMovesForward == Spec => RenewalMovesForward
<1>1. LeaseInv /\ [Next]_vars
        => [ticket' # ticket => ticket' > ticket /\ deadline'.mono >= deadline.mono]_vars
  <2> SUFFICES ASSUME LeaseInv, Next, ticket' # ticket
               PROVE ticket' > ticket /\ deadline'.mono >= deadline.mono
    OBVIOUS
  <2>1. PICK id \in 1..MaxRequests : Acknowledge(id) /\ Matches(id) /\ deadline' = Window
                                     /\ ticket' = id
    BY DEF Next, TimePasses, Suspend, WallSteps, Tick, RequestLeaves, RequestThrows, Numbered,
           Expire, Acknowledge, Grant, Admit, Carry, DeliverUnasked, Stop, Close, Revoke, lease
  <2> QED BY <2>1 DEF LeaseInv, TypeOK, Order, Matches, Window
<1> QED BY <1>1, LeaseInvariant, PTL DEF Spec, RenewalMovesForward

(* With either clock wrong, the endpoint admits data for less than Lease   *)
(* after the Server's revocation and none after the lease stopped; what it *)
(* admitted, and what a client takes unasked from its Relay socket, goes   *)
(* no further than the close (valid, acknowledge, stop, dropTunnel).       *)
THEOREM LeaseIsBounded == Spec => Bounded
<1>1. Init => Abstract!Init
  BY DEF Init, Abstract!Init
<1>2. LeaseInv /\ [Next]_vars => [Abstract!Next]_(Abstract!vars)
  <2> SUFFICES ASSUME LeaseInv, [Next]_vars PROVE [Abstract!Next]_(Abstract!vars)
    OBVIOUS
  <2> USE DEF Abstract!Next, Abstract!Pass, Abstract!Withdraw, Abstract!Admit, Abstract!Carry,
              Abstract!Close, Abstract!vars, Abstract!authorization, Abstract!data
  <2>0. ~closed => (Expire /\ ~stopped /\ UNCHANGED <<clocks, server>> => Abstract!Close)
    BY DEF Expire, Closes, clocks, server, LeaseInv, TypeOK
  <2>1. CASE TimePasses \/ Suspend \/ WallSteps
    BY <2>1 DEF TimePasses, Suspend, WallSteps, lease, server, data
  <2>2. ASSUME NEW force \in BOOLEAN, Tick(force) PROVE [Abstract!Next]_(Abstract!vars)
    <3>1. CASE Expire /\ UNCHANGED requested
      BY <2>0, <2>2, <3>1 DEF Tick, clocks, server, LeaseInv, Ended
    <3>2. CASE RequestLeaves \/ RequestThrows
      BY <2>2, <3>2 DEF Tick, RequestLeaves, RequestThrows, Numbered, Expire, clocks, data
    <3> QED BY <2>2, <3>1, <3>2 DEF Tick
  <2>3. ASSUME NEW id \in 1..MaxRequests, Acknowledge(id) PROVE [Abstract!Next]_(Abstract!vars)
    <3>1. CASE Expire
      BY <2>0, <2>3, <3>1 DEF Acknowledge, LeaseInv, Ended
    <3>2. CASE UNCHANGED <<stopped, data, closed>>
      BY <2>3, <3>2 DEF Acknowledge, clocks, server, data
    <3> QED BY <2>3, <3>1, <3>2 DEF Acknowledge
  <2>4. ASSUME NEW id \in 1..MaxRequests, Grant(id) PROVE [Abstract!Next]_(Abstract!vars)
    BY <2>4 DEF Grant, clocks, lease, data
  <2>5. CASE Admit
    <3>1. CASE Expire
      BY <2>0, <2>5, <3>1 DEF Admit, LeaseInv, Ended
    <3>2. CASE /\ ~Passed /\ done' = done \cup {"admit"} /\ underway' = TRUE
               /\ UNCHANGED <<lease, endpoint, closed>>
      <4>1. revoked => now < revokedAt + Lease
        BY <3>2 DEF Passed, LeaseInv, TypeOK, Granted, GoodClock
      <4> QED BY <2>5, <3>2, <4>1 DEF Admit, clocks, lease, server
    <3> QED BY <2>5, <3>1, <3>2 DEF Admit
  <2>6. CASE Carry
    BY <2>6 DEF Carry, clocks, lease, server, LeaseInv, TypeOK
  <2>7. CASE DeliverUnasked
    BY <2>7 DEF DeliverUnasked, clocks, lease, server
  <2>8. CASE Stop
    BY <2>8 DEF Stop, Closes, clocks, server, LeaseInv, TypeOK, Ended
  <2>9. CASE Close
    BY <2>9 DEF Close, clocks, lease, server
  <2>10. CASE Revoke
    BY <2>10 DEF Revoke, clocks, lease, data
  <2>11. CASE UNCHANGED vars
    BY <2>11 DEF vars, clocks, lease, server, data
  <2> QED BY <2>1, <2>2, <2>3, <2>4, <2>5, <2>6, <2>7, <2>8, <2>9, <2>10, <2>11 DEF Next
<1> QED BY <1>1, <1>2, LeaseInvariant, PTL DEF Spec, Bounded, Abstract!Spec
=============================================================================
