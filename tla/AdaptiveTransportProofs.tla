---------------------- MODULE AdaptiveTransportProofs ----------------------
(***************************************************************************)
(* Proofs about AdaptiveTransport: its type invariant, the four safety     *)
(* invariants of its run and the refinement of RemoteTransport, for any    *)
(* set of candidates and any modes.                                        *)
(***************************************************************************)
EXTENDS AdaptiveTransport, TLAPS

(* What an event of the data channel may do to it: d is c afterwards.      *)
Sound(c) ==
    /\ c \in Channel
    /\ c.ready = "open" => c.opened
    /\ c.closed => ~c.armed /\ ~c.opened /\ c.made
    /\ c.remote = "set" => c.buffered = {}

Follows(c, d) ==
    /\ Sound(d)
    /\ d.made = c.made
    /\ c.closed => d.closed
    /\ d.closes >= c.closes
    /\ d.closes = c.closes /\ c.ready = "open" => d.ready = "open"
    /\ c.buffered \cup c.added \subseteq d.buffered \cup d.added

LEMMA CloseFields ==
    ASSUME NEW c \in Channel, c.made, ~c.closed
    PROVE  /\ Close(c) \in Channel
           /\ Close(c).closed /\ ~Close(c).armed /\ ~Close(c).opened /\ Close(c).made
           /\ Close(c).ready # "open" /\ Close(c).remote = c.remote
           /\ Close(c).buffered = c.buffered /\ Close(c).added = c.added
           /\ Close(c).closes = IF c.opened THEN c.closes + 1 ELSE c.closes
<1> DEFINE d == Close(c)
<1>1. d = [c EXCEPT
        !.closed = TRUE, !.opened = FALSE, !.armed = FALSE, !.pending = FALSE,
        !.ready = IF c.ready = "none" THEN "none" ELSE "closed",
        !.result = IF c.pending THEN "rejected" ELSE c.result,
        !.closes = IF c.opened THEN c.closes + 1 ELSE c.closes]
  BY DEF Close
<1>2. /\ c.closes \in Nat /\ c.ready \in {"none", "connecting", "open", "closed"}
      /\ c.result \in {"none", "waiting", "resolved", "rejected"}
  BY DEF Channel
<1> DEFINE r == IF c.ready = "none" THEN "none" ELSE "closed"
           u == IF c.pending THEN "rejected" ELSE c.result
           n == IF c.opened THEN c.closes + 1 ELSE c.closes
<1>3. /\ r \in {"none", "closed"} /\ u \in {"none", "waiting", "resolved", "rejected"}
      /\ n \in Nat
  BY <1>2
<1>4. d = [c EXCEPT !.closed = TRUE, !.opened = FALSE, !.armed = FALSE, !.pending = FALSE,
                    !.ready = r, !.result = u, !.closes = n]
  BY <1>1
<1> HIDE DEF r, u, n, d
<1>5. d \in Channel
  BY <1>3, <1>4 DEF Channel
<1>6. /\ d.closed = TRUE /\ d.opened = FALSE /\ d.armed = FALSE /\ d.made = c.made
      /\ d.ready = r /\ d.remote = c.remote /\ d.closes = n
      /\ d.buffered = c.buffered /\ d.added = c.added
  BY <1>4 DEF Channel
<1>7. QED
  BY <1>3, <1>5, <1>6 DEF d, n

LEMMA CloseFollows ==
    ASSUME NEW c, Sound(c)
    PROVE  Follows(c, Close(c)) /\ (c.made => Close(c).closed)
<1>1. CASE ~c.made \/ c.closed
  <2>1. Close(c) = c
    BY <1>1 DEF Close
  <2>2. c.closes >= c.closes
    BY DEF Sound, Channel
  <2>3. QED
    BY <1>1, <2>1, <2>2 DEF Sound, Follows
<1>2. CASE c.made /\ ~c.closed
  <2>1. c \in Channel /\ c.closes \in Nat /\ (c.ready = "open" => c.opened)
    BY DEF Sound, Channel
  <2> DEFINE d == Close(c)
  <2>2. /\ d \in Channel
        /\ d.closed /\ ~d.armed /\ ~d.opened /\ d.made
        /\ d.ready # "open" /\ d.remote = c.remote
        /\ d.buffered = c.buffered /\ d.added = c.added
        /\ d.closes = IF c.opened THEN c.closes + 1 ELSE c.closes
    BY <1>2, <2>1, CloseFields
  <2> HIDE DEF d
  <2>3. d.closes >= c.closes /\ (d.closes = c.closes => c.ready # "open")
    BY <2>1, <2>2
  <2>4. Sound(d)
    BY <2>2 DEF Sound
  <2>5. d.made = c.made
    BY <1>2, <2>2, <2>1 DEF Channel
  <2>6. QED
    BY <1>2, <2>2, <2>3, <2>4, <2>5 DEF Follows, d
<1>3. QED
  BY <1>1, <1>2


LEMMA FollowsTwice ==
    ASSUME NEW c, NEW d, NEW e, Sound(c), Follows(c, d), Follows(d, e)
    PROVE  Follows(c, e)
<1>1. c.closes \in Nat /\ d.closes \in Nat /\ e.closes \in Nat
  BY DEF Follows, Sound, Channel
<1>2. QED
  BY <1>1 DEF Follows

LEMMA FailOpenFollows ==
    ASSUME NEW c, Sound(c)
    PROVE  Follows(c, FailOpen(c))
<1>1. c.closes >= c.closes
  BY DEF Sound, Channel
<1>2. Follows(c, c)
  BY <1>1 DEF Sound, Follows
<1>3. QED
  BY <1>2, CloseFollows DEF FailOpen

(* A change of the fields no other field depends on. *)
LEMMA FlagFollows ==
    ASSUME NEW c, Sound(c)
    PROVE  /\ \A v \in {"sent", "failed"} : Follows(c, [c EXCEPT !.offer = v])
           /\ \A v \in BOOLEAN : Follows(c, [c EXCEPT !.failing = v])
           /\ \A v \in BOOLEAN : Follows(c, [c EXCEPT !.selecting = v])
           /\ Follows(c, [c EXCEPT !.armed = FALSE, !.failing = TRUE])
<1>1. c.closes >= c.closes /\ c \in Channel
  BY DEF Sound, Channel
<1>2. ASSUME NEW v \in {"sent", "failed"} PROVE Follows(c, [c EXCEPT !.offer = v])
  BY <1>1 DEF Sound, Follows, Channel
<1>3. ASSUME NEW v \in BOOLEAN PROVE Follows(c, [c EXCEPT !.failing = v])
  BY <1>1 DEF Sound, Follows, Channel
<1>4. ASSUME NEW v \in BOOLEAN PROVE Follows(c, [c EXCEPT !.selecting = v])
  BY <1>1 DEF Sound, Follows, Channel
<1>5. Follows(c, [c EXCEPT !.armed = FALSE, !.failing = TRUE])
  BY <1>1 DEF Sound, Follows, Channel
<1>6. QED
  BY <1>2, <1>3, <1>4, <1>5

LEMMA FailOpenAfter ==
    ASSUME NEW c, NEW d, Sound(c), Follows(c, d)
    PROVE  Follows(c, FailOpen(d))
<1>1. Sound(d)
  BY DEF Follows
<1>2. Follows(d, FailOpen(d))
  BY <1>1, FailOpenFollows
<1>3. QED
  BY <1>2, FollowsTwice

LEMMA OpeningSound ==
    /\ Sound(Opening) /\ Opening.made /\ ~Opening.closed /\ Opening.remote # "set"
    /\ Sound(NoChannel) /\ ~NoChannel.made
BY DEF Sound, Opening, NoChannel, Channel

LEMMA OfferFollows ==
    ASSUME NEW c, Sound(c)
    PROVE  /\ Follows(c, OfferFails(c))
           /\ Follows(c, OfferGoesOut(c))
           /\ Follows(c, [c EXCEPT !.offer = "failed"])
<1>1. Follows(c, [c EXCEPT !.offer = "failed"]) /\ Follows(c, [c EXCEPT !.offer = "sent"])
  BY FlagFollows
<1>2. Follows(c, FailOpen([c EXCEPT !.offer = "failed"]))
  BY <1>1, FailOpenAfter
<1>3. QED
  BY <1>1, <1>2 DEF OfferFails, OfferGoesOut

LEMMA AnswerFollows ==
    ASSUME NEW c, Sound(c)
    PROVE  /\ Follows(c, Answer(c))
           /\ Follows(c, AnswerTaken(c))
           /\ c.remote = "setting" => Follows(c, AnswerRefused(c))
<1>1. c.closes >= c.closes /\ c \in Channel
  BY DEF Sound, Channel
<1>2. Follows(c, c)
  BY <1>1 DEF Sound, Follows
<1>3. c.remote # "set" => Follows(c, [c EXCEPT !.remote = "setting"])
  BY <1>1 DEF Sound, Follows, Channel
<1>4. Follows(c, Answer(c))
  BY <1>2, <1>3, FailOpenFollows DEF Answer
<1>5. Follows(c, AnswerTaken(c))
  BY <1>1 DEF Sound, Follows, Channel, AnswerTaken
<1>6. c.remote = "setting" => Follows(c, [c EXCEPT !.remote = "none"])
  BY <1>1 DEF Sound, Follows, Channel
<1>7. c.remote = "setting" => Follows(c, AnswerRefused(c))
  BY <1>6, FailOpenAfter DEF AnswerRefused
<1>8. QED
  BY <1>4, <1>5, <1>7

LEMMA CandidateFollows ==
    ASSUME NEW c, Sound(c), NEW i \in Candidates
    PROVE  /\ Follows(c, Candidate(c, i))
           /\ ~c.closed => i \in Candidate(c, i).buffered \cup Candidate(c, i).added
           /\ Candidate(c, i).closed = c.closed
<1>1. c.closes >= c.closes /\ c \in Channel
  BY DEF Sound, Channel
<1>2. CASE c.closed
  BY <1>1, <1>2 DEF Sound, Follows, Candidate
<1>3. CASE ~c.closed /\ c.remote = "set"
  BY <1>1, <1>3 DEF Sound, Follows, Candidate, Channel
<1>4. CASE ~c.closed /\ c.remote # "set"
  BY <1>1, <1>4 DEF Sound, Follows, Candidate, Channel
<1>5. QED
  BY <1>2, <1>3, <1>4

LEMMA OpensFollows ==
    ASSUME NEW c, Sound(c), ~c.closed
    PROVE  /\ Follows(c, Opens(c))
           /\ Follows(c, Closes(c))
<1>1. c.closes >= c.closes /\ c \in Channel /\ c.closes \in Nat
  BY DEF Sound, Channel
<1>2. Follows(c, Opens(c))
  BY <1>1 DEF Sound, Follows, Opens, Channel
<1> DEFINE e == [c EXCEPT !.ready = "closed"]
           f == FailOpen(e)
<1>3. Sound(e) /\ e.closes = c.closes /\ e.opened = c.opened /\ e.ready = "closed"
      /\ e.buffered = c.buffered /\ e.added = c.added /\ e.made = c.made
  BY <1>1 DEF Sound, Channel
<1> HIDE DEF e
<1>4. Sound(f) /\ Follows(e, f)
  BY <1>3, FailOpenFollows DEF Follows
<1> HIDE DEF f
<1>5. Closes(c) = IF f.opened THEN [f EXCEPT !.opened = FALSE, !.closes = @ + 1] ELSE f
  BY DEF Closes, f, e
<1>6. CASE f.opened
  <2> DEFINE g == [f EXCEPT !.opened = FALSE, !.closes = @ + 1]
  <2>1. f \in Channel /\ f.closes \in Nat /\ f.closes >= c.closes /\ f.closes + 1 \in Nat
    BY <1>1, <1>3, <1>4 DEF Sound, Follows, Channel
  <2>2. f = e
    BY <1>3, <1>6, <1>4, CloseFollows DEF f, FailOpen, Follows, Sound, Close
  <2>3. g.made = c.made /\ g.closes = f.closes + 1 /\ g.buffered = f.buffered
        /\ g.added = f.added /\ g \in Channel /\ g.ready = f.ready /\ g.closed = f.closed
        /\ g.remote = f.remote /\ g.armed = f.armed
    BY <2>1, <2>2, <1>3 DEF Channel
  <2>4. Sound(g)
    BY <2>2, <2>3, <1>3, <1>4, <1>6 DEF Sound
  <2> HIDE DEF g
  <2>5. Follows(c, g)
    BY <2>1, <2>2, <2>3, <2>4, <1>1, <1>3 DEF Follows
  <2>6. QED
    BY <1>2, <1>5, <1>6, <2>5 DEF g
<1>7. CASE ~f.opened
  <2>1. c.opened => f = e
    BY <1>3 DEF f, FailOpen
  <2>2. ~c.opened
    BY <2>1, <1>3, <1>7
  <2>3. c.ready # "open" /\ f.closes >= c.closes
    BY <2>2, <1>3, <1>4 DEF Sound, Follows
  <2>4. Follows(c, f)
    BY <2>3, <1>3, <1>4 DEF Follows
  <2>5. QED
    BY <1>2, <1>5, <1>7, <2>4
<1>8. QED
  BY <1>2, <1>6, <1>7

LEMMA TimersFollow ==
    ASSUME NEW c, Sound(c)
    PROVE  /\ Follows(c, PeerFails(c))
           /\ Follows(c, TimesOut(c))
           /\ Follows(c, StatsRead(c))
           /\ Follows(c, PathKnown(c))
<1>1. c.closes >= c.closes /\ c \in Channel
  BY DEF Sound, Channel
<1>2. Follows(c, PeerFails(c)) /\ Follows(c, TimesOut(c))
  BY <1>1, FlagFollows DEF PeerFails, TimesOut, Sound, Follows
<1>3. Follows(c, [c EXCEPT !.failing = FALSE])
  BY FlagFollows
<1>4. Follows(c, StatsRead(c))
  BY <1>3, FailOpenAfter DEF StatsRead
<1>5. Follows(c, PathKnown(c))
  <2>1. CASE c.closed
    BY <2>1, FlagFollows DEF PathKnown
  <2>2. CASE ~c.closed
    <3> DEFINE r == IF c.pending THEN "resolved" ELSE c.result
    <3>1. r \in {"none", "waiting", "resolved", "rejected"}
      BY <1>1 DEF Channel
    <3>2. PathKnown(c) = [c EXCEPT !.selecting = FALSE, !.pending = FALSE, !.result = r]
      BY <2>2 DEF PathKnown
    <3> HIDE DEF r
    <3> DEFINE d == PathKnown(c)
    <3>3. /\ d \in Channel /\ d.ready = c.ready /\ d.opened = c.opened /\ d.closed = c.closed
          /\ d.made = c.made /\ d.remote = c.remote /\ d.buffered = c.buffered
          /\ d.added = c.added /\ d.closes = c.closes
      BY <3>1, <3>2, <1>1 DEF Channel
    <3> HIDE DEF d
    <3>4. Sound(d)
      BY <3>3, <2>2 DEF Sound
    <3>5. Follows(c, d)
      BY <3>3, <3>4, <1>1 DEF Follows
    <3>6. QED
      BY <3>5 DEF d
  <2>3. QED
    BY <2>1, <2>2
<1>6. QED
  BY <1>2, <1>4, <1>5

----------------------------------------------------------------------------
(* The inductive invariant. *)

(* Outside of a lifetime everything is released. *)
Quiet == lifetime # "live" =>
    /\ socket = "none" /\ timers = {} /\ owed = "none" /\ ~controlReady
    /\ negotiation = "none" /\ dataSocket = "none" /\ ~hasRtc /\ lease = NoLease
    /\ ~authorized /\ ~established /\ outcome # "waiting"
    /\ (rtc.made => rtc.closed)

(* What was told: nothing before the end, and the end once. *)
Told == /\ lifetime = "none" => told = 0 /\ ~reopening /\ outcome = "none" /\ ~rtc.made
        /\ lifetime = "live" =>
               told = 0 /\ outcome = IF established THEN "resolved" ELSE "waiting"
        /\ lifetime = "over" => told = 1

(* The control connection. *)
Control == /\ sockets = IF socket = "none" THEN 0 ELSE 1
           /\ controlReady => socket = "open"
           /\ owed # "none" => socket = "open"
           /\ "opening" \in timers => socket # "none"

(* The stages of a connection, from hello to the lease. *)
Stages ==
    /\ negotiation # "none" => authorized /\ ~established
    /\ ~authorized => ~rtc.made \/ lifetime = "over"
    /\ ~authorized => ~established
    /\ authorized => owed # "request"
    /\ lease.state # "none" => established
    /\ lease.state = "none" => lease = NoLease
    /\ lifetime = "live" /\ authorized /\ (socket = "connecting" \/ owed = "hello") =>
           lease.state = "confirmed"
    /\ negotiation = "ice" => ~rtc.made
    /\ ~rtc.made => offered = {} /\ ~hasRtc
    /\ dataSocket \in {"connecting", "open"} => negotiation = "attach"

AdaptiveInv ==
    /\ AdaptiveTypeOK /\ Sound(rtc)
    /\ Quiet /\ Told /\ Control /\ Stages
    /\ OneRecovery /\ DetachedIsHealthy /\ CandidatesReachPeer

----------------------------------------------------------------------------
(* OneRecovery, as a statement without sets. *)
Single ==
    lifetime = "live" =>
        \/ "recovery" \in timers /\ ~reopening /\ socket = "none"
        \/ "recovery" \notin timers /\ reopening /\ socket = "none"
        \/ "recovery" \notin timers /\ ~reopening /\ socket # "none"

Counted == sockets = IF socket = "none" THEN 0 ELSE 1

LEMMA SingleIsOneRecovery == OneRecovery <=> Single /\ Counted
<1>1. /\ "timer" \in Recoveries <=> "recovery" \in timers
      /\ "token" \in Recoveries <=> reopening
      /\ "socket" \in Recoveries <=> socket # "none"
      /\ Recoveries \subseteq {"timer", "token", "socket"}
  BY DEF Recoveries
<1>2. (\E x \in {"timer", "token", "socket"} : Recoveries = {x}) <=>
        \/ "timer" \in Recoveries /\ "token" \notin Recoveries /\ "socket" \notin Recoveries
        \/ "timer" \notin Recoveries /\ "token" \in Recoveries /\ "socket" \notin Recoveries
        \/ "timer" \notin Recoveries /\ "token" \notin Recoveries /\ "socket" \in Recoveries
  <2>1. \A x, y : Recoveries = {x} /\ y \in Recoveries => y = x
    OBVIOUS
  <2>2. \A x : Recoveries = {x} => x \in Recoveries
    OBVIOUS
  <2>3. (\E x \in {"timer", "token", "socket"} : Recoveries = {x}) =>
           \/ "timer" \in Recoveries /\ "token" \notin Recoveries /\ "socket" \notin Recoveries
           \/ "timer" \notin Recoveries /\ "token" \in Recoveries /\ "socket" \notin Recoveries
           \/ "timer" \notin Recoveries /\ "token" \notin Recoveries /\ "socket" \in Recoveries
    BY <2>1, <2>2
  <2>4. "timer" \in Recoveries /\ "token" \notin Recoveries /\ "socket" \notin Recoveries =>
           Recoveries = {"timer"}
    BY <1>1
  <2>5. "timer" \notin Recoveries /\ "token" \in Recoveries /\ "socket" \notin Recoveries =>
           Recoveries = {"token"}
    BY <1>1
  <2>6. "timer" \notin Recoveries /\ "token" \notin Recoveries /\ "socket" \in Recoveries =>
           Recoveries = {"socket"}
    BY <1>1
  <2>7. QED
    BY <2>3, <2>4, <2>5, <2>6
<1>3. QED
  BY <1>1, <1>2 DEF OneRecovery, Single, Counted

LEMMA AdaptiveStarts == Init => AdaptiveInv
<1> SUFFICES ASSUME Init PROVE AdaptiveInv
  OBVIOUS
<1>1. Sound(rtc) /\ ~rtc.made
  BY OpeningSound DEF Init
<1>2. AdaptiveTypeOK
  BY <1>1 DEF Init, AdaptiveTypeOK, Sound, NoLease
<1>3. Quiet /\ Told /\ Control /\ Stages
  BY <1>1 DEF Init, Quiet, Told, Control, Stages, NoLease
<1>4. OneRecovery
  BY SingleIsOneRecovery DEF Init, Single, Counted
<1>5. DetachedIsHealthy /\ CandidatesReachPeer
  BY DEF Init, DetachedIsHealthy, CandidatesReachPeer
<1>6. QED
  BY <1>1, <1>2, <1>3, <1>4, <1>5 DEF AdaptiveInv

----------------------------------------------------------------------------
(* The end of a lifetime, and the loss of the control connection. *)
LEMMA EndKeeps ==
    ASSUME AdaptiveInv, lifetime = "live", NEW c, Follows(rtc, c), End(c), reopening' \in BOOLEAN
    PROVE  AdaptiveInv'
<1> USE DEF AdaptiveInv
<1>1. rtc' = Close(c) /\ Sound(rtc') /\ (rtc'.made => rtc'.closed) /\ (~rtc'.made => ~rtc.made)
  BY CloseFollows DEF End, Follows, Close
<1>2. sockets' = 0 /\ socket' = "none"
  BY DEF End, DropSocket, Control, AdaptiveTypeOK
<1>3. AdaptiveTypeOK'
  <2>1. lease' \in [state : {"none", "first", "confirmed"}, passed : BOOLEAN, asked : BOOLEAN]
    BY DEF End, NoLease
  <2>2. rtc' \in Channel /\ sockets' \in Nat /\ told' \in Nat
    BY <1>1, <1>2 DEF End, AdaptiveTypeOK, Sound
  <2>3. /\ options' \in Options /\ offered' \subseteq Candidates /\ dataMode' \in {"relay", "webrtc"}
        /\ outcome' \in {"none", "waiting", "resolved", "rejected"}
    BY DEF End, AdaptiveTypeOK
  <2>4. QED
    BY <1>2, <2>1, <2>2, <2>3 DEF End, DropSocket, AdaptiveTypeOK
<1>4. Quiet'
  BY <1>1, <1>2 DEF End, DropSocket, Quiet, Told
<1>5. Told'
  BY DEF End, Told, Single, DetachedIsHealthy, AdaptiveTypeOK
<1>6. Control'
  BY <1>2 DEF End, DropSocket, Control
<1>7. Stages'
  BY <1>1 DEF End, DropSocket, Stages, NoLease
<1>8. OneRecovery'
  <2>1. Single' /\ Counted'
    BY <1>2 DEF End, Single, Counted
  <2>2. QED
    BY <2>1, SingleIsOneRecovery, PTL
<1>9. DetachedIsHealthy' /\ CandidatesReachPeer'
  BY DEF End, DetachedIsHealthy, CandidatesReachPeer
<1>10. QED
  BY <1>1, <1>3, <1>4, <1>5, <1>6, <1>7, <1>8, <1>9

LEMMA DetachKeeps ==
    ASSUME AdaptiveInv, lifetime = "live", CanDetach, DataPlaneAlive, Detach, reopening' = FALSE
    PROVE  AdaptiveInv'
<1> USE DEF AdaptiveInv
<1>1. established /\ lease.state = "confirmed" /\ negotiation = "none" /\ authorized
  BY DEF CanDetach, Stages
<1>2. sockets' = 0 /\ socket' = "none"
  BY DEF Detach, DropSocket, Control
<1>3. AdaptiveTypeOK' /\ Sound(rtc')
  <2>1. timers' \subseteq {"handshake", "attach", "recovery", "opening"} /\ sockets' \in Nat
    BY <1>2 DEF Detach, AdaptiveTypeOK
  <2>2. Sound(rtc') /\ rtc' \in Channel
    BY DEF Detach, data, AdaptiveTypeOK
  <2>3. /\ options' \in Options /\ lifetime' = "live" /\ authorized' \in BOOLEAN
        /\ lease' \in [state : {"none", "first", "confirmed"}, passed : BOOLEAN, asked : BOOLEAN]
        /\ told' \in Nat /\ negotiation' \in {"none", "ice", "rtc", "attach"}
        /\ dataMode' \in {"relay", "webrtc"} /\ established' \in BOOLEAN
        /\ dataSocket' \in {"none", "connecting", "open", "ready"} /\ hasRtc' \in BOOLEAN
        /\ offered' \subseteq Candidates
        /\ outcome' \in {"none", "waiting", "resolved", "rejected"}
        /\ owed' = "none" /\ controlReady' = FALSE
    BY DEF Detach, DropSocket, data, AdaptiveTypeOK
  <2>4. QED
    BY <1>2, <2>1, <2>2, <2>3 DEF AdaptiveTypeOK
<1>4. Quiet' /\ Told'
  BY DEF Detach, Quiet, Told, data
<1>5. Control'
  BY <1>2 DEF Detach, DropSocket, Control
<1>6. Stages'
  BY <1>1, <1>2 DEF Detach, DropSocket, Stages, data
<1>7. OneRecovery'
  <2>1. Single' /\ Counted'
    BY <1>2 DEF Detach, Single, Counted
  <2>2. QED
    BY <2>1, SingleIsOneRecovery, PTL
<1>8. DetachedIsHealthy'
  BY <1>1 DEF Detach, DetachedIsHealthy, DataPlaneAlive, data
<1>9. CandidatesReachPeer'
  BY DEF Detach, CandidatesReachPeer, data
<1>10. QED
  BY <1>3, <1>4, <1>5, <1>6, <1>7, <1>8, <1>9

LEMMA FollowsItself == ASSUME NEW c, Sound(c) PROVE Follows(c, c)
<1>1. c.closes >= c.closes
  BY DEF Sound, Channel
<1>2. QED
  BY <1>1 DEF Sound, Follows

LEMMA FailKeeps ==
    ASSUME AdaptiveInv, lifetime = "live", NEW c, Follows(rtc, c), FailWith(c)
    PROVE  AdaptiveInv'
BY EndKeeps DEF FailWith, AdaptiveInv, AdaptiveTypeOK

LEMMA LoseKeeps ==
    ASSUME AdaptiveInv, lifetime = "live", NEW retryable \in BOOLEAN, Lose(retryable),
           reopening' = FALSE
    PROVE  AdaptiveInv'
BY EndKeeps, DetachKeeps, FollowsItself DEF Lose, AdaptiveInv

LEMMA ControlLostKeeps ==
    ASSUME AdaptiveInv, socket # "none", NEW retryable \in BOOLEAN, ControlLost(retryable)
    PROVE  AdaptiveInv'
<1>1. lifetime = "live"
  BY DEF AdaptiveInv, Quiet
<1>2. ~reopening
  BY <1>1, SingleIsOneRecovery DEF AdaptiveInv, Single
<1>3. reopening' = FALSE
  BY <1>2 DEF ControlLost, AdaptiveInv, AdaptiveTypeOK
<1>4. QED
  BY <1>1, <1>3, LoseKeeps DEF ControlLost

(* The actions that only fail. *)
LEMMA FailingActions ==
    ASSUME AdaptiveInv,
           \/ ErrorFrame \/ HandshakeTimeout \/ AttachTimeout \/ Abort \/ CloseCall
           \/ DataLost \/ UseExpired
    PROVE  AdaptiveInv'
<1>1. lifetime = "live" /\ Fail
  BY DEF ErrorFrame, HandshakeTimeout, AttachTimeout, Abort, CloseCall, DataLost, UseExpired,
         AdaptiveInv, Quiet, NoLease
<1>2. QED
  BY <1>1, FailKeeps, FollowsItself DEF Fail, AdaptiveInv

LEMMA LosingActions ==
    ASSUME AdaptiveInv, SocketLost \/ OpeningTimeout
    PROVE  AdaptiveInv'
<1>1. CASE SocketLost
  BY <1>1, ControlLostKeeps DEF SocketLost
<1>2. CASE OpeningTimeout
  BY <1>2, ControlLostKeeps DEF OpeningTimeout, AdaptiveInv, Control
<1>3. QED
  BY <1>1, <1>2

----------------------------------------------------------------------------
(* connect() and the control frames. *)
LEMMA ConnectKeeps ==
    ASSUME AdaptiveInv, Connect
    PROVE  AdaptiveInv'
<1> USE DEF AdaptiveInv, Connect
<1>1. AdaptiveTypeOK' /\ Sound(rtc')
  <2>1. sockets' \in Nat /\ timers' = {"handshake"}
    BY DEF AdaptiveTypeOK
  <2>2. QED
    BY <2>1 DEF AdaptiveTypeOK
<1>2. Quiet' /\ Told' /\ Control' /\ Stages'
  BY DEF Quiet, Told, Control, Stages, AdaptiveTypeOK, NoLease
<1>3. OneRecovery'
  <2>1. Single' /\ Counted'
    BY DEF Quiet, Told, Control, Single, Counted
  <2>2. QED
    BY <2>1, SingleIsOneRecovery, PTL
<1>4. DetachedIsHealthy' /\ CandidatesReachPeer'
  BY DEF DetachedIsHealthy, CandidatesReachPeer
<1>5. QED
  BY <1>1, <1>2, <1>3, <1>4

LEMMA SocketOpensKeeps ==
    ASSUME AdaptiveInv, SocketOpens
    PROVE  AdaptiveInv'
<1> USE DEF AdaptiveInv, SocketOpens, data
<1>1. AdaptiveTypeOK' /\ Sound(rtc')
  BY DEF AdaptiveTypeOK
<1>2. Quiet' /\ Told' /\ Control' /\ Stages'
  BY DEF Quiet, Told, Control, Stages, AdaptiveTypeOK, NoLease
<1>3. OneRecovery'
  <2>1. Single' /\ Counted'
    BY SingleIsOneRecovery DEF Single, Counted
  <2>2. QED
    BY <2>1, SingleIsOneRecovery, PTL
<1>4. DetachedIsHealthy' /\ CandidatesReachPeer'
  BY DEF DetachedIsHealthy, CandidatesReachPeer
<1>5. QED
  BY <1>1, <1>2, <1>3, <1>4

LEMMA HelloAckKeeps ==
    ASSUME AdaptiveInv, HelloAck
    PROVE  AdaptiveInv'
<1> USE DEF AdaptiveInv
<1>1. lifetime = "live" /\ owed = "hello" /\ socket = "open"
  BY DEF HelloAck, Quiet, Control
<1>2. CASE Fail
  BY <1>1, <1>2, FailKeeps, FollowsItself DEF Fail
<1>3. CASE lease.state = "none" /\ controlReady' = TRUE /\ owed' = "request"
           /\ UNCHANGED <<options, lifetime, socket, sockets, timers, reopening, authorized,
                          data, lease, told>>
  <2> USE <1>3 DEF data
  <2>1. AdaptiveTypeOK' /\ Sound(rtc')
    BY DEF AdaptiveTypeOK
  <2>2. Quiet' /\ Told' /\ Control' /\ Stages'
    BY <1>1 DEF Quiet, Told, Control, Stages, AdaptiveTypeOK
  <2>3. OneRecovery'
    <3>1. Single' /\ Counted'
      BY SingleIsOneRecovery DEF Single, Counted
    <3>2. QED
      BY <3>1, SingleIsOneRecovery, PTL
  <2>4. DetachedIsHealthy' /\ CandidatesReachPeer'
    BY <1>1 DEF DetachedIsHealthy, CandidatesReachPeer
  <2>5. QED
    BY <2>1, <2>2, <2>3, <2>4
<1>4. CASE lease.state # "none" /\ controlReady' = TRUE /\ owed' = "none"
           /\ timers' = timers \ {"opening"} /\ Request
           /\ UNCHANGED <<options, lifetime, socket, sockets, reopening, authorized, data, told>>
  <2> USE <1>4 DEF data
  <2>1. lease' \in [state : {"none", "first", "confirmed"}, passed : BOOLEAN, asked : BOOLEAN]
        /\ lease'.state = lease.state
    BY <1>1 DEF Request, AdaptiveTypeOK
  <2>2. AdaptiveTypeOK' /\ Sound(rtc')
    <3>1. timers' \subseteq {"handshake", "attach", "recovery", "opening"}
      BY DEF AdaptiveTypeOK
    <3>2. QED
      BY <2>1, <3>1 DEF AdaptiveTypeOK
  <2>3. Quiet' /\ Told' /\ Control' /\ Stages'
    BY <1>1, <2>1 DEF Quiet, Told, Control, Stages, AdaptiveTypeOK
  <2>4. OneRecovery'
    <3>1. Single' /\ Counted'
      BY SingleIsOneRecovery DEF Single, Counted
    <3>2. QED
      BY <3>1, SingleIsOneRecovery, PTL
  <2>5. DetachedIsHealthy' /\ CandidatesReachPeer'
    BY <1>1 DEF DetachedIsHealthy, CandidatesReachPeer
  <2>6. QED
    BY <2>2, <2>3, <2>4, <2>5
<1>5. QED
  BY <1>2, <1>3, <1>4 DEF HelloAck

(* negotiate() settles on the Relay, or on the data channel. *)
LEMMA UseRelayKeeps ==
    ASSUME AdaptiveInv, lifetime = "live", ~established, authorized' = TRUE,
           owed = "request" \/ negotiation = "rtc",
           NEW c, Follows(rtc, c), UseRelay(c),
           UNCHANGED <<options, lifetime, socket, sockets, controlReady, reopening, offered,
                       lease, told>>
    PROVE  AdaptiveInv'
<1> USE DEF AdaptiveInv
<1>1. Sound(rtc') /\ rtc'.made = rtc.made /\ rtc' \in Channel
  BY CloseFollows DEF UseRelay, Follows, Sound, Close
<1>2. socket # "none" /\ lease.state = "none" /\ outcome = "waiting"
  BY DEF DetachedIsHealthy, Stages, Told
<1>3. timers' \subseteq {"handshake", "attach", "recovery", "opening"}
      /\ ("recovery" \in timers' <=> "recovery" \in timers)
      /\ ("opening" \in timers' <=> "opening" \in timers)
  BY DEF UseRelay, Finish, AdaptiveTypeOK
<1>4. dataSocket' \in {"none", "connecting", "open", "ready"}
      /\ (dataSocket' \in {"connecting", "open"} => negotiation' = "attach" \/ dataSocket' = dataSocket)
  BY DEF UseRelay, Finish, AdaptiveTypeOK
<1>5. AdaptiveTypeOK'
  BY <1>1, <1>3, <1>4 DEF UseRelay, Finish, AdaptiveTypeOK
<1>6. Quiet' /\ Control'
  BY <1>2, <1>3 DEF UseRelay, Quiet, Control
<1>7. Told'
  BY <1>2 DEF UseRelay, Finish, Told
<1>8. Stages'
  BY <1>1, <1>2, <1>4 DEF UseRelay, Finish, Stages, Control
<1>9. OneRecovery'
  <2>1. Single' /\ Counted'
    BY <1>2, <1>3, SingleIsOneRecovery DEF Single, Counted
  <2>2. QED
    BY <2>1, SingleIsOneRecovery, PTL
<1>10. DetachedIsHealthy' /\ CandidatesReachPeer'
  BY <1>2 DEF UseRelay, DetachedIsHealthy, CandidatesReachPeer
<1>11. QED
  BY <1>1, <1>5, <1>6, <1>7, <1>8, <1>9, <1>10

LEMMA AcceptedKeeps ==
    ASSUME AdaptiveInv, Accepted
    PROVE  AdaptiveInv'
<1> USE DEF AdaptiveInv
<1>1. /\ lifetime = "live" /\ owed = "request" /\ socket = "open" /\ ~authorized /\ ~established
      /\ ~rtc.made /\ offered = {} /\ negotiation = "none" /\ lease.state = "none"
  BY DEF Accepted, Quiet, Control, Stages
<1>2. CASE UseRelay(rtc)
  BY <1>1, <1>2, UseRelayKeeps, FollowsItself DEF Accepted
<1>3. CASE /\ negotiation' = "ice" /\ timers' = timers \ {"handshake"} /\ owed' = "none"
           /\ UNCHANGED <<dataMode, established, dataSocket, rtc, hasRtc, outcome>>
  <2> USE <1>3 DEF Accepted
  <2>1. AdaptiveTypeOK' /\ Sound(rtc')
    <3>1. timers' \subseteq {"handshake", "attach", "recovery", "opening"}
      BY DEF AdaptiveTypeOK
    <3>2. QED
      BY <3>1 DEF AdaptiveTypeOK
  <2>2. Quiet' /\ Told' /\ Control' /\ Stages'
    BY <1>1 DEF Quiet, Told, Control, Stages
  <2>3. OneRecovery'
    <3>1. Single' /\ Counted'
      BY SingleIsOneRecovery DEF Single, Counted
    <3>2. QED
      BY <3>1, SingleIsOneRecovery, PTL
  <2>4. DetachedIsHealthy' /\ CandidatesReachPeer'
    BY <1>1 DEF DetachedIsHealthy, CandidatesReachPeer
  <2>5. QED
    BY <2>1, <2>2, <2>3, <2>4
<1>4. QED
  BY <1>2, <1>3 DEF Accepted

----------------------------------------------------------------------------
(* The data channel. *)
LEMMA RtcResolvedKeeps ==
    ASSUME AdaptiveInv, negotiation = "rtc", NEW c, Follows(rtc, c), RtcResolved(c)
    PROVE  AdaptiveInv'
<1> USE DEF AdaptiveInv
<1>1. /\ lifetime = "live" /\ ~established /\ authorized /\ socket # "none" /\ outcome = "waiting"
      /\ lease.state = "none"
  BY DEF Quiet, Stages, DetachedIsHealthy, Told
<1>2. CASE UseRelay(c) /\ UNCHANGED <<options, lifetime, socket, sockets, controlReady, reopening,
                                      authorized, offered, lease, told>>
  <2>1. authorized' = TRUE
    BY <1>1, <1>2 DEF AdaptiveTypeOK
  <2>2. QED
    BY <1>1, <1>2, <2>1, UseRelayKeeps
<1>3. CASE FailWith(c)
  BY <1>1, <1>3, FailKeeps
<1>4. CASE /\ dataMode' = "webrtc" /\ rtc' = c /\ Finish
           /\ UNCHANGED <<options, lifetime, socket, sockets, owed, controlReady, reopening,
                          authorized, dataSocket, hasRtc, offered, lease, told>>
  <2> USE <1>4 DEF Finish
  <2>1. Sound(rtc') /\ rtc'.made = rtc.made /\ rtc' \in Channel
    BY DEF Follows, Sound
  <2>2. timers' \subseteq {"handshake", "attach", "recovery", "opening"}
        /\ ("recovery" \in timers' <=> "recovery" \in timers)
        /\ ("opening" \in timers' <=> "opening" \in timers)
    BY DEF AdaptiveTypeOK
  <2>3. AdaptiveTypeOK'
    BY <2>1, <2>2 DEF AdaptiveTypeOK
  <2>4. Quiet' /\ Told' /\ Control'
    BY <1>1, <2>2 DEF Quiet, Told, Control
  <2>5. Stages'
    BY <1>1, <2>1 DEF Stages
  <2>6. OneRecovery'
    <3>1. Single' /\ Counted'
      BY <2>2, SingleIsOneRecovery DEF Single, Counted
    <3>2. QED
      BY <3>1, SingleIsOneRecovery, PTL
  <2>7. DetachedIsHealthy'
    BY <1>1 DEF DetachedIsHealthy
  <2>8. CandidatesReachPeer'
    BY <2>1 DEF CandidatesReachPeer, KeepsCandidates, Follows, Sound
  <2>9. QED
    BY <2>1, <2>3, <2>4, <2>5, <2>6, <2>7, <2>8
<1>5. QED
  BY <1>2, <1>3, <1>4 DEF RtcResolved

LEMMA RtcRejectedKeeps ==
    ASSUME AdaptiveInv, negotiation = "rtc", NEW c, Follows(rtc, c), RtcRejected(c)
    PROVE  AdaptiveInv'
<1> USE DEF AdaptiveInv
<1>1. lifetime = "live" /\ ~established /\ authorized
  BY DEF Quiet, Stages
<1>2. CASE UseRelay(c) /\ UNCHANGED <<options, lifetime, socket, sockets, controlReady, reopening,
                                      authorized, offered, lease, told>>
  <2>1. authorized' = TRUE
    BY <1>1, <1>2 DEF AdaptiveTypeOK
  <2>2. QED
    BY <1>1, <1>2, <2>1, UseRelayKeeps
<1>3. CASE FailWith(c)
  BY <1>1, <1>3, FailKeeps
<1>4. QED
  BY <1>2, <1>3 DEF RtcRejected

(* Only the data channel and what was handed to it change. *)
LEMMA ChannelKeeps ==
    ASSUME AdaptiveInv, NEW c, Follows(rtc, c), rtc' = c,
           hasRtc /\ dataMode = "webrtc" => negotiation = "rtc" \/ c.closes = rtc.closes,
           offered' \subseteq Candidates, rtc.made \/ offered' = offered,
           hasRtc /\ ~c.closed => offered' \subseteq c.buffered \cup c.added,
           UNCHANGED <<options, lifetime, control, authorized, negotiation, dataMode, established,
                       dataSocket, hasRtc, outcome, lease, told>>
    PROVE  AdaptiveInv'
<1> USE DEF AdaptiveInv, control
<1>1. Sound(rtc') /\ rtc'.made = rtc.made /\ rtc' \in Channel /\ (rtc.closed => rtc'.closed)
  BY DEF Follows, Sound
<1>2. AdaptiveTypeOK'
  BY <1>1 DEF AdaptiveTypeOK
<1>3. Quiet' /\ Told' /\ Control'
  BY <1>1 DEF Quiet, Told, Control
<1>4. Stages'
  BY <1>1 DEF Stages
<1>5. OneRecovery'
  BY DEF OneRecovery, Recoveries
<1>6. DetachedIsHealthy'
  <2>1. negotiation = "rtc" => ~established
    BY DEF Stages
  <2>2. QED
    BY <2>1 DEF DetachedIsHealthy, DataPlaneAlive, Follows
<1>7. CandidatesReachPeer'
  BY <1>1 DEF CandidatesReachPeer, KeepsCandidates, Sound
<1>8. QED
  BY <1>1, <1>2, <1>3, <1>4, <1>5, <1>6, <1>7

LEMMA RtcBecomesKeeps ==
    ASSUME AdaptiveInv, NEW c, Follows(rtc, c), RtcBecomes(c)
    PROVE  AdaptiveInv'
<1>1. CASE negotiation = "rtc" /\ RtcResolved(c)
  BY <1>1, RtcResolvedKeeps
<1>2. CASE negotiation = "rtc" /\ RtcRejected(c)
  BY <1>2, RtcRejectedKeeps
<1>3. CASE hasRtc /\ FailWith(c)
  BY <1>3, FailKeeps DEF AdaptiveInv, Quiet
<1>4. CASE /\ IF negotiation = "rtc" THEN c.result = "waiting"
               ELSE ~(c.closes > rtc.closes /\ hasRtc /\ dataMode = "webrtc")
           /\ rtc' = c
           /\ UNCHANGED <<options, lifetime, control, authorized, negotiation, dataMode, established,
                          dataSocket, hasRtc, offered, outcome, lease, told>>
  <2>1. hasRtc /\ dataMode = "webrtc" => negotiation = "rtc" \/ c.closes = rtc.closes
    <3>1. c.closes \in Nat /\ rtc.closes \in Nat /\ c.closes >= rtc.closes
      BY DEF AdaptiveInv, Follows, Sound, Channel
    <3>2. QED
      BY <1>4, <3>1
  <2>2. hasRtc /\ ~c.closed => offered' \subseteq c.buffered \cup c.added
    BY <1>4 DEF AdaptiveInv, CandidatesReachPeer, KeepsCandidates, Follows
  <2>3. offered' \subseteq Candidates
    BY <1>4 DEF AdaptiveInv, AdaptiveTypeOK
  <2>4. QED
    BY <1>4, <2>1, <2>2, <2>3, ChannelKeeps
<1>5. QED
  BY <1>1, <1>2, <1>3, <1>4 DEF RtcBecomes

LEMMA IceFetchedKeeps ==
    ASSUME AdaptiveInv, IceFetched
    PROVE  AdaptiveInv'
<1> USE DEF AdaptiveInv, IceFetched, control
<1>1. Sound(rtc') /\ rtc'.made /\ ~rtc'.closed /\ rtc'.remote # "set" /\ rtc' \in Channel
  BY OpeningSound DEF Sound
<1>2. lifetime = "live" /\ ~established /\ authorized /\ ~rtc.made /\ offered = {}
  BY DEF Quiet, Stages
<1>3. AdaptiveTypeOK'
  BY <1>1 DEF AdaptiveTypeOK
<1>4. Quiet' /\ Told' /\ Control' /\ Stages'
  BY <1>1, <1>2 DEF Quiet, Told, Control, Stages
<1>5. OneRecovery' /\ DetachedIsHealthy' /\ CandidatesReachPeer'
  BY <1>1, <1>2 DEF OneRecovery, Recoveries, DetachedIsHealthy, CandidatesReachPeer,
                    KeepsCandidates
<1>6. QED
  BY <1>1, <1>3, <1>4, <1>5

LEMMA RtcOfferKeeps ==
    ASSUME AdaptiveInv, RtcOffer
    PROVE  AdaptiveInv'
<1>1. Sound(rtc)
  BY DEF AdaptiveInv
<1>2. CASE RtcBecomes(OfferFails(rtc))
  BY <1>1, <1>2, OfferFollows, RtcBecomesKeeps
<1>3. ASSUME NEW c, c \in {[rtc EXCEPT !.offer = "failed"], OfferGoesOut(rtc)}, rtc' = c,
             UNCHANGED <<options, lifetime, control, authorized, negotiation, dataMode,
                         established, dataSocket, hasRtc, offered, outcome, lease, told>>
      PROVE  AdaptiveInv'
  <2>1. Follows(rtc, c)
    BY <1>1, <1>3, OfferFollows
  <2>2. c.closes = rtc.closes
    BY <1>1, <1>3 DEF OfferGoesOut, Sound, Channel
  <2>3. hasRtc /\ ~c.closed => offered' \subseteq c.buffered \cup c.added
    BY <1>3, <2>1 DEF AdaptiveInv, CandidatesReachPeer, KeepsCandidates, Follows
  <2>4. offered' \subseteq Candidates
    BY <1>3 DEF AdaptiveInv, AdaptiveTypeOK
  <2>5. QED
    BY <1>3, <2>1, <2>2, <2>3, <2>4, ChannelKeeps
<1>4. QED
  BY <1>2, <1>3 DEF RtcOffer

LEMMA RtcCandidateKeeps ==
    ASSUME AdaptiveInv, RtcCandidate
    PROVE  AdaptiveInv'
<1>1. PICK i \in Candidates \ offered :
        /\ offered' = offered \cup {i} /\ rtc' = Candidate(rtc, i)
        /\ UNCHANGED <<options, lifetime, control, authorized, negotiation, dataMode, established,
                       dataSocket, hasRtc, outcome, lease, told>>
  BY DEF RtcCandidate
<1> DEFINE c == Candidate(rtc, i)
<1>2. Sound(rtc) /\ hasRtc /\ rtc.made /\ offered \subseteq Candidates
  BY DEF AdaptiveInv, RtcCandidate, Stages, AdaptiveTypeOK
<1>3. /\ Follows(rtc, c) /\ c.closed = rtc.closed
      /\ ~rtc.closed => i \in c.buffered \cup c.added
  BY <1>2, CandidateFollows
<1>4. c.closes = rtc.closes
  BY <1>2 DEF Candidate, Sound, Channel
<1>5. c.closed = rtc.closed /\ (~c.closed => offered' \subseteq c.buffered \cup c.added)
  BY <1>1, <1>2, <1>3 DEF AdaptiveInv, CandidatesReachPeer, KeepsCandidates, Follows
<1>6. offered' \subseteq Candidates /\ rtc' = c
  BY <1>1, <1>2
<1> HIDE DEF c
<1>7. QED
  BY <1>1, <1>2, <1>3, <1>4, <1>5, <1>6, ChannelKeeps

(* The events that only reach the channel. *)
LEMMA ChannelEvents ==
    ASSUME AdaptiveInv,
           \/ RtcAnswer \/ RtcAnswerTaken \/ RtcOpens \/ RtcCloses \/ RtcFails \/ RtcGarbled
           \/ RtcTimeout \/ RtcStats \/ RtcPath
    PROVE  AdaptiveInv'
<1>1. Sound(rtc)
  BY DEF AdaptiveInv
<1>2. \E c : Follows(rtc, c) /\ RtcBecomes(c)
  <2>1. CASE RtcAnswer
    BY <1>1, <2>1, AnswerFollows DEF RtcAnswer
  <2>2. CASE RtcAnswerTaken
    BY <1>1, <2>2, AnswerFollows DEF RtcAnswerTaken
  <2>3. CASE RtcOpens
    BY <1>1, <2>3, OpensFollows DEF RtcOpens
  <2>4. CASE RtcCloses
    BY <1>1, <2>4, OpensFollows DEF RtcCloses
  <2>5. CASE RtcFails
    BY <1>1, <2>5, TimersFollow DEF RtcFails
  <2>6. CASE RtcGarbled
    BY <1>1, <2>6, CloseFollows DEF RtcGarbled
  <2>7. CASE RtcTimeout
    BY <1>1, <2>7, TimersFollow DEF RtcTimeout
  <2>8. CASE RtcStats
    BY <1>1, <2>8, TimersFollow DEF RtcStats
  <2>9. CASE RtcPath
    BY <1>1, <2>9, TimersFollow DEF RtcPath
  <2>10. QED
    BY <2>1, <2>2, <2>3, <2>4, <2>5, <2>6, <2>7, <2>8, <2>9
<1>3. QED
  BY <1>2, RtcBecomesKeeps

----------------------------------------------------------------------------
(* The data socket. *)
LEMMA DataOpensKeeps ==
    ASSUME AdaptiveInv, DataOpens
    PROVE  AdaptiveInv'
<1> USE DEF AdaptiveInv, DataOpens, control
<1>1. AdaptiveTypeOK' /\ Sound(rtc')
  BY DEF AdaptiveTypeOK
<1>2. Quiet' /\ Told' /\ Control' /\ Stages'
  BY DEF Quiet, Told, Control, Stages
<1>3. OneRecovery' /\ DetachedIsHealthy' /\ CandidatesReachPeer'
  BY DEF OneRecovery, Recoveries, DetachedIsHealthy, DataPlaneAlive, CandidatesReachPeer
<1>4. QED
  BY <1>1, <1>2, <1>3

LEMMA DataReadyKeeps ==
    ASSUME AdaptiveInv, DataReady
    PROVE  AdaptiveInv'
<1> USE DEF AdaptiveInv, DataReady, Finish
<1>1. negotiation = "attach" /\ lifetime = "live" /\ ~established /\ outcome = "waiting"
      /\ socket # "none" /\ authorized /\ lease.state = "none"
  BY DEF Stages, Quiet, Told, DetachedIsHealthy
<1>2. timers' \subseteq {"handshake", "attach", "recovery", "opening"}
      /\ ("recovery" \in timers' <=> "recovery" \in timers)
      /\ ("opening" \in timers' <=> "opening" \in timers)
  BY DEF AdaptiveTypeOK
<1>3. AdaptiveTypeOK' /\ Sound(rtc')
  BY <1>2 DEF AdaptiveTypeOK
<1>4. Quiet' /\ Told' /\ Control' /\ Stages'
  BY <1>1, <1>2 DEF Quiet, Told, Control, Stages
<1>5. OneRecovery'
  <2>1. Single' /\ Counted'
    BY <1>2, SingleIsOneRecovery DEF Single, Counted
  <2>2. QED
    BY <2>1, SingleIsOneRecovery, PTL
<1>6. DetachedIsHealthy' /\ CandidatesReachPeer'
  BY <1>1 DEF DetachedIsHealthy, CandidatesReachPeer
<1>7. QED
  BY <1>3, <1>4, <1>5, <1>6

----------------------------------------------------------------------------
(* The lease and the recovery. *)

(* Only the lease changes, and not away from confirmed. *)
LEMMA LeaseKeeps ==
    ASSUME AdaptiveInv, lifetime = "live", established,
           lease' \in [state : {"first", "confirmed"}, passed : BOOLEAN, asked : BOOLEAN],
           lease.state = "confirmed" => lease'.state = "confirmed",
           UNCHANGED <<options, lifetime, control, authorized, data, told>>
    PROVE  AdaptiveInv'
<1> USE DEF AdaptiveInv, control, data
<1>1. lease' \in [state : {"none", "first", "confirmed"}, passed : BOOLEAN, asked : BOOLEAN]
  OBVIOUS
<1>2. AdaptiveTypeOK' /\ Sound(rtc')
  BY <1>1 DEF AdaptiveTypeOK
<1>3. Quiet' /\ Told' /\ Control'
  BY DEF Quiet, Told, Control
<1>4. Stages'
  BY DEF Stages
<1>5. OneRecovery' /\ CandidatesReachPeer'
  BY DEF OneRecovery, Recoveries, CandidatesReachPeer
<1>6. DetachedIsHealthy'
  BY DEF DetachedIsHealthy, DataPlaneAlive
<1>7. QED
  BY <1>2, <1>3, <1>4, <1>5, <1>6

LEMMA LeaseActions ==
    ASSUME AdaptiveInv, MarkSecureReady \/ DeadlinePasses \/ LeaseTick \/ LeaseAck
    PROVE  AdaptiveInv'
<1> USE DEF AdaptiveInv
<1>1. lease \in [state : {"none", "first", "confirmed"}, passed : BOOLEAN, asked : BOOLEAN]
  BY DEF AdaptiveTypeOK
<1>2. established => lifetime = "live"
  BY DEF Quiet
<1>3. lease.state # "none" => established
  BY DEF Stages
<1>4. CASE MarkSecureReady
  BY <1>2, <1>4, LeaseKeeps DEF MarkSecureReady
<1>5. CASE DeadlinePasses
  <2>1. lease' \in [state : {"first", "confirmed"}, passed : BOOLEAN, asked : BOOLEAN]
        /\ lease'.state = lease.state
    BY <1>1, <1>5 DEF DeadlinePasses
  <2>2. QED
    BY <1>2, <1>3, <1>5, <2>1, LeaseKeeps DEF DeadlinePasses
<1>6. CASE LeaseTick
  <2>1. CASE Fail
    BY <1>2, <1>3, <1>6, <2>1, FailKeeps, FollowsItself DEF LeaseTick, Fail
  <2>2. CASE controlReady /\ ControlLost(TRUE)
    BY <2>2, ControlLostKeeps DEF Control
  <2>3. CASE Request /\ UNCHANGED <<options, lifetime, control, authorized, data, told>>
    <3>1. lease' \in [state : {"first", "confirmed"}, passed : BOOLEAN, asked : BOOLEAN]
          /\ lease'.state = lease.state
      BY <1>1, <1>6, <2>3 DEF LeaseTick, Request
    <3>2. QED
      BY <1>2, <1>3, <1>6, <2>3, <3>1, LeaseKeeps DEF LeaseTick
  <2>4. QED
    BY <1>6, <2>1, <2>2, <2>3 DEF LeaseTick
<1>7. CASE LeaseAck
  <2>1. socket = "open" /\ lifetime = "live"
    BY <1>7 DEF LeaseAck, Quiet
  <2>2. CASE Fail
    BY <2>1, <2>2, FailKeeps, FollowsItself DEF Fail
  <2>3. CASE /\ lease' = [state |-> "confirmed", passed |-> FALSE, asked |-> FALSE]
             /\ UNCHANGED <<options, lifetime, control, authorized, data, told>>
    <3>1. established
      BY <1>3, <1>7 DEF LeaseAck, Stages, NoLease
    <3>2. lease' \in [state : {"first", "confirmed"}, passed : BOOLEAN, asked : BOOLEAN]
          /\ lease'.state = "confirmed"
      BY <2>3
    <3>3. QED
      BY <2>1, <2>3, <3>1, <3>2, LeaseKeeps
  <2>4. QED
    BY <1>7, <2>2, <2>3 DEF LeaseAck
<1>8. QED
  BY <1>4, <1>5, <1>6, <1>7

LEMMA RecoveryFiresKeeps ==
    ASSUME AdaptiveInv, RecoveryFires
    PROVE  AdaptiveInv'
<1> USE DEF AdaptiveInv
<1>1. lifetime = "live" /\ "recovery" \in timers
  BY DEF RecoveryFires, Quiet
<1>2. CASE Fail
  BY <1>1, <1>2, FailKeeps, FollowsItself DEF Fail
<1>3. CASE /\ timers' = timers \ {"recovery"} /\ reopening' = TRUE
           /\ UNCHANGED <<options, lifetime, socket, sockets, owed, controlReady, authorized,
                          data, lease, told>>
  <2> USE <1>3 DEF data
  <2>1. AdaptiveTypeOK' /\ Sound(rtc')
    <3>1. timers' \subseteq {"handshake", "attach", "recovery", "opening"}
      BY DEF AdaptiveTypeOK
    <3>2. QED
      BY <3>1 DEF AdaptiveTypeOK
  <2>2. Quiet' /\ Told' /\ Control' /\ Stages'
    BY <1>1 DEF Quiet, Told, Control, Stages
  <2>3. OneRecovery'
    <3>1. Single' /\ Counted'
      BY <1>1, SingleIsOneRecovery DEF Single, Counted
    <3>2. QED
      BY <3>1, SingleIsOneRecovery, PTL
  <2>4. DetachedIsHealthy' /\ CandidatesReachPeer'
    BY DEF DetachedIsHealthy, DataPlaneAlive, CandidatesReachPeer
  <2>5. QED
    BY <2>1, <2>2, <2>3, <2>4
<1>4. QED
  BY <1>2, <1>3 DEF RecoveryFires

LEMMA TokenSettlesKeeps ==
    ASSUME AdaptiveInv, TokenSettles
    PROVE  AdaptiveInv'
<1> USE DEF AdaptiveInv
<1>1. reopening /\ reopening' = FALSE
  BY DEF TokenSettles
<1>2. CASE lifetime = "over" /\ UNCHANGED <<options, lifetime, socket, sockets, owed, controlReady,
                                            timers, authorized, data, lease, told>>
  <2> USE <1>1, <1>2 DEF data
  <2>1. AdaptiveTypeOK' /\ Sound(rtc')
    <3>1. /\ rtc' \in Channel /\ Sound(rtc') /\ sockets' \in Nat
          /\ timers' \subseteq {"handshake", "attach", "recovery", "opening"}
      BY DEF AdaptiveTypeOK
    <3>2. /\ options' \in Options /\ lifetime' \in {"live", "over"} /\ authorized' \in BOOLEAN
          /\ lease' \in [state : {"none", "first", "confirmed"}, passed : BOOLEAN, asked : BOOLEAN]
          /\ told' \in Nat /\ negotiation' \in {"none", "ice", "rtc", "attach"}
          /\ dataMode' \in {"relay", "webrtc"} /\ established' \in BOOLEAN
          /\ dataSocket' \in {"none", "connecting", "open", "ready"} /\ hasRtc' \in BOOLEAN
          /\ offered' \subseteq Candidates /\ controlReady' \in BOOLEAN
          /\ outcome' \in {"none", "waiting", "resolved", "rejected"}
          /\ owed' \in {"none", "hello", "request"} /\ socket' \in {"none", "connecting", "open"}
      BY DEF AdaptiveTypeOK
    <3> HIDE <1>2
    <3>3. QED
      BY <1>1, <3>1, <3>2 DEF AdaptiveTypeOK
  <2>2. Quiet' /\ Told' /\ Control' /\ Stages'
    BY DEF Quiet, Told, Control, Stages
  <2>3. OneRecovery' /\ DetachedIsHealthy' /\ CandidatesReachPeer'
    BY DEF OneRecovery, DetachedIsHealthy, CandidatesReachPeer
  <2>4. QED
    BY <2>1, <2>2, <2>3
<1>3. CASE lifetime = "live" /\ End(rtc)
  BY <1>1, <1>3, EndKeeps, FollowsItself
<1>4. CASE lifetime = "live" /\ \E retryable \in BOOLEAN : Lose(retryable)
  BY <1>1, <1>4, LoseKeeps
<1>5. CASE lifetime = "live" /\ CanDetach /\ ReopenSocket
  <2> USE <1>1, <1>5 DEF ReopenSocket, data
  <2>1. /\ established /\ lease.state = "confirmed" /\ negotiation = "none" /\ authorized
        /\ socket = "none" /\ sockets = 0 /\ "recovery" \notin timers /\ ~controlReady
        /\ owed = "none"
    BY SingleIsOneRecovery DEF CanDetach, Stages, Single, Control
  <2>2. AdaptiveTypeOK' /\ Sound(rtc')
    <3>1. timers' \subseteq {"handshake", "attach", "recovery", "opening"} /\ sockets' \in Nat
      BY <2>1 DEF AdaptiveTypeOK
    <3>2. /\ options' \in Options /\ lifetime' \in {"live", "over"} /\ authorized' \in BOOLEAN
          /\ lease' \in [state : {"none", "first", "confirmed"}, passed : BOOLEAN, asked : BOOLEAN]
          /\ told' \in Nat /\ negotiation' \in {"none", "ice", "rtc", "attach"}
          /\ dataMode' \in {"relay", "webrtc"} /\ established' \in BOOLEAN
          /\ dataSocket' \in {"none", "connecting", "open", "ready"} /\ hasRtc' \in BOOLEAN
          /\ offered' \subseteq Candidates /\ controlReady' \in BOOLEAN
          /\ outcome' \in {"none", "waiting", "resolved", "rejected"}
          /\ owed' \in {"none", "hello", "request"} /\ socket' \in {"none", "connecting", "open"}
      BY DEF AdaptiveTypeOK
    <3>3. rtc' \in Channel /\ Sound(rtc')
      BY DEF AdaptiveTypeOK
    <3> HIDE <1>5
    <3>4. QED
      BY <1>1, <3>1, <3>2, <3>3 DEF AdaptiveTypeOK
  <2>3. Quiet' /\ Told' /\ Control' /\ Stages'
    BY <2>1 DEF Quiet, Told, Control, Stages
  <2>4. OneRecovery'
    <3>1. Single' /\ Counted'
      BY <2>1 DEF Single, Counted
    <3>2. QED
      BY <3>1, SingleIsOneRecovery, PTL
  <2>5. DetachedIsHealthy' /\ CandidatesReachPeer'
    BY DEF DetachedIsHealthy, CandidatesReachPeer
  <2>6. QED
    BY <2>2, <2>3, <2>4, <2>5
<1>6. QED
  BY <1>2, <1>3, <1>4, <1>5 DEF TokenSettles

LEMMA AdaptiveStutters ==
    ASSUME AdaptiveInv, UNCHANGED vars
    PROVE  AdaptiveInv'
<1> USE DEF AdaptiveInv, vars, control, data
<1>1. AdaptiveTypeOK' /\ Sound(rtc') /\ Quiet' /\ Told' /\ Control' /\ Stages'
  BY DEF AdaptiveTypeOK, Quiet, Told, Control, Stages
<1>2. OneRecovery' /\ DetachedIsHealthy' /\ CandidatesReachPeer'
  BY DEF OneRecovery, Recoveries, DetachedIsHealthy, DataPlaneAlive, CandidatesReachPeer
<1>3. QED
  BY <1>1, <1>2

LEMMA AdaptiveStep == AdaptiveInv /\ [Next]_vars => AdaptiveInv'
<1> SUFFICES ASSUME AdaptiveInv, [Next]_vars PROVE AdaptiveInv'
  OBVIOUS
<1>1. CASE Connect \/ SocketOpens \/ HelloAck \/ Accepted
  BY <1>1, ConnectKeeps, SocketOpensKeeps, HelloAckKeeps, AcceptedKeeps
<1>2. CASE \/ ErrorFrame \/ HandshakeTimeout \/ AttachTimeout \/ Abort \/ CloseCall
           \/ DataLost \/ UseExpired \/ SocketLost \/ OpeningTimeout
  BY <1>2, FailingActions, LosingActions
<1>3. CASE IceFetched \/ RtcOffer \/ RtcCandidate
  BY <1>3, IceFetchedKeeps, RtcOfferKeeps, RtcCandidateKeeps
<1>4. CASE \/ RtcAnswer \/ RtcAnswerTaken \/ RtcOpens \/ RtcCloses \/ RtcFails \/ RtcGarbled
           \/ RtcTimeout \/ RtcStats \/ RtcPath
  BY <1>4, ChannelEvents
<1>5. CASE DataOpens \/ DataReady
  BY <1>5, DataOpensKeeps, DataReadyKeeps
<1>6. CASE MarkSecureReady \/ DeadlinePasses \/ LeaseTick \/ LeaseAck
  BY <1>6, LeaseActions
<1>7. CASE RecoveryFires \/ TokenSettles
  BY <1>7, RecoveryFiresKeeps, TokenSettlesKeeps
<1>8. CASE UNCHANGED vars
  BY <1>8, AdaptiveStutters
<1>9. QED
  BY <1>1, <1>2, <1>3, <1>4, <1>5, <1>6, <1>7, <1>8 DEF Next

LEMMA AdaptiveHolds == Spec => []AdaptiveInv
<1>1. QED
  BY AdaptiveStarts, AdaptiveStep, PTL DEF Spec

----------------------------------------------------------------------------
(* Every variable of the transport stays within its range, whatever the    *)
(* Server and the host send.                                               *)
THEOREM AdaptiveTypes == Spec => []AdaptiveTypeOK
<1>1. AdaptiveInv => AdaptiveTypeOK
  BY DEF AdaptiveInv
<1>2. QED
  BY <1>1, AdaptiveHolds, PTL

(* A transport that is over holds no socket, timer, lease or peer          *)
(* connection, whichever wait was still running when it ended.             *)
THEOREM EndLeavesNothing == Spec => []EndReleases
<1>1. AdaptiveInv => EndReleases
  BY DEF AdaptiveInv, EndReleases, Quiet, Control, Sound
<1>2. QED
  BY <1>1, AdaptiveHolds, PTL

(* The control connection is one socket, or one recovery of it.            *)
THEOREM RecoveryIsSingle == Spec => []OneRecovery
<1>1. AdaptiveInv => OneRecovery
  BY DEF AdaptiveInv
<1>2. QED
  BY <1>1, AdaptiveHolds, PTL

(* A session without its control connection has a confirmed lease and the  *)
(* data plane it was authorized with.                                      *)
THEOREM DetachedSessions == Spec => []DetachedIsHealthy
<1>1. AdaptiveInv => DetachedIsHealthy
  BY DEF AdaptiveInv
<1>2. QED
  BY <1>1, AdaptiveHolds, PTL

(* No remote candidate is lost, whatever the order of answer and           *)
(* candidates and however many there are.                                  *)
THEOREM CandidatesAreKept == Spec => []CandidatesReachPeer
<1>1. AdaptiveInv => CandidatesReachPeer
  BY DEF AdaptiveInv
<1>2. QED
  BY <1>1, AdaptiveHolds, PTL

----------------------------------------------------------------------------
(* The refinement: a step of the transport is one of the contract, or      *)
(* none.                                                                   *)
(* What the owner sees of a step. *)
Ends   == lifetime = "live" /\ lifetime' = "over" /\ told' = 1
Starts == lifetime = "none" /\ lifetime' = "live" /\ outcome' = "waiting" /\ told' = told
Opened == lifetime = "live" /\ outcome = "waiting" /\ lifetime' = "live"
          /\ outcome' = "resolved" /\ told' = told
Unseen == UNCHANGED <<lifetime, outcome, told>>

LEMMA EndIsSeen ==
    ASSUME AdaptiveInv, lifetime = "live", NEW c, End(c)
    PROVE  Ends
BY DEF AdaptiveInv, End, Ends, Told, DetachedIsHealthy, AdaptiveTypeOK

LEMMA LoseIsSeen ==
    ASSUME AdaptiveInv, lifetime = "live", NEW retryable \in BOOLEAN, Lose(retryable)
    PROVE  Ends \/ Unseen
<1>1. CASE Detach
  BY <1>1 DEF Detach, data, Unseen
<1>2. CASE End(rtc)
  BY <1>2, EndIsSeen
<1>3. QED
  BY <1>1, <1>2 DEF Lose

LEMMA RelayIsSeen ==
    ASSUME AdaptiveInv, lifetime = "live", ~established, NEW c, UseRelay(c),
           UNCHANGED <<lifetime, told>>
    PROVE  Opened \/ Unseen
BY DEF AdaptiveInv, UseRelay, Finish, Told, Opened, Unseen

LEMMA RtcIsSeen ==
    ASSUME AdaptiveInv, NEW c, RtcBecomes(c)
    PROVE  Ends \/ Opened \/ Unseen
<1>1. CASE negotiation = "rtc" /\ RtcResolved(c)
  <2>1. lifetime = "live" /\ ~established /\ outcome = "waiting"
    BY <1>1 DEF AdaptiveInv, Quiet, Stages, Told
  <2>2. QED
    BY <1>1, <2>1, EndIsSeen, RelayIsSeen DEF RtcResolved, FailWith, Finish, Opened
<1>2. CASE negotiation = "rtc" /\ RtcRejected(c)
  <2>1. lifetime = "live" /\ ~established
    BY <1>2 DEF AdaptiveInv, Quiet, Stages
  <2>2. QED
    BY <1>2, <2>1, EndIsSeen, RelayIsSeen DEF RtcRejected, FailWith
<1>3. CASE hasRtc /\ FailWith(c)
  BY <1>3, EndIsSeen DEF AdaptiveInv, Quiet, FailWith
<1>4. QED
  BY <1>1, <1>2, <1>3 DEF RtcBecomes, Unseen

LEMMA StepIsSeen ==
    ASSUME AdaptiveInv, [Next]_vars
    PROVE  Starts \/ Ends \/ Opened \/ Unseen
<1> USE DEF control, data
<1>1. CASE Connect \/ SocketOpens
  BY <1>1 DEF Connect, SocketOpens, AdaptiveInv, Starts, Unseen
<1>2. ASSUME Fail, lifetime = "live" PROVE Ends
  BY <1>2, EndIsSeen DEF Fail, FailWith
<1>3. CASE HelloAck
  BY <1>2, <1>3 DEF HelloAck, AdaptiveInv, Quiet, Unseen
<1>4. CASE Accepted
  <2>1. lifetime = "live" /\ ~established
    BY <1>4 DEF Accepted, AdaptiveInv, Quiet, Stages
  <2>2. QED
    BY <1>4, <2>1, RelayIsSeen DEF Accepted, Unseen
<1>5. CASE \/ ErrorFrame \/ HandshakeTimeout \/ AttachTimeout \/ Abort \/ CloseCall
           \/ DataLost \/ UseExpired
  BY <1>2, <1>5 DEF ErrorFrame, HandshakeTimeout, AttachTimeout, Abort, CloseCall, DataLost,
                   UseExpired, AdaptiveInv, Quiet, NoLease
<1>6. CASE SocketLost \/ OpeningTimeout
  BY <1>6, LoseIsSeen DEF SocketLost, OpeningTimeout, ControlLost, AdaptiveInv, Quiet
<1>7. CASE RtcOffer
  BY <1>7, RtcIsSeen DEF RtcOffer, Unseen
<1>8. CASE \/ RtcAnswer \/ RtcAnswerTaken \/ RtcOpens \/ RtcCloses \/ RtcFails \/ RtcGarbled
           \/ RtcTimeout \/ RtcStats \/ RtcPath
  BY <1>8, RtcIsSeen DEF RtcAnswer, RtcAnswerTaken, RtcOpens, RtcCloses, RtcFails, RtcGarbled,
                         RtcTimeout, RtcStats, RtcPath
<1>9. CASE IceFetched \/ RtcCandidate \/ DataOpens \/ MarkSecureReady \/ DeadlinePasses
  BY <1>9 DEF IceFetched, RtcCandidate, DataOpens, MarkSecureReady, DeadlinePasses, Unseen
<1>10. CASE DataReady
  BY <1>10 DEF DataReady, Finish, AdaptiveInv, Stages, Quiet, Told, Opened
<1>11. CASE LeaseTick
  <2>1. lifetime = "live"
    BY <1>11 DEF LeaseTick, AdaptiveInv, Quiet, NoLease
  <2>2. QED
    BY <1>2, <1>11, <2>1, LoseIsSeen DEF LeaseTick, ControlLost, Unseen
<1>12. CASE LeaseAck \/ RecoveryFires
  BY <1>2, <1>12 DEF LeaseAck, RecoveryFires, AdaptiveInv, Quiet, Unseen
<1>13. CASE TokenSettles
  BY <1>13, EndIsSeen, LoseIsSeen DEF TokenSettles, ReopenSocket, Unseen
<1>14. CASE UNCHANGED vars
  BY <1>14 DEF vars, Unseen
<1>15. QED
  BY <1>1, <1>3, <1>4, <1>5, <1>6, <1>7, <1>8, <1>9, <1>10, <1>11, <1>12, <1>13, <1>14 DEF Next

LEMMA PhaseValue ==
    /\ lifetime = "none" => Phase = "idle"
    /\ lifetime = "over" => Phase = "over"
    /\ lifetime = "live" => Phase = IF outcome = "resolved" THEN "connected" ELSE "connecting"
    /\ lifetime' = "over" => Phase' = "over"
    /\ lifetime' = "live" => Phase' = IF outcome' = "resolved" THEN "connected" ELSE "connecting"
BY DEF Phase

(* The transport implements the contract of a RemoteTransport: connect()   *)
(* settles once and its end is told exactly once.                          *)
THEOREM AdaptiveImplements == Spec => ImplementsContract
<1>1. Init => Contract!Init
  BY DEF Init, Contract!Init, Phase
<1>2. AdaptiveInv /\ [Next]_vars => [Contract!Next]_(Contract!vars)
  <2> SUFFICES ASSUME AdaptiveInv, [Next]_vars PROVE [Contract!Next]_(Contract!vars)
    OBVIOUS
  <2>1. Starts \/ Ends \/ Opened \/ Unseen
    BY StepIsSeen
  <2>2. told \in Nat /\ (lifetime # "over" => told = 0)
    BY DEF AdaptiveInv, Told, AdaptiveTypeOK
  <2>3. CASE Starts
    BY <2>3, PhaseValue DEF Starts, Contract!Next, Contract!Connect
  <2>4. CASE Ends
    BY <2>2, <2>4, PhaseValue DEF Ends, Contract!Next, Contract!Over
  <2>5. CASE Opened
    BY <2>5, PhaseValue DEF Opened, Contract!Next, Contract!Connected
  <2>6. CASE Unseen
    BY <2>6 DEF Unseen, Contract!vars, Phase
  <2>7. QED
    BY <2>1, <2>3, <2>4, <2>5, <2>6
<1>3. QED
  BY <1>1, <1>2, AdaptiveHolds, PTL DEF Spec, ImplementsContract, Contract!Spec
=============================================================================
