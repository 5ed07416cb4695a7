--------------------------- MODULE RtcDataChannel ---------------------------
(***************************************************************************)
(* The initiator's end of one WebRTC DataChannel, an RtcDataChannelTransport *)
(* (packages/webrtc/src/rtc-data-channel.ts), as a record and one operator *)
(* per event.  The owner applies an operator and then looks at result (what *)
(* connect() did) and closes (how often the close handlers were called).   *)
(*                                                                         *)
(* Telemetry, the send watchdog (off unless asked for, and nobody asks),   *)
(* chunking and the contents of descriptions and candidates are left out.  *)
(***************************************************************************)
EXTENDS Naturals

CONSTANT Candidates  \* remote ICE candidates

Channel == [
    made      : BOOLEAN,     \* the object exists
    offer     : {"none", "making", "sent", "failed"},
    remote    : {"none", "setting", "set"},   \* setRemoteDescription
    buffered  : SUBSET Candidates,
    added     : SUBSET Candidates,
    ready     : {"none", "connecting", "open", "closed"},  \* readyState
    opened    : BOOLEAN,
    closed    : BOOLEAN,
    pending   : BOOLEAN,     \* openReject is defined
    armed     : BOOLEAN,     \* the negotiation timer and the abort listener
    failing   : BOOLEAN,     \* failOpenAfterStats reads the statistics
    selecting : BOOLEAN,     \* resolveSelectedTransport is running
    result    : {"none", "waiting", "resolved", "rejected"},
    closes    : Nat]

NoChannel == [
    made |-> FALSE, offer |-> "none", remote |-> "none", buffered |-> {}, added |-> {},
    ready |-> "none", opened |-> FALSE, closed |-> FALSE, pending |-> FALSE, armed |-> FALSE,
    failing |-> FALSE, selecting |-> FALSE, result |-> "none", closes |-> 0]

(* The constructor and connect(), up to the first await of startInitiator. *)
Opening == [NoChannel EXCEPT
    !.made = TRUE, !.offer = "making", !.ready = "connecting",
    !.pending = TRUE, !.armed = TRUE, !.result = "waiting"]

----------------------------------------------------------------------------
(* close(): idempotent; the handlers hear of it if the channel was open.   *)
Close(c) ==
    IF ~c.made \/ c.closed THEN c
    ELSE [c EXCEPT
        !.closed = TRUE, !.opened = FALSE, !.armed = FALSE, !.pending = FALSE,
        !.ready = IF c.ready = "none" THEN "none" ELSE "closed",
        !.result = IF c.pending THEN "rejected" ELSE c.result,
        !.closes = IF c.opened THEN c.closes + 1 ELSE c.closes]

(* failOpen(): nothing once the channel is open. *)
FailOpen(c) == IF c.opened \/ ~c.pending THEN c ELSE Close(c)

(* createOffer and setLocalDescription: the offer goes out, or they throw. *)
OfferGoesOut(c) == [c EXCEPT !.offer = "sent"]
OfferFails(c)   == FailOpen([c EXCEPT !.offer = "failed"])

(* handleAnswer(), up to its await; an answer after that is unexpected. *)
Answer(c) ==
    IF c.closed THEN c
    ELSE IF c.remote = "set" THEN FailOpen(c)
    ELSE [c EXCEPT !.remote = "setting"]

(* ... and after it: candidates that came before are added now. *)
AnswerTaken(c) == [c EXCEPT !.remote = "set", !.added = @ \cup c.buffered, !.buffered = {}]

(* ... or the description is refused. *)
AnswerRefused(c) == FailOpen([c EXCEPT !.remote = "none"])

Candidate(c, i) ==
    IF c.closed THEN c
    ELSE IF c.remote = "set" THEN [c EXCEPT !.added = @ \cup {i}]
    ELSE [c EXCEPT !.buffered = @ \cup {i}]

(* Mutant: the timer is disarmed, and nobody waits for the path. *)
OpensUnresolved(c) == [c EXCEPT !.opened = TRUE, !.armed = FALSE, !.ready = "open"]

(* channel.onopen: negotiation can no longer time out or be aborted; the   *)
(* promise waits for the selected path.                                    *)
Opens(c) == [c EXCEPT !.ready = "open", !.opened = TRUE, !.armed = FALSE, !.selecting = TRUE]

(* resolveSelectedTransport ends, with or without a path. *)
PathKnown(c) ==
    IF c.closed THEN [c EXCEPT !.selecting = FALSE]
    ELSE [c EXCEPT !.selecting = FALSE, !.pending = FALSE,
                   !.result = IF c.pending THEN "resolved" ELSE c.result]

(* channel.onclose: the remote end or the network closed it. *)
Closes(c) ==
    LET f == FailOpen([c EXCEPT !.ready = "closed"])
    IN  IF f.opened THEN [f EXCEPT !.opened = FALSE, !.closes = @ + 1] ELSE f

(* checkConnectionState() and the negotiation timer: both fail the open    *)
(* only after another look at the statistics.                              *)
PeerFails(c) == IF c.closed \/ c.opened THEN c ELSE [c EXCEPT !.failing = TRUE]
TimesOut(c)  == [c EXCEPT !.armed = FALSE, !.failing = TRUE]
StatsRead(c) == FailOpen([c EXCEPT !.failing = FALSE])

(* Every candidate handed over is buffered or added, and none is buffered  *)
(* once the remote description is there (handleIce, flushRemoteCandidates).*)
KeepsCandidates(c, offered) ==
    /\ ~c.closed => offered \subseteq c.buffered \cup c.added
    /\ c.remote = "set" => c.buffered = {}
=============================================================================
