------------------------ MODULE BoundedAuthorization ------------------------
(***************************************************************************)
(* What an authorization lease promises, whatever happens to clocks,       *)
(* timers and messages.  Once the Server withdrew the authorization of a   *)
(* connection, its endpoint admits data for less than one lease period     *)
(* more.  What was admitted may be carried later, until the data plane is  *)
(* closed; nothing is after that                                           *)
(* (docs/design/webrtc-control-recovery.md, "Authorization tradeoff").     *)
(*                                                                         *)
(* An endpoint that takes some of its data unasked promises only the close *)
(* for that part.                                                          *)
(***************************************************************************)
EXTENDS Naturals

CONSTANT Lease  \* WEBRTC_LEASE_MS

VARIABLES
    now,        \* physical time
    revoked,    \* the Server withdrew the authorization ...
    revokedAt,  \* ... at this time
    unasked,    \* the endpoint takes data without asking the lease
    underway,   \* something admitted has not been carried yet
    done,       \* what was done with data at this moment: "admit", "carry"
    stopped,    \* nothing more is admitted
    closed      \* the data plane is closed

authorization == <<revoked, revokedAt, unasked>>
data          == <<underway, done>>
vars          == <<now, authorization, data, stopped, closed>>

Init ==
    /\ now = 0 /\ ~revoked /\ revokedAt = 0 /\ unasked \in BOOLEAN
    /\ ~underway /\ done = {} /\ ~stopped /\ ~closed

Pass == now' = now + 1 /\ done' = {} /\ UNCHANGED <<authorization, underway, stopped, closed>>

Withdraw ==
    /\ ~revoked /\ revoked' = TRUE /\ revokedAt' = now
    /\ UNCHANGED <<now, unasked, data, stopped, closed>>

Admit ==
    /\ ~stopped
    /\ revoked => now < revokedAt + Lease
    /\ done' = done \cup {"admit"} /\ underway' = TRUE
    /\ UNCHANGED <<now, authorization, stopped, closed>>

Carry ==
    /\ ~closed
    /\ underway \/ unasked
    /\ done' = done \cup {"carry"} /\ underway' \in {underway, FALSE}
    /\ UNCHANGED <<now, authorization, stopped, closed>>

(* Closing may take a while, and what is underway is lost with it. *)
Close ==
    /\ ~closed
    /\ stopped' = TRUE /\ closed' \in BOOLEAN
    /\ underway' = (underway /\ ~closed') /\ done' = {}
    /\ UNCHANGED <<now, authorization>>

Next == Pass \/ Withdraw \/ Admit \/ Carry \/ Close

Spec == Init /\ [][Next]_vars
=============================================================================
