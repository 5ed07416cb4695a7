-------------------------- MODULE RemoteTransport --------------------------
(***************************************************************************)
(* What a RemoteTransport promises its owner (packages/webrtc/src/         *)
(* transport.ts and its users): one connect() that succeeds or fails once, *)
(* data only while it is connected, and one onClose call when it is over.  *)
(* A failed or closed transport stays so.                                  *)
(***************************************************************************)
EXTENDS Naturals

VARIABLES
    phase,  \* of the transport
    told    \* calls of the onClose handlers

vars == <<phase, told>>

Init == phase = "idle" /\ told = 0

Connect == phase = "idle" /\ phase' = "connecting" /\ told' = told

Connected == phase = "connecting" /\ phase' = "connected" /\ told' = told

(* A connect() that fails, a loss, or close(): told exactly once. *)
Over == phase \in {"connecting", "connected"} /\ phase' = "over" /\ told' = told + 1

Next == Connect \/ Connected \/ Over

Spec == Init /\ [][Next]_vars
=============================================================================
