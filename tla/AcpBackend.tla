----------------------------- MODULE AcpBackend -----------------------------
(***************************************************************************)
(* One backend of the Host's ACP gateway (packages/plugin/src/acp/         *)
(* gateway.ts): the adapter installed for it, the retries after a crash,   *)
(* and a change of the saved settings.  These are the pieces that          *)
(* AcpGateway composes with what happens to the session at the same time.  *)
(*                                                                         *)
(* Adapters are numbered in the order they were installed.  The backend    *)
(* stays enabled: what a change of settings does to it is to stop it and   *)
(* start it again.  Of the other backends it is chosen whether one of them *)
(* answers and whether its processes can be stopped.                       *)
(***************************************************************************)
EXTENDS Naturals

CONSTANTS
    Budget,      \* restartDelaysMs.length
    MaxGen,      \* bound: adapters that are installed
    MaxResets    \* bound: changes of the settings

ASSUME BackendAssumption == Budget \in Nat /\ MaxGen \in Nat \ {0} /\ MaxResets \in Nat

None == 0

VARIABLES
    instance,      \* the adapter in backendInstances
    ready,         \* its isReady()
    made,          \* adapters installed so far
    fenced,        \* the backend is in pendingReconfiguration
    attempts,      \* restartAttempts
    timer,         \* restartTimers has the backend
    launching,     \* who awaits the launch in flight
    settling,      \* calls of handleUnavailable() that are suspended
    reset,         \* the stage of reconfigure(), whether this backend is
                   \* among the changed ones, and its session among theirs
    resets

adapter == <<instance, ready, made>>
retries == <<attempts, timer, launching, settling>>
backend == <<adapter, retries, fenced, reset, resets>>

Gen    == 0..MaxGen
Stages == {"none", "stopping", "failing", "disposing", "starting"}
NoReset == [stage |-> "none", mine |-> FALSE, scoped |-> FALSE]

BackendTypeOK ==
    /\ instance \in Gen /\ made \in Gen /\ instance <= made
    /\ ready \in BOOLEAN /\ (ready => instance # None)
    /\ fenced \in BOOLEAN /\ timer \in BOOLEAN
    /\ attempts \in 0..Budget /\ settling \in Nat /\ resets \in 0..MaxResets
    /\ launching \in SUBSET {"retry", "start"}
    /\ reset \in [stage : Stages, mine : BOOLEAN, scoped : BOOLEAN]

(* start() has installed the first adapter. *)
BackendInit ==
    /\ instance = 1 /\ ready = TRUE /\ made = 1 /\ fenced = FALSE
    /\ attempts = 0 /\ timer = FALSE /\ launching = {} /\ settling = 0
    /\ reset = NoReset /\ resets = 0

(* requireAcp() returns the adapter instead of throwing. *)
Available == ready /\ ~fenced

----------------------------------------------------------------------------
(* Mutant: the budget is not looked at. *)
ScheduleForever(pending, attempt) ==
    /\ timer' = TRUE
    /\ attempts' = IF pending THEN attempt ELSE attempt + 1

(* scheduleBackendRestart(): a timer that is set stays, and a budget that  *)
(* is spent ends it.                                                       *)
ScheduleRestart(pending, attempt) ==
    LET set == ~pending /\ attempt # Budget IN
    /\ timer' = (pending \/ set)
    /\ attempts' = IF set THEN attempt + 1 ELSE attempt

(* The adapter dies and handleUnavailable() runs to its first await. *)
AdapterDies ==
    /\ ready /\ ready' = FALSE /\ settling' = settling + 1
    /\ UNCHANGED <<instance, made, attempts, timer, launching, fenced, reset, resets>>

(* The streams are closed and the retry is scheduled; after real uptime    *)
(* the budget is full again.                                               *)
Settle(stable) ==
    /\ settling > 0 /\ settling' = settling - 1
    /\ ScheduleRestart(timer, IF stable THEN 0 ELSE attempts)
    /\ UNCHANGED <<adapter, launching, fenced, reset, resets>>

(* restartBackend(): there may be nothing to launch, or a launch to join.  *)
RetryTimer ==
    /\ timer
    /\ IF fenced THEN ScheduleRestart(FALSE, attempts) /\ UNCHANGED launching
       ELSE /\ timer' = FALSE /\ UNCHANGED attempts
            /\ launching' = IF ready THEN launching ELSE launching \cup {"retry"}
    /\ UNCHANGED <<adapter, settling, fenced, reset, resets>>

(* A new adapter is up and takes the place of the dead one. *)
LaunchSucceeds ==
    /\ launching # {} /\ ~fenced /\ made < MaxGen
    /\ made' = made + 1 /\ instance' = made + 1 /\ ready' = TRUE /\ launching' = {}
    /\ UNCHANGED <<attempts, timer, settling, fenced, reset, resets>>

(* The launch fails, or is given up because the backend is fenced.  When   *)
(* start() is left with no backend at all it clears the table.             *)
LaunchFails(others) ==
    /\ launching # {} /\ launching' = {}
    /\ instance' = IF "start" \in launching /\ ~others THEN None ELSE instance
    /\ IF "retry" \in launching THEN ScheduleRestart(timer, attempts) ELSE UNCHANGED <<timer, attempts>>
    /\ UNCHANGED <<ready, made, settling, fenced, reset, resets>>

(* reconfigure(): every retry is called off, and the backends that changed *)
(* or are still fenced from an earlier attempt are fenced.  When this one  *)
(* is not among them, its session and its adapter are left alone.          *)
Reconfigure(changed) ==
    LET mine == changed \/ fenced IN
    /\ reset.stage = "none" /\ resets < MaxResets /\ resets' = resets + 1
    /\ timer' = FALSE /\ attempts' = 0 /\ fenced' = mine
    /\ reset' = [stage |-> IF mine THEN "stopping" ELSE "disposing", mine |-> mine, scoped |-> FALSE]
    /\ UNCHANGED <<adapter, launching, settling>>

(* start() is over, and the streams are to be closed.  A retry whose       *)
(* adapter is up already has not been waited for.                          *)
StopsLaunches(bound) ==
    /\ reset.stage = "stopping"
    /\ reset' = [reset EXCEPT !.stage = "failing", !.scoped = bound]
    /\ UNCHANGED <<adapter, retries, fenced, resets>>

(* The sessions are forgotten and the adapter is told to end. *)
Dispose ==
    /\ reset.stage = "failing"
    /\ reset' = [reset EXCEPT !.stage = "disposing"] /\ ready' = FALSE
    /\ UNCHANGED <<instance, made, retries, fenced, resets>>

(* All changed processes are gone: the fence is lifted and start() is      *)
(* called.                                                                 *)
CleanupDone ==
    /\ reset.stage = "disposing" /\ reset' = [reset EXCEPT !.stage = "starting"]
    /\ instance' = IF reset.mine THEN None ELSE instance
    /\ fenced' = FALSE
    /\ launching' = IF ready THEN launching ELSE launching \cup {"start"}
    /\ UNCHANGED <<ready, made, attempts, timer, settling, resets>>

(* One of them could not be stopped, this one or another: the fence stays  *)
(* and reconfigure() throws.                                               *)
CleanupFails(stuck) ==
    /\ reset.stage = "disposing" /\ reset' = NoReset
    /\ instance' = IF reset.mine /\ ~stuck THEN None ELSE instance
    /\ UNCHANGED <<ready, made, retries, fenced, resets>>

(* Mutant: it is left to its own retries. *)
StartedAnyway ==
    /\ reset.stage = "starting" /\ "start" \notin launching /\ reset' = NoReset
    /\ UNCHANGED <<adapter, retries, fenced, resets>>

(* start() is over: a backend that did not come back is retried. *)
Started ==
    /\ reset.stage = "starting" /\ "start" \notin launching /\ reset' = NoReset
    /\ IF ready THEN UNCHANGED <<timer, attempts>> ELSE ScheduleRestart(timer, attempts)
    /\ UNCHANGED <<adapter, launching, settling, fenced, resets>>

----------------------------------------------------------------------------
(* Somebody is at work on a backend that is down, or its budget is spent.  *)
Tended ==
    \/ Available \/ settling > 0 \/ timer \/ launching # {} \/ reset.stage # "none"
    \/ attempts = Budget

(* reconfigure() throws. *)
Throws == reset.stage = "disposing" /\ reset'.stage = "none"

(* A backend that is down is never left with nobody to start it again,     *)
(* however crash handlers, retries, launches and changes of settings       *)
(* overlap, but by one step: a change that throws, for this backend or for *)
(* another.  It has called off the retries of every backend and schedules  *)
(* none, although a comment has it that a change elsewhere cannot park a   *)
(* backend; the user is told to save the settings again.                   *)
NeverParked == [][Tended => Tended' \/ Throws]_backend
=============================================================================
