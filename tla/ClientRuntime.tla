--------------------------- MODULE ClientRuntime ---------------------------
(***************************************************************************)
(* The client's runtime (packages/plugin/src/client-runtime.ts): the one   *)
(* connected Host, the authority the local gateway is switched to          *)
(* (typert-gateway-switch.ts), the CodeX and ACP virtual workspaces, and   *)
(* the recovery of a lost Host (client-reconnect.ts).                      *)
(*                                                                         *)
(* A task is one call of setMode, of one of the functions that open a      *)
(* workspace, of one that only lists, or of an agent tool.  An action is   *)
(* what a task does between two awaits; others run at each of them.  A     *)
(* carrier is a ConnectedRemote, numbered in the order they were opened;   *)
(* ClientConnection.connect() makes one or fails, and the network closes   *)
(* it when it likes.  An AbortSignal is the flag it leaves in a task.      *)
(***************************************************************************)
EXTENDS Naturals, Sequences

CONSTANTS
    Hosts, Tasks,
    MaxCarriers,   \* bound: carriers that are opened
    MaxEra         \* bound: explicit selections

ASSUME ClientAssumption == MaxCarriers \in Nat /\ MaxEra \in Nat

None == 0

VARIABLES
    carriers,      \* every carrier: the Host it reaches while it is open
    connected,     \* this.connected
    recoverable,   \* this.recoverable
    gateway,       \* the authority: its kind, its carrier, and whether
                   \* disconnectRemote() put the error in its place
    codexVirtual, cursorVirtual,  \* the carrier each was made for
    closed,
    recovery,      \* the run of ClientReconnect
    recovered,     \* history: the carriers a recovery opened
    tasks,         \* host: the one a task waits for; era: of its selection
    era            \* calls of beginSelection()

places == <<connected, recoverable, gateway, codexVirtual, cursorVirtual>>
vars   == <<carriers, places, closed, recovery, recovered, tasks, era>>

Opening == {"harness", "codex", "acp"}
Listing == Opening \cup {"browse"}       \* they go through ensureConnected()
Kinds   == Listing \cup {"mode", "tool"}
Carrier == 1..MaxCarriers
Stages  == {"idle", "connect", "preview", "request", "codexOff", "acpOff", "prefer"}

Local == [kind |-> "local", carrier |-> None, lost |-> FALSE]
NoRecovery == [stage |-> "none", host |-> None, era |-> 0]

Known   == 0..Len(carriers)    \* None, and every carrier there was

Task == [kind : Kinds, host : Hosts \cup {None}, stage : Stages, era : Nat, carrier : Nat,
         previous : Nat, aborted : BOOLEAN, outdated : BOOLEAN]

ClientTypeOK ==
    /\ carriers \in Seq(Hosts \cup {None}) /\ Len(carriers) <= MaxCarriers
    /\ connected \in Known /\ recoverable \in Known
    /\ codexVirtual \in Known /\ cursorVirtual \in Known
    /\ gateway \in [kind : {"local"} \cup Opening, carrier : Known, lost : BOOLEAN]
    /\ closed \in BOOLEAN /\ era \in Nat
    /\ recovery \in [stage : {"none", "waiting", "connecting", "refused"},
                     host : Hosts \cup {None}, era : Nat]
    /\ recovered \subseteq Carrier
    /\ tasks \in [Tasks -> Task]
    /\ \A t \in Tasks :
        /\ tasks[t].carrier \in Known /\ tasks[t].previous \in Known
        /\ tasks[t].carrier = None <=> tasks[t].stage \in {"idle", "connect"}

Call(kind, stage, host, c, e) ==
    [kind |-> kind, host |-> host, stage |-> stage, era |-> e, carrier |-> c,
     previous |-> None, aborted |-> FALSE, outdated |-> FALSE]

Idle == Call("tool", "idle", None, None, 0)

Init ==
    /\ carriers = <<>> /\ connected = None /\ recoverable = None /\ gateway = Local
    /\ codexVirtual = None /\ cursorVirtual = None
    /\ closed = FALSE /\ recovery = NoRecovery /\ recovered = {} /\ era = 0
    /\ tasks = [t \in Tasks |-> Idle]

----------------------------------------------------------------------------
(* Pieces of handlers.                                                     *)

(* The task waits for a carrier under the signal of its own selection. *)
Seeking(task) == task.stage \in {"connect", "preview"} /\ task.kind # "tool"

(* setMode() keeps that signal to its end; ensureConnected() to its own. *)
Selecting(task) == Seeking(task) \/ (task.kind = "mode" /\ task.stage # "idle")

Superseded(task) == IF Selecting(task) THEN [task EXCEPT !.aborted = TRUE] ELSE task

(* codexOpenGeneration moves on. *)
Outdated(task) ==
    IF task.kind = "codex" /\ task.stage # "idle" THEN [task EXCEPT !.outdated = TRUE] ELSE task

ClosedIn(cs, which) ==
    [c \in 1..Len(cs) |-> IF c \in which THEN None ELSE cs[c]]

Finish(t) == tasks' = [tasks EXCEPT ![t] = Idle]

(* beginSelection(), called by t, which goes on as task. *)
BeginSelection(t, task) ==
    /\ recovery' = NoRecovery /\ recoverable' = None /\ era' = era + 1
    /\ tasks' = [u \in Tasks |->
                    IF u = t THEN task
                    ELSE IF task.kind = "codex" THEN Superseded(Outdated(tasks[u]))
                    ELSE Superseded(tasks[u])]

(* Mutant: the signal is not looked at again after the await. *)
WantedBefore(task) == ~closed /\ ~task.outdated

(* The signals and the generation a task looks at before it changes anything. *)
Wanted(task) == ~task.aborted /\ ~closed /\ ~task.outdated

(* Mutant: that the Host is still connected is taken for granted. *)
StillWanted(task) == Wanted(task)

(* assertRemoteCurrent(), and assertCurrent() of openCodexWorkspace(). *)
Current(task) == Wanted(task) /\ connected = task.carrier

Busy(t) == tasks[t].stage # "idle"

----------------------------------------------------------------------------
(* Starting.                                                               *)

(* setMode('remote'), or ensureConnected() for another Host. *)
Select(t, kind, host) ==
    /\ ~Busy(t) /\ era < MaxEra
    /\ kind = "mode" \/ (kind \in Listing /\ (connected # None => carriers[connected] # host))
    /\ BeginSelection(t, Call(kind, "connect", host, None, era + 1))
    /\ UNCHANGED <<carriers, connected, gateway, codexVirtual, cursorVirtual, closed, recovered>>

(* ensureConnected() for the Host that is connected. *)
OpenHere(t, kind) ==
    /\ ~Busy(t) /\ connected # None /\ kind \in Opening
    /\ tasks' = [u \in Tasks |-> IF u = t THEN Call(kind, "request", None, connected, 0)
                                 ELSE IF kind = "codex" THEN Outdated(tasks[u]) ELSE tasks[u]]
    /\ UNCHANGED <<carriers, places, closed, recovered, recovery, era>>

(* withToolRemote() for a Host that is not connected. *)
StartTool(t, host) ==
    /\ ~Busy(t) /\ ~closed /\ (connected # None => carriers[connected] # host)
    /\ tasks' = [tasks EXCEPT ![t] = Call("tool", "connect", host, None, 0)]
    /\ UNCHANGED <<carriers, places, closed, recovered, recovery, era>>

(* The caller's own signal; a tool's carrier is closed at once. *)
CallerAborts(t) ==
    /\ Busy(t) /\ ~tasks[t].aborted
    /\ tasks' = [tasks EXCEPT ![t].aborted = TRUE]
    /\ carriers' = IF tasks[t].kind = "tool" THEN ClosedIn(carriers, {tasks[t].carrier}) ELSE carriers
    /\ UNCHANGED <<places, closed, recovered, recovery, era>>

----------------------------------------------------------------------------
(* A task on its way to a carrier.                                         *)

(* connect() rejects: the Host is offline or refuses, the network fails,   *)
(* the signal was aborted, or what was opened is not compatible.           *)
ConnectFails(t) ==
    /\ tasks[t].stage = "connect" /\ Finish(t)
    /\ UNCHANGED <<carriers, places, closed, recovered, recovery, era>>

Connects(t) == tasks[t].stage = "connect" /\ ~tasks[t].aborted /\ ~closed /\ Len(carriers) < MaxCarriers

(* A tool asks the new carrier, which replaces the others at the Server. *)
ToolConnects(t) ==
    /\ Connects(t) /\ tasks[t].kind = "tool"
    /\ carriers' = Append(carriers, tasks[t].host)
    /\ tasks' = [tasks EXCEPT ![t].stage = "request", ![t].host = None, ![t].carrier = Len(carriers) + 1]
    /\ UNCHANGED <<places, closed, recovered, recovery, era>>

(* setMode() and ensureConnected() close the preview before they go on:   *)
(* the preview itself is left out, the await is not.                       *)
CarrierReady(t) ==
    /\ Connects(t) /\ tasks[t].kind # "tool" /\ Wanted(tasks[t])
    /\ carriers' = Append(carriers, tasks[t].host)
    /\ tasks' = [tasks EXCEPT ![t].stage = "preview", ![t].host = None, ![t].carrier = Len(carriers) + 1,
                              ![t].previous = IF tasks[t].kind = "mode" THEN connected ELSE None]
    /\ UNCHANGED <<connected, recoverable, gateway, codexVirtual, cursorVirtual, closed,
                   recovered, recovery, era>>

(* An outdated CodeX open closes the carrier it is given. *)
CarrierUnwanted(t) ==
    /\ Connects(t) /\ tasks[t].kind # "tool" /\ tasks[t].outdated
    /\ carriers' = Append(carriers, None)
    /\ Finish(t)
    /\ UNCHANGED <<places, closed, recovered, recovery, era>>

(* Mutant: the error is thrown, the carrier is not closed. *)
RetireOpen(t) ==
    /\ tasks[t].stage = "preview" /\ ~Wanted(tasks[t])
    /\ Finish(t)
    /\ UNCHANGED <<carriers, places, closed, recovered, recovery, era>>

(* Meanwhile somebody chose another Host, left, or gave up. *)
Retire(t) ==
    /\ tasks[t].stage = "preview" /\ ~Wanted(tasks[t])
    /\ carriers' = ClosedIn(carriers, {tasks[t].carrier})
    /\ Finish(t)
    /\ UNCHANGED <<places, closed, recovered, recovery, era>>

(* ensureConnected() returns: its own signal no longer counts. *)
Switch(t) ==
    /\ tasks[t].stage = "preview" /\ tasks[t].kind \in Listing /\ Wanted(tasks[t])
    /\ connected' = tasks[t].carrier
    /\ carriers' = ClosedIn(carriers, {connected})
    /\ tasks' = [tasks EXCEPT ![t].stage = "request", ![t].era = 0]
    /\ UNCHANGED <<recoverable, gateway, codexVirtual, cursorVirtual, closed, recovered,
                   recovery, era>>

(* closeCodexVirtual(): by default the CodeX opens under way are outdated. *)
CloseCodex(t, task) ==
    /\ codexVirtual' = None
    /\ tasks' = [u \in Tasks |->
                    IF u = t THEN task ELSE IF task.kind = "codex" THEN tasks[u] ELSE Outdated(tasks[u])]

(* setMode() replaces the connected Host and takes its workspaces down. *)
Replace(t) ==
    /\ tasks[t].stage = "preview" /\ tasks[t].kind = "mode" /\ Wanted(tasks[t])
    /\ connected' = tasks[t].carrier
    /\ CloseCodex(t, [tasks[t] EXCEPT !.stage = "codexOff"])
    /\ UNCHANGED <<carriers, recoverable, gateway, cursorVirtual, closed, recovered, recovery, era>>

----------------------------------------------------------------------------
(* A task on its carrier.                                                  *)

(* A query or a superseded open ends; a tool closes its carrier. *)
Ends(t) ==
    /\ tasks[t].stage \in {"request", "prefer"} \/ (Busy(t) /\ ~Seeking(tasks[t]) /\ ~Current(tasks[t]))
    /\ tasks[t].kind # "tool" \/ tasks[t].stage = "request"
    /\ carriers' = IF tasks[t].kind = "tool" THEN ClosedIn(carriers, {tasks[t].carrier}) ELSE carriers
    /\ Finish(t)
    /\ UNCHANGED <<places, closed, recovered, recovery, era>>

(* The Host answered: the workspace exists, the old ones are taken down. *)
Answered(t) ==
    /\ tasks[t].stage = "request" /\ tasks[t].kind \in Opening
    /\ carriers[tasks[t].carrier] # None /\ Current(tasks[t])
    /\ CloseCodex(t, [tasks[t] EXCEPT !.stage = "codexOff"])
    /\ UNCHANGED <<carriers, connected, recoverable, gateway, cursorVirtual, closed, recovered,
                   recovery, era>>

CodexClosed(t) ==
    /\ tasks[t].stage = "codexOff" /\ Current(tasks[t])
    /\ cursorVirtual' = None
    /\ tasks' = [tasks EXCEPT ![t].stage = "acpOff"]
    /\ UNCHANGED <<carriers, connected, recoverable, gateway, codexVirtual, closed, recovered,
                   recovery, era>>

Authority(kind, c) == [kind |-> kind, carrier |-> c, lost |-> FALSE]

(* selectRemoteTarget(); setMode() then closes the carrier it replaced. *)
SelectHarness(t) ==
    /\ tasks[t].stage = "acpOff" /\ tasks[t].kind \in {"mode", "harness"} /\ Current(tasks[t])
    /\ gateway' = Authority("harness", tasks[t].carrier) /\ recoverable' = tasks[t].carrier
    /\ carriers' = ClosedIn(carriers, {tasks[t].previous})
    /\ Finish(t)
    /\ UNCHANGED <<connected, codexVirtual, cursorVirtual, closed, recovered, recovery, era>>

(* openCodexWorkspace() and openCursorWorkspace() ask for a session. *)
AskSession(t) ==
    /\ tasks[t].stage = "acpOff" /\ tasks[t].kind \in {"codex", "acp"} /\ Current(tasks[t])
    /\ tasks' = [tasks EXCEPT ![t].stage = "prefer"]
    /\ UNCHANGED <<carriers, places, closed, recovered, recovery, era>>

SelectCodex(t) ==
    /\ tasks[t].stage = "prefer" /\ tasks[t].kind = "codex" /\ Current(tasks[t])
    /\ codexVirtual' = connected
    /\ gateway' = Authority("codex", connected) /\ recoverable' = None
    /\ Finish(t)
    /\ UNCHANGED <<carriers, connected, cursorVirtual, closed, recovered, recovery, era>>

(* createCursorWorkspace() does not ask. *)
SelectCursor(t) ==
    /\ tasks[t].stage \in {"acpOff", "prefer"} /\ tasks[t].kind = "acp" /\ Current(tasks[t])
    /\ cursorVirtual' = connected
    /\ gateway' = Authority("acp", connected) /\ recoverable' = None
    /\ Finish(t)
    /\ UNCHANGED <<carriers, connected, codexVirtual, closed, recovered, recovery, era>>

----------------------------------------------------------------------------
(* Leaving, losing and recovering.                                         *)

Lifetime(task) == IF task.kind = "tool" /\ task.stage # "idle" THEN [task EXCEPT !.aborted = TRUE] ELSE task

(* leaveRemote(): nothing that was under way may finish. *)
LeaveRemote ==
    /\ recovery' = NoRecovery /\ recoverable' = None /\ era' = era + 1
    /\ tasks' = [u \in Tasks |-> Lifetime(Outdated(Superseded(tasks[u])))]
    /\ connected' = None /\ gateway' = Local /\ UNCHANGED recovered
    /\ codexVirtual' = None /\ cursorVirtual' = None
    /\ carriers' = ClosedIn(carriers, {connected} \cup
                     {tasks[u].carrier : u \in {v \in Tasks : tasks[v].kind = "tool"}})

(* setMode('local') or clearClientAuthorization(). *)
Leave == era < MaxEra /\ LeaveRemote /\ UNCHANGED closed

Close == ~closed /\ era < MaxEra /\ closed' = TRUE /\ LeaveRemote

(* The carrier closes, with an error after which one may try again or not. *)
CarrierCloses(c, retryable) ==
    /\ c \in 1..Len(carriers) /\ carriers[c] # None
    /\ carriers' = ClosedIn(carriers, {c})
    /\ UNCHANGED <<closed, recovered, era>>
    /\ \/ c # connected /\ UNCHANGED <<places, recovery, tasks>>
       \/ /\ c = connected
          /\ connected' = None /\ recoverable' = None
          /\ gateway' = IF gateway = Local THEN Local ELSE [gateway EXCEPT !.lost = TRUE]
          /\ codexVirtual' = None /\ cursorVirtual' = None
          /\ tasks' = [u \in Tasks |-> Outdated(tasks[u])]
          /\ recovery' = IF recoverable # c THEN recovery
                         ELSE IF retryable THEN [stage |-> "waiting", host |-> carriers[c], era |-> era]
                         ELSE NoRecovery

RetryTimer ==
    /\ recovery.stage = "waiting" /\ recovery' = [recovery EXCEPT !.stage = "connecting"]
    /\ UNCHANGED <<carriers, places, closed, recovered, tasks, era>>

RecoveryFails(retryable) ==
    /\ recovery.stage = "connecting"
    /\ recovery' = [recovery EXCEPT !.stage = IF retryable THEN "waiting" ELSE "refused"]
    /\ UNCHANGED <<carriers, places, closed, recovered, tasks, era>>

(* The selected authority is bound to a new carrier of the same Host. *)
Recovers ==
    /\ recovery.stage = "connecting" /\ Len(carriers) < MaxCarriers
    /\ carriers' = Append(carriers, recovery.host)
    /\ connected' = Len(carriers) + 1 /\ recoverable' = Len(carriers) + 1
    /\ gateway' = Authority("harness", Len(carriers) + 1)
    /\ recovery' = NoRecovery /\ recovered' = recovered \cup {Len(carriers) + 1}
    /\ UNCHANGED <<codexVirtual, cursorVirtual, closed, tasks, era>>

Next ==
    \/ \E t \in Tasks, kind \in Kinds, host \in Hosts : Select(t, kind, host)
    \/ \E t \in Tasks, kind \in Opening : OpenHere(t, kind)
    \/ \E t \in Tasks, host \in Hosts : StartTool(t, host)
    \/ \E t \in Tasks :
        \/ CallerAborts(t) \/ ConnectFails(t) \/ ToolConnects(t) \/ CarrierReady(t)
        \/ CarrierUnwanted(t) \/ Retire(t) \/ Switch(t) \/ Replace(t) \/ Ends(t) \/ Answered(t)
        \/ CodexClosed(t) \/ SelectHarness(t) \/ AskSession(t) \/ SelectCodex(t) \/ SelectCursor(t)
    \/ Leave \/ Close
    \/ \E c \in Carrier, retryable \in BOOLEAN : CarrierCloses(c, retryable)
    \/ RetryTimer \/ Recovers
    \/ \E retryable \in BOOLEAN : RecoveryFails(retryable)

Spec == Init /\ [][Next]_vars

----------------------------------------------------------------------------
(* Without a connection nothing claims to have one: requests fail or stay  *)
(* local, and no virtual workspace outlives the carrier it speaks through, *)
(* whichever awaits the handlers were in when it went.                     *)
NoPhantomAuthority ==
    connected = None =>
        /\ gateway = Local \/ gateway.lost
        /\ codexVirtual = None /\ cursorVirtual = None /\ recoverable = None

(* A carrier that a call opened, that is still open and that no later one  *)
(* replaced at the Server, is in somebody's hands: the runtime's, or those *)
(* of a task that installs or closes it.  One that a recovery opened may   *)
(* be left: setMode() reads the carrier it is to close before an await.    *)
NoOrphan ==
    LET c == Len(carriers) IN
    (c # 0 /\ carriers[c] # None /\ c \notin recovered) =>
        \/ connected = c
        \/ \E t \in Tasks :
            tasks[t].carrier = c /\ (tasks[t].kind = "tool" \/ tasks[t].stage = "preview")

(* A call installs its Host only while no later selection began and the    *)
(* client did not leave, and a recovery only when none began since its     *)
(* Host was lost: a result that arrives late neither detaches a newer Host *)
(* nor restores authority after sign-out (ensureConnected, setMode,        *)
(* beginSelection).                                                        *)
NewestWins ==
    [][\A c \in Carrier : (connected' = c /\ connected # c) =>
            /\ ~closed'
            /\ IF c > Len(carriers) THEN recovery.era = era'
               ELSE \E t \in Tasks : tasks[t].carrier = c /\ tasks[t].era = era']_vars

(* Refuted: a recovery never puts the Harness in place of CodeX or an ACP  *)
(* agent (handleRemoteClose: they "have separate virtual workspace         *)
(* lifetimes; never replace them with Harness authority").                 *)
RecoveryIsHarness == [][Recovers => gateway.kind \notin {"codex", "acp"}]_vars
=============================================================================
