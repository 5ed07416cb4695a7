------------------------ MODULE ClientRuntimeProofs ------------------------
(***************************************************************************)
(* Proofs about the client's runtime, for any Hosts, calls, carriers and   *)
(* selections.                                                             *)
(***************************************************************************)
EXTENDS ClientRuntime, TLAPS

Slot == Hosts \cup {None}

(* Closing carriers keeps their numbers. *)
LEMMA ClosedFacts ==
    ASSUME NEW cs \in Seq(Slot), NEW which
    PROVE  /\ ClosedIn(cs, which) \in Seq(Slot)
           /\ Len(ClosedIn(cs, which)) = Len(cs)
           /\ \A c \in 1..Len(cs) :
                ClosedIn(cs, which)[c] = IF c \in which THEN None ELSE cs[c]
<1>1. \A c \in 1..Len(cs) : cs[c] \in Slot
  OBVIOUS
<1>2. Len(cs) \in Nat
  OBVIOUS
<1>3. ClosedIn(cs, which) \in [1..Len(cs) -> Slot]
  BY <1>1 DEF ClosedIn, Slot, None
<1>4. ClosedIn(cs, which) \in Seq(Slot) /\ Len(ClosedIn(cs, which)) = Len(cs)
  BY <1>2, <1>3
<1> QED BY <1>4 DEF ClosedIn

(* A carrier that is opened gets the next number. *)
LEMMA OpenedFacts ==
    ASSUME NEW cs \in Seq(Slot), NEW h \in Slot
    PROVE  /\ Append(cs, h) \in Seq(Slot) /\ Len(Append(cs, h)) = Len(cs) + 1
           /\ Append(cs, h)[Len(cs) + 1] = h
           /\ \A c \in 1..Len(cs) : Append(cs, h)[c] = cs[c]
OBVIOUS

(***************************************************************************)
(* What happens to the tasks that do not take the step: nothing, or a      *)
(* signal reaches them.                                                    *)
(***************************************************************************)
Signalled(old, new) ==
    /\ new \in Task
    /\ new.kind = old.kind /\ new.stage = old.stage /\ new.era = old.era
    /\ new.carrier = old.carrier /\ new.previous = old.previous
    /\ old.aborted => new.aborted

LEMMA IdleIsTask == Idle \in Task
BY DEF Idle, Call, Task, Kinds, Listing, Opening, Stages, None

LEMMA SignalFacts ==
    ASSUME NEW task \in Task
    PROVE  /\ Signalled(task, task) /\ Signalled(task, Outdated(task))
           /\ Signalled(task, Superseded(task)) /\ (Selecting(task) => Superseded(task).aborted)
           /\ Signalled(task, Superseded(Outdated(task)))
           /\ Selecting(task) => Superseded(Outdated(task)).aborted
           /\ Signalled(task, Lifetime(Outdated(Superseded(task))))
           /\ Signalled(task, [task EXCEPT !.aborted = TRUE])
<1>1. \A x \in Task : Signalled(x, x) /\ Signalled(x, Superseded(x)) /\ Signalled(x, Outdated(x))
                       /\ Signalled(x, Lifetime(x))
  BY DEF Signalled, Task, Superseded, Outdated, Lifetime
<1>2. \A x, y, z \in Task : Signalled(x, y) /\ Signalled(y, z) => Signalled(x, z)
  BY DEF Signalled
<1>3. \A x, y \in Task : Signalled(x, y) /\ Selecting(x) => Selecting(y)
  BY DEF Signalled, Selecting, Seeking
<1>4. \A x \in Task : Selecting(x) => Superseded(x).aborted
  BY DEF Task, Superseded
<1>5. \A x \in Task : Superseded(x) \in Task /\ Outdated(x) \in Task /\ Lifetime(x) \in Task
  BY <1>1 DEF Signalled
<1>6. Signalled(task, [task EXCEPT !.aborted = TRUE])
  BY DEF Signalled, Task
<1> QED BY <1>1, <1>2, <1>3, <1>4, <1>5, <1>6

----------------------------------------------------------------------------
(* Types. *)

TaskOK(task, n) ==
    /\ task \in Task /\ task.carrier \in 0..n /\ task.previous \in 0..n
    /\ task.carrier = None <=> task.stage \in {"idle", "connect"}

(* A signal, an end, and more carriers leave a task well formed. *)
LEMMA TaskKept ==
    ASSUME NEW n \in Nat, NEW m \in Nat, n <= m, NEW task, TaskOK(task, n)
    PROVE  /\ TaskOK(task, m) /\ TaskOK(Idle, m)
           /\ \A new : Signalled(task, new) => TaskOK(new, m)
BY IdleIsTask DEF TaskOK, Signalled, Idle, Call, None

TasksOK == tasks \in [Tasks -> Task] /\ \A t \in Tasks : TaskOK(tasks[t], Len(carriers))

PlacesOK ==
    /\ carriers \in Seq(Slot) /\ Len(carriers) <= MaxCarriers
    /\ connected \in Known /\ recoverable \in Known
    /\ codexVirtual \in Known /\ cursorVirtual \in Known
    /\ gateway \in [kind : {"local"} \cup Opening, carrier : Known, lost : BOOLEAN]
    /\ closed \in BOOLEAN /\ era \in Nat
    /\ recovery \in [stage : {"none", "waiting", "connecting", "refused"},
                     host : Slot, era : Nat]
    /\ recovered \subseteq Carrier

LEMMA TypeParts == ClientTypeOK <=> PlacesOK /\ TasksOK
BY DEF ClientTypeOK, PlacesOK, TasksOK, TaskOK, Slot, Known, Task

(* One task goes on, the others are signalled at most. *)
Others(t) ==
    /\ DOMAIN tasks' = Tasks /\ tasks' = [u \in Tasks |-> tasks'[u]]
    /\ \A u \in Tasks \ {t} : Signalled(tasks[u], tasks'[u])

LEMMA OneTask ==
    ASSUME PlacesOK, TasksOK, PlacesOK', Len(carriers') >= Len(carriers),
           NEW t \in Tasks, Others(t), TaskOK(tasks'[t], Len(carriers'))
    PROVE  TasksOK'
<1>1. Len(carriers) \in Nat /\ Len(carriers') \in Nat
  BY DEF PlacesOK
<1>2. \A u \in Tasks \ {t} : TaskOK(tasks'[u], Len(carriers'))
  BY <1>1, TaskKept DEF TasksOK, Others
<1>3. \A u \in Tasks : TaskOK(tasks'[u], Len(carriers'))
  BY <1>2
<1>4. tasks' \in [Tasks -> Task]
  BY <1>3 DEF TaskOK, Others
<1> QED BY <1>3, <1>4 DEF TasksOK

Typed == PlacesOK /\ TasksOK

(* Facts about one task that every case below needs. *)
LEMMA TaskFacts ==
    ASSUME Typed, NEW t \in Tasks
    PROVE  /\ tasks[t] \in Task /\ TaskOK(tasks[t], Len(carriers)) /\ Len(carriers) \in Nat
           /\ tasks[t].carrier \in Known /\ tasks[t].previous \in Known
BY DEF Typed, PlacesOK, TasksOK, TaskOK, Known

(* The tasks that start. *)
LEMMA StartedTask ==
    ASSUME NEW n \in Nat
    PROVE  /\ \A kind \in Kinds, host \in Hosts, e \in Nat :
                TaskOK(Call(kind, "connect", host, None, e), n)
           /\ \A kind \in Kinds, c \in 1..n : TaskOK(Call(kind, "request", None, c, 0), n)
           /\ TaskOK(Idle, n)
BY DEF TaskOK, Task, Idle, Call, Kinds, Listing, Opening, Stages, None

(* The tasks that go on. *)
LEMMA AskingTask ==
    ASSUME NEW task \in Task, NEW n \in Nat, NEW m \in Nat, TaskOK(task, n), NEW c \in 1..m, n <= m
    PROVE  TaskOK([task EXCEPT !.stage = "request", !.host = None, !.carrier = c], m)
<1> DEFINE new == [task EXCEPT !.stage = "request", !.host = None, !.carrier = c]
<1>0. c \in Nat
  OBVIOUS
<1>1. new \in Task
  BY <1>0 DEF Task, Stages
<1>2. new.carrier = c /\ new.stage = "request" /\ new.previous = task.previous
  BY DEF Task
<1>3. task.previous \in 0..m
  BY DEF TaskOK
<1> QED BY <1>1, <1>2, <1>3 DEF TaskOK, None

LEMMA AssignedTask ==
    ASSUME NEW task \in Task, NEW n \in Nat, TaskOK(task, n), NEW c \in 1..n, NEW p \in 0..n
    PROVE  TaskOK([task EXCEPT !.stage = "preview", !.host = None, !.carrier = c, !.previous = p], n)
<1> DEFINE new == [task EXCEPT !.stage = "preview", !.host = None, !.carrier = c, !.previous = p]
<1>0. c \in Nat /\ p \in Nat
  OBVIOUS
<1>1. new \in Task
  BY <1>0 DEF Task, Stages
<1>2. new.carrier = c /\ new.stage = "preview" /\ new.previous = p
  BY DEF Task
<1> QED BY <1>1, <1>2 DEF TaskOK, None

(* Only task t changes. *)
LEMMA Alone ==
    ASSUME Typed, NEW t \in Tasks, NEW new, tasks' = [tasks EXCEPT ![t] = new]
    PROVE  Others(t) /\ tasks'[t] = new
<1>1. tasks = [u \in Tasks |-> tasks[u]] /\ \A u \in Tasks : tasks[u] \in Task
  BY DEF Typed, TasksOK
<1>2. \A u \in Tasks \ {t} : tasks'[u] = tasks[u]
  BY <1>1
<1>3. DOMAIN tasks' = Tasks /\ tasks' = [u \in Tasks |-> tasks'[u]] /\ tasks'[t] = new
  BY <1>1
<1> QED BY <1>1, <1>2, <1>3, SignalFacts DEF Others

LEMMA SelectTypes ==
    ASSUME Typed, NEW t \in Tasks, NEW kind \in Kinds, NEW host \in Hosts, Select(t, kind, host)
    PROVE  Typed'
<1>1. PlacesOK'
  BY DEF Typed, PlacesOK, Known, Slot, None, Select, BeginSelection, NoRecovery
<1>2. Others(t)
  BY SignalFacts DEF Typed, TasksOK, Others, Select, BeginSelection
<1>3. TaskOK(tasks'[t], Len(carriers'))
  <2>1. tasks'[t] = Call(kind, "connect", host, None, era + 1)
    BY DEF Select, BeginSelection
  <2>2. era + 1 \in Nat /\ Len(carriers') \in Nat
    BY <1>1 DEF Typed, PlacesOK
  <2> QED BY <2>1, <2>2, StartedTask
<1> QED BY <1>1, <1>2, <1>3, OneTask DEF Typed, Select, PlacesOK

LEMMA OpenHereTypes ==
    ASSUME Typed, NEW t \in Tasks, NEW kind \in Opening, OpenHere(t, kind)
    PROVE  Typed'
<1>1. PlacesOK'
  BY DEF Typed, PlacesOK, Known, OpenHere, places
<1>2. Others(t)
  BY SignalFacts DEF Typed, TasksOK, Others, OpenHere
<1>3. TaskOK(tasks'[t], Len(carriers'))
  <2>1. tasks'[t] = Call(kind, "request", None, connected, 0)
    BY DEF OpenHere
  <2>2. connected \in 1..Len(carriers') /\ Len(carriers') \in Nat
    BY DEF Typed, PlacesOK, Known, OpenHere, None
  <2>3. kind \in Kinds
    BY DEF Kinds, Listing
  <2> QED BY <2>1, <2>2, <2>3, StartedTask
<1> QED BY <1>1, <1>2, <1>3, OneTask DEF Typed, OpenHere, PlacesOK

LEMMA StartToolTypes ==
    ASSUME Typed, NEW t \in Tasks, NEW host \in Hosts, StartTool(t, host)
    PROVE  Typed'
<1>1. PlacesOK'
  BY DEF Typed, PlacesOK, Known, StartTool, places
<1>2. Others(t) /\ TaskOK(tasks'[t], Len(carriers'))
  <2>1. tasks' = [tasks EXCEPT ![t] = Call("tool", "connect", host, None, 0)]
    BY DEF StartTool
  <2>2. Len(carriers') \in Nat
    BY <1>1 DEF PlacesOK
  <2>3. TaskOK(Call("tool", "connect", host, None, 0), Len(carriers'))
    BY <2>2, StartedTask DEF Kinds
  <2> QED BY <2>1, <2>3, Alone
<1> QED BY <1>1, <1>2, OneTask DEF Typed, StartTool, PlacesOK

LEMMA CallerAbortsTypes ==
    ASSUME Typed, NEW t \in Tasks, CallerAborts(t)
    PROVE  Typed'
<1>0. carriers' \in Seq(Slot) /\ Len(carriers') = Len(carriers)
  BY ClosedFacts DEF Typed, PlacesOK, CallerAborts
<1>1. PlacesOK'
  BY <1>0 DEF Typed, PlacesOK, Known, CallerAborts, places
<1>2. Others(t) /\ TaskOK(tasks'[t], Len(carriers'))
  <2>1. tasks' = [tasks EXCEPT ![t] = [tasks[t] EXCEPT !.aborted = TRUE]]
    BY DEF CallerAborts
  <2>2. TaskOK([tasks[t] EXCEPT !.aborted = TRUE], Len(carriers))
    BY TaskFacts, SignalFacts, TaskKept
  <2> QED BY <1>0, <2>1, <2>2, Alone
<1> QED BY <1>0, <1>1, <1>2, OneTask DEF Typed, PlacesOK

(* A task ends, and what it held may be closed. *)
LEMMA EndTypes ==
    ASSUME Typed, NEW t \in Tasks, PlacesOK', Len(carriers') >= Len(carriers),
           tasks' = [tasks EXCEPT ![t] = Idle]
    PROVE  Typed'
<1>1. Others(t) /\ tasks'[t] = Idle
  BY Alone
<1>2. TaskOK(tasks'[t], Len(carriers'))
  BY <1>1, StartedTask DEF PlacesOK
<1> QED BY <1>1, <1>2, OneTask DEF Typed

(* A task goes on. *)
LEMMA GoOnTypes ==
    ASSUME Typed, NEW t \in Tasks, NEW new, PlacesOK', Len(carriers') >= Len(carriers),
           tasks' = [tasks EXCEPT ![t] = new], TaskOK(new, Len(carriers'))
    PROVE  Typed'
BY Alone, OneTask DEF Typed

LEMMA FailTypes ==
    ASSUME Typed, NEW t \in Tasks, ConnectFails(t) \/ CarrierUnwanted(t) \/ Retire(t) \/ Ends(t)
    PROVE  Typed'
<1>1. tasks' = [tasks EXCEPT ![t] = Idle]
  BY DEF ConnectFails, CarrierUnwanted, Retire, Ends, Finish
<1>2. carriers' \in Seq(Slot) /\ Len(carriers') >= Len(carriers) /\ Len(carriers') <= MaxCarriers
  <2>1. CASE ConnectFails(t)
    BY <2>1 DEF ConnectFails, Typed, PlacesOK
  <2>2. CASE CarrierUnwanted(t)
    BY <2>2, OpenedFacts, ClientAssumption DEF CarrierUnwanted, Connects, Typed, PlacesOK, Slot
  <2>3. CASE Retire(t) \/ Ends(t)
    BY <2>3, ClosedFacts DEF Retire, Ends, Typed, PlacesOK
  <2> QED BY <2>1, <2>2, <2>3
<1>3. PlacesOK'
  BY <1>2 DEF Typed, PlacesOK, Known, ConnectFails, CarrierUnwanted, Retire, Ends, places
<1> QED BY <1>1, <1>2, <1>3, EndTypes

LEMMA ToolConnectsTypes ==
    ASSUME Typed, NEW t \in Tasks, ToolConnects(t)
    PROVE  Typed'
<1> DEFINE new == [tasks[t] EXCEPT !.stage = "request", !.host = None, !.carrier = Len(carriers) + 1]
<1>1. tasks' = [tasks EXCEPT ![t] = new] /\ tasks[t].host \in Slot
  BY TaskFacts DEF ToolConnects, Task, Slot
<1>2. carriers' \in Seq(Slot) /\ Len(carriers') = Len(carriers) + 1
      /\ Len(carriers') <= MaxCarriers /\ Len(carriers') >= Len(carriers)
  BY <1>1, OpenedFacts, ClientAssumption DEF ToolConnects, Connects, Typed, PlacesOK
<1>3. PlacesOK'
  BY <1>2 DEF Typed, PlacesOK, Known, ToolConnects, places
<1>4. TaskOK(new, Len(carriers'))
  <2>1. /\ Len(carriers) \in Nat /\ Len(carriers') \in Nat /\ Len(carriers) <= Len(carriers')
        /\ Len(carriers) + 1 \in 1..Len(carriers')
    BY <1>2, TaskFacts
  <2> QED BY <2>1, TaskFacts, AskingTask
<1> QED BY <1>1, <1>2, <1>3, <1>4, GoOnTypes DEF Typed, PlacesOK

LEMMA CarrierReadyTypes ==
    ASSUME Typed, NEW t \in Tasks, CarrierReady(t)
    PROVE  Typed'
<1> DEFINE new == [tasks[t] EXCEPT !.stage = "preview", !.host = None, !.carrier = Len(carriers) + 1,
                          !.previous = IF tasks[t].kind = "mode" THEN connected ELSE None]
<1>1. tasks' = [tasks EXCEPT ![t] = new] /\ tasks[t].host \in Slot
  BY TaskFacts DEF CarrierReady, Task, Slot
<1>2. carriers' \in Seq(Slot) /\ Len(carriers') = Len(carriers) + 1
      /\ Len(carriers') <= MaxCarriers /\ Len(carriers') >= Len(carriers)
  BY <1>1, OpenedFacts, ClientAssumption DEF CarrierReady, Connects, Typed, PlacesOK
<1>3. PlacesOK'
  BY <1>2 DEF Typed, PlacesOK, Known, CarrierReady
<1>4. TaskOK(new, Len(carriers'))
  <2>1. /\ Len(carriers) \in Nat /\ Len(carriers') \in Nat /\ Len(carriers) <= Len(carriers')
        /\ Len(carriers) + 1 \in 1..Len(carriers')
    BY <1>2, TaskFacts
  <2>2. (IF tasks[t].kind = "mode" THEN connected ELSE None) \in 0..Len(carriers')
    BY <2>1 DEF Typed, PlacesOK, Known, None
  <2>3. TaskOK(tasks[t], Len(carriers'))
    BY <2>1, TaskFacts, TaskKept
  <2> QED BY <2>1, <2>2, <2>3, TaskFacts, AssignedTask
<1> QED BY <1>1, <1>2, <1>3, <1>4, GoOnTypes DEF Typed, PlacesOK

LEMMA SwitchTypes ==
    ASSUME Typed, NEW t \in Tasks, Switch(t)
    PROVE  Typed'
<1> DEFINE new == [tasks[t] EXCEPT !.stage = "request", !.era = 0]
<1>1. tasks' = [tasks EXCEPT ![t] = new]
  BY TaskFacts DEF Switch
<1>2. carriers' \in Seq(Slot) /\ Len(carriers') = Len(carriers)
      /\ Len(carriers') >= Len(carriers)
  BY ClosedFacts DEF Switch, Typed, PlacesOK
<1>3. PlacesOK'
  BY <1>2, TaskFacts DEF Typed, PlacesOK, Known, Switch
<1>4. TaskOK(new, Len(carriers'))
  BY <1>2, TaskFacts DEF TaskOK, Task, Stages, None, Switch
<1> QED BY <1>1, <1>2, <1>3, <1>4, GoOnTypes DEF Typed, PlacesOK

(* A task that holds a carrier goes on to a later stage. *)
LEMMA StagedTask ==
    ASSUME NEW task \in Task, NEW n \in Nat, TaskOK(task, n), task.stage \notin {"idle", "connect"},
           NEW stage \in Stages \ {"idle", "connect"}
    PROVE  TaskOK([task EXCEPT !.stage = stage], n)
<1> DEFINE new == [task EXCEPT !.stage = stage]
<1>1. new \in Task
  BY DEF Task
<1>2. new.stage = stage /\ new.carrier = task.carrier /\ new.previous = task.previous
  BY DEF Task
<1> QED BY <1>1, <1>2 DEF TaskOK

LEMMA ReplaceTypes ==
    ASSUME Typed, NEW t \in Tasks, Replace(t) \/ Answered(t)
    PROVE  Typed'
<1>1. tasks[t].stage \in {"preview", "request"} /\ CloseCodex(t, [tasks[t] EXCEPT !.stage = "codexOff"])
      /\ carriers' = carriers
  BY DEF Replace, Answered
<1>2. PlacesOK'
  BY TaskFacts DEF Typed, PlacesOK, Known, None, Replace, Answered, CloseCodex
<1>3. Others(t)
  BY <1>1, SignalFacts DEF Typed, TasksOK, Others, CloseCodex
<1>4. TaskOK(tasks'[t], Len(carriers'))
  <2>1. tasks'[t] = [tasks[t] EXCEPT !.stage = "codexOff"]
    BY <1>1 DEF CloseCodex
  <2>2. "codexOff" \in Stages \ {"idle", "connect"}
    BY DEF Stages
  <2> QED BY <1>1, <2>1, <2>2, TaskFacts, StagedTask
<1>5. Len(carriers') >= Len(carriers)
  BY <1>1, TaskFacts
<1> QED BY <1>2, <1>3, <1>4, <1>5, OneTask DEF Typed

LEMMA StageTypes ==
    ASSUME Typed, NEW t \in Tasks, CodexClosed(t) \/ AskSession(t)
    PROVE  Typed'
<1>1. PICK stage \in {"acpOff", "prefer"} : tasks' = [tasks EXCEPT ![t] = [tasks[t] EXCEPT !.stage = stage]]
  BY DEF CodexClosed, AskSession
<1>2. tasks[t].stage \in {"codexOff", "acpOff"} /\ carriers' = carriers
  BY DEF CodexClosed, AskSession
<1>3. PlacesOK'
  BY DEF Typed, PlacesOK, Known, None, CodexClosed, AskSession, places
<1>4. TaskOK([tasks[t] EXCEPT !.stage = stage], Len(carriers'))
  BY <1>2, TaskFacts, StagedTask DEF Stages
<1>5. Len(carriers') >= Len(carriers)
  BY <1>2, TaskFacts
<1> QED BY <1>1, <1>3, <1>4, <1>5, GoOnTypes

LEMMA SelectsTypes ==
    ASSUME Typed, NEW t \in Tasks, SelectHarness(t) \/ SelectCodex(t) \/ SelectCursor(t)
    PROVE  Typed'
<1>1. tasks' = [tasks EXCEPT ![t] = Idle]
  BY DEF SelectHarness, SelectCodex, SelectCursor, Finish
<1>2. carriers' \in Seq(Slot) /\ Len(carriers') = Len(carriers) /\ Len(carriers') >= Len(carriers)
  BY ClosedFacts DEF SelectHarness, SelectCodex, SelectCursor, Typed, PlacesOK
<1>3. PlacesOK'
  <2>1. tasks[t].carrier \in Known
    BY TaskFacts
  <2>2. CASE SelectHarness(t)
    BY <1>2, <2>1, <2>2 DEF Typed, PlacesOK, Known, Opening, SelectHarness, Authority
  <2>3. CASE SelectCodex(t)
    BY <1>2, <2>3 DEF Typed, PlacesOK, Known, Opening, SelectCodex, Authority, None
  <2>4. CASE SelectCursor(t)
    BY <1>2, <2>4 DEF Typed, PlacesOK, Known, Opening, SelectCursor, Authority, None
  <2> QED BY <2>2, <2>3, <2>4
<1> QED BY <1>1, <1>2, <1>3, EndTypes

(* Every task is signalled at most. *)
LEMMA AllSignalled ==
    ASSUME Typed, PlacesOK', Len(carriers') >= Len(carriers), DOMAIN tasks' = Tasks,
           tasks' = [u \in Tasks |-> tasks'[u]], \A u \in Tasks : Signalled(tasks[u], tasks'[u])
    PROVE  Typed'
<1>1. Len(carriers) \in Nat /\ Len(carriers') \in Nat
  BY DEF Typed, PlacesOK
<1>2. \A u \in Tasks : TaskOK(tasks'[u], Len(carriers'))
  BY <1>1, TaskKept DEF Typed, TasksOK
<1>3. tasks' \in [Tasks -> Task]
  BY <1>2 DEF TaskOK
<1> QED BY <1>2, <1>3 DEF Typed, TasksOK

LEMMA LeaveTypes ==
    ASSUME Typed, Leave \/ Close
    PROVE  Typed'
<1>0. LeaveRemote
  BY DEF Leave, Close
<1>1. carriers' \in Seq(Slot) /\ Len(carriers') = Len(carriers) /\ Len(carriers') >= Len(carriers)
  BY <1>0, ClosedFacts DEF LeaveRemote, Typed, PlacesOK
<1>2. closed' \in BOOLEAN
  BY DEF Leave, Close, Typed, PlacesOK
<1>3. PlacesOK'
  BY <1>0, <1>1, <1>2 DEF LeaveRemote, Typed, PlacesOK, Known, NoRecovery, Local, Slot, None
<1>4. /\ DOMAIN tasks' = Tasks /\ tasks' = [u \in Tasks |-> tasks'[u]]
      /\ \A u \in Tasks : Signalled(tasks[u], tasks'[u])
  BY <1>0, SignalFacts DEF LeaveRemote, Typed, TasksOK
<1> QED BY <1>1, <1>3, <1>4, AllSignalled

LEMMA CarrierClosesTypes ==
    ASSUME Typed, NEW c \in Carrier, NEW retryable \in BOOLEAN, CarrierCloses(c, retryable)
    PROVE  Typed'
<1>1. carriers' \in Seq(Slot) /\ Len(carriers') = Len(carriers) /\ Len(carriers') >= Len(carriers)
  BY ClosedFacts DEF CarrierCloses, Typed, PlacesOK
<1>2. carriers[c] \in Slot
  BY DEF CarrierCloses, Typed, PlacesOK
<1>3. CASE c # connected
  <2>1. PlacesOK' /\ tasks' = tasks
    BY <1>1, <1>3 DEF CarrierCloses, Typed, PlacesOK, Known, places
  <2>2. /\ DOMAIN tasks' = Tasks /\ tasks' = [u \in Tasks |-> tasks'[u]]
        /\ \A u \in Tasks : Signalled(tasks[u], tasks'[u])
    BY <2>1, SignalFacts DEF Typed, TasksOK
  <2> QED BY <1>1, <2>1, <2>2, AllSignalled
<1>4. CASE c = connected
  <2>1. gateway' \in [kind : {"local"} \cup Opening, carrier : Known, lost : BOOLEAN]
    <3>1. gateway' = IF gateway = Local THEN Local ELSE [gateway EXCEPT !.lost = TRUE]
      BY <1>4 DEF CarrierCloses
    <3>2. gateway \in [kind : {"local"} \cup Opening, carrier : Known, lost : BOOLEAN]
      BY DEF Typed, PlacesOK
    <3> QED BY <3>1, <3>2
  <2>2. recovery' \in [stage : {"none", "waiting", "connecting", "refused"}, host : Slot, era : Nat]
    BY <1>2, <1>4 DEF CarrierCloses, Typed, PlacesOK, NoRecovery, Slot, None
  <2>3. PlacesOK'
    BY <1>1, <1>4, <2>1, <2>2 DEF CarrierCloses, Typed, PlacesOK, Known, None
  <2>4. /\ DOMAIN tasks' = Tasks /\ tasks' = [u \in Tasks |-> tasks'[u]]
        /\ \A u \in Tasks : Signalled(tasks[u], tasks'[u])
    BY <1>4, SignalFacts DEF CarrierCloses, Typed, TasksOK
  <2> QED BY <1>1, <2>3, <2>4, AllSignalled
<1> QED BY <1>3, <1>4

LEMMA RecoveryTypes ==
    ASSUME Typed, RetryTimer \/ Recovers \/ \E retryable \in BOOLEAN : RecoveryFails(retryable)
    PROVE  Typed'
<1>1. carriers' \in Seq(Slot) /\ Len(carriers') >= Len(carriers) /\ Len(carriers') <= MaxCarriers
  <2>1. carriers \in Seq(Slot) /\ Len(carriers) \in Nat /\ Len(carriers) <= MaxCarriers
        /\ recovery.host \in Slot /\ MaxCarriers \in Nat
    BY ClientAssumption DEF Typed, PlacesOK
  <2>2. CASE Recovers
    <3>1. carriers' = Append(carriers, recovery.host) /\ Len(carriers) < MaxCarriers
      BY <2>2 DEF Recovers
    <3> QED BY <2>1, <3>1, OpenedFacts
  <2>3. CASE RetryTimer \/ \E retryable \in BOOLEAN : RecoveryFails(retryable)
    BY <2>1, <2>3 DEF RetryTimer, RecoveryFails
  <2> QED BY <2>2, <2>3
<1>2. tasks' = tasks
  BY DEF RetryTimer, Recovers, RecoveryFails
<1>3. PlacesOK'
  <2>1. CASE Recovers
    <3>1. Len(carriers') = Len(carriers) + 1 /\ Len(carriers) \in Nat
      BY <2>1, OpenedFacts DEF Recovers, Typed, PlacesOK
    <3>2. Len(carriers) + 1 \in Carrier /\ recovered' = recovered \cup {Len(carriers) + 1}
      BY <1>1, <2>1, <3>1, ClientAssumption DEF Recovers, Carrier
    <3>3. recovered' \subseteq Carrier
      BY <3>2 DEF Typed, PlacesOK
    <3>4. Authority("harness", Len(carriers) + 1)
            \in [kind : {"local"} \cup Opening, carrier : Known', lost : BOOLEAN]
      BY <3>1 DEF Authority, Opening, Known
    <3>5. /\ connected' \in Known' /\ recoverable' \in Known'
          /\ codexVirtual' \in Known' /\ cursorVirtual' \in Known'
      BY <2>1, <3>1 DEF Recovers, Typed, PlacesOK, Known
    <3>6. recovery' \in [stage : {"none", "waiting", "connecting", "refused"}, host : Slot, era : Nat]
      BY <2>1 DEF Recovers, NoRecovery, Slot, None
    <3> QED BY <1>1, <2>1, <3>3, <3>4, <3>5, <3>6 DEF Recovers, Typed, PlacesOK
  <2>2. CASE RetryTimer \/ \E retryable \in BOOLEAN : RecoveryFails(retryable)
    BY <2>2 DEF RetryTimer, RecoveryFails, Typed, PlacesOK, Known, places
  <2> QED BY <2>1, <2>2
<1>4. /\ DOMAIN tasks' = Tasks /\ tasks' = [u \in Tasks |-> tasks'[u]]
      /\ \A u \in Tasks : Signalled(tasks[u], tasks'[u])
  BY <1>2, SignalFacts DEF Typed, TasksOK
<1> QED BY <1>1, <1>3, <1>4, AllSignalled

LEMMA TypesInit == Init => Typed
<1> SUFFICES ASSUME Init PROVE Typed
  OBVIOUS
<1>1. carriers = <<>> /\ Len(carriers) = 0 /\ carriers \in Seq(Slot) /\ 0 \in Known
  BY DEF Init, Known
<1>2. PlacesOK
  <2>1. Local \in [kind : {"local"} \cup Opening, carrier : Known, lost : BOOLEAN]
    BY <1>1 DEF Local, None
  <2>2. NoRecovery \in [stage : {"none", "waiting", "connecting", "refused"}, host : Slot, era : Nat]
    BY DEF NoRecovery, Slot, None
  <2>3. 0 <= MaxCarriers /\ 0 \in Nat
    BY ClientAssumption
  <2> QED BY <1>1, <2>1, <2>2, <2>3 DEF Init, PlacesOK, None
<1>3. TasksOK
  BY <1>1, StartedTask, IdleIsTask DEF Init, TasksOK
<1> QED BY <1>2, <1>3 DEF Typed

LEMMA TypesNext == Typed /\ [Next]_vars => Typed'
<1> SUFFICES ASSUME Typed, [Next]_vars PROVE Typed'
  OBVIOUS
<1>1. CASE UNCHANGED vars
  BY <1>1 DEF vars, places, Typed, PlacesOK, TasksOK, Known
<1>2. CASE Next
  <2>1. CASE \E t \in Tasks, kind \in Kinds, host \in Hosts : Select(t, kind, host)
    BY <2>1, SelectTypes
  <2>2. CASE \E t \in Tasks, kind \in Opening : OpenHere(t, kind)
    BY <2>2, OpenHereTypes
  <2>3. CASE \E t \in Tasks, host \in Hosts : StartTool(t, host)
    BY <2>3, StartToolTypes
  <2>4. CASE \E t \in Tasks : CallerAborts(t)
    BY <2>4, CallerAbortsTypes
  <2>5. CASE \E t \in Tasks : ConnectFails(t) \/ CarrierUnwanted(t) \/ Retire(t) \/ Ends(t)
    BY <2>5, FailTypes
  <2>6. CASE \E t \in Tasks : ToolConnects(t) \/ CarrierReady(t) \/ Switch(t)
    BY <2>6, ToolConnectsTypes, CarrierReadyTypes, SwitchTypes
  <2>7. CASE \E t \in Tasks : Replace(t) \/ Answered(t)
    BY <2>7, ReplaceTypes
  <2>8. CASE \E t \in Tasks : CodexClosed(t) \/ AskSession(t)
    BY <2>8, StageTypes
  <2>9. CASE \E t \in Tasks : SelectHarness(t) \/ SelectCodex(t) \/ SelectCursor(t)
    BY <2>9, SelectsTypes
  <2>10. CASE Leave \/ Close
    BY <2>10, LeaveTypes
  <2>11. CASE \E c \in Carrier, retryable \in BOOLEAN : CarrierCloses(c, retryable)
    BY <2>11, CarrierClosesTypes
  <2>12. CASE RetryTimer \/ Recovers \/ \E retryable \in BOOLEAN : RecoveryFails(retryable)
    BY <2>12, RecoveryTypes
  <2> QED
    BY <1>2, <2>1, <2>2, <2>3, <2>4, <2>5, <2>6, <2>7, <2>8, <2>9, <2>10, <2>11, <2>12 DEF Next
<1> QED BY <1>1, <1>2

(* The tables have their types, and a task holds a carrier exactly while   *)
(* it has been given one, whatever calls, signals and closes interleave.   *)
THEOREM ClientTypes == Spec => []ClientTypeOK
<1>1. Typed <=> ClientTypeOK
  BY TypeParts DEF Typed
<1> QED BY <1>1, TypesInit, TypesNext, PTL DEF Spec

----------------------------------------------------------------------------
(* Without a connection.                                                   *)

ClosedIsOff == closed => connected = None /\ recovery.stage = "none"

Off == Typed /\ NoPhantomAuthority /\ ClosedIsOff

LEMMA OffNext == Off /\ [Next]_vars => Off'
<1> SUFFICES ASSUME Off, [Next]_vars PROVE Off'
  OBVIOUS
<1>0. Typed /\ Typed'
  BY TypesNext DEF Off
<1> USE DEF NoPhantomAuthority, ClosedIsOff
<1>1. CASE UNCHANGED vars
  BY <1>0, <1>1 DEF vars, places, Off
<1>2. ASSUME NEW t \in Tasks, NEW kind \in Kinds, NEW host \in Hosts, Select(t, kind, host)
      PROVE  Off'
  BY <1>0, <1>2 DEF Select, BeginSelection, NoRecovery, Off
<1>3. ASSUME NEW t \in Tasks,
             \/ \E kind \in Opening : OpenHere(t, kind)
             \/ \E host \in Hosts : StartTool(t, host)
             \/ CallerAborts(t) \/ ConnectFails(t) \/ CarrierUnwanted(t) \/ Retire(t) \/ Ends(t)
             \/ ToolConnects(t) \/ AskSession(t)
      PROVE  Off'
  BY <1>0, <1>3 DEF OpenHere, StartTool, CallerAborts, ConnectFails, CarrierUnwanted, Retire, Ends,
                    ToolConnects, AskSession, places, Off
<1>4. ASSUME NEW t \in Tasks, CarrierReady(t) \/ CodexClosed(t)
      PROVE  Off'
  BY <1>0, <1>4 DEF CarrierReady, CodexClosed, Off
<1>5. ASSUME NEW t \in Tasks, Switch(t) \/ Replace(t) \/ Answered(t)
      PROVE  Off'
  <2>1. tasks[t].stage \in {"preview", "request"} => tasks[t].carrier # None
    BY <1>0, TaskFacts DEF TaskOK
  <2>2. CASE Switch(t) \/ Replace(t)
    BY <1>0, <2>1, <2>2 DEF Switch, Replace, Off, Wanted, CloseCodex
  <2>3. CASE Answered(t)
    BY <1>0, <2>1, <2>3 DEF Answered, Off, CloseCodex
  <2> QED BY <1>5, <2>2, <2>3
<1>6. ASSUME NEW t \in Tasks, SelectHarness(t) \/ SelectCodex(t) \/ SelectCursor(t)
      PROVE  Off'
  <2>1. tasks[t].stage \in {"acpOff", "prefer"} => tasks[t].carrier # None
    BY <1>0, TaskFacts DEF TaskOK
  <2> QED BY <1>0, <1>6, <2>1 DEF SelectHarness, SelectCodex, SelectCursor, Current, Off
<1>7. CASE Leave \/ Close
  BY <1>0, <1>7 DEF Leave, Close, LeaveRemote, NoRecovery, Off
<1>8. ASSUME NEW c \in Carrier, NEW retryable \in BOOLEAN, CarrierCloses(c, retryable)
      PROVE  Off'
  <2>1. CASE c # connected
    BY <1>0, <1>8, <2>1 DEF CarrierCloses, places, Off
  <2>2. CASE c = connected
    <3>1. gateway' = Local \/ gateway'.lost
      BY <1>0, <1>8, <2>2 DEF CarrierCloses, Typed, PlacesOK
    <3>2. ~closed'
      BY <1>8, <2>2 DEF CarrierCloses, Off, Carrier, None
    <3> QED BY <1>0, <1>8, <2>2, <3>1, <3>2 DEF CarrierCloses, Off
  <2> QED BY <2>1, <2>2
<1>9. CASE RetryTimer \/ Recovers \/ \E retryable \in BOOLEAN : RecoveryFails(retryable)
  <2>1. ~closed
    BY <1>9 DEF RetryTimer, Recovers, RecoveryFails, Off
  <2>2. Len(carriers) + 1 # None
    BY <1>0 DEF Typed, PlacesOK, None
  <2> QED BY <1>0, <1>9, <2>1, <2>2 DEF RetryTimer, Recovers, RecoveryFails, places, Off
<1> QED BY <1>1, <1>2, <1>3, <1>4, <1>5, <1>6, <1>7, <1>8, <1>9 DEF Next

LEMMA OffAlways == Spec => []Off
<1>1. Init => Off
  BY TypesInit DEF Init, Off, NoPhantomAuthority, ClosedIsOff
<1> QED BY <1>1, OffNext, PTL DEF Spec

(* No interleaving of opens, losses and exits leaves an authority, a       *)
(* virtual workspace or a recoverable Host behind a connection that is     *)
(* gone.                                                                   *)
THEOREM NothingIsPhantom == Spec => []NoPhantomAuthority
<1>1. Off => NoPhantomAuthority
  BY DEF Off
<1> QED BY <1>1, OffAlways, PTL

----------------------------------------------------------------------------
(* One selection at a time.                                                *)

Live(task) == Selecting(task) /\ ~task.aborted

(* The tasks about to install a carrier. *)
Installs(task) == Live(task) /\ task.stage = "preview"

OneSelection ==
    /\ \A t \in Tasks : Live(tasks[t]) => tasks[t].era = era
    /\ \A t, u \in Tasks : Live(tasks[t]) /\ Live(tasks[u]) => t = u

(* A recovery is of the Host lost last, after the newest selection began. *)
Active == recovery.stage \in {"waiting", "connecting"}
Recovering == Active => recovery.era = era

(* A carrier that is about to be installed is newer than the installed one, *)
(* unless a recovery came in between.                                       *)
Newer ==
    \A t \in Tasks : Installs(tasks[t]) => connected < tasks[t].carrier \/ connected \in recovered

Sel == Off /\ OneSelection /\ Recovering /\ Newer

(* No task is selecting that was not, and none is given a carrier. *)
Calm(old, new) == Live(new) => Live(old) /\ new.era = old.era
Still(old, new) == Installs(new) => Installs(old) /\ new.carrier = old.carrier

LEMMA CalmSignal ==
    /\ \A old, new \in Task : Signalled(old, new) => Calm(old, new) /\ Still(old, new)
    /\ \A old : Calm(old, Idle) /\ Still(old, Idle)
<1>1. \A old, new \in Task : Signalled(old, new) => Calm(old, new) /\ Still(old, new)
  BY DEF Signalled, Calm, Still, Installs, Live, Selecting, Seeking
<1>2. Idle.kind = "tool" /\ Idle.stage = "idle"
  BY DEF Idle, Call
<1> QED BY <1>1, <1>2 DEF Calm, Still, Installs, Live, Selecting, Seeking

(* What is left to show of a step that selects nothing. *)
LEMMA CalmStep ==
    ASSUME Sel, Off', era' = era, \A u \in Tasks : Calm(tasks[u], tasks'[u]), Recovering', Newer'
    PROVE  Sel'
<1>1. \A u \in Tasks : Live(tasks'[u]) => Live(tasks[u]) /\ tasks'[u].era = tasks[u].era
  BY DEF Calm
<1>2. OneSelection'
  BY <1>1 DEF Sel, OneSelection
<1> QED BY <1>2 DEF Sel

LEMMA NewerStep ==
    ASSUME Sel, Typed', \A u \in Tasks : Still(tasks[u], tasks'[u]),
           \/ connected' \in {connected, None} /\ recovered' = recovered
           \/ connected' \in recovered'
    PROVE  Newer'
<1> SUFFICES ASSUME NEW u \in Tasks, Installs(tasks'[u]), connected' \notin recovered'
             PROVE  connected' < tasks'[u].carrier
  BY DEF Newer
<1>1. tasks'[u].carrier \in Nat /\ tasks'[u].carrier # None
  <2>1. tasks'[u].stage = "preview" /\ TaskOK(tasks'[u], Len(carriers'))
    BY DEF Installs, Typed, TasksOK
  <2>2. tasks'[u] \in Task
    BY <2>1 DEF TaskOK
  <2>3. tasks'[u].carrier \in Nat
    BY <2>2 DEF Task
  <2> QED BY <2>1, <2>3 DEF TaskOK
<1>2. Installs(tasks[u]) /\ tasks'[u].carrier = tasks[u].carrier
  BY DEF Still
<1>3. CASE connected' = connected
  BY <1>2, <1>3 DEF Sel, Newer
<1>4. CASE connected' = None
  BY <1>1, <1>4 DEF None
<1> QED BY <1>3, <1>4

(* A step of one task that leaves the connection and its recovery alone. *)
LEMMA AsideStep ==
    ASSUME Sel, Off', UNCHANGED <<era, connected, recovery, recovered>>,
           NEW t \in Tasks, Others(t), Calm(tasks[t], tasks'[t]),
           Still(tasks[t], tasks'[t]) \/ Newer'
    PROVE  Sel'
<1>1. Typed /\ Typed'
  BY DEF Sel, Off
<1>2. \A u \in Tasks : tasks[u] \in Task /\ tasks'[u] \in Task
  BY <1>1 DEF Typed, TasksOK
<1>3. \A u \in Tasks : Calm(tasks[u], tasks'[u])
  BY <1>2, CalmSignal DEF Others
<1>4. \A u \in Tasks \ {t} : Still(tasks[u], tasks'[u])
  BY <1>2, CalmSignal DEF Others
<1>5. Newer'
  <2>1. CASE Still(tasks[t], tasks'[t])
    <3>1. \A u \in Tasks : Still(tasks[u], tasks'[u])
      BY <1>4, <2>1
    <3> QED BY <1>1, <3>1, NewerStep
  <2> QED BY <2>1
<1>6. Recovering'
  BY DEF Sel, Recovering, Active
<1> QED BY <1>3, <1>5, <1>6, CalmStep

LEMMA SelectSel ==
    ASSUME Sel, Off', NEW t \in Tasks, NEW kind \in Kinds, NEW host \in Hosts, Select(t, kind, host)
    PROVE  Sel'
<1>1. Typed /\ Typed' /\ era' = era + 1 /\ era \in Nat
  BY DEF Sel, Off, Select, BeginSelection, Typed, PlacesOK
<1>2. \A u \in Tasks \ {t} : Signalled(tasks[u], tasks'[u]) /\ ~Live(tasks'[u])
  <2>1. \A u \in Tasks \ {t} : /\ Signalled(tasks[u], tasks'[u])
                               /\ Selecting(tasks[u]) => tasks'[u].aborted
    BY <1>1, TaskFacts, SignalFacts DEF Select, BeginSelection
  <2>2. \A u \in Tasks \ {t} : Selecting(tasks'[u]) => Selecting(tasks[u])
    BY <2>1 DEF Signalled, Selecting, Seeking
  <2> QED BY <2>1, <2>2 DEF Live
<1>3. tasks'[t].stage = "connect" /\ tasks'[t].era = era'
  <2>1. tasks'[t] = Call(kind, "connect", host, None, era + 1)
    BY DEF Select, BeginSelection
  <2> QED BY <1>1, <2>1 DEF Call
<1>4. OneSelection' /\ Newer'
  BY <1>2, <1>3 DEF OneSelection, Newer, Installs
<1>5. Recovering'
  BY DEF Select, BeginSelection, Recovering, Active, NoRecovery
<1> QED BY <1>4, <1>5 DEF Sel

LEMMA LeaveSel ==
    ASSUME Sel, Off', Leave \/ Close
    PROVE  Sel'
<1>0. LeaveRemote
  BY DEF Leave, Close
<1>1. Typed
  BY DEF Sel, Off
<1>2. \A u \in Tasks : ~Live(tasks'[u])
  <2>1. \A x \in Task : /\ Signalled(x, Lifetime(Outdated(Superseded(x))))
                        /\ Selecting(x) => Lifetime(Outdated(Superseded(x))).aborted
    <3>1. \A x \in Task : Signalled(x, Superseded(x)) /\ Signalled(x, Outdated(x)) /\ Signalled(x, Lifetime(x))
      BY DEF Signalled, Task, Superseded, Outdated, Lifetime
    <3>2. \A x \in Task : Selecting(x) => Superseded(x).aborted
      BY DEF Task, Superseded
    <3>3. \A x \in Task : Superseded(x) \in Task /\ Outdated(x) \in Task
      BY <3>1 DEF Signalled
    <3>4. \A x, y \in Task : Signalled(x, y) => (x.aborted => y.aborted)
      BY DEF Signalled
    <3>5. \A x \in Task : Superseded(x).aborted => Outdated(Superseded(x)).aborted
      BY <3>1, <3>3, <3>4
    <3>6. \A x \in Task : Lifetime(x) \in Task
      BY <3>1 DEF Signalled
    <3>7. \A x \in Task : Outdated(Superseded(x)).aborted => Lifetime(Outdated(Superseded(x))).aborted
      BY <3>1, <3>3, <3>4, <3>6
    <3> QED BY <3>2, <3>5, <3>7, SignalFacts
  <2>2. \A u \in Tasks : /\ Signalled(tasks[u], tasks'[u])
                         /\ Selecting(tasks[u]) => tasks'[u].aborted
    BY <1>0, <1>1, <2>1, TaskFacts DEF LeaveRemote
  <2>3. \A u \in Tasks : Selecting(tasks'[u]) => Selecting(tasks[u])
    BY <2>2 DEF Signalled, Selecting, Seeking
  <2> QED BY <2>2, <2>3 DEF Live
<1>3. OneSelection' /\ Newer'
  BY <1>2 DEF OneSelection, Newer, Installs
<1>4. Recovering'
  BY <1>0 DEF LeaveRemote, Recovering, Active, NoRecovery
<1> QED BY <1>3, <1>4 DEF Sel

(* The steps that neither choose nor install anything. *)
LEMMA AsideSel ==
    ASSUME Sel, Off', NEW t \in Tasks,
           \/ \E kind \in Opening : OpenHere(t, kind)
           \/ \E host \in Hosts : StartTool(t, host)
           \/ CallerAborts(t) \/ ConnectFails(t) \/ ToolConnects(t) \/ CarrierUnwanted(t)
           \/ Retire(t) \/ Ends(t) \/ Answered(t) \/ CodexClosed(t) \/ AskSession(t)
    PROVE  Sel'
<1>1. Typed /\ Typed' /\ tasks[t] \in Task
  BY TaskFacts DEF Sel, Off
<1>2. UNCHANGED <<era, connected, recovery, recovered>>
  BY DEF OpenHere, StartTool, CallerAborts, ConnectFails, ToolConnects, CarrierUnwanted, Retire, Ends,
         Answered, CodexClosed, AskSession, places
<1>3. ASSUME NEW kind \in Opening, OpenHere(t, kind)
      PROVE  Sel'
  <2>1. Others(t)
    BY <1>1, <1>3, SignalFacts DEF Typed, TasksOK, Others, OpenHere
  <2>2. tasks'[t].kind = kind /\ tasks'[t].stage = "request"
    BY <1>3 DEF OpenHere, Call
  <2>3. Calm(tasks[t], tasks'[t]) /\ Still(tasks[t], tasks'[t])
    BY <2>2 DEF Calm, Still, Installs, Live, Selecting, Seeking, Opening
  <2> QED BY <1>2, <2>1, <2>3, AsideStep
<1>4. ASSUME NEW host \in Hosts, StartTool(t, host)
      PROVE  Sel'
  <2>1. Others(t) /\ tasks'[t] = Call("tool", "connect", host, None, 0)
    BY <1>1, <1>4, Alone DEF StartTool
  <2>2. tasks'[t].kind = "tool"
    BY <2>1 DEF Call
  <2>3. Calm(tasks[t], tasks'[t]) /\ Still(tasks[t], tasks'[t])
    BY <2>2 DEF Calm, Still, Installs, Live, Selecting, Seeking
  <2> QED BY <1>2, <2>1, <2>3, AsideStep
<1>5. CASE CallerAborts(t)
  <2>1. Others(t) /\ tasks'[t] = [tasks[t] EXCEPT !.aborted = TRUE]
    BY <1>1, <1>5, Alone DEF CallerAborts
  <2>2. Signalled(tasks[t], tasks'[t])
    BY <1>1, <2>1, SignalFacts
  <2>3. tasks'[t] \in Task
    BY <2>2 DEF Signalled
  <2> QED BY <1>1, <1>2, <2>1, <2>2, <2>3, CalmSignal, AsideStep
<1>6. CASE ConnectFails(t) \/ CarrierUnwanted(t) \/ Retire(t) \/ Ends(t)
  <2>1. Others(t) /\ tasks'[t] = Idle
    BY <1>1, <1>6, Alone DEF ConnectFails, CarrierUnwanted, Retire, Ends, Finish
  <2> QED BY <1>2, <2>1, CalmSignal, AsideStep
<1>7. CASE ToolConnects(t)
  <2> DEFINE new == [tasks[t] EXCEPT !.stage = "request", !.host = None, !.carrier = Len(carriers) + 1]
  <2>1. tasks' = [tasks EXCEPT ![t] = new]
    BY <1>7 DEF ToolConnects
  <2>2. Others(t) /\ tasks'[t] = new
    BY <1>1, <2>1, Alone
  <2>3. new.kind = "tool"
    BY <1>1, <1>7 DEF ToolConnects, Task
  <2>4. Calm(tasks[t], tasks'[t]) /\ Still(tasks[t], tasks'[t])
    BY <2>2, <2>3 DEF Calm, Still, Installs, Live, Selecting, Seeking
  <2> QED BY <1>2, <2>2, <2>4, AsideStep
<1>8. CASE Answered(t)
  <2>1. Others(t) /\ tasks'[t] = [tasks[t] EXCEPT !.stage = "codexOff"]
    BY <1>1, <1>8, SignalFacts DEF Answered, CloseCodex, Typed, TasksOK, Others
  <2>2. tasks'[t].kind = tasks[t].kind /\ tasks'[t].stage = "codexOff"
    BY <1>1, <2>1 DEF Task
  <2>3. Calm(tasks[t], tasks'[t]) /\ Still(tasks[t], tasks'[t])
    BY <1>8, <2>2 DEF Answered, Calm, Still, Installs, Live, Selecting, Seeking, Opening
  <2> QED BY <1>2, <2>1, <2>3, AsideStep
<1>9. CASE CodexClosed(t) \/ AskSession(t)
  <2>1. PICK stage \in {"acpOff", "prefer"} : tasks' = [tasks EXCEPT ![t] = [tasks[t] EXCEPT !.stage = stage]]
    BY <1>9 DEF CodexClosed, AskSession
  <2>2. Others(t) /\ tasks'[t] = [tasks[t] EXCEPT !.stage = stage]
    BY <1>1, <2>1, Alone
  <2>3. /\ tasks'[t].kind = tasks[t].kind /\ tasks'[t].stage = stage
        /\ tasks'[t].era = tasks[t].era /\ tasks'[t].aborted = tasks[t].aborted
    BY <1>1, <2>2 DEF Task
  <2>4. tasks[t].stage \in {"codexOff", "acpOff"}
    BY <1>9 DEF CodexClosed, AskSession
  <2>5. Calm(tasks[t], tasks'[t]) /\ Still(tasks[t], tasks'[t])
    BY <2>3, <2>4 DEF Calm, Still, Installs, Live, Selecting, Seeking
  <2> QED BY <1>2, <2>2, <2>5, AsideStep
<1> QED BY <1>3, <1>4, <1>5, <1>6, <1>7, <1>8, <1>9

(* A carrier is given to a task, which is the one that selects. *)
(* A carrier is given to a task, which is the one that selects. *)
LEMMA CarrierReadySel ==
    ASSUME Sel, Off', NEW t \in Tasks, CarrierReady(t)
    PROVE  Sel'
<1> DEFINE new == [tasks[t] EXCEPT !.stage = "preview", !.host = None, !.carrier = Len(carriers) + 1,
                          !.previous = IF tasks[t].kind = "mode" THEN connected ELSE None]
<1>1. Typed /\ Typed' /\ tasks[t] \in Task /\ Len(carriers) \in Nat /\ connected \in 0..Len(carriers)
  BY TaskFacts DEF Sel, Off, Typed, PlacesOK, Known
<1>2. tasks' = [tasks EXCEPT ![t] = new]
  BY DEF CarrierReady
<1>3. Others(t) /\ tasks'[t] = new
  BY <1>1, <1>2, Alone
<1>4. /\ tasks'[t].kind = tasks[t].kind /\ tasks'[t].stage = "preview" /\ tasks'[t].era = tasks[t].era
      /\ tasks'[t].aborted = tasks[t].aborted /\ tasks'[t].carrier = Len(carriers) + 1
  BY <1>1, <1>3 DEF Task
<1>5. Calm(tasks[t], tasks'[t])
  BY <1>4 DEF CarrierReady, Connects, Calm, Live, Selecting, Seeking
<1>6. \A u \in Tasks \ {t} : tasks'[u] = tasks[u]
  BY <1>1, <1>2 DEF Typed, TasksOK
<1>7. Newer'
  <2>1. connected' < tasks'[t].carrier
    BY <1>1, <1>4 DEF CarrierReady
  <2>2. \A u \in Tasks \ {t} : Installs(tasks'[u]) =>
            connected' < tasks'[u].carrier \/ connected' \in recovered'
    BY <1>6 DEF CarrierReady, Sel, Newer
  <2> QED BY <2>1, <2>2 DEF Newer
<1>8. UNCHANGED <<era, connected, recovery, recovered>>
  BY DEF CarrierReady
<1> QED BY <1>3, <1>5, <1>7, <1>8, AsideStep

(* The task that installs a Host: nothing else is selecting. *)
LEMMA Installing ==
    ASSUME Sel, NEW t \in Tasks, Switch(t) \/ Replace(t)
    PROVE  /\ Live(tasks[t]) /\ tasks[t].era = era
           /\ connected < tasks[t].carrier \/ connected \in recovered
           /\ \A u \in Tasks \ {t} : ~Live(tasks[u])
<1>1. tasks[t].stage = "preview" /\ tasks[t].kind # "tool" /\ ~tasks[t].aborted
  BY DEF Switch, Replace, Wanted, Listing, Opening
<1>2. Installs(tasks[t]) /\ Live(tasks[t])
  BY <1>1 DEF Installs, Live, Selecting, Seeking
<1> QED BY <1>2 DEF Sel, OneSelection, Newer

LEMMA InstallSel ==
    ASSUME Sel, Off', NEW t \in Tasks, Switch(t) \/ Replace(t)
    PROVE  Sel'
<1>1. Typed /\ Typed' /\ tasks[t] \in Task
  BY TaskFacts DEF Sel, Off
<1>2. Others(t) /\ tasks'[t].kind = tasks[t].kind /\ tasks'[t].aborted = tasks[t].aborted
      /\ \/ tasks[t].kind \in Listing /\ tasks'[t].stage = "request"
         \/ tasks[t].kind = "mode" /\ tasks'[t].stage = "codexOff" /\ tasks'[t].era = tasks[t].era
  <2>1. CASE Switch(t)
    <3> DEFINE new == [tasks[t] EXCEPT !.stage = "request", !.era = 0]
    <3>1. tasks' = [tasks EXCEPT ![t] = new]
      BY <1>1, <2>1 DEF Switch
    <3>2. Others(t) /\ tasks'[t] = new
      BY <1>1, <3>1, Alone
    <3>3. new.kind = tasks[t].kind /\ new.aborted = tasks[t].aborted /\ new.stage = "request"
      BY <1>1 DEF Task
    <3>4. tasks[t].kind \in Listing
      BY <2>1 DEF Switch
    <3> QED BY <3>2, <3>3, <3>4
  <2>2. CASE Replace(t)
    <3>1. Others(t) /\ tasks'[t] = [tasks[t] EXCEPT !.stage = "codexOff"]
      BY <1>1, <2>2, SignalFacts DEF Replace, CloseCodex, Typed, TasksOK, Others
    <3> QED BY <1>1, <2>2, <3>1 DEF Replace, Task
  <2> QED BY <2>1, <2>2
<1>3. Calm(tasks[t], tasks'[t]) /\ ~Installs(tasks'[t])
  BY <1>2, Installing DEF Calm, Installs, Live, Selecting, Seeking, Listing, Opening
<1>4. \A u \in Tasks : Calm(tasks[u], tasks'[u])
  <2>1. \A u \in Tasks \ {t} : Calm(tasks[u], tasks'[u])
    BY <1>1, <1>2, TaskFacts, CalmSignal DEF Others, Typed, TasksOK
  <2> QED BY <1>3, <2>1
<1>5. Newer'
  <2>1. \A u \in Tasks \ {t} : ~Installs(tasks'[u])
    BY <1>4, Installing DEF Calm, Installs
  <2> QED BY <1>3, <2>1 DEF Newer
<1>6. UNCHANGED <<era, recovery>>
  BY DEF Switch, Replace
<1>7. Recovering'
  BY <1>6 DEF Sel, Recovering, Active
<1> QED BY <1>4, <1>5, <1>6, <1>7, CalmStep

LEMMA ChooseSel ==
    ASSUME Sel, Off', NEW t \in Tasks, SelectHarness(t) \/ SelectCodex(t) \/ SelectCursor(t)
    PROVE  Sel'
<1>1. Typed /\ Typed' /\ tasks[t] \in Task
  BY TaskFacts DEF Sel, Off
<1>2. Others(t) /\ tasks'[t] = Idle
  BY <1>1, Alone DEF SelectHarness, SelectCodex, SelectCursor, Finish
<1>3. UNCHANGED <<era, connected, recovery, recovered>>
  BY DEF SelectHarness, SelectCodex, SelectCursor
<1> QED BY <1>2, <1>3, CalmSignal, AsideStep

LEMMA CarrierClosesSel ==
    ASSUME Sel, Off', NEW c \in Carrier, NEW retryable \in BOOLEAN, CarrierCloses(c, retryable)
    PROVE  Sel'
<1>1. Typed /\ Typed' /\ era' = era
  BY DEF Sel, Off, CarrierCloses
<1>2. \A u \in Tasks : tasks'[u] = tasks[u] \/ tasks'[u] = Outdated(tasks[u])
  BY <1>1 DEF CarrierCloses, Typed, TasksOK
<1>3. \A u \in Tasks : Calm(tasks[u], tasks'[u]) /\ Still(tasks[u], tasks'[u])
  <2>1. \A u \in Tasks : Signalled(tasks[u], tasks'[u])
    BY <1>1, <1>2, TaskFacts, SignalFacts
  <2>2. \A u \in Tasks : tasks'[u] \in Task
    BY <2>1 DEF Signalled
  <2> QED BY <1>1, <2>1, <2>2, TaskFacts, CalmSignal
<1>4. Newer'
  <2>1. connected' \in {connected, None} /\ recovered' = recovered
    BY DEF CarrierCloses, places
  <2> QED BY <1>1, <1>3, <2>1, NewerStep
<1>5. Recovering'
  BY DEF CarrierCloses, Sel, Recovering, Active, NoRecovery
<1> QED BY <1>1, <1>3, <1>4, <1>5, CalmStep

LEMMA RecoverSel ==
    ASSUME Sel, Off', RetryTimer \/ Recovers \/ \E retryable \in BOOLEAN : RecoveryFails(retryable)
    PROVE  Sel'
<1>1. Typed /\ Typed' /\ UNCHANGED <<era, tasks>>
  BY DEF Sel, Off, RetryTimer, Recovers, RecoveryFails
<1>2. \A u \in Tasks : Calm(tasks[u], tasks'[u]) /\ Still(tasks[u], tasks'[u])
  BY <1>1 DEF Calm, Still
<1>3. Newer'
  <2>1. \/ connected' = connected /\ recovered' = recovered
        \/ connected' \in recovered'
    BY DEF RetryTimer, Recovers, RecoveryFails, places
  <2> QED BY <1>1, <1>2, <2>1, NewerStep
<1>4. Recovering'
  <2>1. CASE Recovers
    BY <2>1 DEF Recovers, NoRecovery, Recovering, Active
  <2>2. CASE RetryTimer \/ \E retryable \in BOOLEAN : RecoveryFails(retryable)
    <3>1. Active
      BY <2>2 DEF RetryTimer, RecoveryFails, Active
    <3>2. recovery'.era = recovery.era
      BY <1>1, <2>2 DEF RetryTimer, RecoveryFails, Typed, PlacesOK
    <3> QED BY <1>1, <3>1, <3>2 DEF Sel, Recovering
  <2> QED BY <2>1, <2>2
<1> QED BY <1>1, <1>2, <1>3, <1>4, CalmStep

LEMMA SelNext == Sel /\ [Next]_vars => Sel'
<1> SUFFICES ASSUME Sel, [Next]_vars PROVE Sel'
  OBVIOUS
<1>0. Off'
  BY OffNext DEF Sel
<1>1. CASE UNCHANGED vars
  BY <1>0, <1>1 DEF vars, places, Sel, OneSelection, Active, Recovering, Newer
<1>2. CASE \E t \in Tasks, kind \in Kinds, host \in Hosts : Select(t, kind, host)
  BY <1>0, <1>2, SelectSel
<1>3. ASSUME NEW t \in Tasks, CarrierReady(t)
      PROVE  Sel'
  BY <1>0, <1>3, CarrierReadySel
<1>4. ASSUME NEW t \in Tasks, Switch(t) \/ Replace(t)
      PROVE  Sel'
  BY <1>0, <1>4, InstallSel
<1>5. ASSUME NEW t \in Tasks, SelectHarness(t) \/ SelectCodex(t) \/ SelectCursor(t)
      PROVE  Sel'
  BY <1>0, <1>5, ChooseSel
<1>6. ASSUME NEW t \in Tasks,
             \/ \E kind \in Opening : OpenHere(t, kind)
             \/ \E host \in Hosts : StartTool(t, host)
             \/ CallerAborts(t) \/ ConnectFails(t) \/ ToolConnects(t) \/ CarrierUnwanted(t)
             \/ Retire(t) \/ Ends(t) \/ Answered(t) \/ CodexClosed(t) \/ AskSession(t)
      PROVE  Sel'
  BY <1>0, <1>6, AsideSel
<1>7. CASE Leave \/ Close
  BY <1>0, <1>7, LeaveSel
<1>8. CASE \E c \in Carrier, retryable \in BOOLEAN : CarrierCloses(c, retryable)
  BY <1>0, <1>8, CarrierClosesSel
<1>9. CASE RetryTimer \/ Recovers \/ \E retryable \in BOOLEAN : RecoveryFails(retryable)
  BY <1>0, <1>9, RecoverSel
<1> QED BY <1>1, <1>2, <1>3, <1>4, <1>5, <1>6, <1>7, <1>8, <1>9 DEF Next

LEMMA SelAlways == Spec => []Sel
<1>1. Init => Sel
  <2> SUFFICES ASSUME Init PROVE Sel
    OBVIOUS
  <2>1. Off
    BY TypesInit DEF Init, Off, NoPhantomAuthority, ClosedIsOff
  <2>2. \A t \in Tasks : tasks[t].kind = "tool" /\ tasks[t].stage = "idle"
    BY DEF Init, Idle, Call
  <2> QED BY <2>1, <2>2 DEF Init, Sel, OneSelection, Active, Recovering, Newer, Installs, Live,
                            Selecting, Seeking, NoRecovery
<1> QED BY <1>1, SelNext, PTL DEF Spec

(* Whatever a call installs late belongs to the newest selection, and what *)
(* a recovery installs was lost after it began: setMode(),                 *)
(* ensureConnected() and the recovery loop look at their signals again     *)
(* after their last await, and beginSelection() aborts them.               *)
THEOREM NewestIsInstalled == Spec => NewestWins
<1>1. Sel /\ [Next]_vars =>
        [\A c \in Carrier : (connected' = c /\ connected # c) =>
            /\ ~closed'
            /\ IF c > Len(carriers) THEN recovery.era = era'
               ELSE \E t \in Tasks : tasks[t].carrier = c /\ tasks[t].era = era']_vars
  <2> SUFFICES ASSUME Sel, Next, NEW c \in Carrier, connected' = c, connected # c
               PROVE  /\ ~closed'
                      /\ IF c > Len(carriers) THEN recovery.era = era'
                         ELSE \E t \in Tasks : tasks[t].carrier = c /\ tasks[t].era = era'
    BY DEF vars
  <2>1. \/ \E t \in Tasks : Switch(t) \/ Replace(t)
        \/ Recovers
    <3>1. connected' # connected /\ connected' # None
      BY DEF Carrier, None
    <3> QED BY <3>1 DEF Next, Select, OpenHere, StartTool, CallerAborts, ConnectFails, ToolConnects,
                        CarrierReady, CarrierUnwanted, Retire, Ends, Answered, CodexClosed,
                        SelectHarness, AskSession, SelectCodex, SelectCursor, Leave, Close,
                        LeaveRemote, CarrierCloses, RetryTimer, RecoveryFails, places
  <2>2. ASSUME NEW t \in Tasks, Switch(t) \/ Replace(t)
        PROVE  /\ ~closed' /\ c <= Len(carriers) /\ tasks[t].carrier = c /\ tasks[t].era = era'
    <3>1. tasks[t].era = era
      BY <2>2, Installing
    <3>2. tasks[t].carrier = c /\ ~closed' /\ era' = era
      BY <2>2 DEF Switch, Replace, Wanted
    <3>3. tasks[t].carrier <= Len(carriers)
      BY TaskFacts DEF Sel, Off, Known
    <3> QED BY <3>1, <3>2, <3>3
  <2>3. CASE Recovers
    <3>1. Active /\ ~closed
      BY <2>3 DEF Recovers, Active, Sel, Off, ClosedIsOff
    <3>2. recovery.era = era
      BY <3>1 DEF Sel, Recovering
    <3>3. c = Len(carriers) + 1 /\ Len(carriers) \in Nat
      BY <2>3 DEF Recovers, Sel, Off, Typed, PlacesOK
    <3>4. c > Len(carriers)
      BY <3>3
    <3> QED BY <2>3, <3>1, <3>2, <3>4 DEF Recovers
  <2>4. Len(carriers) \in Nat /\ c \in Nat
    BY DEF Sel, Off, Typed, PlacesOK, Carrier
  <2> QED BY <2>1, <2>2, <2>3, <2>4
<1> QED BY <1>1, SelAlways, PTL DEF Spec, NewestWins

----------------------------------------------------------------------------
(* The newest carrier, when a call opened it, is in somebody's hands.      *)

Holds(task, c) == task.carrier = c /\ (task.kind = "tool" \/ task.stage = "preview")
Newest == Len(carriers)
IsOpen == Newest # None /\ carriers[Newest] # None /\ Newest \notin recovered

LEMMA HeldStep ==
    ASSUME Typed, Typed', NoOrphan, Len(carriers') = Len(carriers),
           IsOpen' => IsOpen /\ (connected = Newest => connected' = Newest),
           \A u \in Tasks : IsOpen' /\ Holds(tasks[u], Newest) =>
                                Holds(tasks'[u], Newest) \/ connected' = Newest
    PROVE  NoOrphan'
<1> SUFFICES ASSUME IsOpen'
             PROVE  connected' = Newest \/ \E u \in Tasks : Holds(tasks'[u], Newest)
  BY DEF NoOrphan, IsOpen, Newest, Holds, None
<1>1. IsOpen => connected = Newest \/ \E u \in Tasks : Holds(tasks[u], Newest)
  BY DEF NoOrphan, IsOpen, Newest, Holds, None
<1> QED BY <1>1

(* The carriers are closed at most. *)
LEMMA ClosedStep ==
    ASSUME Typed, NEW which, carriers' = ClosedIn(carriers, which), recovered' = recovered
    PROVE  Len(carriers') = Len(carriers) /\ (IsOpen' => IsOpen /\ Newest \notin which)
<1>1. carriers \in Seq(Slot) /\ Len(carriers) \in Nat
  BY DEF Typed, PlacesOK
<1>2. Len(carriers') = Len(carriers)
  BY <1>1, ClosedFacts
<1>3. \A c \in 1..Len(carriers) : carriers'[c] = IF c \in which THEN None ELSE carriers[c]
  BY <1>1, ClosedFacts
<1>4. Newest # None => Newest \in 1..Len(carriers)
  BY <1>1 DEF Newest, None
<1> QED BY <1>2, <1>3, <1>4 DEF IsOpen, Newest

LEMMA SameCarriers ==
    ASSUME carriers' = carriers, recovered' = recovered
    PROVE  Len(carriers') = Len(carriers) /\ (IsOpen' => IsOpen)
BY DEF IsOpen, Newest

LEMMA HeldSignal == \A old, new : Signalled(old, new) => \A c : Holds(old, c) => Holds(new, c)
BY DEF Signalled, Holds

LEMMA NoneHolds ==
    ASSUME Typed, NEW t \in Tasks, tasks[t].stage \in {"idle", "connect"}
    PROVE  IsOpen' /\ Len(carriers') = Len(carriers) => ~Holds(tasks[t], Newest)
BY TaskFacts DEF TaskOK, Holds, IsOpen, Newest

(* A step of one task. *)
LEMMA HeldAlone ==
    ASSUME Typed, Typed', NoOrphan, Len(carriers') = Len(carriers), NEW t \in Tasks, Others(t),
           IsOpen' => IsOpen /\ (connected = Newest => connected' = Newest),
           IsOpen' /\ Holds(tasks[t], Newest) => Holds(tasks'[t], Newest) \/ connected' = Newest
    PROVE  NoOrphan'
<1>1. \A u \in Tasks \ {t} : Holds(tasks[u], Newest) => Holds(tasks'[u], Newest)
  BY HeldSignal DEF Others
<1>2. \A u \in Tasks : IsOpen' /\ Holds(tasks[u], Newest) =>
                           Holds(tasks'[u], Newest) \/ connected' = Newest
  BY <1>1
<1> QED BY <1>2, HeldStep

(* The step puts a new carrier in somebody's hands. *)
LEMMA HeldNew ==
    ASSUME Typed, NEW h \in Slot, carriers' = Append(carriers, h),
           \/ h = None
           \/ connected' = Len(carriers) + 1
           \/ \E u \in Tasks : Holds(tasks'[u], Len(carriers) + 1)
    PROVE  NoOrphan'
<1>1. Len(carriers') = Len(carriers) + 1 /\ carriers'[Len(carriers) + 1] = h
  BY OpenedFacts DEF Typed, PlacesOK
<1> QED BY <1>1 DEF NoOrphan, Holds, None

(* Starting, going on and ending. *)
LEMMA StartHeld ==
    ASSUME Sel, Typed', NoOrphan, NEW t \in Tasks,
           \/ \E kind \in Kinds, host \in Hosts : Select(t, kind, host)
           \/ \E kind \in Opening : OpenHere(t, kind)
           \/ \E host \in Hosts : StartTool(t, host)
           \/ ConnectFails(t) \/ CallerAborts(t) \/ Answered(t) \/ CodexClosed(t) \/ AskSession(t)
    PROVE  NoOrphan'
<1>1. Typed /\ tasks[t] \in Task /\ connected' = connected /\ recovered' = recovered
  BY TaskFacts DEF Sel, Off, Select, OpenHere, StartTool, ConnectFails, CallerAborts, Answered, CodexClosed,
                   AskSession, places
<1>2. Len(carriers') = Len(carriers) /\ (IsOpen' => IsOpen)
  <2>1. CASE CallerAborts(t)
    BY <1>1, <2>1, ClosedStep, SameCarriers DEF CallerAborts
  <2>2. CASE ~CallerAborts(t)
    BY <1>1, <2>2, SameCarriers DEF Select, OpenHere, StartTool, ConnectFails, Answered, CodexClosed, AskSession
  <2> QED BY <2>1, <2>2
<1>3. Others(t)
  <2>1. CASE \E kind \in Kinds, host \in Hosts : Select(t, kind, host)
    BY <1>1, <2>1, SignalFacts DEF Typed, TasksOK, Others, Select, BeginSelection
  <2>2. CASE \E kind \in Opening : OpenHere(t, kind)
    BY <1>1, <2>2, SignalFacts DEF Typed, TasksOK, Others, OpenHere
  <2>3. CASE Answered(t)
    BY <1>1, <2>3, SignalFacts DEF Answered, CloseCodex, Typed, TasksOK, Others
  <2>4. CASE \/ \E host \in Hosts : StartTool(t, host)
             \/ ConnectFails(t) \/ CallerAborts(t) \/ CodexClosed(t) \/ AskSession(t)
    <3>1. PICK new : tasks' = [tasks EXCEPT ![t] = new]
      BY <2>4 DEF StartTool, ConnectFails, Finish, CallerAborts, CodexClosed, AskSession
    <3> QED BY <1>1, <3>1, Alone
  <2> QED BY <2>1, <2>2, <2>3, <2>4
<1>4. IsOpen' /\ Holds(tasks[t], Newest) => Holds(tasks'[t], Newest)
  <2>1. CASE tasks[t].stage \in {"idle", "connect"}
    BY <1>1, <1>2, <2>1, NoneHolds
  <2>2. CASE CallerAborts(t)
    <3>1. tasks'[t] = [tasks[t] EXCEPT !.aborted = TRUE]
      BY <1>1, <2>2 DEF CallerAborts, Typed, TasksOK
    <3> QED BY <1>1, <3>1, SignalFacts, HeldSignal
  <2>3. CASE Answered(t) \/ CodexClosed(t) \/ AskSession(t)
    <3>1. tasks[t].stage # "preview" /\ tasks'[t].kind = tasks[t].kind /\ tasks'[t].carrier = tasks[t].carrier
      BY <1>1, <2>3 DEF Answered, CloseCodex, CodexClosed, AskSession, Typed, TasksOK, Task
    <3> QED BY <3>1 DEF Holds
  <2> QED BY <2>1, <2>2, <2>3 DEF Select, OpenHere, StartTool, ConnectFails, Busy
<1> QED BY <1>1, <1>2, <1>3, <1>4, HeldAlone

LEMMA EndHeld ==
    ASSUME Sel, Typed', NoOrphan, NEW t \in Tasks,
           Retire(t) \/ Ends(t) \/ SelectHarness(t) \/ SelectCodex(t) \/ SelectCursor(t)
    PROVE  NoOrphan'
<1>1. Typed /\ tasks[t] \in Task /\ connected' = connected /\ recovered' = recovered
  BY TaskFacts DEF Sel, Off, Retire, Ends, SelectHarness, SelectCodex, SelectCursor, places
<1>2. Others(t)
  BY <1>1, Alone DEF Retire, Ends, SelectHarness, SelectCodex, SelectCursor, Finish
<1>3. /\ Len(carriers') = Len(carriers) /\ (IsOpen' => IsOpen)
      /\ IsOpen' => ~Holds(tasks[t], Newest)
  <2>1. CASE Retire(t)
    BY <1>1, <2>1, ClosedStep DEF Retire, Holds
  <2>2. CASE Ends(t) /\ tasks[t].kind = "tool"
    BY <1>1, <2>2, ClosedStep DEF Ends, Holds
  <2>3. CASE Ends(t) /\ tasks[t].kind # "tool"
    <3>1. tasks[t].stage # "preview"
      BY <2>3 DEF Ends, Seeking
    <3> QED BY <1>1, <2>3, <3>1, SameCarriers DEF Ends, Holds
  <2>4. CASE SelectHarness(t) \/ SelectCodex(t) \/ SelectCursor(t)
    <3>1. tasks[t].stage # "preview" /\ tasks[t].kind # "tool"
      BY <2>4 DEF SelectHarness, SelectCodex, SelectCursor
    <3> QED BY <1>1, <2>4, <3>1, ClosedStep, SameCarriers DEF SelectHarness, SelectCodex, SelectCursor, Holds
  <2> QED BY <2>1, <2>2, <2>3, <2>4
<1> QED BY <1>1, <1>2, <1>3, HeldAlone

(* Installing, losing and leaving. *)
LEMMA InstallHeld ==
    ASSUME Sel, Typed', NoOrphan, NEW t \in Tasks, Switch(t) \/ Replace(t)
    PROVE  NoOrphan'
<1>1. Typed /\ tasks[t] \in Task /\ connected' = tasks[t].carrier /\ recovered' = recovered
  BY TaskFacts DEF Sel, Off, Switch, Replace
<1>2. Others(t)
  <2>1. CASE Switch(t)
    <3>1. PICK new : tasks' = [tasks EXCEPT ![t] = new]
      BY <2>1 DEF Switch
    <3> QED BY <1>1, <3>1, Alone
  <2>2. CASE Replace(t)
    BY <1>1, <2>2, SignalFacts DEF Replace, CloseCodex, Typed, TasksOK, Others
  <2> QED BY <2>1, <2>2
<1>3. IsOpen' /\ Holds(tasks[t], Newest) => connected' = Newest
  BY <1>1 DEF Holds
<1>4. Len(carriers') = Len(carriers) /\ (IsOpen' => IsOpen /\ connected # Newest)
  <2>1. CASE Switch(t)
    BY <1>1, <2>1, ClosedStep DEF Switch
  <2>2. CASE Replace(t)
    <3>1. /\ connected < tasks[t].carrier \/ connected \in recovered
          /\ tasks[t].carrier \in 0..Len(carriers)
          /\ connected \in 0..Len(carriers) /\ Len(carriers) \in Nat
      BY <1>1, TaskFacts, Installing DEF Typed, PlacesOK, Known
    <3>2. connected # Newest \/ ~IsOpen
      BY <3>1 DEF Newest, IsOpen
    <3> QED BY <1>1, <2>2, <3>2, SameCarriers DEF Replace
  <2> QED BY <2>1, <2>2
<1> QED BY <1>1, <1>2, <1>3, <1>4, HeldAlone

LEMMA LossHeld ==
    ASSUME Sel, Typed', NoOrphan,
           \/ Leave \/ Close
           \/ \E c \in Carrier, retryable \in BOOLEAN : CarrierCloses(c, retryable)
    PROVE  NoOrphan'
<1>1. Typed
  BY DEF Sel, Off
<1>2. CASE Leave \/ Close
  <2>0. LeaveRemote
    BY <1>2 DEF Leave, Close
  <2> DEFINE tools == {v \in Tasks : tasks[v].kind = "tool"}
  <2>1. carriers' = ClosedIn(carriers, {connected} \cup {tasks[u].carrier : u \in tools})
        /\ recovered' = recovered
    BY <2>0 DEF LeaveRemote
  <2> HIDE DEF tools
  <2>2. Len(carriers') = Len(carriers)
        /\ (IsOpen' => IsOpen /\ Newest \notin ({connected} \cup {tasks[u].carrier : u \in tools}))
    BY <1>1, <2>1, ClosedStep
  <2>3. \A u \in Tasks : Signalled(tasks[u], tasks'[u])
    BY <1>1, <2>0, TaskFacts, SignalFacts DEF LeaveRemote
  <2>4. \A u \in Tasks : Holds(tasks[u], Newest) => Holds(tasks'[u], Newest)
    BY <2>3, HeldSignal
  <2>5. IsOpen' => IsOpen /\ connected # Newest
    BY <2>2
  <2> QED BY <1>1, <2>2, <2>4, <2>5, HeldStep
<1>3. ASSUME NEW c \in Carrier, NEW retryable \in BOOLEAN, CarrierCloses(c, retryable)
      PROVE  NoOrphan'
  <2>1. Len(carriers') = Len(carriers) /\ (IsOpen' => IsOpen /\ Newest # c)
    BY <1>1, <1>3, ClosedStep DEF CarrierCloses
  <2>2. \A u \in Tasks : Signalled(tasks[u], tasks'[u])
    <3>1. \A u \in Tasks : tasks'[u] = tasks[u] \/ tasks'[u] = Outdated(tasks[u])
      BY <1>1, <1>3 DEF CarrierCloses, Typed, TasksOK
    <3> QED BY <1>1, <3>1, TaskFacts, SignalFacts
  <2>3. \A u \in Tasks : Holds(tasks[u], Newest) => Holds(tasks'[u], Newest)
    BY <2>2, HeldSignal
  <2>4. IsOpen' => (connected = Newest => connected' = Newest)
    BY <1>3, <2>1 DEF CarrierCloses, places
  <2> QED BY <1>1, <2>1, <2>3, <2>4, HeldStep
<1> QED BY <1>2, <1>3

(* Opening. *)
LEMMA OpenHeld ==
    ASSUME Sel, Typed', NEW t \in Tasks, ToolConnects(t) \/ CarrierReady(t) \/ CarrierUnwanted(t)
    PROVE  NoOrphan'
<1>1. Typed /\ tasks[t] \in Task /\ tasks[t].host \in Slot /\ None \in Slot
  BY TaskFacts DEF Sel, Off, Task, Slot
<1>2. CASE ToolConnects(t)
  <2> DEFINE new == [tasks[t] EXCEPT !.stage = "request", !.host = None, !.carrier = Len(carriers) + 1]
  <2>1. tasks' = [tasks EXCEPT ![t] = new] /\ tasks[t].kind = "tool"
    BY <1>2 DEF ToolConnects
  <2>2. tasks'[t] = new
    BY <1>1, <2>1, Alone
  <2>3. new.kind = "tool" /\ new.carrier = Len(carriers) + 1
    BY <1>1, <2>1 DEF Task
  <2>4. Holds(tasks'[t], Len(carriers) + 1)
    BY <2>2, <2>3 DEF Holds
  <2> QED BY <1>1, <1>2, <2>4, HeldNew DEF ToolConnects
<1>3. CASE CarrierReady(t)
  <2> DEFINE new == [tasks[t] EXCEPT !.stage = "preview", !.host = None, !.carrier = Len(carriers) + 1,
                            !.previous = IF tasks[t].kind = "mode" THEN connected ELSE None]
  <2>1. tasks' = [tasks EXCEPT ![t] = new]
    BY <1>3 DEF CarrierReady
  <2>2. tasks'[t] = new
    BY <1>1, <2>1, Alone
  <2>3. new.stage = "preview" /\ new.carrier = Len(carriers) + 1
    BY <1>1 DEF Task
  <2>4. Holds(tasks'[t], Len(carriers) + 1)
    BY <2>2, <2>3 DEF Holds
  <2> QED BY <1>1, <1>3, <2>4, HeldNew DEF CarrierReady
<1>4. CASE CarrierUnwanted(t)
  BY <1>1, <1>4, HeldNew DEF CarrierUnwanted
<1> QED BY <1>2, <1>3, <1>4

LEMMA HeldNext == Sel /\ NoOrphan /\ [Next]_vars => NoOrphan'
<1> SUFFICES ASSUME Sel, NoOrphan, [Next]_vars PROVE NoOrphan'
  OBVIOUS
<1>0. Typed /\ Typed'
  BY TypesNext DEF Sel, Off
<1>1. CASE UNCHANGED vars
  BY <1>1 DEF vars, places, NoOrphan
<1>2. ASSUME NEW t \in Tasks,
             \/ \E kind \in Kinds, host \in Hosts : Select(t, kind, host)
             \/ \E kind \in Opening : OpenHere(t, kind)
             \/ \E host \in Hosts : StartTool(t, host)
             \/ ConnectFails(t) \/ CallerAborts(t) \/ Answered(t) \/ CodexClosed(t) \/ AskSession(t)
      PROVE  NoOrphan'
  BY <1>0, <1>2, StartHeld
<1>3. ASSUME NEW t \in Tasks, Retire(t) \/ Ends(t) \/ SelectHarness(t) \/ SelectCodex(t) \/ SelectCursor(t)
      PROVE  NoOrphan'
  BY <1>0, <1>3, EndHeld
<1>4. ASSUME NEW t \in Tasks, Switch(t) \/ Replace(t)
      PROVE  NoOrphan'
  BY <1>0, <1>4, InstallHeld
<1>5. ASSUME NEW t \in Tasks, ToolConnects(t) \/ CarrierReady(t) \/ CarrierUnwanted(t)
      PROVE  NoOrphan'
  BY <1>0, <1>5, OpenHeld
<1>6. CASE \/ Leave \/ Close
           \/ \E c \in Carrier, retryable \in BOOLEAN : CarrierCloses(c, retryable)
  BY <1>0, <1>6, LossHeld
<1>7. CASE Recovers
  <2>1. recovery.host \in Slot
    BY <1>0 DEF Typed, PlacesOK
  <2> QED BY <1>0, <1>7, <2>1, HeldNew DEF Recovers
<1>8. CASE RetryTimer \/ \E retryable \in BOOLEAN : RecoveryFails(retryable)
  BY <1>8 DEF RetryTimer, RecoveryFails, places, NoOrphan
<1> QED BY <1>1, <1>2, <1>3, <1>4, <1>5, <1>6, <1>7, <1>8 DEF Next

(* The newest carrier, the only one the Server still serves, never stays   *)
(* open with nobody to close it when a call opened it, however the         *)
(* selections, the tools, the losses, the recoveries and the exits         *)
(* interleave.                                                             *)
THEOREM NothingIsOrphaned == Spec => []NoOrphan
<1>1. Init => NoOrphan
  BY DEF Init, NoOrphan
<1> QED BY <1>1, HeldNext, SelAlways, PTL DEF Spec
=============================================================================
