-------------------------- MODULE AcpGatewayProofs --------------------------
(* Proofs about AcpGateway, for every set of connections and every bound:  *)
(* first what holds of its backend alone, then its types, its ownership    *)
(* and its turns.                                                          *)
EXTENDS AcpGateway, SequenceTheorems, TLAPS

USE BackendAssumption, GatewayAssumption DEF BackendAssumption, GatewayAssumption, None, Nobody

(***************************************************************************)
(* The backend.                                                            *)
(***************************************************************************)

(* Nothing is launched while the adapter is there, and start() runs only   *)
(* once the fence is lifted; until then the backend stays fenced and, once *)
(* disposed of, without an adapter.                                        *)
BackendInv ==
    /\ BackendTypeOK
    /\ launching # {} => ~ready
    /\ "start" \in launching => reset.stage = "starting"
    /\ reset.stage = "starting" => ~fenced
    /\ reset.stage \in {"stopping", "failing"} => reset.mine
    /\ reset.stage \in {"stopping", "failing", "disposing"} /\ reset.mine => fenced
    /\ reset.stage = "disposing" /\ reset.mine => ~ready

(* What any step does to the backend. *)
BackendStep ==
    \/ AdapterDies \/ RetryTimer \/ LaunchSucceeds \/ CleanupDone \/ Started
    \/ StopsLaunches(bound) \/ Dispose
    \/ \E flag \in BOOLEAN :
        Settle(flag) \/ LaunchFails(flag) \/ CleanupFails(flag) \/ Reconfigure(flag)
    \/ UNCHANGED backend

LEMMA Schedules ==
    ASSUME NEW pending \in BOOLEAN, NEW attempt \in 0..Budget, ScheduleRestart(pending, attempt)
    PROVE  timer' \in BOOLEAN /\ attempts' \in 0..Budget /\ (timer' \/ attempts' = Budget)
<1> DEFINE set == ~pending /\ attempt # Budget
<1>1. timer' = (pending \/ set) /\ attempts' = IF set THEN attempt + 1 ELSE attempt
  BY DEF ScheduleRestart
<1>2. timer' \in BOOLEAN
  BY <1>1, Zenon
<1>3. attempts' \in 0..Budget
  BY <1>1
<1>4. pending \/ set => timer'
  BY <1>1, Zenon
<1>5. ~pending /\ ~set => attempts' = Budget
  BY <1>1
<1> QED BY <1>2, <1>3, <1>4, <1>5

LEMMA BackendKept ==
    ASSUME BackendInv, bound \in BOOLEAN, BackendStep
    PROVE  BackendInv'
<1> USE DEF BackendInv, BackendTypeOK, Gen, Stages, adapter, retries
<1>1. CASE AdapterDies
  <2>1. BackendTypeOK'
    <3>1. ready' = FALSE /\ settling' = settling + 1
      BY <1>1 DEF AdapterDies
    <3>2. ready' \in BOOLEAN /\ (ready' => instance' # None)
      BY <3>1
    <3>3. settling' \in Nat
      BY <3>1
    <3> QED BY <1>1, <3>2, <3>3 DEF AdapterDies
  <2>2. settling' > 0
    BY <1>1 DEF AdapterDies
  <2> QED BY <1>1, <2>1, <2>2 DEF AdapterDies
<1>2. CASE RetryTimer
  <2>1. CASE fenced
    BY <1>2, <2>1, Schedules DEF RetryTimer
  <2>2. CASE ~fenced
    BY <1>2, <2>2 DEF RetryTimer
  <2> QED BY <2>1, <2>2
<1>3. CASE LaunchSucceeds
  BY <1>3 DEF LaunchSucceeds
<1>4. CASE CleanupDone
  <2>1. /\ reset' \in [stage : Stages, mine : BOOLEAN, scoped : BOOLEAN]
        /\ reset'.stage = "starting"
    BY <1>4 DEF CleanupDone
  <2>2. /\ fenced' = FALSE
        /\ UNCHANGED <<ready, made, attempts, timer, settling, resets>>
    BY <1>4 DEF CleanupDone
  <2>3. instance' \in Gen /\ instance' <= made' /\ (ready' => instance' # None)
    BY <1>4, <2>2 DEF CleanupDone
  <2>4. launching' \in SUBSET {"retry", "start"} /\ (launching' # {} => ~ready')
    BY <1>4, <2>2 DEF CleanupDone
  <2>5. fenced' \in BOOLEAN /\ ~fenced'
    BY <2>2
  <2> QED BY <2>1, <2>2, <2>3, <2>4, <2>5
<1>5. CASE Started
  BY <1>5, Schedules DEF Started, NoReset
<1>6. CASE StopsLaunches(bound)
  BY <1>6 DEF StopsLaunches
<1>7. CASE Dispose
  BY <1>7 DEF Dispose
<1>8. ASSUME NEW flag \in BOOLEAN, Settle(flag) PROVE BackendInv'
  BY <1>8, Schedules DEF Settle
<1>9. ASSUME NEW flag \in BOOLEAN, LaunchFails(flag) PROVE BackendInv'
  <2>1. /\ launching # {} /\ launching' = {} /\ ~ready
        /\ UNCHANGED <<ready, made, settling, fenced, reset, resets>>
    BY <1>9 DEF LaunchFails
  <2>2. instance' \in Gen /\ instance' <= made'
    BY <1>9, <2>1 DEF LaunchFails
  <2>3. CASE "retry" \in launching
    <3>1. ScheduleRestart(timer, attempts)
      BY <1>9, <2>3 DEF LaunchFails
    <3>2. timer' \in BOOLEAN /\ attempts' \in 0..Budget /\ (timer' \/ attempts' = Budget)
      BY <3>1, Schedules
    <3> QED BY <2>1, <2>2, <3>2
  <2>4. CASE "retry" \notin launching
    <3>1. UNCHANGED <<timer, attempts>> /\ "start" \in launching
      BY <1>9, <2>1, <2>4 DEF LaunchFails
    <3> QED BY <2>1, <2>2, <3>1
  <2> QED BY <2>3, <2>4
<1>10. ASSUME NEW flag \in BOOLEAN, CleanupFails(flag) PROVE BackendInv'
  BY <1>10 DEF CleanupFails, NoReset
<1>11. ASSUME NEW flag \in BOOLEAN, Reconfigure(flag) PROVE BackendInv'
  <2>1. /\ reset.stage = "none" /\ timer' = FALSE /\ attempts' = 0 /\ fenced' = (flag \/ fenced)
        /\ reset' = [stage |-> IF flag \/ fenced THEN "stopping" ELSE "disposing",
                     mine |-> flag \/ fenced, scoped |-> FALSE]
        /\ UNCHANGED <<adapter, launching, settling>>
    BY <1>11 DEF Reconfigure
  <2>2. resets' \in 0..MaxResets
    BY <1>11 DEF Reconfigure
  <2>3. CASE flag \/ fenced
    <3>1. fenced' = TRUE /\ reset' = [stage |-> "stopping", mine |-> TRUE, scoped |-> FALSE]
      BY <2>1, <2>3
    <3>2. /\ reset' \in [stage : Stages, mine : BOOLEAN, scoped : BOOLEAN]
          /\ reset'.stage = "stopping" /\ reset'.mine
      BY <3>1
    <3>3. timer' \in BOOLEAN /\ fenced' \in BOOLEAN /\ fenced'
      BY <2>1, <3>1
    <3> QED BY <2>1, <2>2, <3>2, <3>3
  <2>4. CASE ~(flag \/ fenced)
    <3>1. fenced' = FALSE /\ reset' = [stage |-> "disposing", mine |-> FALSE, scoped |-> FALSE]
      BY <2>1, <2>4
    <3>2. /\ reset' \in [stage : Stages, mine : BOOLEAN, scoped : BOOLEAN]
          /\ reset'.stage = "disposing" /\ ~reset'.mine
      BY <3>1
    <3>3. timer' \in BOOLEAN /\ fenced' \in BOOLEAN
      BY <2>1, <3>1
    <3> QED BY <2>1, <2>2, <3>2, <3>3
  <2> QED BY <2>3, <2>4
<1>12. CASE UNCHANGED backend
  BY <1>12 DEF backend
<1> QED BY <1>1, <1>2, <1>3, <1>4, <1>5, <1>6, <1>7, <1>8, <1>9, <1>10, <1>11, <1>12 DEF BackendStep

(* Whoever is at work on a backend hands it on, unless a change throws.    *)
LEMMA BackendStaysTended ==
    ASSUME BackendInv, BackendStep, Tended
    PROVE  Tended' \/ Throws
<1> USE DEF BackendInv, BackendTypeOK, Available, Tended, adapter, retries
<1>1. CASE AdapterDies
  BY <1>1 DEF AdapterDies
<1>2. CASE RetryTimer
  <2>1. CASE fenced
    BY <1>2, <2>1, Schedules DEF RetryTimer
  <2>2. CASE ~fenced
    BY <1>2, <2>2 DEF RetryTimer
  <2> QED BY <2>1, <2>2
<1>3. CASE LaunchSucceeds
  BY <1>3 DEF LaunchSucceeds
<1>4. CASE CleanupDone \/ StopsLaunches(bound) \/ Dispose
  <2>1. reset'.stage \in {"starting", "failing", "disposing"}
    BY <1>4 DEF CleanupDone, StopsLaunches, Dispose
  <2> QED BY <2>1
<1>5. CASE Started
  <2>1. CASE ready
    BY <1>5, <2>1 DEF Started
  <2>2. CASE ~ready
    BY <1>5, <2>2, Schedules DEF Started
  <2> QED BY <2>1, <2>2
<1>6. ASSUME NEW flag \in BOOLEAN, Settle(flag) PROVE Tended'
  BY <1>6, Schedules DEF Settle
<1>7. ASSUME NEW flag \in BOOLEAN, LaunchFails(flag) PROVE Tended'
  <2>1. CASE "retry" \in launching
    BY <1>7, <2>1, Schedules DEF LaunchFails
  <2>2. CASE "retry" \notin launching
    BY <1>7, <2>2 DEF LaunchFails
  <2> QED BY <2>1, <2>2
<1>8. ASSUME NEW flag \in BOOLEAN, CleanupFails(flag) PROVE Throws
  BY <1>8 DEF CleanupFails, NoReset, Throws
<1>9. ASSUME NEW flag \in BOOLEAN, Reconfigure(flag) PROVE Tended'
  <2>1. reset'.stage \in {"stopping", "disposing"}
    BY <1>9 DEF Reconfigure
  <2> QED BY <2>1
<1>10. CASE UNCHANGED backend
  BY <1>10 DEF backend
<1> QED BY <1>1, <1>2, <1>3, <1>4, <1>5, <1>6, <1>7, <1>8, <1>9, <1>10 DEF BackendStep

(* An adapter that is ready is the one that was, or was not there before.  *)
LEMMA AdapterIsNew ==
    ASSUME BackendInv, BackendStep
    PROVE  /\ made' >= made
           /\ ready' => (ready /\ instance' = instance) \/ instance' > made
<1> USE DEF BackendInv, BackendTypeOK, Gen
<1>1. CASE AdapterDies \/ LaunchSucceeds \/ Dispose
  BY <1>1 DEF AdapterDies, LaunchSucceeds, Dispose
<1>2. CASE CleanupDone \/ \E flag \in BOOLEAN : LaunchFails(flag) \/ CleanupFails(flag)
  BY <1>2 DEF CleanupDone, LaunchFails, CleanupFails
<1>3. CASE UNCHANGED adapter
  BY <1>3 DEF adapter
<1>4. BackendStep => (AdapterDies \/ LaunchSucceeds \/ Dispose \/ CleanupDone
          \/ (\E flag \in BOOLEAN : LaunchFails(flag) \/ CleanupFails(flag)) \/ UNCHANGED adapter)
  BY DEF BackendStep, backend, RetryTimer, Started, StopsLaunches, Settle, Reconfigure
<1> QED BY <1>1, <1>2, <1>3, <1>4

LEMMA StepsOfBackend == [Next]_vars => BackendStep
  BY DEF Next, Drains, Happens, BackendStep, BackendOnly, Crash, FailSessions, ForgetSessions, vars,
     SkipStale, HandleChunk, HandleAsk, Resume, Drop, Claim, Load, LoadEnds, OpenStream, CloseStream, Prompt,
     PrepEnds, Cancel, Answer, Reject, Emit, EmitAsk, Sent, Failed, Respond, Expire

(***************************************************************************)
(* Types.                                                                  *)
(***************************************************************************)

Asked   == [stage : {"none", "queued", "pending", "gone"}, gen : Gen, conn : Conns \cup {Nobody}]
Entries == [for : {"chain", "turn", "replay"}, frame : Frames]

AccessTypes ==
    /\ prepares \in BOOLEAN /\ up \subseteq Conns /\ streams \subseteq up
    /\ owner \in Conns \cup {Nobody} /\ bound \in BOOLEAN
    /\ load \in [conn : Conns \cup {Nobody}, gen : Gen, over : BOOLEAN]

PromptTypes ==
    /\ current \in {None} \cup Turns /\ preparing \in {None} \cup Turns
    /\ cancelled \in BOOLEAN /\ turns \in [Turns -> Turn]

OutputTypes ==
    /\ emitted \in 0..MaxChunks
    /\ chain \in Seq([frame : Frames, gen : Gen])
    /\ wire \in [Conns -> Seq(Entries)]
    /\ replay \in [Conns -> Seq(Frames)] /\ buffer \in Seq(Frames)

SessionTypes == AccessTypes /\ PromptTypes /\ asks \in [Asks -> Asked] /\ OutputTypes

LEMMA FrameTypes ==
    /\ \A n \in Nat : Chunk(n) \in Frames /\ Ask(n) \in Frames /\ End(n) \in Frames
    /\ BackendTypeOK => \A n \in Nat : Mark(n) \in [frame : Frames, gen : Gen]
  BY DEF Chunk, Ask, End, Frames, Mark, Gen, BackendTypeOK

LEMMA SettledTypes ==
    ASSUME asks \in [Asks -> Asked], BackendTypeOK, NEW which
    PROVE  Settled(which) \in [Asks -> Asked]
  BY DEF Settled, Asked, Gone, Gen, BackendTypeOK

LEMMA SendTypes ==
    ASSUME OutputTypes, NEW c \in Conns, NEW for \in {"chain", "turn", "replay"}, NEW frame \in Frames,
           Send(c, for, frame)
    PROVE  wire' \in [Conns -> Seq(Entries)]
<1>1. [for |-> for, frame |-> frame] \in Entries
  BY DEF Entries
<1> QED BY <1>1 DEF OutputTypes, Send

LEMMA TakenTypes ==
    ASSUME OutputTypes, NEW c \in Conns, wire[c] # <<>>
    PROVE  /\ Taken(c) \in [Conns -> Seq(Entries)]
           /\ Head(wire[c]) \in Entries /\ Head(wire[c]).frame \in Frames
<1>1. wire[c] \in Seq(Entries)
  BY DEF OutputTypes
<1>2. Head(wire[c]) \in Entries /\ Tail(wire[c]) \in Seq(Entries)
  BY <1>1, HeadTailProperties
<1> QED BY <1>2 DEF OutputTypes, Taken, Entries

LEMMA HeadTypes ==
    ASSUME OutputTypes, chain # <<>>
    PROVE  /\ Tail(chain) \in Seq([frame : Frames, gen : Gen])
           /\ Head(chain).frame \in Frames
<1> DEFINE Links == [frame : Frames, gen : Gen]
<1>1. chain \in Seq(Links)
  BY DEF OutputTypes
<1> HIDE DEF Links
<1>2. Head(chain) \in Links /\ Tail(chain) \in Seq(Links)
  BY <1>1, HeadTailProperties
<1> QED BY <1>2 DEF Links

LEMMA FinishTypes ==
    ASSUME AccessTypes, PromptTypes, BackendTypeOK, NEW t, Finish(t)
    PROVE  /\ turns' \in [Turns -> Turn] /\ current' \in {None} \cup Turns
           /\ streams' \subseteq streams
<1>1. Over \in Turn
  BY DEF Over, Turn, Gen, BackendTypeOK
<1> QED BY <1>1 DEF AccessTypes, PromptTypes, Finish

LEMMA TurnFields ==
    ASSUME turns \in [Turns -> Turn], NEW t \in Turns
    PROVE  /\ [turns EXCEPT ![t].dropped = TRUE] \in [Turns -> Turn]
           /\ [turns EXCEPT ![t].stage = "draining"] \in [Turns -> Turn]
           /\ [turns EXCEPT ![t].stage = "draining", ![t].failed = TRUE] \in [Turns -> Turn]
<1>1. turns[t] \in Turn
  OBVIOUS
<1>2. [turns[t] EXCEPT !.dropped = TRUE] \in Turn
  BY <1>1 DEF Turn
<1>3. [turns[t] EXCEPT !.stage = "draining"] \in Turn
  BY <1>1 DEF Turn
<1>4. [[turns[t] EXCEPT !.stage = "draining"] EXCEPT !.failed = TRUE] \in Turn
  BY <1>3 DEF Turn
<1>5. [turns EXCEPT ![t].stage = "draining", ![t].failed = TRUE]
        = [turns EXCEPT ![t] = [[turns[t] EXCEPT !.stage = "draining"] EXCEPT !.failed = TRUE]]
  BY <1>3
<1> QED BY <1>2, <1>3, <1>4, <1>5

LEMMA ChainGrows ==
    ASSUME OutputTypes, NEW frame \in Frames, NEW gen \in Gen
    PROVE  /\ Append(chain, [frame |-> frame, gen |-> gen]) \in Seq([frame : Frames, gen : Gen])
           /\ Append(buffer, frame) \in Seq(Frames)
<1>1. [frame |-> frame, gen |-> gen] \in [frame : Frames, gen : Gen]
  OBVIOUS
<1>2. chain \in Seq([frame : Frames, gen : Gen]) /\ buffer \in Seq(Frames)
  BY DEF OutputTypes
<1> QED BY <1>1, <1>2, AppendProperties

LEMMA CallsTypes ==
    ASSUME BackendTypeOK, SessionTypes,
           \E c \in Conns : \/ Drop(c) \/ Claim(c) \/ Load(c) \/ OpenStream(c) \/ CloseStream(c) \/ Cancel(c)
                            \/ \E t \in Turns : Prompt(c, t)
    PROVE  SessionTypes'
<1> USE DEF SessionTypes, AccessTypes, PromptTypes, MayUse, access, prompts, output
<1> PICK c \in Conns : \/ Drop(c) \/ Claim(c) \/ Load(c) \/ OpenStream(c) \/ CloseStream(c) \/ Cancel(c)
                       \/ \E t \in Turns : Prompt(c, t)
  OBVIOUS
<1>1. CASE Drop(c)
  BY <1>1, SettledTypes DEF Drop, OutputTypes
<1>2. CASE Claim(c) \/ CloseStream(c)
  BY <1>2 DEF Claim, CloseStream, OutputTypes
<1>3. CASE Load(c)
  BY <1>3 DEF Load, OutputTypes, BackendTypeOK
<1>4. CASE OpenStream(c)
  <2>1. streams' \subseteq up /\ owner' \in Conns
    BY <1>4 DEF OpenStream
  <2>2. CASE buffer = <<>>
    BY <1>4, <2>1, <2>2 DEF OpenStream, OutputTypes
  <2>3. CASE buffer # <<>>
    <3>1. /\ buffer' = <<>> /\ Send(c, "replay", Head(buffer)) /\ replay' = [replay EXCEPT ![c] = Tail(buffer)]
          /\ UNCHANGED <<backend, prepares, up, bound, load, prompts, asks, emitted, chain>>
      BY <1>4, <2>3 DEF OpenStream
    <3>2. Head(buffer) \in Frames /\ Tail(buffer) \in Seq(Frames)
      BY <2>3, HeadTailProperties DEF OutputTypes
    <3>3. wire' \in [Conns -> Seq(Entries)]
      BY <3>1, <3>2, SendTypes
    <3>4. replay' \in [Conns -> Seq(Frames)]
      BY <3>1, <3>2 DEF OutputTypes
    <3>5. OutputTypes'
      BY <3>1, <3>3, <3>4 DEF OutputTypes
    <3> QED BY <2>1, <3>1, <3>5
  <2> QED BY <2>2, <2>3
<1>5. CASE Cancel(c)
  <2>1. turns' \in [Turns -> Turn]
    <3>1. CASE preparing # None
      <4>1. turns' = [turns EXCEPT ![preparing].dropped = TRUE] /\ preparing \in Turns
        BY <1>5, <3>1 DEF Cancel
      <4> QED BY <4>1, TurnFields
    <3>2. CASE preparing = None
      BY <1>5, <3>2 DEF Cancel
    <3> QED BY <3>1, <3>2
  <2>2. asks' \in [Asks -> Asked]
    BY <1>5, SettledTypes DEF Cancel
  <2> QED BY <1>5, <2>1, <2>2 DEF Cancel, OutputTypes
<1>6. ASSUME NEW t \in Turns, Prompt(c, t) PROVE SessionTypes'
  <2>1. turns' \in [Turns -> Turn]
    BY <1>6 DEF Prompt, Turn, BackendTypeOK
  <2> QED BY <1>6, <2>1 DEF Prompt, OutputTypes
<1> QED BY <1>1, <1>2, <1>3, <1>4, <1>5, <1>6

LEMMA TurnsTypes ==
    ASSUME BackendTypeOK, SessionTypes, NEW t \in Turns, PrepEnds(t) \/ Answer(t) \/ Reject(t) \/ Resume(t)
    PROVE  SessionTypes'
<1> USE DEF SessionTypes, AccessTypes, PromptTypes, access, prompts, output
<1>0. Over \in Turn
  BY DEF Over, Turn, Gen, BackendTypeOK
<1>1. CASE PrepEnds(t)
  <2>1. turns' \in [Turns -> Turn]
    BY <1>0, <1>1 DEF PrepEnds, Turn
  <2> QED BY <1>1, <2>1 DEF PrepEnds, OutputTypes
<1>2. CASE Answer(t) \/ Reject(t)
  <2>1. turns' \in [Turns -> Turn]
    <3>1. turns' \in {[turns EXCEPT ![t].stage = "draining"], [turns EXCEPT ![t] = Over],
                       [turns EXCEPT ![t].stage = "draining", ![t].failed = TRUE]}
      BY <1>2 DEF Answer, Reject
    <3> QED BY <1>0, <3>1, TurnFields
  <2>2. chain' \in Seq([frame : Frames, gen : Gen])
    <3>1. Append(chain, Mark(t)) \in Seq([frame : Frames, gen : Gen])
      <4>1. End(t) \in Frames /\ None \in Gen
        BY FrameTypes DEF Turns, Gen, BackendTypeOK
      <4> QED BY <4>1, ChainGrows DEF Mark
    <3>2. chain' = chain \/ chain' = Append(chain, Mark(t))
      BY <1>2 DEF Answer, Reject
    <3> QED BY <3>1, <3>2 DEF OutputTypes
  <2> QED BY <1>2, <2>1, <2>2 DEF Answer, Reject, OutputTypes
<1>3. CASE Resume(t)
  <2>1. End(t) \in Frames
    BY FrameTypes DEF Turns
  <2>2. chain' \in Seq([frame : Frames, gen : Gen])
    BY <1>3, HeadTypes DEF Resume, Due
  <2>3. CASE StillToTell(t) /\ owner # Nobody
    <3>1. Send(owner, "turn", End(t)) /\ turns' = [turns EXCEPT ![t].stage = "telling"]
      BY <1>3, <2>3 DEF Resume
    <3>2. wire' \in [Conns -> Seq(Entries)]
      BY <2>1, <2>3, <3>1, SendTypes
    <3>3. turns' \in [Turns -> Turn]
      BY <3>1 DEF Turn
    <3> QED BY <1>3, <2>2, <2>3, <3>2, <3>3 DEF Resume, OutputTypes
  <2>4. CASE ~(StillToTell(t) /\ owner # Nobody)
    <3>1. Finish(t) /\ (buffer' = buffer \/ buffer' = Append(buffer, End(t)))
      BY <1>3, <2>4 DEF Resume
    <3>3. buffer' \in Seq(Frames)
      <4>1. None \in Gen
        BY DEF Gen, BackendTypeOK
      <4>2. OutputTypes /\ buffer \in Seq(Frames)
        BY DEF OutputTypes
      <4>3. Append(buffer, End(t)) \in Seq(Frames)
        BY ONLY <2>1, <4>1, <4>2, ChainGrows
      <4> QED BY ONLY <3>1, <4>2, <4>3
    <3>2. turns' \in [Turns -> Turn] /\ current' \in {None} \cup Turns /\ streams' \subseteq streams
      BY <3>1, FinishTypes
    <3> QED BY <1>3, <2>2, <2>4, <3>1, <3>2, <3>3 DEF Resume, OutputTypes
  <2> QED BY <2>3, <2>4
<1> QED BY <1>1, <1>2, <1>3

LEMMA OutputsTypes ==
    ASSUME BackendTypeOK, SessionTypes,
           SkipStale \/ HandleChunk \/ HandleAsk \/ Emit \/ \E r \in Asks : EmitAsk(r) \/ Expire(r)
    PROVE  SessionTypes'
<1> USE DEF SessionTypes, AccessTypes, PromptTypes, access, prompts, output
<1>0. Gone \in Asked
  BY DEF Gone, Asked, Gen, BackendTypeOK
<1>1. CASE SkipStale
  BY <1>0, <1>1, HeadTypes DEF SkipStale, Due, OutputTypes
<1>2. CASE HandleChunk
  <2>1. Head(chain).frame \in Frames /\ Tail(chain) \in Seq([frame : Frames, gen : Gen])
    BY <1>2, HeadTypes DEF HandleChunk, Due
  <2>2. CASE owner # Nobody
    <3>1. Send(owner, "chain", Head(chain).frame) /\ UNCHANGED <<chain, buffer>>
      BY <1>2, <2>2 DEF HandleChunk
    <3>2. wire' \in [Conns -> Seq(Entries)]
      BY <2>1, <2>2, <3>1, SendTypes
    <3> QED BY <1>2, <3>1, <3>2 DEF HandleChunk, OutputTypes
  <2>3. CASE owner = Nobody
    <3>1. /\ buffer' = Append(buffer, Head(chain).frame) /\ chain' = Tail(chain)
          /\ UNCHANGED wire
      BY <1>2, <2>3 DEF HandleChunk
    <3>2. buffer' \in Seq(Frames)
      <4>1. None \in Gen
        BY DEF Gen, BackendTypeOK
      <4>2. OutputTypes
        OBVIOUS
      <4>3. Append(buffer, Head(chain).frame) \in Seq(Frames)
        BY ONLY <2>1, <4>1, <4>2, ChainGrows
      <4> QED BY ONLY <3>1, <4>3
    <3> QED BY <1>2, <2>1, <3>1, <3>2 DEF HandleChunk, OutputTypes
  <2> QED BY <2>2, <2>3
<1>3. CASE HandleAsk
  <2> DEFINE r == Head(chain).frame.id
  <2>1. Head(chain).frame \in Frames /\ Tail(chain) \in Seq([frame : Frames, gen : Gen])
    BY <1>3, HeadTypes DEF HandleAsk, Due
  <2>2. Ask(r) \in Frames
    BY <2>1, FrameTypes DEF Frames
  <2>3. CASE Available /\ ~cancelled /\ owner # Nobody /\ bound
    <3>1. /\ Send(owner, "chain", Ask(r)) /\ UNCHANGED chain
          /\ asks' = [asks EXCEPT ![r].stage = "pending", ![r].conn = owner]
      BY <1>3, <2>3 DEF HandleAsk
    <3>2. wire' \in [Conns -> Seq(Entries)]
      BY <2>2, <2>3, <3>1, SendTypes
    <3>3. asks' \in [Asks -> Asked]
      <4>1. CASE r \notin Asks
        BY <3>1, <4>1
      <4>2. CASE r \in Asks
        <5>1. [[asks[r] EXCEPT !.stage = "pending"] EXCEPT !.conn = owner] \in Asked
          <6>1. [asks[r] EXCEPT !.stage = "pending"] \in Asked
            BY <4>2 DEF Asked
          <6> QED BY <6>1 DEF Asked
        <5>2. asks' = [asks EXCEPT ![r] = [[asks[r] EXCEPT !.stage = "pending"] EXCEPT !.conn = owner]]
          BY <3>1, <4>2
        <5> QED BY <5>1, <5>2
      <4> QED BY <4>1, <4>2
    <3> QED BY <1>3, <3>1, <3>2, <3>3 DEF HandleAsk, OutputTypes
  <2>4. CASE ~(Available /\ ~cancelled /\ owner # Nobody /\ bound)
    <3>1. /\ asks' = [asks EXCEPT ![r] = Gone] /\ chain' = Tail(chain) /\ UNCHANGED wire
          /\ UNCHANGED <<access, streams, prompts, emitted, replay, buffer>>
      BY <1>3, <2>4 DEF HandleAsk
    <3>2. asks' \in [Asks -> Asked]
      BY <1>0, <3>1
    <3> QED BY <2>1, <3>1, <3>2 DEF OutputTypes
  <2> QED BY <2>3, <2>4
<1>4. CASE Emit
  <2>1. emitted' \in 0..MaxChunks /\ Chunk(emitted + 1) \in Frames
    BY <1>4, FrameTypes DEF Emit, OutputTypes
  <2>2. chain' \in Seq([frame : Frames, gen : Gen])
    BY <1>4, <2>1, ChainGrows DEF Emit, BackendTypeOK
  <2> QED BY <1>4, <2>1, <2>2 DEF Emit, OutputTypes
<1>5. ASSUME NEW r \in Asks, EmitAsk(r) PROVE SessionTypes'
  <2>1. Ask(r) \in Frames
    BY FrameTypes DEF Asks
  <2>2. chain' \in Seq([frame : Frames, gen : Gen])
    BY <1>5, <2>1, ChainGrows DEF EmitAsk, BackendTypeOK
  <2>3. asks' \in [Asks -> Asked]
    BY <1>5 DEF EmitAsk, Asked, BackendTypeOK
  <2> QED BY <1>5, <2>2, <2>3 DEF EmitAsk, OutputTypes
<1>6. ASSUME NEW r \in Asks, Expire(r) PROVE SessionTypes'
  BY <1>6, SettledTypes DEF Expire, OutputTypes
<1> QED BY <1>1, <1>2, <1>3, <1>4, <1>5, <1>6

(* The chain is not empty while one of its frames is being sent.           *)
LEMMA ChainTail ==
    ASSUME OutputTypes, Waiting => chain # <<>>, NEW c \in Conns, wire[c] # <<>>, Head(wire[c]).for = "chain"
    PROVE  chain # <<>> /\ Tail(chain) \in Seq([frame : Frames, gen : Gen])
<1>1. 1 \in 1..Len(wire[c]) /\ Head(wire[c]) = wire[c][1]
  BY DEF OutputTypes
<1> QED BY <1>1, HeadTypes DEF Waiting

LEMMA SendsTypes ==
    ASSUME BackendTypeOK, SessionTypes, Waiting => chain # <<>>, NEW c \in Conns,
           Sent(c) \/ Failed(c) \/ \E r \in Asks : Respond(c, r)
    PROVE  SessionTypes'
<1> USE DEF SessionTypes, AccessTypes, PromptTypes, access, prompts, output
<1>1. CASE Sent(c)
  <2>1. Taken(c) \in [Conns -> Seq(Entries)]
    BY <1>1, TakenTypes DEF Sent
  <2>2. CASE Head(wire[c]).for = "chain" /\ wire' = Taken(c) /\ chain' = Tail(chain)
             /\ UNCHANGED <<streams, current, turns, replay>>
    <3>1. chain' \in Seq([frame : Frames, gen : Gen])
      BY <1>1, <2>2, ChainTail DEF Sent
    <3> QED BY <1>1, <2>1, <2>2, <3>1 DEF Sent, OutputTypes
  <2>3. CASE wire' = Taken(c) /\ Finish(Head(wire[c]).frame.id) /\ UNCHANGED <<chain, replay>>
    <3>1. turns' \in [Turns -> Turn] /\ current' \in {None} \cup Turns /\ streams' \subseteq streams
      BY <2>3, FinishTypes
    <3> QED BY <1>1, <2>1, <2>3, <3>1 DEF Sent, OutputTypes
  <2>4. CASE /\ replay[c] # <<>>
             /\ wire' = [wire EXCEPT ![c] =
                            Append(Tail(@), [for |-> "replay", frame |-> Head(replay[c])])]
             /\ replay' = [replay EXCEPT ![c] = Tail(@)]
             /\ UNCHANGED <<streams, current, turns, chain>>
    <3>1. Head(replay[c]) \in Frames /\ Tail(replay[c]) \in Seq(Frames)
      BY <2>4, HeadTailProperties DEF OutputTypes
    <3>2. Tail(wire[c]) \in Seq(Entries)
      BY <1>1, HeadTailProperties DEF OutputTypes, Sent
    <3>3. [for |-> "replay", frame |-> Head(replay[c])] \in Entries
      BY <3>1 DEF Entries
    <3>4. Append(Tail(wire[c]), [for |-> "replay", frame |-> Head(replay[c])]) \in Seq(Entries)
      BY <3>2, <3>3, AppendProperties
    <3>5. wire' \in [Conns -> Seq(Entries)] /\ replay' \in [Conns -> Seq(Frames)]
      BY <2>4, <3>1, <3>4 DEF OutputTypes
    <3> QED BY <1>1, <2>4, <3>5 DEF Sent, OutputTypes
  <2>5. CASE /\ wire' = Taken(c)
             /\ streams' = IF Served \/ current # None THEN streams ELSE streams \ {c}
             /\ UNCHANGED <<current, turns, chain, replay>>
    BY <1>1, <2>1, <2>5 DEF Sent, OutputTypes
  <2> QED BY <1>1, <2>2, <2>3, <2>4, <2>5 DEF Sent
<1>2. CASE Failed(c)
  <2>1. Taken(c) \in [Conns -> Seq(Entries)] /\ Head(wire[c]).frame \in Frames
    BY <1>2, TakenTypes DEF Failed
  <2>2. buffer' = Append(buffer, Head(wire[c]).frame) => buffer' \in Seq(Frames)
    <3>1. None \in Gen
      BY DEF Gen, BackendTypeOK
    <3> QED BY <2>1, <3>1, ChainGrows
  <2>3. CASE Head(wire[c]).for = "chain"
    <3>1. chain' = Tail(chain) /\ UNCHANGED <<streams, current, turns, replay>>
      BY <1>2, <2>3 DEF Failed
    <3>2. chain' \in Seq([frame : Frames, gen : Gen])
      BY <1>2, <2>3, <3>1, ChainTail DEF Failed
    <3>3. asks' \in [Asks -> Asked]
      BY <1>2, <2>3, SettledTypes DEF Failed
    <3>4. buffer' \in Seq(Frames)
      BY <1>2, <2>2, <2>3 DEF Failed, Keep, OutputTypes
    <3> QED BY <1>2, <2>1, <3>1, <3>2, <3>3, <3>4 DEF Failed, OutputTypes
  <2>4. CASE Head(wire[c]).for = "turn"
    <3>1. Keep(Head(wire[c]).frame) /\ Finish(Head(wire[c]).frame.id) /\ UNCHANGED <<chain, asks, replay>>
      BY <1>2, <2>4 DEF Failed
    <3>2. turns' \in [Turns -> Turn] /\ current' \in {None} \cup Turns /\ streams' \subseteq streams
      BY <3>1, FinishTypes
    <3> QED BY <1>2, <2>1, <2>2, <3>1, <3>2 DEF Failed, Keep, OutputTypes
  <2>5. CASE Head(wire[c]).for = "replay"
    <3>1. /\ replay' = [replay EXCEPT ![c] = <<>>]
          /\ UNCHANGED <<chain, streams, current, turns, asks, buffer>>
      BY <1>2, <2>5 DEF Failed
    <3>2. replay' \in [Conns -> Seq(Frames)]
      BY <3>1 DEF OutputTypes
    <3> QED BY <1>2, <2>1, <3>1, <3>2 DEF Failed, OutputTypes
  <2> QED BY <1>2, <2>3, <2>4, <2>5 DEF Failed
<1>3. ASSUME NEW r \in Asks, Respond(c, r) PROVE SessionTypes'
  BY <1>3, SettledTypes DEF Respond, OutputTypes
<1> QED BY <1>1, <1>2, <1>3

LEMMA BackendTypes ==
    ASSUME BackendTypeOK, SessionTypes, Crash \/ FailSessions \/ ForgetSessions \/ BackendOnly
    PROVE  SessionTypes'
<1> USE DEF SessionTypes, AccessTypes, PromptTypes, access, prompts, output
<1>1. CASE Crash \/ FailSessions
  BY <1>1 DEF Crash, FailSessions, OutputTypes
<1>2. CASE ForgetSessions
  <2>1. asks' \in [Asks -> Asked]
    BY <1>2, SettledTypes DEF ForgetSessions
  <2>2. turns' \in [Turns -> Turn]
    <3>1. ASSUME NEW t \in Turns PROVE [turns[t] EXCEPT !.dropped = TRUE] \in Turn
      <4>1. turns[t] \in Turn
        OBVIOUS
      <4> QED BY <4>1 DEF Turn
    <3>2. turns' = turns \/ turns' = [t \in Turns |-> IF preparing = t THEN [turns[t] EXCEPT !.dropped = TRUE]
                                                    ELSE turns[t]]
      BY <1>2 DEF ForgetSessions
    <3> QED BY <3>1, <3>2
  <2>3. buffer' \in Seq(Frames)
    <3>1. buffer' = <<>> \/ buffer' = buffer
      BY <1>2 DEF ForgetSessions
    <3>2. CASE buffer' = <<>>
      BY <3>2
    <3>3. CASE buffer' = buffer
      BY <3>3 DEF OutputTypes
    <3> QED BY <3>1, <3>2, <3>3
  <2> QED BY <1>2, <2>1, <2>2, <2>3 DEF ForgetSessions, OutputTypes
<1>3. CASE BackendOnly
  BY <1>3 DEF BackendOnly, OutputTypes
<1> QED BY <1>1, <1>2, <1>3

LEMMA TypesKept ==
    ASSUME BackendTypeOK, SessionTypes, Waiting => chain # <<>>, [Next]_vars
    PROVE  SessionTypes'
<1>1. CASE UNCHANGED vars
  BY <1>1 DEF SessionTypes, AccessTypes, PromptTypes, OutputTypes, vars, access, prompts, output
<1>2. CASE Drains
  BY <1>2, OutputsTypes, TurnsTypes DEF Drains
<1>3. CASE Happens
  <2>1. CASE \E c \in Conns : \/ Drop(c) \/ Claim(c) \/ Load(c) \/ OpenStream(c) \/ CloseStream(c) \/ Cancel(c)
                             \/ \E t \in Turns : Prompt(c, t)
    BY <2>1, CallsTypes
  <2>2. ASSUME NEW c \in Conns, Sent(c) \/ Failed(c) \/ \E r \in Asks : Respond(c, r)
        PROVE  SessionTypes'
    BY <2>2, SendsTypes
  <2>3. ASSUME NEW t \in Turns, PrepEnds(t) \/ Answer(t) \/ Reject(t) PROVE SessionTypes'
    BY <2>3, TurnsTypes
  <2>4. CASE LoadEnds
    <3>1. load' \in [conn : Conns \cup {Nobody}, gen : Gen, over : BOOLEAN]
      <4>1. NoLoad \in [conn : Conns \cup {Nobody}, gen : Gen, over : BOOLEAN]
        BY DEF NoLoad, Gen, BackendTypeOK
      <4>2. load' = [NoLoad EXCEPT !.over = TRUE]
        BY <2>4 DEF LoadEnds
      <4> QED BY <4>1, <4>2
    <3>2. owner' \in Conns \cup {Nobody} /\ bound' \in BOOLEAN
      BY <2>4 DEF LoadEnds, InScope, SessionTypes, AccessTypes
    <3> QED BY <2>4, <3>1, <3>2 DEF LoadEnds, SessionTypes, AccessTypes, PromptTypes, OutputTypes, prompts, output
  <2>5. CASE Emit \/ \E r \in Asks : EmitAsk(r) \/ Expire(r)
    BY <2>5, OutputsTypes
  <2>6. CASE Crash \/ FailSessions \/ ForgetSessions \/ BackendOnly
    BY <2>6, BackendTypes
  <2> QED BY <1>3, <2>1, <2>2, <2>3, <2>4, <2>5, <2>6 DEF Happens
<1> QED BY <1>1, <1>2, <1>3 DEF Next

(***************************************************************************)
(* Ownership.                                                              *)
(***************************************************************************)

(* A load whose connection and adapter are still there owns its session.   *)
AccessInv ==
    /\ ScopesAreLive
    /\ \A r \in Asks : asks[r].stage = "pending" => asks[r].conn # Nobody
    /\ load.gen <= made
    /\ (load # NoLoad /\ ~load.over /\ load.conn \in up /\ ready /\ instance = load.gen) =>
          owner = load.conn /\ bound

LEMMA SettledScopes ==
    ASSUME asks \in [Asks -> Asked], NEW which, NEW r \in Asks, Settled(which)[r].stage = "pending"
    PROVE  r \notin which /\ Settled(which)[r] = asks[r]
  BY DEF Settled, Gone

(* Steps that only give the session to whoever may use it.                 *)
LEMMA ClaimKeeps ==
    ASSUME AccessInv, NEW c \in Conns, MayUse(c), owner' = c, bound => bound',
           UNCHANGED <<backend, up, load>>, asks' = asks \/ \E which : asks' = Settled(which),
           SessionTypes
    PROVE  AccessInv'
<1>1. \A r \in Asks : asks'[r].stage = "pending" => asks'[r] = asks[r]
  BY SettledScopes DEF SessionTypes
<1>2. owner \in {Nobody, c} /\ c \in up /\ UNCHANGED <<instance, ready, made>>
  BY DEF MayUse, backend, adapter
<1>3. load.conn \in up => load.conn # Nobody
  BY DEF SessionTypes, AccessTypes
<1>4. ScopesAreLive' /\ \A r \in Asks : asks'[r].stage = "pending" => asks'[r].conn # Nobody
  BY <1>1, <1>2 DEF AccessInv, ScopesAreLive
<1> QED BY <1>2, <1>3, <1>4 DEF AccessInv

(* Steps that leave the owner alone.                                       *)
LEMMA OwnerKeeps ==
    ASSUME AccessInv, BackendInv, BackendStep, SessionTypes, UNCHANGED <<up, owner, load>>, bound => bound',
           \A r \in Asks : asks'[r].stage = "pending" =>
               asks'[r] = asks[r] \/ (bound' /\ owner # Nobody /\ asks'[r].conn = owner)
    PROVE  AccessInv'
<1>1. made' >= made /\ (ready' => (ready /\ instance' = instance) \/ instance' > made)
  BY AdapterIsNew
<1>2. load.gen \in Nat /\ made \in Nat /\ made' \in Nat /\ instance' \in Nat
  BY BackendKept DEF BackendInv, BackendTypeOK, Gen, SessionTypes, AccessTypes
<1>3. load'.gen <= made'
  BY <1>1, <1>2 DEF AccessInv
<1>4. ready' /\ instance' = load'.gen => ready /\ instance = load.gen
  BY <1>1, <1>2 DEF AccessInv
<1> QED BY <1>3, <1>4 DEF AccessInv, ScopesAreLive

LEMMA AccessKept ==
    ASSUME AccessInv, BackendInv, SessionTypes, [Next]_vars
    PROVE  AccessInv'
<1>0. BackendStep /\ asks \in [Asks -> Asked]
  BY StepsOfBackend DEF SessionTypes
<1>1. ASSUME NEW c \in Conns, Claim(c) \/ Load(c) \/ OpenStream(c) \/ Cancel(c) \/ \E t \in Turns : Prompt(c, t)
      PROVE  AccessInv'
  <2>1. CASE Load(c)
    BY <2>1 DEF Load, AccessInv, ScopesAreLive, MayUse, backend, adapter, BackendInv, BackendTypeOK, Gen
  <2>2. CASE Claim(c)
    BY <2>2, <1>0, ClaimKeeps DEF Claim, MayUse
  <2>3. CASE OpenStream(c)
    BY <2>3, <1>0, ClaimKeeps DEF OpenStream
  <2>4. CASE Cancel(c)
    BY <2>4, <1>0, ClaimKeeps DEF Cancel
  <2>5. ASSUME NEW t \in Turns, Prompt(c, t) PROVE AccessInv'
    BY <2>5, <1>0, ClaimKeeps DEF Prompt
  <2> QED BY <1>1, <2>1, <2>2, <2>3, <2>4, <2>5
<1>2. ASSUME NEW c \in Conns, Drop(c) PROVE AccessInv'
  <2>1. \A r \in Asks : asks'[r].stage = "pending" => asks'[r] = asks[r] /\ asks[r].conn # c
    BY <1>0, <1>2, SettledScopes DEF Drop
  <2> QED BY <1>2, <2>1 DEF Drop, AccessInv, ScopesAreLive, backend, adapter
<1>3. CASE LoadEnds
  BY <1>3 DEF LoadEnds, InScope, Available, NoLoad, AccessInv, ScopesAreLive, backend, adapter, BackendInv,
     BackendTypeOK, Gen
<1>4. CASE ForgetSessions
  <2>1. \A r \in Asks : asks'[r].stage # "pending"
    BY <1>0, <1>4, SettledScopes DEF ForgetSessions
  <2>2. ready' = FALSE /\ UNCHANGED <<made, up, load>> /\ owner' \in {owner, Nobody}
    BY <1>4 DEF ForgetSessions, Dispose
  <2> QED BY <2>1, <2>2 DEF AccessInv, ScopesAreLive
<1>5. CASE HandleAsk
  <2>1. \A r \in Asks : asks'[r].stage = "pending" =>
            asks'[r] = asks[r] \/ (bound' /\ owner # Nobody /\ asks'[r].conn = owner)
    BY <1>0, <1>5 DEF HandleAsk, Gone, Asked, access
  <2> QED BY <1>0, <1>5, <2>1, OwnerKeeps DEF HandleAsk, access
<1>6. CASE SkipStale \/ HandleChunk \/ (\E t \in Turns : Resume(t) \/ PrepEnds(t) \/ Answer(t) \/ Reject(t))
           \/ Emit \/ Crash \/ FailSessions \/ BackendOnly \/ UNCHANGED vars
  <2>1. CASE SkipStale
    <3>1. \A r \in Asks : asks'[r].stage = "pending" => asks'[r] = asks[r]
      BY <1>0, <2>1 DEF SkipStale, Gone
    <3> QED BY <1>0, <2>1, <3>1, OwnerKeeps DEF SkipStale, access
  <2>2. CASE HandleChunk
    BY <1>0, <2>2, OwnerKeeps DEF HandleChunk
  <2>3. CASE \E t \in Turns : Resume(t) \/ PrepEnds(t) \/ Answer(t) \/ Reject(t)
    <3>1. UNCHANGED <<up, owner, load, bound, asks>>
      BY <2>3 DEF Resume, PrepEnds, Answer, Reject, access
    <3> QED BY <1>0, <3>1, OwnerKeeps
  <2>4. CASE Emit \/ Crash \/ FailSessions \/ BackendOnly \/ UNCHANGED vars
    <3>1. UNCHANGED <<up, owner, load, bound, asks>>
      BY <2>4 DEF Emit, Crash, FailSessions, BackendOnly, vars, access
    <3> QED BY <1>0, <3>1, OwnerKeeps
  <2> QED BY <1>6, <2>1, <2>2, <2>3, <2>4
<1>7. ASSUME NEW c \in Conns, CloseStream(c) \/ Sent(c) \/ Failed(c) \/ \E r \in Asks : Respond(c, r)
      PROVE  AccessInv'
  <2>1. UNCHANGED access
    BY <1>7 DEF CloseStream, Sent, Failed, Respond
  <2>2. \A r \in Asks : asks'[r].stage = "pending" => asks'[r] = asks[r]
    <3>1. UNCHANGED asks \/ \E which : asks' = Settled(which)
      BY <1>7 DEF CloseStream, Sent, Failed, Respond
    <3> QED BY <1>0, <3>1, SettledScopes
  <2> QED BY <1>0, <2>1, <2>2, OwnerKeeps DEF access
<1>8. ASSUME NEW r \in Asks, EmitAsk(r) \/ Expire(r) PROVE AccessInv'
  <2>1. UNCHANGED access
    BY <1>8 DEF EmitAsk, Expire
  <2>2. \A q \in Asks : asks'[q].stage = "pending" => asks'[q] = asks[q]
    BY <1>0, <1>8, SettledScopes DEF EmitAsk, Expire
  <2> QED BY <1>0, <2>1, <2>2, OwnerKeeps DEF access
<1> QED BY <1>1, <1>2, <1>3, <1>4, <1>5, <1>6, <1>7, <1>8 DEF Next, Drains, Happens

(***************************************************************************)
(* The chain and the sends.                                                *)
(***************************************************************************)

Links    == [frame : Frames, gen : Gen]
Draining == {t \in Turns : turns[t].stage = "draining"}
Telling  == {t \in Turns : turns[t].stage = "telling"}

(* The chain holds one mark of every turn that drains it, and no other.    *)
ChainInv ==
    /\ \A i \in 1..Len(chain) : chain[i].frame.kind = "end" => \E t \in Draining : chain[i] = Mark(t)
    /\ \A i, j \in 1..Len(chain) : chain[i].frame.kind = "end" /\ chain[i] = chain[j] => i = j
    /\ \A t \in Draining : \E i \in 1..Len(chain) : chain[i] = Mark(t)

(* A last frame is being sent once for every turn that is being told, the  *)
(* chain waits for one send, that of its head, and a replay that has more  *)
(* to send is sending.                                                     *)
TurnSends ==
    /\ \A c \in Conns : \A i \in 1..Len(wire[c]) :
        wire[c][i].for = "turn" => \E t \in Telling : wire[c][i].frame = End(t)
    /\ \A c, d \in Conns : \A i \in 1..Len(wire[c]) : \A j \in 1..Len(wire[d]) :
        wire[c][i].for = "turn" /\ wire[c][i] = wire[d][j] => c = d /\ i = j
    /\ \A t \in Telling : \E c \in Conns : \E i \in 1..Len(wire[c]) :
        wire[c][i].for = "turn" /\ wire[c][i].frame = End(t)

ChainSends ==
    /\ \A c, d \in Conns : \A i \in 1..Len(wire[c]) : \A j \in 1..Len(wire[d]) :
        wire[c][i].for = "chain" /\ wire[d][j].for = "chain" => c = d /\ i = j
    /\ \A c \in Conns : \A i \in 1..Len(wire[c]) :
        wire[c][i].for = "chain" =>
            chain # <<>> /\ Head(chain).frame = wire[c][i].frame /\ Head(chain).frame.kind # "end"

ReplaySends == \A c \in Conns : replay[c] # <<>> => Replaying(c)

FlowInv == ChainInv /\ TurnSends /\ ChainSends /\ ReplaySends

LEMMA SentOnce ==
    ASSUME TurnSends, NEW c \in Conns, NEW d \in Conns, NEW i \in 1..Len(wire[c]), NEW j \in 1..Len(wire[d]),
           wire[c][i].for = "turn", wire[c][i] = wire[d][j]
    PROVE  c = d /\ i = j
<1>1. \A b \in Conns : \A k \in 1..Len(wire[c]) : \A l \in 1..Len(wire[b]) :
        wire[c][k].for = "turn" /\ wire[c][k] = wire[b][l] => c = b /\ k = l
  BY Zenon DEF TurnSends
<1>2. \A k \in 1..Len(wire[c]) : \A l \in 1..Len(wire[d]) :
        wire[c][k].for = "turn" /\ wire[c][k] = wire[d][l] => c = d /\ k = l
  BY <1>1, Zenon
<1> QED BY <1>2, Zenon

LEMMA MarkFacts == \A t, u \in Turns : /\ Mark(t).frame.kind = "end" /\ Mark(t).gen = None
                                       /\ (Mark(t) = Mark(u) \/ End(t) = End(u)) => t = u
  BY DEF Mark, End

LEMMA MarkAppended ==
    ASSUME chain \in Seq(Links), ChainInv, NEW t \in Turns, Mark(t) \in Links,
           chain' = Append(chain, Mark(t)), t \notin Draining, Draining' = Draining \cup {t}
    PROVE  ChainInv'
<1>1. /\ chain' \in Seq(Links) /\ Len(chain) \in Nat /\ Len(chain') = Len(chain) + 1
      /\ \A i \in 1..Len(chain) : chain'[i] = chain[i]
      /\ chain'[Len(chain) + 1] = Mark(t)
  BY AppendProperties
<1>2. \A i \in 1..Len(chain) : chain[i] # Mark(t)
  BY MarkFacts DEF ChainInv, Draining
<1> QED BY <1>1, <1>2, MarkFacts DEF ChainInv

LEMMA OutputAppended ==
    ASSUME chain \in Seq(Links), ChainInv, NEW x \in Links, x.frame.kind # "end",
           chain' = Append(chain, x), Draining' = Draining
    PROVE  ChainInv'
<1>1. /\ chain' \in Seq(Links) /\ Len(chain) \in Nat /\ Len(chain') = Len(chain) + 1
      /\ \A i \in 1..Len(chain) : chain'[i] = chain[i]
      /\ chain'[Len(chain) + 1] = x
  BY AppendProperties
<1>2. \A i \in 1..Len(chain') : chain'[i].frame.kind = "end" => i \in 1..Len(chain) /\ chain'[i] = chain[i]
  BY <1>1
<1>3. \A t \in Draining : \E i \in 1..Len(chain') : chain'[i] = Mark(t)
  BY <1>1 DEF ChainInv
<1>4. \A i \in 1..Len(chain') : chain'[i].frame.kind = "end" => \E t \in Draining : chain'[i] = Mark(t)
  BY <1>2 DEF ChainInv
<1>5. \A i, j \in 1..Len(chain') : chain'[i].frame.kind = "end" /\ chain'[i] = chain'[j] => i = j
  BY <1>2 DEF ChainInv
<1> QED BY <1>3, <1>4, <1>5 DEF ChainInv

LEMMA MarkTaken ==
    ASSUME chain \in Seq(Links), chain # <<>>, ChainInv, NEW t \in Turns, Head(chain) = Mark(t),
           chain' = Tail(chain), Draining' = Draining \ {t}
    PROVE  t \in Draining /\ ChainInv'
<1>1. /\ chain' \in Seq(Links) /\ Len(chain) \in Nat /\ Len(chain') = Len(chain) - 1
      /\ \A i \in 1..Len(chain') : chain'[i] = chain[i + 1]
      /\ Head(chain) = chain[1] /\ Len(chain) > 0
  BY HeadTailProperties
<1>2. t \in Draining
  BY <1>1, MarkFacts DEF ChainInv, Draining
<1>3. \A i \in 1..Len(chain') : chain'[i] # Mark(t)
  BY <1>1, MarkFacts DEF ChainInv
<1>4. \A i \in 1..Len(chain') : chain'[i].frame.kind = "end" => \E u \in Draining' : chain'[i] = Mark(u)
  BY <1>1, <1>3 DEF ChainInv
<1>5. \A i, j \in 1..Len(chain') : chain'[i].frame.kind = "end" /\ chain'[i] = chain'[j] => i = j
  BY <1>1 DEF ChainInv
<1>6. ASSUME NEW u \in Draining' PROVE \E i \in 1..Len(chain') : chain'[i] = Mark(u)
  <2>1. PICK i \in 1..Len(chain) : chain[i] = Mark(u)
    BY <1>6 DEF ChainInv
  <2>2. i # 1
    BY <1>1, <1>6, <2>1, MarkFacts DEF Draining
  <2> QED BY <1>1, <2>1, <2>2
<1> QED BY <1>2, <1>4, <1>5, <1>6 DEF ChainInv

LEMMA OutputTaken ==
    ASSUME chain \in Seq(Links), chain # <<>>, ChainInv, Head(chain).frame.kind # "end" \/ Head(chain).gen # None,
           chain' = Tail(chain), Draining' = Draining
    PROVE  ChainInv'
<1>1. /\ chain' \in Seq(Links) /\ Len(chain) \in Nat /\ Len(chain') = Len(chain) - 1
      /\ \A i \in 1..Len(chain') : chain'[i] = chain[i + 1]
      /\ Head(chain) = chain[1] /\ Len(chain) > 0
  BY HeadTailProperties
<1>2. \A u \in Draining : chain[1] # Mark(u)
  BY <1>1, MarkFacts DEF Draining
<1>3. ASSUME NEW u \in Draining PROVE \E i \in 1..Len(chain') : chain'[i] = Mark(u)
  <2>1. PICK i \in 1..Len(chain) : chain[i] = Mark(u)
    BY <1>3 DEF ChainInv
  <2>2. i # 1
    BY <1>2, <2>1
  <2>3. i - 1 \in 1..Len(chain') /\ chain'[i - 1] = chain[i]
    BY <1>1, <2>2
  <2> QED BY <2>1, <2>3
<1> QED BY <1>1, <1>3 DEF ChainInv

(* Where the entries of a connection are after a send has begun or ended.  *)
LEMMA SendFacts ==
    ASSUME OutputTypes, NEW c \in Conns, NEW for, NEW frame, [for |-> for, frame |-> frame] \in Entries,
           Send(c, for, frame)
    PROVE  /\ Len(wire[c]) \in Nat /\ Len(wire'[c]) = Len(wire[c]) + 1
           /\ \A i \in 1..Len(wire[c]) : wire'[c][i] = wire[c][i]
           /\ wire'[c][Len(wire[c]) + 1] = [for |-> for, frame |-> frame]
           /\ \A d \in Conns : d # c => wire'[d] = wire[d]
<1>1. wire[c] \in Seq(Entries) /\ wire'[c] = Append(wire[c], [for |-> for, frame |-> frame])
  BY DEF OutputTypes, Send
<1>2. \A d \in Conns : d # c => wire'[d] = wire[d]
  BY DEF OutputTypes, Send
<1> QED BY <1>1, <1>2, AppendProperties

LEMMA TakenFacts ==
    ASSUME OutputTypes, NEW c \in Conns, wire[c] # <<>>, wire' = Taken(c)
    PROVE  /\ Len(wire[c]) \in Nat \ {0} /\ Len(wire'[c]) = Len(wire[c]) - 1 /\ Head(wire[c]) = wire[c][1]
           /\ \A i \in 1..Len(wire'[c]) : wire'[c][i] = wire[c][i + 1]
           /\ \A d \in Conns : d # c => wire'[d] = wire[d]
<1>1. wire[c] \in Seq(Entries) /\ wire'[c] = Tail(wire[c])
  BY DEF OutputTypes, Taken
<1>2. \A d \in Conns : d # c => wire'[d] = wire[d]
  BY DEF OutputTypes, Taken
<1> QED BY <1>1, <1>2, HeadTailProperties

LEMMA TurnSendBegins ==
    ASSUME OutputTypes, TurnSends, NEW c \in Conns, NEW t \in Turns, End(t) \in Frames,
           Send(c, "turn", End(t)), t \notin Telling, Telling' = Telling \cup {t}
    PROVE  TurnSends'
<1> DEFINE e == [for |-> "turn", frame |-> End(t)]
<1>1. e \in Entries /\ e.for = "turn" /\ e.frame = End(t)
  BY DEF Entries
<1>2. /\ Len(wire[c]) \in Nat /\ Len(wire'[c]) = Len(wire[c]) + 1
      /\ \A i \in 1..Len(wire[c]) : wire'[c][i] = wire[c][i]
      /\ wire'[c][Len(wire[c]) + 1] = e
      /\ \A d \in Conns : d # c => wire'[d] = wire[d]
  BY <1>1, SendFacts
<1> HIDE DEF e
<1>3. \A d \in Conns : \A i \in 1..Len(wire[d]) : wire[d][i] # e
  BY <1>1, MarkFacts DEF TurnSends, Telling
<1>4. \A d \in Conns : \A i \in 1..Len(wire'[d]) :
        (wire'[d][i].for = "turn" => \E u \in Telling' : wire'[d][i].frame = End(u))
  BY <1>1, <1>2 DEF TurnSends
<1>5. ASSUME NEW d \in Conns, NEW b \in Conns, NEW i \in 1..Len(wire'[d]), NEW j \in 1..Len(wire'[b]),
             wire'[d][i].for = "turn", wire'[d][i] = wire'[b][j]
      PROVE  d = b /\ i = j
  <2>1. \A a \in Conns : \A k \in 1..Len(wire'[a]) :
          \/ k \in 1..Len(wire[a]) /\ wire'[a][k] = wire[a][k]
          \/ a = c /\ k = Len(wire[c]) + 1 /\ wire'[a][k] = e
    BY <1>2
  <2>2. CASE wire'[d][i] = e
    <3>1. wire'[b][j] = e
      BY <1>5, <2>2
    <3>2. d = c /\ i = Len(wire[c]) + 1
      BY <1>3, <2>1, <2>2
    <3>3. b = c /\ j = Len(wire[c]) + 1
      BY <1>3, <2>1, <3>1
    <3> QED BY <3>2, <3>3
  <2>3. CASE wire'[d][i] # e
    <3>1. /\ i \in 1..Len(wire[d]) /\ wire'[d][i] = wire[d][i]
          /\ j \in 1..Len(wire[b]) /\ wire'[b][j] = wire[b][j]
      BY <1>5, <2>1, <2>3
    <3>2. wire[d][i].for = "turn" /\ wire[d][i] = wire[b][j]
      BY <1>5, <3>1
    <3> QED BY <3>1, <3>2, SentOnce
  <2> QED BY <2>2, <2>3
<1>6. \A u \in Telling' : \E d \in Conns : \E i \in 1..Len(wire'[d]) :
        wire'[d][i].for = "turn" /\ wire'[d][i].frame = End(u)
  <2>1. ASSUME NEW u \in Telling
        PROVE  \E d \in Conns : \E i \in 1..Len(wire'[d]) : wire'[d][i].for = "turn" /\ wire'[d][i].frame = End(u)
    <3>1. PICK d \in Conns : \E i \in 1..Len(wire[d]) : wire[d][i].for = "turn" /\ wire[d][i].frame = End(u)
      BY <2>1 DEF TurnSends
    <3>2. PICK i \in 1..Len(wire[d]) : wire[d][i].for = "turn" /\ wire[d][i].frame = End(u)
      BY <3>1
    <3>3. i \in 1..Len(wire'[d]) /\ wire'[d][i] = wire[d][i]
      BY <1>2, <3>2
    <3> QED BY <3>2, <3>3
  <2>2. Len(wire[c]) + 1 \in 1..Len(wire'[c])
    BY <1>2
  <2> QED BY <1>1, <1>2, <2>1, <2>2
<1> QED BY <1>4, <1>5, <1>6 DEF TurnSends

(* The entries of a kind stay, those of c possibly moved up by one.        *)
Stay(kind, c, shift) ==
    \A d \in Conns :
        /\ \A i \in 1..Len(wire'[d]) : wire'[d][i].for = kind =>
              \E k \in 1..Len(wire[d]) : wire'[d][i] = wire[d][k] /\ k = IF d = c THEN i + shift ELSE i
        /\ \A k \in 1..Len(wire[d]) : wire[d][k].for = kind =>
              \E i \in 1..Len(wire'[d]) : wire'[d][i] = wire[d][k]

LEMMA SendStays ==
    ASSUME OutputTypes, NEW c \in Conns, NEW for, NEW frame, [for |-> for, frame |-> frame] \in Entries,
           Send(c, for, frame), NEW kind, kind # for
    PROVE  Stay(kind, c, 0)
<1> DEFINE e == [for |-> for, frame |-> frame]
<1>1. e \in Entries /\ e.for # kind
  OBVIOUS
<1>2. /\ Len(wire[c]) \in Nat /\ Len(wire'[c]) = Len(wire[c]) + 1
      /\ \A i \in 1..Len(wire[c]) : wire'[c][i] = wire[c][i]
      /\ wire'[c][Len(wire[c]) + 1] = e
      /\ \A d \in Conns : d # c => wire'[d] = wire[d]
  BY <1>1, SendFacts
<1> HIDE DEF e
<1> QED BY <1>1, <1>2 DEF Stay

LEMMA StayShows ==
    ASSUME NEW c \in Conns, NEW kind, \A d \in Conns : d # c => wire'[d] = wire[d],
           \A k \in 1..Len(wire[c]) : wire[c][k].for = kind =>
               k - 1 \in 1..Len(wire'[c]) /\ wire'[c][k - 1] = wire[c][k],
           \A i \in 1..Len(wire'[c]) : wire'[c][i].for = kind =>
               i + 1 \in 1..Len(wire[c]) /\ wire'[c][i] = wire[c][i + 1]
    PROVE  Stay(kind, c, 1)
<1>1. ASSUME NEW d \in Conns, NEW i \in 1..Len(wire'[d]), wire'[d][i].for = kind
      PROVE  \E k \in 1..Len(wire[d]) : wire'[d][i] = wire[d][k] /\ k = IF d = c THEN i + 1 ELSE i
  <2>1. CASE d = c
    BY <1>1, <2>1
  <2>2. CASE d # c
    BY <1>1, <2>2
  <2> QED BY <2>1, <2>2
<1>2. ASSUME NEW d \in Conns, NEW k \in 1..Len(wire[d]), wire[d][k].for = kind
      PROVE  \E i \in 1..Len(wire'[d]) : wire'[d][i] = wire[d][k]
  <2>1. CASE d = c
    BY <1>2, <2>1
  <2>2. CASE d # c
    BY <1>2, <2>2
  <2> QED BY <2>1, <2>2
<1> QED BY <1>1, <1>2 DEF Stay

LEMMA TakenStays ==
    ASSUME OutputTypes, NEW c \in Conns, wire[c] # <<>>, wire' = Taken(c), NEW kind, kind # Head(wire[c]).for
    PROVE  Stay(kind, c, 1)
<1>1. /\ Len(wire[c]) \in Nat \ {0} /\ Len(wire'[c]) = Len(wire[c]) - 1 /\ Head(wire[c]) = wire[c][1]
      /\ \A i \in 1..Len(wire'[c]) : wire'[c][i] = wire[c][i + 1]
      /\ \A d \in Conns : d # c => wire'[d] = wire[d]
  BY TakenFacts
<1>2. ASSUME NEW k \in 1..Len(wire[c]), wire[c][k].for = kind
      PROVE  k - 1 \in 1..Len(wire'[c]) /\ wire'[c][k - 1] = wire[c][k]
  BY <1>1, <1>2
<1>3. ASSUME NEW i \in 1..Len(wire'[c]) PROVE i + 1 \in 1..Len(wire[c]) /\ wire'[c][i] = wire[c][i + 1]
  BY <1>1
<1> QED BY <1>1, <1>2, <1>3, StayShows

(* One frame of a replay has left and the next is being sent. *)
LEMMA NextStays ==
    ASSUME OutputTypes, NEW c \in Conns, wire[c] # <<>>, Head(wire[c]).for = "replay",
           NEW frame \in Frames, wire' = [wire EXCEPT ![c] = Append(Tail(@), [for |-> "replay", frame |-> frame])],
           NEW kind, kind # "replay"
    PROVE  Stay(kind, c, 1) /\ Replaying(c)'
<1> DEFINE e == [for |-> "replay", frame |-> frame]
<1>1. e \in Entries /\ e.for = "replay"
  BY DEF Entries
<1>2. wire[c] \in Seq(Entries) /\ wire'[c] = Append(Tail(wire[c]), e)
  BY DEF OutputTypes
<1> HIDE DEF e
<1>3. /\ Len(wire[c]) \in Nat \ {0} /\ Tail(wire[c]) \in Seq(Entries) /\ Len(Tail(wire[c])) = Len(wire[c]) - 1
      /\ Head(wire[c]) = wire[c][1]
      /\ \A i \in 1..Len(wire[c]) - 1 : Tail(wire[c])[i] = wire[c][i + 1]
  BY <1>2, HeadTailProperties
<1>4. /\ Len(wire'[c]) = Len(wire[c]) /\ wire'[c][Len(wire[c])] = e
      /\ \A i \in 1..Len(wire[c]) - 1 : wire'[c][i] = wire[c][i + 1]
  BY <1>1, <1>2, <1>3, AppendProperties
<1>5. \A d \in Conns : d # c => wire'[d] = wire[d]
  BY DEF OutputTypes
<1>6. ASSUME NEW k \in 1..Len(wire[c]), wire[c][k].for = kind
      PROVE  k - 1 \in 1..Len(wire'[c]) /\ wire'[c][k - 1] = wire[c][k]
  BY <1>3, <1>4, <1>6
<1>7. ASSUME NEW i \in 1..Len(wire'[c]), wire'[c][i].for = kind
      PROVE  i + 1 \in 1..Len(wire[c]) /\ wire'[c][i] = wire[c][i + 1]
  BY <1>1, <1>3, <1>4, <1>7
<1>8. Stay(kind, c, 1)
  BY <1>5, <1>6, <1>7, StayShows
<1>9. Replaying(c)'
  BY <1>1, <1>3, <1>4 DEF Replaying
<1> QED BY <1>8, <1>9

LEMMA TurnSendsStay ==
    ASSUME TurnSends, NEW c \in Conns, NEW shift \in {0, 1}, Stay("turn", c, shift), Telling' = Telling
    PROVE  TurnSends'
<1>1. ASSUME NEW d \in Conns, NEW i \in 1..Len(wire'[d]), wire'[d][i].for = "turn"
      PROVE  \E u \in Telling' : wire'[d][i].frame = End(u)
  BY <1>1 DEF TurnSends, Stay
<1>2. ASSUME NEW d \in Conns, NEW b \in Conns, NEW i \in 1..Len(wire'[d]), NEW j \in 1..Len(wire'[b]),
             wire'[d][i].for = "turn", wire'[d][i] = wire'[b][j]
      PROVE  d = b /\ i = j
  <2>1. PICK k \in 1..Len(wire[d]) : wire'[d][i] = wire[d][k] /\ k = IF d = c THEN i + shift ELSE i
    BY <1>2 DEF Stay
  <2>2. PICK l \in 1..Len(wire[b]) : wire'[b][j] = wire[b][l] /\ l = IF b = c THEN j + shift ELSE j
    BY <1>2 DEF Stay
  <2>3. wire[d][k].for = "turn" /\ wire[d][k] = wire[b][l]
    BY <1>2, <2>1, <2>2
  <2>4. d = b /\ k = l
    BY <2>3, SentOnce
  <2> QED BY <2>1, <2>2, <2>4
<1>3. ASSUME NEW u \in Telling'
      PROVE  \E d \in Conns : \E i \in 1..Len(wire'[d]) : wire'[d][i].for = "turn" /\ wire'[d][i].frame = End(u)
  <2>1. PICK d \in Conns : \E i \in 1..Len(wire[d]) : wire[d][i].for = "turn" /\ wire[d][i].frame = End(u)
    BY <1>3 DEF TurnSends
  <2>2. PICK i \in 1..Len(wire[d]) : wire[d][i].for = "turn" /\ wire[d][i].frame = End(u)
    BY <2>1
  <2> QED BY <2>2 DEF Stay
<1> QED BY <1>1, <1>2, <1>3 DEF TurnSends

(* The chain keeps its head while it waits. *)
LEMMA ChainSendsStay ==
    ASSUME ChainSends, NEW c \in Conns, NEW shift \in {0, 1}, Stay("chain", c, shift),
           Waiting => chain' # <<>> /\ Head(chain') = Head(chain)
    PROVE  ChainSends'
<1>1. ASSUME NEW d \in Conns, NEW i \in 1..Len(wire'[d]), wire'[d][i].for = "chain"
      PROVE  /\ chain' # <<>> /\ Head(chain').frame = wire'[d][i].frame
             /\ Head(chain').frame.kind # "end"
  <2>1. PICK k \in 1..Len(wire[d]) : wire'[d][i] = wire[d][k]
    BY <1>1 DEF Stay
  <2>2. Waiting
    BY <1>1, <2>1 DEF Waiting
  <2> QED BY <1>1, <2>1, <2>2 DEF ChainSends
<1>2. ASSUME NEW d \in Conns, NEW b \in Conns, NEW i \in 1..Len(wire'[d]), NEW j \in 1..Len(wire'[b]),
             wire'[d][i].for = "chain", wire'[b][j].for = "chain"
      PROVE  d = b /\ i = j
  <2>1. PICK k \in 1..Len(wire[d]) : wire'[d][i] = wire[d][k] /\ k = IF d = c THEN i + shift ELSE i
    BY <1>2 DEF Stay
  <2>2. PICK l \in 1..Len(wire[b]) : wire'[b][j] = wire[b][l] /\ l = IF b = c THEN j + shift ELSE j
    BY <1>2 DEF Stay
  <2>3. wire[d][k].for = "chain" /\ wire[b][l].for = "chain"
    BY <1>2, <2>1, <2>2
  <2>4. d = b /\ k = l
    BY <2>3 DEF ChainSends
  <2> QED BY <2>1, <2>2, <2>4
<1> QED BY <1>1, <1>2 DEF ChainSends

LEMMA ReplaySendsStay ==
    ASSUME ReplaySends, NEW c \in Conns, NEW shift \in {0, 1}, Stay("replay", c, shift), UNCHANGED replay
    PROVE  ReplaySends'
  BY DEF ReplaySends, Replaying, Stay

LEMMA TurnSendEnds ==
    ASSUME OutputTypes, TurnSends, NEW c \in Conns, wire[c] # <<>>, wire' = Taken(c),
           Head(wire[c]).for = "turn", NEW t \in Turns, Head(wire[c]).frame = End(t), Telling' = Telling \ {t}
    PROVE  t \in Telling /\ TurnSends'
<1>1. /\ Len(wire[c]) \in Nat \ {0} /\ Len(wire'[c]) = Len(wire[c]) - 1 /\ Head(wire[c]) = wire[c][1]
      /\ \A i \in 1..Len(wire'[c]) : wire'[c][i] = wire[c][i + 1]
      /\ \A d \in Conns : d # c => wire'[d] = wire[d]
  BY TakenFacts
<1>2. t \in Telling
  BY <1>1, MarkFacts DEF TurnSends, Telling
<1>3. \A d \in Conns : \A i \in 1..Len(wire'[d]) :
        \E k \in 1..Len(wire[d]) : wire'[d][i] = wire[d][k] /\ k = IF d = c THEN i + 1 ELSE i
  BY <1>1
<1>4. ASSUME NEW d \in Conns, NEW i \in 1..Len(wire'[d]), wire'[d][i].for = "turn"
      PROVE  \E u \in Telling' : wire'[d][i].frame = End(u)
  <2>1. PICK k \in 1..Len(wire[d]) : wire'[d][i] = wire[d][k] /\ k = IF d = c THEN i + 1 ELSE i
    BY <1>3
  <2>2. PICK u \in Telling : wire[d][k].frame = End(u)
    BY <1>4, <2>1 DEF TurnSends
  <2>3. u # t
    <3>1. SUFFICES ASSUME u = t PROVE FALSE
      OBVIOUS
    <3>2. wire[d][k] \in Entries /\ wire[c][1] \in Entries
      BY <1>1 DEF OutputTypes
    <3>3. wire[d][k] = wire[c][1]
      BY <1>1, <1>4, <2>1, <2>2, <3>1, <3>2 DEF Entries
    <3>4. d = c /\ k = 1
      BY <1>1, <1>4, <2>1, <3>3 DEF TurnSends
    <3> QED BY <2>1, <3>4
  <2> QED BY <2>1, <2>2, <2>3
<1>5. ASSUME NEW d \in Conns, NEW b \in Conns, NEW i \in 1..Len(wire'[d]), NEW j \in 1..Len(wire'[b]),
             wire'[d][i].for = "turn", wire'[d][i] = wire'[b][j]
      PROVE  d = b /\ i = j
  <2>1. PICK k \in 1..Len(wire[d]) : wire'[d][i] = wire[d][k] /\ k = IF d = c THEN i + 1 ELSE i
    BY <1>3
  <2>2. PICK l \in 1..Len(wire[b]) : wire'[b][j] = wire[b][l] /\ l = IF b = c THEN j + 1 ELSE j
    BY <1>3
  <2>3. wire[d][k].for = "turn" /\ wire[d][k] = wire[b][l]
    BY <1>5, <2>1, <2>2
  <2>4. d = b /\ k = l
    BY <2>3, SentOnce
  <2> QED BY <2>1, <2>2, <2>4
<1>6. ASSUME NEW u \in Telling'
      PROVE  \E d \in Conns : \E i \in 1..Len(wire'[d]) : wire'[d][i].for = "turn" /\ wire'[d][i].frame = End(u)
  <2>1. PICK d \in Conns : \E i \in 1..Len(wire[d]) : wire[d][i].for = "turn" /\ wire[d][i].frame = End(u)
    BY <1>6 DEF TurnSends
  <2>2. PICK i \in 1..Len(wire[d]) : wire[d][i].for = "turn" /\ wire[d][i].frame = End(u)
    BY <2>1
  <2>3. ~(d = c /\ i = 1)
    BY <1>1, <1>6, <2>2, MarkFacts DEF Telling
  <2>4. CASE d = c
    <3>1. i - 1 \in 1..Len(wire'[c]) /\ wire'[c][i - 1] = wire[c][i]
      BY <1>1, <2>2, <2>3, <2>4
    <3> QED BY <2>2, <2>4, <3>1
  <2>5. CASE d # c
    BY <1>1, <2>2, <2>5
  <2> QED BY <2>4, <2>5
<1> QED BY <1>2, <1>4, <1>5, <1>6 DEF TurnSends

LEMMA ChainSendBegins ==
    ASSUME OutputTypes, ~Waiting, NEW c \in Conns, NEW frame \in Frames, Send(c, "chain", frame),
           chain # <<>>, Head(chain).frame = frame, frame.kind # "end", UNCHANGED chain
    PROVE  ChainSends'
<1> DEFINE e == [for |-> "chain", frame |-> frame]
<1>1. e \in Entries /\ e.frame = frame
  BY DEF Entries
<1>2. /\ Len(wire[c]) \in Nat /\ Len(wire'[c]) = Len(wire[c]) + 1
      /\ \A i \in 1..Len(wire[c]) : wire'[c][i] = wire[c][i]
      /\ wire'[c][Len(wire[c]) + 1] = e
      /\ \A d \in Conns : d # c => wire'[d] = wire[d]
  BY <1>1, SendFacts
<1> HIDE DEF e
<1>3. ASSUME NEW d \in Conns, NEW i \in 1..Len(wire'[d]), wire'[d][i].for = "chain"
      PROVE  d = c /\ i = Len(wire[c]) + 1 /\ wire'[d][i] = e
  <2>1. CASE d = c
    BY <1>2, <1>3, <2>1 DEF Waiting
  <2>2. CASE d # c
    BY <1>2, <1>3, <2>2 DEF Waiting
  <2> QED BY <2>1, <2>2
<1> QED BY <1>1, <1>3 DEF ChainSends

LEMMA ChainSendEnds ==
    ASSUME OutputTypes, ChainSends, NEW c \in Conns, wire[c] # <<>>, Head(wire[c]).for = "chain", wire' = Taken(c)
    PROVE  /\ chain # <<>> /\ Head(chain).frame.kind # "end" /\ Head(chain).frame = Head(wire[c]).frame
           /\ ChainSends'
<1>1. /\ Len(wire[c]) \in Nat \ {0} /\ Len(wire'[c]) = Len(wire[c]) - 1 /\ Head(wire[c]) = wire[c][1]
      /\ \A i \in 1..Len(wire'[c]) : wire'[c][i] = wire[c][i + 1]
      /\ \A d \in Conns : d # c => wire'[d] = wire[d]
  BY TakenFacts
<1>2. 1 \in 1..Len(wire[c]) /\ wire[c][1].for = "chain"
  BY <1>1
<1>3. ASSUME NEW d \in Conns, NEW i \in 1..Len(wire'[d]), wire'[d][i].for = "chain" PROVE FALSE
  <2>1. CASE d = c
    <3>1. i + 1 \in 1..Len(wire[c]) /\ wire[c][i + 1].for = "chain" /\ i + 1 # 1
      BY <1>1, <1>3, <2>1
    <3> QED BY <1>2, <3>1 DEF ChainSends
  <2>2. CASE d # c
    <3>1. i \in 1..Len(wire[d]) /\ wire[d][i].for = "chain"
      BY <1>1, <1>3, <2>2
    <3> QED BY <1>2, <2>2, <3>1 DEF ChainSends
  <2> QED BY <2>1, <2>2
<1> QED BY <1>1, <1>2, <1>3 DEF ChainSends

(* A frame enters the chain: its head stays.                               *)
LEMMA HeadStays ==
    ASSUME chain \in Seq(Links), NEW x \in Links, chain' = Append(chain, x)
    PROVE  chain # <<>> => chain' # <<>> /\ Head(chain') = Head(chain)
<1>1. CASE chain # <<>>
  <2>1. Len(chain) \in Nat \ {0} /\ Head(chain) = chain[1]
    BY <1>1, HeadTailProperties
  <2>2. chain' \in Seq(Links) /\ chain' # <<>> /\ chain'[1] = chain[1]
    BY <2>1, AppendProperties
  <2> QED BY <2>1, <2>2, HeadTailProperties
<1> QED BY <1>1

LEMMA ChainWaits == ASSUME ChainSends, Waiting PROVE chain # <<>>
  BY DEF ChainSends, Waiting

(* Nothing is sent.                                                        *)
LEMMA WireRests ==
    ASSUME TurnSends, ChainSends, ReplaySends, UNCHANGED <<wire, replay>>, Telling' = Telling,
           Waiting => chain' # <<>> /\ Head(chain') = Head(chain)
    PROVE  TurnSends' /\ ChainSends' /\ ReplaySends'
<1>1. TurnSends'
  BY DEF TurnSends
<1>2. ChainSends'
  <2>1. ASSUME NEW c \in Conns, NEW i \in 1..Len(wire[c]), wire[c][i].for = "chain"
        PROVE  /\ chain' # <<>> /\ Head(chain').frame = wire[c][i].frame
               /\ Head(chain').frame.kind # "end"
    <3>1. Waiting
      BY <2>1 DEF Waiting
    <3> QED BY <2>1, <3>1 DEF ChainSends
  <2> QED BY <2>1 DEF ChainSends
<1>3. ReplaySends'
  BY DEF ReplaySends, Replaying
<1> QED BY <1>1, <1>2, <1>3

LEMMA FlowRests ==
    ASSUME FlowInv, UNCHANGED <<chain, wire, replay>>, Draining' = Draining, Telling' = Telling
    PROVE  FlowInv'
<1>1. Waiting => chain' # <<>> /\ Head(chain') = Head(chain)
  BY ChainWaits DEF FlowInv
<1>2. ChainInv'
  BY DEF FlowInv, ChainInv
<1> QED BY <1>1, <1>2, WireRests DEF FlowInv

(* Where the turns are after one of them has moved.                        *)
LEMMA TurnMoves ==
    ASSUME turns \in [Turns -> Turn], turns' \in [Turns -> Turn], NEW t \in Turns,
           \A u \in Turns : u # t => turns'[u] = turns[u]
    PROVE  /\ turns'[t].stage \notin {"draining", "telling"} => Draining' = Draining \ {t} /\ Telling' = Telling \ {t}
           /\ turns'[t].stage = "draining" => Draining' = Draining \cup {t} /\ Telling' = Telling \ {t}
           /\ turns'[t].stage = "telling"  => Draining' = Draining \ {t} /\ Telling' = Telling \cup {t}
           /\ t \notin Draining => Draining \ {t} = Draining
           /\ t \notin Telling  => Telling \ {t} = Telling
  BY DEF Draining, Telling

LEMMA TurnIsOver ==
    ASSUME turns \in [Turns -> Turn], BackendTypeOK, NEW t \in Turns, turns' = [turns EXCEPT ![t] = Over]
    PROVE  /\ Draining' = Draining \ {t} /\ Telling' = Telling \ {t}
           /\ t \notin Draining => Draining' = Draining
           /\ t \notin Telling  => Telling' = Telling
<1>1. Over \in Turn /\ Over.stage = "over"
  BY DEF Over, Turn, Gen, BackendTypeOK
<1>2. /\ turns' \in [Turns -> Turn] /\ turns'[t].stage \notin {"draining", "telling"}
      /\ \A u \in Turns : u # t => turns'[u] = turns[u]
  BY <1>1
<1> HIDE DEF Draining, Telling
<1>3. /\ Draining' = Draining \ {t} /\ Telling' = Telling \ {t}
      /\ t \notin Draining => Draining \ {t} = Draining
      /\ t \notin Telling  => Telling \ {t} = Telling
  BY <1>2, TurnMoves
<1> QED BY <1>3

LEMMA CallsFlow ==
    ASSUME BackendTypeOK, SessionTypes, SessionTypes', FlowInv,
           \/ \E c \in Conns : \/ Drop(c) \/ Claim(c) \/ Load(c) \/ CloseStream(c) \/ Cancel(c)
                               \/ \E t \in Turns : Prompt(c, t)
                               \/ \E r \in Asks : Respond(c, r)
           \/ \E t \in Turns : PrepEnds(t)
           \/ LoadEnds \/ (\E r \in Asks : Expire(r))
           \/ Crash \/ FailSessions \/ ForgetSessions \/ BackendOnly
    PROVE  FlowInv'
<1>0. turns \in [Turns -> Turn] /\ turns' \in [Turns -> Turn]
  BY DEF SessionTypes, PromptTypes
<1>1. UNCHANGED <<chain, wire, replay>>
  BY DEF Drop, Claim, Load, CloseStream, Cancel, Prompt, Respond, PrepEnds, LoadEnds, Expire, Crash,
         FailSessions, ForgetSessions, BackendOnly, output
<1>2. ASSUME NEW c \in Conns, NEW t \in Turns, Prompt(c, t) PROVE Draining' = Draining /\ Telling' = Telling
  BY <1>0, <1>2 DEF Prompt, NoTurn, Draining, Telling
<1>3. ASSUME NEW t \in Turns, PrepEnds(t) PROVE Draining' = Draining /\ Telling' = Telling
  <2>1. turns[t].stage = "preparing" /\ t \notin Draining /\ t \notin Telling
    BY <1>3 DEF PrepEnds, Draining, Telling
  <2>2. CASE turns' = [turns EXCEPT ![t] = Over]
    BY <1>0, <2>1, <2>2, TurnIsOver
  <2>3. CASE turns' = [turns EXCEPT ![t].stage = "upstream", ![t].conn = Nobody]
    <3>1. turns'[t].stage = "upstream" /\ \A u \in Turns : u # t => turns'[u] = turns[u]
      BY <1>0, <2>3 DEF Turn
    <3>2. /\ turns'[t].stage \notin {"draining", "telling"} => Draining' = Draining \ {t} /\ Telling' = Telling \ {t}
          /\ t \notin Draining => Draining \ {t} = Draining
          /\ t \notin Telling  => Telling \ {t} = Telling
      BY <1>0, <3>1, TurnMoves
    <3> QED BY <2>1, <3>1, <3>2
  <2> QED BY <1>3, <2>2, <2>3 DEF PrepEnds
<1>4. ASSUME NEW c \in Conns, Cancel(c) PROVE Draining' = Draining /\ Telling' = Telling
  <2>1. turns' = turns \/ turns' = [turns EXCEPT ![preparing].dropped = TRUE]
    BY <1>4 DEF Cancel
  <2>2. \A t \in Turns : turns'[t].stage = turns[t].stage
    BY <1>0, <2>1 DEF Turn
  <2> QED BY <2>2 DEF Draining, Telling
<1>5. ASSUME ForgetSessions PROVE Draining' = Draining /\ Telling' = Telling
  <2>1. \A t \in Turns : turns'[t].stage = turns[t].stage
    BY <1>0, <1>5 DEF ForgetSessions, Turn
  <2> QED BY <2>1 DEF Draining, Telling
<1>6. UNCHANGED turns => Draining' = Draining /\ Telling' = Telling
  BY DEF Draining, Telling
<1>7. Draining' = Draining /\ Telling' = Telling
  BY <1>2, <1>3, <1>4, <1>5, <1>6 DEF Drop, Claim, Load, CloseStream, Respond, LoadEnds, Expire, Crash,
     FailSessions, BackendOnly, prompts
<1> QED BY <1>1, <1>7, FlowRests

LEMMA ChainFlow ==
    ASSUME BackendTypeOK, SessionTypes, SessionTypes', FlowInv,
           (\E t \in Turns : Answer(t) \/ Reject(t)) \/ Emit \/ \E r \in Asks : EmitAsk(r)
    PROVE  FlowInv'
<1>0. turns \in [Turns -> Turn] /\ turns' \in [Turns -> Turn] /\ chain \in Seq(Links)
  BY DEF SessionTypes, PromptTypes, OutputTypes, Links
<1>1. ASSUME NEW t \in Turns, Answer(t) \/ Reject(t) PROVE FlowInv'
  <2>1. t \notin Draining /\ t \notin Telling /\ UNCHANGED <<wire, replay>>
    BY <1>1 DEF Answer, Reject, Draining, Telling
  <2>2. CASE chain' = chain
    <3>1. chain # Append(chain, Mark(t))
      BY <1>0, FrameTypes, AppendProperties DEF Links, Turns
    <3>2. turns' = [turns EXCEPT ![t] = Over]
      BY <1>1, <2>2, <3>1 DEF Answer, Reject
    <3>3. Draining' = Draining /\ Telling' = Telling
      BY <1>0, <2>1, <3>2, TurnIsOver
    <3> QED BY <2>1, <2>2, <3>3, FlowRests
  <2>3. CASE chain' # chain
    <3>1. chain' = Append(chain, Mark(t)) /\ Mark(t) \in Links
      BY <1>1, <2>3, FrameTypes DEF Answer, Reject, Links, Turns
    <3>2. Draining' = Draining \cup {t} /\ Telling' = Telling
      <4>1. \/ turns' = [turns EXCEPT ![t].stage = "draining"]
            \/ turns' = [turns EXCEPT ![t].stage = "draining", ![t].failed = TRUE]
        BY <1>1, <2>3 DEF Answer, Reject
      <4>2. turns'[t].stage = "draining" /\ \A u \in Turns : u # t => turns'[u] = turns[u]
        BY <1>0, <4>1 DEF Turn
      <4>3. /\ turns'[t].stage = "draining" => Draining' = Draining \cup {t} /\ Telling' = Telling \ {t}
            /\ t \notin Telling  => Telling \ {t} = Telling
        BY <1>0, <4>2, TurnMoves
      <4> QED BY <2>1, <4>2, <4>3
    <3>3. ChainInv'
      BY <1>0, <2>1, <3>1, <3>2, MarkAppended DEF FlowInv
    <3>4. Waiting => chain' # <<>> /\ Head(chain') = Head(chain)
      BY <1>0, <3>1, HeadStays, ChainWaits DEF FlowInv
    <3> QED BY <2>1, <3>2, <3>3, <3>4, WireRests DEF FlowInv
  <2> QED BY <2>2, <2>3
<1>2. ASSUME Emit \/ \E r \in Asks : EmitAsk(r) PROVE FlowInv'
  <2>1. UNCHANGED <<wire, replay>> /\ Draining' = Draining /\ Telling' = Telling
    BY <1>2 DEF Emit, EmitAsk, prompts, Draining, Telling
  <2>2. PICK x \in Links : x.frame.kind # "end" /\ chain' = Append(chain, x)
    <3>1. CASE Emit
      <4>1. [frame |-> Chunk(emitted + 1), gen |-> instance] \in Links
        BY FrameTypes DEF Links, SessionTypes, OutputTypes, BackendTypeOK
      <4> QED BY <3>1, <4>1 DEF Emit, Chunk
    <3>2. ASSUME NEW r \in Asks, EmitAsk(r)
          PROVE \E x \in Links : x.frame.kind # "end" /\ chain' = Append(chain, x)
      <4>1. [frame |-> Ask(r), gen |-> instance] \in Links
        BY FrameTypes DEF Links, Asks, BackendTypeOK
      <4> QED BY <3>2, <4>1 DEF EmitAsk, Ask
    <3> QED BY <1>2, <3>1, <3>2
  <2>3. ChainInv'
    BY <1>0, <2>1, <2>2, OutputAppended DEF FlowInv
  <2>4. Waiting => chain' # <<>> /\ Head(chain') = Head(chain)
    BY <1>0, <2>2, HeadStays, ChainWaits DEF FlowInv
  <2> QED BY <2>1, <2>3, <2>4, WireRests DEF FlowInv
<1> QED BY <1>1, <1>2

LEMMA ReplayFlow ==
    ASSUME SessionTypes, FlowInv, NEW c \in Conns, OpenStream(c)
    PROVE  FlowInv'
<1>0. UNCHANGED <<chain, prompts>> /\ Draining' = Draining /\ Telling' = Telling
  BY DEF OpenStream, prompts, Draining, Telling
<1>1. CASE buffer = <<>>
  <2>1. UNCHANGED <<chain, wire, replay>>
    BY <1>1 DEF OpenStream
  <2> QED BY <1>0, <2>1, FlowRests
<1>2. CASE buffer # <<>>
  <2>1. Send(c, "replay", Head(buffer)) /\ replay' = [replay EXCEPT ![c] = Tail(buffer)]
    BY <1>2 DEF OpenStream
  <2> DEFINE e == [for |-> "replay", frame |-> Head(buffer)]
  <2>2. e \in Entries /\ e.for = "replay"
    BY <1>2, HeadTailProperties DEF Entries, SessionTypes, OutputTypes
  <2>3. Stay("turn", c, 0) /\ Stay("chain", c, 0)
    BY <2>1, <2>2, SendStays DEF SessionTypes
  <2>4. TurnSends'
    BY <1>0, <2>3, TurnSendsStay DEF FlowInv
  <2>5. ChainSends'
    BY <1>0, <2>3, ChainSendsStay, ChainWaits DEF FlowInv
  <2>6. /\ Len(wire[c]) \in Nat /\ Len(wire'[c]) = Len(wire[c]) + 1
        /\ wire'[c][Len(wire[c]) + 1] = e
        /\ \A d \in Conns : d # c => wire'[d] = wire[d]
    BY <2>1, <2>2, SendFacts DEF SessionTypes
  <2> HIDE DEF e
  <2>7. Replaying(c)'
    BY <2>2, <2>6 DEF Replaying
  <2>8. \A d \in Conns : d # c => replay'[d] = replay[d]
    BY <2>1 DEF SessionTypes, OutputTypes
  <2>9. ReplaySends'
    BY <2>6, <2>7, <2>8 DEF ReplaySends, Replaying, FlowInv
  <2>10. ChainInv'
    BY <1>0 DEF FlowInv, ChainInv
  <2> QED BY <2>4, <2>5, <2>9, <2>10 DEF FlowInv
<1> QED BY <1>1, <1>2

LEMMA DrainFlow ==
    ASSUME SessionTypes, FlowInv, SkipStale \/ HandleChunk \/ HandleAsk
    PROVE  FlowInv'
<1>0. /\ chain \in Seq(Links) /\ chain # <<>> /\ ~Waiting /\ Head(chain).frame \in Frames /\ OutputTypes
      /\ Draining' = Draining /\ Telling' = Telling /\ UNCHANGED replay
  BY HeadTypes DEF SkipStale, HandleChunk, HandleAsk, Due, SessionTypes, OutputTypes, Links, prompts, Draining, Telling
<1>1. Head(chain).frame.kind # "end" \/ Head(chain).gen # None
  BY DEF SkipStale, HandleChunk, HandleAsk
<1>2. CASE chain' = Tail(chain) /\ UNCHANGED wire
  <2>1. ChainInv'
    BY <1>0, <1>1, <1>2, OutputTaken DEF FlowInv
  <2> QED BY <1>0, <1>2, <2>1, WireRests DEF FlowInv
<1>3. CASE UNCHANGED chain /\ (HandleChunk \/ HandleAsk)
           /\ \E c \in Conns : Send(c, "chain", Head(chain).frame)
  <2> PICK c \in Conns : Send(c, "chain", Head(chain).frame)
    BY <1>3
  <2>1. Head(chain).frame.kind # "end"
    BY <1>3 DEF HandleChunk, HandleAsk
  <2>2. ChainSends'
    BY <1>0, <1>3, <2>1, ChainSendBegins
  <2>3. [for |-> "chain", frame |-> Head(chain).frame] \in Entries
    BY <1>0 DEF Entries
  <2>4. Stay("turn", c, 0) /\ Stay("replay", c, 0)
    BY <1>0, <2>3, SendStays
  <2>5. TurnSends'
    BY <1>0, <2>4, TurnSendsStay DEF FlowInv
  <2>6. ReplaySends'
    BY <1>0, <2>4, ReplaySendsStay DEF FlowInv
  <2>7. ChainInv'
    BY <1>0, <1>3 DEF FlowInv, ChainInv
  <2> QED BY <2>2, <2>5, <2>6, <2>7 DEF FlowInv
<1>4. Ask(Head(chain).frame.id) = Head(chain).frame \/ ~HandleAsk
  BY <1>0 DEF HandleAsk, Ask, Frames
<1>5. owner # Nobody => owner \in Conns
  BY DEF SessionTypes, AccessTypes
<1>6. \/ chain' = Tail(chain) /\ UNCHANGED wire
      \/ UNCHANGED chain /\ (HandleChunk \/ HandleAsk) /\ \E c \in Conns : Send(c, "chain", Head(chain).frame)
  BY <1>4, <1>5 DEF SkipStale, HandleChunk, HandleAsk
<1> QED BY <1>2, <1>3, <1>6

LEMMA ResumeFlow ==
    ASSUME BackendTypeOK, SessionTypes, FlowInv, NEW t \in Turns, Resume(t)
    PROVE  FlowInv'
<1>0. /\ chain \in Seq(Links) /\ chain # <<>> /\ ~Waiting /\ OutputTypes /\ turns \in [Turns -> Turn]
      /\ chain' = Tail(chain) /\ Head(chain) = Mark(t) /\ UNCHANGED replay /\ End(t) \in Frames
  BY FrameTypes DEF Resume, Due, SessionTypes, PromptTypes, OutputTypes, Links, Turns
<1>1. t \in Draining
  <2>1. Head(chain) = chain[1] /\ 1 \in 1..Len(chain)
    BY <1>0, HeadTailProperties
  <2>2. Head(chain).frame.kind = "end"
    BY <1>0, MarkFacts
  <2>3. PICK u \in Draining : Mark(u) = Mark(t)
    BY <1>0, <2>1, <2>2 DEF FlowInv, ChainInv
  <2> QED BY <2>3, MarkFacts DEF Draining
<1>2. t \notin Telling
  BY <1>1 DEF Draining, Telling
<1>3. CASE StillToTell(t) /\ owner # Nobody
  <2>1. Send(owner, "turn", End(t)) /\ turns' = [turns EXCEPT ![t].stage = "telling"] /\ owner \in Conns
    BY <1>3 DEF Resume, SessionTypes, AccessTypes
  <2>2. Draining' = Draining \ {t} /\ Telling' = Telling \cup {t}
    BY <1>0, <2>1 DEF Draining, Telling, Turn
  <2>3. ChainInv'
    BY <1>0, <2>2, MarkTaken DEF FlowInv
  <2>4. TurnSends'
    BY <1>0, <1>2, <2>1, <2>2, TurnSendBegins DEF FlowInv
  <2>5. [for |-> "turn", frame |-> End(t)] \in Entries
    BY <1>0 DEF Entries
  <2>6. Stay("chain", owner, 0) /\ Stay("replay", owner, 0)
    BY <1>0, <2>1, <2>5, SendStays
  <2>7. ChainSends'
    BY <1>0, <2>1, <2>6, ChainSendsStay DEF FlowInv
  <2>8. ReplaySends'
    BY <1>0, <2>1, <2>6, ReplaySendsStay DEF FlowInv
  <2> QED BY <2>3, <2>4, <2>7, <2>8 DEF FlowInv
<1>4. CASE ~(StillToTell(t) /\ owner # Nobody)
  <2>1. UNCHANGED wire /\ turns' = [turns EXCEPT ![t] = Over]
    BY <1>4 DEF Resume, Finish
  <2>2. Draining' = Draining \ {t} /\ Telling' = Telling
    BY <1>0, <1>2, <2>1, TurnIsOver
  <2>3. ChainInv'
    BY <1>0, <2>2, MarkTaken DEF FlowInv
  <2> QED BY <1>0, <2>1, <2>2, <2>3, WireRests DEF FlowInv
<1> QED BY <1>3, <1>4

LEMMA SendsFlow ==
    ASSUME BackendTypeOK, SessionTypes, FlowInv, NEW c \in Conns, Sent(c) \/ Failed(c)
    PROVE  FlowInv'
<1> DEFINE e == Head(wire[c])
<1>0. /\ wire[c] # <<>> /\ OutputTypes /\ chain \in Seq(Links) /\ turns \in [Turns -> Turn] /\ e \in Entries
  BY TakenTypes DEF Sent, Failed, SessionTypes, PromptTypes, OutputTypes, Links
<1>1. CASE e.for = "chain"
  <2>1. wire' = Taken(c) /\ chain' = Tail(chain) /\ UNCHANGED <<turns, replay>>
    BY <1>1 DEF Sent, Failed
  <2>2. chain # <<>> /\ Head(chain).frame.kind # "end" /\ ChainSends'
    BY <1>0, <1>1, <2>1, ChainSendEnds DEF FlowInv
  <2>3. Draining' = Draining /\ Telling' = Telling
    BY <2>1 DEF Draining, Telling
  <2>4. ChainInv'
    BY <1>0, <2>1, <2>2, <2>3, OutputTaken DEF FlowInv
  <2>5. Stay("turn", c, 1) /\ Stay("replay", c, 1)
    BY <1>0, <1>1, <2>1, TakenStays
  <2>6. TurnSends' /\ ReplaySends'
    BY <2>1, <2>3, <2>5, TurnSendsStay, ReplaySendsStay DEF FlowInv
  <2> QED BY <2>2, <2>4, <2>6 DEF FlowInv
<1>2. CASE e.for = "turn"
  <2>1. wire' = Taken(c) /\ Finish(e.frame.id) /\ UNCHANGED <<chain, replay>>
    BY <1>2 DEF Sent, Failed
  <2>2. PICK t \in Telling : e.frame = End(t)
    <3>1. e = wire[c][1] /\ 1 \in 1..Len(wire[c])
      BY <1>0, HeadTailProperties DEF OutputTypes
    <3> QED BY <1>2, <3>1 DEF FlowInv, TurnSends
  <2>3. turns' = [turns EXCEPT ![t] = Over] /\ t \in Turns /\ t \notin Draining
    <3>1. e.frame.id = t
      BY <2>2 DEF End
    <3>2. turns' = [turns EXCEPT ![t] = Over]
      BY <2>1, <3>1 DEF Finish
    <3> QED BY <2>2, <3>2 DEF Telling, Draining
  <2>4. Draining' = Draining /\ Telling' = Telling \ {t}
    BY <1>0, <2>3, TurnIsOver
  <2>5. TurnSends'
    BY <1>0, <1>2, <2>1, <2>2, <2>3, <2>4, TurnSendEnds DEF FlowInv
  <2>6. Stay("chain", c, 1) /\ Stay("replay", c, 1)
    BY <1>0, <1>2, <2>1, TakenStays
  <2>7. ChainSends' /\ ReplaySends'
    BY <2>1, <2>6, ChainSendsStay, ReplaySendsStay, ChainWaits DEF FlowInv
  <2>8. ChainInv'
    BY <2>1, <2>4 DEF FlowInv, ChainInv
  <2> QED BY <2>5, <2>7, <2>8 DEF FlowInv
<1>3. CASE e.for = "replay"
  <2>1. UNCHANGED <<chain, turns>> /\ Draining' = Draining /\ Telling' = Telling
    BY <1>3 DEF Sent, Failed, Draining, Telling
  <2>2. Stay("turn", c, 1) /\ Stay("chain", c, 1) /\ ReplaySends'
    <3>1. CASE wire' = Taken(c)
      <4>1. Stay("turn", c, 1) /\ Stay("chain", c, 1)
        BY <1>0, <1>3, <3>1, TakenStays
      <4>2. replay' = [replay EXCEPT ![c] = <<>>] \/ (replay[c] = <<>> /\ UNCHANGED replay)
            \/ (replay[c] # <<>> /\ Sent(c))
        BY <1>3, <3>1 DEF Sent, Failed
      <4>3. \A d \in Conns : d # c => wire'[d] = wire[d]
        BY <1>0, <3>1, TakenFacts
      <4>4. replay' = [replay EXCEPT ![c] = <<>>] \/ (replay[c] = <<>> /\ UNCHANGED replay) => ReplaySends'
        BY <1>0, <4>3 DEF ReplaySends, Replaying, FlowInv, OutputTypes
      <4>5. ASSUME replay[c] # <<>>, Sent(c) PROVE FALSE
        <5>1. wire' = [wire EXCEPT ![c] = Append(Tail(@), [for |-> "replay", frame |-> Head(replay[c])])]
          BY <1>3, <4>5 DEF Sent
        <5>2. [for |-> "replay", frame |-> Head(replay[c])] \in Entries
          BY <1>0, <4>5, HeadTailProperties DEF OutputTypes, Entries
        <5>3. wire'[c] = Append(Tail(wire[c]), [for |-> "replay", frame |-> Head(replay[c])])
              /\ wire'[c] = Tail(wire[c]) /\ Tail(wire[c]) \in Seq(Entries)
          BY <1>0, <3>1, <5>1, HeadTailProperties DEF OutputTypes, Taken
        <5>4. Len(wire'[c]) = Len(Tail(wire[c])) + 1 /\ Len(Tail(wire[c])) = Len(wire[c]) - 1
          BY <1>0, <5>2, <5>3, AppendProperties, HeadTailProperties DEF OutputTypes
        <5>5. Len(wire'[c]) = Len(wire[c]) - 1 /\ Len(wire[c]) \in Nat
          BY <1>0, <3>1, TakenFacts
        <5> QED BY <5>4, <5>5
      <4> QED BY <4>1, <4>2, <4>4, <4>5
    <3>2. CASE wire' # Taken(c)
      <4>1. /\ replay[c] # <<>> /\ replay' = [replay EXCEPT ![c] = Tail(@)]
            /\ wire' = [wire EXCEPT ![c] = Append(Tail(@), [for |-> "replay", frame |-> Head(replay[c])])]
        BY <1>3, <3>2 DEF Sent, Failed
      <4>2. Head(replay[c]) \in Frames
        BY <1>0, <4>1, HeadTailProperties DEF OutputTypes
      <4>3. Stay("turn", c, 1) /\ Stay("chain", c, 1) /\ Replaying(c)'
        BY <1>0, <1>3, <4>1, <4>2, NextStays
      <4>4. \A d \in Conns : d # c => wire'[d] = wire[d] /\ replay'[d] = replay[d]
        BY <1>0, <4>1 DEF OutputTypes
      <4>5. ReplaySends'
        BY <4>3, <4>4 DEF ReplaySends, Replaying, FlowInv
      <4> QED BY <4>3, <4>5
    <3> QED BY <3>1, <3>2
  <2>3. TurnSends' /\ ChainSends'
    BY <2>1, <2>2, TurnSendsStay, ChainSendsStay, ChainWaits DEF FlowInv
  <2>4. ChainInv'
    BY <2>1 DEF FlowInv, ChainInv
  <2> QED BY <2>2, <2>3, <2>4 DEF FlowInv
<1> QED BY <1>0, <1>1, <1>2, <1>3 DEF Entries

LEMMA FlowKept ==
    ASSUME BackendTypeOK, SessionTypes, FlowInv, [Next]_vars
    PROVE  FlowInv'
<1>1. CASE UNCHANGED vars
  BY <1>1, FlowRests DEF vars, output, prompts, Draining, Telling
<1>2. CASE Drains
  BY <1>2, DrainFlow, ResumeFlow DEF Drains
<1>3. CASE Happens
  BY <1>3, CallsFlow, ChainFlow, ReplayFlow, SendsFlow, TypesKept, ChainWaits DEF Happens, Next, FlowInv
<1> QED BY <1>1, <1>2, <1>3 DEF Next

(***************************************************************************)
(* The turns.                                                              *)
(***************************************************************************)

(* A turn the adapter in place can still run, or is running, is the turn   *)
(* in progress; an adapter that comes later was not given it.              *)
TurnInv ==
    /\ preparing \in {None, current}
    /\ preparing # None => turns[preparing].stage = "preparing"
    /\ current # None => turns[current].stage \notin {"none", "over"}
    /\ \A t \in Turns :
        /\ turns[t].gen <= made
        /\ turns[t].stage = "upstream" => ~turns[t].dropped
        /\ (/\ turns[t].stage \in {"preparing", "upstream"} /\ ~turns[t].dropped
            /\ ready /\ turns[t].gen = instance) => current = t

LEMMA TurnsRest ==
    ASSUME TurnInv, BackendInv, BackendStep, SessionTypes, UNCHANGED <<turns, current, preparing>>
    PROVE  TurnInv'
<1>1. made' >= made /\ (ready' => (ready /\ instance' = instance) \/ instance' > made)
  BY AdapterIsNew
<1>2. made \in Nat /\ made' \in Nat /\ instance' \in Nat /\ \A t \in Turns : turns[t].gen \in Nat
  BY BackendKept DEF BackendInv, BackendTypeOK, Gen, SessionTypes, AccessTypes, PromptTypes, Turn
<1>3. ASSUME NEW t \in Turns
      PROVE  turns[t].gen <= made' /\ (ready' /\ turns[t].gen = instance' => ready /\ turns[t].gen = instance)
  <2>1. turns[t].gen <= made
    BY DEF TurnInv
  <2> QED BY <1>1, <1>2, <2>1
<1> QED BY <1>3 DEF TurnInv

(* A turn that is not the one being prepared ends.                         *)
LEMMA TurnEnds ==
    ASSUME TurnInv, SessionTypes, BackendTypeOK, NEW t \in Turns, turns' = [turns EXCEPT ![t] = Over],
           current' = IF current = t THEN None ELSE current, UNCHANGED adapter,
           preparing' = IF preparing = t THEN None ELSE preparing
    PROVE  TurnInv'
<1>1. turns'[t] = Over /\ \A u \in Turns : u # t => turns'[u] = turns[u]
  BY DEF SessionTypes, PromptTypes
<1>2. current \in {None} \cup Turns /\ t # None
  BY DEF SessionTypes, PromptTypes, Turns
<1>3. preparing' \in {None, current'} /\ (preparing' # None => preparing' # t /\ preparing' = preparing)
  BY <1>2 DEF TurnInv
<1>4. current' # None => current' # t /\ current' = current
  BY <1>2
<1>5. ASSUME NEW u \in Turns
      PROVE  /\ turns'[u].gen <= made'
             /\ turns'[u].stage = "upstream" => ~turns'[u].dropped
             /\ (/\ turns'[u].stage \in {"preparing", "upstream"} /\ ~turns'[u].dropped
                 /\ ready' /\ turns'[u].gen = instance') => current' = u
  <2>1. CASE u = t
    BY <1>1, <2>1 DEF Over, adapter, BackendTypeOK, Gen
  <2>2. CASE u # t
    BY <1>1, <2>2 DEF TurnInv, adapter
  <2> QED BY <2>1, <2>2
<1>6. preparing' # None => turns'[preparing'].stage = "preparing"
  BY <1>1, <1>3 DEF TurnInv, SessionTypes, PromptTypes
<1>7. current' # None => turns'[current'].stage \notin {"none", "over"}
  BY <1>1, <1>2, <1>4 DEF TurnInv
<1> QED BY <1>3, <1>5, <1>6, <1>7 DEF TurnInv

(* A turn goes on to a stage in which it is not prepared any more.         *)
LEMMA TurnGoesOn ==
    ASSUME TurnInv, SessionTypes, NEW t \in Turns, UNCHANGED <<adapter, current>>,
           \A u \in Turns : u # t => turns'[u] = turns[u],
           turns'[t].stage \in {"upstream", "draining", "telling"}, turns'[t].gen = turns[t].gen,
           turns'[t].dropped = turns[t].dropped,
           turns'[t].stage = "upstream" => turns[t].stage = "preparing" /\ ~turns[t].dropped,
           preparing' = IF preparing = t THEN None ELSE preparing
    PROVE  TurnInv'
<1>1. preparing' \in {None, current'} /\ (preparing' # None => preparing' # t /\ preparing' = preparing)
  BY DEF TurnInv
<1>2. ASSUME NEW u \in Turns
      PROVE  /\ turns'[u].gen <= made'
             /\ turns'[u].stage = "upstream" => ~turns'[u].dropped
             /\ (/\ turns'[u].stage \in {"preparing", "upstream"} /\ ~turns'[u].dropped
                 /\ ready' /\ turns'[u].gen = instance') => current' = u
  <2>1. CASE u = t
    BY <2>1 DEF TurnInv, adapter
  <2>2. CASE u # t
    BY <2>2 DEF TurnInv, adapter
  <2> QED BY <2>1, <2>2
<1>3. preparing' # None => turns'[preparing'].stage = "preparing"
  BY <1>1 DEF TurnInv, SessionTypes, PromptTypes
<1>4. current' # None => turns'[current'].stage \notin {"none", "over"}
  <2>1. CASE current = t
    BY <2>1
  <2>2. CASE current # t
    BY <2>2 DEF TurnInv, SessionTypes, PromptTypes
  <2> QED BY <2>1, <2>2
<1> QED BY <1>1, <1>2, <1>3, <1>4 DEF TurnInv

LEMMA CancelledTurns ==
    ASSUME TurnInv, SessionTypes, BackendInv, BackendStep, \E c \in Conns : Cancel(c)
    PROVE  TurnInv'
<1> PICK c \in Conns : Cancel(c)
  OBVIOUS
<1>1. CASE preparing = None
  BY <1>1, TurnsRest DEF Cancel
<1>2. CASE preparing # None
  <2>1. /\ turns' = [turns EXCEPT ![preparing].dropped = TRUE] /\ preparing' = None /\ current' = None
        /\ UNCHANGED adapter /\ preparing = current /\ turns[preparing].stage = "preparing"
    BY <1>2 DEF Cancel, backend, TurnInv
  <2>2. preparing \in Turns /\ preparing # None
    BY <1>2 DEF SessionTypes, PromptTypes
  <2>3. /\ turns'[preparing].dropped /\ turns'[preparing].stage = "preparing"
        /\ turns'[preparing].gen = turns[preparing].gen
        /\ \A t \in Turns : t # preparing => turns'[t] = turns[t]
    BY <2>1, <2>2 DEF SessionTypes, PromptTypes, Turn
  <2>4. ASSUME NEW u \in Turns
        PROVE  /\ turns'[u].gen <= made'
               /\ turns'[u].stage = "upstream" => ~turns'[u].dropped
               /\ ~(/\ turns'[u].stage \in {"preparing", "upstream"} /\ ~turns'[u].dropped
                    /\ ready' /\ turns'[u].gen = instance')
    <3>1. CASE u = preparing
      BY <2>1, <2>3, <3>1 DEF TurnInv, adapter
    <3>2. CASE u # preparing
      BY <2>1, <2>3, <3>2 DEF TurnInv, adapter
    <3> QED BY <3>1, <3>2
  <2> QED BY <2>1, <2>4 DEF TurnInv
<1> QED BY <1>1, <1>2

LEMMA PromptedTurns ==
    ASSUME TurnInv, SessionTypes, BackendInv, NEW c \in Conns, NEW t \in Turns, Prompt(c, t)
    PROVE  TurnInv'
<1>1. /\ current = None /\ current' = t /\ preparing' \in {None, t} /\ ready /\ UNCHANGED adapter
      /\ preparing' = t => prepares
      /\ turns'[t].stage = IF prepares THEN "preparing" ELSE "upstream"
      /\ turns'[t].gen = instance /\ ~turns'[t].dropped
      /\ \A u \in Turns : u # t => turns'[u] = turns[u]
  BY DEF Prompt, Available, SessionTypes, PromptTypes, backend, Turns
<1>2. instance <= made /\ UNCHANGED <<instance, ready, made>>
  BY <1>1 DEF adapter, BackendInv, BackendTypeOK
<1>3. ASSUME NEW u \in Turns
      PROVE  /\ turns'[u].gen <= made'
             /\ turns'[u].stage = "upstream" => ~turns'[u].dropped
             /\ (/\ turns'[u].stage \in {"preparing", "upstream"} /\ ~turns'[u].dropped
                 /\ ready' /\ turns'[u].gen = instance') => current' = u
  <2>1. CASE u = t
    BY <1>1, <1>2, <2>1
  <2>2. CASE u # t
    <3>1. u # None
      BY DEF Turns
    <3> QED BY <1>1, <1>2, <2>2, <3>1 DEF TurnInv
  <2> QED BY <2>1, <2>2
<1> QED BY <1>1, <1>3 DEF TurnInv

LEMMA ForgottenTurns ==
    ASSUME TurnInv, SessionTypes, ForgetSessions
    PROVE  TurnInv'
<1>1. ready' = FALSE /\ UNCHANGED made
  BY DEF ForgetSessions, Dispose
<1>2. CASE ~reset.scoped
  <2>1. UNCHANGED <<turns, current, preparing>>
    BY <1>2 DEF ForgetSessions
  <2> QED BY <1>1, <2>1 DEF TurnInv
<1>3. CASE reset.scoped
  <2>1. /\ current' = None /\ preparing' = None
        /\ turns' = [t \in Turns |-> IF preparing = t THEN [turns[t] EXCEPT !.dropped = TRUE] ELSE turns[t]]
    BY <1>3 DEF ForgetSessions
  <2>2. ASSUME NEW t \in Turns
        PROVE  turns'[t].gen <= made' /\ (turns'[t].stage = "upstream" => ~turns'[t].dropped)
    <3>1. turns[t] \in Turn /\ turns[t].gen <= made
      BY DEF SessionTypes, PromptTypes, TurnInv
    <3>2. CASE preparing = t
      <4>1. turns'[t] = [turns[t] EXCEPT !.dropped = TRUE] /\ turns[t].stage = "preparing"
        BY <2>1, <3>2 DEF TurnInv, Turns
      <4> QED BY <1>1, <3>1, <4>1 DEF Turn
    <3>3. CASE preparing # t
      BY <1>1, <2>1, <3>1, <3>3 DEF TurnInv
    <3> QED BY <3>2, <3>3
  <2> QED BY <1>1, <2>1, <2>2 DEF TurnInv
<1> QED BY <1>2, <1>3

LEMMA TurnsKept ==
    ASSUME TurnInv, FlowInv, BackendInv, SessionTypes, [Next]_vars
    PROVE  TurnInv'
<1>0. BackendStep /\ turns \in [Turns -> Turn] /\ BackendTypeOK
  BY StepsOfBackend DEF SessionTypes, PromptTypes, BackendInv
<1>1. CASE \E c \in Conns : Cancel(c)
  BY <1>0, <1>1, CancelledTurns
<1>2. CASE \E c \in Conns : \E t \in Turns : Prompt(c, t)
  BY <1>2, PromptedTurns
<1>3. CASE ForgetSessions
  BY <1>3, ForgottenTurns
<1>4. ASSUME NEW t \in Turns, PrepEnds(t) PROVE TurnInv'
  <2>1. turns[t].stage = "preparing" /\ UNCHANGED adapter /\ preparing' = IF preparing = t THEN None ELSE preparing
    BY <1>4 DEF PrepEnds, backend
  <2>2. CASE ~turns[t].dropped /\ turns' = [turns EXCEPT ![t].stage = "upstream", ![t].conn = Nobody] /\ UNCHANGED current
    <3>1. /\ turns'[t].stage = "upstream" /\ turns'[t].gen = turns[t].gen /\ turns'[t].dropped = turns[t].dropped
          /\ \A u \in Turns : u # t => turns'[u] = turns[u]
      BY <1>0, <2>2 DEF Turn
    <3> QED BY <2>1, <2>2, <3>1, TurnGoesOn
  <2>3. CASE turns' = [turns EXCEPT ![t] = Over] /\ current' = IF current = t THEN None ELSE current
    BY <1>0, <2>1, <2>3, TurnEnds
  <2> QED BY <1>4, <2>2, <2>3 DEF PrepEnds
<1>5. ASSUME NEW t \in Turns, Answer(t) \/ Reject(t) PROVE TurnInv'
  <2>1. /\ turns[t].stage = "upstream" /\ UNCHANGED <<adapter, current, preparing>>
        /\ preparing # t \/ preparing = None
    BY <1>5 DEF Answer, Reject, backend, TurnInv
  <2>2. preparing' = IF preparing = t THEN None ELSE preparing
    BY <2>1
  <2>3. CASE turns' = [turns EXCEPT ![t] = Over] /\ current # t
    BY <1>0, <2>1, <2>2, <2>3, TurnEnds
  <2>4. CASE \/ turns' = [turns EXCEPT ![t].stage = "draining"]
             \/ turns' = [turns EXCEPT ![t].stage = "draining", ![t].failed = TRUE]
    <3>1. /\ turns'[t].stage = "draining" /\ turns'[t].gen = turns[t].gen /\ turns'[t].dropped = turns[t].dropped
          /\ \A u \in Turns : u # t => turns'[u] = turns[u]
      BY <1>0, <2>4 DEF Turn
    <3> QED BY <2>1, <2>2, <3>1, TurnGoesOn
  <2> QED BY <1>5, <2>3, <2>4 DEF Answer, Reject
<1>6. ASSUME NEW t \in Turns, turns[t].stage \in {"draining", "telling"}, Finish(t), UNCHANGED <<adapter, preparing>>
      PROVE  TurnInv'
  <2>1. preparing' = IF preparing = t THEN None ELSE preparing
    BY <1>6 DEF TurnInv
  <2> QED BY <1>0, <1>6, <2>1, TurnEnds DEF Finish
<1>7. ASSUME NEW t \in Turns, Resume(t) PROVE TurnInv'
  <2>1. turns[t].stage = "draining" /\ UNCHANGED <<adapter, preparing>>
    <3>1. chain \in Seq(Links) /\ chain # <<>> /\ Head(chain) = Mark(t)
      BY <1>7 DEF Resume, Due, SessionTypes, OutputTypes, Links
    <3>2. Head(chain) = chain[1] /\ 1 \in 1..Len(chain)
      BY <3>1, HeadTailProperties
    <3>3. PICK u \in Draining : Mark(u) = Mark(t)
      BY <3>1, <3>2, MarkFacts DEF FlowInv, ChainInv
    <3> QED BY <1>7, <3>3, MarkFacts DEF Draining, Resume, backend
  <2>2. CASE turns' = [turns EXCEPT ![t].stage = "telling"] /\ UNCHANGED current
    <3>1. /\ turns'[t].stage = "telling" /\ turns'[t].gen = turns[t].gen /\ turns'[t].dropped = turns[t].dropped
          /\ \A u \in Turns : u # t => turns'[u] = turns[u]
      BY <1>0, <2>2 DEF Turn
    <3>2. preparing' = IF preparing = t THEN None ELSE preparing
      BY <2>1 DEF TurnInv
    <3> QED BY <2>1, <2>2, <3>1, <3>2, TurnGoesOn
  <2> QED BY <1>6, <1>7, <2>1, <2>2 DEF Resume
<1>8. ASSUME NEW c \in Conns, Sent(c) \/ Failed(c) PROVE TurnInv'
  <2>1. UNCHANGED <<backend, adapter, preparing>>
    BY <1>8 DEF Sent, Failed, backend
  <2>2. CASE Head(wire[c]).for = "turn"
    <3>1. Finish(Head(wire[c]).frame.id)
      BY <1>8, <2>2 DEF Sent, Failed
    <3>2. Head(wire[c]) = wire[c][1] /\ 1 \in 1..Len(wire[c])
      BY <1>8, HeadTailProperties DEF Sent, Failed, SessionTypes, OutputTypes
    <3>3. PICK t \in Telling : Head(wire[c]).frame = End(t)
      BY <2>2, <3>2 DEF FlowInv, TurnSends
    <3> QED BY <1>6, <2>1, <3>1, <3>3 DEF End, Telling
  <2>3. CASE Head(wire[c]).for # "turn"
    <3>1. UNCHANGED <<turns, current>>
      BY <1>8, <2>3 DEF Sent, Failed
    <3> QED BY <1>0, <2>1, <3>1, TurnsRest
  <2> QED BY <2>2, <2>3
<1>9. CASE UNCHANGED <<turns, current, preparing>>
  BY <1>0, <1>9, TurnsRest
<1>10. \/ \E c \in Conns : Cancel(c) \/ Sent(c) \/ Failed(c) \/ \E t \in Turns : Prompt(c, t)
       \/ ForgetSessions \/ \E t \in Turns : PrepEnds(t) \/ Answer(t) \/ Reject(t) \/ Resume(t)
       \/ UNCHANGED <<turns, current, preparing>>
  BY DEF Next, Drains, Happens, SkipStale, HandleChunk, HandleAsk, Drop, Claim, Load, OpenStream, CloseStream,
     Respond, LoadEnds, Emit, EmitAsk, Expire, Crash, FailSessions, BackendOnly, prompts, vars
<1> QED BY <1>1, <1>2, <1>3, <1>4, <1>5, <1>7, <1>8, <1>9, <1>10

(***************************************************************************)
(* The theorems.                                                           *)
(***************************************************************************)

IInv == BackendInv /\ SessionTypes /\ AccessInv /\ FlowInv /\ TurnInv

LEMMA InitInv == Init => IInv
<1> SUFFICES ASSUME Init PROVE IInv
  OBVIOUS
<1>1. BackendInv
  <2>1. reset \in [stage : Stages, mine : BOOLEAN, scoped : BOOLEAN] /\ reset.stage = "none"
    BY DEF Init, BackendInit, NoReset, Stages
  <2>2. /\ instance = 1 /\ ready = TRUE /\ made = 1 /\ fenced = FALSE
        /\ attempts = 0 /\ timer = FALSE /\ launching = {} /\ settling = 0 /\ resets = 0
    BY DEF Init, BackendInit
  <2>3. ready /\ ~fenced /\ ready \in BOOLEAN /\ fenced \in BOOLEAN /\ timer \in BOOLEAN
    BY <2>2
  <2>4. BackendTypeOK
    BY <2>1, <2>2, <2>3 DEF BackendTypeOK, Gen
  <2> QED BY <2>1, <2>2, <2>3, <2>4 DEF BackendInv
<1>2. SessionTypes
  <2>1. NoTurn \in Turn /\ NoAsk \in Asked /\ NoLoad \in [conn : Conns \cup {Nobody}, gen : Gen, over : BOOLEAN]
    BY <1>1 DEF NoTurn, Turn, NoAsk, Asked, NoLoad, BackendInv, BackendTypeOK, Gen
  <2>2. wire \in [Conns -> Seq(Entries)] /\ replay \in [Conns -> Seq(Frames)]
    BY DEF Init
  <2>3. AccessTypes
    BY <2>1 DEF Init, AccessTypes
  <2>4. bound \in BOOLEAN /\ cancelled \in BOOLEAN
    BY DEF Init
  <2>5. PromptTypes /\ asks \in [Asks -> Asked]
    BY <2>1, <2>4 DEF Init, PromptTypes
  <2>6. OutputTypes
    BY <2>2 DEF Init, OutputTypes
  <2> QED BY <2>3, <2>5, <2>6 DEF SessionTypes
<1>3. AccessInv
  BY DEF Init, BackendInit, AccessInv, ScopesAreLive, NoAsk, NoLoad
<1>4. FlowInv
  <2>1. Draining = {} /\ Telling = {} /\ Len(chain) = 0 /\ \A c \in Conns : Len(wire[c]) = 0 /\ replay[c] = <<>>
    BY DEF Init, NoTurn, Draining, Telling
  <2> QED BY <2>1 DEF FlowInv, ChainInv, TurnSends, ChainSends, ReplaySends
<1>5. TurnInv
  BY DEF Init, BackendInit, TurnInv, NoTurn
<1> QED BY <1>1, <1>2, <1>3, <1>4, <1>5 DEF IInv

LEMMA StepInv == IInv /\ [Next]_vars => IInv'
<1> SUFFICES ASSUME IInv, [Next]_vars PROVE IInv'
  OBVIOUS
<1>1. BackendTypeOK /\ BackendStep /\ bound \in BOOLEAN /\ (Waiting => chain # <<>>)
  BY StepsOfBackend, ChainWaits DEF IInv, BackendInv, SessionTypes, AccessTypes, FlowInv
<1>2. BackendInv' /\ SessionTypes' /\ AccessInv'
  BY <1>1, BackendKept, TypesKept, AccessKept DEF IInv
<1>3. FlowInv' /\ TurnInv'
  BY <1>1, FlowKept, TurnsKept DEF IInv
<1> QED BY <1>2, <1>3 DEF IInv

(* The inductive invariant: backend, owners, sends and turns fit together. *)
THEOREM Invariance == Spec => []IInv
  BY InitInv, StepInv, PTL DEF Spec

(* AcpTypeOK: every variable keeps its type, a preparation belongs to the  *)
(* turn in progress, and only connections have streams.                    *)
THEOREM TypeCorrect == Spec => []AcpTypeOK
<1>1. IInv => AcpTypeOK
  BY DEF IInv, BackendInv, SessionTypes, AccessTypes, PromptTypes, OutputTypes, Asked, Entries, TurnInv, AcpTypeOK
<1> QED BY <1>1, Invariance, PTL

(* NeverParked: crash handlers, retries, launches and changes of settings  *)
(* between them never leave a backend down with nobody at work on it, but  *)
(* when a change of settings throws.                                       *)
THEOREM BackendNeverParked == Spec => NeverParked
<1>1. IInv /\ [Next]_vars => [Tended => Tended' \/ Throws]_backend
  BY StepsOfBackend, BackendStaysTended DEF IInv, BackendInv
<1> QED BY <1>1, Invariance, PTL DEF Spec, NeverParked

(* ScopesAreLive: the owner of a session is connected, and an approval is  *)
(* pending only for the owner.                                             *)
THEOREM OwnersAreLive == Spec => []ScopesAreLive
<1>1. IInv => ScopesAreLive
  BY DEF IInv, AccessInv
<1> QED BY <1>1, Invariance, PTL

(* OneTurn: an adapter never runs two turns of the session at once.        *)
THEOREM AdapterRunsOneTurn == Spec => []OneTurn
<1>1. IInv => OneTurn
  BY DEF IInv, TurnInv, OneTurn
<1> QED BY <1>1, Invariance, PTL

(* NothingStuck: what the gateway awaits is on its way, in the chain, on a *)
(* connection or in a replay, exactly once.                                *)
LEMMA FlowIsLive == FlowInv /\ TurnInv /\ SessionTypes => NothingStuck
<1> SUFFICES ASSUME FlowInv, TurnInv, SessionTypes PROVE NothingStuck
  OBVIOUS
<1>0. DOMAIN chain = 1..Len(chain) /\ \A c \in Conns : DOMAIN wire[c] = 1..Len(wire[c])
  BY DEF SessionTypes, OutputTypes
<1>1. \A what : \A f : f \in SendsFor(what) <=>
        \E c \in Conns : \E i \in 1..Len(wire[c]) : wire[c][i].for = what /\ wire[c][i].frame = f
  BY <1>0 DEF SendsFor
<1>2. \A f \in SendsFor("chain") : chain # <<>> /\ Head(chain).frame = f
  BY <1>1 DEF FlowInv, ChainSends
<1>3. ASSUME NEW t \in Turns
      PROVE  turns[t].stage = "draining" <=> \E i \in DOMAIN chain : chain[i] = Mark(t)
  <2>1. turns[t].stage = "draining" => \E i \in 1..Len(chain) : chain[i] = Mark(t)
    BY DEF FlowInv, ChainInv, Draining
  <2>2. ASSUME NEW i \in 1..Len(chain), chain[i] = Mark(t) PROVE turns[t].stage = "draining"
    BY <2>2, MarkFacts DEF FlowInv, ChainInv, Draining
  <2> QED BY <1>0, <2>1, <2>2
<1>4. ASSUME NEW t \in Turns
      PROVE  turns[t].stage = "telling" <=> End(t) \in SendsFor("turn")
  <2>1. turns[t].stage = "telling" => End(t) \in SendsFor("turn")
    BY <1>1 DEF FlowInv, TurnSends, Telling
  <2>2. ASSUME End(t) \in SendsFor("turn") PROVE turns[t].stage = "telling"
    BY <1>1, <2>2, MarkFacts DEF FlowInv, TurnSends, Telling
  <2> QED BY <2>1, <2>2
<1>5. (\A c \in Conns : replay[c] # <<>> => Replaying(c))
      /\ (current # None => turns[current].stage \notin {"none", "over"})
  BY DEF FlowInv, ReplaySends, TurnInv
<1> QED BY <1>2, <1>3, <1>4, <1>5 DEF NothingStuck

(* NothingStuck: whatever the chain, a turn or a replay waits for is still *)
(* under way, so that none of them waits for ever.                        *)
THEOREM AwaitedIsUnderWay == Spec => []NothingStuck
<1>1. IInv => NothingStuck
  BY FlowIsLive DEF IInv
<1> QED BY <1>1, Invariance, PTL

(***************************************************************************)
(* The streams.  An adapter speaks of a session that has a backend, and a  *)
(* session loses its backend only behind a fence, which stands until the   *)
(* adapter is gone.                                                        *)
(***************************************************************************)

Unfenced == reset.stage = "disposing" /\ ~reset.mine => ~fenced

Spoken ==
    \A i \in 1..Len(chain) : chain[i].frame.kind = "chunk" =>
        /\ chain[i].gen \in Nat \ {0} /\ chain[i].gen <= made
        /\ chain[i].gen = instance => bound \/ fenced

Scoped == reset.stage = "failing" /\ reset.scoped => bound

CalmInv == Unfenced /\ Spoken /\ Scoped

(* The fence is lifted when its adapter is gone; adapters are new.         *)
LEMMA FenceHolds ==
    ASSUME BackendInv, Unfenced, BackendStep, bound \in BOOLEAN
    PROVE  /\ Unfenced' /\ made \in Nat /\ made' \in Nat /\ made' >= made
           /\ instance' \in {None, instance} \/ instance' > made
           /\ instance' # None => (fenced => fenced')
<1> USE DEF BackendInv, BackendTypeOK, Unfenced, Gen, adapter, retries, None
<1>1. CASE AdapterDies \/ LaunchSucceeds \/ UNCHANGED backend
  BY <1>1 DEF AdapterDies, LaunchSucceeds, backend
<1>2. CASE RetryTimer \/ Started \/ \E flag \in BOOLEAN : Settle(flag)
  <2>1. UNCHANGED <<instance, made, fenced>> /\ (reset' = reset \/ reset' = NoReset)
    BY <1>2 DEF RetryTimer, Started, Settle
  <2> QED BY <2>1 DEF NoReset
<1>3. ASSUME NEW flag \in BOOLEAN, LaunchFails(flag) \/ CleanupFails(flag)
      PROVE  /\ UNCHANGED <<made, fenced>> /\ instance' \in {None, instance}
             /\ reset' = reset \/ reset' = NoReset
  BY <1>3 DEF LaunchFails, CleanupFails
<1>4. CASE CleanupDone
  BY <1>4 DEF CleanupDone
<1>5. CASE StopsLaunches(bound) \/ Dispose
  <2>1. UNCHANGED <<instance, made, fenced>> /\ reset.mine /\ reset'.mine
    BY <1>5 DEF StopsLaunches, Dispose
  <2> QED BY <2>1
<1>6. ASSUME NEW flag \in BOOLEAN, Reconfigure(flag)
      PROVE  /\ UNCHANGED <<instance, made>> /\ (fenced => fenced')
             /\ reset'.mine = fenced'
  BY <1>6 DEF Reconfigure
<1>7. CASE \E flag \in BOOLEAN : LaunchFails(flag) \/ CleanupFails(flag)
  BY <1>3, <1>7 DEF NoReset
<1>8. CASE \E flag \in BOOLEAN : Reconfigure(flag)
  BY <1>6, <1>8
<1> QED BY <1>1, <1>2, <1>4, <1>5, <1>7, <1>8 DEF BackendStep

(* Where a step takes the chain. *)
ChainGrew ==
    \/ chain' = chain
    \/ \E x \in Links :
        /\ chain' = Append(chain, x)
        /\ x.frame.kind = "chunk" => bound /\ x.gen = instance /\ instance # None

LEMMA ChainGrowth ==
    ASSUME SessionTypes, BackendTypeOK,
           \/ Emit
           \/ \E t \in Turns : Answer(t) \/ Reject(t)
           \/ \E r \in Asks : EmitAsk(r)
    PROVE  ChainGrew
<1>1. ASSUME NEW t \in Turns, Answer(t) \/ Reject(t) PROVE ChainGrew
  <2>1. chain' = chain \/ chain' = Append(chain, Mark(t))
    BY <1>1 DEF Answer, Reject
  <2>2. Mark(t) \in Links /\ Mark(t).frame.kind = "end"
    BY FrameTypes, MarkFacts DEF Turns, Links
  <2> QED BY <2>1, <2>2 DEF ChainGrew
<1>2. ASSUME \/ Emit
             \/ \E r \in Asks : EmitAsk(r)
      PROVE  ChainGrew
  <2>1. PICK f \in Frames : chain' = Append(chain, [frame |-> f, gen |-> instance])
    <3>1. CASE Emit
      <4>1. Chunk(emitted + 1) \in Frames
        BY <3>1, FrameTypes DEF SessionTypes, OutputTypes
      <4> QED BY <3>1, <4>1 DEF Emit
    <3>2. ASSUME NEW r \in Asks, EmitAsk(r)
          PROVE  \E f \in Frames : chain' = Append(chain, [frame |-> f, gen |-> instance])
      <4>1. Ask(r) \in Frames
        BY FrameTypes DEF Asks
      <4> QED BY <3>2, <4>1 DEF EmitAsk
    <3> QED BY <1>2, <3>1, <3>2
  <2>2. [frame |-> f, gen |-> instance] \in Links /\ bound /\ instance # None
    BY <1>2 DEF Links, BackendTypeOK, Emit, EmitAsk
  <2> QED BY <2>1, <2>2 DEF ChainGrew
<1> QED BY <1>1, <1>2

ChainMove == ChainGrew \/ (chain # <<>> /\ chain' = Tail(chain))

LEMMA ChainMoves ==
    ASSUME SessionTypes, FlowInv, BackendTypeOK, [Next]_vars
    PROVE  ChainMove
<1>1. CASE SkipStale \/ HandleChunk \/ HandleAsk \/ \E t \in Turns : Resume(t)
  BY <1>1 DEF SkipStale, HandleChunk, HandleAsk, Resume, Due, ChainMove, ChainGrew
<1>2. ASSUME NEW c \in Conns, Sent(c) \/ Failed(c) PROVE ChainMove
  <2>1. Head(wire[c]).for = "chain" => chain # <<>>
    BY <1>2, ChainTail, ChainWaits DEF Sent, Failed, SessionTypes, FlowInv
  <2> QED BY <1>2, <2>1 DEF Sent, Failed, ChainMove, ChainGrew
<1>3. CASE \/ Emit
           \/ \E t \in Turns : Answer(t) \/ Reject(t)
           \/ \E r \in Asks : EmitAsk(r)
  BY <1>3, ChainGrowth DEF ChainMove
<1>4. \/ SkipStale \/ HandleChunk \/ HandleAsk \/ Emit
      \/ \E t \in Turns : Resume(t) \/ Answer(t) \/ Reject(t)
      \/ \E c \in Conns : Sent(c) \/ Failed(c)
      \/ \E r \in Asks : EmitAsk(r)
      \/ UNCHANGED chain
  BY DEF Next, Drains, Happens, Drop, Claim, Load, OpenStream, CloseStream, Cancel, Prompt, PrepEnds,
     Respond, LoadEnds, Expire, Crash, FailSessions, ForgetSessions, BackendOnly, output, vars
<1> QED BY <1>1, <1>2, <1>3, <1>4 DEF ChainMove, ChainGrew

(* A session loses its backend only when the settings change. *)
LEMMA BoundKept ==
    ASSUME SessionTypes, [Next]_vars, bound
    PROVE  bound' \/ (ForgetSessions /\ reset.scoped)
<1>1. bound' = bound \/ bound' = TRUE \/ (ForgetSessions /\ reset.scoped)
  BY DEF Next, Drains, Happens, BackendOnly, Crash, FailSessions, ForgetSessions, vars, access,
     SkipStale, HandleChunk, HandleAsk, Resume, Drop, Claim, Load, LoadEnds, OpenStream, CloseStream, Prompt,
     PrepEnds, Cancel, Answer, Reject, Emit, EmitAsk, Sent, Failed, Respond, Expire
<1> QED BY <1>1

LEMMA CalmKept ==
    ASSUME IInv, CalmInv, [Next]_vars
    PROVE  CalmInv'
<1>0. BackendStep /\ BackendInv /\ SessionTypes /\ FlowInv /\ BackendTypeOK /\ bound \in BOOLEAN
  BY StepsOfBackend DEF IInv, BackendInv, SessionTypes, AccessTypes
<1>1. /\ Unfenced' /\ made \in Nat /\ made' \in Nat /\ made' >= made
      /\ instance' \in {None, instance} \/ instance' > made
      /\ instance' # None => (fenced => fenced')
  BY <1>0, FenceHolds DEF CalmInv
<1>2. bound => bound' \/ fenced'
  <2>1. ForgetSessions => fenced'
    BY <1>0 DEF ForgetSessions, Dispose, BackendInv
  <2> QED BY <1>0, <2>1, BoundKept
<1>3. Spoken'
  <2> SUFFICES ASSUME NEW i \in 1..Len(chain'), chain'[i].frame.kind = "chunk"
               PROVE  /\ chain'[i].gen \in Nat \ {0} /\ chain'[i].gen <= made'
                      /\ chain'[i].gen = instance' => bound' \/ fenced'
    BY DEF Spoken
  <2>1. chain \in Seq(Links)
    BY <1>0 DEF SessionTypes, OutputTypes, Links
  <2>2. \/ \E k \in 1..Len(chain) : chain[k] = chain'[i]
        \/ bound /\ chain'[i].gen = instance /\ instance # None
    <3>1. CASE chain' = chain
      BY <3>1
    <3>2. CASE chain # <<>> /\ chain' = Tail(chain)
      BY <2>1, <3>2, HeadTailProperties
    <3>3. ASSUME NEW x \in Links, chain' = Append(chain, x),
                 x.frame.kind = "chunk" => bound /\ x.gen = instance /\ instance # None
          PROVE  \/ \E k \in 1..Len(chain) : chain[k] = chain'[i]
                 \/ bound /\ chain'[i].gen = instance /\ instance # None
      <4>1. /\ Len(chain) \in Nat /\ Len(chain') = Len(chain) + 1 /\ chain'[Len(chain) + 1] = x
            /\ \A k \in 1..Len(chain) : chain'[k] = chain[k]
        BY <2>1, <3>3, AppendProperties
      <4> QED BY <3>3, <4>1
    <3> QED BY <1>0, <3>1, <3>2, <3>3, ChainMoves DEF ChainMove, ChainGrew
  <2> DEFINE g == chain'[i].gen
  <2>3. g \in Nat \ {0} /\ g <= made /\ (g = instance => bound \/ fenced)
    <3>1. instance \in Nat /\ instance <= made
      BY <1>0 DEF BackendTypeOK, Gen
    <3> QED BY <2>2, <3>1 DEF CalmInv, Spoken
  <2> HIDE DEF g
  <2>4. g = instance' => g = instance /\ instance' # None
    BY <1>1, <2>3
  <2>5. g <= made'
    BY <1>1, <2>3
  <2>6. g = instance' => bound' \/ fenced'
    BY <1>1, <1>2, <2>3, <2>4
  <2> QED BY <2>3, <2>5, <2>6 DEF g
<1>4. Scoped'
  <2>1. CASE UNCHANGED reset
    <3>1. ~ForgetSessions
      <4>1. ASSUME ForgetSessions PROVE reset.stage = "failing" /\ reset'.stage = "disposing"
        BY <1>0, <4>1 DEF ForgetSessions, Dispose, BackendTypeOK
      <4> QED BY <2>1, <4>1
    <3>2. bound => bound'
      BY <1>0, <3>1, BoundKept
    <3> QED BY <2>1, <3>2 DEF CalmInv, Scoped
  <2>2. CASE FailSessions
    BY <2>2 DEF FailSessions, StopsLaunches, Scoped, access
  <2>3. CASE ~UNCHANGED reset /\ ~FailSessions
    <3>1. reset'.stage # "failing"
      <4>1. \/ Dispose \/ CleanupDone \/ Started
            \/ \E flag \in BOOLEAN : CleanupFails(flag) \/ Reconfigure(flag)
        BY <2>3 DEF Next, Drains, Happens, BackendOnly, Crash, ForgetSessions, vars, backend, SkipStale,
           HandleChunk, HandleAsk, Resume, Drop, Claim, Load, LoadEnds, OpenStream, CloseStream, Prompt,
           PrepEnds, Cancel, Answer, Reject, Emit, EmitAsk, Sent, Failed, Respond, Expire,
           AdapterDies, RetryTimer, LaunchSucceeds, Settle, LaunchFails
      <4> QED BY <1>0, <4>1 DEF Dispose, CleanupDone, Started, CleanupFails, Reconfigure, NoReset, BackendTypeOK
    <3> QED BY <3>1 DEF Scoped
  <2> QED BY <2>1, <2>2, <2>3
<1> QED BY <1>1, <1>2, <1>3, <1>4 DEF CalmInv

LEMMA CalmAtFirst == Init => CalmInv
  BY DEF Init, BackendInit, NoReset, CalmInv, Unfenced, Spoken, Scoped

(* Something is still to be expected on the stream of a connection. *)
Alive(c) == Served \/ current # None \/ Replaying(c)

LEMMA AliveRests ==
    ASSUME NEW c, Alive(c), UNCHANGED <<ready, fenced, bound, current>>, Replaying(c) => Replaying(c)'
    PROVE  Alive(c)'
  BY DEF Alive, Served, Available

LEMMA ReplayStays ==
    ASSUME NEW c, NEW d, NEW shift, Stay("replay", d, shift), c \in Conns, Replaying(c)
    PROVE  Replaying(c)'
  BY DEF Replaying, Stay

(* The turn that ends was the one in progress, or takes no stream along. *)
LEMMA FinishedStreams ==
    ASSUME BackendTypeOK, NEW t \in Turns, Finish(t), UNCHANGED <<ready, fenced, bound>>,
           NEW c \in streams', Alive(c), Replaying(c) => Replaying(c)'
    PROVE  c \in streams /\ Alive(c)'
<1>1. CASE current = t
  <2>1. Served /\ streams' = streams
    BY <1>1 DEF Finish
  <2> QED BY <2>1 DEF Alive, Served, Available
<1>2. CASE current # t
  <2>1. current' = current /\ streams' = streams
    BY <1>2 DEF Finish
  <2> QED BY <2>1, AliveRests
<1> QED BY <1>1, <1>2

LEMMA StillReplays ==
    ASSUME OutputTypes, NEW c \in Conns, wire[c] # <<>>, Head(wire[c]).for = "replay", NEW frame \in Frames,
           wire' = [wire EXCEPT ![c] = Append(Tail(@), [for |-> "replay", frame |-> frame])]
    PROVE  Replaying(c)'
<1>1. Stay("turn", c, 1) /\ Replaying(c)'
  BY NextStays
<1> QED BY <1>1

LEMMA SentStreams ==
    ASSUME SessionTypes, BackendTypeOK, FlowInv, NEW c \in Conns, Sent(c), NEW d \in streams', d \in streams => Alive(d)
    PROVE  Alive(d)'
<1>0. /\ wire[c] # <<>> /\ OutputTypes /\ TurnSends /\ streams \subseteq Conns
      /\ UNCHANGED <<ready, fenced, bound>>
  BY DEF Sent, SessionTypes, AccessTypes, FlowInv, access, backend, adapter
<1>1. \A b \in Conns : b # c => wire'[b] = wire[b]
  BY <1>0 DEF Sent, Taken, OutputTypes
<1>2. CASE Head(wire[c]).for = "chain"
  <2>1. wire' = Taken(c) /\ UNCHANGED <<streams, current>>
    BY <1>2 DEF Sent
  <2>2. Stay("replay", c, 1)
    BY <1>0, <1>2, <2>1, TakenStays
  <2> QED BY <1>0, <2>1, <2>2, ReplayStays, AliveRests
<1>3. CASE Head(wire[c]).for = "turn"
  <2>1. wire' = Taken(c) /\ Finish(Head(wire[c]).frame.id)
    BY <1>3 DEF Sent
  <2>2. Stay("replay", c, 1)
    BY <1>0, <1>3, <2>1, TakenStays
  <2>3. PICK t \in Turns : Head(wire[c]).frame = End(t)
    <3>1. 1 \in 1..Len(wire[c]) /\ Head(wire[c]) = wire[c][1]
      BY <1>0, HeadTailProperties DEF OutputTypes
    <3> QED BY <1>0, <1>3, <3>1 DEF TurnSends, Telling
  <2>4. Finish(t)
    BY <2>1, <2>3 DEF End
  <2>5. d \in streams
    BY <2>4 DEF Finish
  <2> QED BY <1>0, <2>2, <2>4, <2>5, ReplayStays, FinishedStreams
<1>4. CASE Head(wire[c]).for = "replay" /\ replay[c] # <<>>
  <2>1. /\ wire' = [wire EXCEPT ![c] = Append(Tail(@), [for |-> "replay", frame |-> Head(replay[c])])]
        /\ UNCHANGED <<streams, current>>
    BY <1>4 DEF Sent
  <2>2. Head(replay[c]) \in Frames
    BY <1>0, <1>4, HeadTailProperties DEF OutputTypes
  <2>3. Replaying(c)'
    BY <1>0, <1>4, <2>1, <2>2, StillReplays
  <2>4. Replaying(d) => Replaying(d)'
    BY <1>0, <1>1, <2>1, <2>3 DEF Replaying
  <2> QED BY <1>0, <2>1, <2>4, AliveRests
<1>5. CASE Head(wire[c]).for = "replay" /\ replay[c] = <<>>
  <2>1. streams' = (IF Served \/ current # None THEN streams ELSE streams \ {c}) /\ UNCHANGED current
    BY <1>5 DEF Sent
  <2>2. CASE Served \/ current # None
    BY <1>0, <2>1, <2>2 DEF Alive, Served, Available
  <2>3. CASE ~(Served \/ current # None)
    <3>1. d \in streams /\ d # c
      BY <2>1, <2>3
    <3> QED BY <1>0, <1>1, <2>3, <3>1 DEF Alive, Replaying
  <2> QED BY <2>2, <2>3
<1> QED BY <1>2, <1>3, <1>4, <1>5 DEF Sent

(* A stream is of a connection that is there: its sends do not fail. *)
LEMMA FailedStreams ==
    ASSUME SessionTypes, BackendTypeOK, FlowInv, NEW c \in Conns, Failed(c), NEW d \in streams',
           d \in streams => Alive(d)
    PROVE  Alive(d)'
<1>0. /\ wire[c] # <<>> /\ OutputTypes /\ TurnSends /\ streams \subseteq up /\ up \subseteq Conns /\ c \notin up
      /\ UNCHANGED <<ready, fenced, bound>> /\ wire' = Taken(c)
  BY DEF Failed, SessionTypes, AccessTypes, FlowInv, access, backend, adapter
<1>1. \A b \in Conns : b # c => wire'[b] = wire[b]
  BY <1>0 DEF Taken, OutputTypes
<1>2. d \in streams => (Replaying(d) => Replaying(d)')
  BY <1>0, <1>1 DEF Replaying
<1>3. CASE Head(wire[c]).for # "turn"
  <2>1. UNCHANGED <<streams, current>>
    BY <1>3 DEF Failed
  <2> QED BY <1>0, <1>2, <2>1, AliveRests
<1>4. CASE Head(wire[c]).for = "turn"
  <2>1. Finish(Head(wire[c]).frame.id)
    BY <1>4 DEF Failed
  <2>2. PICK t \in Turns : Head(wire[c]).frame = End(t)
    <3>1. 1 \in 1..Len(wire[c]) /\ Head(wire[c]) = wire[c][1]
      BY <1>0, HeadTailProperties DEF OutputTypes
    <3> QED BY <1>0, <1>4, <3>1 DEF TurnSends, Telling
  <2>3. Finish(t)
    BY <2>1, <2>2 DEF End
  <2>4. d \in streams
    BY <2>3 DEF Finish
  <2> QED BY <1>0, <1>2, <2>3, <2>4, FinishedStreams
<1> QED BY <1>3, <1>4

LEMMA HandledStreams ==
    ASSUME SessionTypes, FlowInv, CalmInv, ~fenced, SkipStale \/ HandleChunk \/ HandleAsk,
           NEW d \in streams', Alive(d), d \in Conns
    PROVE  Alive(d)'
<1>0. UNCHANGED <<ready, fenced, current, owner>> /\ OutputTypes /\ chain # <<>>
  BY DEF SkipStale, HandleChunk, HandleAsk, access, prompts, backend, adapter, SessionTypes, Due
<1>1. bound' = bound
  <2>1. CASE HandleChunk
    <3>1. 1 \in 1..Len(chain) /\ Head(chain) = chain[1]
      BY <1>0, HeadTailProperties DEF OutputTypes
    <3>2. bound /\ bound' = TRUE
      BY <2>1, <3>1 DEF HandleChunk, CalmInv, Spoken
    <3> QED BY <3>2
  <2>2. CASE SkipStale \/ HandleAsk
    BY <2>2 DEF SkipStale, HandleAsk, access
  <2> QED BY <2>1, <2>2
<1>2. Replaying(d) => Replaying(d)'
  <2>1. CASE UNCHANGED wire
    BY <2>1 DEF Replaying
  <2>2. CASE owner \in Conns /\ \E f \in Frames : Send(owner, "chain", f)
    <3> PICK f \in Frames : Send(owner, "chain", f)
      BY <2>2
    <3>1. [for |-> "chain", frame |-> f] \in Entries
      BY DEF Entries
    <3>2. Stay("replay", owner, 0)
      BY <1>0, <2>2, <3>1, SendStays
    <3> QED BY <3>2, ReplayStays
  <2>3. Head(chain).frame \in Frames /\ (HandleAsk => Ask(Head(chain).frame.id) \in Frames)
    <3>1. Head(chain).frame \in Frames
      BY <1>0, HeadTypes
    <3> QED BY <3>1 DEF Frames, Ask
  <2>4. owner # Nobody => owner \in Conns
    BY DEF SessionTypes, AccessTypes
  <2> QED BY <2>1, <2>2, <2>3, <2>4 DEF SkipStale, HandleChunk, HandleAsk
<1> QED BY <1>0, <1>1, <1>2, AliveRests

LEMMA ResumedStreams ==
    ASSUME SessionTypes, BackendTypeOK, NEW t \in Turns, Resume(t), NEW d \in streams', d \in streams => Alive(d)
    PROVE  Alive(d)'
<1>0. UNCHANGED <<ready, fenced, bound>> /\ OutputTypes /\ streams \subseteq Conns /\ End(t) \in Frames
  BY FrameTypes DEF Resume, access, backend, adapter, SessionTypes, AccessTypes, Turns
<1>1. CASE StillToTell(t) /\ owner # Nobody
  <2>1. Send(owner, "turn", End(t)) /\ UNCHANGED <<current, streams>> /\ owner \in Conns
    BY <1>1 DEF Resume, SessionTypes, AccessTypes
  <2>2. [for |-> "turn", frame |-> End(t)] \in Entries
    BY <1>0 DEF Entries
  <2>3. Stay("replay", owner, 0)
    BY <1>0, <2>1, <2>2, SendStays
  <2> QED BY <1>0, <2>1, <2>3, ReplayStays, AliveRests
<1>2. CASE ~(StillToTell(t) /\ owner # Nobody)
  <2>1. Finish(t) /\ UNCHANGED wire
    BY <1>2 DEF Resume
  <2>2. d \in streams /\ (Replaying(d) => Replaying(d)')
    BY <2>1 DEF Finish, Replaying
  <2> QED BY <1>0, <2>1, <2>2, FinishedStreams
<1> QED BY <1>1, <1>2

LEMMA OpenedStreams ==
    ASSUME SessionTypes, NEW c \in Conns, OpenStream(c), NEW d \in streams', d \in streams => Alive(d)
    PROVE  Alive(d)'
<1>0. UNCHANGED <<ready, fenced, bound, current>> /\ OutputTypes /\ streams \subseteq Conns
  BY DEF OpenStream, prompts, backend, adapter, SessionTypes, AccessTypes
<1>1. CASE buffer = <<>>
  <2>1. UNCHANGED wire /\ (d \in streams \/ Served \/ current # None)
    BY <1>1 DEF OpenStream
  <2>2. Alive(d)
    BY <2>1 DEF Alive
  <2> QED BY <1>0, <2>1, <2>2, AliveRests DEF Replaying
<1>2. CASE buffer # <<>>
  <2>1. Send(c, "replay", Head(buffer)) /\ streams' = streams \cup {c}
    BY <1>2 DEF OpenStream
  <2> DEFINE e == [for |-> "replay", frame |-> Head(buffer)]
  <2>2. e \in Entries /\ e.for = "replay"
    BY <1>0, <1>2, HeadTailProperties DEF Entries, OutputTypes
  <2>3. /\ Len(wire[c]) \in Nat /\ Len(wire'[c]) = Len(wire[c]) + 1
        /\ wire'[c][Len(wire[c]) + 1] = e
        /\ \A b \in Conns : b # c => wire'[b] = wire[b]
    BY <1>0, <2>1, <2>2, SendFacts
  <2> HIDE DEF e
  <2>4. CASE d = c
    BY <2>2, <2>3, <2>4 DEF Alive, Replaying
  <2>5. CASE d # c
    <3>1. d \in streams /\ wire'[d] = wire[d]
      BY <1>0, <2>1, <2>3, <2>5
    <3> QED BY <1>0, <3>1, AliveRests DEF Replaying
  <2> QED BY <2>4, <2>5
<1> QED BY <1>1, <1>2

(* The fence is up, or the turn in progress is being prepared. *)
Excused == fenced' \/ (current # None /\ turns[current].stage = "preparing")

LEMMA StreamsKept ==
    ASSUME IInv, CalmInv, ~DeadStream, [Next]_vars, ~Excused, NEW d \in streams'
    PROVE  Alive(d)'
<1>0. /\ SessionTypes /\ FlowInv /\ BackendTypeOK /\ BackendInv /\ BackendStep
      /\ ~fenced' /\ (current # None => turns[current].stage # "preparing")
      /\ preparing \in {None, current} /\ (preparing # None => turns[preparing].stage = "preparing")
      /\ bound \in BOOLEAN
  BY StepsOfBackend DEF IInv, BackendInv, TurnInv, Excused, SessionTypes, AccessTypes
<1>a. preparing = None
  BY <1>0
<1>1. d \in streams => Alive(d)
  BY DEF DeadStream, Alive
<1>2. streams \subseteq Conns
  BY <1>0 DEF SessionTypes, AccessTypes
<1>3. CASE UNCHANGED <<ready, fenced, bound, current, wire>> /\ streams' \subseteq streams
  BY <1>1, <1>3, AliveRests DEF Replaying
<1>4. CASE \E c \in Conns : Load(c) \/ \E t \in Turns : Prompt(c, t)
  <2>1. PICK c \in Conns : Load(c) \/ \E t \in Turns : Prompt(c, t)
    BY <1>4
  <2>2. Available /\ UNCHANGED <<ready, fenced>>
    BY <2>1 DEF Load, Prompt, backend, adapter
  <2> QED BY <2>2 DEF Alive, Served, Available
<1>5. CASE LoadEnds
  <2>1. UNCHANGED <<ready, fenced, current, wire, streams>> /\ (bound' = bound \/ Available)
    BY <1>5 DEF LoadEnds, InScope, backend, adapter, prompts, output
  <2>2. CASE bound' = bound
    BY <1>1, <2>1, <2>2, AliveRests DEF Replaying
  <2>3. CASE Available
    BY <2>1, <2>3 DEF Alive, Served, Available
  <2> QED BY <2>1, <2>2, <2>3
<1>6. ASSUME NEW c \in Conns, OpenStream(c) \/ Sent(c) \/ Failed(c) PROVE Alive(d)'
  BY <1>0, <1>1, <1>6, OpenedStreams, SentStreams, FailedStreams
<1>7. CASE SkipStale \/ HandleChunk \/ HandleAsk
  <2>1. d \in streams /\ ~fenced
    BY <1>0, <1>7 DEF SkipStale, HandleChunk, HandleAsk, backend
  <2> QED BY <1>0, <1>1, <1>2, <1>7, <2>1, HandledStreams
<1>8. ASSUME NEW t \in Turns, Resume(t) PROVE Alive(d)'
  BY <1>0, <1>1, <1>8, ResumedStreams
<1>9. ASSUME NEW t \in Turns, PrepEnds(t) PROVE UNCHANGED <<ready, fenced, bound, current, wire, streams>>
  <2>1. turns[t].stage = "preparing" /\ (current' = current \/ current = t)
    BY <1>9 DEF PrepEnds
  <2>2. current' = current
    BY <1>0, <2>1 DEF Turns
  <2> QED BY <1>9, <2>2 DEF PrepEnds, backend, adapter, access, output
<1>10. CASE Crash
  <2>1. ~(bound /\ current = None) /\ UNCHANGED <<current, bound>>
    BY <1>10 DEF Crash, access, prompts
  <2> QED BY <2>1 DEF Alive, Served
<1>11. CASE BackendOnly
  <2>1. UNCHANGED <<streams, current, bound, wire>>
    BY <1>11 DEF BackendOnly, access, prompts, output
  <2>2. CASE LaunchSucceeds
    <3>1. ready' = TRUE /\ fenced' = FALSE
      BY <1>0, <2>2 DEF LaunchSucceeds, BackendTypeOK
    <3> QED BY <3>1 DEF Alive, Served, Available
  <2>3. CASE RetryTimer \/ \E flag \in BOOLEAN : Settle(flag) \/ LaunchFails(flag)
    <3>1. UNCHANGED <<ready, fenced>>
      BY <2>3 DEF RetryTimer, Settle, LaunchFails, adapter
    <3> QED BY <1>1, <2>1, <3>1, AliveRests DEF Replaying
  <2>4. CASE \/ CleanupDone \/ Started
             \/ \E flag \in BOOLEAN : CleanupFails(flag) \/ Reconfigure(flag)
    <3>1. ready' = ready
      BY <2>4 DEF CleanupDone, Started, CleanupFails, Reconfigure, adapter
    <3>2. Available => Available'
      BY <1>0, <3>1 DEF Available
    <3> QED BY <1>1, <2>1, <3>2 DEF Alive, Served, Replaying
  <2> QED BY <1>11, <2>2, <2>3, <2>4 DEF BackendOnly
<1>12. ~FailSessions /\ ~ForgetSessions
  BY <1>0 DEF FailSessions, ForgetSessions, StopsLaunches, Dispose, BackendInv
<1>13. \/ UNCHANGED <<ready, fenced, bound, current, wire>> /\ streams' \subseteq streams
       \/ \E c \in Conns : Load(c) \/ OpenStream(c) \/ Sent(c) \/ Failed(c) \/ \E t \in Turns : Prompt(c, t)
       \/ LoadEnds \/ SkipStale \/ HandleChunk \/ HandleAsk \/ Crash \/ BackendOnly
       \/ \E t \in Turns : Resume(t)
  <2>1. ASSUME NEW c \in Conns, Cancel(c) PROVE UNCHANGED <<ready, fenced, bound, current, wire, streams>>
    BY <1>a, <2>1 DEF Cancel, backend, adapter, output
  <2>2. ASSUME NEW c \in Conns, Drop(c) \/ Claim(c) \/ CloseStream(c) \/ \E r \in Asks : Respond(c, r)
        PROVE  UNCHANGED <<ready, fenced, bound, current, wire>> /\ streams' \subseteq streams
    BY <2>2 DEF Drop, Claim, CloseStream, Respond, backend, adapter, output, access, prompts
  <2>3. CASE \/ Emit \/ UNCHANGED vars
             \/ \E t \in Turns : Answer(t) \/ Reject(t)
             \/ \E r \in Asks : EmitAsk(r) \/ Expire(r)
    BY <2>3 DEF Emit, Answer, Reject, EmitAsk, Expire, backend, adapter, output, access, prompts, vars
  <2> QED BY <1>9, <1>12, <2>1, <2>2, <2>3 DEF Next, Drains, Happens
<1> QED BY <1>3, <1>4, <1>5, <1>6, <1>7, <1>8, <1>10, <1>11, <1>13

(* NoDeadStream: no step leaves a client listening on a stream of a        *)
(* session that has neither an adapter nor an end to tell, but a change of *)
(* settings and the end of a preparation.                                  *)
THEOREM StreamsAreAlive == Spec => NoDeadStream
<1> DEFINE Inv  == IInv /\ CalmInv
           Lives == DeadStream' =>
                       \/ DeadStream \/ fenced'
                       \/ current # None /\ turns[current].stage = "preparing"
<1>1. Init => Inv
  BY InitInv, CalmAtFirst
<1>2. Inv /\ [Next]_vars => Inv'
  BY StepInv, CalmKept
<1>3. Inv /\ [Next]_vars => [Lives]_vars
  <2> SUFFICES ASSUME IInv, CalmInv, [Next]_vars, ~DeadStream, ~Excused PROVE ~DeadStream'
    BY DEF Excused
  <2>1. \A d \in streams' : Alive(d)'
    BY StreamsKept
  <2> QED BY <2>1 DEF DeadStream, Alive
<1> HIDE DEF Inv
<1> QED BY <1>1, <1>2, <1>3, PTL DEF Spec, NoDeadStream

(***************************************************************************)
(* What is on its way to a client.                                         *)
(***************************************************************************)

OnChain(f)  == \E i \in 1..Len(chain) : chain[i].frame.kind = "chunk" /\ chain[i].frame = f
OnWire(f)   == \E c \in Conns : \E i \in 1..Len(wire[c]) : wire[c][i].frame = f
OnReplay(f) == \E c \in Conns : \E i \in 1..Len(replay[c]) : replay[c][i] = f
InBuffer(f) == \E i \in 1..Len(buffer) : buffer[i] = f

LEMMA HeldIs ==
    /\ \A f : f \in Held <=> OnChain(f) \/ OnWire(f) \/ OnReplay(f) \/ InBuffer(f)
    /\ \A f : f \in Held' <=> OnChain(f)' \/ OnWire(f)' \/ OnReplay(f)' \/ InBuffer(f)'
<1> DEFINE C == {chain[i].frame : i \in {j \in 1..Len(chain) : chain[j].frame.kind = "chunk"}}
           W == UNION {{wire[c][i].frame : i \in 1..Len(wire[c])} : c \in Conns}
           R == UNION {{replay[c][i] : i \in 1..Len(replay[c])} : c \in Conns}
           B == {buffer[i] : i \in 1..Len(buffer)}
<1>1. Held = C \cup W \cup R \cup B
  BY Zenon DEF Held
<1>6. Held' = C' \cup W' \cup R' \cup B'
  BY Zenon DEF Held
<1>2. \A f : (f \in C <=> OnChain(f)) /\ (f \in C' <=> OnChain(f)')
  BY DEF OnChain
<1>3. \A f : (f \in W <=> OnWire(f)) /\ (f \in W' <=> OnWire(f)')
  BY DEF OnWire
<1>4. \A f : (f \in R <=> OnReplay(f)) /\ (f \in R' <=> OnReplay(f)')
  BY DEF OnReplay
<1>5. \A f : (f \in B <=> InBuffer(f)) /\ (f \in B' <=> InBuffer(f)')
  BY DEF InBuffer
<1> HIDE DEF C, W, R, B
<1> QED BY <1>1, <1>2, <1>3, <1>4, <1>5, <1>6

(* A frame that could not be sent is kept. *)
LEMMA KeptIsHeld ==
    ASSUME buffer \in Seq(Frames), NEW f \in Frames, buffer' = Append(buffer, f)
    PROVE  /\ f \in Held'
           /\ \A i \in 1..Len(buffer) : buffer[i] \in Held'
<1>1. /\ Len(buffer) \in Nat /\ Len(buffer') = Len(buffer) + 1 /\ buffer'[Len(buffer) + 1] = f
      /\ \A i \in 1..Len(buffer) : buffer'[i] = buffer[i]
  BY AppendProperties
<1>2. \A i \in 1..Len(buffer') : buffer'[i] \in Held'
  BY HeldIs DEF InBuffer
<1>3. Len(buffer) + 1 \in 1..Len(buffer') /\ \A i \in 1..Len(buffer) : i \in 1..Len(buffer')
  BY <1>1
<1> QED BY <1>1, <1>2, <1>3

(* The frame that has left is delivered. *)
LEMMA SentIsDelivered ==
    ASSUME OutputTypes, NEW c \in Conns, wire[c] # <<>>, c \in up, wire' = Taken(c)
    PROVE  Delivers(Head(wire[c]).frame)
<1>1. Len(wire[c]) \in Nat \ {0} /\ Len(wire'[c]) = Len(wire[c]) - 1
  BY TakenFacts
<1> QED BY <1>1 DEF Delivers

(* A turn that has been answered is over when its chain has drained or the *)
(* send of its end has ended.                                              *)
LEMMA TurnsGoOver ==
    ASSUME SessionTypes, FlowInv, [Next]_vars, NEW t \in Turns,
           turns[t].stage \in {"draining", "telling"}, turns'[t].stage = "over"
    PROVE  \/ Resume(t)
           \/ \E c \in Conns : /\ Sent(c) \/ Failed(c)
                               /\ Head(wire[c]).for = "turn" /\ Head(wire[c]).frame = End(t)
<1>0. turns \in [Turns -> Turn] /\ TurnSends
  BY DEF SessionTypes, PromptTypes, FlowInv
<1>1. CASE UNCHANGED turns
  BY <1>1
<1>2. ASSUME NEW u \in Turns, u # t, turns'[t] = turns[t] PROVE FALSE
  BY <1>2
<1>3. ASSUME NEW c \in Conns, NEW u \in Turns, Prompt(c, u) PROVE FALSE
  <2>1. u # t
    BY <1>3 DEF Prompt, NoTurn
  <2> QED BY <1>0, <1>3, <2>1 DEF Prompt
<1>4. ASSUME NEW u \in Turns, PrepEnds(u) \/ Answer(u) \/ Reject(u) PROVE FALSE
  <2>1. u # t
    BY <1>4 DEF PrepEnds, Answer, Reject
  <2> QED BY <1>0, <1>4, <2>1 DEF PrepEnds, Answer, Reject
<1>5. ASSUME NEW u \in Turns, Resume(u) PROVE u = t
  BY <1>0, <1>5 DEF Resume, Finish
<1>6. ASSUME NEW c \in Conns, Cancel(c) PROVE FALSE
  <2>1. turns'[t].stage = turns[t].stage
    BY <1>0, <1>6 DEF Cancel, Turn
  <2> QED BY <2>1
<1>7. ASSUME ForgetSessions PROVE FALSE
  <2>1. turns'[t].stage = turns[t].stage
    BY <1>0, <1>7 DEF ForgetSessions, Turn
  <2> QED BY <2>1
<1>8. ASSUME NEW c \in Conns, Sent(c) \/ Failed(c)
      PROVE  Head(wire[c]).for = "turn" /\ Head(wire[c]).frame = End(t)
  <2>1. Head(wire[c]).for = "turn" /\ Finish(Head(wire[c]).frame.id) /\ wire[c] # <<>>
    BY <1>8 DEF Sent, Failed
  <2>2. PICK u \in Turns : Head(wire[c]).frame = End(u)
    <3>1. 1 \in 1..Len(wire[c]) /\ Head(wire[c]) = wire[c][1]
      BY <2>1, HeadTailProperties DEF SessionTypes, OutputTypes
    <3> QED BY <1>0, <2>1, <3>1 DEF TurnSends, Telling
  <2>3. Finish(u)
    BY <2>1, <2>2 DEF End
  <2>4. u = t
    BY <1>0, <2>3 DEF Finish
  <2> QED BY <2>1, <2>2, <2>4
<1>9. \/ \E c \in Conns : Cancel(c) \/ Sent(c) \/ Failed(c) \/ \E u \in Turns : Prompt(c, u)
      \/ ForgetSessions \/ \E u \in Turns : PrepEnds(u) \/ Answer(u) \/ Reject(u) \/ Resume(u)
      \/ UNCHANGED turns
  BY DEF Next, Drains, Happens, SkipStale, HandleChunk, HandleAsk, Drop, Claim, Load, OpenStream, CloseStream,
     Respond, LoadEnds, Emit, EmitAsk, Expire, Crash, FailSessions, BackendOnly, prompts, vars
<1> QED BY <1>1, <1>3, <1>4, <1>5, <1>6, <1>7, <1>8, <1>9

(* EndIsTold: an end is told to the client or kept for it, for a turn that *)
(* failed, one whose adapter is still there, and one that is being told.   *)
THEOREM EndsAreTold == Spec => EndIsTold
<1> DEFINE Told == \A t \in Turns :
              (/\ turns'[t].stage = "over"
               /\ \/ turns[t].stage = "telling"
                  \/ /\ turns[t].stage = "draining" /\ current = t
                     /\ turns[t].failed \/ (~fenced /\ instance = turns[t].gen))
              => End(t) \in Held' \/ Delivers(End(t))
<1>1. IInv /\ [Next]_vars => [Told]_vars
  <2> SUFFICES ASSUME IInv, [Next]_vars, NEW t \in Turns, turns'[t].stage = "over",
                      \/ turns[t].stage = "telling"
                      \/ /\ turns[t].stage = "draining" /\ current = t
                         /\ turns[t].failed \/ (~fenced /\ instance = turns[t].gen)
               PROVE  End(t) \in Held' \/ Delivers(End(t))
    OBVIOUS
  <2>0. /\ SessionTypes /\ OutputTypes /\ FlowInv
        /\ turns \in [Turns -> Turn] /\ End(t) \in Frames /\ buffer \in Seq(Frames)
    BY FrameTypes DEF IInv, SessionTypes, PromptTypes, OutputTypes, Turns
  <2>1. CASE Resume(t)
    <3>1. ~(StillToTell(t) /\ owner # Nobody)
      BY <2>0, <2>1 DEF Resume, Turn
    <3>2. turns[t].stage # "telling"
      <4>1. PICK i \in DOMAIN chain : chain[i] = Mark(t)
        BY <2>0, <2>1, HeadTailProperties DEF Resume, Due, OutputTypes
      <4>2. NothingStuck
        BY FlowIsLive DEF IInv
      <4> QED BY <4>1, <4>2 DEF NothingStuck
    <3>3. StillToTell(t)
      BY <3>2 DEF StillToTell
    <3>4. buffer' = Append(buffer, End(t))
      BY <2>1, <3>1, <3>3 DEF Resume
    <3> QED BY <2>0, <3>4, KeptIsHeld
  <2>2. ASSUME NEW c \in Conns, Sent(c), Head(wire[c]).for = "turn", Head(wire[c]).frame = End(t)
        PROVE  Delivers(End(t))
    <3>1. c \in up /\ wire[c] # <<>> /\ wire' = Taken(c)
      BY <2>2 DEF Sent
    <3> QED BY <2>0, <2>2, <3>1, SentIsDelivered
  <2>3. ASSUME NEW c \in Conns, Failed(c), Head(wire[c]).for = "turn", Head(wire[c]).frame = End(t)
        PROVE  End(t) \in Held'
    <3>1. buffer' = Append(buffer, End(t))
      BY <2>3 DEF Failed, Keep
    <3> QED BY <2>0, <3>1, KeptIsHeld
  <2> QED BY <2>0, <2>1, <2>2, <2>3, TurnsGoOver
<1> QED BY <1>1, Invariance, PTL DEF Spec, EndIsTold

(* Where the frames are after each of the queues has moved.                *)
LEMMA ChainGrownHolds ==
    ASSUME chain \in Seq(Links), NEW x \in Links, chain' = Append(chain, x)
    PROVE  \A f : OnChain(f) => OnChain(f)'
<1>1. /\ Len(chain) \in Nat /\ Len(chain') = Len(chain) + 1
      /\ \A i \in 1..Len(chain) : chain'[i] = chain[i]
  BY AppendProperties
<1> QED BY <1>1 DEF OnChain

LEMMA ChainTakenHolds ==
    ASSUME chain \in Seq(Links), chain # <<>>, chain' = Tail(chain)
    PROVE  \A f : OnChain(f) => OnChain(f)' \/ (f = Head(chain).frame /\ Head(chain).frame.kind = "chunk")
<1>1. /\ Len(chain) \in Nat /\ Len(chain') = Len(chain) - 1 /\ Head(chain) = chain[1]
      /\ \A i \in 1..Len(chain') : chain'[i] = chain[i + 1]
  BY HeadTailProperties
<1>2. ASSUME NEW f, NEW i \in 1..Len(chain), i # 1, chain[i].frame.kind = "chunk", chain[i].frame = f
      PROVE  OnChain(f)'
  <2>1. i - 1 \in 1..Len(chain') /\ chain'[i - 1] = chain[i]
    BY <1>1, <1>2
  <2> QED BY <1>2, <2>1 DEF OnChain
<1> QED BY <1>1, <1>2 DEF OnChain

LEMMA SendHolds ==
    ASSUME OutputTypes, NEW c \in Conns, NEW for \in {"chain", "turn", "replay"}, NEW frame \in Frames,
           Send(c, for, frame)
    PROVE  OnWire(frame)' /\ \A f : OnWire(f) => OnWire(f)'
<1> DEFINE e == [for |-> for, frame |-> frame]
<1>1. e \in Entries /\ e.frame = frame
  BY DEF Entries
<1>2. /\ Len(wire[c]) \in Nat /\ Len(wire'[c]) = Len(wire[c]) + 1
      /\ \A i \in 1..Len(wire[c]) : wire'[c][i] = wire[c][i]
      /\ wire'[c][Len(wire[c]) + 1] = e
      /\ \A d \in Conns : d # c => wire'[d] = wire[d]
  BY <1>1, SendFacts
<1> HIDE DEF e
<1>3. OnWire(frame)'
  BY <1>1, <1>2 DEF OnWire
<1>4. ASSUME NEW f, NEW d \in Conns, NEW i \in 1..Len(wire[d]), wire[d][i].frame = f PROVE OnWire(f)'
  <2>1. i \in 1..Len(wire'[d]) /\ wire'[d][i] = wire[d][i]
    BY <1>2
  <2> QED BY <1>4, <2>1 DEF OnWire
<1> QED BY <1>3, <1>4 DEF OnWire

LEMMA TakenHolds ==
    ASSUME OutputTypes, NEW c \in Conns, wire[c] # <<>>, wire' = Taken(c)
    PROVE  \A f : OnWire(f) => OnWire(f)' \/ f = Head(wire[c]).frame
<1>1. /\ Len(wire[c]) \in Nat \ {0} /\ Len(wire'[c]) = Len(wire[c]) - 1 /\ Head(wire[c]) = wire[c][1]
      /\ \A i \in 1..Len(wire'[c]) : wire'[c][i] = wire[c][i + 1]
      /\ \A d \in Conns : d # c => wire'[d] = wire[d]
  BY TakenFacts
<1>2. ASSUME NEW f, NEW d \in Conns, NEW i \in 1..Len(wire[d]), wire[d][i].frame = f
      PROVE  OnWire(f)' \/ f = Head(wire[c]).frame
  <2>1. CASE d # c
    BY <1>1, <1>2, <2>1 DEF OnWire
  <2>2. CASE d = c /\ i = 1
    BY <1>1, <1>2, <2>2
  <2>3. CASE d = c /\ i # 1
    <3>1. i - 1 \in 1..Len(wire'[c]) /\ wire'[c][i - 1] = wire[c][i]
      BY <1>1, <2>3
    <3> QED BY <1>2, <2>3, <3>1 DEF OnWire
  <2> QED BY <2>1, <2>2, <2>3
<1> QED BY <1>2 DEF OnWire

(* One entry leaves and another comes. *)
LEMMA Shifted ==
    ASSUME NEW S, NEW s \in Seq(S), s # <<>>, NEW e \in S, NEW t, t = Append(Tail(s), e)
    PROVE  /\ Len(t) = Len(s) /\ t[Len(s)] = e /\ \A i \in 1..Len(s) - 1 : t[i] = s[i + 1]
           /\ Len(s) \in Nat \ {0} /\ Head(s) = s[1]
<1>1. /\ Len(s) \in Nat \ {0} /\ Tail(s) \in Seq(S) /\ Len(Tail(s)) = Len(s) - 1 /\ Head(s) = s[1]
      /\ \A i \in 1..Len(s) - 1 : Tail(s)[i] = s[i + 1]
  BY HeadTailProperties
<1> QED BY <1>1, AppendProperties

LEMMA NextHolds ==
    ASSUME OutputTypes, NEW c \in Conns, wire[c] # <<>>, NEW frame \in Frames,
           wire' = [wire EXCEPT ![c] = Append(Tail(@), [for |-> "replay", frame |-> frame])]
    PROVE  /\ OnWire(frame)' /\ Len(wire'[c]) = Len(wire[c]) /\ Len(wire[c]) \in Nat
           /\ \A f : OnWire(f) => OnWire(f)' \/ f = Head(wire[c]).frame
<1> DEFINE e == [for |-> "replay", frame |-> frame]
<1>1. e \in Entries /\ e.frame = frame
  BY DEF Entries
<1>2. wire[c] \in Seq(Entries) /\ wire'[c] = Append(Tail(wire[c]), e)
  BY DEF OutputTypes
<1>3. wire[c] # <<>>
  OBVIOUS
<1>0. \A d \in Conns : d # c => wire'[d] = wire[d]
  BY DEF OutputTypes
<1> HIDE DEF e
<1>4. /\ Len(wire'[c]) = Len(wire[c]) /\ wire'[c][Len(wire[c])] = e
      /\ \A i \in 1..Len(wire[c]) - 1 : wire'[c][i] = wire[c][i + 1]
      /\ Len(wire[c]) \in Nat \ {0} /\ Head(wire[c]) = wire[c][1]
  BY ONLY <1>1, <1>2, <1>3, Shifted
<1>5. OnWire(frame)'
  <2>1. Len(wire[c]) \in 1..Len(wire'[c])
    BY <1>4
  <2> QED BY <1>1, <1>4, <2>1 DEF OnWire
<1>6. ASSUME NEW f, NEW d \in Conns, NEW i \in 1..Len(wire[d]), wire[d][i].frame = f
      PROVE  OnWire(f)' \/ f = Head(wire[c]).frame
  <2>1. CASE d # c
    BY <1>0, <1>6, <2>1 DEF OnWire
  <2>2. CASE d = c /\ i = 1
    BY <1>4, <1>6, <2>2
  <2>3. CASE d = c /\ i # 1
    <3>1. i - 1 \in 1..Len(wire'[c]) /\ wire'[c][i - 1] = wire[c][i]
      BY <1>4, <2>3
    <3> QED BY <1>6, <2>3, <3>1 DEF OnWire
  <2> QED BY <2>1, <2>2, <2>3
<1>7. \A f : OnWire(f) => OnWire(f)' \/ f = Head(wire[c]).frame
  BY ONLY <1>6, Zenon DEF OnWire
<1> QED BY <1>4, <1>5, <1>7

LEMMA BufferGrownHolds ==
    ASSUME buffer \in Seq(Frames), NEW x \in Frames, buffer' = Append(buffer, x)
    PROVE  InBuffer(x)' /\ \A f : InBuffer(f) => InBuffer(f)'
<1>1. /\ Len(buffer) \in Nat /\ Len(buffer') = Len(buffer) + 1 /\ buffer'[Len(buffer) + 1] = x
      /\ \A i \in 1..Len(buffer) : buffer'[i] = buffer[i]
  BY AppendProperties
<1> QED BY <1>1 DEF InBuffer

LEMMA QueuesRest ==
    /\ UNCHANGED chain  => \A f : OnChain(f) => OnChain(f)'
    /\ UNCHANGED wire   => \A f : OnWire(f) => OnWire(f)'
    /\ UNCHANGED replay => \A f : OnReplay(f) => OnReplay(f)'
    /\ UNCHANGED buffer => \A f : InBuffer(f) => InBuffer(f)'
<1>1. UNCHANGED chain  => \A f : OnChain(f) => OnChain(f)'
  BY DEF OnChain
<1>2. UNCHANGED wire   => \A f : OnWire(f) => OnWire(f)'
  BY DEF OnWire
<1>3. UNCHANGED replay => \A f : OnReplay(f) => OnReplay(f)'
  BY DEF OnReplay
<1>4. UNCHANGED buffer => \A f : InBuffer(f) => InBuffer(f)'
  BY DEF InBuffer
<1> QED BY <1>1, <1>2, <1>3, <1>4

(* A frame stays on its way, or it goes as FramesKept allows. *)
Allowed(f) ==
    \/ Delivers(f) \/ f.kind = "ask"
    \/ bound /\ ~bound'
    \/ chain # <<>> /\ Head(chain).frame = f /\ Head(chain).gen # instance
    \/ \E c \in Conns \ up : Replaying(c) /\ replay'[c] = <<>>

LEMMA OpenKeeps ==
    ASSUME SessionTypes, FlowInv, NEW c \in Conns, OpenStream(c), NEW f \in Held
    PROVE  f \in Held'
<1>0. /\ OutputTypes /\ UNCHANGED chain /\ ~Replaying(c) /\ buffer \in Seq(Frames)
      /\ replay \in [Conns -> Seq(Frames)]
  BY DEF OpenStream, SessionTypes, OutputTypes
<1>1. CASE buffer = <<>>
  <2>1. UNCHANGED <<chain, wire, replay, buffer>>
    BY <1>1 DEF OpenStream
  <2> QED BY <2>1, QueuesRest, HeldIs
<1>2. CASE buffer # <<>>
  <2>1. Send(c, "replay", Head(buffer)) /\ replay' = [replay EXCEPT ![c] = Tail(buffer)]
    BY <1>2 DEF OpenStream
  <2>2. /\ Head(buffer) \in Frames /\ Head(buffer) = buffer[1] /\ Len(buffer) \in Nat
        /\ Len(Tail(buffer)) = Len(buffer) - 1 /\ \A i \in 1..Len(buffer) - 1 : Tail(buffer)[i] = buffer[i + 1]
    BY <1>0, <1>2, HeadTailProperties
  <2>3. PICK x \in Frames : x = Head(buffer)
    BY <2>2
  <2>6. Send(c, "replay", x) /\ "replay" \in {"chain", "turn", "replay"}
    BY <2>1, <2>3
  <2>7. OnWire(x)' /\ (OnWire(f) => OnWire(f)')
    BY <1>0, <2>6, SendHolds
  <2>4. ASSUME OnReplay(f) PROVE OnReplay(f)'
    <3>1. PICK d \in Conns : \E i \in 1..Len(replay[d]) : replay[d][i] = f
      BY <2>4 DEF OnReplay
    <3>2. replay[d] # <<>>
      BY <3>1
    <3>3. d # c
      BY <1>0, <3>2 DEF FlowInv, ReplaySends
    <3>4. replay'[d] = replay[d]
      BY <1>0, <2>1, <3>3
    <3> QED BY <3>1, <3>4 DEF OnReplay
  <2>5. ASSUME InBuffer(f) PROVE OnWire(f)' \/ OnReplay(f)'
    <3>1. PICK i \in 1..Len(buffer) : buffer[i] = f
      BY <2>5 DEF InBuffer
    <3>2. CASE i = 1
      <4>1. f = x
        BY <2>2, <2>3, <3>1, <3>2
      <4> QED BY <2>7, <4>1
    <3>3. CASE i # 1
      <4>1. replay'[c] = Tail(buffer)
        BY <1>0, <2>1
      <4>2. i - 1 \in 1..Len(replay'[c]) /\ replay'[c][i - 1] = f
        BY <2>2, <3>1, <3>3, <4>1
      <4> QED BY <4>2 DEF OnReplay
    <3> QED BY <3>2, <3>3
  <2> QED BY <1>0, <2>4, <2>5, <2>7, QueuesRest, HeldIs
<1> QED BY <1>1, <1>2

LEMMA DrainKeeps ==
    ASSUME SessionTypes, FlowInv, SkipStale \/ HandleChunk \/ HandleAsk, NEW f \in Held
    PROVE  f \in Held' \/ Allowed(f)
<1>0. /\ OutputTypes /\ chain \in Seq(Links) /\ chain # <<>> /\ UNCHANGED replay /\ buffer \in Seq(Frames)
      /\ Head(chain).frame \in Frames
  BY HeadTypes DEF SkipStale, HandleChunk, HandleAsk, Due, SessionTypes, OutputTypes, Links
<1>1. CASE SkipStale
  <2>1. chain' = Tail(chain) /\ UNCHANGED <<wire, buffer>> /\ Head(chain).gen # instance
    BY <1>1 DEF SkipStale
  <2>2. OnChain(f) => OnChain(f)' \/ f = Head(chain).frame
    BY <1>0, <2>1, ChainTakenHolds
  <2> QED BY <1>0, <2>1, <2>2, QueuesRest, HeldIs DEF Allowed
<1>2. CASE HandleChunk
  <2>1. CASE owner # Nobody
    <3>1. Send(owner, "chain", Head(chain).frame) /\ UNCHANGED <<chain, buffer>> /\ owner \in Conns
      BY <1>2, <2>1 DEF HandleChunk, SessionTypes, AccessTypes
    <3>2. OnWire(f) => OnWire(f)'
      BY <1>0, <3>1, SendHolds
    <3> QED BY <1>0, <3>1, <3>2, QueuesRest, HeldIs
  <2>2. CASE owner = Nobody
    <3>1. buffer' = Append(buffer, Head(chain).frame) /\ chain' = Tail(chain) /\ UNCHANGED wire
      BY <1>2, <2>2 DEF HandleChunk
    <3>0. PICK x \in Frames : x = Head(chain).frame
      BY <1>0
    <3>2. OnChain(f) => OnChain(f)' \/ f = x
      BY <1>0, <3>0, <3>1, ChainTakenHolds
    <3>3. buffer' = Append(buffer, x)
      BY <3>0, <3>1
    <3>4. InBuffer(x)' /\ (InBuffer(f) => InBuffer(f)')
      BY <1>0, <3>3, BufferGrownHolds
    <3>5. OnChain(f) => OnChain(f)' \/ InBuffer(f)'
      BY <3>2, <3>4
    <3> QED BY <1>0, <3>1, <3>4, <3>5, QueuesRest, HeldIs
  <2> QED BY <2>1, <2>2
<1>3. CASE HandleAsk
  <2>1. UNCHANGED buffer /\ Head(chain).frame.kind = "ask" /\ Ask(Head(chain).frame.id) \in Frames
    BY <1>0, <1>3 DEF HandleAsk, Ask, Frames
  <2>2. CASE Available /\ ~cancelled /\ owner # Nobody /\ bound
    <3>1. Send(owner, "chain", Ask(Head(chain).frame.id)) /\ UNCHANGED chain /\ owner \in Conns
      BY <1>3, <2>2 DEF HandleAsk, SessionTypes, AccessTypes
    <3>2. OnWire(f) => OnWire(f)'
      BY <1>0, <2>1, <3>1, SendHolds
    <3> QED BY <1>0, <2>1, <3>1, <3>2, QueuesRest, HeldIs
  <2>3. CASE ~(Available /\ ~cancelled /\ owner # Nobody /\ bound)
    <3>1. chain' = Tail(chain) /\ UNCHANGED wire
      BY <1>3, <2>3 DEF HandleAsk
    <3>2. OnChain(f) => OnChain(f)'
      BY <1>0, <2>1, <3>1, ChainTakenHolds
    <3> QED BY <1>0, <2>1, <3>1, <3>2, QueuesRest, HeldIs
  <2> QED BY <2>2, <2>3
<1> QED BY <1>1, <1>2, <1>3

LEMMA ResumeKeeps ==
    ASSUME SessionTypes, NEW t \in Turns, Resume(t), NEW f \in Held
    PROVE  f \in Held'
<1>0. /\ OutputTypes /\ chain \in Seq(Links) /\ chain # <<>> /\ UNCHANGED replay /\ buffer \in Seq(Frames)
      /\ End(t) \in Frames /\ chain' = Tail(chain) /\ Head(chain) = Mark(t)
  BY FrameTypes DEF Resume, Due, SessionTypes, OutputTypes, Links, Turns
<1>1. OnChain(f) => OnChain(f)'
  BY <1>0, MarkFacts, ChainTakenHolds
<1>2. CASE StillToTell(t) /\ owner # Nobody
  <2>1. Send(owner, "turn", End(t)) /\ UNCHANGED buffer /\ owner \in Conns
    BY <1>2 DEF Resume, SessionTypes, AccessTypes
  <2>2. OnWire(f) => OnWire(f)'
    BY <1>0, <2>1, SendHolds
  <2> QED BY <1>0, <1>1, <2>1, <2>2, QueuesRest, HeldIs
<1>3. CASE ~(StillToTell(t) /\ owner # Nobody)
  <2>1. UNCHANGED wire /\ (buffer' = buffer \/ buffer' = Append(buffer, End(t)))
    BY <1>3 DEF Resume
  <2>2. InBuffer(f) => InBuffer(f)'
    BY <1>0, <2>1, BufferGrownHolds, QueuesRest
  <2> QED BY <1>0, <1>1, <2>1, <2>2, QueuesRest, HeldIs
<1> QED BY <1>2, <1>3

LEMMA SentKeeps ==
    ASSUME SessionTypes, FlowInv, NEW c \in Conns, Sent(c), NEW f \in Held
    PROVE  f \in Held' \/ Delivers(f)
<1>0. /\ OutputTypes /\ chain \in Seq(Links) /\ wire[c] # <<>> /\ c \in up /\ UNCHANGED buffer /\ ChainSends
      /\ replay \in [Conns -> Seq(Frames)]
  BY DEF Sent, SessionTypes, OutputTypes, Links, FlowInv
<1>1. CASE wire' = Taken(c) /\ UNCHANGED replay
  <2>1. OnWire(f) => OnWire(f)' \/ f = Head(wire[c]).frame
    BY <1>0, <1>1, TakenHolds
  <2>2. Delivers(Head(wire[c]).frame)
    BY <1>0, <1>1, SentIsDelivered
  <2>3. OnChain(f) => OnChain(f)' \/ f = Head(wire[c]).frame
    <3>1. CASE UNCHANGED chain
      BY <3>1, QueuesRest
    <3>2. CASE Head(wire[c]).for = "chain" /\ chain' = Tail(chain)
      <4>1. chain # <<>> /\ Head(chain).frame = Head(wire[c]).frame
        BY <1>0, <1>1, <3>2, ChainSendEnds
      <4> QED BY <1>0, <3>2, <4>1, ChainTakenHolds
    <3> QED BY <3>1, <3>2 DEF Sent
  <2> QED BY <1>0, <1>1, <2>1, <2>2, <2>3, QueuesRest, HeldIs
<1>2. CASE ~(wire' = Taken(c) /\ UNCHANGED replay)
  <2>1. /\ replay[c] # <<>> /\ replay' = [replay EXCEPT ![c] = Tail(@)] /\ UNCHANGED chain
        /\ wire' = [wire EXCEPT ![c] = Append(Tail(@), [for |-> "replay", frame |-> Head(replay[c])])]
    BY <1>2 DEF Sent
  <2>2. /\ Head(replay[c]) \in Frames /\ Head(replay[c]) = replay[c][1] /\ Len(replay[c]) \in Nat
        /\ Len(Tail(replay[c])) = Len(replay[c]) - 1
        /\ \A i \in 1..Len(replay[c]) - 1 : Tail(replay[c])[i] = replay[c][i + 1]
    BY <1>0, <2>1, HeadTailProperties
  <2>3. PICK x \in Frames : x = Head(replay[c])
    BY <2>2
  <2>4. wire' = [wire EXCEPT ![c] = Append(Tail(@), [for |-> "replay", frame |-> x])]
    BY <2>1, <2>3
  <2>5. /\ OnWire(x)' /\ Len(wire'[c]) = Len(wire[c]) /\ Len(wire[c]) \in Nat
        /\ OnWire(f) => OnWire(f)' \/ f = Head(wire[c]).frame
    BY <1>0, <2>4, NextHolds
  <2>6. ASSUME OnReplay(f) PROVE OnReplay(f)' \/ OnWire(f)'
    <3>1. PICK d \in Conns : \E i \in 1..Len(replay[d]) : replay[d][i] = f
      BY <2>6 DEF OnReplay
    <3>2. PICK i \in 1..Len(replay[d]) : replay[d][i] = f
      BY <3>1
    <3>3. CASE d # c
      <4>1. replay'[d] = replay[d]
        BY <1>0, <2>1, <3>3
      <4> QED BY <3>2, <4>1 DEF OnReplay
    <3>4. CASE d = c /\ i = 1
      <4>1. f = x
        BY <2>2, <2>3, <3>2, <3>4
      <4> QED BY <2>5, <4>1
    <3>5. CASE d = c /\ i # 1
      <4>1. replay'[c] = Tail(replay[c])
        BY <1>0, <2>1
      <4>2. i - 1 \in 1..Len(replay'[c]) /\ replay'[c][i - 1] = f
        BY <2>2, <3>2, <3>5, <4>1
      <4> QED BY <4>2 DEF OnReplay
    <3> QED BY <3>3, <3>4, <3>5
  <2>7. f = Head(wire[c]).frame => OnWire(f)' \/ Delivers(f)
    <3>1. CASE wire'[c] = wire[c]
      <4>1. Head(wire[c]) = wire[c][1] /\ 1 \in 1..Len(wire[c])
        BY <1>0, HeadTailProperties DEF OutputTypes
      <4> QED BY <3>1, <4>1 DEF OnWire
    <3>2. CASE wire'[c] # wire[c]
      BY <1>0, <2>5, <3>2 DEF Delivers
    <3> QED BY <3>1, <3>2
  <2>8. OnWire(f) => OnWire(f)' \/ Delivers(f)
    BY <2>5, <2>7
  <2> QED BY <1>0, <2>1, <2>6, <2>8, QueuesRest, HeldIs
<1> QED BY <1>1, <1>2

LEMMA FailedKeeps ==
    ASSUME SessionTypes, FlowInv, NEW c \in Conns, Failed(c), NEW f \in Held
    PROVE  f \in Held' \/ Allowed(f)
<1>0. /\ OutputTypes /\ chain \in Seq(Links) /\ wire[c] # <<>> /\ c \in Conns \ up /\ wire' = Taken(c) /\ ChainSends
      /\ buffer \in Seq(Frames) /\ Head(wire[c]).frame \in Frames
  BY TakenTypes DEF Failed, SessionTypes, OutputTypes, Links, FlowInv
<1>1. PICK x \in Frames : x = Head(wire[c]).frame
  BY <1>0
<1>2. OnWire(f) => OnWire(f)' \/ f = x
  BY <1>0, <1>1, TakenHolds
<1>3. CASE Head(wire[c]).for = "chain"
  <2>1. chain # <<>> /\ Head(chain).frame = x
    BY <1>0, <1>1, <1>3, ChainSendEnds
  <2>2. chain' = Tail(chain) /\ UNCHANGED replay
    BY <1>3 DEF Failed
  <2>3. OnChain(f) => OnChain(f)' \/ f = x
    BY <1>0, <2>1, <2>2, ChainTakenHolds
  <2>4. CASE x.kind = "ask"
    <3>1. UNCHANGED buffer
      BY <1>1, <1>3, <2>4 DEF Failed
    <3>2. f = x => Allowed(f)
      BY <2>4 DEF Allowed
    <3> QED BY <1>2, <2>2, <2>3, <3>1, <3>2, QueuesRest, HeldIs
  <2>5. CASE x.kind # "ask"
    <3>1. buffer' = Append(buffer, x)
      BY <1>1, <1>3, <2>5 DEF Failed, Keep
    <3>2. InBuffer(x)' /\ (InBuffer(f) => InBuffer(f)')
      BY <1>0, <3>1, BufferGrownHolds
    <3>3. (OnChain(f) => OnChain(f)' \/ InBuffer(f)') /\ (OnWire(f) => OnWire(f)' \/ InBuffer(f)')
      BY <1>2, <2>3, <3>2
    <3> QED BY <2>2, <3>2, <3>3, QueuesRest, HeldIs
  <2> QED BY <2>4, <2>5
<1>4. CASE Head(wire[c]).for = "turn"
  <2>1. UNCHANGED <<chain, replay>> /\ buffer' = Append(buffer, x)
    BY <1>1, <1>4 DEF Failed, Keep
  <2>2. InBuffer(x)' /\ (InBuffer(f) => InBuffer(f)')
    BY <1>0, <2>1, BufferGrownHolds
  <2>3. OnWire(f) => OnWire(f)' \/ InBuffer(f)'
    BY <1>2, <2>2
  <2> QED BY <2>1, <2>2, <2>3, QueuesRest, HeldIs
<1>5. CASE Head(wire[c]).for = "replay"
  <2>1. Head(wire[c]) = wire[c][1] /\ 1 \in 1..Len(wire[c])
    BY <1>0, HeadTailProperties DEF OutputTypes
  <2>2. Replaying(c)
    BY <1>5, <2>1 DEF Replaying
  <2>3. replay'[c] = <<>>
    BY <1>0, <1>5 DEF Failed, OutputTypes
  <2> QED BY <1>0, <2>2, <2>3 DEF Allowed
<1> QED BY <1>3, <1>4, <1>5 DEF Failed

(* FramesKept: what an adapter has said and the end of a turn stay on      *)
(* their way to a client until they have been sent, but for what a         *)
(* replaced adapter said, approvals, a session that is forgotten and a     *)
(* replay that its connection did not outlive.                             *)
THEOREM FramesStay == Spec => FramesKept
<1> DEFINE Inv  == IInv /\ CalmInv
           Kept == \A f \in Held \ Held' :
              \/ Delivers(f) \/ f.kind = "ask"
              \/ bound /\ ~bound'
              \/ chain # <<>> /\ Head(chain).frame = f /\ Head(chain).gen # instance
              \/ \E c \in Conns \ up : Replaying(c) /\ replay'[c] = <<>>
<1>1. Inv /\ [Next]_vars => [Kept]_vars
  <2> SUFFICES ASSUME IInv, CalmInv, [Next]_vars, NEW f \in Held PROVE f \in Held' \/ Allowed(f)
    BY DEF Allowed
  <2>0. SessionTypes /\ FlowInv /\ BackendTypeOK /\ chain \in Seq(Links)
    BY DEF IInv, BackendInv, SessionTypes, OutputTypes, Links
  <2>1. CASE UNCHANGED <<chain, wire, replay, buffer>>
    BY <2>1, QueuesRest, HeldIs
  <2>2. CASE ForgetSessions
    <3>1. CASE reset.scoped
      <4>1. bound /\ bound' = FALSE
        BY <2>2, <3>1 DEF ForgetSessions, Dispose, CalmInv, Scoped
      <4> QED BY <4>1 DEF Allowed
    <3>2. CASE ~reset.scoped
      <4>1. UNCHANGED <<chain, wire, replay, buffer>>
        BY <2>2, <3>2 DEF ForgetSessions
      <4> QED BY <2>1, <4>1
    <3> QED BY <3>1, <3>2
  <2>3. CASE \/ Emit
             \/ \E t \in Turns : Answer(t) \/ Reject(t)
             \/ \E r \in Asks : EmitAsk(r)
    <3>1. UNCHANGED <<wire, replay, buffer>>
      BY <2>3 DEF Emit, EmitAsk, Answer, Reject
    <3>2. OnChain(f) => OnChain(f)'
      <4>1. CASE chain' = chain
        BY <4>1, QueuesRest
      <4>2. ASSUME NEW x \in Links, chain' = Append(chain, x) PROVE OnChain(f) => OnChain(f)'
        BY <2>0, <4>2, ChainGrownHolds
      <4> QED BY <2>0, <2>3, <4>1, <4>2, ChainGrowth DEF ChainGrew
    <3> QED BY <3>1, <3>2, QueuesRest, HeldIs
  <2>4. ASSUME NEW c \in Conns, OpenStream(c) \/ Sent(c) \/ Failed(c) PROVE f \in Held' \/ Allowed(f)
    BY <2>0, <2>4, OpenKeeps, SentKeeps, FailedKeeps DEF Allowed
  <2>5. CASE SkipStale \/ HandleChunk \/ HandleAsk
    BY <2>0, <2>5, DrainKeeps
  <2>6. ASSUME NEW t \in Turns, Resume(t) PROVE f \in Held'
    BY <2>0, <2>6, ResumeKeeps
  <2>7. \/ UNCHANGED <<chain, wire, replay, buffer>> \/ ForgetSessions \/ Emit
        \/ \E t \in Turns : Answer(t) \/ Reject(t) \/ Resume(t)
        \/ \E r \in Asks : EmitAsk(r)
        \/ \E c \in Conns : OpenStream(c) \/ Sent(c) \/ Failed(c)
        \/ SkipStale \/ HandleChunk \/ HandleAsk
    BY DEF Next, Drains, Happens, Drop, Claim, Load, CloseStream, Prompt, Cancel, PrepEnds,
       Respond, LoadEnds, Expire, Crash, FailSessions, BackendOnly, output, vars
  <2> QED BY <2>1, <2>2, <2>3, <2>4, <2>5, <2>6, <2>7
<1>2. Init => Inv
  BY InitInv, CalmAtFirst
<1>3. Inv /\ [Next]_vars => Inv'
  BY StepInv, CalmKept
<1> HIDE DEF Inv
<1> QED BY <1>1, <1>2, <1>3, PTL DEF Spec, FramesKept
=============================================================================
