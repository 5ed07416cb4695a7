----------------------------- MODULE AcpGateway -----------------------------
(***************************************************************************)
(* The Host's ACP gateway (packages/plugin/src/acp/gateway.ts and          *)
(* peer-bridge.ts) for one session of one backend: the connection that     *)
(* owns the session, the turn in progress, the adapter's output on its way *)
(* to the owner, the approvals it asks for, and what a crash, a retry or a *)
(* change of settings (AcpBackend) does to all of them.                    *)
(*                                                                         *)
(* An action is what a handler does between two awaits.  inboundChain is   *)
(* the queue chain: its head stays there while its frame is being sent,    *)
(* and "await this.inboundChain" is a mark in it.  A connection sends one  *)
(* frame at a time, in order; sends on a connection that is gone fail one  *)
(* by one.  A connection has at most one stream, and ids are not reused.   *)
(***************************************************************************)
EXTENDS AcpBackend, Sequences, FiniteSets

CONSTANTS
    Conns,
    MaxTurns, MaxChunks, MaxAsks,  \* bounds: prompts, frames and approvals
    MaxEvents,     \* bound: these and the other events of Spent together,
    ResetCost      \* of which a change of the settings counts as many

Nobody == "nobody"

ASSUME GatewayAssumption ==
    /\ Nobody \notin Conns
    /\ MaxTurns \in Nat /\ MaxChunks \in Nat /\ MaxAsks \in Nat
    /\ MaxEvents \in Nat /\ ResetCost \in Nat

VARIABLES
    prepares,      \* the backend is one of pi, claude and hermes
    up,            \* peers
    streams,       \* connections with a stream on the session
    owner,         \* sessionOwners
    bound,         \* sessionBackends has the session
    load,          \* a session/load that awaits the adapter, or is over
    current,       \* promptsInProgress
    preparing,     \* preparingPrompts
    cancelled,     \* cancelledSessions has the session
    turns,         \* every prompt that was accepted
    asks,          \* the adapter's requests; those pending are in approvals
    emitted,       \* chunks the adapters have emitted
    chain,         \* inboundChain
    wire,          \* frames a connection is sending, and for whom
    replay,        \* frames replayBufferedFrames() has yet to send
    buffer         \* recentFrames

access  == <<prepares, up, owner, bound, load>>
prompts == <<current, preparing, cancelled, turns>>
output  == <<emitted, chain, wire, replay, buffer>>
vars    == <<backend, access, streams, prompts, asks, output>>

Turns  == 1..MaxTurns
Asks   == 1..MaxAsks
Chunk(n) == [kind |-> "chunk", id |-> n]
Ask(r)   == [kind |-> "ask", id |-> r]
End(t)   == [kind |-> "end", id |-> t]
Frames   == [kind : {"chunk", "ask", "end"}, id : Nat]

Turn == [stage : {"none", "preparing", "upstream", "draining", "telling", "over"},
         gen : Gen, conn : Conns \cup {Nobody},   \* conn: until its call is answered
         failed : BOOLEAN,      \* the adapter rejected it
         dropped : BOOLEAN]     \* its preparation was cancelled
Over   == [stage |-> "over", gen |-> None, conn |-> Nobody, failed |-> FALSE, dropped |-> FALSE]
NoTurn == [stage |-> "none", gen |-> None, conn |-> Nobody, failed |-> FALSE, dropped |-> FALSE]
Gone   == [stage |-> "gone", gen |-> None, conn |-> Nobody]
NoLoad == [conn |-> Nobody, gen |-> None, over |-> FALSE]
NoAsk  == [stage |-> "none", gen |-> None, conn |-> Nobody]

AcpTypeOK ==
    /\ BackendTypeOK
    /\ prepares \in BOOLEAN /\ up \subseteq Conns /\ streams \subseteq up
    /\ owner \in Conns \cup {Nobody} /\ bound \in BOOLEAN /\ load \in [conn : Conns \cup {Nobody}, gen : Gen, over : BOOLEAN]
    /\ current \in {None} \cup Turns /\ preparing \in {None, current} /\ cancelled \in BOOLEAN
    /\ turns \in [Turns -> Turn]
    /\ asks \in [Asks -> [stage : {"none", "queued", "pending", "gone"},
                          gen : Gen, conn : Conns \cup {Nobody}]]
    /\ emitted \in 0..MaxChunks
    /\ chain \in Seq([frame : Frames, gen : Gen])
    /\ wire \in [Conns -> Seq([for : {"chain", "turn", "replay"}, frame : Frames])]
    /\ replay \in [Conns -> Seq(Frames)] /\ buffer \in Seq(Frames)

Init ==
    /\ BackendInit
    /\ prepares \in BOOLEAN /\ up = Conns /\ streams = {}
    /\ owner = Nobody /\ bound = FALSE /\ load = NoLoad
    /\ current = None /\ preparing = None /\ cancelled = FALSE
    /\ turns = [t \in Turns |-> NoTurn] /\ asks = [r \in Asks |-> NoAsk]
    /\ emitted = 0 /\ chain = <<>> /\ buffer = <<>>
    /\ wire = [c \in Conns |-> <<>>] /\ replay = [c \in Conns |-> <<>>]

----------------------------------------------------------------------------
(* Pieces of handlers.                                                     *)

(* The bound on all that the environment begins: frames, requests,         *)
(* prompts, a load, connections that go, adapters that die, settings.      *)
Spent ==
    emitted + Cardinality({r \in Asks : asks[r] # NoAsk})
    + Cardinality({t \in Turns : turns[t] # NoTurn}) + (IF load = NoLoad THEN 0 ELSE 1)
    + Cardinality(Conns \ up) + (IF ready THEN made - 1 ELSE made) + ResetCost * resets
MayBegin == Spent < MaxEvents
MayReset == Spent + ResetCost <= MaxEvents

(* requireSessionAccess() and claimSession(): a session nobody owns goes   *)
(* to whoever calls.                                                       *)
MayUse(c) == c \in up /\ owner \in {Nobody, c}

(* assertCurrent() of a call that began with the adapter gen. *)
InScope(c, gen) == c \in up /\ instance = gen /\ Available

(* Mutant: that the connection is still there is taken for granted. *)
InScopeOfAdapter(c, gen) == instance = gen /\ Available

(* isSessionBackendReady() *)
Served == bound => Available

(* The mark a turn leaves in inboundChain; it belongs to no adapter. *)
Mark(t) == [frame |-> End(t), gen |-> None]

(* A frame of the chain is being sent: the chain waits. *)
Waiting == \E c \in Conns : \E i \in 1..Len(wire[c]) : wire[c][i].for = "chain"

(* Mutant: the chain stops with its adapter. *)
DueIfReady == chain # <<>> /\ ~Waiting /\ ready

(* Nothing keeps the chain from going on. *)
Due == chain # <<>> /\ ~Waiting

Replaying(c) == \E i \in 1..Len(wire[c]) : wire[c][i].for = "replay"

(* The approvals of a set are deleted.  Whether the adapter is told is not *)
(* kept: it is, unless it is gone or a late answer was the first to notice *)
(* that the time was up.                                                   *)
Settled(which) ==
    [r \in Asks |-> IF asks[r].stage = "pending" /\ r \in which THEN Gone ELSE asks[r]]

Send(c, for, frame) == wire' = [wire EXCEPT ![c] = Append(@, [for |-> for, frame |-> frame])]

(* The send at the head of a connection has ended. *)
Taken(c) == [wire EXCEPT ![c] = Tail(@)]

(* Mutant: the streams are left to the next change. *)
FinishOnly(t) ==
    /\ turns' = [turns EXCEPT ![t] = Over]
    /\ current' = IF current = t THEN None ELSE current
    /\ UNCHANGED streams

(* Mutant: a turn that was called off meanwhile is left as it is. *)
FinishCurrent(t) ==
    /\ turns' = IF current = t THEN [turns EXCEPT ![t] = Over] ELSE turns
    /\ current' = IF current = t THEN None ELSE current
    /\ streams' = IF current = t /\ ~Served THEN {} ELSE streams

(* The end of runPromptInBackground().  The session's streams are closed   *)
(* when nothing can be expected on them.                                   *)
Finish(t) ==
    /\ turns' = [turns EXCEPT ![t] = Over]
    /\ current' = IF current = t THEN None ELSE current
    /\ streams' = IF current = t /\ ~Served THEN {} ELSE streams

(* Mutant: a turn that failed is forgotten with its adapter. *)
StillItsAdapter(t) == current = t /\ ~fenced /\ instance = turns[t].gen

(* accepted(), and for a turn the adapter answered current(). *)
StillToTell(t) ==
    /\ current = t
    /\ turns[t].failed \/ (~fenced /\ instance = turns[t].gen)

----------------------------------------------------------------------------
(* Connections.                                                            *)

(* closeAll() and dropPeer(): the session is free again. *)
Drop(c) ==
    /\ MayBegin /\ c \in up /\ up' = up \ {c} /\ streams' = streams \ {c}
    /\ owner' = IF owner = c THEN Nobody ELSE owner
    /\ asks' = Settled({r \in Asks : asks[r].conn = c})
    /\ UNCHANGED <<backend, prepares, bound, load, prompts, output>>

(* A call that is refused for another reason has claimed the session too.  *)
Claim(c) ==
    /\ c \in up /\ owner = Nobody /\ owner' = c
    /\ UNCHANGED <<backend, prepares, up, bound, load, streams, prompts, asks, output>>

Load(c) ==
    /\ MayBegin /\ MayUse(c) /\ Available /\ load = NoLoad
    /\ owner' = c /\ bound' = TRUE /\ load' = [conn |-> c, gen |-> instance, over |-> FALSE]
    /\ UNCHANGED <<backend, prepares, up, streams, prompts, asks, output>>

(* Mutant: the answer is taken from an adapter that is still there. *)
LoadEndsLate ==
    /\ load # NoLoad /\ ~load.over /\ load' = [NoLoad EXCEPT !.over = TRUE]
    /\ \/ InScopeOfAdapter(load.conn, load.gen) /\ owner' = load.conn /\ bound' = TRUE
       \/ UNCHANGED <<owner, bound>>
    /\ UNCHANGED <<backend, prepares, up, streams, prompts, asks, output>>

(* The adapter answers or fails; the answer claims the session once more.  *)
LoadEnds ==
    /\ load # NoLoad /\ ~load.over /\ load' = [NoLoad EXCEPT !.over = TRUE]
    /\ \/ InScope(load.conn, load.gen) /\ owner' = load.conn /\ bound' = TRUE
       \/ UNCHANGED <<owner, bound>>
    /\ UNCHANGED <<backend, prepares, up, streams, prompts, asks, output>>

(* A stream replays what was kept for it.  Without a producer and a turn   *)
(* it is closed again.                                                     *)
OpenStream(c) ==
    /\ MayUse(c) /\ c \notin streams /\ ~Replaying(c) /\ owner' = c
    /\ IF buffer = <<>>
       THEN /\ streams' = IF Served \/ current # None THEN streams \cup {c} ELSE streams
            /\ UNCHANGED <<wire, replay, buffer>>
       ELSE /\ streams' = streams \cup {c} /\ buffer' = <<>>
            /\ Send(c, "replay", Head(buffer)) /\ replay' = [replay EXCEPT ![c] = Tail(buffer)]
    /\ UNCHANGED <<backend, prepares, up, bound, load, prompts, asks, emitted, chain>>

CloseStream(c) ==
    /\ c \in streams /\ streams' = streams \ {c}
    /\ UNCHANGED <<backend, access, prompts, asks, output>>

----------------------------------------------------------------------------
(* Turns.                                                                  *)

(* session/prompt; some backends load the session first. *)
Prompt(c, t) ==
    /\ MayBegin /\ MayUse(c) /\ Available /\ current = None
    /\ turns[t] = NoTurn /\ \A u \in 1..t - 1 : turns[u] # NoTurn
    /\ owner' = c /\ bound' = TRUE /\ cancelled' = FALSE
    /\ current' = t /\ preparing' = IF prepares THEN t ELSE None
    /\ turns' = [turns EXCEPT ![t] =
                    [stage |-> IF prepares THEN "preparing" ELSE "upstream",
                     gen |-> instance, conn |-> IF prepares THEN c ELSE Nobody, failed |-> FALSE, dropped |-> FALSE]]
    /\ UNCHANGED <<backend, prepares, up, load, streams, asks, output>>

(* The preparation is over; the call fails unless it goes on upstream. *)
PrepEnds(t) ==
    LET goesOn == ~turns[t].dropped /\ InScope(turns[t].conn, turns[t].gen) IN
    /\ turns[t].stage = "preparing"
    /\ preparing' = IF preparing = t THEN None ELSE preparing
    /\ \/ goesOn /\ turns' = [turns EXCEPT ![t].stage = "upstream", ![t].conn = Nobody]
          /\ UNCHANGED current
       \/ /\ turns' = [turns EXCEPT ![t] = Over]
          /\ current' = IF current = t THEN None ELSE current
    /\ UNCHANGED <<backend, access, streams, cancelled, asks, output>>

(* Mutant: a preparation that is cancelled is not told. *)
CancelUnmarked(c) ==
    /\ current # None /\ MayUse(c) /\ owner' = c /\ cancelled' = TRUE
    /\ preparing' = None /\ current' = IF preparing # None THEN None ELSE current
    /\ asks' = IF bound /\ preparing = None THEN Settled(Asks) ELSE asks
    /\ UNCHANGED <<backend, prepares, up, bound, load, streams, turns, output>>

(* session/cancel: a preparation is only marked; otherwise the approvals   *)
(* go, and the turn ends when the adapter says so.                         *)
Cancel(c) ==
    /\ current # None /\ MayUse(c) /\ owner' = c /\ cancelled' = TRUE
    /\ IF preparing # None
       THEN /\ turns' = [turns EXCEPT ![preparing].dropped = TRUE]
            /\ preparing' = None /\ current' = None /\ UNCHANGED asks
       ELSE /\ asks' = IF bound THEN Settled(Asks) ELSE asks
            /\ UNCHANGED <<turns, preparing, current>>
    /\ UNCHANGED <<backend, prepares, up, bound, load, streams, output>>

(* The adapter ends the turn; runPromptInBackground() drains the chain. *)
Answer(t) ==
    /\ turns[t].stage = "upstream" /\ ready /\ instance = turns[t].gen
    /\ turns' = [turns EXCEPT ![t].stage = "draining"] /\ chain' = Append(chain, Mark(t))
    /\ UNCHANGED <<backend, access, streams, current, preparing, cancelled, asks,
                   emitted, wire, replay, buffer>>

(* It refuses, dies or takes too long. *)
Reject(t) ==
    /\ turns[t].stage = "upstream"
    /\ IF current = t
       THEN /\ turns' = [turns EXCEPT ![t].stage = "draining", ![t].failed = TRUE]
            /\ chain' = Append(chain, Mark(t))
       ELSE turns' = [turns EXCEPT ![t] = Over] /\ UNCHANGED chain
    /\ UNCHANGED <<backend, access, streams, current, preparing, cancelled, asks,
                   emitted, wire, replay, buffer>>

(* The chain is drained: the end is told to the owner or kept for one. *)
Resume(t) ==
    /\ Due /\ Head(chain) = Mark(t) /\ chain' = Tail(chain)
    /\ IF StillToTell(t) /\ owner # Nobody
       THEN /\ Send(owner, "turn", End(t))
            /\ turns' = [turns EXCEPT ![t].stage = "telling"]
            /\ UNCHANGED <<buffer, current, streams>>
       ELSE /\ buffer' = IF StillToTell(t) THEN Append(buffer, End(t)) ELSE buffer
            /\ Finish(t) /\ UNCHANGED wire
    /\ UNCHANGED <<backend, access, preparing, cancelled, asks, emitted, replay>>

----------------------------------------------------------------------------
(* The adapter's output.                                                   *)

(* An adapter speaks of a session it was given. *)
Emit ==
    /\ MayBegin /\ ready /\ bound /\ emitted < MaxChunks /\ emitted' = emitted + 1
    /\ chain' = Append(chain, [frame |-> Chunk(emitted + 1), gen |-> instance])
    /\ UNCHANGED <<backend, access, streams, prompts, asks, wire, replay, buffer>>

EmitAsk(r) ==
    /\ MayBegin /\ ready /\ bound /\ asks[r] = NoAsk
    /\ asks' = [asks EXCEPT ![r] = [stage |-> "queued", gen |-> instance, conn |-> Nobody]]
    /\ chain' = Append(chain, [frame |-> Ask(r), gen |-> instance])
    /\ UNCHANGED <<backend, access, streams, prompts, emitted, wire, replay, buffer>>

(* What a replaced adapter said before is dropped. *)
SkipStale ==
    /\ Due /\ Head(chain).gen \notin {None, instance} /\ chain' = Tail(chain)
    /\ LET f == Head(chain).frame IN
       asks' = IF f.kind = "ask" THEN [asks EXCEPT ![f.id] = Gone] ELSE asks
    /\ UNCHANGED <<backend, access, streams, prompts, emitted, wire, replay, buffer>>

(* handleInbound() of a notification: to the owner, or kept for the next. *)
HandleChunk ==
    /\ Due /\ Head(chain).gen = instance /\ Head(chain).frame.kind = "chunk"
    /\ bound' = TRUE
    /\ IF owner # Nobody
       THEN Send(owner, "chain", Head(chain).frame) /\ UNCHANGED <<chain, buffer>>
       ELSE /\ buffer' = Append(buffer, Head(chain).frame) /\ chain' = Tail(chain)
            /\ UNCHANGED wire
    /\ UNCHANGED <<backend, prepares, up, owner, load, streams, prompts, asks, emitted, replay>>

(* handleInbound() of a request: refused, or an approval of the owner. *)
HandleAsk ==
    /\ Due /\ Head(chain).gen = instance /\ Head(chain).frame.kind = "ask"
    /\ LET r == Head(chain).frame.id IN
       IF Available /\ ~cancelled /\ owner # Nobody /\ bound
       THEN /\ asks' = [asks EXCEPT ![r].stage = "pending", ![r].conn = owner]
            /\ Send(owner, "chain", Ask(r)) /\ UNCHANGED chain
       ELSE /\ asks' = [asks EXCEPT ![r] = Gone]
            /\ chain' = Tail(chain) /\ UNCHANGED wire
    /\ UNCHANGED <<backend, access, streams, prompts, emitted, replay, buffer>>

(* A frame has left.  Whoever waited goes on. *)
Sent(c) ==
    /\ c \in up /\ wire[c] # <<>>
    /\ \/ /\ Head(wire[c]).for = "chain" /\ wire' = Taken(c) /\ chain' = Tail(chain)
          /\ UNCHANGED <<streams, current, turns, replay>>
       \/ /\ Head(wire[c]).for = "turn" /\ wire' = Taken(c)
          /\ Finish(Head(wire[c]).frame.id) /\ UNCHANGED <<chain, replay>>
       \/ /\ Head(wire[c]).for = "replay" /\ replay[c] # <<>>
          /\ wire' = [wire EXCEPT ![c] =
                        Append(Tail(@), [for |-> "replay", frame |-> Head(replay[c])])]
          /\ replay' = [replay EXCEPT ![c] = Tail(@)]
          /\ UNCHANGED <<streams, current, turns, chain>>
       \/ /\ Head(wire[c]).for = "replay" /\ replay[c] = <<>> /\ wire' = Taken(c)
          /\ streams' = IF Served \/ current # None THEN streams ELSE streams \ {c}
          /\ UNCHANGED <<current, turns, chain, replay>>
    /\ UNCHANGED <<backend, access, preparing, cancelled, asks, emitted, buffer>>

(* Mutant: it is only logged. *)
KeepNot(frame) == UNCHANGED buffer

(* publishToSession() keeps a frame it could not send. *)
Keep(frame) == buffer' = Append(buffer, frame)

(* A send has failed: a frame of the chain or a turn is kept, an approval  *)
(* is taken back, a replay is over.                                        *)
Failed(c) ==
    /\ c \notin up /\ wire[c] # <<>> /\ wire' = Taken(c)
    /\ LET e == Head(wire[c]) IN
       \/ /\ e.for = "chain" /\ chain' = Tail(chain) /\ UNCHANGED <<streams, current, turns, replay>>
          /\ IF e.frame.kind = "ask"
             THEN asks' = Settled({e.frame.id}) /\ UNCHANGED buffer
             ELSE Keep(e.frame) /\ UNCHANGED asks
       \/ /\ e.for = "turn" /\ Keep(e.frame) /\ Finish(e.frame.id)
          /\ UNCHANGED <<chain, asks, replay>>
       \/ /\ e.for = "replay" /\ replay' = [replay EXCEPT ![c] = <<>>]
          /\ UNCHANGED <<chain, streams, current, turns, asks, buffer>>
    /\ UNCHANGED <<backend, access, preparing, cancelled, emitted>>

----------------------------------------------------------------------------
(* Approvals.                                                              *)

(* respond(), in the scope the approval was given in. *)
Respond(c, r) ==
    /\ c \in up /\ asks[r].stage = "pending" /\ asks[r].conn = c
    /\ owner = c /\ bound /\ Available /\ instance = asks[r].gen
    /\ asks' = Settled({r})
    /\ UNCHANGED <<backend, access, streams, prompts, output>>

(* After its time the first of the timer and an answer deletes it. *)
Expire(r) ==
    /\ asks[r].stage = "pending"
    /\ asks' = Settled({r})
    /\ UNCHANGED <<backend, access, streams, prompts, output>>

----------------------------------------------------------------------------
(* What happens to the backend.                                            *)

(* A session with a turn keeps its streams until the turn has been told. *)
Crash ==
    /\ MayBegin /\ AdapterDies
    /\ streams' = IF bound /\ current = None THEN {} ELSE streams
    /\ UNCHANGED <<access, prompts, asks, output>>

FailSessions ==
    /\ StopsLaunches(bound)
    /\ streams' = IF bound THEN {} ELSE streams
    /\ UNCHANGED <<access, prompts, asks, output>>

(* The sessions counted above are forgotten, the approvals all. *)
ForgetSessions ==
    /\ Dispose
    /\ asks' = Settled(Asks)
    /\ IF reset.scoped
       THEN /\ owner' = Nobody /\ bound' = FALSE /\ buffer' = <<>>
            /\ current' = None /\ preparing' = None
            /\ turns' = [t \in Turns |-> IF preparing = t THEN [turns[t] EXCEPT !.dropped = TRUE]
                                         ELSE turns[t]]
       ELSE UNCHANGED <<owner, bound, buffer, current, preparing, turns>>
    /\ UNCHANGED <<prepares, up, load, streams, cancelled, emitted, chain, wire, replay>>

BackendOnly ==
    /\ \/ RetryTimer \/ LaunchSucceeds \/ CleanupDone \/ Started
       \/ \E flag \in BOOLEAN :
            Settle(flag) \/ LaunchFails(flag) \/ CleanupFails(flag) \/ (MayReset /\ Reconfigure(flag))
    /\ UNCHANGED <<access, streams, prompts, asks, output>>

(* The chain goes on. *)
Drains ==
    SkipStale \/ HandleChunk \/ HandleAsk \/ \E t \in Turns : Resume(t)

(* What comes from outside: calls, the network, the adapter, timers. *)
Happens ==
    \/ \E c \in Conns :
        \/ Drop(c) \/ Claim(c) \/ Load(c) \/ OpenStream(c) \/ CloseStream(c) \/ Cancel(c)
        \/ Sent(c) \/ Failed(c)
        \/ \E t \in Turns : Prompt(c, t)
        \/ \E r \in Asks : Respond(c, r)
    \/ \E t \in Turns : PrepEnds(t) \/ Answer(t) \/ Reject(t)
    \/ LoadEnds \/ Emit
    \/ \E r \in Asks : EmitAsk(r) \/ Expire(r)
    \/ Crash \/ FailSessions \/ ForgetSessions \/ BackendOnly

(* A promise that is settled is continued before the next event. *)
Next == Drains \/ (~Due /\ Happens)

Spec == Init /\ [][Next]_vars

(* The chain of promises goes on, a preparation and a request to the       *)
(* adapter end by their timeouts, and a send ends or its connection does.  *)
Fairness ==
    /\ WF_vars(Drains)
    /\ \A t \in Turns : WF_vars(PrepEnds(t)) /\ WF_vars(Answer(t) \/ Reject(t))
    /\ \A c \in Conns : WF_vars(Sent(c) \/ Failed(c))

FairSpec == Spec /\ Fairness

----------------------------------------------------------------------------
(* Ownership never outlives its connection, and an approval can be given   *)
(* only by the connection that owns the session now: not by one that lost  *)
(* it, however late load, sends and requests end.                         *)
ScopesAreLive ==
    /\ owner \in up \cup {Nobody}
    /\ \A r \in Asks : asks[r].stage = "pending" => asks[r].conn = owner /\ bound

(* Whatever the gateway awaits is still under way: the chain waits for the *)
(* send of its head and for no other, a turn that ended for its mark or    *)
(* for its last frame, a replay for its next.  A step that forgot one of   *)
(* them would leave the session replying for ever.                         *)
SendsFor(what) ==
    UNION {{wire[c][i].frame : i \in {j \in DOMAIN wire[c] : wire[c][j].for = what}} : c \in Conns}

NothingStuck ==
    /\ \A f \in SendsFor("chain") : chain # <<>> /\ Head(chain).frame = f
    /\ \A t \in Turns :
        /\ turns[t].stage = "draining" <=> \E i \in DOMAIN chain : chain[i] = Mark(t)
        /\ turns[t].stage = "telling" <=> End(t) \in SendsFor("turn")
    /\ \A c \in Conns : replay[c] # <<>> => Replaying(c)
    /\ current # None => turns[current].stage \notin {"none", "over"}

(* An adapter never runs two turns of the session at once, whatever was    *)
(* cancelled, prepared again or called off meanwhile.                      *)
OneTurn ==
    \A t, u \in Turns :
        (/\ ready /\ turns[t].stage = "upstream" /\ turns[u].stage = "upstream"
         /\ turns[t].gen = instance /\ turns[u].gen = instance) => t = u

(* A client listens on a stream of a session that has neither an adapter   *)
(* nor an end to tell.                                                     *)
DeadStream == \E c \in streams : ~Served /\ current = None /\ ~Replaying(c)

(* No step leaves a dead stream, but for two.  A change of settings fences *)
(* the backend before it closes the streams.  And a crash while a turn is  *)
(* being prepared keeps the stream, to tell the end of the turn on it, but *)
(* a preparation that fails or is cancelled clears the turn and closes     *)
(* nothing, against the comments on both handlers: a client of pi, claude  *)
(* or hermes then listens until it closes the stream itself.               *)
NoDeadStream ==
    [][DeadStream' =>
        \/ DeadStream \/ fenced'
        \/ current # None /\ turns[current].stage = "preparing"]_vars

(* Frames on their way to a client, now or after a reconnect. *)
Held ==
    {chain[i].frame : i \in {j \in 1..Len(chain) : chain[j].frame.kind = "chunk"}}
    \cup (UNION {{wire[c][i].frame : i \in 1..Len(wire[c])} : c \in Conns})
    \cup (UNION {{replay[c][i] : i \in 1..Len(replay[c])} : c \in Conns})
    \cup {buffer[i] : i \in 1..Len(buffer)}

Delivers(f) ==
    \E c \in up : wire[c] # <<>> /\ Head(wire[c]).frame = f /\ wire'[c] # wire[c]
                  /\ Len(wire'[c]) <= Len(wire[c])

(* No output is lost on the way but that of a session that is forgotten,   *)
(* what a retired adapter said and what a replay had begun to send when    *)
(* its connection went.                                                    *)
FramesKept ==
    [][\A f \in Held \ Held' :
        \/ Delivers(f) \/ f.kind = "ask"
        \/ bound /\ ~bound'
        \/ chain # <<>> /\ Head(chain).frame = f /\ Head(chain).gen # instance
        \/ \E c \in Conns \ up : Replaying(c) /\ replay'[c] = <<>>]_vars

(* A turn that failed is told to have failed even when a retry has already *)
(* replaced its adapter, one that was answered as long as its adapter is   *)
(* installed when its output has drained, and an end that is being told is *)
(* kept if it cannot be.  An answered turn whose adapter was replaced or   *)
(* fenced while the output drained is outside: it ends untold, although a  *)
(* comment has it that a turn belongs to the session, not to the adapter.  *)
EndIsTold ==
    [][\A t \in Turns :
        (/\ turns'[t].stage = "over"
         /\ \/ turns[t].stage = "telling"
            \/ /\ turns[t].stage = "draining" /\ current = t
               /\ turns[t].failed \/ (~fenced /\ instance = turns[t].gen))
        => End(t) \in Held' \/ Delivers(End(t))]_vars

(* Every prompt that was accepted comes to its end, whatever its           *)
(* connection, its adapter and the settings do: nothing it awaits is       *)
(* waiting for the prompt itself.                                          *)
TurnsEnd == \A t \in Turns : turns[t].stage # "none" ~> turns[t].stage = "over"
=============================================================================
