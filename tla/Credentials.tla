---------------------------- MODULE Credentials ----------------------------
(***************************************************************************)
(* The device credentials of one identity: the Server's Store, the network *)
(* and the API instances (packages/plugin/src/server-api.ts) that share    *)
(* one credential file and its lock (server-credentials.ts), in one        *)
(* process or in several.                                                  *)
(*                                                                         *)
(* An instance has one call at a time; calls that overlap in the code are  *)
(* calls of two instances here, which differ only in what they cache.      *)
(* Acquiring the lock, reading the file and sending the request are one    *)
(* step, since only unlocked calls could come between them, and they may   *)
(* come before.  A request the caller gave up may still be served, unless  *)
(* the Server restarts.  Login itself, and everything an account token     *)
(* needs, is left out: sign-in is its registration request.                *)
(***************************************************************************)
EXTENDS Store

CONSTANTS
    Self,      \* the device of this directory
    Apis,
    Free, Orphan,  \* values of lock: nobody's, and a dead process's
    Skew,      \* how long before its expiry a token is replaced, 30 s
    MaxCalls,  \* bound: calls begun
    MaxCrashes \* bound: crashes of the plugin

ASSUME CredentialsAssumption ==
    /\ Self \in Devices /\ Skew \in Nat /\ MaxCalls \in Nat /\ MaxCrashes \in Nat
    /\ Free \notin Apis /\ Orphan \notin Apis /\ Free # Orphan

VARIABLES
    file,      \* server-credentials.json
    lock,      \* the directory server-credentials.json.refresh-lock
    cached,    \* this.credentials of each instance
    loaded,    \* what the holder of the lock read
    pc, goal,
    call, calls, \* number of the call of each instance; calls begun so far
    requests,  \* on their way to the Server
    replies,   \* on their way back
    crashes,
    reused,    \* history: the Server was presented a used refresh token
    excuses    \* history: what went wrong so far

apiVars == <<file, lock, cached, loaded, pc, goal, call, calls>>
netVars == <<requests, replies>>
vars    == <<storeVars, apiVars, netVars, crashes, reused, excuses>>

Waiting == {"refreshing", "registering", "revoking"}
Creds == [pair : Nat, access : Nat, refresh : Nat]
Excuses == {"refresh lost", "registration lost", "removal lost", "overlap", "reconfigured"}

CredentialsInit ==
    /\ Init
    /\ file = NoCredentials /\ lock = Free
    /\ cached = [a \in Apis |-> NoCredentials] /\ loaded = [a \in Apis |-> NoCredentials]
    /\ pc = [a \in Apis |-> "idle"] /\ goal = [a \in Apis |-> "none"]
    /\ call = [a \in Apis |-> 0] /\ calls = 0
    /\ requests = {} /\ replies = {} /\ crashes = 0
    /\ reused = FALSE /\ excuses = {}

----------------------------------------------------------------------------
(* Steps of a call. *)

Goto(a, where) == pc' = [pc EXCEPT ![a] = where]

Done(a) ==
    /\ Goto(a, "idle") /\ goal' = [goal EXCEPT ![a] = "none"]
    /\ call' = [call EXCEPT ![a] = 0] /\ loaded' = [loaded EXCEPT ![a] = NoCredentials]

Send(a, op, pair) ==
    /\ Goto(a, op) /\ requests' = requests \cup {[id |-> call[a], op |-> op, pair |-> pair]}

Fresh(c) == c.access > now + Skew
ChangesDevice(a) == pc[a] = "registering" \/ goal[a] = "signOut"

Overlaps(a, changes) ==
    \E b \in Apis \ {a} : pc[b] # "idle" /\ (changes \/ ChangesDevice(b))

(* A call begins; history: it overlaps one of another instance, and one of *)
(* the two signs in or out.                                                *)
Begin(a, what, changes) ==
    /\ pc[a] = "idle" /\ calls < MaxCalls
    /\ calls' = calls + 1 /\ call' = [call EXCEPT ![a] = calls + 1]
    /\ goal' = [goal EXCEPT ![a] = what]
    /\ excuses' = IF Overlaps(a, changes) THEN excuses \cup {"overlap"} ELSE excuses
    /\ UNCHANGED <<storeVars, file, lock, loaded, replies, crashes, reused>>

(* authenticate(), when what is cached does not do. *)
Authenticate(a) ==
    /\ ~Fresh(cached[a])
    /\ Begin(a, "authenticate", FALSE)
    /\ Goto(a, "waiting") /\ UNCHANGED <<cached, requests>>

(* refreshCredentials(), after the Server rejected the cached access token *)
(* (close code 4002 of the control connection, 401 of a read).             *)
Recover(a) ==
    /\ cached[a] # NoCredentials /\ ~Authentic(cached[a].pair)
    /\ Begin(a, "recover", FALSE)
    /\ Goto(a, "waiting") /\ UNCHANGED <<cached, requests>>

(* authorizeWithAccount(): registers without taking the lock. *)
SignIn(a) ==
    /\ Begin(a, "signIn", TRUE)
    /\ Goto(a, "registering")
    /\ requests' = requests \cup {[id |-> calls + 1, op |-> "registering", pair |-> 0]}
    /\ UNCHANGED cached

(* revokeCurrentDevice() with nothing on file: clear(). *)
Forget(a) ==
    /\ pc[a] = "idle" /\ file = NoCredentials /\ cached[a] # NoCredentials
    /\ cached' = [cached EXCEPT ![a] = NoCredentials]
    /\ UNCHANGED <<storeVars, file, lock, loaded, pc, goal, call, calls, netVars, crashes, reused, excuses>>

(* Otherwise it authenticates, which may take the lock first. *)
SignOut(a) ==
    /\ file # NoCredentials
    /\ Begin(a, "signOut", TRUE)
    /\ UNCHANGED cached
    /\ \/ /\ Fresh(cached[a]) /\ Goto(a, "revoking")
          /\ requests' = requests \cup {[id |-> calls + 1, op |-> "revoking", pair |-> cached[a].pair]}
       \/ /\ ~Fresh(cached[a]) /\ Goto(a, "waiting") /\ UNCHANGED requests

----------------------------------------------------------------------------
(* withRefreshLock(): loadOrIssue() or the body of refreshCredentials().   *)

(* Nothing on file to refresh: register() without an account token, which  *)
(* this Server refuses.                                                    *)
Hopeless(a) == file.refresh <= now + (IF goal[a] = "recover" THEN 0 ELSE Skew)

(* What is on file is good enough; a recovering instance needs another     *)
(* token than the one that was rejected.                                   *)
GoodEnough(a) == Fresh(file) /\ (goal[a] = "recover" => file.pair # cached[a].pair)

(* Mutant: nobody excludes anybody. *)
LockOpen == TRUE

LockOpens == lock = Free

(* Mutant: the pair in memory is presented, not the one on file. *)
CachedPair(a) == IF cached[a] = NoCredentials THEN file.pair ELSE cached[a].pair

StoredPair(a) == file.pair

Acquire(a) ==
    /\ pc[a] = "waiting" /\ LockOpens
    /\ lock' = a
    /\ \/ /\ Hopeless(a) /\ Goto(a, "throwing") /\ UNCHANGED <<cached, loaded, requests>>
       \/ /\ ~Hopeless(a) /\ GoodEnough(a)
          /\ cached' = [cached EXCEPT ![a] = file] /\ Goto(a, "returning")
          /\ UNCHANGED <<loaded, requests>>
       \/ /\ ~Hopeless(a) /\ ~GoodEnough(a)
          /\ loaded' = [loaded EXCEPT ![a] = file]
          /\ Send(a, "refreshing", StoredPair(a)) /\ UNCHANGED cached
    /\ UNCHANGED <<storeVars, file, goal, call, calls, replies, crashes, reused, excuses>>

(* The end of revokeCurrentDevice(), whatever happened: clear(). *)
Clear(a) == file' = NoCredentials /\ cached' = [cached EXCEPT ![a] = NoCredentials] /\ Done(a)

(* Mutant: no deadline. *)
NeverLate(a) == FALSE

Late(a) == lock # Free

(* Fifteen seconds without the lock. *)
Busy(a) ==
    /\ pc[a] = "waiting" /\ Late(a)
    /\ \/ goal[a] = "signOut" /\ Clear(a)
       \/ goal[a] # "signOut" /\ Done(a) /\ UNCHANGED <<file, cached>>
    /\ UNCHANGED <<storeVars, lock, calls, netVars, crashes, reused, excuses>>

(* Mutant: an error leaves the lock where it is. *)
StillHeld(a) == IF pc[a] = "returning" THEN Free ELSE lock

(* finally: rm(lock) *)
AfterRelease(a) == Free

(* Then the caller goes on: a sign-out revokes, or clears and throws. *)
Release(a) ==
    /\ pc[a] \in {"returning", "throwing"}
    /\ lock' = AfterRelease(a)
    /\ \/ /\ goal[a] = "signOut" /\ pc[a] = "returning"
          /\ Send(a, "revoking", cached[a].pair) /\ UNCHANGED <<file, cached, goal, call, loaded>>
       \/ goal[a] = "signOut" /\ pc[a] = "throwing" /\ Clear(a) /\ UNCHANGED requests
       \/ goal[a] # "signOut" /\ Done(a) /\ UNCHANGED <<file, cached, requests>>
    /\ UNCHANGED <<storeVars, calls, replies, crashes, reused, excuses>>

----------------------------------------------------------------------------
(* Replies.  A reply answers the call that still waits for it. *)

AnswersTo(a, op) == {r.answer : r \in {q \in replies : pc[a] = op /\ q.id = call[a] /\ q.op = op}}
Received(a) == replies' = {r \in replies : r.id # call[a]}

(* rotateCredentials(): the new pair is saved; a rejection is forgiven     *)
(* when another writer saved good credentials meanwhile.                   *)
Forgiven(a, answer) ==
    /\ answer = Reply("AUTH_INVALID")
    /\ file.pair # loaded[a].pair /\ file.refresh > now /\ Fresh(file)

Refreshed(a) ==
    /\ \E answer \in AnswersTo(a, "refreshing") :
          \/ /\ answer.credentials # NoCredentials
             /\ file' = answer.credentials
             /\ cached' = [cached EXCEPT ![a] = answer.credentials] /\ Goto(a, "returning")
          \/ /\ answer.credentials = NoCredentials /\ Forgiven(a, answer)
             /\ cached' = [cached EXCEPT ![a] = file] /\ Goto(a, "returning")
             /\ UNCHANGED file
          \/ /\ answer.credentials = NoCredentials /\ ~Forgiven(a, answer)
             /\ Goto(a, "throwing") /\ UNCHANGED <<file, cached>>
    /\ Received(a)
    /\ UNCHANGED <<storeVars, lock, loaded, goal, call, calls, requests, crashes, reused, excuses>>

Registered(a) ==
    /\ \E answer \in AnswersTo(a, "registering") :
          \/ /\ answer.credentials # NoCredentials
             /\ file' = answer.credentials /\ cached' = [cached EXCEPT ![a] = answer.credentials]
          \/ answer.credentials = NoCredentials /\ UNCHANGED <<file, cached>>
    /\ Received(a) /\ Done(a)
    /\ UNCHANGED <<storeVars, lock, calls, requests, crashes, reused, excuses>>

Revoked(a) ==
    /\ AnswersTo(a, "revoking") # {}
    /\ Received(a) /\ Clear(a)
    /\ UNCHANGED <<storeVars, lock, calls, requests, crashes, reused, excuses>>

Lost(a) ==
    CASE pc[a] = "refreshing"  -> {"refresh lost"}
      [] pc[a] = "registering" -> {"registration lost"}
      [] pc[a] = "revoking"    -> {"removal lost"}
      [] OTHER                 -> {}

(* The ten seconds of publicRequest() are over, the connection fails, or   *)
(* the file cannot be written.                                             *)
GiveUp(a) ==
    /\ pc[a] \in Waiting
    /\ Received(a)
    /\ excuses' = excuses \cup Lost(a)
    /\ \/ /\ pc[a] = "refreshing" /\ Goto(a, "throwing")
          /\ UNCHANGED <<file, cached, goal, call, loaded>>
       \/ pc[a] = "registering" /\ Done(a) /\ UNCHANGED <<file, cached>>
       \/ pc[a] = "revoking" /\ Clear(a)
    /\ UNCHANGED <<storeVars, lock, calls, requests, crashes, reused>>

(* The process dies: its lock stays. *)
Crash(a) ==
    /\ crashes < MaxCrashes /\ crashes' = crashes + 1
    /\ Done(a) /\ cached' = [cached EXCEPT ![a] = NoCredentials]
    /\ lock' = IF lock = a THEN Orphan ELSE lock
    /\ Received(a)
    /\ excuses' = excuses \cup Lost(a)
    /\ UNCHANGED <<storeVars, file, calls, requests, reused>>

(* "After a crash, stop all instances before removing the orphaned lock."  *)
RemoveOrphan ==
    /\ lock = Orphan /\ \A a \in Apis : pc[a] = "idle"
    /\ lock' = Free
    /\ UNCHANGED <<storeVars, file, cached, loaded, pc, goal, call, calls, netVars, crashes, reused, excuses>>

----------------------------------------------------------------------------
(* The Server. *)

Failures == {Reply("INTERNAL_ERROR"), Reply("RATE_LIMITED")}

FailureOf(op, answer) ==
    IF answer \notin Failures THEN {}
    ELSE IF op = "refreshing" THEN {"refresh lost"}
    ELSE IF op = "registering" THEN {"registration lost"} ELSE {}

Awaited(m) == \E a \in Apis : call[a] = m.id /\ pc[a] = m.op

Serve(m) ==
    /\ m \in requests /\ requests' = requests \ {m}
    /\ \E answer \in Answers :
          /\ \/ m.op = "refreshing" /\ Refresh(Self, m.pair, answer)
             \/ m.op = "registering" /\ Register(Self, answer)
             \/ m.op = "revoking" /\ RevokeSelf(m.pair, answer)
          /\ replies' = IF Awaited(m) THEN replies \cup {[id |-> m.id, op |-> m.op, answer |-> answer]}
                        ELSE replies
          /\ excuses' = excuses \cup FailureOf(m.op, answer)
    /\ reused' = (reused \/ (m.op = "refreshing" /\ Reuse(Self, m.pair)))
    /\ UNCHANGED <<apiVars, crashes>>

(* A restart breaks the connections that carry requests. *)
ServerRestarts(c) ==
    /\ Restart(c) /\ requests' = {}
    /\ excuses' = IF SameConfig(c) THEN excuses ELSE excuses \cup {"reconfigured"}
    /\ UNCHANGED <<apiVars, replies, crashes, reused>>

(* The hello of an instance, with the token it has. *)
Hello(a) ==
    /\ Authentic(cached[a].pair)
    /\ Touch(Self)
    /\ UNCHANGED <<apiVars, netVars, crashes, reused, excuses>>

TimePasses == Tick /\ UNCHANGED <<apiVars, netVars, crashes, reused, excuses>>

ApiSteps(a) ==
    \/ Authenticate(a) \/ Recover(a) \/ SignIn(a) \/ SignOut(a) \/ Forget(a)
    \/ Acquire(a) \/ Busy(a) \/ Release(a)
    \/ Refreshed(a) \/ Registered(a) \/ Revoked(a) \/ GiveUp(a) \/ Crash(a)
    \/ Hello(a)

CredentialsNext ==
    \/ \E a \in Apis : ApiSteps(a)
    \/ \E m \in requests : Serve(m)
    \/ \E c \in Configs : ServerRestarts(c)
    \/ RemoveOrphan \/ TimePasses

(* Timers fire and file operations end; nothing is assumed of the Server.  *)
Fairness ==
    \A a \in Apis :
        WF_vars(Acquire(a) \/ Busy(a)) /\ WF_vars(GiveUp(a)) /\ WF_vars(Release(a))

CredentialsSpec == CredentialsInit /\ [][CredentialsNext]_vars
FairSpec == CredentialsSpec /\ Fairness

----------------------------------------------------------------------------
(* Types, and who holds the lock. *)
CredentialsTypeOK ==
    /\ file \in Creds /\ lock \in Apis \cup {Free, Orphan}
    /\ cached \in [Apis -> Creds] /\ loaded \in [Apis -> Creds]
    /\ pc \in [Apis -> {"idle", "waiting", "returning", "throwing"} \cup Waiting]
    /\ goal \in [Apis -> {"none", "authenticate", "recover", "signIn", "signOut"}]
    /\ call \in [Apis -> Nat] /\ calls \in Nat /\ crashes \in Nat
    /\ requests \subseteq [id : Nat, op : Waiting, pair : Nat]
    /\ replies \subseteq [id : Nat, op : Waiting, answer : [code : Codes, credentials : Creds]]
    /\ reused \in BOOLEAN /\ excuses \subseteq Excuses
    /\ \A a \in Apis : pc[a] \in {"refreshing", "returning", "throwing"} <=> lock = a

(* However the instances authenticate, recover, sign in and sign out, the  *)
(* Server only sees a refresh token twice, and voids the device for it,    *)
(* after an answer to a rotation was lost (withRefreshLock, the reading of *)
(* the file under the lock, rotateCredentials).                            *)
ReuseNeedsLoss == reused => "refresh lost" \in excuses

(* As long as nothing went wrong and no sign-in or sign-out overlapped     *)
(* another call, the credentials on file are those the Server will accept: *)
(* no instance loses the pair another one obtained.                        *)
QuietFileIsLive ==
    (excuses = {} /\ file # NoCredentials /\ \A a \in Apis : pc[a] = "idle") =>
        \/ file.refresh <= now
        \/ \E t \in Presented(Self, file.pair) : ~t.used

(* "A delayed rejection must not discard credentials another writer saved" *)
(* (rotateCredentials), and a delayed success should not either: the pair  *)
(* a rotation saves is not older than the one it replaces on file.         *)
RotationKeepsNewer ==
    [][\A a \in Apis : pc[a] = "refreshing" /\ pc'[a] = "returning" => file'.pair >= file.pair]_vars

(* Every call ends, also beside a lock that nobody will ever remove and a  *)
(* Server that never answers.                                              *)
CallsEnd == \A a \in Apis : pc[a] # "idle" ~> pc[a] = "idle"
=============================================================================
