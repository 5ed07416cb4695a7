------------------------- MODULE CredentialsProofs -------------------------
(***************************************************************************)
(* Proofs about Credentials, for every set of instances, every             *)
(* configuration of the Server and every bound.  Each invariant builds on  *)
(* the ones before it: who is calling and holds the lock; what is on its   *)
(* way; which refresh tokens are spent; and, as long as nothing went       *)
(* wrong, which credentials still work.  The Server is the Store, whose    *)
(* invariant holds because every step of Credentials is one of Store.      *)
(***************************************************************************)
EXTENDS Credentials, StoreProofs

USE CredentialsAssumption DEF CredentialsAssumption

(***************************************************************************)
(* Calls, numbered as they begin, and the lock.                            *)
(***************************************************************************)
Holding == {"refreshing", "returning", "throwing"}

NoCall(a) == pc[a] = "idle" /\ call[a] = 0
InCall(a) == pc[a] # "idle" /\ call[a] \in 1 .. calls

CallInv ==
    /\ \A a \in Apis : NoCall(a) \/ InCall(a)
    /\ \A a, b \in Apis : call[a] = call[b] => a = b \/ call[a] = 0
    /\ \A a \in Apis : pc[a] = "revoking" => goal[a] = "signOut"

Calls == CredentialsTypeOK /\ CallInv

PcValues == {"idle", "waiting", "returning", "throwing"} \cup Waiting
Goals == {"none", "authenticate", "recover", "signIn", "signOut"}
Requests == [id : Nat, op : Waiting, pair : Nat]
ReplyValues == [id : Nat, op : Waiting, answer : [code : Codes, credentials : Creds]]

LEMMA NoCredentialsType == NoCredentials \in Creds
  BY DEF NoCredentials, Creds

(* Pieces of steps. *)
LEMMA DoneCalls ==
    ASSUME Calls, NEW a \in Apis, Done(a)
    PROVE  /\ pc' \in [Apis -> PcValues] /\ goal' \in [Apis -> Goals] /\ call' \in [Apis -> Nat]
           /\ loaded' \in [Apis -> Creds]
           /\ pc'[a] = "idle" /\ call'[a] = 0
           /\ \A b \in Apis \ {a} : pc'[b] = pc[b] /\ call'[b] = call[b] /\ goal'[b] = goal[b]
  BY NoCredentialsType DEF Calls, CredentialsTypeOK, Done, Goto, PcValues, Goals

(* A call that ends, its lock with it. *)
LEMMA EndKeeps ==
    ASSUME Calls, NEW a \in Apis, Done(a), calls' = calls,
           \/ pc[a] \notin Holding /\ lock' = lock
           \/ lock' \in {Free, Orphan} /\ (lock = a \/ lock' = lock)
    PROVE  CallInv' /\ \A b \in Apis : pc'[b] \in Holding <=> lock' = b
  <1>1. /\ pc'[a] = "idle" /\ call'[a] = 0
        /\ \A b \in Apis \ {a} : pc'[b] = pc[b] /\ call'[b] = call[b] /\ goal'[b] = goal[b]
    BY DoneCalls
  <1>2. CallInv'
    BY <1>1 DEF Calls, CallInv, NoCall, InCall
  <1>3. ASSUME NEW b \in Apis PROVE pc'[b] \in Holding <=> lock' = b
    <2>1. \A e \in Apis : pc[e] \in Holding <=> lock = e
      BY DEF Calls, CredentialsTypeOK, Holding
    <2>2. CASE b = a
      <3>1. pc'[b] \notin Holding
        BY <1>1, <2>2 DEF Holding
      <3> QED BY <2>1, <2>2, <3>1
    <2>3. CASE b # a
      BY <1>1, <2>1, <2>3
    <2> QED BY <2>2, <2>3
  <1> QED BY <1>2, <1>3

(* A call that goes on, and takes, keeps or leaves the lock. *)
LEMMA GotoKeeps ==
    ASSUME Calls, NEW a \in Apis, NEW w \in PcValues, Goto(a, w), w # "idle", pc[a] # "idle",
           UNCHANGED <<call, calls, goal>>,
           w = "revoking" => goal[a] = "signOut",
           \/ w \in Holding /\ lock' = a /\ lock \in {a, Free}
           \/ w \notin Holding /\ pc[a] \in Holding /\ lock' = Free
    PROVE  /\ CallInv' /\ pc' \in [Apis -> PcValues]
           /\ \A b \in Apis : pc'[b] \in Holding <=> lock' = b
  <1>1. /\ pc'[a] = w /\ pc' \in [Apis -> PcValues]
        /\ \A b \in Apis \ {a} : pc'[b] = pc[b]
    BY DEF Calls, CredentialsTypeOK, Goto, PcValues
  <1>2. CallInv'
    BY <1>1 DEF Calls, CallInv, NoCall, InCall
  <1>3. ASSUME NEW b \in Apis PROVE pc'[b] \in Holding <=> lock' = b
    <2>1. \A e \in Apis : pc[e] \in Holding <=> lock = e
      BY DEF Calls, CredentialsTypeOK, Holding
    <2> QED BY <1>1, <2>1
  <1> QED BY <1>1, <1>2, <1>3

(* A call that begins. *)
LEMMA BeginKeeps ==
    ASSUME Calls, NEW a \in Apis, NEW what \in Goals \ {"none"}, NEW changes, NEW w \in PcValues,
           Begin(a, what, changes), Goto(a, w), w \notin Holding, w # "idle",
           w = "revoking" => what = "signOut"
    PROVE  /\ CallInv' /\ pc' \in [Apis -> PcValues] /\ goal' \in [Apis -> Goals]
           /\ call' \in [Apis -> Nat] /\ calls' \in Nat /\ excuses' \subseteq Excuses
           /\ \A b \in Apis : pc'[b] \in Holding <=> lock' = b
           /\ pc'[a] = w /\ call'[a] = calls + 1 /\ calls' = calls + 1 /\ goal'[a] = what
           /\ \A b \in Apis \ {a} : pc'[b] = pc[b] /\ call'[b] = call[b] /\ goal'[b] = goal[b]
  <1>1. /\ calls \in Nat /\ pc[a] = "idle" /\ calls' = calls + 1 /\ lock' = lock
        /\ pc'[a] = w /\ call'[a] = calls + 1 /\ goal'[a] = what
        /\ \A b \in Apis \ {a} : pc'[b] = pc[b] /\ call'[b] = call[b] /\ goal'[b] = goal[b]
        /\ pc' \in [Apis -> PcValues] /\ goal' \in [Apis -> Goals] /\ call' \in [Apis -> Nat]
    BY DEF Calls, CredentialsTypeOK, Begin, Goto, PcValues, Goals
  <1>2. CallInv'
    BY <1>1 DEF Calls, CallInv, NoCall, InCall
  <1>3. \A b \in Apis : pc'[b] \in Holding <=> lock' = b
    <2>1. \A e \in Apis : pc[e] \in Holding <=> lock = e
      BY DEF Calls, CredentialsTypeOK, Holding
    <2>2. "idle" \notin Holding
      BY DEF Holding
    <2> QED BY <1>1, <2>1, <2>2
  <1>4. excuses' \subseteq Excuses
    BY DEF Begin, Calls, CredentialsTypeOK, Excuses
  <1> QED BY <1>1, <1>2, <1>3, <1>4

(* What a step leaves to be shown of the types. *)
TypesLeft ==
    /\ file \in Creds /\ lock \in Apis \cup {Free, Orphan}
    /\ cached \in [Apis -> Creds] /\ loaded \in [Apis -> Creds]
    /\ crashes \in Nat /\ requests \subseteq Requests /\ replies \subseteq ReplyValues
    /\ reused \in BOOLEAN /\ excuses \subseteq Excuses

CallsLeft ==
    /\ pc \in [Apis -> PcValues] /\ goal \in [Apis -> Goals]
    /\ call \in [Apis -> Nat] /\ calls \in Nat
    /\ CallInv /\ \A a \in Apis : pc[a] \in Holding <=> lock = a

LEMMA CallsParts == (Calls <=> TypesLeft /\ CallsLeft) /\ (TypesLeft' /\ CallsLeft' => Calls')
  BY DEF Calls, CredentialsTypeOK, TypesLeft, CallsLeft, PcValues, Goals, Requests, ReplyValues,
         Holding

LEMMA BeginCalls ==
    ASSUME Calls, NEW a \in Apis,
           Authenticate(a) \/ Recover(a) \/ SignIn(a) \/ SignOut(a)
    PROVE  Calls'
<1>0. TypesLeft /\ CallsLeft /\ calls + 1 \in Nat
  BY CallsParts DEF CallsLeft
<1>1. PICK what \in Goals \ {"none"}, changes \in BOOLEAN, w \in {"waiting", "registering", "revoking"} :
         /\ Begin(a, what, changes) /\ Goto(a, w) /\ UNCHANGED cached
         /\ w = "revoking" => what = "signOut"
         /\ \/ requests' = requests
            \/ /\ w \in Waiting
               /\ \E n \in {0, cached[a].pair} :
                     requests' = requests \cup {[id |-> calls + 1, op |-> w, pair |-> n]}
  <2>1. CASE Authenticate(a)
    BY <2>1 DEF Authenticate, Goals
  <2>2. CASE Recover(a)
    BY <2>2 DEF Recover, Goals
  <2>3. CASE SignIn(a)
    BY <2>3 DEF SignIn, Goals, Waiting
  <2>4. CASE SignOut(a)
    BY <2>4 DEF SignOut, Goals, Waiting
  <2> QED BY <2>1, <2>2, <2>3, <2>4
<1>2. w \in PcValues \ {"idle"} /\ w \notin Holding
  BY DEF PcValues, Waiting, Holding
<1>3. CallsLeft' /\ excuses' \subseteq Excuses
  BY <1>1, <1>2, BeginKeeps DEF CallsLeft
<1>4. requests' \subseteq Requests
  BY <1>0, <1>1 DEF TypesLeft, Requests, Creds
<1>5. TypesLeft'
  BY <1>0, <1>1, <1>3, <1>4 DEF TypesLeft, Begin
<1> QED BY <1>3, <1>5, CallsParts

LEMMA LockCalls ==
    ASSUME Calls, NEW a \in Apis, Acquire(a) \/ Release(a) \/ Busy(a)
    PROVE  Calls'
<1>0. TypesLeft /\ CallsLeft
  BY CallsParts
<1>1. CASE Acquire(a)
  <2>1. PICK w \in {"throwing", "returning", "refreshing"} :
           /\ Goto(a, w) /\ lock' = a /\ lock = Free /\ pc[a] = "waiting"
           /\ UNCHANGED <<call, calls, goal, file, replies, crashes, reused, excuses>>
    BY <1>1 DEF Acquire, LockOpens, Send
  <2>2. CallsLeft'
    <3>1. w \in PcValues /\ w # "idle" /\ w \in Holding
      BY DEF PcValues, Waiting, Holding
    <3> QED BY <1>0, <2>1, <3>1, GotoKeeps DEF CallsLeft
  <2>3. cached' \in [Apis -> Creds] /\ loaded' \in [Apis -> Creds]
    BY <1>0, <1>1 DEF Acquire, TypesLeft
  <2>4. requests' \subseteq Requests
    <3>1. call[a] \in Nat /\ file.pair \in Nat
      BY <1>0 DEF TypesLeft, CallsLeft, Creds
    <3> QED BY <1>0, <1>1, <3>1 DEF Acquire, Send, StoredPair, TypesLeft, Requests, Waiting
  <2> QED BY <1>0, <2>1, <2>2, <2>3, <2>4, CallsParts DEF TypesLeft
<1>2. CASE Release(a)
  <2>0. /\ lock' = Free /\ lock = a /\ pc[a] \in Holding
        /\ UNCHANGED <<calls, replies, crashes, reused, excuses>>
    BY <1>0, <1>2 DEF Release, AfterRelease, Holding, CallsLeft
  <2>1. CASE /\ goal[a] = "signOut" /\ Send(a, "revoking", cached[a].pair)
             /\ UNCHANGED <<file, cached, goal, call, loaded>>
    <3>1. CallsLeft'
      <4>1. "revoking" \in PcValues /\ "revoking" # "idle" /\ "revoking" \notin Holding
            /\ pc[a] # "idle"
        BY <2>0 DEF PcValues, Waiting, Holding
      <4> QED BY <1>0, <2>0, <2>1, <4>1, GotoKeeps DEF CallsLeft, Send
    <3>2. requests' \subseteq Requests
      <4>1. call[a] \in Nat /\ cached[a].pair \in Nat
        BY <1>0 DEF TypesLeft, CallsLeft, Creds
      <4> QED BY <1>0, <2>1, <4>1 DEF Send, TypesLeft, Requests, Waiting
    <3> QED BY <1>0, <2>0, <2>1, <3>1, <3>2, CallsParts DEF TypesLeft
  <2>2. CASE /\ Done(a) /\ requests' = requests
             /\ file' \in {file, NoCredentials}
             /\ cached' \in {cached, [cached EXCEPT ![a] = NoCredentials]}
    <3>1. CallsLeft' /\ loaded' \in [Apis -> Creds]
      BY <1>0, <2>0, <2>2, DoneCalls, EndKeeps DEF CallsLeft
    <3> QED BY <1>0, <2>0, <2>2, <3>1, CallsParts, NoCredentialsType DEF TypesLeft
  <2> QED BY <1>2, <2>1, <2>2 DEF Release, Clear
<1>3. CASE Busy(a)
  <2>0. /\ pc[a] \notin Holding /\ UNCHANGED <<lock, calls, requests, replies, crashes, reused, excuses>>
        /\ Done(a) /\ file' \in {file, NoCredentials}
        /\ cached' \in {cached, [cached EXCEPT ![a] = NoCredentials]}
    BY <1>3 DEF Busy, Clear, Holding, netVars
  <2>1. CallsLeft' /\ loaded' \in [Apis -> Creds]
    BY <1>0, <2>0, DoneCalls, EndKeeps DEF CallsLeft
  <2> QED BY <1>0, <2>0, <2>1, CallsParts, NoCredentialsType DEF TypesLeft
<1> QED BY <1>1, <1>2, <1>3

LEMMA LostType == ASSUME NEW a PROVE Lost(a) \subseteq Excuses
<1>1. CASE pc[a] = "refreshing"
  BY <1>1 DEF Lost, Excuses
<1>2. CASE pc[a] = "registering"
  BY <1>2 DEF Lost, Excuses
<1>3. CASE pc[a] = "revoking"
  BY <1>3 DEF Lost, Excuses
<1> QED BY <1>1, <1>2, <1>3 DEF Lost, Excuses

(* The file and the cache after an answer, or without one. *)
LEMMA AnswerType ==
    ASSUME Calls, NEW a \in Apis, NEW op, NEW answer \in AnswersTo(a, op)
    PROVE  answer.credentials \in Creds /\ pc[a] = op
           /\ \E q \in replies : q.id = call[a] /\ q.op = op /\ q.answer = answer
  BY DEF AnswersTo, Calls, CredentialsTypeOK

LEMMA ReplyCalls ==
    ASSUME Calls, NEW a \in Apis, Refreshed(a) \/ Registered(a) \/ Revoked(a)
    PROVE  Calls'
<1>0. TypesLeft /\ CallsLeft
  BY CallsParts
<1>1. replies' \subseteq replies
  BY DEF Refreshed, Registered, Revoked, Received
<1>2. CASE Refreshed(a)
  <2>1. PICK answer \in AnswersTo(a, "refreshing") :
           /\ file' \in {file, answer.credentials}
           /\ \/ cached' = cached
              \/ cached' = [cached EXCEPT ![a] = file]
              \/ cached' = [cached EXCEPT ![a] = answer.credentials]
           /\ \E w \in {"returning", "throwing"} : Goto(a, w)
    BY <1>2 DEF Refreshed
  <2>2. answer.credentials \in Creds /\ pc[a] = "refreshing"
    BY <2>1, AnswerType
  <2>3. /\ UNCHANGED <<lock, loaded, goal, call, calls, requests, crashes, reused, excuses>>
        /\ lock = a
    BY <1>0, <1>2, <2>2 DEF Refreshed, CallsLeft, Holding
  <2>4. CallsLeft'
    <3>1. PICK w \in {"returning", "throwing"} : Goto(a, w)
      BY <2>1
    <3>2. w \in PcValues /\ w # "idle" /\ w \in Holding /\ w # "revoking"
      BY DEF PcValues, Holding
    <3> QED BY <1>0, <2>2, <2>3, <3>1, <3>2, GotoKeeps DEF CallsLeft
  <2>5. file' \in Creds /\ cached' \in [Apis -> Creds]
    BY <1>0, <2>1, <2>2 DEF TypesLeft
  <2> QED BY <1>0, <1>1, <2>3, <2>4, <2>5, CallsParts DEF TypesLeft
<1>3. CASE Registered(a) \/ Revoked(a)
  <2>1. /\ Done(a) /\ pc[a] \in {"registering", "revoking"}
        /\ UNCHANGED <<lock, calls, requests, crashes, reused, excuses>>
    BY <1>3 DEF Registered, Revoked, AnswersTo, Clear
  <2>2. file' \in Creds /\ cached' \in [Apis -> Creds]
    <3>1. CASE Registered(a)
      <4>1. PICK answer \in AnswersTo(a, "registering") :
               \/ file' = answer.credentials /\ cached' = [cached EXCEPT ![a] = answer.credentials]
               \/ UNCHANGED <<file, cached>>
        BY <3>1 DEF Registered
      <4>2. answer.credentials \in Creds
        BY <4>1, AnswerType
      <4> QED BY <1>0, <4>1, <4>2 DEF TypesLeft
    <3>2. CASE Revoked(a)
      BY <1>0, <3>2, NoCredentialsType DEF Revoked, Clear, TypesLeft
    <3> QED BY <1>3, <3>1, <3>2
  <2>3. CallsLeft' /\ loaded' \in [Apis -> Creds]
    <3>1. pc[a] \notin Holding
      BY <2>1 DEF Holding
    <3> QED BY <1>0, <2>1, <3>1, DoneCalls, EndKeeps DEF CallsLeft
  <2> QED BY <1>0, <1>1, <2>1, <2>2, <2>3, CallsParts DEF TypesLeft
<1> QED BY <1>2, <1>3

LEMMA FailureCalls ==
    ASSUME Calls, NEW a \in Apis, GiveUp(a) \/ Crash(a)
    PROVE  Calls'
<1>0. TypesLeft /\ CallsLeft
  BY CallsParts
<1>1. replies' \subseteq replies /\ excuses' \subseteq Excuses
      /\ UNCHANGED <<calls, requests, reused>>
  BY <1>0, LostType DEF GiveUp, Crash, Received, TypesLeft
<1>2. CASE GiveUp(a) /\ pc[a] = "refreshing"
  <2>1. /\ Goto(a, "throwing") /\ lock = a
        /\ UNCHANGED <<file, cached, goal, call, loaded, lock, crashes>>
    BY <1>0, <1>2 DEF GiveUp, Clear, CallsLeft, Holding
  <2>2. CallsLeft'
    <3>1. "throwing" \in PcValues \ {"idle"} /\ "throwing" \in Holding
      BY DEF PcValues, Holding
    <3> QED BY <1>0, <1>1, <1>2, <2>1, <3>1, GotoKeeps DEF CallsLeft
  <2> QED BY <1>0, <1>1, <2>1, <2>2, CallsParts DEF TypesLeft
<1>3. CASE GiveUp(a) /\ pc[a] # "refreshing"
  <2>1. /\ Done(a) /\ pc[a] \notin Holding /\ UNCHANGED <<lock, crashes>>
        /\ file' \in {file, NoCredentials}
        /\ cached' \in {cached, [cached EXCEPT ![a] = NoCredentials]}
    BY <1>3 DEF GiveUp, Clear, Waiting, Holding
  <2>2. CallsLeft' /\ loaded' \in [Apis -> Creds]
    BY <1>0, <1>1, <2>1, DoneCalls, EndKeeps DEF CallsLeft
  <2> QED BY <1>0, <1>1, <2>1, <2>2, CallsParts, NoCredentialsType DEF TypesLeft
<1>4. CASE Crash(a)
  <2>1. /\ Done(a) /\ crashes' = crashes + 1 /\ UNCHANGED file
        /\ lock' = IF lock = a THEN Orphan ELSE lock
        /\ cached' = [cached EXCEPT ![a] = NoCredentials]
    BY <1>4 DEF Crash
  <2>2. \/ pc[a] \notin Holding /\ lock' = lock
        \/ lock' \in {Free, Orphan} /\ lock = a
    BY <1>0, <2>1 DEF CallsLeft
  <2>3. CallsLeft' /\ loaded' \in [Apis -> Creds]
    BY <1>0, <1>1, <2>1, <2>2, DoneCalls, EndKeeps DEF CallsLeft
  <2> QED BY <1>0, <1>1, <2>1, <2>3, CallsParts, NoCredentialsType DEF TypesLeft
<1> QED BY <1>2, <1>3, <1>4

LEMMA AnswersTyped ==
    ASSUME IInv, NEW answer \in Answers
    PROVE  answer \in [code : Codes, credentials : Creds]
<1>1. CASE answer \in {Reply(c) : c \in Codes}
  BY <1>1, NoCredentialsType DEF Reply
<1>2. ASSUME NEW r \in Nat, answer = Granted(r)
      PROVE  answer \in [code : Codes, credentials : Creds]
  <2>1. now + AccessLife \in Nat /\ pairs + 1 \in Nat
    BY StoreAssumption DEF StoreAssumption, IInv, Numbers
  <2> QED BY <1>2, <2>1 DEF Granted, Creds, Codes
<1>3. now + RefreshLife \in Nat /\ \A t \in tokens : t.expires \in Nat
  BY StoreAssumption DEF StoreAssumption, IInv, Numbers, Sound, Token
<1> QED BY <1>1, <1>2, <1>3 DEF Answers

LEMMA ServerCalls ==
    ASSUME Calls, IInv,
           \/ \E m \in requests : Serve(m)
           \/ \E c \in Configs : ServerRestarts(c)
           \/ RemoveOrphan \/ TimePasses
           \/ \E a \in Apis : Forget(a) \/ Hello(a)
    PROVE  Calls'
<1>0. TypesLeft /\ CallsLeft
  BY CallsParts
<1>1. ASSUME NEW m \in requests, Serve(m) PROVE Calls'
  <2>1. PICK answer \in Answers :
           /\ replies' = IF Awaited(m)
                         THEN replies \cup {[id |-> m.id, op |-> m.op, answer |-> answer]}
                         ELSE replies
           /\ excuses' = excuses \cup FailureOf(m.op, answer)
    BY <1>1 DEF Serve
  <2>2. /\ requests' \subseteq requests /\ UNCHANGED <<apiVars, crashes>>
        /\ reused' = (reused \/ (m.op = "refreshing" /\ Reuse(Self, m.pair)))
    BY <1>1 DEF Serve
  <2>3. replies' \subseteq ReplyValues
    <3>1. m \in Requests /\ answer \in [code : Codes, credentials : Creds]
      BY <1>0, AnswersTyped DEF TypesLeft
    <3>2. [id |-> m.id, op |-> m.op, answer |-> answer] \in ReplyValues
      BY <3>1 DEF Requests, ReplyValues
    <3> QED BY <1>0, <2>1, <3>2 DEF TypesLeft
  <2>4. excuses' \subseteq Excuses
    BY <1>0, <2>1 DEF TypesLeft, FailureOf, Excuses
  <2>5. reused' \in BOOLEAN
    BY <1>0, <2>2 DEF TypesLeft
  <2>6. CallsLeft'
    BY <1>0, <2>2 DEF apiVars, CallsLeft, CallInv, NoCall, InCall
  <2> QED BY <1>0, <2>2, <2>3, <2>4, <2>5, <2>6, CallsParts DEF TypesLeft, apiVars
<1>2. ASSUME NEW c \in Configs, ServerRestarts(c) PROVE Calls'
  <2>1. /\ requests' = {} /\ excuses' \subseteq excuses \cup {"reconfigured"}
        /\ UNCHANGED <<apiVars, replies, crashes, reused>>
    BY <1>2 DEF ServerRestarts
  <2>2. CallsLeft'
    BY <1>0, <2>1 DEF apiVars, CallsLeft, CallInv, NoCall, InCall
  <2> QED BY <1>0, <2>1, <2>2, CallsParts DEF TypesLeft, apiVars, Excuses
<1>3. CASE RemoveOrphan
  <2>1. /\ lock' = Free /\ \A a \in Apis : pc[a] = "idle"
        /\ UNCHANGED <<file, cached, loaded, pc, goal, call, calls, netVars, crashes, reused, excuses>>
    BY <1>3 DEF RemoveOrphan
  <2>2. CallsLeft'
    BY <1>0, <2>1 DEF CallsLeft, CallInv, NoCall, InCall, Holding
  <2> QED BY <1>0, <2>1, <2>2, CallsParts DEF TypesLeft, netVars
<1>4. CASE TimePasses \/ \E a \in Apis : Hello(a)
  <2>1. UNCHANGED <<apiVars, netVars, crashes, reused, excuses>>
    BY <1>4 DEF TimePasses, Hello
  <2>2. CallsLeft'
    BY <1>0, <2>1 DEF apiVars, CallsLeft, CallInv, NoCall, InCall
  <2> QED BY <1>0, <2>1, <2>2, CallsParts DEF TypesLeft, apiVars, netVars
<1>5. ASSUME NEW a \in Apis, Forget(a) PROVE Calls'
  <2>1. /\ UNCHANGED <<file, lock, loaded, pc, goal, call, calls, netVars, crashes, reused, excuses>>
        /\ cached' = [cached EXCEPT ![a] = NoCredentials]
    BY <1>5 DEF Forget
  <2>2. CallsLeft'
    BY <1>0, <2>1 DEF CallsLeft, CallInv, NoCall, InCall
  <2> QED BY <1>0, <2>1, <2>2, CallsParts, NoCredentialsType DEF TypesLeft, netVars
<1> QED BY <1>1, <1>2, <1>3, <1>4, <1>5

LEMMA StepCalls == ASSUME Calls, IInv, [CredentialsNext]_vars PROVE Calls'
<1>1. CASE UNCHANGED vars
  BY <1>1 DEF vars, apiVars, netVars, Calls, CredentialsTypeOK, CallInv, NoCall, InCall
<1>2. CASE CredentialsNext
  BY <1>2, BeginCalls, LockCalls, ReplyCalls, FailureCalls, ServerCalls
     DEF CredentialsNext, ApiSteps
<1> QED BY <1>1, <1>2

LEMMA InitCalls == CredentialsInit => Calls
<1> SUFFICES ASSUME CredentialsInit PROVE Calls
  OBVIOUS
<1>1. TypesLeft
  BY NoCredentialsType DEF CredentialsInit, TypesLeft
<1>2. CallsLeft
  BY DEF CredentialsInit, CallsLeft, CallInv, NoCall, InCall, PcValues, Goals, Holding
<1> QED BY <1>1, <1>2, CallsParts

----------------------------------------------------------------------------
(***************************************************************************)
(* What a request does to the Store, as far as a client can tell: the      *)
(* tokens are old ones, the pair just issued, unused, or of the pair p     *)
(* that was presented; what is granted is that new pair.                   *)
(***************************************************************************)
Works(c, ts) ==
    \E t \in ts : /\ t.kind = "refresh" /\ t.pair = c.pair /\ t.deviceId = Self
                  /\ ~t.used /\ t.expires = c.refresh

Stored == tokens \cup disk.tokens

Effect(p, answer) ==
    /\ pairs' \in {pairs, pairs + 1} /\ answered \subseteq answered'
    /\ \A t \in tokens' \cup disk'.tokens :
          \/ t \in Stored
          \/ pairs' = pairs + 1 /\ t.pair = pairs + 1 /\ ~t.used
          \/ \E s \in Stored : s.pair = p /\ t.pair = p
    /\ answer.credentials = NoCredentials
       \/ /\ pairs' = pairs + 1 /\ answer.credentials.pair = pairs + 1
          /\ pairs + 1 \in answered' /\ Works(answer.credentials, tokens')

LEMMA SameEffect == ASSUME IInv, UNCHANGED storeVars, NEW c, NEW p PROVE Effect(p, Reply(c))
  BY DEF storeVars, Effect, Stored, Reply

LEMMA IssueEffect ==
    ASSUME IInv, NEW r, NEW ts, NEW written, NEW answer, NEW p,
           Issue(Self, r, ts, written, answer),
           \A t \in ts \cup written.tokens :
               t \in Stored \/ \E s \in Stored : s.pair = p /\ t.pair = p
    PROVE  /\ Effect(p, answer)
           /\ answer.credentials = NoCredentials => answer \in Failures
<1> DEFINE new == {NewToken("access", Self, now + AccessLife), NewToken("refresh", Self, r)}
<1>1. Unexpired(ts) \subseteq ts /\ pairs \in Nat
  BY DEF Unexpired, IInv, Numbers
<1>2. \A t \in new : t.pair = pairs + 1 /\ ~t.used
  BY DEF NewToken
<1>3. CASE /\ tokens' = Unexpired(ts) /\ disk' = written /\ answer = Reply("RATE_LIMITED")
           /\ UNCHANGED <<pairs, answered, saveFailures>>
  BY <1>1, <1>3 DEF Effect, Reply, Failures
<1>4. CASE /\ tokens' = Unexpired(ts) \cup new /\ pairs' = pairs + 1
           /\ disk' = Image(devices', tokens')
           /\ answer = Granted(r) /\ answered' = answered \cup {pairs + 1}
  <2>1. Works(answer.credentials, tokens') /\ answer.credentials.pair = pairs + 1
        /\ answer.credentials # NoCredentials
    <3>1. NewToken("refresh", Self, r) \in tokens'
      BY <1>4
    <3>2. answer.credentials.pair = pairs + 1 /\ answer.credentials.refresh = r
      BY <1>4 DEF Granted
    <3>3. pairs + 1 # 0 /\ NoCredentials.pair = 0
      BY <1>1 DEF NoCredentials
    <3> QED BY <3>1, <3>2, <3>3 DEF Works, NewToken
  <2>2. disk'.tokens = tokens'
    BY <1>4 DEF Image
  <2> HIDE DEF new
  <2> QED BY <1>1, <1>2, <1>4, <2>1, <2>2 DEF Effect
<1>5. CASE /\ tokens' = Unexpired(ts) \cup new /\ pairs' = pairs + 1 /\ disk' = written
           /\ answer = Reply("INTERNAL_ERROR") /\ UNCHANGED answered
  <2> HIDE DEF new
  <2> QED BY <1>1, <1>2, <1>5 DEF Effect, Reply, Failures
<1> QED BY <1>3, <1>4, <1>5 DEF Issue, Conclude, SaveFails

LEMMA InvalidateEffect ==
    ASSUME IInv, NEW d, NEW code, NEW answer, NEW p, Invalidate(d, code, answer)
    PROVE  Effect(p, answer) /\ answer.credentials = NoCredentials
<1>1. tokens' \subseteq tokens /\ UNCHANGED <<pairs, answered>>
  BY DEF Invalidate, Purged
<1>2. disk'.tokens = tokens' \/ disk' = disk
  BY DEF Invalidate, Image
<1>3. answer.credentials = NoCredentials
  BY DEF Invalidate, SaveFails, Reply
<1> QED BY <1>1, <1>2, <1>3 DEF Effect, Stored

(* register() *)
LEMMA RegisterEffect ==
    ASSUME IInv, NEW answer, Register(Self, answer)
    PROVE  /\ Effect(0, answer)
           /\ answer.credentials = NoCredentials =>
                 UNCHANGED storeVars \/ answer \in Failures
<1>1. CASE RegisterRefused(Self, answer)
  BY <1>1, SameEffect DEF RegisterRefused
<1>2. CASE SaveFails(answer) /\ tokens' = Purged(Self) /\ UNCHANGED <<disk, pairs, answered>>
  BY <1>2 DEF SaveFails, Purged, Effect, Stored, Reply, Failures
<1>3. CASE Issue(Self, now + RefreshLife, Purged(Self), Image(devices', Purged(Self)), answer)
  <2>1. \A t \in Purged(Self) \cup Image(devices', Purged(Self)).tokens : t \in Stored
    BY DEF Purged, Image, Stored
  <2> QED BY <1>3, <2>1, IssueEffect
<1> QED BY <1>1, <1>2, <1>3 DEF Register, RegisterAccepted

(* refresh() *)
LEMMA RefreshEffect ==
    ASSUME IInv, NEW p, NEW answer, Refresh(Self, p, answer)
    PROVE  /\ Effect(p, answer)
           /\ answer.credentials = NoCredentials =>
                 UNCHANGED storeVars \/ answer \in Failures \/ Reuse(Self, p)
           /\ answer.credentials # NoCredentials => RefreshRotates(Self, p, answer)
<1>1. CASE RefreshRefused(Self, p, answer)
  <2>1. PICK c : answer = Reply(c)
    BY <1>1 DEF RefreshRefused, NotActive
  <2> QED BY <1>1, <2>1, SameEffect DEF RefreshRefused, Reply
<1>2. CASE RefreshReused(Self, p, answer)
  BY <1>2, InvalidateEffect DEF RefreshReused
<1>3. CASE RefreshRotates(Self, p, answer)
  <2>1. PICK t \in Presented(Self, p) : Issue(Self, Horizon(t), Used(t), disk, answer)
    BY <1>3 DEF RefreshRotates
  <2>2. \A u \in Used(t) \cup disk.tokens :
            u \in Stored \/ \E s \in Stored : s.pair = p /\ u.pair = p
    BY <2>1 DEF Presented, Record, Used, Stored, IInv, Sound, Token
  <2> QED BY <1>3, <2>1, <2>2, IssueEffect
<1> QED BY <1>1, <1>2, <1>3 DEF Refresh

(* authenticate() and revoke() *)
LEMMA RevokeEffect ==
    ASSUME IInv, NEW p, NEW answer, RevokeSelf(p, answer)
    PROVE  Effect(0, answer) /\ answer.credentials = NoCredentials
<1>1. CASE AuthRefused(p, answer) /\ UNCHANGED storeVars
  <2>1. PICK c : answer = Reply(c)
    BY <1>1 DEF AuthRefused, NotActive
  <2> QED BY <1>1, <2>1, SameEffect DEF Reply
<1>2. CASE \E d : Invalidate(d, "OK", answer)
  BY <1>2, InvalidateEffect
<1> QED BY <1>1, <1>2 DEF RevokeSelf

----------------------------------------------------------------------------
(***************************************************************************)
(* Whatever travels or is kept names a pair that was issued; so every step *)
(* of Credentials is one of Store.                                         *)
(***************************************************************************)
PairInv ==
    /\ file.pair <= pairs
    /\ \A a \in Apis : cached[a].pair <= pairs
    /\ \A m \in requests : m.pair <= pairs
    /\ \A q \in replies : q.answer.credentials.pair <= pairs

Base == Calls /\ IInv /\ PairInv

(* Credentials on their way to an instance. *)
Grants(q) == q.op # "revoking" /\ q.answer.credentials # NoCredentials

(* What an instance does to its file, its cache and the network. *)
ClientMoves ==
    /\ UNCHANGED <<storeVars, reused>> /\ replies' \subseteq replies /\ excuses \subseteq excuses'
    /\ \/ file' = file \/ file' = NoCredentials
       \/ \E q \in replies \ replies' : Grants(q) /\ file' = q.answer.credentials
    /\ \E a \in Apis :
          /\ \/ cached' = cached
             \/ \E c \in {NoCredentials, file, file'} : cached' = [cached EXCEPT ![a] = c]
          /\ \/ requests' = requests
             \/ \E m : /\ requests' = requests \cup {m}
                       /\ m.pair \in {0, file.pair, cached[a].pair}
                       /\ m.op = "refreshing" => m.pair = file.pair /\ lock = Free

LEMMA ApiMoves ==
    ASSUME Calls, NEW a \in Apis, ApiSteps(a), ~Hello(a)
    PROVE  ClientMoves
<1>1. CASE Authenticate(a) \/ Recover(a)
  BY <1>1 DEF Authenticate, Recover, Begin, ClientMoves
<1>2. CASE SignIn(a)
  <2> DEFINE n == [id |-> calls + 1, op |-> "registering", pair |-> 0]
  <2>1. n.pair = 0 /\ n.op = "registering"
    OBVIOUS
  <2>2. requests' = requests \cup {n}
    BY <1>2 DEF SignIn
  <2>3. UNCHANGED <<storeVars, file, cached, replies, reused>> /\ excuses \subseteq excuses'
    BY <1>2 DEF SignIn, Begin
  <2> HIDE DEF n
  <2> QED BY <2>1, <2>2, <2>3 DEF ClientMoves
<1>3. CASE SignOut(a)
  <2>1. UNCHANGED <<storeVars, file, cached, replies, reused>> /\ excuses \subseteq excuses'
    BY <1>3 DEF SignOut, Begin
  <2>2. \/ requests' = requests
        \/ \E m : requests' = requests \cup {m} /\ m.pair = cached[a].pair /\ m.op = "revoking"
    <3> DEFINE n == [id |-> calls + 1, op |-> "revoking", pair |-> cached[a].pair]
    <3>1. n.pair = cached[a].pair /\ n.op = "revoking"
      OBVIOUS
    <3>2. requests' = requests \/ requests' = requests \cup {n}
      BY <1>3 DEF SignOut
    <3> HIDE DEF n
    <3> QED BY <3>1, <3>2
  <2> QED BY <2>1, <2>2 DEF ClientMoves
<1>4. CASE Forget(a)
  BY <1>4 DEF Forget, netVars, ClientMoves
<1>5. CASE Acquire(a)
  <2> DEFINE n == [id |-> call[a], op |-> "refreshing", pair |-> file.pair]
  <2>1. n.pair = file.pair /\ lock = Free
    BY <1>5 DEF Acquire, LockOpens
  <2>2. requests' = requests \/ requests' = requests \cup {n}
    BY <1>5 DEF Acquire, Send, StoredPair
  <2>3. /\ UNCHANGED <<storeVars, file, replies, reused, excuses>>
        /\ cached' = cached \/ cached' = [cached EXCEPT ![a] = file]
    BY <1>5 DEF Acquire
  <2> HIDE DEF n
  <2> QED BY <2>1, <2>2, <2>3 DEF ClientMoves
<1>6. CASE Busy(a)
  BY <1>6 DEF Busy, Clear, netVars, ClientMoves
<1>7. CASE Release(a)
  BY <1>7 DEF Release, Send, Clear, ClientMoves
<1>8. CASE Refreshed(a)
  <2>1. PICK answer \in AnswersTo(a, "refreshing") :
           \/ /\ answer.credentials # NoCredentials
              /\ file' = answer.credentials /\ cached' = [cached EXCEPT ![a] = answer.credentials]
           \/ file' = file /\ cached' = [cached EXCEPT ![a] = file]
           \/ UNCHANGED <<file, cached>>
    BY <1>8 DEF Refreshed
  <2>2. PICK q \in replies : q.id = call[a] /\ q.op = "refreshing" /\ q.answer = answer
    BY <2>1, AnswerType
  <2>3. /\ UNCHANGED <<storeVars, requests, reused, excuses>>
        /\ replies' = {r \in replies : r.id # call[a]}
    BY <1>8 DEF Refreshed, Received
  <2>4. q \notin replies' /\ (answer.credentials # NoCredentials => Grants(q))
    BY <2>2, <2>3 DEF Grants
  <2> QED BY <2>1, <2>2, <2>3, <2>4 DEF ClientMoves
<1>9. CASE Registered(a)
  <2>1. PICK answer \in AnswersTo(a, "registering") :
           \/ /\ answer.credentials # NoCredentials
              /\ file' = answer.credentials /\ cached' = [cached EXCEPT ![a] = answer.credentials]
           \/ UNCHANGED <<file, cached>>
    BY <1>9 DEF Registered
  <2>2. PICK q \in replies : q.id = call[a] /\ q.op = "registering" /\ q.answer = answer
    BY <2>1, AnswerType
  <2>3. /\ UNCHANGED <<storeVars, requests, reused, excuses>>
        /\ replies' = {r \in replies : r.id # call[a]}
    BY <1>9 DEF Registered, Received
  <2>4. q \notin replies' /\ (answer.credentials # NoCredentials => Grants(q))
    BY <2>2, <2>3 DEF Grants
  <2> QED BY <2>1, <2>2, <2>3, <2>4 DEF ClientMoves
<1>10. CASE Revoked(a)
  BY <1>10 DEF Revoked, Clear, Received, ClientMoves
<1>11. CASE GiveUp(a)
  BY <1>11 DEF GiveUp, Clear, Received, ClientMoves
<1>12. CASE Crash(a)
  BY <1>12 DEF Crash, Received, ClientMoves
<1> QED BY <1>1, <1>2, <1>3, <1>4, <1>5, <1>6, <1>7, <1>8, <1>9, <1>10, <1>11, <1>12
        DEF ApiSteps

LEMMA ServeEffect ==
    ASSUME Base, NEW m \in requests, NEW answer,
           \/ m.op = "refreshing" /\ Refresh(Self, m.pair, answer)
           \/ m.op = "registering" /\ Register(Self, answer)
           \/ m.op = "revoking" /\ RevokeSelf(m.pair, answer)
    PROVE  Effect(IF m.op = "refreshing" THEN m.pair ELSE 0, answer)
  BY RefreshEffect, RegisterEffect, RevokeEffect DEF Base

LEMMA StepPairs == ASSUME Base, [CredentialsNext]_vars PROVE PairInv'
<1>0. /\ pairs \in Nat /\ TypesLeft
      /\ file.pair \in Nat /\ NoCredentials.pair = 0
      /\ \A a \in Apis : cached[a].pair \in Nat /\ cached[a] \in Creds
  BY CallsParts DEF Base, IInv, Numbers, TypesLeft, Creds, NoCredentials
<1>1. ASSUME ClientMoves PROVE PairInv'
  <2>1. pairs' = pairs /\ file'.pair <= pairs
    BY <1>0, <1>1 DEF ClientMoves, storeVars, Base, PairInv
  <2>2. ASSUME NEW b \in Apis PROVE cached'[b].pair <= pairs
    BY <1>0, <1>1, <2>1, <2>2 DEF ClientMoves, Base, PairInv, TypesLeft
  <2>3. \A m \in requests' : m.pair <= pairs
    BY <1>0, <1>1 DEF ClientMoves, Base, PairInv
  <2> QED BY <1>1, <2>1, <2>2, <2>3 DEF ClientMoves, Base, PairInv
<1>2. ASSUME NEW m \in requests, Serve(m) PROVE PairInv'
  <2>1. PICK answer :
           /\ Effect(IF m.op = "refreshing" THEN m.pair ELSE 0, answer)
           /\ replies' \subseteq replies \cup {[id |-> m.id, op |-> m.op, answer |-> answer]}
    BY <1>2, ServeEffect DEF Serve
  <2>2. UNCHANGED apiVars /\ requests' \subseteq requests
    BY <1>2 DEF Serve
  <2>3. pairs' \in {pairs, pairs + 1} /\ answer.credentials.pair <= pairs'
    BY <1>0, <2>1 DEF Effect
  <2>4. file.pair <= pairs' /\ \A a \in Apis : cached[a].pair <= pairs'
    BY <1>0, <2>3 DEF Base, PairInv
  <2>5. \A n \in requests' : n.pair <= pairs'
    BY <1>0, <2>2, <2>3 DEF Base, PairInv, TypesLeft, Requests
  <2>6. \A q \in replies' : q.answer.credentials.pair <= pairs'
    <3>1. \A q \in replies : q.answer.credentials.pair <= pairs'
      BY <1>0, <2>3 DEF Base, PairInv, TypesLeft, ReplyValues, Creds
    <3> QED BY <2>1, <2>3, <3>1
  <2> QED BY <2>2, <2>4, <2>5, <2>6 DEF PairInv, apiVars
<1>3. ASSUME NEW c \in Configs, ServerRestarts(c) PROVE PairInv'
  BY <1>3 DEF ServerRestarts, Restart, apiVars, Base, PairInv
<1>4. CASE RemoveOrphan
  BY <1>4 DEF RemoveOrphan, storeVars, netVars, Base, PairInv
<1>5. CASE TimePasses \/ \E a \in Apis : Hello(a)
  BY <1>5 DEF TimePasses, Tick, Hello, Touch, apiVars, netVars, Base, PairInv
<1>6. CASE UNCHANGED vars
  BY <1>6 DEF vars, storeVars, apiVars, netVars, Base, PairInv
<1> QED BY <1>1, <1>2, <1>3, <1>4, <1>5, <1>6, ApiMoves DEF CredentialsNext, Base

LEMMA StepStores == ASSUME Base, [CredentialsNext]_vars PROVE [Next]_storeVars
<1>1. ASSUME NEW m \in requests, Serve(m) PROVE Next
  <2>1. m.pair \in 0 .. pairs
    BY CallsParts DEF Base, PairInv, TypesLeft, Requests
  <2>2. PICK answer \in Answers :
           \/ Refresh(Self, m.pair, answer)
           \/ Register(Self, answer)
           \/ RevokeSelf(m.pair, answer)
    BY <1>1 DEF Serve
  <2>3. Handle(answer)
    BY <2>1, <2>2 DEF Handle
  <2> QED BY <2>3 DEF Next
<1>2. ASSUME NEW c \in Configs, ServerRestarts(c) PROVE Next
  BY <1>2 DEF ServerRestarts, Next
<1>3. CASE TimePasses \/ \E a \in Apis : Hello(a)
  BY <1>3 DEF TimePasses, Hello, Next
<1>4. CASE RemoveOrphan \/ UNCHANGED vars
  BY <1>4 DEF RemoveOrphan, vars
<1>5. ASSUME NEW a \in Apis, ApiSteps(a), ~Hello(a) PROVE UNCHANGED storeVars
  BY <1>5, ApiMoves DEF ClientMoves, Base
<1> QED BY <1>1, <1>2, <1>3, <1>4, <1>5 DEF CredentialsNext

LEMMA InitBase == CredentialsInit => Base
<1> SUFFICES ASSUME CredentialsInit PROVE Base
  OBVIOUS
<1>1. Calls
  BY InitCalls
<1>2. IInv
  BY StoreAssumption, InitEstablishes DEF CredentialsInit
<1>3. PairInv
  BY <1>2 DEF CredentialsInit, PairInv, NoCredentials, IInv, Numbers
<1> QED BY <1>1, <1>2, <1>3 DEF Base

LEMMA StepBase == Base /\ [CredentialsNext]_vars => Base'
<1> SUFFICES ASSUME Base, [CredentialsNext]_vars PROVE Base'
  OBVIOUS
<1>1. Calls'
  BY StepCalls DEF Base
<1>2. IInv'
  BY StoreAssumption, StepStores, StepKeeps DEF Base
<1> QED BY <1>1, <1>2, StepPairs DEF Base

LEMMA BaseAlways == CredentialsSpec => []Base
  BY InitBase, StepBase, PTL DEF CredentialsSpec

(* Every table of an instance, the messages on their way and the history   *)
(* keep their types, and the lock directory exists exactly while an        *)
(* instance is between acquiring and removing it, or died there            *)
(* (withRefreshLock).                                                      *)
THEOREM CredentialsTypes == CredentialsSpec => []CredentialsTypeOK
<1>1. Base => CredentialsTypeOK
  BY DEF Base, Calls
<1> QED BY <1>1, BaseAlways, PTL

(* Whatever several plugin processes, the network and restarts do, the     *)
(* Server they share behaves as the Store alone: a request presents a pair *)
(* that was issued.  All that is proved of the Store holds here too.       *)
THEOREM CredentialsImplementStore == CredentialsSpec => Spec
<1>1. CredentialsInit => Init
  BY DEF CredentialsInit
<1>2. Base /\ [CredentialsNext]_vars => [Next]_storeVars
  BY StepStores
<1> QED BY <1>1, <1>2, BaseAlways, PTL DEF CredentialsSpec, Spec

----------------------------------------------------------------------------
(***************************************************************************)
(* Messages.  Each request is sent once and is on its way, answered or     *)
(* gone; an answer that is on its way is awaited; so is a request, unless  *)
(* the excuse says that its answer was lost.                               *)
(***************************************************************************)
Same(m, n) == m.id = n.id /\ m.op = n.op

LossOf(op) == CASE op = "refreshing"  -> "refresh lost"
                [] op = "registering" -> "registration lost"
                [] op = "revoking"    -> "removal lost"
                [] OTHER              -> "overlap"

NetInv ==
    /\ \A m \in requests : m.id \in 1 .. calls
    /\ \A q \in replies : q.id \in 1 .. calls
    /\ \A m, n \in requests : Same(m, n) => m = n
    /\ \A q, r \in replies : Same(q, r) => q = r
    /\ \A m \in requests, q \in replies : ~Same(m, q)
    /\ \A q \in replies : Awaited(q)
    /\ \A a \in Apis, m \in requests : m.id = call[a] =>
          pc[a] # "waiting" /\ (m.op = "revoking" => pc[a] = "revoking")

LossInv == \A m \in requests : Awaited(m) \/ LossOf(m.op) \in excuses

Others(a) == \A b \in Apis \ {a} : pc'[b] = pc[b] /\ call'[b] = call[b]

(* The numbers of calls, and what is awaited, without their types. *)
LEMMA CallFacts ==
    ASSUME Calls
    PROVE  /\ calls \in Nat
           /\ \A a \in Apis : call[a] \in Nat /\ call[a] <= calls
           /\ \A a \in Apis : pc[a] = "idle" <=> call[a] = 0
           /\ \A a, b \in Apis : call[a] = call[b] => a = b \/ call[a] = 0
           /\ \A m \in requests : m.op \in Waiting /\ m.id \in Nat
           /\ \A q \in replies : q.op \in Waiting /\ q.id \in Nat
  BY CallsParts DEF Calls, CallInv, NoCall, InCall, TypesLeft, CallsLeft, Requests, ReplyValues

(* The call of a leaves the state it was in, with the answer it waited     *)
(* for, without it, or not having waited for one.                          *)
LEMMA LeaveKeeps ==
    ASSUME Calls, NetInv, LossInv, NEW a \in Apis, Others(a),
           calls' = calls, requests' = requests,
           \/ replies' = {r \in replies : r.id # call[a]}
           \/ replies' = replies /\ pc[a] \notin Waiting,
           excuses \subseteq excuses',
           pc[a] \in Waiting =>
              \/ LossOf(pc[a]) \in excuses'
              \/ \E q \in replies : q.id = call[a] /\ q.op = pc[a],
           \/ call'[a] = 0
           \/ /\ call'[a] = call[a] /\ pc[a] # "revoking"
              /\ pc'[a] # "waiting"
    PROVE  NetInv' /\ LossInv'
<1>0. /\ calls \in Nat
      /\ \A b \in Apis : call[b] \in Nat /\ call[b] <= calls
      /\ \A b, c \in Apis : call[b] = call[c] => b = c \/ call[b] = 0
      /\ \A m \in requests : m.op \in Waiting /\ m.id \in Nat
      /\ \A q \in replies : q.op \in Waiting /\ q.id \in Nat
  BY CallFacts
<1>1. replies' \subseteq replies
  OBVIOUS
<1>2. ASSUME NEW q \in replies' PROVE \E b \in Apis : call'[b] = q.id /\ pc'[b] = q.op
  <2>1. PICK b \in Apis : call[b] = q.id /\ pc[b] = q.op
    BY <1>1 DEF NetInv, Awaited
  <2>2. b # a
    BY <1>0, <1>1, <2>1
  <2> QED BY <2>1, <2>2 DEF Others
<1>3. ASSUME NEW m \in requests PROVE Awaited(m)' \/ LossOf(m.op) \in excuses'
  <2>1. CASE LossOf(m.op) \in excuses
    BY <2>1
  <2>2. ASSUME NEW b \in Apis, call[b] = m.id, pc[b] = m.op, b # a PROVE Awaited(m)'
    BY <2>2 DEF Others, Awaited
  <2>3. CASE call[a] = m.id /\ pc[a] = m.op
    <3>1. ~\E q \in replies : q.id = call[a] /\ q.op = pc[a]
      BY <2>3 DEF NetInv, Same
    <3> QED BY <1>0, <2>3, <3>1
  <2> QED BY <2>1, <2>2, <2>3 DEF LossInv, Awaited
<1>4. ASSUME NEW b \in Apis, NEW m \in requests, m.id = call'[b]
      PROVE  pc'[b] # "waiting" /\ (m.op = "revoking" => pc'[b] = "revoking")
  <2>1. m.id # 0
    BY DEF NetInv
  <2>2. CASE b # a
    BY <1>4, <2>2 DEF Others, NetInv
  <2>3. CASE b = a
    BY <1>4, <2>1, <2>3 DEF NetInv
  <2> QED BY <2>2, <2>3
<1>5. NetInv'
  BY <1>1, <1>2, <1>4 DEF NetInv, Same, Awaited
<1>6. LossInv'
  BY <1>3 DEF LossInv
<1> QED BY <1>5, <1>6

(* The call of a begins, or goes on, with a request. *)
LEMMA SendKeeps ==
    ASSUME Calls, NetInv, LossInv, NEW a \in Apis, Others(a), NEW m,
           requests' = requests \cup {m}, replies' = replies, excuses \subseteq excuses',
           m.id = call'[a], m.op = pc'[a], pc'[a] \in Waiting, pc[a] \notin Waiting,
           \/ calls' = calls + 1 /\ call'[a] = calls + 1
           \/ /\ calls' = calls /\ call'[a] = call[a] /\ pc[a] # "idle"
              /\ pc'[a] = "revoking" \/ pc[a] = "waiting"
    PROVE  NetInv' /\ LossInv'
<1>0. /\ calls \in Nat
      /\ \A b \in Apis : call[b] \in Nat /\ call[b] <= calls
      /\ \A b \in Apis : pc[b] = "idle" <=> call[b] = 0
      /\ \A b, c \in Apis : call[b] = call[c] => b = c \/ call[b] = 0
      /\ \A n \in requests : n.op \in Waiting /\ n.id \in Nat
      /\ \A q \in replies : q.op \in Waiting /\ q.id \in Nat
  BY CallFacts
<1>1. \A q \in replies : q.id # call[a]
  BY <1>0 DEF NetInv, Awaited
<1>2. (\A n \in requests : ~Same(m, n) /\ ~Same(n, m)) /\ (\A q \in replies : ~Same(m, q))
  BY <1>0, <1>1 DEF NetInv, Same, Waiting
<1>3. m.id \in 1 .. calls' /\ \A n \in requests : n.id \in 1 .. calls'
  BY <1>0 DEF NetInv
<1>4. \A q \in replies : q.id \in 1 .. calls' /\ \E b \in Apis : call'[b] = q.id /\ pc'[b] = q.op
  <2> SUFFICES ASSUME NEW q \in replies
               PROVE  q.id \in 1 .. calls' /\ \E b \in Apis : call'[b] = q.id /\ pc'[b] = q.op
    OBVIOUS
  <2>1. q.id \in 1 .. calls'
    BY <1>0 DEF NetInv
  <2>2. PICK b \in Apis : call[b] = q.id /\ pc[b] = q.op
    BY DEF NetInv, Awaited
  <2> QED BY <1>1, <2>1, <2>2 DEF Others
<1>5. ASSUME NEW b \in Apis, NEW n \in requests', n.id = call'[b]
      PROVE  pc'[b] # "waiting" /\ (n.op = "revoking" => pc'[b] = "revoking")
  <2>1. CASE b = a
    BY <1>0, <1>5, <2>1 DEF NetInv, Waiting
  <2>2. CASE b # a /\ n = m
    BY <1>0, <1>5, <2>2 DEF Others
  <2>3. CASE b # a /\ n \in requests
    BY <1>5, <2>3 DEF Others, NetInv
  <2> QED BY <2>1, <2>2, <2>3
<1>6. ASSUME NEW n \in requests' PROVE Awaited(n)' \/ LossOf(n.op) \in excuses'
  <2>1. CASE n = m
    BY <2>1 DEF Awaited
  <2>2. CASE n \in requests
    <3>1. ASSUME NEW b \in Apis, call[b] = n.id, pc[b] = n.op PROVE Awaited(n)'
      <4>1. b # a
        BY <1>0, <2>2, <3>1
      <4> QED BY <3>1, <4>1 DEF Others, Awaited
    <3> QED BY <2>2, <3>1 DEF LossInv, Awaited
  <2> QED BY <2>1, <2>2
<1>7. NetInv'
  BY <1>2, <1>3, <1>4, <1>5 DEF NetInv, Same, Awaited
<1>8. LossInv'
  BY <1>6 DEF LossInv
<1> QED BY <1>7, <1>8

Net == NetInv /\ LossInv

(* Steps that leave the calls and the messages alone. *)
LEMMA SameNet ==
    ASSUME Net, UNCHANGED <<pc, call, calls, requests, replies>>, excuses \subseteq excuses'
    PROVE  Net'
  BY DEF Net, NetInv, LossInv, Awaited, Same

LEMMA WaitKeeps ==
    ASSUME Calls, Net, NEW a \in Apis, Others(a), UNCHANGED <<requests, replies>>,
           excuses \subseteq excuses', pc[a] = "idle", calls' = calls + 1, call'[a] = calls + 1
    PROVE  Net'
<1>0. /\ calls \in Nat
      /\ \A b \in Apis : pc[b] = "idle" <=> call[b] = 0
      /\ \A n \in requests : n.op \in Waiting /\ n.id \in Nat
      /\ \A q \in replies : q.op \in Waiting /\ q.id \in Nat
  BY CallFacts
<1>1. \A m : (\E b \in Apis : call[b] = m.id /\ pc[b] = m.op) /\ m.op \in Waiting
             => \E b \in Apis : call'[b] = m.id /\ pc'[b] = m.op
  BY DEF Others, Waiting
<1>2. \A b \in Apis, m \in requests : m.id = call'[b] =>
          pc'[b] # "waiting" /\ (m.op = "revoking" => pc'[b] = "revoking")
  BY <1>0 DEF Net, NetInv, Others
<1>3. LossInv'
  BY <1>0, <1>1 DEF Net, LossInv, Awaited
<1>4. NetInv'
  BY <1>0, <1>1, <1>2 DEF Net, NetInv, Awaited, Same
<1> QED BY <1>3, <1>4 DEF Net

LEMMA BeginNet ==
    ASSUME Calls, Net, NEW a \in Apis, Authenticate(a) \/ Recover(a) \/ SignIn(a) \/ SignOut(a)
    PROVE  Net'
<1>1. /\ pc[a] = "idle" /\ calls' = calls + 1 /\ call'[a] = calls + 1
      /\ replies' = replies /\ excuses \subseteq excuses'
      /\ \A b \in Apis \ {a} : call'[b] = call[b]
  BY DEF Authenticate, Recover, SignIn, SignOut, Begin, Calls, CredentialsTypeOK
<1>2. PICK w \in {"waiting", "registering", "revoking"} :
         /\ Goto(a, w)
         /\ \/ w = "waiting" /\ requests' = requests
            \/ /\ w # "waiting"
               /\ \E m : m.id = calls + 1 /\ m.op = w /\ requests' = requests \cup {m}
  <2>1. CASE Authenticate(a) \/ Recover(a)
    BY <2>1 DEF Authenticate, Recover
  <2>2. CASE SignIn(a)
    <3> DEFINE n == [id |-> calls + 1, op |-> "registering", pair |-> 0]
    <3>1. n.id = calls + 1 /\ n.op = "registering"
      OBVIOUS
    <3>2. Goto(a, "registering") /\ requests' = requests \cup {n}
      BY <2>2 DEF SignIn
    <3> HIDE DEF n
    <3> QED BY <3>1, <3>2
  <2>3. CASE SignOut(a)
    <3> DEFINE n == [id |-> calls + 1, op |-> "revoking", pair |-> cached[a].pair]
    <3>1. n.id = calls + 1 /\ n.op = "revoking"
      OBVIOUS
    <3>2. \/ Goto(a, "revoking") /\ requests' = requests \cup {n}
          \/ Goto(a, "waiting") /\ requests' = requests
      BY <2>3 DEF SignOut
    <3> HIDE DEF n
    <3> QED BY <3>1, <3>2
  <2> QED BY <2>1, <2>2, <2>3
<1>3. pc'[a] = w /\ Others(a)
  BY <1>1, <1>2 DEF Goto, Others, Calls, CredentialsTypeOK
<1>4. CASE w = "waiting"
  BY <1>1, <1>2, <1>3, <1>4, WaitKeeps
<1>5. CASE w # "waiting"
  <2>1. w \in Waiting /\ pc[a] \notin Waiting
    BY <1>1, <1>2, <1>5 DEF Waiting
  <2>2. PICK m : m.id = calls + 1 /\ m.op = w /\ requests' = requests \cup {m}
    BY <1>2, <1>5
  <2> QED BY <1>1, <1>3, <2>1, <2>2, SendKeeps DEF Net
<1> QED BY <1>4, <1>5

(* A call that ends. *)
LEMMA DoneOthers ==
    ASSUME Calls, NEW a \in Apis, Done(a) PROVE Others(a) /\ call'[a] = 0
  BY DEF Calls, CredentialsTypeOK, Done, Goto, Others

LEMMA GotoOthers ==
    ASSUME Calls, NEW a \in Apis, NEW w, Goto(a, w), UNCHANGED call
    PROVE  Others(a) /\ call'[a] = call[a] /\ pc'[a] = w
  BY DEF Calls, CredentialsTypeOK, Goto, Others

LEMMA LockNet ==
    ASSUME Calls, Net, NEW a \in Apis, Acquire(a) \/ Release(a) \/ Busy(a)
    PROVE  Net'
<1>1. UNCHANGED <<calls, replies, excuses>> /\ pc[a] \notin Waiting /\ pc[a] # "idle"
  BY DEF Acquire, Release, Busy, netVars, Waiting
<1>2. CASE Done(a) /\ requests' = requests
  BY <1>1, <1>2, DoneOthers, LeaveKeeps DEF Net
<1>3. ASSUME NEW w \in {"returning", "throwing"}, Goto(a, w), UNCHANGED <<call, requests>>
      PROVE  Net'
  BY <1>1, <1>3, GotoOthers, LeaveKeeps DEF Net, Waiting
<1>4. ASSUME NEW w \in {"refreshing", "revoking"}, NEW p, Send(a, w, p), UNCHANGED call,
             w = "revoking" \/ pc[a] = "waiting"
      PROVE  Net'
  <2>1. PICK m : m.id = call[a] /\ m.op = w /\ requests' = requests \cup {m}
    <3> DEFINE n == [id |-> call[a], op |-> w, pair |-> p]
    <3>1. n.id = call[a] /\ n.op = w /\ requests' = requests \cup {n}
      BY <1>4 DEF Send
    <3> HIDE DEF n
    <3> QED BY <3>1
  <2>2. Others(a) /\ call'[a] = call[a] /\ pc'[a] = w /\ w \in Waiting
    BY <1>4, GotoOthers DEF Send, Waiting
  <2> QED BY <1>1, <1>4, <2>1, <2>2, SendKeeps DEF Net
<1> QED BY <1>2, <1>3, <1>4 DEF Acquire, Release, Busy, Clear, netVars

LEMMA ReplyNet ==
    ASSUME Calls, Net, NEW a \in Apis, Refreshed(a) \/ Registered(a) \/ Revoked(a)
    PROVE  Net'
<1>1. UNCHANGED <<calls, requests, excuses>> /\ replies' = {r \in replies : r.id # call[a]}
  BY DEF Refreshed, Registered, Revoked, Received
<1>2. \E q \in replies : q.id = call[a] /\ q.op = pc[a]
  BY DEF Refreshed, Registered, Revoked, AnswersTo
<1>3. CASE Refreshed(a)
  <2>1. PICK w \in {"returning", "throwing"} : Goto(a, w)
    BY <1>3 DEF Refreshed
  <2>2. UNCHANGED call /\ pc[a] = "refreshing"
    BY <1>3 DEF Refreshed, AnswersTo
  <2> QED BY <1>1, <1>2, <2>1, <2>2, GotoOthers, LeaveKeeps DEF Net
<1>4. CASE Registered(a) \/ Revoked(a)
  <2>1. Done(a)
    BY <1>4 DEF Registered, Revoked, Clear
  <2> QED BY <1>1, <1>2, <2>1, DoneOthers, LeaveKeeps DEF Net
<1> QED BY <1>3, <1>4

LEMMA FailureNet ==
    ASSUME Calls, Net, NEW a \in Apis, GiveUp(a) \/ Crash(a)
    PROVE  Net'
<1>1. /\ UNCHANGED <<calls, requests>> /\ replies' = {r \in replies : r.id # call[a]}
      /\ excuses' = excuses \cup Lost(a)
  BY DEF GiveUp, Crash, Received
<1>2. pc[a] \in Waiting => LossOf(pc[a]) \in excuses'
  BY <1>1 DEF Waiting, LossOf, Lost
<1>3. CASE Done(a)
  BY <1>1, <1>2, <1>3, DoneOthers, LeaveKeeps DEF Net
<1>4. CASE Goto(a, "throwing") /\ UNCHANGED call /\ pc[a] = "refreshing"
  BY <1>1, <1>2, <1>4, GotoOthers, LeaveKeeps DEF Net
<1> QED BY <1>3, <1>4 DEF GiveUp, Crash, Clear

LEMMA ServeNet ==
    ASSUME Calls, Net, NEW m \in requests, Serve(m)
    PROVE  Net'
<1>1. PICK q :
         /\ q.id = m.id /\ q.op = m.op
         /\ replies' = IF Awaited(m) THEN replies \cup {q} ELSE replies
  <2>1. PICK answer :
           replies' = IF Awaited(m)
                      THEN replies \cup {[id |-> m.id, op |-> m.op, answer |-> answer]}
                      ELSE replies
    BY DEF Serve
  <2> DEFINE q == [id |-> m.id, op |-> m.op, answer |-> answer]
  <2>2. q.id = m.id /\ q.op = m.op
    OBVIOUS
  <2>3. replies' = IF Awaited(m) THEN replies \cup {q} ELSE replies
    BY <2>1
  <2> HIDE DEF q
  <2> QED BY <2>2, <2>3
<1>2. requests' = requests \ {m} /\ UNCHANGED <<pc, call, calls>> /\ excuses \subseteq excuses'
  BY DEF Serve, apiVars
<1>3. CASE ~Awaited(m)
  BY <1>1, <1>2, <1>3 DEF Net, NetInv, LossInv, Awaited, Same
<1>4. CASE Awaited(m)
  <2>1. \A r \in replies' : r.id \in 1 .. calls' /\ Awaited(r)'
    BY <1>1, <1>2, <1>4 DEF Net, NetInv, Awaited
  <2>2. \A r, t \in replies' : Same(r, t) => r = t
    BY <1>1, <1>4 DEF Net, NetInv, Same
  <2>3. \A n \in requests', r \in replies' : ~Same(n, r)
    BY <1>1, <1>2, <1>4 DEF Net, NetInv, Same
  <2>4. NetInv'
    BY <1>2, <2>1, <2>2, <2>3 DEF Net, NetInv
  <2>5. LossInv'
    BY <1>2 DEF Net, LossInv, Awaited
  <2> QED BY <2>4, <2>5 DEF Net
<1> QED BY <1>3, <1>4

LEMMA StepNet == ASSUME Calls, Net, [CredentialsNext]_vars PROVE Net'
<1>1. ASSUME NEW c \in Configs, ServerRestarts(c) PROVE Net'
  BY <1>1 DEF ServerRestarts, apiVars, Net, NetInv, LossInv, Awaited, Same
<1>2. CASE RemoveOrphan
  BY <1>2, SameNet DEF RemoveOrphan, netVars
<1>3. ASSUME NEW a \in Apis, Forget(a) PROVE Net'
  BY <1>3, SameNet DEF Forget, netVars
<1>4. CASE TimePasses \/ \E a \in Apis : Hello(a)
  BY <1>4, SameNet DEF TimePasses, Hello, apiVars, netVars
<1>5. CASE UNCHANGED vars
  BY <1>5, SameNet DEF vars, apiVars, netVars
<1> QED BY <1>1, <1>2, <1>3, <1>4, <1>5, BeginNet, LockNet, ReplyNet, FailureNet, ServeNet
        DEF CredentialsNext, ApiSteps

LEMMA InitNet == CredentialsInit => Net
  BY DEF CredentialsInit, Net, NetInv, LossInv

----------------------------------------------------------------------------
(***************************************************************************)
(* Spent refresh tokens.  As long as no answer to a rotation was lost, the *)
(* pair on file is spent only while the answer that replaces it is on its  *)
(* way, and the holder of the lock presents a pair that is not.            *)
(***************************************************************************)
Spent(p) == \E t \in Stored : t.pair = p /\ t.used

PairOf(q) == q.answer.credentials.pair

GrantInv ==
    /\ \A t \in Stored : t.pair # 0
    /\ \A q \in replies : Grants(q) =>
          /\ PairOf(q) # 0 /\ ~Spent(PairOf(q)) /\ PairOf(q) # file.pair
          /\ \A m \in requests : m.op = "refreshing" => m.pair # PairOf(q)
    /\ \A q, r \in replies : Grants(q) /\ Grants(r) /\ PairOf(q) = PairOf(r) => q = r

ReuseInv == "refresh lost" \notin excuses =>
    /\ ~reused
    /\ \A m \in requests : m.op = "refreshing" => ~Spent(m.pair)
    /\ Spent(file.pair) => \E q \in replies : q.op = "refreshing" /\ Grants(q)

(* What is not lost is awaited; only the holder of the lock rotates.       *)
LEMMA HolderAwaits ==
    ASSUME Calls, NEW m, Awaited(m), m.op = "refreshing"
    PROVE  lock \in Apis /\ call[lock] = m.id
  BY CallsParts DEF Awaited, CallsLeft, Holding

LEMMA StoredFacts ==
    ASSUME Base PROVE \A t \in Stored : t.pair \in Nat /\ t.pair <= pairs
  BY DEF Base, IInv, Sound, Stored, Token

(* An answer that leaves the network was lost, or is on file. *)
LEMMA RemovedReplies ==
    ASSUME Calls, Net, NEW a \in Apis, ApiSteps(a), NEW q \in replies, q \notin replies', Grants(q)
    PROVE  file' = q.answer.credentials \/ LossOf(q.op) \in excuses'
<1>0. \A b, c \in Apis : call[b] = call[c] => b = c \/ call[b] = 0
  BY CallFacts
<1>1. q.id # 0 /\ \E b \in Apis : call[b] = q.id /\ pc[b] = q.op
  BY DEF Net, NetInv, Awaited
<1>2. ASSUME q.id = call[a] PROVE pc[a] = q.op
  BY <1>0, <1>1, <1>2
<1>3. CASE Refreshed(a)
  <2>1. PICK answer \in AnswersTo(a, "refreshing") :
           file' = answer.credentials \/ answer.credentials = NoCredentials
    BY <1>3 DEF Refreshed
  <2>2. PICK r \in replies : r.id = call[a] /\ r.op = "refreshing" /\ r.answer = answer
    BY <2>1, AnswerType
  <2>3. q.id = call[a] /\ pc[a] = "refreshing"
    BY <1>3 DEF Refreshed, Received, AnswersTo
  <2>4. r = q
    BY <1>2, <2>2, <2>3 DEF Net, NetInv, Same
  <2> QED BY <2>1, <2>2, <2>4 DEF Grants
<1>4. CASE Registered(a)
  <2>1. PICK answer \in AnswersTo(a, "registering") :
           file' = answer.credentials \/ answer.credentials = NoCredentials
    BY <1>4 DEF Registered
  <2>2. PICK r \in replies : r.id = call[a] /\ r.op = "registering" /\ r.answer = answer
    BY <2>1, AnswerType
  <2>3. q.id = call[a] /\ pc[a] = "registering"
    BY <1>4 DEF Registered, Received, AnswersTo
  <2>4. r = q
    BY <1>2, <2>2, <2>3 DEF Net, NetInv, Same
  <2> QED BY <2>1, <2>2, <2>4 DEF Grants
<1>5. CASE Revoked(a)
  <2>1. q.id = call[a] /\ pc[a] = "revoking"
    BY <1>5 DEF Revoked, Received, AnswersTo
  <2> QED BY <1>2, <2>1 DEF Grants
<1>6. CASE GiveUp(a) \/ Crash(a)
  <2>1. q.id = call[a] /\ Lost(a) \subseteq excuses'
    BY <1>6 DEF GiveUp, Crash, Received
  <2>2. q.op \in Waiting
    BY CallFacts
  <2> QED BY <1>2, <2>1, <2>2 DEF Waiting, Lost, LossOf
<1>7. CASE \/ Authenticate(a) \/ Recover(a) \/ SignIn(a) \/ SignOut(a) \/ Forget(a)
           \/ Acquire(a) \/ Busy(a) \/ Release(a) \/ Hello(a)
  BY <1>7 DEF Authenticate, Recover, SignIn, SignOut, Begin, Forget, Acquire, Busy, Release,
              Hello, netVars
<1> QED BY <1>3, <1>4, <1>5, <1>6, <1>7 DEF ApiSteps

Rotation == GrantInv /\ ReuseInv

LEMMA ClientRotation ==
    ASSUME Base, Net, Rotation, NEW a \in Apis, ApiSteps(a), ~Hello(a)
    PROVE  Rotation'
<1>0. ClientMoves /\ NoCredentials.pair = 0
  BY ApiMoves DEF Base, NoCredentials
<1>1. /\ Stored' = Stored /\ (\A x : Spent(x)' <=> Spent(x))
      /\ UNCHANGED reused /\ replies' \subseteq replies /\ excuses \subseteq excuses'
  BY <1>0 DEF ClientMoves, storeVars, Stored, Spent
<1>2. file.pair \in Nat
  BY CallsParts DEF Base, TypesLeft, Creds
<1>3. \/ file' = file
      \/ file'.pair = 0
      \/ \E q \in replies \ replies' : Grants(q) /\ file'.pair = PairOf(q)
  BY <1>0 DEF ClientMoves, PairOf
<1>4. ASSUME NEW m \in requests', m.op = "refreshing"
      PROVE  m \in requests \/ (m.pair = file.pair /\ lock = Free)
  <2>1. \/ requests' = requests
        \/ \E n : /\ requests' = requests \cup {n}
                  /\ n.op = "refreshing" => n.pair = file.pair /\ lock = Free
    BY <1>0 DEF ClientMoves
  <2>2. CASE requests' = requests
    BY <1>4, <2>2
  <2>3. ASSUME NEW n, requests' = requests \cup {n},
               n.op = "refreshing" => n.pair = file.pair /\ lock = Free
        PROVE  m \in requests \/ (m.pair = file.pair /\ lock = Free)
    <3>1. m \in requests \/ m = n
      BY <1>4, <2>3
    <3> QED BY <1>4, <2>3, <3>1
  <2> QED BY <2>1, <2>2, <2>3
<1>5. GrantInv'
  <2>1. ASSUME NEW q \in replies', Grants(q)
        PROVE  /\ PairOf(q) # 0 /\ ~Spent(PairOf(q)) /\ PairOf(q) # file'.pair
               /\ \A m \in requests' : m.op = "refreshing" => m.pair # PairOf(q)
    <3>1. /\ q \in replies /\ PairOf(q) # 0 /\ ~Spent(PairOf(q)) /\ PairOf(q) # file.pair
          /\ \A m \in requests : m.op = "refreshing" => m.pair # PairOf(q)
      BY <1>1, <2>1 DEF Rotation, GrantInv
    <3>2. PairOf(q) # file'.pair
      BY <1>3, <2>1, <3>1 DEF Rotation, GrantInv
    <3> QED BY <1>4, <3>1, <3>2
  <2> QED BY <1>1, <2>1 DEF Rotation, GrantInv, Grants, PairOf
<1>6. ReuseInv'
  <2> SUFFICES ASSUME "refresh lost" \notin excuses'
               PROVE  /\ ~reused
                      /\ \A m \in requests' : m.op = "refreshing" => ~Spent(m.pair)
                      /\ Spent(file'.pair) => \E q \in replies' : q.op = "refreshing" /\ Grants(q)
    BY <1>1 DEF ReuseInv, Grants
  <2>1. /\ ~reused
        /\ \A m \in requests : m.op = "refreshing" => ~Spent(m.pair)
        /\ Spent(file.pair) => \E q \in replies : q.op = "refreshing" /\ Grants(q)
    BY <1>1 DEF Rotation, ReuseInv
  <2>2. lock = Free => ~Spent(file.pair)
    BY <2>1, HolderAwaits DEF Net, NetInv, Base
  <2>3. ASSUME Spent(file'.pair) PROVE \E q \in replies' : q.op = "refreshing" /\ Grants(q)
    <3>1. file'.pair # 0
      <4>1. \A t \in Stored : t.pair # 0
        BY DEF Rotation, GrantInv
      <4> QED BY <2>3, <4>1 DEF Spent
    <3>2. file' = file
      BY <1>3, <2>3, <3>1 DEF Rotation, GrantInv
    <3>3. PICK q \in replies : q.op = "refreshing" /\ Grants(q)
      BY <2>1, <2>3, <3>2
    <3>4. CASE q \notin replies'
      <4>1. file' = q.answer.credentials
        BY <3>3, <3>4, RemovedReplies DEF Base, LossOf
      <4> QED BY <3>2, <3>3, <4>1 DEF Rotation, GrantInv, PairOf
    <3> QED BY <3>3, <3>4
  <2> QED BY <1>4, <2>1, <2>2, <2>3
<1> QED BY <1>5, <1>6 DEF Rotation

(* At most one request rotates, and nobody else spends what it presents.   *)
LEMMA OneRotation ==
    ASSUME Calls, Net, "refresh lost" \notin excuses,
           NEW m \in requests, NEW n \in requests, m.op = "refreshing", n.op = "refreshing"
    PROVE  m = n /\ Awaited(m)
<1>1. Awaited(m) /\ Awaited(n)
  BY DEF Net, LossInv, LossOf
<1>2. Same(m, n)
  BY <1>1, HolderAwaits DEF Same
<1> QED BY <1>1, <1>2 DEF Net, NetInv

LEMMA ServeRotation ==
    ASSUME Base, Net, Rotation, NEW m \in requests, Serve(m)
    PROVE  Rotation'
<1> DEFINE p == IF m.op = "refreshing" THEN m.pair ELSE 0
<1>0. /\ pairs \in Nat /\ file.pair \in Nat /\ file.pair <= pairs
      /\ \A n \in requests : n.pair \in Nat /\ n.pair <= pairs
      /\ \A q \in replies : PairOf(q) \in Nat /\ PairOf(q) <= pairs
  BY CallsParts DEF Base, PairInv, IInv, Numbers, TypesLeft, Creds, Requests, ReplyValues, PairOf
<1>1. PICK answer :
         /\ \/ m.op = "refreshing" /\ Refresh(Self, m.pair, answer)
            \/ m.op = "registering" /\ Register(Self, answer)
            \/ m.op = "revoking" /\ RevokeSelf(m.pair, answer)
         /\ replies' = IF Awaited(m)
                       THEN replies \cup {[id |-> m.id, op |-> m.op, answer |-> answer]}
                       ELSE replies
         /\ excuses' = excuses \cup FailureOf(m.op, answer)
  BY DEF Serve
<1> DEFINE r == [id |-> m.id, op |-> m.op, answer |-> answer]
<1>2. r.op = m.op /\ r.answer = answer
  OBVIOUS
<1>3. replies' = replies \/ replies' = replies \cup {r}
  BY <1>1
<1>4. Awaited(m) => r \in replies'
  BY <1>1
<1> HIDE DEF r
<1>5. /\ requests' = requests \ {m} /\ file' = file
      /\ reused' = (reused \/ (m.op = "refreshing" /\ Reuse(Self, m.pair)))
  BY DEF Serve, apiVars
<1>6. Effect(p, answer)
  BY <1>1, ServeEffect
<1>7. p \in Nat /\ p <= pairs
  BY <1>0
<1> HIDE DEF p
<1>8. \A t \in Stored' : t.pair # 0
  BY <1>0, <1>6 DEF Effect, Stored, Rotation, GrantInv
<1>9. ASSUME NEW x \in Nat, x <= pairs, Spent(x)' PROVE Spent(x) \/ x = p
  BY <1>0, <1>6, <1>9 DEF Effect, Stored, Spent
<1>14. ASSUME NEW x, Spent(x)' PROVE x # 0
  BY <1>8, <1>14 DEF Spent
<1>10. ASSUME NEW x, x = pairs + 1 PROVE ~Spent(x)'
  <2>1. \A t \in Stored : t.pair # pairs + 1
    BY <1>0, StoredFacts
  <2>2. ASSUME NEW t \in Stored', t.pair = pairs + 1 PROVE ~t.used
    <3>1. \/ t \in Stored \/ ~t.used
          \/ t.pair = p
      BY <1>6, <2>2 DEF Effect, Stored
    <3>2. p # pairs + 1
      BY <1>0, <1>7
    <3> QED BY <2>1, <2>2, <3>1, <3>2
  <2> QED BY <1>10, <2>2 DEF Spent
<1>11. Grants(r) => PairOf(r) = pairs + 1
  BY <1>2, <1>6 DEF Effect, Grants, PairOf
<1>12. GrantInv'
  <2>1. ASSUME NEW q \in replies, Grants(q)
        PROVE  /\ PairOf(q) # 0 /\ ~Spent(PairOf(q))' /\ PairOf(q) # file.pair
               /\ \A n \in requests : n.op = "refreshing" => n.pair # PairOf(q)
    <3>1. /\ PairOf(q) # 0 /\ ~Spent(PairOf(q)) /\ PairOf(q) # file.pair
          /\ \A n \in requests : n.op = "refreshing" => n.pair # PairOf(q)
      BY <2>1 DEF Rotation, GrantInv
    <3>2. PairOf(q) # p
      BY <1>0, <3>1 DEF p
    <3> QED BY <1>0, <1>9, <3>1, <3>2
  <2>2. ASSUME Grants(r)
        PROVE  /\ PairOf(r) # 0 /\ ~Spent(PairOf(r))' /\ PairOf(r) # file.pair
               /\ \A n \in requests : n.op = "refreshing" => n.pair # PairOf(r)
               /\ \A q \in replies : PairOf(q) # PairOf(r)
    <3>1. PairOf(r) = pairs + 1 /\ pairs + 1 # 0 /\ \A x \in Nat : x <= pairs => x # pairs + 1
      BY <1>0, <1>11, <2>2
    <3>2. ~Spent(PairOf(r))'
      BY <1>10, <3>1
    <3> QED BY <1>0, <3>1, <3>2
  <2> QED BY <1>3, <1>5, <1>8, <2>1, <2>2 DEF Rotation, GrantInv, Grants, PairOf
<1>13. ReuseInv'
  <2> SUFFICES ASSUME "refresh lost" \notin excuses'
               PROVE  /\ ~reused'
                      /\ \A n \in requests' : n.op = "refreshing" => ~Spent(n.pair)'
                      /\ Spent(file.pair)' => \E q \in replies' : q.op = "refreshing" /\ Grants(q)
    BY <1>5 DEF ReuseInv, Grants
  <2>1. /\ "refresh lost" \notin excuses /\ ~reused
        /\ \A n \in requests : n.op = "refreshing" => ~Spent(n.pair)
        /\ Spent(file.pair) => \E q \in replies : q.op = "refreshing" /\ Grants(q)
    BY <1>1 DEF Rotation, ReuseInv
  <2>2. m.op = "refreshing" => ~Reuse(Self, m.pair)
    BY <2>1 DEF Reuse, Presented, Record, Spent, Stored
  <2>3. ASSUME NEW n \in requests', n.op = "refreshing" PROVE ~Spent(n.pair)'
    <3>1. m.op # "refreshing"
      BY <1>5, <2>1, <2>3, OneRotation DEF Base
    <3>2. p = 0
      BY <3>1 DEF p
    <3>3. n \in requests /\ n.pair \in Nat /\ n.pair <= pairs /\ ~Spent(n.pair)
      BY <1>0, <1>5, <2>1, <2>3
    <3> QED BY <1>9, <1>14, <3>2, <3>3
  <2>4. ASSUME Spent(file.pair)' PROVE \E q \in replies' : q.op = "refreshing" /\ Grants(q)
    <3>1. CASE Spent(file.pair)
      BY <1>3, <2>1, <3>1
    <3>2. CASE ~Spent(file.pair)
      <4>1. file.pair = p /\ m.op = "refreshing"
        <5>1. file.pair = p /\ file.pair # 0
          BY <1>0, <1>5, <1>9, <1>14, <2>4, <3>2
        <5> QED BY <5>1 DEF p
      <4>2. answer \notin Failures
        BY <1>1, <4>1 DEF FailureOf
      <4>3. ASSUME UNCHANGED storeVars PROVE FALSE
        <5>1. Stored' = Stored
          BY <4>3 DEF storeVars, Stored
        <5> QED BY <1>5, <2>4, <3>2, <5>1 DEF Spent
      <4>4. answer.credentials # NoCredentials
        BY <1>1, <2>2, <4>1, <4>2, <4>3, RefreshEffect DEF Base
      <4>5. Grants(r) /\ r.op = "refreshing"
        BY <1>2, <4>1, <4>4 DEF Grants
      <4>6. Awaited(m)
        BY <2>1, <4>1, OneRotation DEF Base
      <4> QED BY <1>4, <4>5, <4>6
    <3> QED BY <3>1, <3>2
  <2> QED BY <1>5, <2>1, <2>2, <2>3, <2>4
<1> QED BY <1>12, <1>13 DEF Rotation

(* What the Server does on its own adds no token. *)
LEMMA FewerTokens ==
    ASSUME Rotation, Stored' \subseteq Stored, requests' \subseteq requests,
           UNCHANGED <<replies, file, reused>>, excuses \subseteq excuses'
    PROVE  Rotation'
<1>1. ASSUME NEW x, Spent(x)' PROVE Spent(x)
  BY <1>1 DEF Spent
<1>2. GrantInv'
  BY <1>1 DEF Rotation, GrantInv, Grants, PairOf
<1>3. ReuseInv'
  BY <1>1 DEF Rotation, ReuseInv, Grants
<1> QED BY <1>2, <1>3 DEF Rotation

LEMMA StepRotation == ASSUME Base, Net, Rotation, [CredentialsNext]_vars PROVE Rotation'
<1>1. ASSUME NEW c \in Configs, ServerRestarts(c) PROVE Rotation'
  <2>1. Stored' \subseteq Stored /\ requests' = {}
    BY <1>1 DEF ServerRestarts, Restart, Stored
  <2> QED BY <1>1, <2>1, FewerTokens DEF ServerRestarts, apiVars
<1>2. CASE TimePasses \/ \E a \in Apis : Hello(a)
  <2>1. Stored' \subseteq Stored
    BY <1>2 DEF TimePasses, Tick, Hello, Touch, Stored, Image
  <2> QED BY <1>2, <2>1, FewerTokens DEF TimePasses, Hello, apiVars, netVars
<1>3. CASE RemoveOrphan \/ UNCHANGED vars
  <2>1. Stored' = Stored
    BY <1>3 DEF RemoveOrphan, vars, storeVars, Stored
  <2> QED BY <1>3, <2>1, FewerTokens DEF RemoveOrphan, vars, apiVars, netVars
<1>4. ASSUME NEW a \in Apis, ApiSteps(a) PROVE Rotation'
  BY <1>2, <1>4, ClientRotation
<1> QED BY <1>1, <1>2, <1>3, <1>4, ServeRotation DEF CredentialsNext

LEMMA InitRotation == CredentialsInit => Rotation
  BY DEF CredentialsInit, Init, Image, Rotation, GrantInv, ReuseInv, Spent, Stored

LEMMA RotationAlways == CredentialsSpec => [](Base /\ Net /\ Rotation)
<1>1. CredentialsInit => Base /\ Net /\ Rotation
  BY InitBase, InitNet, InitRotation
<1>2. (Base /\ Net /\ Rotation) /\ [CredentialsNext]_vars => (Base /\ Net /\ Rotation)'
  BY StepBase, StepNet, StepRotation DEF Base
<1> QED BY <1>1, <1>2, PTL DEF CredentialsSpec

(* However many processes authenticate, recover, sign in and out, and      *)
(* whatever is lost or crashes, the Server sees a refresh token twice only *)
(* after the answer to a rotation was lost (withRefreshLock).              *)
THEOREM ReuseNeedsALoss == CredentialsSpec => []ReuseNeedsLoss
<1>1. Rotation => ReuseNeedsLoss
  BY DEF Rotation, ReuseInv, ReuseNeedsLoss
<1> QED BY <1>1, RotationAlways, PTL

----------------------------------------------------------------------------
(***************************************************************************)
(* Quiet times, when nothing went wrong yet.  Who signs in or out is alone *)
(* then; what is on its way to an instance works, and so does the file,    *)
(* unless such an answer is about to replace it or a sign-out to clear it. *)
(***************************************************************************)
Live(c) == c.refresh <= now \/ Works(c, tokens)

Alone ==
    /\ \A a \in Apis : pc[a] = "idle" => goal[a] = "none"
    /\ \A a, b \in Apis : a # b /\ ChangesDevice(a) => pc[b] = "idle"

Good(c) == Live(c) /\ c.pair \in answered

QuietInv == excuses = {} =>
    /\ Alone
    /\ \A q \in replies : Grants(q) => Good(q.answer.credentials)
    /\ \/ file = NoCredentials \/ Good(file)
       \/ \E q \in replies : Grants(q)
       \/ \E a \in Apis : pc[a] = "revoking"

(* Steps of a that leave what the other instances do alone. *)
Apart(a) == \A b \in Apis \ {a} : pc'[b] = pc[b] /\ goal'[b] = goal[b]

LEMMA BeginAlone ==
    ASSUME Calls, Alone, NEW a \in Apis, Authenticate(a) \/ Recover(a) \/ SignIn(a) \/ SignOut(a),
           excuses' = {}
    PROVE  Alone' /\ Apart(a) /\ pc[a] = "idle"
<1>1. PICK what \in Goals \ {"none"}, changes \in BOOLEAN, w \in PcValues \ {"idle"} :
         /\ Begin(a, what, changes) /\ Goto(a, w)
         /\ w = "registering" \/ what = "signOut" => changes
  <2>0. /\ "authenticate" \in Goals \ {"none"} /\ "recover" \in Goals \ {"none"}
        /\ "waiting" \in PcValues \ {"idle"} /\ FALSE \in BOOLEAN
        /\ "waiting" # "registering" /\ "authenticate" # "signOut" /\ "recover" # "signOut"
    BY DEF Goals, PcValues
  <2>1. CASE Authenticate(a)
    <3>1. Begin(a, "authenticate", FALSE) /\ Goto(a, "waiting")
      BY <2>1 DEF Authenticate
    <3> QED BY <2>0, <3>1, Zenon
  <2>2. CASE Recover(a)
    <3>1. Begin(a, "recover", FALSE) /\ Goto(a, "waiting")
      BY <2>2 DEF Recover
    <3> QED BY <2>0, <3>1, Zenon
  <2>3. CASE SignIn(a)
    BY <2>3 DEF SignIn, Goals, PcValues, Waiting
  <2>4. CASE SignOut(a)
    BY <2>4 DEF SignOut, Goals, PcValues, Waiting
  <2> QED BY <2>1, <2>2, <2>3, <2>4
<1>2. /\ pc[a] = "idle" /\ pc'[a] = w /\ goal'[a] = what /\ Apart(a)
  BY <1>1 DEF Calls, CredentialsTypeOK, Begin, Goto, Apart
<1>3. ~Overlaps(a, changes)
  BY <1>1 DEF Begin
<1>4. ASSUME NEW b \in Apis \ {a}, changes PROVE pc[b] = "idle"
  BY <1>3, <1>4 DEF Overlaps
<1>5. ASSUME NEW b \in Apis \ {a} PROVE ~ChangesDevice(b)
  BY <1>3 DEF Overlaps, ChangesDevice, Alone
<1>6. ASSUME NEW b \in Apis, pc'[b] = "idle" PROVE goal'[b] = "none"
  BY <1>1, <1>2, <1>6 DEF Alone, Apart
<1>7. ASSUME NEW b \in Apis, NEW c \in Apis, b # c, ChangesDevice(b)' PROVE pc'[c] = "idle"
  <2>1. b = a
    BY <1>2, <1>5, <1>7 DEF Apart, ChangesDevice
  <2>2. changes
    BY <1>1, <1>2, <1>7, <2>1 DEF ChangesDevice
  <2> QED BY <1>2, <1>4, <1>7, <2>1, <2>2 DEF Apart
<1> QED BY <1>2, <1>6, <1>7 DEF Alone

LEMMA StepApart ==
    ASSUME Calls, NEW a \in Apis, ApiSteps(a)
    PROVE  Apart(a)
<1>0. pc \in [Apis -> PcValues] /\ goal \in [Apis -> Goals]
  BY CallsParts DEF CallsLeft
<1>1. ASSUME Done(a) PROVE Apart(a)
  BY <1>0, <1>1 DEF Done, Goto, Apart
<1>2. ASSUME NEW w, Goto(a, w), goal' = goal PROVE Apart(a)
  BY <1>0, <1>2 DEF Goto, Apart
<1>3. ASSUME NEW w, NEW what, NEW changes, Begin(a, what, changes), Goto(a, w) PROVE Apart(a)
  BY <1>0, <1>3 DEF Begin, Goto, Apart
<1>4. CASE Authenticate(a) \/ Recover(a) \/ SignIn(a) \/ SignOut(a)
  BY <1>3, <1>4 DEF Authenticate, Recover, SignIn, SignOut
<1>5. CASE Forget(a) \/ Hello(a)
  BY <1>5 DEF Forget, Hello, apiVars, Apart
<1>6. CASE Acquire(a) \/ Busy(a) \/ Release(a)
  BY <1>1, <1>2, <1>6 DEF Acquire, Busy, Release, Send, Clear
<1>7. CASE Refreshed(a) \/ Registered(a) \/ Revoked(a) \/ GiveUp(a) \/ Crash(a)
  BY <1>1, <1>2, <1>7 DEF Refreshed, Registered, Revoked, GiveUp, Crash, Clear
<1> QED BY <1>4, <1>5, <1>6, <1>7 DEF ApiSteps

(* A call that ends, or goes on. *)
LEMMA OnAlone ==
    ASSUME Alone, NEW a \in Apis, Apart(a),
           \/ pc'[a] = "idle" /\ goal'[a] = "none"
           \/ /\ goal'[a] = goal[a]
              /\ pc'[a] = pc[a] \/ (pc[a] # "idle" /\ pc'[a] \notin {"idle", "registering"})
    PROVE  Alone'
<1>1. ASSUME NEW b \in Apis, pc'[b] = "idle" PROVE goal'[b] = "none"
  BY <1>1 DEF Alone, Apart
<1>2. ASSUME NEW b \in Apis, NEW c \in Apis, b # c, ChangesDevice(b)' PROVE pc'[c] = "idle"
  <2>1. ChangesDevice(b)
    BY <1>2 DEF ChangesDevice, Apart
  <2>2. pc[c] = "idle"
    BY <1>2, <2>1 DEF Alone
  <2> QED BY <2>2 DEF Apart
<1> QED BY <1>1, <1>2 DEF Alone

LEMMA ApiAlone ==
    ASSUME Calls, Alone, NEW a \in Apis, ApiSteps(a), excuses' = {}
    PROVE  Alone'
<1>0. pc \in [Apis -> PcValues] /\ goal \in [Apis -> Goals] /\ Apart(a)
  BY CallsParts, StepApart DEF CallsLeft
<1>1. ASSUME Done(a) PROVE Alone'
  BY <1>0, <1>1, OnAlone DEF Done, Goto
<1>2. ASSUME NEW w \in PcValues \ {"idle", "registering"}, Goto(a, w), goal' = goal, pc[a] # "idle"
      PROVE  Alone'
  BY <1>0, <1>2, OnAlone DEF Goto
<1>3. "throwing" \in PcValues /\ "returning" \in PcValues /\ Waiting \subseteq PcValues
  BY DEF PcValues
<1>4. CASE Authenticate(a) \/ Recover(a) \/ SignIn(a) \/ SignOut(a)
  BY <1>4, BeginAlone
<1>5. CASE Forget(a) \/ Hello(a)
  <2>1. pc' = pc /\ goal' = goal
    BY <1>5 DEF Forget, Hello, apiVars
  <2> QED BY <2>1 DEF Alone, ChangesDevice
<1>6. CASE Acquire(a) \/ Busy(a) \/ Release(a)
  BY <1>1, <1>2, <1>3, <1>6 DEF Acquire, Busy, Release, Send, Clear, Waiting
<1>7. CASE Refreshed(a) \/ Registered(a) \/ Revoked(a) \/ GiveUp(a) \/ Crash(a)
  BY <1>1, <1>2, <1>3, <1>7
     DEF Refreshed, Registered, Revoked, GiveUp, Crash, Clear, AnswersTo, Waiting
<1> QED BY <1>4, <1>5, <1>6, <1>7 DEF ApiSteps

(* A sign-out ends with the file cleared. *)
LEMMA RevokingEnds ==
    ASSUME Calls, NEW a \in Apis, ApiSteps(a), pc[a] = "revoking", excuses' = {}
    PROVE  file' = NoCredentials \/ pc'[a] = "revoking"
<1>1. Lost(a) = {"removal lost"}
  BY DEF Lost
<1>2. CASE Revoked(a)
  BY <1>2 DEF Revoked, Clear
<1>3. CASE GiveUp(a) \/ Crash(a)
  BY <1>1, <1>3 DEF GiveUp, Crash
<1>4. CASE Hello(a)
  BY <1>4 DEF Hello, apiVars
<1> QED BY <1>2, <1>3, <1>4
        DEF ApiSteps, Authenticate, Recover, SignIn, SignOut, Begin, Forget, Acquire, Busy,
            Release, Refreshed, Registered, AnswersTo

(* What an instance does, by itself. *)
LEMMA ApiQuiet ==
    ASSUME Base, Net, QuietInv, NEW a \in Apis, ApiSteps(a), ~Hello(a)
    PROVE  QuietInv'
<1> SUFFICES ASSUME excuses' = {}
             PROVE  /\ Alone'
                    /\ \A q \in replies' : Grants(q)' => Good(q.answer.credentials)'
                    /\ \/ file' = NoCredentials \/ Good(file)'
                       \/ \E q \in replies' : Grants(q)'
                       \/ \E b \in Apis : pc'[b] = "revoking"
  BY DEF QuietInv, NoCredentials
<1>1. ClientMoves /\ Apart(a)
  BY ApiMoves, StepApart DEF Base
<1>2. excuses = {} /\ replies' \subseteq replies /\ UNCHANGED storeVars
  BY <1>1 DEF ClientMoves
<1>3. \A c : Good(c) => Good(c)'
  BY <1>2 DEF storeVars, Good, Live, Works
<1>4. /\ Alone
      /\ \A q \in replies : Grants(q) => Good(q.answer.credentials)
      /\ \/ file = NoCredentials \/ Good(file)
         \/ \E q \in replies : Grants(q)
         \/ \E b \in Apis : pc[b] = "revoking"
  BY <1>2 DEF QuietInv
<1>5. Alone'
  BY <1>4, ApiAlone DEF Base
<1>6. \A q \in replies' : Grants(q) => Good(q.answer.credentials)'
  BY <1>2, <1>3, <1>4
<1>7. ASSUME NEW q \in replies, Grants(q), q \notin replies' PROVE Good(file)'
  <2>1. file' = q.answer.credentials
    BY <1>7, RemovedReplies DEF Base
  <2>2. Good(q.answer.credentials)'
    BY <1>3, <1>4, <1>7
  <2> QED BY <2>1, <2>2 DEF Good, Live, Works
<1>8. \/ file' = NoCredentials \/ Good(file)'
      \/ \E q \in replies' : Grants(q)
      \/ \E b \in Apis : pc'[b] = "revoking"
  <2>1. CASE \E q \in replies : Grants(q)
    BY <1>7, <2>1
  <2>2. CASE \E b \in Apis : pc[b] = "revoking"
    BY <2>2, <1>1, RevokingEnds DEF Apart, Base
  <2>3. CASE file' = file /\ Good(file)
    BY <1>3, <2>3 DEF Good, Live, Works
  <2> QED BY <1>1, <1>4, <2>1, <2>2, <2>3 DEF ClientMoves
<1> QED BY <1>5, <1>6, <1>8 DEF Grants

(* Nobody else is answered while a request is on its way. *)
LEMMA OneMessage ==
    ASSUME Calls, Net, Alone, excuses = {}, NEW m \in requests
    PROVE  Awaited(m) /\ replies = {}
<1>1. PICK a \in Apis : call[a] = m.id /\ pc[a] = m.op
  BY DEF Net, LossInv, Awaited
<1>2. ASSUME NEW q \in replies PROVE FALSE
  <2>1. PICK b \in Apis : call[b] = q.id /\ pc[b] = q.op
    BY DEF Net, NetInv, Awaited
  <2>2. a # b
    BY <1>1, <2>1 DEF Net, NetInv, Same
  <2>3. pc[a] \in Waiting /\ pc[b] \in Waiting
    BY <1>1, <2>1, CallFacts
  <2>4. ~ChangesDevice(a) /\ ~ChangesDevice(b)
    BY <2>2, <2>3 DEF Alone, Waiting
  <2>5. pc[a] = "refreshing" /\ pc[b] = "refreshing"
    BY <2>3, <2>4 DEF ChangesDevice, Waiting, Calls, CallInv
  <2> QED BY <2>2, <2>5, CallsParts DEF CallsLeft, Holding
<1> QED BY <1>1, <1>2 DEF Awaited

LEMMA ServeQuiet ==
    ASSUME Base, Net, Rotation, Rotation', QuietInv, NEW m \in requests, Serve(m)
    PROVE  QuietInv'
<1> SUFFICES ASSUME excuses' = {}
             PROVE  /\ Alone'
                    /\ \A q \in replies' : Grants(q)' => Good(q.answer.credentials)'
                    /\ \/ file' = NoCredentials \/ Good(file)'
                       \/ \E q \in replies' : Grants(q)'
                       \/ \E b \in Apis : pc'[b] = "revoking"
  BY DEF QuietInv, NoCredentials
<1>1. PICK answer :
         /\ \/ m.op = "refreshing" /\ Refresh(Self, m.pair, answer)
            \/ m.op = "registering" /\ Register(Self, answer)
            \/ m.op = "revoking" /\ RevokeSelf(m.pair, answer)
         /\ replies' = IF Awaited(m)
                       THEN replies \cup {[id |-> m.id, op |-> m.op, answer |-> answer]}
                       ELSE replies
         /\ excuses' = excuses \cup FailureOf(m.op, answer)
  BY DEF Serve
<1> DEFINE r == [id |-> m.id, op |-> m.op, answer |-> answer]
<1>2. r.op = m.op /\ r.answer = answer
  OBVIOUS
<1>3. excuses = {} /\ FailureOf(m.op, answer) = {}
  BY <1>1
<1>4. /\ Alone
      /\ \/ file = NoCredentials \/ Good(file)
         \/ \E q \in replies : Grants(q)
         \/ \E b \in Apis : pc[b] = "revoking"
  BY <1>3 DEF QuietInv
<1>5. replies = {} /\ Awaited(m)
  BY <1>3, <1>4, OneMessage DEF Base
<1>6. replies' = {r}
  BY <1>1, <1>5
<1> HIDE DEF r
<1>7. UNCHANGED <<file, pc, goal>>
  BY DEF Serve, apiVars
<1>8. Alone'
  BY <1>4, <1>7 DEF Alone, ChangesDevice
<1>9. CASE answer.credentials # NoCredentials
  <2>1. /\ answer.credentials.pair \in answered' /\ Works(answer.credentials, tokens')
        /\ m.op # "revoking"
    BY <1>1, <1>9, ServeEffect, RevokeEffect DEF Effect, Base
  <2>2. Grants(r) /\ Good(r.answer.credentials)'
    BY <1>2, <1>9, <2>1 DEF Grants, Good, Live
  <2> QED BY <1>6, <1>8, <2>2 DEF Grants
<1>10. CASE answer.credentials = NoCredentials
  <2>1. ~Grants(r)
    BY <1>2, <1>10 DEF Grants
  <2>2. CASE m.op = "revoking"
    <3>1. \E b \in Apis : pc'[b] = "revoking"
      BY <1>5, <1>7, <2>2 DEF Awaited
    <3> QED BY <1>6, <1>8, <2>1, <3>1 DEF Grants
  <2>3. CASE m.op # "revoking"
    <3>1. answer \notin Failures
      BY <1>1, <1>3, <2>3 DEF FailureOf
    <3>2. m.op = "refreshing" => ~Reuse(Self, m.pair)
      BY DEF Serve, Rotation, ReuseInv
    <3>3. UNCHANGED storeVars
      BY <1>1, <1>10, <2>3, <3>1, <3>2, RefreshEffect, RegisterEffect DEF Base
    <3>4. \A c : Good(c) => Good(c)'
      BY <3>3 DEF storeVars, Good, Live, Works
    <3>5. file' = NoCredentials \/ Good(file)' \/ \E b \in Apis : pc'[b] = "revoking"
      BY <1>4, <1>5, <1>7, <3>4 DEF Good, Live, Works
    <3> QED BY <1>6, <1>8, <2>1, <3>5 DEF Grants
  <2> QED BY <2>2, <2>3
<1> QED BY <1>9, <1>10

(* Credentials that work survive a restart: what was answered is on disk.  *)
LEMMA GoodStays ==
    ASSUME Base, NEW c \in Creds, Good(c),
           \/ UNCHANGED <<tokens, answered, now>>
           \/ Tick
           \/ \E f \in Configs : Restart(f) /\ SameConfig(f)
    PROVE  Good(c)'
<1>1. CASE UNCHANGED <<tokens, answered, now>>
  BY <1>1 DEF Good, Live, Works
<1>2. CASE Tick
  <2>1. c.refresh \in Nat /\ now \in Nat /\ now' = now + 1 /\ UNCHANGED <<tokens, answered>>
    BY <1>2 DEF Tick, Creds, Base, IInv, Numbers
  <2> QED BY <2>1 DEF Good, Live, Works
<1>3. CASE \E f \in Configs : Restart(f) /\ SameConfig(f)
  <2>1. tokens' = disk.tokens /\ UNCHANGED <<answered, now>>
    BY <1>3 DEF Restart
  <2>2. ASSUME NEW t \in tokens, t.pair \in answered, ~t.used PROVE t \in disk.tokens
    <3>1. AnsweredIsDurable /\ t \in Token
      BY DEF Base, IInv, Sound, Durable, Covered, AnsweredIsDurable
    <3>2. PICK s \in disk.tokens : [s EXCEPT !.used = t.used] = t /\ (s.used => t.used)
      BY <2>2, <3>1 DEF AnsweredIsDurable
    <3>3. s \in Token
      BY DEF Base, IInv, Sound
    <3>4. s = t
      BY <2>2, <3>1, <3>2, <3>3 DEF Token
    <3> QED BY <3>4
  <2> QED BY <2>1, <2>2 DEF Good, Live, Works
<1> QED BY <1>1, <1>2, <1>3

(* What the Server does on its own. *)
LEMMA ServerQuiet ==
    ASSUME Base, QuietInv,
           \/ \E f \in Configs : ServerRestarts(f)
           \/ RemoveOrphan \/ TimePasses \/ \E a \in Apis : Hello(a)
           \/ UNCHANGED vars
    PROVE  QuietInv'
<1> SUFFICES ASSUME excuses' = {}
             PROVE  /\ Alone'
                    /\ \A q \in replies' : Grants(q)' => Good(q.answer.credentials)'
                    /\ \/ file' = NoCredentials \/ Good(file)'
                       \/ \E q \in replies' : Grants(q)'
                       \/ \E b \in Apis : pc'[b] = "revoking"
  BY DEF QuietInv, NoCredentials
<1>1. UNCHANGED <<file, pc, goal, replies>> /\ excuses = {}
  BY DEF ServerRestarts, RemoveOrphan, TimePasses, Hello, vars, apiVars, netVars
<1>2. \/ UNCHANGED <<tokens, answered, now>>
      \/ Tick
      \/ \E f \in Configs : Restart(f) /\ SameConfig(f)
  BY DEF ServerRestarts, RemoveOrphan, TimePasses, Hello, Touch, vars, storeVars
<1>3. \A c \in Creds : Good(c) => Good(c)'
  BY <1>2, GoodStays
<1>4. file \in Creds /\ \A q \in replies : q.answer.credentials \in Creds
  BY CallsParts DEF Base, TypesLeft, ReplyValues
<1>5. Alone'
  BY <1>1 DEF QuietInv, Alone, ChangesDevice
<1>6. \A q \in replies' : Grants(q) => Good(q.answer.credentials)'
  BY <1>1, <1>3, <1>4 DEF QuietInv
<1>7. Good(file) => Good(file)'
  BY <1>1, <1>3, <1>4 DEF Good, Live, Works
<1> QED BY <1>1, <1>5, <1>6, <1>7 DEF QuietInv, Grants

LEMMA StepQuiet ==
    ASSUME Base, Net, Rotation, Rotation', QuietInv, [CredentialsNext]_vars
    PROVE  QuietInv'
<1>1. ASSUME NEW a \in Apis, ApiSteps(a) PROVE QuietInv'
  BY <1>1, ApiQuiet, ServerQuiet
<1> QED BY <1>1, ServeQuiet, ServerQuiet DEF CredentialsNext

LEMMA InitQuiet == CredentialsInit => QuietInv
  BY DEF CredentialsInit, QuietInv, Alone, ChangesDevice

(* As long as nothing was lost, failed or reconfigured and no sign-in or   *)
(* sign-out overlapped another call, the credentials on file are those the *)
(* Server will accept, whatever else the instances did at the same time    *)
(* and however often the Server restarted.                                 *)
THEOREM QuietFileStaysLive == CredentialsSpec => []QuietFileIsLive
<1>1. CredentialsInit => Base /\ Net /\ Rotation /\ QuietInv
  BY InitBase, InitNet, InitRotation, InitQuiet
<1>2. (Base /\ Net /\ Rotation /\ QuietInv) /\ [CredentialsNext]_vars
      => (Base /\ Net /\ Rotation /\ QuietInv)'
  BY StepBase, StepNet, StepRotation, StepQuiet DEF Base
<1>3. Base /\ Net /\ QuietInv => QuietFileIsLive
  <2> SUFFICES ASSUME Base, Net, QuietInv, excuses = {}, file # NoCredentials,
                      \A a \in Apis : pc[a] = "idle"
               PROVE  \/ file.refresh <= now
                      \/ \E t \in Presented(Self, file.pair) : ~t.used
    BY DEF QuietFileIsLive
  <2>1. replies = {}
    BY CallFacts DEF Net, NetInv, Awaited, Base, Waiting
  <2>2. Good(file)
    BY <2>1 DEF QuietInv
  <2> QED BY <2>2 DEF Good, Live, Works, Presented, Record
<1> QED BY <1>1, <1>2, <1>3, PTL DEF CredentialsSpec
=============================================================================
