------------------------------- MODULE Store -------------------------------
(***************************************************************************)
(* The credential store of the self-hosted Server                          *)
(* (apps/server/src/store.ts), as the routes of server.ts call it: one     *)
(* synchronous handler per step, each of which answers its caller.         *)
(*                                                                         *)
(* The Store works on memory and writes all of it to disk at the end of    *)
(* each change.  A write may fail; memory then is ahead of the disk and    *)
(* the caller is told of an internal error.  A process that dies between   *)
(* two writes of a handler leaves what a failed second write and a Restart *)
(* leave, and a Server that is down answers nobody.                        *)
(*                                                                         *)
(* A secret is named by the pair it was issued in, numbered from 1; pair 0 *)
(* stands for no secret.  Identity keys, roles and the fields touch()      *)
(* writes are left out.                                                    *)
(***************************************************************************)
EXTENDS Naturals, FiniteSets

CONSTANTS
    Devices,
    Configs,         \* [account, password] the operator may configure
    AccessLife,      \* life of an access token
    RefreshLife,     \* life of a registration
    MaxDevices,      \* device records the Store keeps, 256 in the code
    MaxTokens,       \* token records above which nothing is issued, 16384
    MaxTime,         \* bound: the clock
    MaxPairs,        \* bound: pairs issued
    MaxSaveFailures, \* bound: writes that fail
    MaxRestarts      \* bound: restarts

ASSUME StoreAssumption ==
    /\ \A c \in Configs : DOMAIN c = {"account", "password"}
    /\ AccessLife \in Nat /\ RefreshLife \in Nat
    /\ MaxDevices \in Nat /\ MaxTokens \in Nat /\ MaxTime \in Nat
    /\ MaxPairs \in Nat /\ MaxSaveFailures \in Nat /\ MaxRestarts \in Nat

VARIABLES
    devices, tokens, \* memory
    disk,            \* what the last successful write wrote
    config,          \* account and password of this process
    now,
    pairs,           \* pairs issued so far
    saveFailures, restarts,
    answered,        \* history: pairs a caller was answered with
    dead,            \* history: pairs of which the Store said they are void
    removed          \* history: devices whose removal was answered

storeVars == <<devices, tokens, disk, config, now, pairs, saveFailures,
               restarts, answered, dead, removed>>

Token == [pair : Nat, kind : {"access", "refresh"}, deviceId : Devices,
          expires : Nat, used : BOOLEAN]
Status == {"absent", "active", "revoked"}

Image(ds, ts) == [devices |-> ds, tokens |-> ts, config |-> config]

Init ==
    /\ devices = [d \in Devices |-> "absent"] /\ tokens = {}
    /\ config \in Configs /\ disk = Image(devices, tokens)
    /\ now = 0 /\ pairs = 0 /\ saveFailures = 0 /\ restarts = 0
    /\ answered = {} /\ dead = {} /\ removed = {}

----------------------------------------------------------------------------
(* What a caller is answered. *)

NoCredentials == [pair |-> 0, access |-> 0, refresh |-> 0]
Reply(code) == [code |-> code, credentials |-> NoCredentials]
Granted(refresh) ==
    [code |-> "OK", credentials |-> [pair |-> pairs + 1, access |-> now + AccessLife,
                                     refresh |-> refresh]]

Codes == {"OK", "AUTH_INVALID", "TOKEN_EXPIRED", "DEVICE_NOT_FOUND", "DEVICE_REVOKED",
          "RATE_LIMITED", "INTERNAL_ERROR"}
Answers == {Reply(c) : c \in Codes} \cup {Granted(r) : r \in {now + RefreshLife} \cup {t.expires : t \in tokens}}

----------------------------------------------------------------------------
(* Helpers. *)

Unexpired(ts) == {t \in ts : t.expires > now}
Purged(d) == {t \in tokens : t.deviceId # d}
PairsOf(d) == {t.pair : t \in {u \in tokens \cup disk.tokens : u.deviceId = d}}

NewToken(kind, d, expires) ==
    [pair |-> pairs + 1, kind |-> kind, deviceId |-> d, expires |-> expires, used |-> FALSE]

(* A write that fails: the handler throws, the disk keeps what it had. *)
SaveFails(answer) ==
    /\ saveFailures < MaxSaveFailures
    /\ saveFailures' = saveFailures + 1
    /\ answer = Reply("INTERNAL_ERROR")

(* refresh() passes the expiry of the token it replaces on to issue(). *)
Horizon(t) == t.expires

(* Mutant: the caller is answered before the write. *)
ConcludeFirst(refresh, written, answer) ==
    /\ disk' = written
    /\ answer = Granted(refresh) /\ answered' = answered \cup {pairs + 1}
    /\ UNCHANGED saveFailures

(* The end of issue(): the new pair is written, then handed out. *)
Conclude(refresh, written, answer) ==
    \/ /\ disk' = Image(devices', tokens')
       /\ answer = Granted(refresh) /\ answered' = answered \cup {pairs + 1}
       /\ UNCHANGED saveFailures
    \/ SaveFails(answer) /\ disk' = written /\ UNCHANGED answered

(* issue() on the tokens ts, when the disk holds written. *)
Issue(d, refresh, ts, written, answer) ==
    /\ pairs < MaxPairs
    /\ UNCHANGED <<config, now, restarts, removed>>
    /\ \/ /\ Cardinality(Unexpired(ts)) >= MaxTokens
          /\ tokens' = Unexpired(ts) /\ disk' = written
          /\ answer = Reply("RATE_LIMITED")
          /\ UNCHANGED <<pairs, answered, saveFailures>>
       \/ /\ Cardinality(Unexpired(ts)) < MaxTokens
          /\ tokens' = Unexpired(ts) \cup
                {NewToken("access", d, now + AccessLife), NewToken("refresh", d, refresh)}
          /\ pairs' = pairs + 1
          /\ Conclude(refresh, written, answer)

(* Mutant: the tokens go, nothing is written. *)
ForgetTokens(d, code, answer) ==
    /\ tokens' = Purged(d)
    /\ answer = Reply(code) /\ dead' = dead \cup PairsOf(d)
    /\ UNCHANGED <<disk, saveFailures>>
    /\ UNCHANGED <<config, now, pairs, restarts, answered>>

(* invalidate() as the last thing a handler does, which then answers code. *)
Invalidate(d, code, answer) ==
    /\ tokens' = Purged(d)
    /\ \/ /\ disk' = Image(devices', tokens')
          /\ answer = Reply(code) /\ dead' = dead \cup PairsOf(d)
          /\ UNCHANGED saveFailures
       \/ SaveFails(answer) /\ UNCHANGED <<disk, dead>>
    /\ UNCHANGED <<config, now, pairs, restarts, answered>>

----------------------------------------------------------------------------
(* register(): a device that is not revoked gets a new pair and loses all  *)
(* it had.  A revoked device keeps its place in the table.                 *)
TableFull(d) ==
    devices[d] = "absent" /\ Cardinality({e \in Devices : devices[e] # "absent"}) >= MaxDevices

RegisterRefused(d, answer) ==
    /\ \/ devices[d] = "revoked" /\ answer = Reply("DEVICE_REVOKED")
       \/ TableFull(d) /\ answer = Reply("RATE_LIMITED")
    /\ UNCHANGED storeVars

(* Mutant: a removed device may come back under its name. *)
HasRoom(d) == ~TableFull(d)

MayRegister(d) == devices[d] # "revoked" /\ ~TableFull(d)

(* invalidate() writes first; that write may fail, or the one of issue().  *)
RegisterAccepted(d, answer) ==
    /\ MayRegister(d)
    /\ devices' = [devices EXCEPT ![d] = "active"]
    /\ \/ /\ SaveFails(answer) /\ tokens' = Purged(d)
          /\ UNCHANGED <<disk, config, now, pairs, restarts, answered, dead, removed>>
       \/ /\ Issue(d, now + RefreshLife, Purged(d), Image(devices', Purged(d)), answer)
          /\ dead' = dead \cup PairsOf(d)

Register(d, answer) == RegisterRefused(d, answer) \/ RegisterAccepted(d, answer)

(* get(): only an active device passes. *)
NotActive(d, answer) ==
    \/ devices[d] = "absent" /\ answer = Reply("DEVICE_NOT_FOUND")
    \/ devices[d] = "revoked" /\ answer = Reply("DEVICE_REVOKED")

(* The record of a presented secret, if the Store has one. *)
Record(kind, p) == {t \in tokens : t.kind = kind /\ t.pair = p}

----------------------------------------------------------------------------
(* refresh(): a secret works once.  One that was used before voids all     *)
(* tokens of the device.                                                   *)
Presented(d, p) == {t \in Record("refresh", p) : t.deviceId = d}

RefreshRefused(d, p, answer) ==
    /\ \/ NotActive(d, answer)
       \/ /\ devices[d] = "active" /\ Presented(d, p) = {}
          /\ answer = Reply("AUTH_INVALID")
       \/ /\ devices[d] = "active" /\ \E t \in Presented(d, p) : t.expires <= now
          /\ answer = Reply("TOKEN_EXPIRED")
    /\ UNCHANGED storeVars

Reuse(d, p) == devices[d] = "active" /\ \E t \in Presented(d, p) : t.expires > now /\ t.used

RefreshReused(d, p, answer) ==
    /\ Reuse(d, p)
    /\ UNCHANGED <<devices, removed>>
    /\ Invalidate(d, "AUTH_INVALID", answer)

(* Mutant: the presented token is not marked. *)
StillUnused(t) == tokens

(* record.used = true, in memory and before anything is written *)
Used(t) == (tokens \ {t}) \cup {[t EXCEPT !.used = TRUE]}

RefreshRotates(d, p, answer) ==
    /\ devices[d] = "active"
    /\ UNCHANGED <<devices, dead>>
    /\ \E t \in Presented(d, p) :
          /\ t.expires > now /\ ~t.used
          /\ Issue(d, Horizon(t), Used(t), disk, answer)

Refresh(d, p, answer) ==
    RefreshRefused(d, p, answer) \/ RefreshReused(d, p, answer) \/ RefreshRotates(d, p, answer)

----------------------------------------------------------------------------
(* authenticate() with the access secret of pair p, then revoke().         *)
Authentic(p) == \E t \in Record("access", p) : t.expires > now /\ devices[t.deviceId] = "active"

AuthRefused(p, answer) ==
    \/ Record("access", p) = {} /\ answer = Reply("AUTH_INVALID")
    \/ \E t \in Record("access", p) :
          \/ t.expires <= now /\ answer = Reply("TOKEN_EXPIRED")
          \/ t.expires > now /\ NotActive(t.deviceId, answer)

RevokeSelf(p, answer) ==
    \/ AuthRefused(p, answer) /\ UNCHANGED storeVars
    \/ \E t \in Record("access", p) :
          /\ t.expires > now /\ devices[t.deviceId] = "active"
          /\ devices' = [devices EXCEPT ![t.deviceId] = "revoked"]
          /\ Invalidate(t.deviceId, "OK", answer)
          /\ removed' = IF answer = Reply("OK") THEN removed \cup {t.deviceId} ELSE removed

(* touch(), at each hello: whatever memory holds reaches the disk. *)
Touch(d) ==
    /\ devices[d] = "active"
    /\ disk' = Image(devices, tokens)
    /\ UNCHANGED <<devices, tokens, config, now, pairs, saveFailures, restarts, answered, dead, removed>>

----------------------------------------------------------------------------
SameAccount(c) == disk.config.account = c.account

(* Mutant: only the password is compared. *)
SamePassword(c) == disk.config.password = c.password

(* The configuration is the one the tokens on disk were issued under. *)
SameConfig(c) == disk.config = c

(* The constructor, on what the disk has: another account starts without   *)
(* devices, another account or password without tokens; then it saves.     *)
Restart(c) ==
    /\ restarts < MaxRestarts /\ restarts' = restarts + 1
    /\ config' = c
    /\ devices' = IF SameAccount(c) THEN disk.devices ELSE [d \in Devices |-> "absent"]
    /\ tokens' = IF SameConfig(c) THEN disk.tokens ELSE {}
    /\ disk' = [devices |-> devices', tokens |-> tokens', config |-> c]
    /\ dead' = IF SameConfig(c) THEN dead
               ELSE dead \cup {t.pair : t \in tokens \cup disk.tokens}
    /\ removed' = IF SameAccount(c) THEN removed ELSE {}
    /\ UNCHANGED <<now, pairs, saveFailures, answered>>

Tick ==
    /\ now < MaxTime /\ now' = now + 1
    /\ UNCHANGED <<devices, tokens, disk, config, pairs, saveFailures, restarts, answered, dead, removed>>

Handle(answer) ==
    \/ \E d \in Devices : Register(d, answer)
    \/ \E d \in Devices, p \in 0 .. pairs : Refresh(d, p, answer)
    \/ \E p \in 0 .. pairs : RevokeSelf(p, answer)

Next ==
    \/ \E answer \in Answers : Handle(answer)
    \/ \E d \in Devices : Touch(d)
    \/ \E c \in Configs : Restart(c)
    \/ Tick

Spec == Init /\ [][Next]_storeVars

----------------------------------------------------------------------------
(* Types; a token belongs to a device that may use it, in memory and on    *)
(* disk.                                                                   *)
TypeOK ==
    /\ devices \in [Devices -> Status] /\ tokens \subseteq Token
    /\ disk \in [devices : [Devices -> Status], tokens : SUBSET Token, config : Configs]
    /\ config \in Configs
    /\ now \in Nat /\ pairs \in Nat /\ saveFailures \in Nat /\ restarts \in Nat
    /\ answered \subseteq Nat /\ dead \subseteq Nat /\ removed \subseteq Devices
    /\ \A t \in tokens : devices[t.deviceId] = "active"
    /\ \A t \in disk.tokens : disk.devices[t.deviceId] = "active"

RefreshTokens(ts, d) == {t \in ts : t.deviceId = d /\ t.kind = "refresh"}

(* A device has at most one refresh token that still works, in memory and  *)
(* on disk: no order of registrations, rotations, failed writes and        *)
(* restarts leaves two (register, issue, refresh, the constructor).        *)
SingleIn(ts) ==
    \A d \in Devices : \A t, u \in RefreshTokens(ts, d) : ~t.used /\ ~u.used => t = u
OneLiveRefresh == SingleIn(tokens) /\ SingleIn(disk.tokens)

(* Rotation does not prolong a registration: all refresh tokens of a       *)
(* device, used or not, expire together (refresh passes record.expires on  *)
(* to issue).                                                              *)
OneHorizonIn(ts) == \A d \in Devices : \A t, u \in RefreshTokens(ts, d) : t.expires = u.expires
OneHorizon == OneHorizonIn(tokens) /\ OneHorizonIn(disk.tokens)

(* The tokens of a device form one chain: a single end, one expiry.        *)
RefreshChain == OneLiveRefresh /\ OneHorizon

(* "Device credentials survive restarts" (apps/server/README.md): a pair   *)
(* the caller was given and that still stands is on disk, and not as used  *)
(* when it is not, whatever writes failed since.                           *)
AnsweredIsDurable ==
    \A t \in tokens : t.pair \in answered =>
        \E s \in disk.tokens : [s EXCEPT !.used = t.used] = t /\ (s.used => t.used)

(* What the Store declared void stays void, through every later failure    *)
(* and restart: the pairs of a device before it registered again, of a     *)
(* device whose caller presented a used secret, of one removed, and those  *)
(* of another password.                                                    *)
DeadStaysDead == \A t \in tokens \cup disk.tokens : t.pair \notin dead

(* A removal that was answered holds in memory and on disk, and leaves the *)
(* device no token, until the operator configures another account.         *)
RemovedForGood ==
    \A d \in removed :
        /\ devices[d] = "revoked" /\ disk.devices[d] = "revoked"
        /\ \A t \in tokens \cup disk.tokens : t.deviceId # d
=============================================================================
