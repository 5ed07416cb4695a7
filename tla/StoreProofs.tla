---------------------------- MODULE StoreProofs ----------------------------
(***************************************************************************)
(* Proofs about Store, for every set of devices, every configuration and   *)
(* every bound.  The invariant says the same of what memory holds and of   *)
(* what the disk holds (Sound), relates the two (Owned, Durable), and      *)
(* keeps the numbers of the pairs below the next one.                      *)
(***************************************************************************)
EXTENDS Store, TLAPS

(* Tokens and devices that may be in memory or on disk, when n pairs were  *)
(* issued, those of dd are void and the devices of gone were removed.      *)
Sound(ts, ds, dd, n, gone) ==
    /\ ts \subseteq Token /\ ds \in [Devices -> Status]
    /\ \A t \in ts : ds[t.deviceId] = "active" /\ t.pair <= n /\ t.pair \notin dd
    /\ SingleIn(ts) /\ OneHorizonIn(ts)
    /\ \A d \in gone : ds[d] = "revoked"

(* A pair was issued to one device. *)
Owned(ts) == \A t, u \in ts : t.pair = u.pair => t.deviceId = u.deviceId

Covered(t, us) == \E s \in us : [s EXCEPT !.used = t.used] = t /\ (s.used => t.used)
Durable(ts, us, ans) == \A t \in ts : t.pair \in ans => Covered(t, us)

Numbers ==
    /\ now \in Nat /\ pairs \in Nat /\ saveFailures \in Nat /\ restarts \in Nat
    /\ answered \subseteq 0 .. pairs /\ dead \subseteq 0 .. pairs

IInv ==
    /\ Numbers /\ config \in Configs /\ removed \subseteq Devices
    /\ disk = Image(disk.devices, disk.tokens)
    /\ Sound(tokens, devices, dead, pairs, removed)
    /\ Sound(disk.tokens, disk.devices, dead, pairs, removed)
    /\ Owned(tokens \cup disk.tokens)
    /\ Durable(tokens, disk.tokens, answered)

----------------------------------------------------------------------------
(* Sets of tokens. *)

(* Dropping tokens does no harm. *)
LEMMA FewerAreSound ==
    ASSUME NEW ts, NEW us \in SUBSET ts, NEW ds, NEW dd, NEW n, NEW gone,
           Sound(ts, ds, dd, n, gone)
    PROVE  Sound(us, ds, dd, n, gone)
  BY DEF Sound, SingleIn, OneHorizonIn, RefreshTokens

(* A set without tokens of d stays sound when d changes, is removed, or    *)
(* the pairs d has elsewhere are declared void.                            *)
LEMMA WithoutIsSound ==
    ASSUME NEW ts, NEW ds, NEW dd, NEW n, NEW gone, NEW d \in Devices, NEW st \in Status,
           NEW vs, NEW more,
           Sound(ts, ds, dd, n, gone), d \in gone \cup more => st = "revoked",
           more \subseteq {d},
           \A t \in ts : t.deviceId # d,
           \A t \in ts : t.pair \notin vs
    PROVE  Sound(ts, [ds EXCEPT ![d] = st], dd \cup vs, n, gone \cup more)
  <1>1. \A t \in ts : t.deviceId \in Devices
    BY DEF Sound, Token
  <1> QED BY <1>1 DEF Sound, Status

(* The pair issue() adds: the other refresh tokens of d are used, and of   *)
(* the same horizon.                                                       *)
LEMMA NewPairIsSound ==
    ASSUME NEW ts, NEW ds, NEW dd, NEW gone, NEW d \in Devices, NEW a \in Nat, NEW r \in Nat,
           pairs \in Nat, dd \subseteq 0 .. pairs,
           Sound(ts, ds, dd, pairs, gone), ds[d] = "active",
           \A t \in RefreshTokens(ts, d) : t.used /\ t.expires = r
    PROVE  Sound(ts \cup {NewToken("access", d, a), NewToken("refresh", d, r)},
                 ds, dd, pairs + 1, gone)
  <1> DEFINE A == NewToken("access", d, a)
             R == NewToken("refresh", d, r)
             us == ts \cup {A, R}
  <1>1. A \in Token /\ R \in Token
    BY DEF NewToken, Token
  <1>2. /\ A.pair = pairs + 1 /\ A.kind = "access" /\ A.deviceId = d
        /\ R.pair = pairs + 1 /\ R.kind = "refresh" /\ R.deviceId = d /\ R.expires = r
    BY DEF NewToken
  <1>3. pairs + 1 \notin dd
    OBVIOUS
  <1>4. \A t \in us : ds[t.deviceId] = "active" /\ t.pair <= pairs + 1 /\ t.pair \notin dd
    BY <1>2, <1>3 DEF Sound, Token
  <1>5. \A e \in Devices : RefreshTokens(us, e) =
            IF e = d THEN RefreshTokens(ts, d) \cup {R} ELSE RefreshTokens(ts, e)
    BY <1>2 DEF RefreshTokens
  <1>6. SingleIn(us)
    BY <1>5 DEF Sound, SingleIn
  <1>7. OneHorizonIn(us)
    BY <1>2, <1>5 DEF Sound, OneHorizonIn
  <1> HIDE DEF A, R
  <1>8. us \subseteq Token
    BY <1>1 DEF Sound
  <1> QED BY <1>4, <1>6, <1>7, <1>8 DEF Sound, A, R

(* Marking a token as used. *)
LEMMA UsedIsSound ==
    ASSUME NEW t \in tokens, NEW ds, NEW dd, NEW n, NEW gone, Sound(tokens, ds, dd, n, gone)
    PROVE  /\ Sound(Used(t), ds, dd, n, gone)
           /\ t.kind = "refresh" /\ ~t.used =>
                \A u \in RefreshTokens(Used(t), t.deviceId) : u.used /\ u.expires = t.expires
           /\ \A us : Owned(tokens \cup us) => Owned(Used(t) \cup us)
           /\ \A us, ans : Durable(tokens, us, ans) => Durable(Used(t), us, ans)
  <1> DEFINE v == [t EXCEPT !.used = TRUE]
  <1>1. t \in Token
    BY DEF Sound
  <1>2. /\ v \in Token /\ v.pair = t.pair /\ v.kind = t.kind /\ v.deviceId = t.deviceId
        /\ v.expires = t.expires /\ v.used
    BY <1>1 DEF Token
  <1>3. Used(t) = (tokens \ {t}) \cup {v}
    BY DEF Used
  <1>4. ASSUME NEW us, Covered(t, us)
        PROVE  Covered(v, us)
    BY <1>1, <1>4 DEF Covered, Token
  <1> HIDE DEF v
  <1>5. Sound(Used(t), ds, dd, n, gone)
    <2>1. SingleIn(Used(t))
      BY <1>2, <1>3 DEF Sound, SingleIn, RefreshTokens
    <2>2. OneHorizonIn(Used(t))
      BY <1>2, <1>3 DEF Sound, OneHorizonIn, RefreshTokens
    <2> QED BY <1>2, <1>3, <2>1, <2>2 DEF Sound
  <1>6. t.kind = "refresh" /\ ~t.used =>
            \A u \in RefreshTokens(Used(t), t.deviceId) : u.used /\ u.expires = t.expires
    <2>1. t.deviceId \in Devices
      BY <1>1 DEF Token
    <2> QED BY <1>2, <1>3, <2>1 DEF Sound, SingleIn, OneHorizonIn, RefreshTokens, Token
  <1>7. \A us : Owned(tokens \cup us) => Owned(Used(t) \cup us)
    BY <1>2, <1>3 DEF Owned
  <1>8. \A us, ans : Durable(tokens, us, ans) => Durable(Used(t), us, ans)
    BY <1>2, <1>3, <1>4 DEF Durable
  <1> QED BY <1>5, <1>6, <1>7, <1>8

(* A snapshot of memory is as durable as memory. *)
LEMMA SnapshotCovers ==
    ASSUME NEW ts \in SUBSET Token, NEW us, ts \subseteq us, NEW ans
    PROVE  Durable(ts, us, ans)
  <1>1. \A t \in ts : [t EXCEPT !.used = t.used] = t
    BY DEF Token
  <1> QED BY <1>1 DEF Durable, Covered

----------------------------------------------------------------------------
(* Handlers. *)

(* issue(): what it is given holds on disk already, and the other refresh  *)
(* tokens of d are used and expire with the new one.                       *)
LEMMA IssueKeeps ==
    ASSUME StoreAssumption, Numbers, config \in Configs, removed \subseteq Devices,
           NEW d \in Devices, NEW r \in Nat, NEW ts, NEW written, NEW answer,
           Issue(d, r, ts, written, answer),
           devices'[d] = "active", dead' \subseteq 0 .. pairs,
           Sound(ts, devices', dead', pairs, removed),
           \A t \in RefreshTokens(ts, d) : t.used /\ t.expires = r,
           written = Image(written.devices, written.tokens),
           Sound(written.tokens, written.devices, dead', pairs, removed),
           Owned(ts \cup written.tokens), Durable(ts, written.tokens, answered)
    PROVE  IInv'
  <1> DEFINE kept == Unexpired(ts)
             new == {NewToken("access", d, now + AccessLife), NewToken("refresh", d, r)}
  <1>1. kept \in SUBSET ts
    BY DEF Unexpired
  <1>2. /\ config' = config /\ now' = now /\ restarts' = restarts /\ removed' = removed
        /\ saveFailures' \in Nat
    BY DEF Issue, Conclude, SaveFails, Numbers
  <1>3. Sound(kept, devices', dead', pairs, removed)
    BY <1>1, FewerAreSound
  <1>4. \A t \in RefreshTokens(kept, d) : t.used /\ t.expires = r
    BY <1>1 DEF RefreshTokens
  <1>5. /\ Sound(kept \cup new, devices', dead', pairs + 1, removed)
        /\ \A t \in new : t.pair = pairs + 1 /\ t.deviceId = d
        /\ new \subseteq Token
    <2>1. now + AccessLife \in Nat
      BY DEF Numbers, StoreAssumption
    <2>2. \A t \in new : t.pair = pairs + 1 /\ t.deviceId = d
      BY DEF NewToken
    <2>3. Sound(kept \cup new, devices', dead', pairs + 1, removed)
      BY <1>3, <1>4, <2>1, NewPairIsSound DEF Numbers
    <2> QED BY <2>2, <2>3 DEF Sound
  <1>6. /\ \A t \in kept \cup written.tokens : t.pair <= pairs /\ t.pair \in Nat
        /\ pairs \in Nat
    BY <1>3 DEF Sound, Numbers, Token
  <1> HIDE DEF new
  <1>7. Owned(kept \cup written.tokens) /\ Owned(kept \cup new \cup written.tokens)
    BY <1>1, <1>5, <1>6 DEF Owned
  <1>8. Durable(kept, written.tokens, answered)
    BY <1>1 DEF Durable
  <1>9. Sound(written.tokens, written.devices, dead', pairs + 1, removed)
    BY <1>6 DEF Sound
  <1>10. CASE pairs' = pairs
    <2>1. tokens' = kept /\ disk' = written /\ answered' = answered
      BY <1>10, <1>6 DEF Issue
    <2> QED BY <1>2, <1>3, <1>7, <1>8, <1>10, <2>1 DEF IInv, Numbers, Image
  <1>11. CASE pairs' # pairs
    <2>1. tokens' = kept \cup new /\ pairs' = pairs + 1
      BY <1>11 DEF Issue, new
    <2>2. CASE disk' = Image(devices', tokens') /\ answered' = answered \cup {pairs + 1}
      <3>1. Durable(tokens', tokens', answered')
        BY <1>5, <2>1, SnapshotCovers DEF Sound
      <3>2. /\ disk'.tokens = tokens' /\ disk'.devices = devices'
            /\ disk' = [devices |-> disk'.devices, tokens |-> disk'.tokens, config |-> config']
        BY <1>2, <2>2 DEF Image
      <3>3. Owned(tokens' \cup disk'.tokens)
        BY <1>7, <2>1, <3>2 DEF Owned
      <3> QED BY <1>2, <1>5, <1>6, <2>1, <2>2, <3>1, <3>2, <3>3 DEF IInv, Numbers, Image
    <2>3. CASE disk' = written /\ answered' = answered
      <3>1. Durable(tokens', written.tokens, answered)
        BY <1>5, <1>6, <1>8, <2>1 DEF Durable, Numbers
      <3> QED BY <1>2, <1>5, <1>6, <1>7, <1>9, <2>1, <2>3, <3>1 DEF IInv, Numbers, Image
    <2> QED BY <1>11, <2>2, <2>3 DEF Issue, Conclude
  <1> QED BY <1>10, <1>11

(* What remains when d loses its tokens, with the pairs it had declared    *)
(* void.                                                                   *)
LEMMA PurgeKeeps ==
    ASSUME IInv, NEW d \in Devices, NEW st \in Status, NEW more \in SUBSET {d},
           d \in removed \cup more => st = "revoked"
    PROVE  /\ Sound(Purged(d), [devices EXCEPT ![d] = st], dead, pairs, removed \cup more)
           /\ Sound(Purged(d), [devices EXCEPT ![d] = st], dead \cup PairsOf(d), pairs,
                    removed \cup more)
           /\ PairsOf(d) \subseteq 0 .. pairs
           /\ Purged(d) \in SUBSET tokens
           /\ Owned(Purged(d)) /\ Owned(Purged(d) \cup disk.tokens)
           /\ Durable(Purged(d), disk.tokens, answered)
           /\ Durable(Purged(d), Purged(d), answered)
  <1>1. Purged(d) \in SUBSET tokens /\ \A t \in Purged(d) : t.deviceId # d
    BY DEF Purged
  <1>2. \A t \in Purged(d) : t.pair \notin PairsOf(d)
    BY <1>1 DEF PairsOf, IInv, Owned
  <1>3. Sound(Purged(d), devices, dead, pairs, removed)
    BY <1>1, FewerAreSound DEF IInv
  <1>4. Sound(Purged(d), [devices EXCEPT ![d] = st], dead \cup PairsOf(d), pairs, removed \cup more)
    BY <1>1, <1>2, <1>3, WithoutIsSound
  <1>5. Sound(Purged(d), [devices EXCEPT ![d] = st], dead, pairs, removed \cup more)
    BY <1>4 DEF Sound
  <1>6. PairsOf(d) \subseteq 0 .. pairs
    BY DEF PairsOf, IInv, Sound, Token, Numbers
  <1>7. Owned(Purged(d)) /\ Owned(Purged(d) \cup disk.tokens)
    BY <1>1 DEF IInv, Owned
  <1>8. Durable(Purged(d), disk.tokens, answered)
    BY <1>1 DEF IInv, Durable
  <1>9. Durable(Purged(d), Purged(d), answered)
    BY <1>3, SnapshotCovers DEF Sound
  <1> QED BY <1>1, <1>4, <1>5, <1>6, <1>7, <1>8, <1>9

----------------------------------------------------------------------------
LEMMA InitEstablishes == ASSUME StoreAssumption, Init PROVE IInv
  BY DEF Init, IInv, Numbers, Image, Sound, Owned, Durable, SingleIn, OneHorizonIn,
         RefreshTokens, Status

LEMMA RegisterKeeps ==
    ASSUME StoreAssumption, IInv, NEW d \in Devices, NEW answer, RegisterAccepted(d, answer)
    PROVE  IInv'
  <1>1. devices' = [devices EXCEPT ![d] = "active"] /\ devices[d] # "revoked"
    BY DEF RegisterAccepted, MayRegister
  <1>2. /\ "active" \in Status /\ removed \cup {} = removed
        /\ d \notin removed
    BY <1>1 DEF Status, IInv, Sound
  <1>3. /\ Sound(Purged(d), devices', dead, pairs, removed)
        /\ Sound(Purged(d), devices', dead \cup PairsOf(d), pairs, removed)
        /\ PairsOf(d) \subseteq 0 .. pairs /\ Purged(d) \in SUBSET tokens
        /\ Owned(Purged(d)) /\ Owned(Purged(d) \cup disk.tokens)
        /\ Durable(Purged(d), disk.tokens, answered)
        /\ Durable(Purged(d), Purged(d), answered)
    <2>1. {} \in SUBSET {d}
      OBVIOUS
    <2> QED BY <1>1, <1>2, <2>1, PurgeKeeps
  <1>4. devices'[d] = "active"
    BY <1>1 DEF IInv, Sound
  <1>5. CASE /\ SaveFails(answer) /\ tokens' = Purged(d)
             /\ UNCHANGED <<disk, config, now, pairs, restarts, answered, dead, removed>>
    <2>1. saveFailures' \in Nat
      BY <1>5 DEF SaveFails, IInv, Numbers
    <2> QED BY <1>3, <1>5, <2>1 DEF IInv, Numbers, Image
  <1>6. CASE /\ Issue(d, now + RefreshLife, Purged(d), Image(devices', Purged(d)), answer)
             /\ dead' = dead \cup PairsOf(d)
    <2> DEFINE written == Image(devices', Purged(d))
    <2>1. written.devices = devices' /\ written.tokens = Purged(d)
          /\ written = Image(written.devices, written.tokens)
      BY DEF Image
    <2>2. RefreshTokens(Purged(d), d) = {}
      BY DEF RefreshTokens, Purged
    <2>3. now + RefreshLife \in Nat /\ dead' \subseteq 0 .. pairs
      BY <1>3, <1>6 DEF IInv, Numbers, StoreAssumption
    <2>4. Issue(d, now + RefreshLife, Purged(d), written, answer)
      BY <1>6
    <2>5. Numbers /\ config \in Configs /\ removed \subseteq Devices
      BY DEF IInv
    <2> HIDE DEF written
    <2>6. /\ Sound(Purged(d), devices', dead', pairs, removed)
          /\ Sound(written.tokens, written.devices, dead', pairs, removed)
          /\ Durable(Purged(d), written.tokens, answered)
      BY <1>3, <1>6, <2>1
    <2>7. Owned(Purged(d) \cup written.tokens)
      BY <1>3, <2>1 DEF Owned
    <2>8. \A t \in RefreshTokens(Purged(d), d) : t.used /\ t.expires = now + RefreshLife
      BY <2>2
    <2> QED BY <1>4, <2>1, <2>3, <2>4, <2>5, <2>6, <2>7, <2>8, IssueKeeps
  <1> QED BY <1>5, <1>6 DEF RegisterAccepted

LEMMA RotationKeeps ==
    ASSUME StoreAssumption, IInv, NEW d \in Devices, NEW p, NEW answer,
           RefreshRotates(d, p, answer)
    PROVE  IInv'
  <1>1. PICK t \in Presented(d, p) :
            t.expires > now /\ ~t.used /\ Issue(d, Horizon(t), Used(t), disk, answer)
    BY DEF RefreshRotates
  <1>2. /\ t \in tokens /\ t.kind = "refresh" /\ t.deviceId = d /\ t.expires \in Nat
        /\ devices' = devices /\ dead' = dead /\ devices[d] = "active"
    BY DEF RefreshRotates, Presented, Record, IInv, Sound, Token
  <1>3. /\ Sound(Used(t), devices, dead, pairs, removed)
        /\ \A u \in RefreshTokens(Used(t), d) : u.used /\ u.expires = t.expires
        /\ Owned(Used(t) \cup disk.tokens) /\ Durable(Used(t), disk.tokens, answered)
    BY <1>1, <1>2, UsedIsSound DEF IInv
  <1>4. /\ Numbers /\ config \in Configs /\ removed \subseteq Devices /\ dead \subseteq 0 .. pairs
        /\ disk = Image(disk.devices, disk.tokens)
        /\ Sound(disk.tokens, disk.devices, dead, pairs, removed)
    BY DEF IInv, Numbers
  <1> QED BY <1>1, <1>2, <1>3, <1>4, IssueKeeps DEF Horizon

(* invalidate() as the end of a handler that leaves d the status st. *)
LEMMA InvalidateKeeps ==
    ASSUME IInv, NEW d \in Devices, NEW st \in Status, NEW code, NEW answer,
           code # "INTERNAL_ERROR",
           Invalidate(d, code, answer),
           d \in removed => st = "revoked",
           devices' = [devices EXCEPT ![d] = st],
           \/ removed' = removed
           \/ st = "revoked" /\ removed' = removed \cup {d} /\ answer = Reply(code)
    PROVE  IInv'
  <1>1. PICK more \in SUBSET {d} :
            /\ removed' = removed \cup more
            /\ more # {} => st = "revoked" /\ answer = Reply(code)
    <2>1. {} \in SUBSET {d} /\ {d} \in SUBSET {d} /\ removed \cup {} = removed
      OBVIOUS
    <2> QED BY <2>1
  <1>2. d \in removed \cup more => st = "revoked"
    BY <1>1
  <1>3. /\ Sound(Purged(d), devices', dead, pairs, removed')
        /\ Sound(Purged(d), devices', dead \cup PairsOf(d), pairs, removed')
        /\ PairsOf(d) \subseteq 0 .. pairs /\ Purged(d) \in SUBSET tokens
        /\ Owned(Purged(d)) /\ Owned(Purged(d) \cup disk.tokens)
        /\ Durable(Purged(d), disk.tokens, answered)
        /\ Durable(Purged(d), Purged(d), answered)
    BY <1>1, <1>2, PurgeKeeps
  <1>4. /\ tokens' = Purged(d) /\ config' = config /\ now' = now /\ pairs' = pairs
        /\ restarts' = restarts /\ answered' = answered
    BY DEF Invalidate
  <1>5. removed' \subseteq Devices
    BY <1>1 DEF IInv
  <1>6. CASE /\ disk' = Image(devices', tokens') /\ dead' = dead \cup PairsOf(d)
             /\ UNCHANGED saveFailures
    <2>1. /\ disk'.tokens = tokens' /\ disk'.devices = devices'
          /\ disk' = [devices |-> disk'.devices, tokens |-> disk'.tokens, config |-> config']
      BY <1>4, <1>6 DEF Image
    <2>2. tokens' \cup disk'.tokens = Purged(d)
      BY <1>4, <2>1
    <2> QED BY <1>3, <1>4, <1>5, <1>6, <2>1, <2>2 DEF IInv, Numbers, Image
  <1>7. CASE SaveFails(answer) /\ UNCHANGED <<disk, dead>>
    <2>1. answer # Reply(code) /\ saveFailures' \in Nat
      BY <1>7 DEF SaveFails, Reply, IInv, Numbers
    <2>2. removed' = removed
      BY <1>1, <2>1
    <2> QED BY <1>3, <1>4, <1>7, <2>1, <2>2 DEF IInv, Numbers, Image
  <1> QED BY <1>6, <1>7 DEF Invalidate

LEMMA ReuseKeeps ==
    ASSUME IInv, NEW d \in Devices, NEW p, NEW answer, RefreshReused(d, p, answer)
    PROVE  IInv'
  <1>1. /\ devices' = devices /\ removed' = removed /\ devices[d] \in Status
        /\ Invalidate(d, "AUTH_INVALID", answer)
    BY DEF RefreshReused, IInv, Sound
  <1>2. devices' = [devices EXCEPT ![d] = devices[d]]
    BY <1>1 DEF IInv, Sound
  <1>3. d \in removed => devices[d] = "revoked"
    BY DEF IInv, Sound
  <1> QED BY <1>1, <1>2, <1>3, InvalidateKeeps

LEMMA RevokeKeeps ==
    ASSUME IInv, NEW p, NEW answer, RevokeSelf(p, answer)
    PROVE  IInv' \/ UNCHANGED storeVars
  <1>1. SUFFICES ASSUME NEW t \in Record("access", p),
                        devices' = [devices EXCEPT ![t.deviceId] = "revoked"],
                        Invalidate(t.deviceId, "OK", answer),
                        removed' = IF answer = Reply("OK") THEN removed \cup {t.deviceId}
                                   ELSE removed
                 PROVE  IInv'
    BY DEF RevokeSelf
  <1>2. t.deviceId \in Devices /\ "revoked" \in Status
    BY DEF Record, IInv, Sound, Token, Status
  <1> QED BY <1>1, <1>2, InvalidateKeeps

LEMMA TouchKeeps ==
    ASSUME IInv, NEW d \in Devices, Touch(d)
    PROVE  IInv'
  <1>1. /\ disk' = Image(devices, tokens)
        /\ UNCHANGED <<devices, tokens, config, now, pairs, saveFailures, restarts, answered,
                       dead, removed>>
    BY DEF Touch
  <1>2. disk'.devices = devices /\ disk'.tokens = tokens
    BY <1>1 DEF Image
  <1>3. Durable(tokens, tokens, answered)
    BY SnapshotCovers DEF IInv, Sound
  <1>4. Owned(tokens \cup tokens)
    BY DEF IInv, Owned
  <1> QED BY <1>1, <1>2, <1>3, <1>4 DEF IInv, Numbers, Image

LEMMA RestartKeeps ==
    ASSUME IInv, NEW c \in Configs, Restart(c)
    PROVE  IInv'
  <1>1. /\ config' = c /\ UNCHANGED <<now, pairs, saveFailures, answered>>
        /\ disk' = [devices |-> devices', tokens |-> tokens', config |-> c]
        /\ restarts' = restarts + 1
    BY DEF Restart
  <1>2. disk'.devices = devices' /\ disk'.tokens = tokens'
    BY <1>1
  <1>3. SameConfig(c) => SameAccount(c)
    BY DEF SameConfig, SameAccount
  <1>4. dead' \subseteq 0 .. pairs /\ (SameConfig(c) => dead' = dead)
    <2>1. \A t \in tokens \cup disk.tokens : t.pair \in 0 .. pairs
      BY DEF IInv, Sound, Token, Numbers
    <2>2. {t.pair : t \in tokens \cup disk.tokens} \subseteq 0 .. pairs
      BY <2>1
    <2>3. dead' = IF SameConfig(c) THEN dead ELSE dead \cup {t.pair : t \in tokens \cup disk.tokens}
      BY DEF Restart
    <2> QED BY <2>2, <2>3 DEF IInv, Numbers
  <1>5. Sound(tokens', devices', dead', pairs, removed')
    <2>1. CASE SameConfig(c)
      BY <1>3, <1>4, <2>1 DEF Restart, IInv
    <2>2. CASE ~SameConfig(c)
      <3>1. tokens' = {}
        BY <2>2 DEF Restart
      <3>2. devices' \in [Devices -> Status] /\ \A d \in removed' : devices'[d] = "revoked"
        BY DEF Restart, IInv, Sound, Status
      <3> QED BY <3>1, <3>2 DEF Sound, SingleIn, OneHorizonIn, RefreshTokens
    <2> QED BY <2>1, <2>2
  <1>6. tokens' \in SUBSET disk.tokens /\ Owned(tokens' \cup tokens')
    BY DEF Restart, IInv, Owned
  <1>7. Durable(tokens', tokens', answered')
    BY <1>5, SnapshotCovers DEF Sound
  <1>8. removed' \subseteq Devices
    BY DEF Restart, IInv
  <1> QED BY <1>1, <1>2, <1>4, <1>5, <1>6, <1>7, <1>8 DEF IInv, Numbers, Image

LEMMA TickKeeps == ASSUME IInv, Tick PROVE IInv'
  BY DEF Tick, IInv, Numbers, Image

LEMMA StepKeeps == ASSUME StoreAssumption, IInv, [Next]_storeVars PROVE IInv'
  <1>1. CASE UNCHANGED storeVars
    BY <1>1 DEF storeVars, IInv, Numbers, Image
  <1>2. ASSUME NEW answer, NEW d \in Devices, Register(d, answer)
        PROVE  IInv'
    BY <1>1, <1>2, RegisterKeeps DEF Register, RegisterRefused
  <1>3. ASSUME NEW answer, NEW d \in Devices, NEW p, Refresh(d, p, answer)
        PROVE  IInv'
    BY <1>1, <1>3, RotationKeeps, ReuseKeeps DEF Refresh, RefreshRefused
  <1>4. ASSUME NEW answer, NEW p, RevokeSelf(p, answer)
        PROVE  IInv'
    BY <1>1, <1>4, RevokeKeeps
  <1>5. CASE \E d \in Devices : Touch(d)
    BY <1>5, TouchKeeps
  <1>6. CASE \E c \in Configs : Restart(c)
    BY <1>6, RestartKeeps
  <1>7. CASE Tick
    BY <1>7, TickKeeps
  <1> QED BY <1>1, <1>2, <1>3, <1>4, <1>5, <1>6, <1>7 DEF Next, Handle

LEMMA Invariant == Spec => []IInv
  <1>1. Init => IInv
    BY StoreAssumption, InitEstablishes
  <1>2. IInv /\ [Next]_storeVars => IInv'
    BY StoreAssumption, StepKeeps
  <1> QED BY <1>1, <1>2, PTL DEF Spec

----------------------------------------------------------------------------
(* Types; and tokens only of devices that may use them, in memory and on   *)
(* disk.                                                                   *)
THEOREM StoreTypes == Spec => []TypeOK
  <1>1. IInv => TypeOK
    <2> SUFFICES ASSUME IInv PROVE TypeOK
      OBVIOUS
    <2>1. disk \in [devices : [Devices -> Status], tokens : SUBSET Token, config : Configs]
      BY DEF IInv, Image, Sound
    <2>2. answered \subseteq Nat /\ dead \subseteq Nat
      BY DEF IInv, Numbers
    <2> QED BY <2>1, <2>2 DEF TypeOK, IInv, Numbers, Sound
  <1> QED BY <1>1, Invariant, PTL

(* However registrations, rotations, failed writes and restarts follow     *)
(* each other, a device has one working refresh token at most, in memory   *)
(* and on disk, and its refresh tokens expire together.                    *)
THEOREM RefreshIsOneChain == Spec => []RefreshChain
  <1>1. IInv => OneLiveRefresh
    BY DEF IInv, Sound, OneLiveRefresh
  <1>2. IInv => OneHorizon
    BY DEF IInv, Sound, OneHorizon
  <1>3. IInv => RefreshChain
    BY <1>1, <1>2 DEF RefreshChain
  <1> QED BY <1>3, Invariant, PTL

(* A pair that was handed out and still stands is on disk. *)
THEOREM CredentialsAreDurable == Spec => []AnsweredIsDurable
  <1>1. IInv => AnsweredIsDurable
    BY DEF IInv, Durable, Covered, AnsweredIsDurable
  <1> QED BY <1>1, Invariant, PTL

(* A pair that was declared void never comes back, after no failure and no *)
(* restart.                                                                *)
THEOREM VoidIsForGood == Spec => []DeadStaysDead
  <1>1. IInv => DeadStaysDead
    BY DEF IInv, Sound, DeadStaysDead
  <1> QED BY <1>1, Invariant, PTL

(* A removal that was answered is on disk, and holds for good. *)
THEOREM RemovalIsForGood == Spec => []RemovedForGood
  <1>1. IInv => RemovedForGood
    BY DEF IInv, Sound, RemovedForGood
  <1> QED BY <1>1, Invariant, PTL
=============================================================================
