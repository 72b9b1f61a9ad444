-------------------------- MODULE EtcdLockerProofs --------------------------
(***************************************************************************)
(* etcdLocker implements LockService, for any number of requests.          *)
(***************************************************************************)
EXTENDS EtcdLocker, TLAPS

(* A snapshot of the key that is still current has the key's value.        *)
SnapOK(s) ==
    s.present => /\ s.mod <= revision
                 /\ (key.present /\ s.mod = key.mod) => s.value = key.value

KeyInv == key.present => key.mod <= revision

OwnerInv ==
    /\ \A r \in Owners : IsLocked(key)
    /\ \A r, t \in Owners : r = t

ReqInv ==
    \A r \in Requests :
        /\ req[r].pc = "lock" => SnapOK(req[r].snap) /\ ~IsLocked(req[r].snap)
        /\ req[r].pc = "unlock" => SnapOK(req[r].snap) /\ req[r].snap.present

(* A delayed transaction either takes a free lock or releases one whose    *)
(* request is gone: while a request has the lock, the key's revision is    *)
(* newer than what any delayed Unlock has seen.                            *)
LateInv ==
    \A l \in late :
        /\ SnapOK(l.snap)
        /\ l.new = "locked" => ~IsLocked(l.snap)
        /\ l.new = "unlocked" =>
              l.snap.present /\ (Owners # {} => l.snap.mod # key.mod)

LockerInv == LockerTypeOK /\ KeyInv /\ OwnerInv /\ ReqInv /\ LateInv

ReqType == [pc : Steps, snap : KeyStates]

LEMMA IdleType ==
    /\ Absent \in KeyStates /\ Idle \in ReqType /\ Idle.pc = "idle"
    /\ [pc |-> "holding", snap |-> Absent] \in ReqType
  <1>1. Absent \in KeyStates
    BY DEF Absent, KeyStates
  <1>2. QED
    BY <1>1 DEF Idle, ReqType, Steps

LEMMA LockerInitInv == LockerInit => LockerInv
  <1> SUFFICES ASSUME LockerInit PROVE LockerInv
    OBVIOUS
  <1>1. LockerTypeOK
    BY IdleType DEF LockerInit, LockerTypeOK, ReqType
  <1>2. KeyInv /\ OwnerInv /\ ReqInv /\ LateInv
    BY IdleType DEF LockerInit, KeyInv, OwnerInv, ReqInv, LateInv, Owners, Absent
  <1>3. QED
    BY <1>1, <1>2 DEF LockerInv

(* A step of one request that leaves the key alone: it may give up the     *)
(* lock but not take it.                                                   *)
LEMMA QuietStep ==
    ASSUME LockerInv, NEW r \in Requests, NEW new \in ReqType,
           req' = [req EXCEPT ![r] = new],
           UNCHANGED <<key, revision>>, late' = late,
           new.pc \in {"holding", "unlock"} => r \in Owners,
           new.pc = "lock" => SnapOK(new.snap) /\ ~IsLocked(new.snap),
           new.pc = "unlock" => SnapOK(new.snap) /\ new.snap.present
    PROVE  /\ LockerInv'
           /\ \/ r \in Owners /\ Owners' = Owners \ {r}
              \/ Owners' = Owners
  <1>0. req \in [Requests -> ReqType] /\ key \in KeyStates /\ revision \in Nat
    BY DEF LockerInv, LockerTypeOK, ReqType
  <1>1. req'[r] = new /\ \A q \in Requests : q # r => req'[q] = req[q]
    BY <1>0
  <1>2. LockerTypeOK'
    BY <1>0 DEF LockerInv, LockerTypeOK, ReqType
  <1>3. /\ Owners' \subseteq Owners
        /\ (r \in Owners /\ Owners' = Owners \ {r}) \/ Owners' = Owners
    BY <1>1 DEF Owners
  <1>4. KeyInv' /\ OwnerInv'
    BY <1>3 DEF LockerInv, KeyInv, OwnerInv, IsLocked
  <1>5. ReqInv'
    BY <1>1 DEF LockerInv, ReqInv, SnapOK, IsLocked
  <1>6. LateInv'
    BY <1>3 DEF LockerInv, LateInv, SnapOK, IsLocked
  <1>7. QED
    BY <1>2, <1>3, <1>4, <1>5, <1>6 DEF LockerInv

(* A step that puts a new value under a new revision.                      *)
LEMMA PutStep ==
    ASSUME LockerInv, NEW v \in {"locked", "unlocked"}, PutValue(v),
           req' \in [Requests -> ReqType], late' \subseteq late,
           \A q \in Requests : \/ req'[q] = req[q]
                               \/ req'[q].pc = "holding" \/ req'[q].pc = "idle",
           \A q \in Owners' : v = "locked",
           \A q, t \in Owners' : q = t
    PROVE  LockerInv'
  <1>1. /\ key' = [present |-> TRUE, value |-> v, mod |-> revision + 1]
        /\ revision' = revision + 1 /\ revision \in Nat
    BY DEF PutValue, LockerInv, LockerTypeOK
  <1>2. key'.present /\ key'.value = v /\ key'.mod = revision + 1
    BY <1>1
  <1>3. key' \in KeyStates
    BY <1>1 DEF KeyStates
  <1>4. LockerTypeOK' /\ KeyInv'
    BY <1>1, <1>2, <1>3 DEF LockerInv, LockerTypeOK, KeyInv, ReqType
  <1>5. OwnerInv'
    BY <1>2 DEF OwnerInv, IsLocked
  <1>6. ASSUME NEW s \in KeyStates, SnapOK(s)
        PROVE  SnapOK(s)' /\ (s.present => s.mod # key'.mod)
    <2>1. s.mod \in Nat
      BY DEF KeyStates
    <2>2. QED
      BY <1>1, <1>2, <1>6, <2>1 DEF SnapOK
  <1>7. ReqInv'
    <2> SUFFICES ASSUME NEW q \in Requests, req'[q] = req[q]
                 PROVE  /\ req[q].pc = "lock" => SnapOK(req[q].snap)' /\ ~IsLocked(req[q].snap)
                        /\ req[q].pc = "unlock" => SnapOK(req[q].snap)' /\ req[q].snap.present
      BY DEF ReqInv, SnapOK, IsLocked
    <2>1. req[q].snap \in KeyStates
      BY DEF LockerInv, LockerTypeOK
    <2>2. SnapOK(req[q].snap) => (SnapOK(req[q].snap))'
      BY <1>6, <2>1
    <2>3. QED
      BY <2>2 DEF LockerInv, ReqInv
  <1>8. LateInv'
    <2> SUFFICES ASSUME NEW l \in late
                 PROVE  /\ SnapOK(l.snap)'
                        /\ l.new = "locked" => ~IsLocked(l.snap)
                        /\ l.new = "unlocked" => l.snap.present /\ l.snap.mod # key'.mod
      BY DEF LateInv, IsLocked
    <2>1. l.snap \in KeyStates
      BY DEF LockerInv, LockerTypeOK
    <2>2. QED
      BY <1>6, <2>1 DEF LockerInv, LateInv
  <1>9. QED
    BY <1>4, <1>5, <1>7, <1>8 DEF LockerInv

AbstractStep == LS!LockServiceNext \/ UNCHANGED <<IsLocked(key), Owners>>

LEMMA QuietAbstract ==
    ASSUME NEW r \in Requests, UNCHANGED key,
           (r \in Owners /\ Owners' = Owners \ {r}) \/ Owners' = Owners
    PROVE  AbstractStep
  <1>1. IsLocked(key)' = IsLocked(key)
    BY DEF IsLocked
  <1>2. CASE r \in Owners /\ Owners' = Owners \ {r}
    BY <1>1, <1>2 DEF AbstractStep, LS!LockServiceNext, LS!Release
  <1>3. CASE Owners' = Owners
    BY <1>1, <1>3 DEF AbstractStep
  <1>4. QED
    BY <1>2, <1>3

(* A current snapshot of an unlocked key: nobody has the lock.             *)
LEMMA FreeKey ==
    ASSUME LockerInv, NEW s \in KeyStates, SnapOK(s), ~IsLocked(s), Compare(s)
    PROVE  ~IsLocked(key) /\ Owners = {}
  <1>1. ~IsLocked(key)
    BY DEF SnapOK, Compare, IsLocked
  <1>2. QED
    BY <1>1 DEF LockerInv, OwnerInv

LEMMA LockCompleteStep ==
    ASSUME LockerInv, NEW r \in Requests, LockComplete(r)
    PROVE  LockerInv' /\ AbstractStep
  <1> DEFINE got == [pc |-> "holding", snap |-> Absent]
             snap == req[r].snap
             l == [snap |-> snap, new |-> "locked"]
  <1>0. /\ req \in [Requests -> ReqType] /\ req[r].pc = "lock" /\ snap \in KeyStates
        /\ SnapOK(snap) /\ ~IsLocked(snap)
    BY DEF LockComplete, LockerInv, LockerTypeOK, ReqType, ReqInv
  <1>1. got \in ReqType /\ Idle \in ReqType /\ got.pc = "holding" /\ Idle.pc = "idle"
    BY IdleType
  <1>2. CASE /\ Compare(snap) /\ PutValue("locked") /\ UNCHANGED late
             /\ req' = [req EXCEPT ![r] = got] \/ req' = [req EXCEPT ![r] = Idle]
    <2>1. Owners = {} /\ ~IsLocked(key)
      BY <1>0, <1>2, FreeKey
    <2>2. /\ \A q \in Requests : q # r => req'[q] = req[q]
          /\ req'[r] \in {got, Idle} /\ req' \in [Requests -> ReqType]
      BY <1>0, <1>1, <1>2
    <2> HIDE DEF got
    <2>3. Owners' = {} \/ Owners' = {r}
      BY <1>1, <2>1, <2>2 DEF Owners
    <2>4. IsLocked(key)'
      BY <1>2 DEF PutValue, IsLocked
    <2>5. LockerInv'
      BY <1>1, <1>2, <2>2, <2>3, PutStep
    <2>6. AbstractStep
      BY <2>1, <2>3, <2>4 DEF AbstractStep, LS!LockServiceNext, LS!Acquire, LS!Orphan
    <2>7. QED
      BY <2>5, <2>6
  <1>3. CASE /\ UNCHANGED <<key, revision>> /\ req' = [req EXCEPT ![r] = Idle]
             /\ late' \in {late, late \cup {l}}
    <2>1. \A q \in Requests : q # r => req'[q] = req[q]
      BY <1>0, <1>3
    <2>2. req'[r] = Idle /\ r \notin Owners
      BY <1>0, <1>3 DEF Owners
    <2>3. Owners' = Owners
      BY <1>1, <2>1, <2>2 DEF Owners
    <2>4. AbstractStep
      BY <1>3, <2>3, QuietAbstract
    <2>5. LockerTypeOK'
      <3>1. l \in [snap : KeyStates, new : {"locked", "unlocked"}]
        BY <1>0
      <3> HIDE DEF l
      <3>2. QED
        BY <1>0, <1>1, <1>3, <3>1 DEF LockerInv, LockerTypeOK, ReqType
    <2>6. KeyInv' /\ OwnerInv'
      BY <1>3, <2>3 DEF LockerInv, KeyInv, OwnerInv, IsLocked
    <2>7. ReqInv'
      BY <1>1, <1>3, <2>1, <2>2 DEF LockerInv, ReqInv, SnapOK, IsLocked
    <2>8. LateInv'
      <3>1. l.snap = snap /\ l.new = "locked"
        OBVIOUS
      <3> HIDE DEF l
      <3>2. QED
        BY <1>0, <1>3, <2>3, <3>1 DEF LockerInv, LateInv, SnapOK, IsLocked
    <2>9. QED
      BY <2>4, <2>5, <2>6, <2>7, <2>8 DEF LockerInv
  <1>4. QED
    BY <1>2, <1>3 DEF LockComplete, CompleteTransaction

LEMMA UnlockCompleteStep ==
    ASSUME LockerInv, NEW r \in Requests, UnlockComplete(r)
    PROVE  LockerInv' /\ AbstractStep
  <1> DEFINE snap == req[r].snap
             l == [snap |-> snap, new |-> "unlocked"]
  <1>0. /\ req \in [Requests -> ReqType] /\ req[r].pc = "unlock" /\ snap \in KeyStates
        /\ SnapOK(snap) /\ snap.present
    BY DEF UnlockComplete, LockerInv, LockerTypeOK, ReqType, ReqInv
  <1>1. Idle \in ReqType /\ Idle.pc = "idle"
    BY IdleType
  <1>2. req' = [req EXCEPT ![r] = Idle]
    BY DEF UnlockComplete, CompleteTransaction
  <1>3. req'[r] = Idle /\ \A q \in Requests : q # r => req'[q] = req[q]
    BY <1>0, <1>2
  <1>4. r \in Owners /\ Owners = {r} /\ Owners' = {}
    <2>1. r \in Owners
      BY <1>0 DEF Owners
    <2>2. Owners = {r}
      BY <2>1 DEF LockerInv, OwnerInv
    <2>3. QED
      BY <1>1, <1>3, <2>1, <2>2 DEF Owners
  <1>5. CASE PutValue("unlocked") /\ UNCHANGED late
    <2>1. ~IsLocked(key)'
      BY <1>5 DEF PutValue, IsLocked
    <2>2. req' \in [Requests -> ReqType]
      BY <1>0, <1>1, <1>2
    <2>3. LockerInv'
      BY <1>1, <1>3, <1>4, <1>5, <2>2, PutStep
    <2>4. IsLocked(key)' \in {IsLocked(key), FALSE}
      BY <2>1 DEF IsLocked
    <2>5. QED
      BY <1>4, <2>3, <2>4 DEF AbstractStep, LS!LockServiceNext, LS!Release
  <1>6. CASE UNCHANGED <<key, revision>> /\ late' \in {late, late \cup {l}}
    <2>1. AbstractStep
      BY <1>4, <1>6, QuietAbstract
    <2>2. LockerTypeOK'
      <3>1. l \in [snap : KeyStates, new : {"locked", "unlocked"}]
        BY <1>0
      <3> HIDE DEF l
      <3>2. QED
        BY <1>0, <1>1, <1>2, <1>6, <3>1 DEF LockerInv, LockerTypeOK, ReqType
    <2>3. KeyInv' /\ OwnerInv'
      BY <1>4, <1>6 DEF LockerInv, KeyInv, OwnerInv
    <2>4. ReqInv'
      BY <1>1, <1>3, <1>6 DEF LockerInv, ReqInv, SnapOK, IsLocked
    <2>5. LateInv'
      <3>1. l.snap = snap /\ l.new = "unlocked"
        OBVIOUS
      <3> HIDE DEF l
      <3>2. QED
        BY <1>0, <1>4, <1>6, <3>1 DEF LockerInv, LateInv, SnapOK, IsLocked
    <2>6. QED
      BY <2>1, <2>2, <2>3, <2>4, <2>5 DEF LockerInv
  <1>7. QED
    BY <1>5, <1>6 DEF UnlockComplete, CompleteTransaction

LEMMA LateStep ==
    ASSUME LockerInv, NEW l \in late, LateTransaction(l)
    PROVE  LockerInv' /\ AbstractStep
  <1>0. /\ l.snap \in KeyStates /\ l.new \in {"locked", "unlocked"}
        /\ req \in [Requests -> ReqType] /\ late' = late \ {l} /\ req' = req
    BY DEF LateTransaction, LockerInv, LockerTypeOK, ReqType
  <1>1. Owners' = Owners
    BY <1>0 DEF Owners
  <1>2. CASE ~Compare(l.snap)
    <2>1. UNCHANGED <<key, revision, req>>
      BY <1>2 DEF LateTransaction
    <2>2. LockerTypeOK' /\ KeyInv' /\ OwnerInv' /\ ReqInv'
      BY <1>0, <1>1, <2>1 DEF LockerInv, LockerTypeOK, KeyInv, OwnerInv, ReqInv, SnapOK, IsLocked
    <2>3. LateInv'
      BY <1>0, <1>1, <2>1 DEF LockerInv, LateInv, SnapOK, IsLocked
    <2>4. IsLocked(key)' = IsLocked(key)
      BY <2>1 DEF IsLocked
    <2>5. QED
      BY <1>1, <2>2, <2>3, <2>4 DEF LockerInv, AbstractStep
  <1>3. CASE Compare(l.snap)
    <2>1. PutValue(l.new)
      BY <1>3 DEF LateTransaction
    <2>2. Owners = {}
      <3>1. CASE l.new = "locked"
        BY <1>0, <1>3, <3>1, FreeKey DEF LockerInv, LateInv
      <3>2. CASE l.new = "unlocked"
        BY <1>3, <3>2 DEF LockerInv, LateInv, Compare
      <3>3. QED
        BY <1>0, <3>1, <3>2
    <2>3. LockerInv'
      BY <1>0, <1>1, <2>1, <2>2, PutStep
    <2>4. IsLocked(key)' \in BOOLEAN /\ IsLocked(key) \in BOOLEAN
      BY DEF IsLocked
    <2>5. AbstractStep
      BY <1>1, <2>2, <2>4 DEF AbstractStep, LS!LockServiceNext, LS!Orphan, LS!Clear
    <2>6. QED
      BY <2>3, <2>5
  <1>4. QED
    BY <1>2, <1>3

LEMMA DeleteKeyStep ==
    ASSUME LockerInv, DeleteKey
    PROVE  LockerInv' /\ AbstractStep
  <1>1. /\ key' = Absent /\ ~key'.present /\ revision' = revision + 1 /\ Owners = {}
        /\ req' = req /\ late' = late /\ revision \in Nat
    BY DEF DeleteKey, Absent, LockerInv, LockerTypeOK
  <1>2. Owners' = {}
    BY <1>1 DEF Owners
  <1>3. LockerTypeOK' /\ KeyInv' /\ OwnerInv'
    BY <1>1, <1>2, IdleType DEF LockerInv, LockerTypeOK, KeyInv, OwnerInv
  <1>4. ASSUME NEW s \in KeyStates, SnapOK(s)
        PROVE  s.present => s.mod <= revision'
    <2>1. s.mod \in Nat
      BY DEF KeyStates
    <2>2. QED
      BY <1>1, <1>4, <2>1 DEF SnapOK
  <1>5. /\ \A r \in Requests : req[r].snap \in KeyStates
        /\ \A l \in late : l.snap \in KeyStates
    BY DEF LockerInv, LockerTypeOK
  <1>6. ReqInv' /\ LateInv'
    BY <1>1, <1>2, <1>4, <1>5 DEF LockerInv, ReqInv, LateInv, SnapOK, IsLocked
  <1>7. /\ IsLocked(key)' = FALSE /\ Owners' = Owners
        /\ IsLocked(key) = TRUE \/ IsLocked(key) = FALSE
    BY <1>1, <1>2 DEF IsLocked
  <1>8. AbstractStep
    BY <1>1, <1>7 DEF AbstractStep, LS!LockServiceNext, LS!Clear
  <1>9. QED
    BY <1>3, <1>6, <1>8 DEF LockerInv

LEMMA LocalSteps ==
    ASSUME LockerInv, NEW r \in Requests,
           \/ LockGet(r) \/ LockStartTransaction(r) \/ UnlockStartTransaction(r) \/ Crash(r)
    PROVE  LockerInv' /\ AbstractStep
  <1>0. /\ req \in [Requests -> ReqType] /\ key \in KeyStates
        /\ UNCHANGED <<key, revision, late>>
    BY DEF LockerInv, LockerTypeOK, ReqType, LockGet, LockStartTransaction, CompareAndSwapUpdate,
           PutIfAbsentUpdate, UnlockStartTransaction, Crash
  <1>1. SnapOK(key)
    BY DEF SnapOK, LockerInv, KeyInv
  <1>2. ASSUME NEW new \in ReqType, req' = [req EXCEPT ![r] = new],
               new.pc \in {"holding", "unlock"} => r \in Owners,
               new.pc = "lock" => SnapOK(new.snap) /\ ~IsLocked(new.snap),
               new.pc = "unlock" => SnapOK(new.snap) /\ new.snap.present
        PROVE  LockerInv' /\ AbstractStep
    BY <1>0, <1>2, QuietStep, QuietAbstract
  <1>3. ASSUME req' = [req EXCEPT ![r] = Idle]
        PROVE  LockerInv' /\ AbstractStep
    BY <1>2, <1>3, IdleType
  <1>4. CASE LockGet(r)
    <2> DEFINE new == [pc |-> IF key.present THEN "swap" ELSE "putIfAbsent", snap |-> Absent]
    <2>1. new \in ReqType /\ new.pc \in {"swap", "putIfAbsent"}
      BY IdleType DEF ReqType, Steps
    <2>2. req' = req \/ req' = [req EXCEPT ![r] = new]
      BY <1>4 DEF LockGet
    <2> HIDE DEF new
    <2>3. CASE req' = req
      <3>1. req' = [req EXCEPT ![r] = req[r]] /\ req[r] \in ReqType
        BY <1>0, <2>3
      <3>2. req[r].pc = "idle"
        BY <1>4 DEF LockGet
      <3>3. QED
        BY <1>2, <3>1, <3>2
    <2>4. QED
      BY <1>2, <2>1, <2>2, <2>3
  <1>5. CASE LockStartTransaction(r)
    <2> DEFINE new == [pc |-> "lock", snap |-> key]
    <2>1. new \in ReqType /\ new.pc = "lock" /\ new.snap = key
      BY <1>0 DEF ReqType, Steps
    <2>2. (~IsLocked(key) /\ req' = [req EXCEPT ![r] = new]) \/ req' = [req EXCEPT ![r] = Idle]
      BY <1>5 DEF LockStartTransaction, CompareAndSwapUpdate, PutIfAbsentUpdate, IsLocked
    <2> HIDE DEF new
    <2>3. QED
      BY <1>1, <1>2, <1>3, <2>1, <2>2
  <1>6. CASE UnlockStartTransaction(r)
    <2> DEFINE new == [pc |-> "unlock", snap |-> key]
    <2>1. new \in ReqType /\ new.pc = "unlock" /\ new.snap = key
      BY <1>0 DEF ReqType, Steps
    <2>2. /\ (IsLocked(key) /\ req' = [req EXCEPT ![r] = new]) \/ req' = [req EXCEPT ![r] = Idle]
          /\ r \in Owners
      BY <1>6 DEF UnlockStartTransaction, CompareAndSwapUpdate, IsLocked, Owners
    <2> HIDE DEF new
    <2>3. QED
      BY <1>1, <1>2, <1>3, <2>1, <2>2 DEF IsLocked
  <1>7. CASE Crash(r)
    BY <1>3, <1>7 DEF Crash
  <1>8. QED
    BY <1>4, <1>5, <1>6, <1>7

LEMMA LockerStep ==
    ASSUME LockerInv, [LockerNext]_lockerVars
    PROVE  LockerInv' /\ AbstractStep
  <1>1. CASE LockerNext
    BY <1>1, LocalSteps, LockCompleteStep, UnlockCompleteStep, LateStep, DeleteKeyStep
       DEF LockerNext
  <1>2. CASE UNCHANGED lockerVars
    <2>1. UNCHANGED <<key, revision, req, late>>
      BY <1>2 DEF lockerVars
    <2>2. Owners' = Owners /\ IsLocked(key)' = IsLocked(key)
      BY <2>1 DEF Owners, IsLocked
    <2>3. LockerTypeOK' /\ KeyInv' /\ OwnerInv' /\ ReqInv' /\ LateInv'
      BY <2>1, <2>2
         DEF LockerInv, LockerTypeOK, KeyInv, OwnerInv, ReqInv, LateInv, SnapOK, IsLocked
    <2>4. QED
      BY <2>2, <2>3 DEF LockerInv, AbstractStep
  <1>3. QED
    BY <1>1, <1>2

(* Every behaviour of etcdLocker, with its timeouts and its late           *)
(* transactions, is one of the lock service.                               *)
THEOREM LockerImplementsLockService == LockerSpec => ImplementsLockService
  <1>1. LockerInit => LockerInv
    BY LockerInitInv
  <1>2. LockerInv /\ [LockerNext]_lockerVars => LockerInv'
    BY LockerStep
  <1>3. LockerInit => LS!LockServiceInit
    BY IdleType DEF LockerInit, LS!LockServiceInit, Owners, IsLocked, Absent
  <1>4. LockerInv /\ [LockerNext]_lockerVars
           => [LS!LockServiceNext]_<<IsLocked(key), Owners>>
    BY LockerStep DEF AbstractStep
  <1>5. QED
    BY <1>1, <1>2, <1>3, <1>4, PTL DEF LockerSpec, ImplementsLockService, LS!LockServiceSpec

=============================================================================
