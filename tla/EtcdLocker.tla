----------------------------- MODULE EtcdLocker -----------------------------
(***************************************************************************)
(* One lock of etcdLocker (lock.go) over the transactions of EtcdClient    *)
(* (etcddb_client.go), seen at the granularity of etcd's requests.  Lock   *)
(* is a Get, then the read and the compare-and-put transaction of either   *)
(* CompareAndSwap or PutIfAbsent; Unlock is a CompareAndSwap.  The put     *)
(* compares revisions, not values.  A request that exceeds the client's    *)
(* timeout is an error to its caller but may still be applied, at once or  *)
(* much later.                                                             *)
(***************************************************************************)
EXTENDS Naturals

CONSTANTS
    Requests,     \* requests that use the lock
    MaxRevision,  \* bound on the revision of the store
    MaxLate       \* bound on the revision at which a request is still delayed

ASSUME LockerAssumption == MaxRevision \in Nat /\ MaxLate \in Nat

VARIABLES
    key,      \* the lock's key in etcd
    revision, \* etcd's revision
    req,      \* requests
    late      \* transactions whose caller timed out, not yet applied

lockerVars == <<key, revision, req, late>>

KeyStates == [present : BOOLEAN, value : {"locked", "unlocked"}, mod : Nat]

Absent == [present |-> FALSE, value |-> "unlocked", mod |-> 0]

Steps == {"idle", "swap", "putIfAbsent", "lock", "holding", "unlock"}

LockerTypeOK ==
    /\ key \in KeyStates
    /\ revision \in Nat
    /\ req \in [Requests -> [pc : Steps, snap : KeyStates]]
    /\ late \subseteq [snap : KeyStates, new : {"locked", "unlocked"}]

Idle == [pc |-> "idle", snap |-> Absent]

IsLocked(k) == k.present /\ k.value = "locked"

-----------------------------------------------------------------------------
(***************************************************************************)
(* EtcdClient.                                                             *)
(***************************************************************************)

\* Mutant.
CompareValues(snap) == key.present = snap.present /\ key.value = snap.value

(* The If of CompleteTransaction.                                          *)
Compare(snap) ==
    IF snap.present THEN key.present /\ key.mod = snap.mod ELSE ~key.present

(* Its Then: every put gets a new revision.                                *)
PutValue(v) ==
    /\ revision < MaxRevision
    /\ revision' = revision + 1
    /\ key' = [present |-> TRUE, value |-> v, mod |-> revision + 1]

(* The update functions of CompareAndSwap and PutIfAbsent: whether they    *)
(* let the put go ahead, given what StartTransaction read.                 *)
CompareAndSwapUpdate(snap, prev) == snap.present /\ snap.value = prev

PutIfAbsentUpdate(snap) == ~snap.present

(* CompleteTransaction of request r: ok on success, bad otherwise.  On a   *)
(* timeout the transaction was applied, or lost, or is still under way.    *)
CompleteTransaction(r, v, ok, bad) ==
    LET snap == req[r].snap
    IN  \/ /\ Compare(snap)
           /\ PutValue(v)
           /\ req' = [req EXCEPT ![r] = ok]
           /\ UNCHANGED late
        \/ /\ ~Compare(snap)
           /\ req' = [req EXCEPT ![r] = bad]
           /\ UNCHANGED <<key, revision, late>>
        \/ /\ Compare(snap)
           /\ PutValue(v)
           /\ req' = [req EXCEPT ![r] = bad]
           /\ UNCHANGED late
        \/ /\ revision <= MaxLate
           /\ req' = [req EXCEPT ![r] = bad]
           /\ late' \in {late, late \cup {[snap |-> snap, new |-> v]}}
           /\ UNCHANGED <<key, revision>>

(* A delayed transaction reaches etcd; nobody waits for its answer.        *)
LateTransaction(l) ==
    /\ late' = late \ {l}
    /\ IF Compare(l.snap) THEN PutValue(l.new) ELSE UNCHANGED <<key, revision>>
    /\ UNCHANGED req

-----------------------------------------------------------------------------
(***************************************************************************)
(* etcdLocker.                                                             *)
(***************************************************************************)

(* Lock: the Get.  A locked key, like an error, ends the call.             *)
LockGet(r) ==
    /\ req[r].pc = "idle"
    /\ req' = IF IsLocked(key) THEN req
              ELSE [req EXCEPT ![r] =
                      [pc |-> IF key.present THEN "swap" ELSE "putIfAbsent",
                       snap |-> Absent]]
    /\ UNCHANGED <<key, revision, late>>

(* The StartTransaction and the update function of CompareAndSwap(unlocked,*)
(* locked) or PutIfAbsent(locked).                                         *)
LockStartTransaction(r) ==
    /\ req[r].pc \in {"swap", "putIfAbsent"}
    /\ \/ /\ IF req[r].pc = "swap" THEN CompareAndSwapUpdate(key, "unlocked")
                                   ELSE PutIfAbsentUpdate(key)
          /\ req' = [req EXCEPT ![r] = [pc |-> "lock", snap |-> key]]
       \/ req' = [req EXCEPT ![r] = Idle]   \* the condition fails, or an error
    /\ UNCHANGED <<key, revision, late>>

LockComplete(r) ==
    /\ req[r].pc = "lock"
    /\ CompleteTransaction(r, "locked", [pc |-> "holding", snap |-> Absent], Idle)

(* Unlock: the StartTransaction and the update function of                 *)
(* CompareAndSwap(locked, unlocked).                                       *)
UnlockStartTransaction(r) ==
    /\ req[r].pc = "holding"
    /\ \/ /\ CompareAndSwapUpdate(key, "locked")
          /\ req' = [req EXCEPT ![r] = [pc |-> "unlock", snap |-> key]]
       \/ req' = [req EXCEPT ![r] = Idle]   \* unlocked already, or an error
    /\ UNCHANGED <<key, revision, late>>

UnlockComplete(r) ==
    /\ req[r].pc = "unlock"
    /\ CompleteTransaction(r, "unlocked", Idle, Idle)

(* The replica dies.                                                       *)
Crash(r) ==
    /\ req[r].pc # "idle"
    /\ req' = [req EXCEPT ![r] = Idle]
    /\ UNCHANGED <<key, revision, late>>

Owners == {r \in Requests : req[r].pc \in {"holding", "unlock"}}

(* snetd channel --unlock: an operator who has made sure that no request   *)
(* has the lock deletes its key (and a key that is deleted and created     *)
(* again has a new revision).                                              *)
DeleteKey ==
    /\ key.present /\ Owners = {}
    /\ revision < MaxRevision
    /\ revision' = revision + 1
    /\ key' = Absent
    /\ UNCHANGED <<req, late>>

-----------------------------------------------------------------------------

LockerInit ==
    /\ key = Absent
    /\ revision = 0
    /\ req = [r \in Requests |-> Idle]
    /\ late = {}

LockerNext ==
    \/ \E r \in Requests :
         \/ LockGet(r) \/ LockStartTransaction(r) \/ LockComplete(r)
         \/ UnlockStartTransaction(r) \/ UnlockComplete(r)
         \/ Crash(r)
    \/ \E l \in late : LateTransaction(l)
    \/ DeleteKey

LockerSpec == LockerInit /\ [][LockerNext]_lockerVars

-----------------------------------------------------------------------------

(* etcdLocker implements the lock service: in spite of its separate reads  *)
(* and writes, of timeouts and of transactions applied long after their    *)
(* caller gave up, two requests never have the lock, and nothing releases  *)
(* the lock of a request that still has it.                                *)
LS == INSTANCE LockService WITH held <- IsLocked(key), owners <- Owners

ImplementsLockService == LS!LockServiceSpec
=============================================================================
