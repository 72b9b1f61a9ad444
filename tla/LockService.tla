---------------------------- MODULE LockService ----------------------------
(***************************************************************************)
(* What interface Locker of lock.go promises its callers about one lock:   *)
(* a request that got the lock is the only one that has it.  The lock has  *)
(* no lease, so it can stay set when nobody has it any more (a replica     *)
(* died, an answer was lost); then it is cleared by an operator, or by an  *)
(* Unlock that the storage applies late.                                   *)
(***************************************************************************)
CONSTANT Requests

VARIABLES
    held,   \* the lock is set
    owners  \* the requests between a successful Lock and their Unlock

LockServiceInit == held = FALSE /\ owners = {}

Acquire(r) ==
    /\ ~held
    /\ held' = TRUE
    /\ owners' = owners \cup {r}

(* Unlock, which may fail, and the end of the replica that runs r.         *)
Release(r) ==
    /\ r \in owners
    /\ owners' = owners \ {r}
    /\ held' \in {held, FALSE}

(* The lock is set for a request that has been told it failed.             *)
Orphan == ~held /\ held' = TRUE /\ UNCHANGED owners

Clear == held /\ owners = {} /\ held' = FALSE /\ UNCHANGED owners

LockServiceNext ==
    \/ \E r \in Requests : Acquire(r) \/ Release(r)
    \/ Orphan
    \/ Clear

LockServiceSpec == LockServiceInit /\ [][LockServiceNext]_<<held, owners>>
=============================================================================
