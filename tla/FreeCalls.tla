----------------------------- MODULE FreeCalls -----------------------------
(***************************************************************************)
(* Free calls (free_call.go): a request reads the user's count, takes the  *)
(* user's lock, checks the count against the limit, calls the service and  *)
(* writes the count back plus one.  The operator's commands that unlock a  *)
(* user and reset his count run at any time, without the lock.             *)
(***************************************************************************)
EXTENDS Integers, FiniteSetsExt

CONSTANTS
    Users,               \* free call users (address and user id)
    Calls,               \* free call requests that may be in flight at the same time
    FreeCallsPerAddress, \* free_calls_per_address of the configuration
    FreeCallsAllowed,    \* the service metadata's number of free calls
    Faults,              \* the faults of this instance, see FaultKinds
    MaxMade              \* bound: a user without limit starts no call at this count

FaultKinds == {"storage", "crash"}

Entries == [kind : {"absent", "number", "unlimited", "invalid"}, n : Int]

ASSUME FreeCallsAssumption ==
    /\ Users # {}
    /\ FreeCallsPerAddress \in [Users -> Entries]
    /\ FreeCallsAllowed \in Nat
    /\ Faults \subseteq FaultKinds
    /\ MaxMade \in Nat

VARIABLES
    made,     \* FreeCallUserStorage: FreeCallsMade, 0 for a user not stored
    userLock, \* free call lock storage
    call,     \* requests
    counted,  \* history: the calls of a user stored since the last reset
    orphaned  \* history: users whose lock a failure has left behind

freeVars == <<made, userLock, call, counted, orphaned>>

CallSteps == {"idle", "read", "locked", "serving", "commit", "unlock"}

AnyUser == CHOOSE u \in Users : TRUE

IdleCall == [pc |-> "idle", user |-> AnyUser, count |-> 0]

FreeTypeOK ==
    /\ made \in [Users -> Nat]
    /\ userLock \in [Users -> BOOLEAN]
    /\ call \in [Calls -> [pc : CallSteps, user : Users, count : Nat]]
    /\ counted \in [Users -> Nat]
    /\ orphaned \subseteq Users

-----------------------------------------------------------------------------
(***************************************************************************)
(* The limit.                                                              *)
(***************************************************************************)

(* config.GetFreeCallsAllowed: 0 without a valid entry for the address.    *)
GetFreeCallsAllowed(u) ==
    LET entry == FreeCallsPerAddress[u]
    IN  IF entry.kind = "number" THEN entry.n
        ELSE IF entry.kind = "unlimited" THEN -1 ELSE 0

\* Mutant.
AllowedByMetadata(u) == FreeCallsAllowed

Allowed(u) ==
    IF GetFreeCallsAllowed(u) = 0 THEN FreeCallsAllowed ELSE GetFreeCallsAllowed(u)

Unlimited(u) == Allowed(u) = -1

\* Mutant.
LimitOffByOne(u, count) == Unlimited(u) \/ count <= Allowed(u)

LimitAllows(u, count) == Unlimited(u) \/ count < Allowed(u)

(* checkForFreeCalls: what GetFreeCallsAvailable tells the user.           *)
FreeCallsAvailable(u) ==
    LET own == GetFreeCallsAllowed(u)
        left == (IF own > 0 THEN own ELSE FreeCallsAllowed) - made[u]
    IN  IF own = -1 THEN 99999999 ELSE IF left < 0 THEN 0 ELSE left

-----------------------------------------------------------------------------
(***************************************************************************)
(* A free call.  Lock and Unlock are those of module LockService.          *)
(***************************************************************************)

(* StartFreeCallUserTransaction, for a payment whose token and signature   *)
(* are valid, reads the user before it takes the lock; ...                 *)
StartFreeCallUserTransaction(c, u) ==
    /\ call[c].pc = "idle"
    /\ Unlimited(u) => made[u] < MaxMade
    /\ call' = [call EXCEPT ![c] = [pc |-> "read", user |-> u, count |-> made[u]]]
    /\ UNCHANGED <<made, userLock, counted, orphaned>>

\* Mutant.
LockUserIgnoringOthers(c) ==
    /\ call[c].pc = "read"
    /\ userLock' = [userLock EXCEPT ![call[c].user] = TRUE]
    /\ call' = [call EXCEPT ![c] = [@ EXCEPT !.pc = "locked"]]
    /\ UNCHANGED <<made, counted, orphaned>>

(* ... it fails when the lock is set or the storage does not answer, which *)
(* may be after the lock was set; ...                                      *)
LockUser(c) ==
    LET u == call[c].user
    IN  /\ call[c].pc = "read"
        /\ \/ /\ ~userLock[u]
              /\ userLock' = [userLock EXCEPT ![u] = TRUE]
              /\ call' = [call EXCEPT ![c] = [@ EXCEPT !.pc = "locked"]]
              /\ UNCHANGED orphaned
           \/ /\ userLock[u] \/ "storage" \in Faults
              /\ userLock' \in {userLock} \cup
                    IF "storage" \in Faults THEN {[userLock EXCEPT ![u] = TRUE]} ELSE {}
              /\ call' = [call EXCEPT ![c] = IdleCall]
              /\ orphaned' = orphaned \cup IF userLock' = userLock THEN {} ELSE {u}
        /\ UNCHANGED <<made, counted>>

\* Mutant.
CheckLimitKeepsLock(c) ==
    /\ call[c].pc = "locked"
    /\ call' = [call EXCEPT ![c] =
                   IF LimitAllows(call[c].user, call[c].count)
                   THEN [@ EXCEPT !.pc = "serving"] ELSE IdleCall]
    /\ UNCHANGED <<made, userLock, counted, orphaned>>

(* ... then it checks the count that was read.                             *)
CheckLimit(c) ==
    /\ call[c].pc = "locked"
    /\ call' = [call EXCEPT ![c] = [@ EXCEPT !.pc =
                   IF LimitAllows(call[c].user, call[c].count) THEN "serving" ELSE "unlock"]]
    /\ UNCHANGED <<made, userLock, counted, orphaned>>

(* The interceptor calls the service: Complete, or CompleteAfterError.     *)
CallFreeService(c) ==
    /\ call[c].pc = "serving"
    /\ \E next \in {"commit", "unlock"} :
         call' = [call EXCEPT ![c] = [@ EXCEPT !.pc = next]]
    /\ UNCHANGED <<made, userLock, counted, orphaned>>

IncrementFreeCallCount(count) == count + 1

(* Commit; the lock is released whether the Put succeeds or not.           *)
CommitFreeCall(c) ==
    LET u == call[c].user
    IN  /\ call[c].pc = "commit"
        /\ \/ /\ made' = [made EXCEPT ![u] = IncrementFreeCallCount(call[c].count)]
              /\ counted' = [counted EXCEPT ![u] = counted[u] + 1]
           \/ "storage" \in Faults /\ UNCHANGED <<made, counted>>
        /\ call' = [call EXCEPT ![c] = [@ EXCEPT !.pc = "unlock"]]
        /\ UNCHANGED <<userLock, orphaned>>

(* Those between Lock and Unlock of a user.                                *)
Holders(u) == {c \in Calls : call[c].user = u
                   /\ call[c].pc \in {"locked", "serving", "commit", "unlock"}}

(* Rollback, and the deferred Unlock of every way out.                     *)
UnlockFreeCall(c) ==
    LET u == call[c].user
    IN  /\ call[c].pc = "unlock"
        /\ \/ userLock' = [userLock EXCEPT ![u] = FALSE] /\ UNCHANGED orphaned
           \/ "storage" \in Faults /\ orphaned' = orphaned \cup {u} /\ UNCHANGED userLock
        /\ call' = [call EXCEPT ![c] = IdleCall]
        /\ UNCHANGED <<made, counted>>

CrashFreeCall(c) ==
    /\ "crash" \in Faults
    /\ call[c].pc # "idle"
    /\ call' = [call EXCEPT ![c] = IdleCall]
    /\ orphaned' = orphaned \cup {u \in Users : c \in Holders(u)}
    /\ UNCHANGED <<made, userLock, counted>>

-----------------------------------------------------------------------------
(***************************************************************************)
(* The operator's commands.                                                *)
(***************************************************************************)

(* snetd freecall unlock, run when no request has the lock.                *)
UnlockFreeCallUser(u) ==
    /\ userLock[u] /\ Holders(u) = {}
    /\ userLock' = [userLock EXCEPT ![u] = FALSE]
    /\ orphaned' = orphaned \ {u}
    /\ UNCHANGED <<made, call, counted>>

(* snetd freecall reset; a user who is not stored has made 0 calls.        *)
ResetUserForFreeCalls(u) ==
    /\ made' = [made EXCEPT ![u] = 0]
    /\ counted' = [counted EXCEPT ![u] = 0]
    /\ UNCHANGED <<userLock, call, orphaned>>

-----------------------------------------------------------------------------

FreeInit ==
    /\ made = [u \in Users |-> 0]
    /\ userLock = [u \in Users |-> FALSE]
    /\ call = [c \in Calls |-> IdleCall]
    /\ counted = [u \in Users |-> 0]
    /\ orphaned = {}

FreeNext ==
    \/ \E c \in Calls : \/ \E u \in Users : StartFreeCallUserTransaction(c, u)
                        \/ LockUser(c) \/ CheckLimit(c) \/ CallFreeService(c)
                        \/ CommitFreeCall(c) \/ UnlockFreeCall(c) \/ CrashFreeCall(c)
    \/ \E u \in Users : UnlockFreeCallUser(u) \/ ResetUserForFreeCalls(u)

FreeSpec == FreeInit /\ [][FreeNext]_freeVars

-----------------------------------------------------------------------------
(***************************************************************************)
(* Properties.                                                             *)
(***************************************************************************)

(* Every way out of a free call gives the user's lock back: one over the   *)
(* limit, a service that fails, a Put that fails.  A lock that no request  *)
(* holds is left from a crash or from a storage that failed in Lock or in  *)
(* Unlock, and only then has the operator something to unlock.             *)
OnlyFailuresLeaveLocks ==
    \A u \in Users : userLock[u] /\ Holders(u) = {} => u \in orphaned

(* The limit is soft, since a request checks and writes back a count it    *)
(* read before it had the lock.  But it is a limit: with n requests in     *)
(* flight a user with k calls gets at most (k + n over k) - 1 of them.     *)
SoftLimit ==
    LET n == Cardinality(Calls)
    IN  \A u \in Users : Unlimited(u) \/
            counted[u] <= Cardinality(kSubset(Allowed(u), 1..(Allowed(u) + n))) - 1

(* GetFreeCallsAvailable and StartFreeCallUserTransaction compute the      *)
(* limit on their own; they agree on whether the user has a call left.     *)
AvailabilityAgrees ==
    \A u \in Users : FreeCallsAvailable(u) > 0 <=> LimitAllows(u, made[u])

UserLock(u) == INSTANCE LockService
    WITH Requests <- Calls, held <- userLock[u], owners <- Holders(u)

(* Free calls use the lock of every user as module LockService allows.     *)
FreeCallsUseLockService ==
    /\ \A u \in Users : UserLock(u)!LockServiceInit
    /\ [][\A u \in Users : \/ UserLock(u)!LockServiceNext
                           \/ UNCHANGED <<userLock[u], Holders(u)>>]_freeVars
=============================================================================
