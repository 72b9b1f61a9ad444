-------------------------- MODULE FreeCallsProofs --------------------------
(***************************************************************************)
(* The lock of a free call user and the limit, for any number of users and *)
(* of requests in flight.                                                  *)
(***************************************************************************)
EXTENDS FreeCalls, FiniteSetTheorems, TLAPS

CallType == [pc : CallSteps, user : Users, count : Nat]

(* A request between Lock and Unlock is the only one, and the lock is set. *)
HolderInv ==
    \A u \in Users :
        /\ \A c \in Holders(u) : userLock[u]
        /\ \A c, d \in Holders(u) : c = d

(* A request that calls the service has passed the check of the limit, and *)
(* the stored count is one that such a request has written.                *)
LimitInv ==
    /\ \A c \in Calls : call[c].pc \in {"serving", "commit"}
                           => LimitAllows(call[c].user, call[c].count)
    /\ \A u \in Users : Unlimited(u) \/ made[u] = 0 \/ made[u] <= Allowed(u)

FreeInv == FreeTypeOK /\ HolderInv /\ OnlyFailuresLeaveLocks /\ LimitInv

LockStep ==
    \A u \in Users : \/ UserLock(u)!LockServiceNext
                     \/ UNCHANGED <<userLock[u], Holders(u)>>

-----------------------------------------------------------------------------

Holding == {"locked", "serving", "commit", "unlock"}

LEMMA IdleType == IdleCall \in CallType /\ IdleCall.pc = "idle"
  <1>1. AnyUser \in Users
    BY FreeCallsAssumption DEF AnyUser
  <1>2. QED
    BY <1>1 DEF IdleCall, CallType, CallSteps

LEMMA FreeInitInv == FreeInit => FreeInv
  <1> SUFFICES ASSUME FreeInit PROVE FreeInv
    OBVIOUS
  <1>1. FreeTypeOK
    BY IdleType DEF FreeInit, FreeTypeOK, CallType
  <1>2. \A c \in Calls : call[c].pc = "idle"
    BY IdleType DEF FreeInit
  <1>3. \A u \in Users : Holders(u) = {} /\ userLock[u] = FALSE
    BY <1>2 DEF Holders, FreeInit
  <1>4. HolderInv /\ OnlyFailuresLeaveLocks
    BY <1>3 DEF HolderInv, OnlyFailuresLeaveLocks
  <1>5. LimitInv
    BY <1>2 DEF LimitInv, FreeInit
  <1>6. QED
    BY <1>1, <1>4, <1>5 DEF FreeInv

(* A step of one request.                                                  *)
LEMMA CallStep ==
    ASSUME FreeTypeOK, NEW c \in Calls, NEW new \in CallType, call' = [call EXCEPT ![c] = new]
    PROVE  /\ call' \in [Calls -> CallType]
           /\ call'[c] = new /\ \A d \in Calls : d # c => call'[d] = call[d]
           /\ \A u \in Users :
                Holders(u)' = IF new.pc \in Holding /\ new.user = u
                              THEN Holders(u) \cup {c} ELSE Holders(u) \ {c}
           /\ \A u \in Users : c \in Holders(u) <=> call[c].pc \in Holding /\ call[c].user = u
  <1>1. call \in [Calls -> CallType]
    BY DEF FreeTypeOK, CallType
  <1>2. /\ call' \in [Calls -> CallType]
        /\ call'[c] = new /\ \A d \in Calls : d # c => call'[d] = call[d]
    BY <1>1
  <1>3. ASSUME NEW u \in Users
        PROVE  Holders(u)' = IF new.pc \in Holding /\ new.user = u
                             THEN Holders(u) \cup {c} ELSE Holders(u) \ {c}
    BY <1>2 DEF Holders, Holding
  <1>4. \A u \in Users : c \in Holders(u) <=> call[c].pc \in Holding /\ call[c].user = u
    BY DEF Holders, Holding
  <1>5. QED
    BY <1>2, <1>3, <1>4

(* A step that neither takes nor gives back a lock.                        *)
LEMMA QuietStep ==
    ASSUME FreeInv, FreeTypeOK', LimitInv', UNCHANGED <<userLock, orphaned>>,
           \A u \in Users : Holders(u)' = Holders(u)
    PROVE  FreeInv' /\ LockStep
  <1>1. HolderInv' /\ OnlyFailuresLeaveLocks'
    BY DEF FreeInv, HolderInv, OnlyFailuresLeaveLocks
  <1>2. LockStep
    BY DEF LockStep
  <1>3. QED
    BY <1>1, <1>2 DEF FreeInv

(* A step of one request that leaves the count, keeps the lock if it has   *)
(* it and calls the service only after the check.                          *)
LEMMA KeepStep ==
    ASSUME FreeInv, NEW c \in Calls, NEW new \in CallType, call' = [call EXCEPT ![c] = new],
           UNCHANGED <<made, userLock, counted, orphaned>>,
           \/ new.pc \notin Holding /\ call[c].pc \notin Holding
           \/ new.pc \in Holding /\ call[c].pc \in Holding /\ new.user = call[c].user,
           new.pc \in {"serving", "commit"} => LimitAllows(new.user, new.count)
    PROVE  FreeInv' /\ LockStep
  <1>1. FreeTypeOK
    BY DEF FreeInv
  <1>2. /\ call' \in [Calls -> CallType]
        /\ call'[c] = new /\ \A d \in Calls : d # c => call'[d] = call[d]
        /\ \A u \in Users :
             Holders(u)' = IF new.pc \in Holding /\ new.user = u
                           THEN Holders(u) \cup {c} ELSE Holders(u) \ {c}
        /\ \A u \in Users : c \in Holders(u) <=> call[c].pc \in Holding /\ call[c].user = u
    BY <1>1, CallStep
  <1>3. \A u \in Users : Holders(u)' = Holders(u)
    BY <1>2
  <1>4. FreeTypeOK'
    BY <1>1, <1>2 DEF FreeTypeOK, CallType
  <1>5. LimitInv'
    BY <1>2 DEF FreeInv, LimitInv, LimitAllows, Unlimited, Allowed, GetFreeCallsAllowed
  <1>6. QED
    BY <1>3, <1>4, <1>5, QuietStep

(* What a request that keeps its user and its count looks like afterwards. *)
LEMMA MoveType ==
    ASSUME FreeTypeOK, NEW c \in Calls, NEW step \in CallSteps
    PROVE  LET new == [call[c] EXCEPT !.pc = step]
           IN  /\ new \in CallType /\ new.pc = step
               /\ new.user = call[c].user /\ new.count = call[c].count
  BY DEF FreeTypeOK, CallType

LEMMA LocalSteps ==
    ASSUME FreeInv, NEW c \in Calls,
           \/ \E u \in Users : StartFreeCallUserTransaction(c, u)
           \/ CheckLimit(c) \/ CallFreeService(c)
    PROVE  FreeInv' /\ LockStep
  <1>1. FreeTypeOK /\ UNCHANGED <<made, userLock, counted, orphaned>>
    BY DEF FreeInv, StartFreeCallUserTransaction, CheckLimit, CallFreeService
  <1>2. ASSUME NEW u \in Users, StartFreeCallUserTransaction(c, u)
        PROVE  FreeInv' /\ LockStep
    <2> DEFINE new == [pc |-> "read", user |-> u, count |-> made[u]]
    <2>1. new \in CallType /\ new.pc = "read"
      BY <1>1 DEF FreeTypeOK, CallType, CallSteps
    <2>2. call' = [call EXCEPT ![c] = new] /\ call[c].pc = "idle"
      BY <1>2 DEF StartFreeCallUserTransaction
    <2> HIDE DEF new
    <2>3. QED
      BY <1>1, <2>1, <2>2, KeepStep DEF Holding
  <1>3. ASSUME NEW step \in {"serving", "commit", "unlock"},
               call' = [call EXCEPT ![c] = [call[c] EXCEPT !.pc = step]],
               call[c].pc \in Holding,
               step \in {"serving", "commit"} => LimitAllows(call[c].user, call[c].count)
        PROVE  FreeInv' /\ LockStep
    <2> DEFINE new == [call[c] EXCEPT !.pc = step]
    <2>1. step \in CallSteps
      BY DEF CallSteps
    <2>2. /\ new \in CallType /\ new.pc = step
          /\ new.user = call[c].user /\ new.count = call[c].count
      BY <1>1, <2>1, MoveType
    <2>3. call' = [call EXCEPT ![c] = new]
      BY <1>3
    <2> HIDE DEF new
    <2>4. QED
      BY <1>1, <1>3, <2>2, <2>3, KeepStep DEF Holding
  <1>4. CASE CheckLimit(c)
    <2>1. CASE LimitAllows(call[c].user, call[c].count)
      <3>1. call[c].pc = "locked" /\ call' = [call EXCEPT ![c] = [call[c] EXCEPT !.pc = "serving"]]
        BY <1>4, <2>1 DEF CheckLimit
      <3>2. QED
        BY <1>3, <2>1, <3>1 DEF Holding
    <2>2. CASE ~LimitAllows(call[c].user, call[c].count)
      <3>1. call[c].pc = "locked" /\ call' = [call EXCEPT ![c] = [call[c] EXCEPT !.pc = "unlock"]]
        BY <1>4, <2>2 DEF CheckLimit
      <3>2. QED
        BY <1>3, <3>1 DEF Holding
    <2>3. QED
      BY <2>1, <2>2
  <1>5. CASE CallFreeService(c)
    <2>1. call[c].pc = "serving" /\ LimitAllows(call[c].user, call[c].count)
      BY <1>5 DEF CallFreeService, FreeInv, LimitInv
    <2>2. PICK next \in {"commit", "unlock"} :
             call' = [call EXCEPT ![c] = [call[c] EXCEPT !.pc = next]]
      BY <1>5 DEF CallFreeService
    <2>3. QED
      BY <1>3, <2>1, <2>2 DEF Holding
  <1>6. QED
    BY <1>2, <1>4, <1>5

LEMMA CommitStep ==
    ASSUME FreeInv, NEW c \in Calls, CommitFreeCall(c)
    PROVE  FreeInv' /\ LockStep
  <1> DEFINE u == call[c].user
             new == [call[c] EXCEPT !.pc = "unlock"]
  <1>1. /\ FreeTypeOK /\ u \in Users /\ call[c].count \in Nat /\ call[c].pc = "commit"
        /\ UNCHANGED <<userLock, orphaned>> /\ LimitAllows(u, call[c].count)
        /\ call' = [call EXCEPT ![c] = new]
    BY DEF FreeInv, FreeTypeOK, CommitFreeCall, LimitInv
  <1>2. /\ new \in CallType /\ new.pc = "unlock" /\ new.user = u
    <2>1. "unlock" \in CallSteps
      BY DEF CallSteps
    <2>2. QED
      BY <1>1, <2>1, MoveType
  <1> HIDE DEF new
  <1>3. /\ call' \in [Calls -> CallType]
        /\ call'[c] = new /\ \A d \in Calls : d # c => call'[d] = call[d]
        /\ \A v \in Users :
             Holders(v)' = IF new.pc \in Holding /\ new.user = v
                           THEN Holders(v) \cup {c} ELSE Holders(v) \ {c}
        /\ \A v \in Users : c \in Holders(v) <=> call[c].pc \in Holding /\ call[c].user = v
    BY <1>1, <1>2, CallStep
  <1>4. \A v \in Users : Holders(v)' = Holders(v)
    BY <1>1, <1>2, <1>3 DEF Holding
  <1>5. /\ made' \in [Users -> Nat] /\ counted' \in [Users -> Nat]
        /\ \A v \in Users : made'[v] = made[v] \/ (v = u /\ made'[v] = call[c].count + 1)
    BY <1>1 DEF CommitFreeCall, FreeTypeOK, IncrementFreeCallCount
  <1>6. FreeTypeOK'
    BY <1>1, <1>3, <1>5 DEF FreeTypeOK, CallType
  <1>7. LimitInv'
    <2>1. \A d \in Calls : call'[d].pc \in {"serving", "commit"}
              => LimitAllows(call'[d].user, call'[d].count)
      BY <1>2, <1>3 DEF FreeInv, LimitInv
    <2>2. ASSUME NEW v \in Users
          PROVE  Unlimited(v) \/ made'[v] = 0 \/ made'[v] <= Allowed(v)
      <3>1. CASE made'[v] = made[v]
        BY <3>1 DEF FreeInv, LimitInv
      <3>2. CASE v = u /\ made'[v] = call[c].count + 1
        <4>1. Unlimited(v) \/ call[c].count < Allowed(v)
          BY <1>1, <3>2 DEF LimitAllows
        <4>2. Allowed(v) \in Int
          BY FreeCallsAssumption DEF Allowed, GetFreeCallsAllowed, Entries
        <4>3. QED
          BY <1>1, <3>2, <4>1, <4>2
      <3>3. QED
        BY <1>5, <3>1, <3>2
    <2>3. QED
      BY <2>1, <2>2 DEF LimitInv, LimitAllows, Unlimited, Allowed, GetFreeCallsAllowed
  <1>8. QED
    BY <1>1, <1>4, <1>6, <1>7, QuietStep

(* Lock: the request becomes the only holder, or it fails; then the lock   *)
(* may be set all the same and is counted as left behind.                  *)
LEMMA LockUserStep ==
    ASSUME FreeInv, NEW c \in Calls, LockUser(c)
    PROVE  FreeInv' /\ LockStep
  <1> DEFINE new == [call[c] EXCEPT !.pc = "locked"]
  <1>0. PICK u \in Users : u = call[c].user
    BY DEF FreeInv, FreeTypeOK
  <1>1. /\ FreeTypeOK /\ u = call[c].user /\ call[c].pc = "read" /\ UNCHANGED <<made, counted>>
        /\ userLock \in [Users -> BOOLEAN] /\ orphaned \subseteq Users
    BY <1>0 DEF FreeInv, FreeTypeOK, LockUser
  <1>2. \A v \in Users : c \notin Holders(v)
    BY <1>1 DEF Holders
  <1>3. CASE /\ ~userLock[u] /\ userLock' = [userLock EXCEPT ![u] = TRUE]
             /\ call' = [call EXCEPT ![c] = new] /\ UNCHANGED orphaned
    <2>1. new \in CallType /\ new.pc = "locked" /\ new.user = u
      <3>1. "locked" \in CallSteps
        BY DEF CallSteps
      <3>2. QED
        BY <1>1, <3>1, MoveType
    <2>2. call' = [call EXCEPT ![c] = new]
      BY <1>3
    <2> HIDE DEF new
    <2>3. /\ call' \in [Calls -> CallType]
          /\ call'[c] = new /\ \A d \in Calls : d # c => call'[d] = call[d]
          /\ \A v \in Users :
               Holders(v)' = IF new.pc \in Holding /\ new.user = v
                             THEN Holders(v) \cup {c} ELSE Holders(v) \ {c}
      BY <1>1, <2>1, <2>2, CallStep
    <2>4. /\ Holders(u)' = Holders(u) \cup {c}
          /\ \A v \in Users : v # u => Holders(v)' = Holders(v)
      <3>1. Holders(u)' = Holders(u) \cup {c}
        BY <1>0, <2>1, <2>3 DEF Holding
      <3>2. \A v \in Users : v # u => Holders(v)' = Holders(v) \ {c}
        BY <2>1, <2>3
      <3>3. QED
        BY <1>2, <3>1, <3>2
    <2>5. /\ userLock' \in [Users -> BOOLEAN] /\ userLock'[u] = TRUE /\ userLock[u] = FALSE
          /\ \A v \in Users : v # u => userLock'[v] = userLock[v]
      BY <1>1, <1>3
    <2>6. Holders(u) = {}
      BY <1>1, <2>5 DEF FreeInv, HolderInv
    <2>7. FreeTypeOK'
      BY <1>1, <1>3, <2>3, <2>5 DEF FreeTypeOK, CallType
    <2>8. HolderInv' /\ OnlyFailuresLeaveLocks'
      BY <1>1, <1>3, <2>4, <2>5, <2>6 DEF FreeInv, HolderInv, OnlyFailuresLeaveLocks
    <2>9. LimitInv'
      BY <1>1, <2>1, <2>3
         DEF FreeInv, LimitInv, LimitAllows, Unlimited, Allowed, GetFreeCallsAllowed
    <2>10. LockStep
      <3>1. UserLock(u)!LockServiceNext
        BY <1>1, <2>4, <2>5 DEF UserLock!LockServiceNext, UserLock!Acquire
      <3>2. QED
        BY <2>4, <2>5, <3>1 DEF LockStep
    <2>11. QED
      BY <2>7, <2>8, <2>9, <2>10 DEF FreeInv
  <1>4. CASE /\ userLock' \in {userLock, [userLock EXCEPT ![u] = TRUE]}
             /\ call' = [call EXCEPT ![c] = IdleCall]
             /\ orphaned' = orphaned \cup IF userLock' = userLock THEN {} ELSE {u}
    <2>1. /\ call' \in [Calls -> CallType]
          /\ call'[c] = IdleCall /\ \A d \in Calls : d # c => call'[d] = call[d]
          /\ \A v \in Users :
               Holders(v)' = IF IdleCall.pc \in Holding /\ IdleCall.user = v
                             THEN Holders(v) \cup {c} ELSE Holders(v) \ {c}
      BY <1>1, <1>4, IdleType, CallStep
    <2>2. \A v \in Users : Holders(v)' = Holders(v)
      <3>1. \A v \in Users : Holders(v)' = Holders(v) \ {c}
        BY <2>1, IdleType DEF Holding
      <3>2. QED
        BY <1>2, <3>1
    <2>3. LimitInv'
      BY <1>1, <2>1, IdleType
         DEF FreeInv, LimitInv, LimitAllows, Unlimited, Allowed, GetFreeCallsAllowed
    <2>4. CASE userLock' = userLock
      <3>1. orphaned' = orphaned
        BY <1>4, <2>4
      <3>2. FreeTypeOK'
        BY <1>1, <2>1, <2>4, <3>1 DEF FreeTypeOK, CallType
      <3>3. QED
        BY <2>2, <2>3, <2>4, <3>1, <3>2, QuietStep
    <2>5. CASE userLock' # userLock
      <3>1. /\ userLock' = [userLock EXCEPT ![u] = TRUE] /\ orphaned' = orphaned \cup {u}
        BY <1>4, <2>5
      <3>2. userLock[u] = FALSE
        BY <1>1, <2>5, <3>1
      <3>3. /\ userLock' \in [Users -> BOOLEAN] /\ userLock'[u] = TRUE
            /\ \A v \in Users : v # u => userLock'[v] = userLock[v]
        BY <1>1, <3>1
      <3>4. FreeTypeOK'
        BY <1>1, <2>1, <3>1, <3>3 DEF FreeTypeOK, CallType
      <3>5. HolderInv' /\ OnlyFailuresLeaveLocks'
        BY <2>2, <3>1, <3>2, <3>3 DEF FreeInv, HolderInv, OnlyFailuresLeaveLocks
      <3>6. LockStep
        <4>1. UserLock(u)!LockServiceNext
          BY <1>1, <2>2, <3>2, <3>3 DEF UserLock!LockServiceNext, UserLock!Orphan
        <4>2. QED
          BY <2>2, <3>3, <4>1 DEF LockStep
      <3>7. QED
        BY <2>3, <3>4, <3>5, <3>6 DEF FreeInv
    <2>6. QED
      BY <2>4, <2>5
  <1>5. QED
    BY <1>0, <1>3, <1>4 DEF LockUser

(* Unlock and the crash of a replica: the holder is gone.                  *)
LEMMA ReleaseStep ==
    ASSUME FreeInv, NEW c \in Calls, UnlockFreeCall(c) \/ CrashFreeCall(c)
    PROVE  FreeInv' /\ LockStep
  <1>0. PICK u \in Users : u = call[c].user
    BY DEF FreeInv, FreeTypeOK
  <1>1. /\ FreeTypeOK /\ u = call[c].user /\ UNCHANGED <<made, counted>>
        /\ userLock \in [Users -> BOOLEAN] /\ orphaned \subseteq Users
        /\ call' = [call EXCEPT ![c] = IdleCall]
    BY <1>0 DEF FreeInv, FreeTypeOK, UnlockFreeCall, CrashFreeCall
  <1>2. /\ call' \in [Calls -> CallType]
        /\ call'[c] = IdleCall /\ \A d \in Calls : d # c => call'[d] = call[d]
        /\ \A v \in Users :
             Holders(v)' = IF IdleCall.pc \in Holding /\ IdleCall.user = v
                           THEN Holders(v) \cup {c} ELSE Holders(v) \ {c}
        /\ \A v \in Users : c \in Holders(v) <=> call[c].pc \in Holding /\ call[c].user = v
    BY <1>1, IdleType, CallStep
  <1>3. /\ \A v \in Users : Holders(v)' = Holders(v) \ {c}
        /\ \A v \in Users : v # u => Holders(v)' = Holders(v)
        /\ c \notin Holders(u) => Holders(u)' = Holders(u)
    <2>1. \A v \in Users : Holders(v)' = Holders(v) \ {c}
      BY <1>2, IdleType DEF Holding
    <2>2. \A v \in Users : v # u => c \notin Holders(v)
      BY <1>1, <1>2
    <2>3. QED
      BY <1>0, <2>1, <2>2
  <1>4. LimitInv'
    BY <1>1, <1>2, IdleType
       DEF FreeInv, LimitInv, LimitAllows, Unlimited, Allowed, GetFreeCallsAllowed
  <1>5. /\ userLock' \in [Users -> BOOLEAN] /\ userLock'[u] \in {userLock[u], FALSE}
        /\ \A v \in Users : v # u => userLock'[v] = userLock[v]
        /\ c \notin Holders(u) => userLock' = userLock
        /\ orphaned' \subseteq Users /\ orphaned \subseteq orphaned'
        /\ c \in Holders(u) => u \in orphaned' \/ userLock'[u] = FALSE
    <2>1. CASE UnlockFreeCall(c)
      <3>1. c \in Holders(u)
        BY <1>1, <2>1 DEF UnlockFreeCall, Holders
      <3>2. QED
        BY <1>1, <2>1, <3>1 DEF UnlockFreeCall
    <2>2. CASE CrashFreeCall(c)
      BY <1>1, <2>2 DEF CrashFreeCall
    <2>3. QED
      BY <2>1, <2>2
  <1>6. FreeTypeOK'
    BY <1>1, <1>2, <1>5 DEF FreeTypeOK, CallType
  <1>7. HolderInv'
    <2>1. \A v \in Users : \A d, e \in Holders(v) : d = e /\ userLock[v]
      BY DEF FreeInv, HolderInv
    <2>2. QED
      BY <1>1, <1>3, <1>5, <2>1 DEF HolderInv
  <1>8. OnlyFailuresLeaveLocks'
    <2>1. ASSUME NEW v \in Users, userLock'[v], Holders(v)' = {}
          PROVE  v \in orphaned'
      <3>1. userLock[v]
        BY <1>1, <1>5, <2>1
      <3>2. CASE Holders(v) = {}
        BY <1>5, <3>1, <3>2 DEF FreeInv, OnlyFailuresLeaveLocks
      <3>3. CASE Holders(v) # {}
        BY <1>3, <1>5, <2>1, <3>3
      <3>4. QED
        BY <3>2, <3>3
    <2>2. QED
      BY <2>1 DEF OnlyFailuresLeaveLocks
  <1>9. LockStep
    <2>1. CASE c \notin Holders(u)
      BY <1>3, <1>5, <2>1 DEF LockStep
    <2>2. CASE c \in Holders(u)
      <3>1. UserLock(u)!LockServiceNext
        BY <1>1, <1>3, <1>5, <2>2 DEF UserLock!LockServiceNext, UserLock!Release
      <3>2. QED
        BY <1>3, <1>5, <3>1 DEF LockStep
    <2>3. QED
      BY <2>1, <2>2
  <1>10. QED
    BY <1>4, <1>6, <1>7, <1>8, <1>9 DEF FreeInv

(* The operator's commands.                                                *)
LEMMA OperatorStep ==
    ASSUME FreeInv, NEW u \in Users, UnlockFreeCallUser(u) \/ ResetUserForFreeCalls(u)
    PROVE  FreeInv' /\ LockStep
  <1>1. /\ FreeTypeOK /\ call' = call /\ \A v \in Users : Holders(v)' = Holders(v)
        /\ userLock \in [Users -> BOOLEAN]
    BY DEF FreeInv, FreeTypeOK, UnlockFreeCallUser, ResetUserForFreeCalls, Holders
  <1>2. CASE UnlockFreeCallUser(u)
    <2>1. /\ userLock[u] = TRUE /\ Holders(u) = {} /\ userLock' = [userLock EXCEPT ![u] = FALSE]
          /\ orphaned' = orphaned \ {u} /\ UNCHANGED <<made, counted>>
      BY <1>1, <1>2 DEF UnlockFreeCallUser
    <2>2. /\ userLock' \in [Users -> BOOLEAN] /\ userLock'[u] = FALSE
          /\ \A v \in Users : v # u => userLock'[v] = userLock[v]
      BY <1>1, <2>1
    <2>3. FreeTypeOK'
      BY <1>1, <2>1, <2>2 DEF FreeTypeOK
    <2>4. HolderInv' /\ OnlyFailuresLeaveLocks'
      BY <1>1, <2>1, <2>2 DEF FreeInv, HolderInv, OnlyFailuresLeaveLocks
    <2>5. LimitInv'
      BY <1>1, <2>1 DEF FreeInv, LimitInv, LimitAllows, Unlimited, Allowed, GetFreeCallsAllowed
    <2>6. LockStep
      <3>1. UserLock(u)!LockServiceNext
        BY <1>1, <2>1, <2>2 DEF UserLock!LockServiceNext, UserLock!Clear
      <3>2. QED
        BY <1>1, <2>2, <3>1 DEF LockStep
    <2>7. QED
      BY <2>3, <2>4, <2>5, <2>6 DEF FreeInv
  <1>3. CASE ResetUserForFreeCalls(u)
    <2>1. /\ UNCHANGED <<userLock, orphaned>> /\ made' \in [Users -> Nat]
          /\ counted' \in [Users -> Nat]
          /\ \A v \in Users : made'[v] = made[v] \/ made'[v] = 0
      BY <1>1, <1>3 DEF ResetUserForFreeCalls, FreeTypeOK
    <2>2. FreeTypeOK'
      BY <1>1, <2>1 DEF FreeTypeOK
    <2>3. LimitInv'
      BY <1>1, <2>1 DEF FreeInv, LimitInv, LimitAllows, Unlimited, Allowed, GetFreeCallsAllowed
    <2>4. QED
      BY <1>1, <2>1, <2>2, <2>3, QuietStep
  <1>4. QED
    BY <1>2, <1>3

LEMMA FreeStep ==
    ASSUME FreeInv, [FreeNext]_freeVars
    PROVE  FreeInv' /\ LockStep
  <1>1. CASE FreeNext
    BY <1>1, LocalSteps, CommitStep, LockUserStep, ReleaseStep, OperatorStep DEF FreeNext
  <1>2. CASE UNCHANGED freeVars
    <2>1. UNCHANGED <<made, userLock, call, counted, orphaned>>
      BY <1>2 DEF freeVars
    <2>2. \A u \in Users : Holders(u)' = Holders(u)
      BY <2>1 DEF Holders
    <2>3. FreeTypeOK' /\ LimitInv'
      BY <2>1 DEF FreeInv, FreeTypeOK, LimitInv, LimitAllows, Unlimited, Allowed,
                  GetFreeCallsAllowed
    <2>4. QED
      BY <2>1, <2>2, <2>3, QuietStep
  <1>3. QED
    BY <1>1, <1>2

LEMMA FreeInvariant == FreeSpec => []FreeInv
  <1>1. FreeInv /\ [FreeNext]_freeVars => FreeInv'
    BY FreeStep
  <1>2. QED
    BY <1>1, FreeInitInv, PTL DEF FreeSpec

-----------------------------------------------------------------------------
(* Counts, locks and requests stay well formed.                            *)
THEOREM FreeTypes == FreeSpec => []FreeTypeOK
  <1>1. FreeInv => FreeTypeOK
    BY DEF FreeInv
  <1>2. QED
    BY <1>1, FreeInvariant, PTL

(* Every way out of a free call gives the user's lock back; only a crash   *)
(* or a storage that fails in Lock or Unlock leaves one behind.            *)
THEOREM LocksAreGivenBack == FreeSpec => []OnlyFailuresLeaveLocks
  <1>1. FreeInv => OnlyFailuresLeaveLocks
    BY DEF FreeInv
  <1>2. QED
    BY <1>1, FreeInvariant, PTL

(* Free calls, the unlock command and crashed replicas use the lock of     *)
(* each user as the interface of lock.go allows, so a request that has it  *)
(* is the only one.                                                        *)
THEOREM FreeCallsRefineLockService == FreeSpec => FreeCallsUseLockService
  <1>1. FreeInit => \A u \in Users : UserLock(u)!LockServiceInit
    <2> SUFFICES ASSUME FreeInit, NEW u \in Users PROVE UserLock(u)!LockServiceInit
      OBVIOUS
    <2>1. Holders(u) = {} /\ userLock[u] = FALSE
      BY IdleType DEF FreeInit, Holders
    <2>2. QED
      BY <2>1 DEF UserLock!LockServiceInit
  <1>2. FreeInv /\ [FreeNext]_freeVars
           => [\A u \in Users : \/ UserLock(u)!LockServiceNext
                                \/ UNCHANGED <<userLock[u], Holders(u)>>]_freeVars
    BY FreeStep DEF LockStep
  <1>3. QED
    BY <1>1, <1>2, FreeInvariant, PTL DEF FreeSpec, FreeCallsUseLockService

(* The stored count of a user with a limit: a call is only counted after   *)
(* the check of StartFreeCallUserTransaction, so Commit never stores more  *)
(* than the limit, whatever requests and resets run at the same time.      *)
StoredWithinLimit ==
    \A u \in Users : Unlimited(u) \/ made[u] = 0 \/ made[u] <= Allowed(u)

(* No interleaving of requests, resets and failures makes Commit store a   *)
(* count above the limit.                                                  *)
THEOREM CountStaysWithinLimit == FreeSpec => []StoredWithinLimit
  <1>1. FreeInv => StoredWithinLimit
    BY DEF FreeInv, LimitInv, StoredWithinLimit
  <1>2. QED
    BY <1>1, FreeInvariant, PTL

(* What the operator may write under free_calls_per_address for both       *)
(* services to mean the same by it: a number is not below -1.              *)
EntriesAreLimits ==
    \A u \in Users : FreeCallsPerAddress[u].kind = "number" => FreeCallsPerAddress[u].n >= -1

(* GetFreeCallsAvailable tells a user that he has a call left exactly when *)
(* StartFreeCallUserTransaction would let it pass.                         *)
THEOREM LimitsAgree ==
    ASSUME EntriesAreLimits
    PROVE  FreeSpec => []AvailabilityAgrees
  <1>1. FreeInv => AvailabilityAgrees
    <2> SUFFICES ASSUME FreeInv, NEW u \in Users
                 PROVE  FreeCallsAvailable(u) > 0 <=> LimitAllows(u, made[u])
      BY DEF AvailabilityAgrees
    <2> DEFINE own == GetFreeCallsAllowed(u)
    <2>1. made[u] \in Nat /\ FreeCallsAllowed \in Nat
      BY FreeCallsAssumption DEF FreeInv, FreeTypeOK
    <2>2. own \in Int /\ own >= -1
      BY FreeCallsAssumption DEF GetFreeCallsAllowed, Entries, EntriesAreLimits
    <2>3. /\ LimitAllows(u, made[u]) <=>
               LET allowed == IF own = 0 THEN FreeCallsAllowed ELSE own
               IN  allowed = -1 \/ made[u] < allowed
          /\ FreeCallsAvailable(u) =
               LET left == (IF own > 0 THEN own ELSE FreeCallsAllowed) - made[u]
               IN  IF own = -1 THEN 99999999 ELSE IF left < 0 THEN 0 ELSE left
      BY DEF LimitAllows, Unlimited, Allowed, FreeCallsAvailable
    <2> HIDE DEF own
    <2>4. QED
      BY <2>1, <2>2, <2>3
  <1>2. QED
    BY <1>1, FreeInvariant, PTL

-----------------------------------------------------------------------------
(***************************************************************************)
(* The soft limit.  A request of the user can still write the count that   *)
(* it has read, or start again from the stored one.  How many requests can *)
(* write from a count up to i is a profile of the state, which falls with  *)
(* every call that is counted, lexicographically; and there are as many    *)
(* profiles as ways to mark k of k + n places.                             *)
(***************************************************************************)

(* The places marked by a profile h: the i-th mark comes after i others    *)
(* and after h[i] requests.                                                *)
Marks(k, h) == {i + 1 + h[i] : i \in 0..(k - 1)}

Profiles(k, n) ==
    {h \in [0..(k - 1) -> 0..n] : \A i, j \in 0..(k - 1) : i <= j => h[i] <= h[j]}

Ways(k, n) == kSubset(k, 1..(k + n))

(* Sets of marks in lexicographic order.                                   *)
Precedes(A, B) == \E x \in A \ B : \A y \in B \ A : x < y

Before(S, A) == {B \in S : Precedes(B, A)}

LEMMA LeastNumber ==
    ASSUME NEW T, T \subseteq Nat, T # {}
    PROVE  \E x \in T : \A y \in T : x <= y
  <1>1. IsWellFoundedOn(OpToRel(<, Nat), Nat)
    BY NatLessThanWellFounded
  <1>2. PICK x \in T : \A y \in T : <<y, x>> \notin OpToRel(<, Nat)
    BY <1>1, WFMin
  <1>3. ASSUME NEW y \in T PROVE x <= y
    <2>1. x \in Nat /\ y \in Nat
      OBVIOUS
    <2>2. <<y, x>> \notin {pair \in Nat \X Nat : pair[1] < pair[2]}
      BY <1>2 DEF OpToRel
    <2>3. ~(y < x)
      BY <2>1, <2>2
    <2>4. QED
      BY <2>1, <2>3
  <1>4. QED
    BY <1>3

LEMMA PrecedesIsTransitive ==
    ASSUME NEW A \in SUBSET Int, NEW B \in SUBSET Int, NEW C \in SUBSET Int,
           Precedes(A, B), Precedes(B, C)
    PROVE  Precedes(A, C)
  <1>1. PICK x \in A \ B : \A y \in B \ A : x < y
    BY DEF Precedes
  <1>2. PICK z \in B \ C : \A y \in C \ B : z < y
    BY DEF Precedes
  <1>3. CASE x < z
    <2>1. x \in A \ C
      BY <1>1, <1>2, <1>3
    <2>2. ASSUME NEW y \in C \ A PROVE x < y
      BY <1>1, <1>2, <1>3
    <2>3. QED
      BY <2>1, <2>2 DEF Precedes
  <1>4. CASE z < x
    <2>1. z \in A \ C
      BY <1>1, <1>2, <1>4
    <2>2. ASSUME NEW y \in C \ A PROVE z < y
      BY <1>1, <1>2, <1>4
    <2>3. QED
      BY <2>1, <2>2 DEF Precedes
  <1>5. QED
    BY <1>1, <1>2, <1>3, <1>4

(* The number of sets before one of them.                                  *)
LEMMA BeforeIsLess ==
    ASSUME NEW S, IsFiniteSet(S), NEW A \in S
    PROVE  /\ IsFiniteSet(Before(S, A)) /\ Cardinality(Before(S, A)) \in Nat
           /\ Cardinality(S) \in Nat /\ Cardinality(Before(S, A)) < Cardinality(S)
  <1>1. Before(S, A) \in SUBSET S /\ A \notin Before(S, A)
    BY DEF Before, Precedes
  <1>2. /\ IsFiniteSet(Before(S, A)) /\ Cardinality(Before(S, A)) <= Cardinality(S)
        /\ Cardinality(S) # Cardinality(Before(S, A))
    BY <1>1, FS_Subset
  <1>3. Cardinality(Before(S, A)) \in Nat /\ Cardinality(S) \in Nat
    BY <1>2, FS_CardinalityType
  <1>4. QED
    BY <1>2, <1>3

LEMMA BeforeFalls ==
    ASSUME NEW S \in SUBSET (SUBSET Int), IsFiniteSet(S), NEW A \in S, NEW B \in S,
           Precedes(B, A)
    PROVE  Cardinality(Before(S, B)) + 1 <= Cardinality(Before(S, A))
  <1>1. Before(S, B) \cup {B} \in SUBSET Before(S, A)
    BY PrecedesIsTransitive DEF Before
  <1>2. B \notin Before(S, B)
    BY DEF Before, Precedes
  <1>3. IsFiniteSet(Before(S, A)) /\ IsFiniteSet(Before(S, B))
    BY BeforeIsLess
  <1>4. Cardinality(Before(S, B) \cup {B}) = Cardinality(Before(S, B)) + 1
    BY <1>2, <1>3, FS_AddElement
  <1>5. Cardinality(Before(S, B) \cup {B}) <= Cardinality(Before(S, A))
    BY <1>1, <1>3, FS_Subset
  <1>6. QED
    BY <1>4, <1>5

LEMMA WaysAreFinite ==
    ASSUME NEW k \in Nat, NEW n \in Nat
    PROVE  IsFiniteSet(Ways(k, n)) /\ Ways(k, n) \in SUBSET (SUBSET Int)
  <1>1. IsFiniteSet(SUBSET (1..(k + n)))
    <2>1. 1 \in Int /\ k + n \in Int
      OBVIOUS
    <2>2. IsFiniteSet(1..(k + n))
      BY <2>1, FS_Interval
    <2>3. QED
      BY <2>2, FS_SUBSET
  <1>2. Ways(k, n) \in SUBSET (SUBSET (1..(k + n)))
    BY DEF Ways, kSubset
  <1>3. QED
    BY <1>1, <1>2, FS_Subset

(* A profile marks k of the k + n places.                                  *)
LEMMA MarksAreWays ==
    ASSUME NEW k \in Nat, NEW n \in Nat, NEW h \in Profiles(k, n)
    PROVE  Marks(k, h) \in Ways(k, n)
  <1> DEFINE I == 0..(k - 1)
             f == [i \in I |-> i + 1 + h[i]]
  <1>1. \A i \in I : i \in Nat /\ i < k /\ h[i] \in Nat /\ h[i] <= n
    BY DEF Profiles
  <1>2. Marks(k, h) \subseteq 1..(k + n)
    BY <1>1 DEF Marks
  <1>3. f \in Bijection(I, Marks(k, h))
    <2>1. f \in [I -> Marks(k, h)] /\ \A m \in Marks(k, h) : \E i \in I : f[i] = m
      BY DEF Marks
    <2>2. ASSUME NEW i \in I, NEW j \in I, f[i] = f[j] PROVE i = j
      <3>1. /\ i <= j => h[i] <= h[j]
            /\ j <= i => h[j] <= h[i]
        BY DEF Profiles
      <3>2. i + 1 + h[i] = j + 1 + h[j]
        BY <2>2
      <3>3. QED
        BY <1>1, <3>1, <3>2
    <2>3. QED
      BY <2>1, <2>2 DEF Bijection, Injection, Surjection, IsInjective
  <1>4. IsFiniteSet(I) /\ Cardinality(I) = k
    <2>1. 0 \in Int /\ k - 1 \in Int
      OBVIOUS
    <2>2. IsFiniteSet(I) /\ Cardinality(I) = IF 0 > k - 1 THEN 0 ELSE (k - 1) - 0 + 1
      BY <2>1, FS_Interval
    <2>3. QED
      BY <2>2
  <1> HIDE DEF I, f
  <1>5. Cardinality(Marks(k, h)) = k
    BY <1>3, <1>4, FS_Bijection DEF ExistsBijection
  <1>6. QED
    BY <1>2, <1>5 DEF Ways, kSubset

(* A profile that is smaller at s, and not larger before s, comes first.   *)
LEMMA MarksFall ==
    ASSUME NEW k \in Nat, NEW n \in Nat, NEW g \in Profiles(k, n), NEW h \in Profiles(k, n),
           NEW s \in 0..(k - 1), g[s] < h[s], \A i \in 0..s : g[i] <= h[i]
    PROVE  Precedes(Marks(k, g), Marks(k, h))
  <1> DEFINE T == {i \in 0..(k - 1) : i <= s /\ g[i] < h[i]}
  <1>1. T \subseteq Nat /\ s \in T
    OBVIOUS
  <1>2. PICK t \in T : \A i \in T : t <= i
    BY <1>1, LeastNumber
  <1>3. /\ t \in 0..(k - 1) /\ t <= s /\ g[t] < h[t]
        /\ \A i \in 0..(k - 1) : i < t => ~(g[i] < h[i])
    BY <1>2
  <1> HIDE DEF T
  <1>4. \A i \in 0..(k - 1) : g[i] \in Nat /\ h[i] \in Nat
    BY DEF Profiles
  <1>5. ASSUME NEW i \in 0..(k - 1), i < t PROVE g[i] = h[i]
    BY <1>3, <1>4, <1>5
  <1>6. /\ \A i, j \in 0..(k - 1) : i <= j => g[i] <= g[j]
        /\ \A i, j \in 0..(k - 1) : i <= j => h[i] <= h[j]
    BY DEF Profiles
  <1> DEFINE x == t + 1 + g[t]
  <1>7. x \in Marks(k, g)
    BY <1>3 DEF Marks
  <1>8. ASSUME NEW i \in 0..(k - 1), t <= i PROVE x < i + 1 + h[i]
    BY <1>3, <1>4, <1>6, <1>8
  <1>9. x \notin Marks(k, h)
    <2> SUFFICES ASSUME NEW i \in 0..(k - 1), x = i + 1 + h[i] PROVE FALSE
      BY DEF Marks
    <2>1. i < t
      BY <1>3, <1>4, <1>8
    <2>2. g[i] = h[i] /\ g[i] <= g[t]
      BY <1>3, <1>5, <1>6, <2>1
    <2>3. QED
      BY <1>3, <1>4, <2>1, <2>2
  <1>10. ASSUME NEW y \in Marks(k, h), y \notin Marks(k, g) PROVE x < y
    <2>1. PICK i \in 0..(k - 1) : y = i + 1 + h[i]
      BY DEF Marks
    <2>2. ~(i < t)
      BY <1>5, <1>10, <2>1 DEF Marks
    <2>3. QED
      BY <1>3, <1>8, <2>1, <2>2
  <1>11. QED
    BY <1>7, <1>9, <1>10 DEF Precedes

(* How many requests go on from a count up to i.                           *)
ProfileOf(k, from) == [i \in 0..(k - 1) |-> Cardinality({c \in Calls : from[c] <= i})]

(* The number of profiles that are still to come.                          *)
Rank(k, from) ==
    Cardinality(Before(Ways(k, Cardinality(Calls)), Marks(k, ProfileOf(k, from))))

LEMMA ProfileType ==
    ASSUME IsFiniteSet(Calls), NEW k \in Nat, NEW from \in [Calls -> Nat]
    PROVE  /\ Cardinality(Calls) \in Nat
           /\ ProfileOf(k, from) \in Profiles(k, Cardinality(Calls))
  <1> DEFINE n == Cardinality(Calls)
             upTo(i) == {c \in Calls : from[c] <= i}
  <1>0. n \in Nat
    BY FS_CardinalityType
  <1>1. ASSUME NEW i \in Nat
        PROVE  IsFiniteSet(upTo(i)) /\ Cardinality(upTo(i)) \in 0..n
    <2>1. upTo(i) \in SUBSET Calls
      OBVIOUS
    <2> HIDE DEF upTo
    <2>2. IsFiniteSet(upTo(i)) /\ Cardinality(upTo(i)) <= n
      BY <2>1, FS_Subset
    <2>3. Cardinality(upTo(i)) \in Nat
      BY <2>2, FS_CardinalityType
    <2>4. QED
      BY <1>0, <2>2, <2>3
  <1>2. ASSUME NEW i \in Nat, NEW j \in Nat, i <= j
        PROVE  Cardinality(upTo(i)) <= Cardinality(upTo(j))
    <2>1. upTo(i) \in SUBSET upTo(j)
      BY <1>2
    <2>2. IsFiniteSet(upTo(j))
      BY <1>1
    <2> HIDE DEF upTo
    <2>3. QED
      BY <2>1, <2>2, FS_Subset
  <1>3. \A i \in 0..(k - 1) : i \in Nat /\ ProfileOf(k, from)[i] = Cardinality(upTo(i))
    BY DEF ProfileOf
  <1>4. ProfileOf(k, from) \in [0..(k - 1) -> 0..n]
    <2>1. \A i \in 0..(k - 1) : Cardinality(upTo(i)) \in 0..n
      BY <1>1, <1>3
    <2>2. QED
      BY <2>1 DEF ProfileOf
  <1> HIDE DEF n, upTo
  <1>5. \A i, j \in 0..(k - 1) : i <= j => ProfileOf(k, from)[i] <= ProfileOf(k, from)[j]
    BY <1>2, <1>3
  <1>6. QED
    BY <1>0, <1>4, <1>5 DEF Profiles, n

LEMMA RankIsLess ==
    ASSUME IsFiniteSet(Calls), NEW k \in Nat, NEW from \in [Calls -> Nat]
    PROVE  /\ Rank(k, from) \in Nat /\ Cardinality(Ways(k, Cardinality(Calls))) \in Nat
           /\ Rank(k, from) < Cardinality(Ways(k, Cardinality(Calls)))
  BY ProfileType, WaysAreFinite, MarksAreWays, BeforeIsLess DEF Rank

(* One request goes on from beyond s and had been at or before s; no other *)
(* falls back within 0..s.                                                 *)
LEMMA RankFalls ==
    ASSUME IsFiniteSet(Calls), NEW k \in Nat, NEW from \in [Calls -> Nat],
           NEW to \in [Calls -> Nat], NEW s \in 0..(k - 1),
           NEW d \in Calls, from[d] <= s, s < to[d],
           \A c \in Calls : from[c] <= to[c] \/ s < to[c]
    PROVE  Rank(k, to) + 1 <= Rank(k, from)
  <1> DEFINE n == Cardinality(Calls)
             g == ProfileOf(k, to)
             h == ProfileOf(k, from)
  <1>1. n \in Nat /\ g \in Profiles(k, n) /\ h \in Profiles(k, n)
    BY ProfileType
  <1>2. ASSUME NEW i \in 0..s
        PROVE  g[i] <= h[i] /\ (i = s => g[i] < h[i])
    <2> DEFINE old == {c \in Calls : from[c] <= i}
               new == {c \in Calls : to[c] <= i}
    <2>1. i \in Nat /\ i \in 0..(k - 1) /\ i <= s
      OBVIOUS
    <2>2. g[i] = Cardinality(new) /\ h[i] = Cardinality(old)
      BY <2>1 DEF ProfileOf
    <2>3. new \in SUBSET old /\ old \in SUBSET Calls
      <3>1. ASSUME NEW c \in Calls, to[c] <= i PROVE from[c] <= i
        <4>1. from[c] \in Nat /\ to[c] \in Nat /\ (from[c] <= to[c] \/ s < to[c])
          OBVIOUS
        <4>2. QED
          BY <2>1, <3>1, <4>1
      <3>2. QED
        BY <3>1
    <2>4. i = s => d \in old /\ d \notin new
      OBVIOUS
    <2> HIDE DEF old, new, g, h
    <2>5. IsFiniteSet(old)
      BY <2>3, FS_Subset
    <2>6. /\ IsFiniteSet(new) /\ Cardinality(new) <= Cardinality(old)
          /\ Cardinality(old) = Cardinality(new) => old = new
      BY <2>3, <2>5, FS_Subset
    <2>7. Cardinality(new) \in Nat /\ Cardinality(old) \in Nat
      BY <2>5, <2>6, FS_CardinalityType
    <2>8. QED
      BY <2>2, <2>4, <2>6, <2>7
  <1> HIDE DEF g, h, n
  <1>3. Precedes(Marks(k, g), Marks(k, h))
    <2>1. s \in 0..s
      OBVIOUS
    <2>2. g[s] < h[s] /\ \A i \in 0..s : g[i] <= h[i]
      BY <1>2, <2>1
    <2>3. QED
      BY <1>1, <2>2, MarksFall
  <1>4. /\ Marks(k, g) \in Ways(k, n) /\ Marks(k, h) \in Ways(k, n)
        /\ IsFiniteSet(Ways(k, n)) /\ Ways(k, n) \in SUBSET (SUBSET Int)
    BY <1>1, MarksAreWays, WaysAreFinite
  <1>5. QED
    BY <1>3, <1>4, BeforeFalls DEF Rank, g, h, n

(* No request falls back.                                                  *)
LEMMA RankKept ==
    ASSUME IsFiniteSet(Calls), NEW k \in Nat, NEW from \in [Calls -> Nat],
           NEW to \in [Calls -> Nat], \A c \in Calls : from[c] <= to[c]
    PROVE  Rank(k, to) <= Rank(k, from)
  <1>1. Rank(k, to) \in Nat /\ Rank(k, from) \in Nat
    BY RankIsLess
  <1>2. CASE \E d \in Calls, s \in 0..(k - 1) : from[d] <= s /\ s < to[d]
    <2>1. Rank(k, to) + 1 <= Rank(k, from)
      BY <1>2, RankFalls
    <2>2. QED
      BY <1>1, <2>1
  <1>3. CASE ~ \E d \in Calls, s \in 0..(k - 1) : from[d] <= s /\ s < to[d]
    <2>1. ASSUME NEW i \in 0..(k - 1)
          PROVE  {c \in Calls : from[c] <= i} = {c \in Calls : to[c] <= i}
      <3>1. ASSUME NEW c \in Calls PROVE from[c] <= i <=> to[c] <= i
        <4>1. from[c] \in Nat /\ to[c] \in Nat /\ i \in Nat /\ from[c] <= to[c]
          OBVIOUS
        <4>2. QED
          BY <1>3, <4>1
      <3>2. QED
        BY <3>1
    <2>2. ProfileOf(k, from) = ProfileOf(k, to)
      BY <2>1 DEF ProfileOf
    <2>3. QED
      BY <1>1, <2>2 DEF Rank
  <1>4. QED
    BY <1>2, <1>3

-----------------------------------------------------------------------------
CanWrite == {"read", "locked", "serving", "commit"}

(* The lowest count from which a request can go on for user u: the one it  *)
(* has read, or the stored one.                                            *)
GoesOnFrom(c, u) ==
    IF call[c].user = u /\ call[c].pc \in CanWrite /\ call[c].count <= made[u]
    THEN call[c].count ELSE made[u]

From(u) == [c \in Calls |-> GoesOnFrom(c, u)]

(* The calls counted so far and those that are still to come.              *)
SoftAt(u) ==
    counted[u] + Rank(Allowed(u), From(u))
      < Cardinality(Ways(Allowed(u), Cardinality(Calls)))

SoftInv == \A u \in Users : Unlimited(u) \/ SoftAt(u)

LEMMA LimitType ==
    ASSUME EntriesAreLimits, NEW u \in Users, ~Unlimited(u)
    PROVE  Allowed(u) \in Nat
  <1>1. GetFreeCallsAllowed(u) \in Int /\ GetFreeCallsAllowed(u) >= -1
    BY FreeCallsAssumption DEF GetFreeCallsAllowed, Entries, EntriesAreLimits
  <1>2. FreeCallsAllowed \in Nat
    BY FreeCallsAssumption
  <1>3. QED
    BY <1>1, <1>2 DEF Unlimited, Allowed

LEMMA FromType ==
    ASSUME FreeTypeOK, NEW u \in Users
    PROVE  From(u) \in [Calls -> Nat]
  BY DEF FreeTypeOK, From, GoesOnFrom

(* A step that does not count and lets no request fall back.               *)
LEMMA SoftKept ==
    ASSUME IsFiniteSet(Calls), FreeTypeOK, FreeTypeOK', NEW u \in Users, Allowed(u) \in Nat,
           SoftAt(u), counted'[u] = counted[u],
           \A c \in Calls : GoesOnFrom(c, u) <= GoesOnFrom(c, u)'
    PROVE  SoftAt(u)'
  <1>0. PICK k, w : k \in Nat /\ k = Allowed(u) /\ w = Cardinality(Ways(k, Cardinality(Calls)))
    OBVIOUS
  <1>1. PICK from, to : from = From(u) /\ to = From(u)'
    OBVIOUS
  <1>2. Allowed(u)' = k
    BY <1>0 DEF Allowed, GetFreeCallsAllowed
  <1>3. from \in [Calls -> Nat] /\ to \in [Calls -> Nat]
    BY <1>1 DEF FreeTypeOK, From, GoesOnFrom
  <1>4. \A c \in Calls : from[c] <= to[c]
    BY <1>1 DEF From
  <1>5. Rank(k, to) <= Rank(k, from)
    BY <1>0, <1>3, <1>4, RankKept
  <1>6. Rank(k, to) \in Nat /\ Rank(k, from) \in Nat /\ w \in Nat
    BY <1>0, <1>3, RankIsLess
  <1>7. counted[u] + Rank(k, from) < w /\ counted[u] \in Nat
    BY <1>0, <1>1 DEF SoftAt, FreeTypeOK
  <1>8. counted'[u] + Rank(k, to) < w
    BY <1>5, <1>6, <1>7
  <1>9. QED
    BY <1>0, <1>1, <1>2, <1>8 DEF SoftAt

(* Start, Lock, the check, the service, Unlock, a crash and the operator's *)
(* unlock count nothing; a request that gives up reads the count again.    *)
LEMMA SoftWhenNothingIsCounted ==
    ASSUME IsFiniteSet(Calls), EntriesAreLimits, FreeInv, FreeTypeOK', SoftInv,
           UNCHANGED <<made, counted>>,
           UNCHANGED call \/ \E c \in Calls, new \in CallType :
              /\ call' = [call EXCEPT ![c] = new]
              /\ \/ new.pc \notin CanWrite
                 \/ new.user = call[c].user /\ new.count = call[c].count
                      /\ call[c].pc \in CanWrite
                 \/ new.count = made[new.user]
    PROVE  SoftInv'
  <1>1. FreeTypeOK /\ call \in [Calls -> CallType] /\ made \in [Users -> Nat]
    BY DEF FreeInv, FreeTypeOK, CallType
  <1>2. ASSUME NEW u \in Users, NEW c \in Calls
        PROVE  GoesOnFrom(c, u) <= GoesOnFrom(c, u)'
    <2>1. /\ call[c].count \in Nat /\ made[u] \in Nat /\ made' = made
          /\ GoesOnFrom(c, u) \in Nat /\ GoesOnFrom(c, u) <= made[u]
      BY <1>1 DEF CallType, GoesOnFrom
    <2>2. CASE call'[c] = call[c]
      BY <2>1, <2>2 DEF GoesOnFrom
    <2>3. CASE call'[c] # call[c]
      <3>1. PICK new \in CallType :
               /\ call'[c] = new
               /\ \/ new.pc \notin CanWrite
                  \/ new.user = call[c].user /\ new.count = call[c].count
                       /\ call[c].pc \in CanWrite
                  \/ new.count = made[new.user]
        BY <1>1, <2>3
      <3>2. new.count \in Nat
        BY DEF CallType
      <3>3. QED
        BY <2>1, <3>1, <3>2 DEF GoesOnFrom
    <2>4. QED
      BY <2>2, <2>3
  <1>3. ASSUME NEW u \in Users, ~Unlimited(u) PROVE SoftAt(u)'
    <2>1. Allowed(u) \in Nat /\ SoftAt(u) /\ counted'[u] = counted[u]
      BY <1>3, LimitType DEF SoftInv
    <2>2. QED
      BY <1>1, <1>2, <2>1, SoftKept
  <1>4. \A u \in Users : Unlimited(u)' <=> Unlimited(u)
    BY DEF Unlimited, Allowed, GetFreeCallsAllowed
  <1>5. QED
    BY <1>3, <1>4 DEF SoftInv

(* Commit counts a call, and the request moves on beyond the count that it *)
(* has written back.                                                       *)
LEMMA SoftWhenCommitted ==
    ASSUME IsFiniteSet(Calls), EntriesAreLimits, FreeInv, FreeTypeOK', SoftInv,
           NEW d \in Calls, CommitFreeCall(d), counted' # counted
    PROVE  SoftInv'
  <1>0. PICK u \in Users, s \in Nat : u = call[d].user /\ s = call[d].count
    BY DEF FreeInv, FreeTypeOK
  <1>1. /\ FreeTypeOK /\ call \in [Calls -> CallType] /\ made \in [Users -> Nat]
        /\ counted \in [Users -> Nat]
    BY DEF FreeInv, FreeTypeOK, CallType
  <1>2. /\ call[d].pc = "commit" /\ made' = [made EXCEPT ![u] = s + 1]
        /\ counted' = [counted EXCEPT ![u] = counted[u] + 1]
        /\ call' = [call EXCEPT ![d] = [call[d] EXCEPT !.pc = "unlock"]]
        /\ LimitAllows(u, s)
    BY <1>0 DEF CommitFreeCall, IncrementFreeCallCount, FreeInv, LimitInv
  <1>3. /\ call'[d].pc = "unlock" /\ call'[d].user = u
        /\ \A c \in Calls : c # d => call'[c] = call[c]
    BY <1>0, <1>1, <1>2 DEF CallType
  <1>4. /\ made'[u] = s + 1 /\ counted'[u] = counted[u] + 1
        /\ \A v \in Users : v # u => made'[v] = made[v] /\ counted'[v] = counted[v]
    BY <1>1, <1>2
  <1>5. ASSUME NEW v \in Users, v # u, ~Unlimited(v) PROVE SoftAt(v)'
    <2>1. \A c \in Calls : GoesOnFrom(c, v)' = GoesOnFrom(c, v) /\ GoesOnFrom(c, v) \in Nat
      BY <1>0, <1>1, <1>3, <1>4, <1>5 DEF GoesOnFrom, CallType
    <2>2. Allowed(v) \in Nat /\ SoftAt(v) /\ counted'[v] = counted[v]
      BY <1>4, <1>5, LimitType DEF SoftInv
    <2>3. QED
      BY <1>1, <2>1, <2>2, SoftKept
  <1>6. ASSUME ~Unlimited(u) PROVE SoftAt(u)'
    <2>0. PICK k, w : k \in Nat /\ k = Allowed(u) /\ w = Cardinality(Ways(k, Cardinality(Calls)))
      BY <1>6, LimitType
    <2>1. s \in 0..(k - 1)
      BY <1>2, <1>6, <2>0 DEF LimitAllows
    <2>2. PICK from, to : from = From(u) /\ to = From(u)'
      OBVIOUS
    <2>3. Allowed(u)' = k
      BY <2>0 DEF Allowed, GetFreeCallsAllowed
    <2>4. from \in [Calls -> Nat] /\ to \in [Calls -> Nat]
      BY <1>1, <2>2 DEF FreeTypeOK, From, GoesOnFrom
    <2>5. from[d] <= s /\ to[d] = s + 1
      <3>1. GoesOnFrom(d, u) <= s
        BY <1>0, <1>1, <1>2 DEF GoesOnFrom, CanWrite
      <3>2. GoesOnFrom(d, u)' = s + 1
        BY <1>3, <1>4 DEF GoesOnFrom, CanWrite
      <3>3. QED
        BY <2>2, <3>1, <3>2 DEF From
    <2>6. ASSUME NEW c \in Calls PROVE from[c] <= to[c] \/ s < to[c]
      <3>1. from[c] = GoesOnFrom(c, u) /\ to[c] = GoesOnFrom(c, u)'
        BY <2>2 DEF From
      <3>2. CASE c = d
        BY <2>5, <3>2
      <3>3. CASE c # d
        <4>1. call'[c] = call[c] /\ call[c].count \in Nat /\ made[u] \in Nat
          BY <1>1, <1>3, <3>3 DEF CallType
        <4>2. \/ GoesOnFrom(c, u)' = s + 1
              \/ GoesOnFrom(c, u)' = call[c].count /\ GoesOnFrom(c, u) <= call[c].count
          BY <1>4, <4>1 DEF GoesOnFrom
        <4>3. QED
          BY <3>1, <4>2
      <3>4. QED
        BY <3>2, <3>3
    <2>7. Rank(k, to) + 1 <= Rank(k, from)
      <3>1. from[d] <= s /\ s < to[d]
        BY <2>5
      <3>2. QED
        BY <2>0, <2>1, <2>4, <2>6, <3>1, RankFalls
    <2>8. Rank(k, to) \in Nat /\ Rank(k, from) \in Nat /\ w \in Nat
      BY <2>0, <2>4, RankIsLess
    <2>9. counted[u] + Rank(k, from) < w /\ counted[u] \in Nat
      BY <1>1, <1>6, <2>0, <2>2 DEF SoftInv, SoftAt
    <2>10. counted'[u] + Rank(k, to) < w
      BY <1>4, <2>7, <2>8, <2>9
    <2>11. QED
      BY <2>0, <2>2, <2>3, <2>10 DEF SoftAt
  <1>7. \A v \in Users : Unlimited(v)' <=> Unlimited(v)
    BY DEF Unlimited, Allowed, GetFreeCallsAllowed
  <1>8. QED
    BY <1>5, <1>6, <1>7 DEF SoftInv

(* The operator begins a new count.                                        *)
LEMMA SoftAtZero ==
    ASSUME IsFiniteSet(Calls), FreeTypeOK, NEW u \in Users, Allowed(u) \in Nat,
           counted[u] = 0
    PROVE  SoftAt(u)
  <1>1. From(u) \in [Calls -> Nat]
    BY FromType
  <1>2. QED
    BY <1>1, RankIsLess DEF SoftAt

LEMMA SoftWhenReset ==
    ASSUME IsFiniteSet(Calls), EntriesAreLimits, FreeInv, FreeTypeOK', SoftInv,
           NEW u \in Users, ResetUserForFreeCalls(u)
    PROVE  SoftInv'
  <1>1. /\ FreeTypeOK /\ made' = [made EXCEPT ![u] = 0]
        /\ counted' = [counted EXCEPT ![u] = 0] /\ call' = call
    BY DEF FreeInv, ResetUserForFreeCalls
  <1>2. /\ counted'[u] = 0
        /\ \A v \in Users : v # u => made'[v] = made[v] /\ counted'[v] = counted[v]
    BY <1>1 DEF FreeTypeOK
  <1>3. ASSUME NEW v \in Users, v # u, ~Unlimited(v) PROVE SoftAt(v)'
    <2>1. \A c \in Calls : GoesOnFrom(c, v)' = GoesOnFrom(c, v) /\ GoesOnFrom(c, v) \in Nat
      BY <1>1, <1>2, <1>3 DEF GoesOnFrom, FreeTypeOK
    <2>2. Allowed(v) \in Nat /\ SoftAt(v) /\ counted'[v] = counted[v]
      BY <1>2, <1>3, LimitType DEF SoftInv
    <2>3. QED
      BY <1>1, <2>1, <2>2, SoftKept
  <1>4. ASSUME ~Unlimited(u) PROVE SoftAt(u)'
    <2>0. PICK k, to : k \in Nat /\ k = Allowed(u) /\ to = From(u)'
      BY <1>4, LimitType
    <2>1. Allowed(u)' = k
      BY <2>0 DEF Allowed, GetFreeCallsAllowed
    <2>2. to \in [Calls -> Nat]
      BY <2>0 DEF FreeTypeOK, From, GoesOnFrom
    <2>3. /\ Rank(k, to) \in Nat
          /\ Rank(k, to) < Cardinality(Ways(k, Cardinality(Calls)))
      BY <2>0, <2>2, RankIsLess
    <2>4. QED
      BY <1>2, <2>0, <2>1, <2>3 DEF SoftAt
  <1>5. \A v \in Users : Unlimited(v)' <=> Unlimited(v)
    BY DEF Unlimited, Allowed, GetFreeCallsAllowed
  <1>6. QED
    BY <1>3, <1>4, <1>5 DEF SoftInv

LEMMA SoftStep ==
    ASSUME IsFiniteSet(Calls), EntriesAreLimits, FreeInv, SoftInv, [FreeNext]_freeVars
    PROVE  SoftInv'
  <1>1. FreeTypeOK /\ FreeTypeOK'
    BY FreeStep DEF FreeInv
  <1>2. CASE UNCHANGED freeVars
    BY <1>1, <1>2, SoftWhenNothingIsCounted DEF freeVars
  <1>3. ASSUME NEW c \in Calls, NEW new \in CallType, call' = [call EXCEPT ![c] = new],
               UNCHANGED <<made, counted>>,
               \/ new.pc \notin CanWrite
               \/ new.user = call[c].user /\ new.count = call[c].count
                    /\ call[c].pc \in CanWrite
               \/ new.count = made[new.user]
        PROVE  SoftInv'
    BY <1>1, <1>3, SoftWhenNothingIsCounted
  <1>4. ASSUME NEW c \in Calls, NEW step \in CallSteps, UNCHANGED <<made, counted>>,
               call' = [call EXCEPT ![c] = [call[c] EXCEPT !.pc = step]],
               step \in CanWrite => call[c].pc \in CanWrite
        PROVE  SoftInv'
    <2> DEFINE new == [call[c] EXCEPT !.pc = step]
    <2>1. /\ new \in CallType /\ new.pc = step
          /\ new.user = call[c].user /\ new.count = call[c].count
      BY <1>1, MoveType
    <2>2. call' = [call EXCEPT ![c] = new]
      BY <1>4
    <2> HIDE DEF new
    <2>3. QED
      BY <1>3, <1>4, <2>1, <2>2
  <1>5. ASSUME NEW c \in Calls, UNCHANGED <<made, counted>>, call' = [call EXCEPT ![c] = IdleCall]
        PROVE  SoftInv'
    BY <1>3, <1>5, IdleType DEF CanWrite
  <1>6. ASSUME NEW c \in Calls, NEW u \in Users, StartFreeCallUserTransaction(c, u)
        PROVE  SoftInv'
    <2> DEFINE new == [pc |-> "read", user |-> u, count |-> made[u]]
    <2>1. new \in CallType /\ new.count = made[new.user]
      BY <1>1 DEF FreeTypeOK, CallType, CallSteps
    <2>2. call' = [call EXCEPT ![c] = new] /\ UNCHANGED <<made, counted>>
      BY <1>6 DEF StartFreeCallUserTransaction
    <2> HIDE DEF new
    <2>3. QED
      BY <1>3, <2>1, <2>2
  <1>7. ASSUME NEW c \in Calls, LockUser(c) \/ CheckLimit(c) \/ CallFreeService(c)
        PROVE  SoftInv'
    <2>1. UNCHANGED <<made, counted>>
      BY <1>7 DEF LockUser, CheckLimit, CallFreeService
    <2>2. /\ call[c].pc \in CanWrite
          /\ \/ call' = [call EXCEPT ![c] = IdleCall]
             \/ \E step \in CallSteps : call' = [call EXCEPT ![c] = [call[c] EXCEPT !.pc = step]]
      BY <1>7 DEF LockUser, CheckLimit, CallFreeService, CanWrite, CallSteps
    <2>3. QED
      BY <1>4, <1>5, <2>1, <2>2
  <1>8. ASSUME NEW c \in Calls, CommitFreeCall(c) PROVE SoftInv'
    <2>1. CASE counted' # counted
      BY <1>1, <1>8, <2>1, SoftWhenCommitted
    <2>2. CASE counted' = counted
      <3>1. UNCHANGED made
        BY <1>1, <1>8, <2>2 DEF CommitFreeCall, FreeTypeOK
      <3>2. "unlock" \in CallSteps /\ "unlock" \notin CanWrite
        BY DEF CallSteps, CanWrite
      <3>3. call' = [call EXCEPT ![c] = [call[c] EXCEPT !.pc = "unlock"]]
        BY <1>8 DEF CommitFreeCall
      <3>4. QED
        BY <1>4, <2>2, <3>1, <3>2, <3>3
    <2>3. QED
      BY <2>1, <2>2
  <1>9. ASSUME NEW c \in Calls, UnlockFreeCall(c) \/ CrashFreeCall(c) PROVE SoftInv'
    BY <1>5, <1>9 DEF UnlockFreeCall, CrashFreeCall
  <1>10. ASSUME NEW u \in Users, UnlockFreeCallUser(u) PROVE SoftInv'
    <2>1. UNCHANGED <<made, counted, call>>
      BY <1>10 DEF UnlockFreeCallUser
    <2>2. QED
      BY <1>1, <2>1, SoftWhenNothingIsCounted
  <1>11. ASSUME NEW u \in Users, ResetUserForFreeCalls(u) PROVE SoftInv'
    BY <1>1, <1>11, SoftWhenReset
  <1>12. QED
    BY <1>2, <1>6, <1>7, <1>8, <1>9, <1>10, <1>11 DEF FreeNext

(* However many requests race and however they crash or are retried, a     *)
(* user with k free calls and n requests in flight gets at most            *)
(* (k + n over k) - 1 calls between two resets.                            *)
THEOREM LimitIsSoftButALimit ==
    ASSUME IsFiniteSet(Calls), EntriesAreLimits
    PROVE  FreeSpec => []SoftLimit
  <1>1. FreeInit => SoftInv
    <2> SUFFICES ASSUME FreeInit, NEW u \in Users, ~Unlimited(u) PROVE SoftAt(u)
      BY DEF SoftInv
    <2>1. FreeTypeOK /\ counted[u] = 0 /\ Allowed(u) \in Nat
      BY FreeInitInv, LimitType DEF FreeInv, FreeInit
    <2>2. QED
      BY <2>1, SoftAtZero
  <1>2. FreeInv /\ SoftInv /\ [FreeNext]_freeVars => SoftInv'
    BY SoftStep
  <1>3. FreeInv /\ SoftInv => SoftLimit
    <2> SUFFICES ASSUME FreeInv, SoftInv, NEW u \in Users, ~Unlimited(u)
                 PROVE  counted[u] <=
                          Cardinality(kSubset(Allowed(u), 1..(Allowed(u) + Cardinality(Calls)))) - 1
      BY DEF SoftLimit
    <2>1. Allowed(u) \in Nat /\ SoftAt(u) /\ FreeTypeOK /\ counted[u] \in Nat
      BY LimitType DEF SoftInv, FreeInv, FreeTypeOK
    <2>2. From(u) \in [Calls -> Nat]
      BY <2>1, FromType
    <2>3. /\ Rank(Allowed(u), From(u)) \in Nat
          /\ Cardinality(Ways(Allowed(u), Cardinality(Calls))) \in Nat
      BY <2>1, <2>2, RankIsLess
    <2>4. counted[u] <= Cardinality(Ways(Allowed(u), Cardinality(Calls))) - 1
      BY <2>1, <2>3 DEF SoftAt
    <2>5. QED
      BY <2>4 DEF Ways
  <1>4. QED
    BY <1>1, <1>2, <1>3, FreeInvariant, PTL DEF FreeSpec

=============================================================================
