--------------------------- MODULE PrePaidProofs ---------------------------
(***************************************************************************)
(* The amounts of prepaid calls, for any number of token requests and      *)
(* calls, any price and any channel.                                       *)
(***************************************************************************)
EXTENDS PrePaid, FiniteSetTheorems, TLAPS

ReqType == [pc : Steps, nonce : Nat, amount : Nat, seen : Nat,
            started : BOOLEAN, snap : Usages]

(* Which steps token requests and calls go through.                        *)
ShapeInv ==
    /\ \A t \in Tokens :
         /\ req[t].pc \in {"idle", "read", "commit", "planned"}
         /\ req[t].pc # "idle" => req[t].seen < req[t].amount
    /\ \A c \in Calls : req[c].pc \in {"idle", "used", "serving", "refund"}
    /\ \A r \in Requests : req[r].started => req[r].pc \in {"planned", "used", "refund"}

(* The token request between its validation and its commit has the lock,   *)
(* so the channel it was validated against is the one it is put over.      *)
LockInv ==
    /\ chan.auth <= chan.full
    /\ \A t \in Tokens :
         req[t].pc = "commit" => locked /\ req[t].amount <= chan.full
    /\ \A t, s \in Tokens : req[t].pc = "commit" /\ req[s].pc = "commit" => t = s

(* Calls for which the used amount has been raised.                        *)
Charged == InService \cup Refunding

ChargedInv ==
    /\ IsFiniteSet(Charged)
    /\ Price * (served + Cardinality(Charged)) + usage.refund <= usage.used

BudgetInv == usage.used <= usage.planned + usage.refund

(* The set Pending in a form that is the same in every state: its number   *)
(* of elements is the sum of the increments on their way.                  *)
Units ==
    {p \in Tokens \X Nat :
        /\ req[p[1]].pc = "planned"
        /\ req[p[1]].seen < p[2] /\ p[2] <= req[p[1]].amount}

PendingInv ==
    /\ IsFiniteSet(Units)
    /\ stale \/ usage.planned + Cardinality(Units) <= claimed + chan.auth
    /\ stale \/ lost
         \/ claimed + chan.auth <= byCall + usage.planned + Cardinality(Units)

PrePaidInv ==
    PrePaidTypeOK /\ ShapeInv /\ LockInv /\ ChargedInv /\ BudgetInv /\ PendingInv

-----------------------------------------------------------------------------

LEMMA TimesSucc ==
    ASSUME NEW p \in Nat, NEW n \in Nat
    PROVE  p * n \in Nat /\ p * (n + 1) = p * n + p
  OBVIOUS

LEMMA TimesMono ==
    ASSUME NEW p \in Nat, NEW m \in Nat, NEW n \in Nat, m <= n
    PROVE  p * m <= p * n
  <1>1. PICK d \in Nat : n = m + d
    <2>1. n - m \in Nat /\ n = m + (n - m)
      OBVIOUS
    <2>2. QED
      BY <2>1
  <1>2. p * n = p * m + p * d /\ p * m \in Nat /\ p * d \in Nat
    BY <1>1
  <1>3. QED
    BY <1>2

(* As many units as the interval is long.                                  *)
LEMMA SliceCardinality ==
    ASSUME NEW t, NEW a \in Nat, NEW b \in Nat, a <= b
    PROVE  /\ IsFiniteSet({t} \X (a + 1 .. b))
           /\ Cardinality({t} \X (a + 1 .. b)) = b - a
  <1> DEFINE I == a + 1 .. b
             S == {t} \X I
             f == [k \in I |-> <<t, k>>]
  <1>1. IsFiniteSet(I) /\ Cardinality(I) = b - a
    <2>1. a + 1 \in Int /\ b \in Int
      OBVIOUS
    <2>2. /\ IsFiniteSet(I)
          /\ Cardinality(I) = IF a + 1 > b THEN 0 ELSE b - (a + 1) + 1
      BY <2>1, FS_Interval
    <2>3. QED
      BY <2>2
  <1>2. f \in [I -> S]
    OBVIOUS
  <1>3. \A j, k \in I : f[j] = f[k] => j = k
    OBVIOUS
  <1>4. \A p \in S : \E k \in I : f[k] = p
    OBVIOUS
  <1> HIDE DEF I, S, f
  <1>5. f \in Bijection(I, S)
    BY <1>2, <1>3, <1>4 DEF Bijection, Injection, Surjection, IsInjective
  <1>6. ExistsBijection(I, S)
    BY <1>5 DEF ExistsBijection
  <1>7. IsFiniteSet(S) /\ Cardinality(S) = b - a
    BY <1>1, <1>6, FS_Bijection
  <1>8. QED
    BY <1>7 DEF S, I

LEMMA IdleType == IdleReq \in ReqType /\ IdleReq.pc = "idle" /\ ~IdleReq.started
  <1>1. NoUsage \in Usages
    BY DEF NoUsage, Usages
  <1>2. QED
    BY <1>1 DEF IdleReq, ReqType, Steps

LEMMA PrePaidInitInv == PrePaidInit => PrePaidInv
  <1> SUFFICES ASSUME PrePaidInit PROVE PrePaidInv
    OBVIOUS
  <1>1. PrePaidTypeOK
    BY IdleType, PrePaidAssumption
       DEF PrePaidInit, PrePaidTypeOK, ReqType, ChannelStates, NoUsage, Usages
  <1>2. \A r \in Requests : req[r] = IdleReq
    BY DEF PrePaidInit
  <1>3. ShapeInv /\ LockInv
    BY <1>2, IdleType, PrePaidAssumption DEF ShapeInv, LockInv, PrePaidInit, Requests
  <1>4. Charged = {} /\ Units = {}
    BY <1>2, IdleType DEF Charged, InService, Refunding, Units, Requests
  <1>5. IsFiniteSet({}) /\ Cardinality({}) = 0
    BY FS_EmptySet
  <1>6. ChargedInv /\ BudgetInv /\ PendingInv
    BY <1>4, <1>5, PrePaidAssumption
       DEF ChargedInv, BudgetInv, PendingInv, PrePaidInit, NoUsage
  <1>7. QED
    BY <1>1, <1>3, <1>6 DEF PrePaidInv


LEMMA PendingIsUnits == PrePaidTypeOK => Pending = Units
  <1> SUFFICES ASSUME PrePaidTypeOK PROVE Pending = Units
    OBVIOUS
  <1>1. \A t \in Tokens : req[t].seen \in Nat /\ req[t].amount \in Nat
    BY DEF PrePaidTypeOK, Requests
  <1>2. ASSUME NEW p \in Pending PROVE p \in Units
    <2>1. PICK t \in Tokens : /\ req[t].pc = "planned"
                              /\ p \in {t} \X (req[t].seen + 1 .. req[t].amount)
      BY <1>2 DEF Pending
    <2>2. p[1] = t /\ p[2] \in req[t].seen + 1 .. req[t].amount /\ p = <<p[1], p[2]>>
      BY <2>1
    <2>3. p[2] \in Nat /\ req[t].seen < p[2] /\ p[2] <= req[t].amount
      BY <1>1, <2>2
    <2>4. QED
      BY <2>1, <2>2, <2>3 DEF Units
  <1>3. ASSUME NEW p \in Units PROVE p \in Pending
    <2>1. /\ p \in Tokens \X Nat /\ req[p[1]].pc = "planned"
          /\ req[p[1]].seen < p[2] /\ p[2] <= req[p[1]].amount
      BY <1>3 DEF Units
    <2>2. p[1] \in Tokens /\ p[2] \in req[p[1]].seen + 1 .. req[p[1]].amount /\ p = <<p[1], p[2]>>
      BY <1>1, <2>1
    <2>3. p \in {p[1]} \X (req[p[1]].seen + 1 .. req[p[1]].amount)
      BY <2>2
    <2>4. QED
      BY <2>1, <2>2, <2>3 DEF Pending
  <1>4. QED
    BY <1>2, <1>3

-----------------------------------------------------------------------------
(* The units of one token request.                                         *)
Slice(r) == {p \in Units : p[1] = r}

(* A step of one request.                                                  *)
LEMMA RequestStep ==
    ASSUME PrePaidTypeOK, NEW r \in Requests, NEW new \in ReqType,
           req' = [req EXCEPT ![r] = new]
    PROVE  /\ req' \in [Requests -> ReqType]
           /\ req'[r] = new /\ \A q \in Requests : q # r => req'[q] = req[q]
           /\ Charged' = IF r \in Calls /\ new.pc \in {"serving", "refund"}
                         THEN Charged \cup {r} ELSE Charged \ {r}
           /\ Units' = (Units \ Slice(r)) \cup Slice(r)'
  <1>1. req \in [Requests -> ReqType]
    BY DEF PrePaidTypeOK, ReqType
  <1>2. /\ req' \in [Requests -> ReqType]
        /\ req'[r] = new /\ \A q \in Requests : q # r => req'[q] = req[q]
    BY <1>1
  <1>3. \A c \in Calls : c \in Requests
    BY DEF Requests
  <1>4. Charged' = IF r \in Calls /\ new.pc \in {"serving", "refund"}
                   THEN Charged \cup {r} ELSE Charged \ {r}
    BY <1>2, <1>3 DEF Charged, InService, Refunding
  <1>5. \A p \in Tokens \X Nat : p[1] \in Requests
    BY DEF Requests
  <1>6. \A p \in Tokens \X Nat : p[1] # r => (p \in Units' <=> p \in Units)
    BY <1>2, <1>5 DEF Units
  <1>7. Units \subseteq Tokens \X Nat /\ Units' \subseteq Tokens \X Nat
    BY DEF Units
  <1>8. Units' = (Units \ Slice(r)) \cup Slice(r)'
    BY <1>6, <1>7 DEF Slice
  <1>9. QED
    BY <1>2, <1>4, <1>8

SliceFacts ==
    \A r \in Requests :
        /\ r \in Tokens /\ req[r].pc = "planned" =>
              Slice(r) = {r} \X (req[r].seen + 1 .. req[r].amount)
        /\ ~(r \in Tokens /\ req[r].pc = "planned") => Slice(r) = {}

LEMMA SliceIs == PrePaidTypeOK => SliceFacts
  <1> SUFFICES ASSUME PrePaidTypeOK, NEW r \in Requests
               PROVE  /\ r \in Tokens /\ req[r].pc = "planned" =>
                            Slice(r) = {r} \X (req[r].seen + 1 .. req[r].amount)
                      /\ ~(r \in Tokens /\ req[r].pc = "planned") => Slice(r) = {}
    BY DEF SliceFacts
  <1>1. req[r].seen \in Nat /\ req[r].amount \in Nat
    BY DEF PrePaidTypeOK
  <1>2. ASSUME r \in Tokens, req[r].pc = "planned"
        PROVE  Slice(r) = {r} \X (req[r].seen + 1 .. req[r].amount)
    <2>1. \A p \in Tokens \X Nat : p \in Slice(r) <=>
             p[1] = r /\ req[r].seen < p[2] /\ p[2] <= req[r].amount
      BY <1>2 DEF Slice, Units
    <2>2. Slice(r) \subseteq Tokens \X Nat
      BY DEF Slice, Units
    <2>3. \A k \in req[r].seen + 1 .. req[r].amount :
             k \in Nat /\ req[r].seen < k /\ k <= req[r].amount
      BY <1>1
    <2>4. ASSUME NEW p \in Slice(r)
          PROVE  p \in {r} \X (req[r].seen + 1 .. req[r].amount)
      <3>1. p \in Tokens \X Nat /\ p[1] = r /\ req[r].seen < p[2] /\ p[2] <= req[r].amount
        BY <2>1, <2>2
      <3>2. p = <<p[1], p[2]>> /\ p[2] \in req[r].seen + 1 .. req[r].amount
        BY <1>1, <3>1
      <3>3. QED
        BY <3>1, <3>2
    <2>5. ASSUME NEW p \in {r} \X (req[r].seen + 1 .. req[r].amount)
          PROVE  p \in Slice(r)
      <3>1. p \in Tokens \X Nat
        BY <1>2, <2>3
      <3>2. p[1] = r /\ req[r].seen < p[2] /\ p[2] <= req[r].amount
        BY <2>3
      <3>3. QED
        BY <2>1, <3>1, <3>2
    <2>6. QED
      BY <2>4, <2>5
  <1>3. ~(r \in Tokens /\ req[r].pc = "planned") => Slice(r) = {}
    BY DEF Slice, Units
  <1>4. QED
    BY <1>2, <1>3

(* What a step of one request does to the number of charged calls and of   *)
(* pending units.                                                          *)
LEMMA ChargedCount ==
    ASSUME PrePaidInv, NEW r \in Requests, NEW new \in ReqType,
           req' = [req EXCEPT ![r] = new]
    PROVE  /\ Cardinality(Charged) \in Nat
           /\ IsFiniteSet(Charged')
           /\ Cardinality(Charged') \in Nat
           /\ (r \in Calls /\ new.pc \in {"serving", "refund"} => req[r].pc \in {"serving", "refund"})
                 => Cardinality(Charged') <= Cardinality(Charged)
           /\ r \in Calls /\ new.pc = "serving" /\ req[r].pc = "used"
                 => Cardinality(Charged') = Cardinality(Charged) + 1
           /\ r \in Calls /\ new.pc = "idle" /\ req[r].pc \in {"serving", "refund"}
                 => Cardinality(Charged') = Cardinality(Charged) - 1
  <1>1. PrePaidTypeOK /\ IsFiniteSet(Charged)
    BY DEF PrePaidInv, ChargedInv
  <1>2. Charged' = IF r \in Calls /\ new.pc \in {"serving", "refund"}
                   THEN Charged \cup {r} ELSE Charged \ {r}
    BY <1>1, RequestStep
  <1>3. /\ IsFiniteSet(Charged \cup {r}) /\ IsFiniteSet(Charged \ {r})
        /\ Cardinality(Charged \cup {r}) =
              IF r \in Charged THEN Cardinality(Charged) ELSE Cardinality(Charged) + 1
        /\ Cardinality(Charged \ {r}) =
              IF r \in Charged THEN Cardinality(Charged) - 1 ELSE Cardinality(Charged)
    BY <1>1, FS_AddElement, FS_RemoveElement
  <1>4. Cardinality(Charged) \in Nat /\ IsFiniteSet(Charged')
    BY <1>1, <1>2, <1>3, FS_CardinalityType
  <1>5. Cardinality(Charged') \in Nat
    BY <1>4, FS_CardinalityType
  <1>6. r \in Charged <=> r \in Calls /\ req[r].pc \in {"serving", "refund"}
    BY DEF Charged, InService, Refunding
  <1>7. QED
    BY <1>2, <1>3, <1>4, <1>5, <1>6

LEMMA PendingCount ==
    ASSUME PrePaidInv, PrePaidTypeOK', NEW r \in Requests, NEW new \in ReqType,
           req' = [req EXCEPT ![r] = new],
           r \in Tokens /\ new.pc = "planned" => new.seen < new.amount
    PROVE  /\ Cardinality(Units) \in Nat
           /\ IsFiniteSet(Units')
           /\ Cardinality(Units') \in Nat
           /\ (r \in Tokens /\ new.pc = "planned"
                 => req[r].pc = "planned" /\ new.amount = req[r].amount /\ new.seen = req[r].seen)
                 => /\ Cardinality(Units') <= Cardinality(Units)
                    /\ (r \in Tokens /\ req[r].pc = "planned" => new.pc = "planned")
                          => Cardinality(Units') = Cardinality(Units)
           /\ r \in Tokens /\ req[r].pc = "planned" /\ new.pc # "planned"
                 => Cardinality(Units') = Cardinality(Units) - (req[r].amount - req[r].seen)
           /\ r \in Tokens /\ req[r].pc # "planned" /\ new.pc = "planned"
                 => Cardinality(Units') = Cardinality(Units) + (new.amount - new.seen)
  <1>1. PrePaidTypeOK /\ IsFiniteSet(Units)
    BY DEF PrePaidInv, PendingInv
  <1>2. /\ Units' = (Units \ Slice(r)) \cup Slice(r)'
        /\ req'[r] = new
    BY <1>1, RequestStep
  <1>3. /\ r \in Tokens /\ new.pc = "planned" =>
              Slice(r)' = {r} \X (new.seen + 1 .. new.amount)
        /\ ~(r \in Tokens /\ new.pc = "planned") => Slice(r)' = {}
    <2>1. PrePaidTypeOK' => SliceFacts'
      BY SliceIs, PTL
    <2>2. QED
      BY <1>2, <2>1 DEF SliceFacts
  <1>4. /\ r \in Tokens /\ req[r].pc = "planned" =>
              Slice(r) = {r} \X (req[r].seen + 1 .. req[r].amount)
        /\ ~(r \in Tokens /\ req[r].pc = "planned") => Slice(r) = {}
    BY <1>1, SliceIs DEF SliceFacts
  <1>5. /\ IsFiniteSet(Slice(r))
        /\ r \in Tokens /\ req[r].pc = "planned"
              => Cardinality(Slice(r)) = req[r].amount - req[r].seen
    <2>1. CASE r \in Tokens /\ req[r].pc = "planned"
      <3>1. req[r].seen \in Nat /\ req[r].amount \in Nat /\ req[r].seen <= req[r].amount
        BY <2>1 DEF PrePaidInv, PrePaidTypeOK, ShapeInv
      <3>2. /\ IsFiniteSet({r} \X (req[r].seen + 1 .. req[r].amount))
            /\ Cardinality({r} \X (req[r].seen + 1 .. req[r].amount)) = req[r].amount - req[r].seen
        BY <3>1, SliceCardinality
      <3>3. QED
        BY <1>4, <2>1, <3>2
    <2>2. QED
      BY <1>4, <2>1, FS_EmptySet
  <1>6. /\ r \in Tokens /\ new.pc = "planned" /\ new.seen < new.amount
              => /\ IsFiniteSet(Slice(r)')
                 /\ Cardinality(Slice(r)') = new.amount - new.seen
        /\ ~(r \in Tokens /\ new.pc = "planned") => IsFiniteSet(Slice(r)')
    <2>1. CASE r \in Tokens /\ new.pc = "planned" /\ new.seen < new.amount
      <3>1. new.seen \in Nat /\ new.amount \in Nat /\ new.seen <= new.amount
        BY <2>1 DEF ReqType
      <3>2. /\ IsFiniteSet({r} \X (new.seen + 1 .. new.amount))
            /\ Cardinality({r} \X (new.seen + 1 .. new.amount)) = new.amount - new.seen
        BY <3>1, SliceCardinality
      <3>3. QED
        BY <1>3, <2>1, <3>2
    <2>2. CASE ~(r \in Tokens /\ new.pc = "planned")
      BY <1>3, <2>2, FS_EmptySet
    <2>3. QED
      BY <2>1, <2>2
  <1>7. /\ IsFiniteSet(Units \ Slice(r)) /\ Cardinality(Slice(r)) \in Nat
        /\ Cardinality(Units \ Slice(r)) \in Nat /\ Cardinality(Units) \in Nat
        /\ Cardinality(Units \ Slice(r)) = Cardinality(Units) - Cardinality(Slice(r))
    <2>1. Units \cap Slice(r) = Slice(r)
      BY DEF Slice
    <2>2. /\ IsFiniteSet(Units \ Slice(r))
          /\ Cardinality(Units \ Slice(r)) = Cardinality(Units) - Cardinality(Slice(r))
      BY <1>1, <2>1, FS_Difference
    <2>3. QED
      BY <1>1, <1>5, <2>2, FS_CardinalityType
  <1>8. ASSUME IsFiniteSet(Slice(r)')
        PROVE  /\ IsFiniteSet(Units') /\ Cardinality(Units') \in Nat
               /\ Cardinality(Units') = Cardinality(Units \ Slice(r)) + Cardinality(Slice(r)')
    <2>1. (Units \ Slice(r)) \cap Slice(r)' = {}
      BY DEF Slice
    <2>2. /\ IsFiniteSet(Units')
          /\ Cardinality(Units') = Cardinality(Units \ Slice(r)) + Cardinality(Slice(r)')
                                       - Cardinality({})
      <3> DEFINE kept == Units \ Slice(r)
                 added == Slice(r)'
      <3>1. IsFiniteSet(kept) /\ IsFiniteSet(added) /\ kept \cap added = {}
        BY <1>7, <1>8, <2>1
      <3>2. Units' = kept \cup added
        BY <1>2
      <3> HIDE DEF kept, added
      <3>3. /\ IsFiniteSet(kept \cup added)
            /\ Cardinality(kept \cup added) =
                 Cardinality(kept) + Cardinality(added) - Cardinality(kept \cap added)
        BY <3>1, FS_Union
      <3>4. QED
        BY <3>1, <3>2, <3>3 DEF kept, added
    <2>3. Cardinality({}) = 0 /\ Cardinality(Slice(r)') \in Nat /\ Cardinality(Units') \in Nat
      BY <1>8, <2>2, FS_EmptySet, FS_CardinalityType
    <2>4. QED
      BY <1>7, <2>2, <2>3
  <1>9. CASE r \in Tokens /\ new.pc = "planned" /\ new.seen < new.amount
    <2>1. /\ IsFiniteSet(Units') /\ Cardinality(Units') \in Nat
          /\ Cardinality(Units') = Cardinality(Units) - Cardinality(Slice(r))
                                       + (new.amount - new.seen)
      BY <1>6, <1>7, <1>8, <1>9
    <2>2. req[r].pc # "planned" => Cardinality(Slice(r)) = 0
      BY <1>4, FS_EmptySet
    <2>3. new.amount \in Nat /\ new.seen \in Nat
      BY DEF ReqType
    <2>4. req[r].pc # "planned"
            => Cardinality(Units') = Cardinality(Units) + (new.amount - new.seen)
      BY <1>7, <2>1, <2>2, <2>3
    <2>5. req[r].pc = "planned" /\ new.amount = req[r].amount /\ new.seen = req[r].seen
            => Cardinality(Units') = Cardinality(Units)
      BY <1>5, <1>7, <1>9, <2>1, <2>3
    <2>6. QED
      BY <1>7, <1>9, <2>1, <2>4, <2>5
  <1>10. CASE ~(r \in Tokens /\ new.pc = "planned")
    <2>1. /\ IsFiniteSet(Units') /\ Cardinality(Units') \in Nat
          /\ Cardinality(Units') = Cardinality(Units) - Cardinality(Slice(r))
      <3>1. IsFiniteSet(Slice(r)') /\ Cardinality(Slice(r)') = 0
        BY <1>3, <1>10, FS_EmptySet
      <3>2. QED
        BY <1>7, <1>8, <3>1
    <2>2. ~(r \in Tokens /\ req[r].pc = "planned") => Cardinality(Slice(r)) = 0
      BY <1>4, FS_EmptySet
    <2>3. QED
      BY <1>5, <1>7, <1>10, <2>1, <2>2
  <1>11. QED
    BY <1>9, <1>10

-----------------------------------------------------------------------------
(* The steps a request may be in after its step.                           *)
GoodShape(r, new) ==
    /\ r \in Tokens => /\ new.pc \in {"idle", "read", "commit", "planned"}
                       /\ new.pc # "idle" => new.seen < new.amount
    /\ r \in Calls => new.pc \in {"idle", "used", "serving", "refund"}
    /\ new.started => new.pc \in {"planned", "used", "refund"}

LEMMA ShapeStep ==
    ASSUME PrePaidInv, NEW r \in Requests, NEW new \in ReqType, GoodShape(r, new),
           req' = [req EXCEPT ![r] = new]
    PROVE  ShapeInv'
  <1>1. PrePaidTypeOK /\ ShapeInv
    BY DEF PrePaidInv
  <1>2. req'[r] = new /\ \A q \in Requests : q # r => req'[q] = req[q]
    BY <1>1, RequestStep
  <1>3. QED
    BY <1>1, <1>2 DEF ShapeInv, GoodShape, Requests

LEMMA IdleShape == \A r \in Requests : GoodShape(r, IdleReq)
  BY IdleType DEF GoodShape

(* Types of the amounts, for the arithmetic.                               *)
LEMMA Numbers ==
    ASSUME PrePaidInv
    PROVE  /\ chan.nonce \in Nat /\ chan.auth \in Nat /\ chan.full \in Nat
           /\ usage.planned \in Nat /\ usage.used \in Nat /\ usage.refund \in Nat
           /\ claimed \in Nat /\ served \in Nat /\ Price \in Nat /\ byCall \in Nat
           /\ Cardinality(Charged) \in Nat /\ Cardinality(Units) \in Nat
  <1>1. PrePaidTypeOK /\ IsFiniteSet(Charged) /\ IsFiniteSet(Units)
    BY DEF PrePaidInv, ChargedInv, PendingInv
  <1>2. Cardinality(Charged) \in Nat /\ Cardinality(Units) \in Nat
    BY <1>1, FS_CardinalityType
  <1>3. QED
    BY <1>1, <1>2, PrePaidAssumption DEF PrePaidTypeOK, ChannelStates, Usages

(* A step of one request that changes no amount: it may forget a charge or *)
(* an increment but not make one up.                                       *)
LEMMA QuietStep ==
    ASSUME PrePaidInv, NEW r \in Requests, NEW new \in ReqType, GoodShape(r, new),
           req' = [req EXCEPT ![r] = new],
           UNCHANGED <<chan, locked, usage, claimed, served, stale, byCall>>,
           lost' \in BOOLEAN, ~lost' => ~lost /\ (req[r].pc = "planned" => new.pc = "planned"),
           new.pc = "commit" => req[r].pc = "commit" /\ new.amount = req[r].amount,
           new.pc \in {"serving", "refund"} => req[r].pc \in {"serving", "refund"},
           new.pc = "planned" => /\ req[r].pc = "planned"
                                 /\ new.amount = req[r].amount /\ new.seen = req[r].seen
    PROVE  PrePaidInv'
  <1>1. PrePaidTypeOK
    BY DEF PrePaidInv
  <1>2. /\ req' \in [Requests -> ReqType]
        /\ req'[r] = new /\ \A q \in Requests : q # r => req'[q] = req[q]
    BY <1>1, RequestStep
  <1>3. PrePaidTypeOK'
    BY <1>1, <1>2 DEF PrePaidTypeOK, ReqType
  <1>4. ShapeInv'
    BY ShapeStep
  <1>5. LockInv'
    BY <1>2 DEF PrePaidInv, LockInv, Requests
  <1>6. ChargedInv'
    <2>1. /\ IsFiniteSet(Charged') /\ Cardinality(Charged') \in Nat
          /\ Cardinality(Charged') <= Cardinality(Charged)
      BY ChargedCount
    <2>2. Price * (served + Cardinality(Charged')) <= Price * (served + Cardinality(Charged))
      <3>1. /\ served + Cardinality(Charged') \in Nat /\ served + Cardinality(Charged) \in Nat
            /\ served + Cardinality(Charged') <= served + Cardinality(Charged) /\ Price \in Nat
        BY <2>1, Numbers
      <3>2. QED
        BY <3>1, TimesMono
    <2>3. /\ Price * (served + Cardinality(Charged')) \in Nat
          /\ Price * (served + Cardinality(Charged)) \in Nat
      BY <2>1, Numbers
    <2>4. Price * (served + Cardinality(Charged)) + usage.refund <= usage.used
      BY DEF PrePaidInv, ChargedInv
    <2>5. Price * (served + Cardinality(Charged')) + usage.refund <= usage.used
      BY <2>2, <2>3, <2>4, Numbers
    <2>6. QED
      BY <2>1, <2>5 DEF ChargedInv
  <1>7. BudgetInv'
    BY DEF PrePaidInv, BudgetInv
  <1>8. PendingInv'
    <2>1. /\ IsFiniteSet(Units') /\ Cardinality(Units') \in Nat
          /\ Cardinality(Units') <= Cardinality(Units)
          /\ (req[r].pc = "planned" => new.pc = "planned")
                => Cardinality(Units') = Cardinality(Units)
      BY <1>3, PendingCount DEF GoodShape
    <2>2. stale' \/ usage'.planned + Cardinality(Units') <= claimed' + chan'.auth
      BY <2>1, Numbers DEF PrePaidInv, PendingInv
    <2>3. stale' \/ lost'
            \/ claimed' + chan'.auth <= byCall' + usage'.planned + Cardinality(Units')
      <3>1. CASE lost'
        BY <3>1
      <3>2. CASE ~lost'
        <4>1. Cardinality(Units') = Cardinality(Units) /\ ~lost
          BY <2>1, <3>2
        <4>2. QED
          BY <4>1 DEF PrePaidInv, PendingInv
      <3>3. QED
        BY <3>1, <3>2
    <2>4. QED
      BY <2>1, <2>2, <2>3 DEF PendingInv
  <1>9. QED
    BY <1>3, <1>4, <1>5, <1>6, <1>7, <1>8 DEF PrePaidInv

LEMMA ForgetStep ==
    ASSUME PrePaidInv, NEW r \in Requests, req' = [req EXCEPT ![r] = IdleReq],
           UNCHANGED <<chan, locked, usage, claimed, served, stale, byCall>>,
           lost' = (lost \/ req[r].pc = "planned")
    PROVE  PrePaidInv'
  <1>1. lost' \in BOOLEAN /\ (~lost' => ~lost /\ req[r].pc # "planned")
    BY DEF PrePaidInv, PrePaidTypeOK
  <1>2. QED
    BY <1>1, QuietStep, IdleType, IdleShape

LEMMA StartUpdateStep ==
    ASSUME PrePaidInv, NEW r \in Requests, StartUpdate(r)
    PROVE  PrePaidInv'
  <1> DEFINE new == [req[r] EXCEPT !.started = TRUE, !.snap = usage]
  <1>1. /\ req[r] \in ReqType /\ usage \in Usages
        /\ req[r].pc \in {"planned", "used", "refund"}
        /\ lost \in BOOLEAN
        /\ UNCHANGED <<chan, locked, usage, claimed, served, stale, byCall>>
    BY DEF PrePaidInv, PrePaidTypeOK, ReqType, StartUpdate
  <1>2. CASE req' = [req EXCEPT ![r] = new] /\ UNCHANGED lost
    <2>1. new \in ReqType /\ new.pc = req[r].pc /\ new.amount = req[r].amount
          /\ new.seen = req[r].seen
      BY <1>1 DEF ReqType
    <2> HIDE DEF new
    <2>2. GoodShape(r, new)
      BY <1>1, <2>1 DEF GoodShape, PrePaidInv, ShapeInv
    <2>3. QED
      BY <1>1, <1>2, <2>1, <2>2, QuietStep
  <1>3. CASE Forgotten(r)
    BY <1>1, <1>3, ForgetStep DEF Forgotten
  <1>4. QED
    BY <1>2, <1>3 DEF StartUpdate

(* The transaction of an update is applied: the amounts are those it saw.  *)
LEMMA AppliedStep ==
    ASSUME PrePaidInv, NEW r \in Requests, req[r].started, ~Refused(r),
           usage = req[r].snap, usage' = Increment(req[r].snap, req[r].pc, Revised(r)),
           req' = [req EXCEPT ![r] = Updated(r)] \/ req' = [req EXCEPT ![r] = IdleReq],
           UNCHANGED <<chan, locked, claimed, served, stale, byCall, lost>>
    PROVE  PrePaidInv'
  <1> DEFINE kind == req[r].pc
             serving == [IdleReq EXCEPT !.pc = "serving"]
  <1>1. /\ PrePaidTypeOK /\ req[r] \in ReqType /\ kind \in {"planned", "used", "refund"}
        /\ usage \in Usages
    BY DEF PrePaidInv, PrePaidTypeOK, ShapeInv, ReqType
  <1>2. /\ kind = "planned" => r \in Tokens /\ r \notin Calls
        /\ kind \in {"used", "refund"} => r \in Calls /\ r \notin Tokens
    BY PrePaidAssumption DEF PrePaidInv, ShapeInv, Requests
  <1>3. /\ kind = "planned" => /\ Revised(r) = req[r].amount - req[r].seen
                               /\ Revised(r) \in Nat
        /\ kind # "planned" => Revised(r) = Price
        /\ Revised(r) \in Nat
    BY <1>1, <1>2, PrePaidAssumption DEF Revised, PrePaidInv, ShapeInv, ReqType
  <1>4. /\ usage' \in Usages
        /\ usage'.planned = usage.planned + (IF kind = "planned" THEN Revised(r) ELSE 0)
        /\ usage'.used = usage.used + (IF kind = "used" THEN Revised(r) ELSE 0)
        /\ usage'.refund = usage.refund + (IF kind = "refund" THEN Revised(r) ELSE 0)
    BY <1>1, <1>3 DEF Increment, Usages
  <1>5. serving \in ReqType /\ serving.pc = "serving" /\ ~serving.started
    BY IdleType DEF ReqType, Steps, IdleReq
  <1>6. PICK new \in ReqType : /\ req' = [req EXCEPT ![r] = new]
                               /\ new = IdleReq \/ (kind = "used" /\ new = serving)
    BY <1>5, IdleType DEF Updated
  <1>7. /\ ~new.started
        /\ new.pc = "idle" \/ (kind = "used" /\ new.pc = "serving")
    BY <1>5, <1>6, IdleType
  <1> HIDE DEF serving
  <1>8. GoodShape(r, new)
    BY <1>2, <1>7 DEF GoodShape
  <1>9. /\ req' \in [Requests -> ReqType]
        /\ req'[r] = new /\ \A q \in Requests : q # r => req'[q] = req[q]
    BY <1>1, <1>6, RequestStep
  <1>10. PrePaidTypeOK'
    BY <1>1, <1>4, <1>9 DEF PrePaidTypeOK, ReqType
  <1>11. ShapeInv'
    BY <1>6, <1>8, ShapeStep
  <1>12. LockInv'
    BY <1>7, <1>9 DEF PrePaidInv, LockInv, Requests
  <1>13. BudgetInv'
    <2>1. CASE kind = "used"
      <3>1. usage.used + Price <= usage.planned + usage.refund
        BY <1>1, <1>3, <2>1, Numbers DEF Refused, UsageExceeded
      <3>2. QED
        BY <1>3, <1>4, <2>1, <3>1, Numbers DEF BudgetInv
    <2>2. CASE kind # "used"
      BY <1>1, <1>3, <1>4, <2>2, Numbers DEF PrePaidInv, BudgetInv
    <2>3. QED
      BY <2>1, <2>2
  <1>14. ChargedInv'
    <2> DEFINE n == served + Cardinality(Charged)
               m == served + Cardinality(Charged')
    <2>1. /\ Cardinality(Charged) \in Nat /\ Cardinality(Charged') \in Nat
          /\ IsFiniteSet(Charged')
          /\ kind = "used" => \/ Cardinality(Charged') <= Cardinality(Charged)
                              \/ Cardinality(Charged') = Cardinality(Charged) + 1
          /\ kind = "planned" => Cardinality(Charged') <= Cardinality(Charged)
          /\ kind = "refund" => Cardinality(Charged) = Cardinality(Charged') + 1
      <3>1. /\ Cardinality(Charged) \in Nat /\ Cardinality(Charged') \in Nat
            /\ IsFiniteSet(Charged')
            /\ (r \in Calls /\ new.pc \in {"serving", "refund"} => kind \in {"serving", "refund"})
                  => Cardinality(Charged') <= Cardinality(Charged)
            /\ r \in Calls /\ new.pc = "serving" /\ kind = "used"
                  => Cardinality(Charged') = Cardinality(Charged) + 1
            /\ r \in Calls /\ new.pc = "idle" /\ kind \in {"serving", "refund"}
                  => Cardinality(Charged') = Cardinality(Charged) - 1
        BY <1>6, ChargedCount
      <3>2. QED
        BY <1>2, <1>7, <3>1
    <2>2. /\ n \in Nat /\ m \in Nat
          /\ kind = "used" => m <= n \/ m = n + 1
          /\ kind = "planned" => m <= n
          /\ kind = "refund" => n = m + 1
      BY <2>1, Numbers
    <2>3. Price * n + usage.refund <= usage.used
      BY DEF PrePaidInv, ChargedInv
    <2> HIDE DEF n, m
    <2>4. /\ Price * n \in Nat /\ Price * m \in Nat
          /\ m <= n => Price * m <= Price * n
          /\ m = n + 1 => Price * m = Price * n + Price
          /\ n = m + 1 => Price * n = Price * m + Price
      BY <2>2, TimesSucc, TimesMono, Numbers
    <2>5. Price * m + usage'.refund <= usage'.used
      <3> DEFINE pn == Price * n
                 pm == Price * m
      <3>1. /\ pn \in Nat /\ pm \in Nat /\ pn + usage.refund <= usage.used
            /\ kind = "used" => pm <= pn + Price
            /\ kind = "planned" => pm <= pn
            /\ kind = "refund" => pn = pm + Price
        BY <2>2, <2>3, <2>4, Numbers
      <3> HIDE DEF pn, pm
      <3>2. CASE kind = "used"
        BY <1>3, <1>4, <3>1, <3>2, Numbers DEF pm
      <3>3. CASE kind = "planned"
        BY <1>3, <1>4, <3>1, <3>3, Numbers DEF pm
      <3>4. CASE kind = "refund"
        BY <1>3, <1>4, <3>1, <3>4, Numbers DEF pm
      <3>5. QED
        BY <1>1, <3>2, <3>3, <3>4
    <2>6. QED
      BY <2>1, <2>5 DEF ChargedInv, m
  <1>15. PendingInv'
    <2>1. /\ Cardinality(Units) \in Nat /\ Cardinality(Units') \in Nat
          /\ IsFiniteSet(Units')
          /\ kind = "planned" => Cardinality(Units') = Cardinality(Units) - Revised(r)
          /\ kind # "planned" => Cardinality(Units') = Cardinality(Units)
      BY <1>2, <1>3, <1>6, <1>7, <1>10, PendingCount
    <2>2. usage'.planned + Cardinality(Units') = usage.planned + Cardinality(Units)
      BY <1>1, <1>3, <1>4, <2>1, Numbers
    <2>3. stale' \/ usage'.planned + Cardinality(Units') <= claimed' + chan'.auth
      BY <2>2 DEF PrePaidInv, PendingInv
    <2>4. byCall' + usage'.planned + Cardinality(Units')
            = byCall + usage.planned + Cardinality(Units)
      <3>1. usage'.planned \in Nat
        BY <1>4 DEF Usages
      <3>2. QED
        BY <2>1, <2>2, <3>1, Numbers
    <2>5. QED
      BY <2>1, <2>3, <2>4 DEF PrePaidInv, PendingInv
  <1>16. QED
    BY <1>10, <1>11, <1>12, <1>13, <1>14, <1>15 DEF PrePaidInv

LEMMA CompleteUpdateStep ==
    ASSUME PrePaidInv, NEW r \in Requests, CompleteUpdate(r)
    PROVE  PrePaidInv'
  <1> DEFINE retry == [req[r] EXCEPT !.snap = usage]
             new == Increment(req[r].snap, req[r].pc, Revised(r))
  <1>1. /\ req[r] \in ReqType /\ usage \in Usages /\ req[r].started /\ lost \in BOOLEAN
        /\ UNCHANGED <<chan, locked, claimed, served, stale, byCall>>
        /\ req[r].pc \in {"planned", "used", "refund"}
    BY DEF PrePaidInv, PrePaidTypeOK, ReqType, CompleteUpdate, ShapeInv
  <1>2. CASE Forgotten(r) /\ UNCHANGED usage
    BY <1>1, <1>2, ForgetStep DEF Forgotten
  <1>5. CASE Refused(r) /\ req' = [req EXCEPT ![r] = IdleReq] /\ UNCHANGED <<usage, lost>>
    <2>1. req[r].pc # "planned"
      BY <1>5 DEF Refused
    <2>2. lost' = (lost \/ req[r].pc = "planned")
      BY <1>1, <1>5, <2>1 DEF PrePaidInv, PrePaidTypeOK
    <2>3. QED
      BY <1>1, <1>5, <2>2, ForgetStep
  <1>3. CASE req' = [req EXCEPT ![r] = retry] /\ UNCHANGED <<usage, lost>>
    <2>1. retry \in ReqType /\ retry.pc = req[r].pc /\ retry.amount = req[r].amount
          /\ retry.seen = req[r].seen
      BY <1>1 DEF ReqType
    <2> HIDE DEF retry
    <2>2. GoodShape(r, retry)
      BY <1>1, <2>1 DEF GoodShape, PrePaidInv, ShapeInv
    <2>3. QED
      BY <1>1, <1>3, <2>1, <2>2, QuietStep
  <1>4. CASE /\ ~Refused(r) /\ usage = req[r].snap /\ usage' = new
             /\ req' = [req EXCEPT ![r] = Updated(r)] \/ req' = [req EXCEPT ![r] = IdleReq]
             /\ UNCHANGED lost
    BY <1>1, <1>4, AppliedStep
  <1>6. QED
    BY <1>2, <1>5, <1>3, <1>4 DEF CompleteUpdate, Unchanged, Retried

LEMMA GetTokenStep ==
    ASSUME PrePaidInv, NEW t \in Tokens, NEW n \in 0..MaxNonce, NEW amount \in 0..Full + 1,
           GetToken(t, n, amount)
    PROVE  PrePaidInv'
  <1> DEFINE new == [IdleReq EXCEPT !.pc = "read", !.nonce = n, !.amount = amount,
                                    !.seen = chan.auth]
  <1>1. n \in Nat /\ amount \in Nat /\ chan.auth \in Nat /\ chan.auth < amount
    BY PrePaidAssumption, Numbers DEF GetToken, Eligible
  <1>2. new \in ReqType /\ new.pc = "read" /\ new.seen < new.amount /\ ~new.started
    BY <1>1, IdleType DEF ReqType, Steps, IdleReq
  <1>3. /\ req' = [req EXCEPT ![t] = new] /\ req[t].pc = "idle" /\ lost \in BOOLEAN
        /\ UNCHANGED <<chan, locked, usage, claimed, served, stale, byCall, lost>>
    BY DEF GetToken, PrePaidInv, PrePaidTypeOK
  <1> HIDE DEF new
  <1>4. t \in Requests /\ GoodShape(t, new)
    BY <1>2, PrePaidAssumption DEF GoodShape, Requests
  <1>5. QED
    BY <1>2, <1>3, <1>4, QuietStep

LEMMA StartPaymentStep ==
    ASSUME PrePaidInv, NEW t \in Tokens, StartPaymentTransaction(t)
    PROVE  PrePaidInv'
  <1> DEFINE new == [req[t] EXCEPT !.pc = "commit"]
  <1>1. /\ t \in Requests /\ t \notin Calls /\ req[t] \in ReqType /\ req[t].pc = "read"
        /\ req[t].seen < req[t].amount /\ ~req[t].started /\ PrePaidTypeOK
        /\ UNCHANGED <<chan, usage, claimed, served, stale, byCall, lost>>
    BY PrePaidAssumption
       DEF PrePaidInv, PrePaidTypeOK, ReqType, ShapeInv, StartPaymentTransaction, Requests
  <1>2. CASE req' = [req EXCEPT ![t] = IdleReq] /\ UNCHANGED locked
    <2>1. lost' = (lost \/ req[t].pc = "planned")
      BY <1>1 DEF PrePaidTypeOK
    <2>2. QED
      BY <1>1, <1>2, <2>1, ForgetStep
  <1>3. CASE /\ ~locked /\ Validate(req[t].nonce, req[t].amount) /\ locked' = TRUE
             /\ req' = [req EXCEPT ![t] = new]
    <2>1. /\ new \in ReqType /\ new.pc = "commit" /\ new.amount = req[t].amount
          /\ new.seen = req[t].seen /\ ~new.started
      BY <1>1 DEF ReqType, Steps
    <2>2. req' = [req EXCEPT ![t] = new]
      BY <1>3
    <2> HIDE DEF new
    <2>3. GoodShape(t, new)
      BY <1>1, <2>1 DEF GoodShape
    <2>4. /\ req' \in [Requests -> ReqType]
          /\ req'[t] = new /\ \A q \in Requests : q # t => req'[q] = req[q]
      BY <1>1, <2>1, <2>2, RequestStep
    <2>5. PrePaidTypeOK'
      BY <1>1, <1>3, <2>4 DEF PrePaidTypeOK, ReqType
    <2>6. ShapeInv'
      BY <1>1, <2>1, <2>2, <2>3, ShapeStep
    <2>7. LockInv'
      BY <1>1, <1>3, <2>1, <2>4 DEF PrePaidInv, LockInv, Requests, Validate
    <2>8. ChargedInv' /\ PendingInv' /\ BudgetInv'
      <3>1. Charged' = Charged /\ Units' = Units
        <4>1. \A c \in Calls : c \in Requests /\ c # t
          BY <1>1 DEF Requests
        <4>2. \A p \in Tokens \X Nat : p[1] \in Requests
          BY DEF Requests
        <4>3. Charged' = Charged
          BY <2>4, <4>1 DEF Charged, InService, Refunding
        <4>4. Units' = Units
          BY <1>1, <2>1, <2>4, <4>2 DEF Units
        <4>5. QED
          BY <4>3, <4>4
      <3>2. QED
        BY <1>1, <3>1 DEF PrePaidInv, ChargedInv, PendingInv, BudgetInv
    <2>9. QED
      BY <2>5, <2>6, <2>7, <2>8 DEF PrePaidInv
  <1>4. QED
    BY <1>2, <1>3 DEF StartPaymentTransaction

LEMMA CommitTokenStep ==
    ASSUME PrePaidInv, NEW t \in Tokens, CommitToken(t)
    PROVE  PrePaidInv'
  <1> DEFINE put == [chan EXCEPT !.auth = req[t].amount]
             planned == [req[t] EXCEPT !.pc = "planned"]
  <1>1. /\ t \in Requests /\ t \notin Calls /\ req[t] \in ReqType /\ req[t].pc = "commit"
        /\ req[t].seen < req[t].amount /\ ~req[t].started /\ PrePaidTypeOK
        /\ UNCHANGED <<usage, claimed, served, byCall>> /\ locked' = FALSE
        /\ req[t].amount <= chan.full /\ req[t].amount \in Nat /\ req[t].seen \in Nat
        /\ stale' \in BOOLEAN /\ (~stale' => ~stale /\ chan.auth = req[t].seen)
        /\ lost \in BOOLEAN
    BY PrePaidAssumption
       DEF PrePaidInv, PrePaidTypeOK, ReqType, ShapeInv, LockInv, CommitToken, Requests
  <1>2. /\ planned \in ReqType /\ planned.pc = "planned" /\ ~planned.started
        /\ planned.amount = req[t].amount /\ planned.seen = req[t].seen
    BY <1>1 DEF ReqType, Steps
  <1>3. PICK new \in ReqType :
          /\ req' = [req EXCEPT ![t] = new]
          /\ \/ new = planned /\ chan' = put /\ lost' = lost
             \/ new = IdleReq /\ chan' = chan /\ lost' = lost
             \/ new = IdleReq /\ chan' = put /\ lost'
          /\ lost' \in BOOLEAN
    <2>1. /\ \/ req' = [req EXCEPT ![t] = planned] /\ chan' = put /\ lost' = lost
             \/ req' = [req EXCEPT ![t] = IdleReq] /\ chan' = chan /\ lost' = lost
             \/ req' = [req EXCEPT ![t] = IdleReq] /\ chan' = put /\ lost' = TRUE
      BY DEF CommitToken
    <2>2. QED
      BY <1>1, <1>2, <2>1, IdleType
  <1>4. /\ ~new.started /\ new.pc \in {"idle", "planned"}
        /\ new.pc = "planned" => /\ new.amount = req[t].amount /\ new.seen = req[t].seen
                                 /\ chan' = put
        /\ ~lost' => ~lost /\ (new.pc = "idle" => chan' = chan)
    <2>1. CASE new = planned /\ chan' = put /\ lost' = lost
      BY <1>2, <2>1
    <2>2. CASE new = IdleReq /\ chan' = chan /\ lost' = lost
      BY <2>2, IdleType
    <2>3. CASE new = IdleReq /\ chan' = put /\ lost'
      BY <2>3, IdleType
    <2>4. QED
      BY <1>3, <2>1, <2>2, <2>3
  <1>5. /\ chan' \in ChannelStates /\ chan'.full = chan.full
        /\ chan'.auth \in {chan.auth, req[t].amount}
        /\ chan' = put => chan'.auth = req[t].amount
    BY <1>1, <1>3 DEF PrePaidTypeOK, ChannelStates
  <1> HIDE DEF planned, put
  <1>6. GoodShape(t, new)
    BY <1>1, <1>4 DEF GoodShape
  <1>7. /\ req' \in [Requests -> ReqType]
        /\ req'[t] = new /\ \A q \in Requests : q # t => req'[q] = req[q]
    BY <1>1, <1>3, RequestStep
  <1>8. PrePaidTypeOK'
    BY <1>1, <1>3, <1>5, <1>7 DEF PrePaidTypeOK, ReqType
  <1>9. ShapeInv'
    BY <1>1, <1>3, <1>6, ShapeStep
  <1>10. LockInv'
    BY <1>1, <1>4, <1>5, <1>7 DEF PrePaidInv, LockInv, Requests
  <1>11. ChargedInv' /\ BudgetInv'
    <2>1. \A c \in Calls : c \in Requests /\ c # t
      BY <1>1 DEF Requests
    <2>2. Charged' = Charged
      BY <1>7, <2>1 DEF Charged, InService, Refunding
    <2>3. QED
      BY <1>1, <2>2 DEF PrePaidInv, ChargedInv, BudgetInv
  <1>12. PendingInv'
    <2>1. /\ Cardinality(Units) \in Nat /\ Cardinality(Units') \in Nat
          /\ IsFiniteSet(Units')
          /\ (t \in Tokens /\ new.pc = "planned"
                 => req[t].pc = "planned" /\ new.amount = req[t].amount /\ new.seen = req[t].seen)
                 => /\ Cardinality(Units') <= Cardinality(Units)
                    /\ (t \in Tokens /\ req[t].pc = "planned" => new.pc = "planned")
                          => Cardinality(Units') = Cardinality(Units)
          /\ t \in Tokens /\ req[t].pc # "planned" /\ new.pc = "planned"
                 => Cardinality(Units') = Cardinality(Units) + (new.amount - new.seen)
      BY <1>1, <1>3, <1>4, <1>8, PendingCount
    <2>2. /\ new.pc = "idle" => Cardinality(Units') = Cardinality(Units)
          /\ new.pc = "planned" => /\ chan'.auth = req[t].amount
                                   /\ Cardinality(Units') =
                                        Cardinality(Units) + (req[t].amount - req[t].seen)
      BY <1>1, <1>4, <1>5, <2>1
    <2>3. ASSUME ~stale'
          PROVE  usage'.planned + Cardinality(Units') <= claimed' + chan'.auth
      <3>1. /\ chan.auth = req[t].seen
            /\ usage.planned + Cardinality(Units) <= claimed + chan.auth
        BY <1>1, <2>3 DEF PrePaidInv, PendingInv
      <3>2. QED
        BY <1>1, <1>4, <1>5, <2>1, <2>2, <3>1, Numbers
    <2>4. ASSUME ~stale', ~lost'
          PROVE  claimed' + chan'.auth <= byCall' + usage'.planned + Cardinality(Units')
      <3>1. /\ chan.auth = req[t].seen
            /\ claimed + chan.auth <= byCall + usage.planned + Cardinality(Units)
        BY <1>1, <1>4, <2>4 DEF PrePaidInv, PendingInv
      <3>2. CASE new.pc = "idle"
        BY <1>1, <1>4, <2>2, <2>4, <3>1, <3>2
      <3>3. CASE new.pc = "planned"
        BY <1>1, <2>1, <2>2, <3>1, <3>3, Numbers
      <3>4. QED
        BY <1>4, <3>2, <3>3
    <2>5. QED
      BY <2>1, <2>3, <2>4 DEF PendingInv
  <1>13. QED
    BY <1>8, <1>9, <1>10, <1>11, <1>12 DEF PrePaidInv

LEMMA PrePaidPaymentStep ==
    ASSUME PrePaidInv, NEW c \in Calls, PrePaidPayment(c)
    PROVE  PrePaidInv'
  <1> DEFINE new == [IdleReq EXCEPT !.pc = "used"]
  <1>1. new \in ReqType /\ new.pc = "used" /\ ~new.started
    BY IdleType DEF ReqType, Steps, IdleReq
  <1>2. /\ req' = [req EXCEPT ![c] = new] /\ req[c].pc = "idle" /\ lost \in BOOLEAN
        /\ UNCHANGED <<chan, locked, usage, claimed, served, stale, byCall, lost>>
    BY DEF PrePaidPayment, PrePaidInv, PrePaidTypeOK
  <1> HIDE DEF new
  <1>3. c \in Requests /\ GoodShape(c, new)
    BY <1>1, PrePaidAssumption DEF GoodShape, Requests
  <1>4. QED
    BY <1>1, <1>2, <1>3, QuietStep

LEMMA CallServiceStep ==
    ASSUME PrePaidInv, NEW c \in Calls, CallService(c)
    PROVE  PrePaidInv'
  <1> DEFINE refund == [IdleReq EXCEPT !.pc = "refund"]
  <1>1. /\ c \in Requests /\ c \notin Tokens /\ req[c].pc = "serving" /\ PrePaidTypeOK
        /\ UNCHANGED <<chan, locked, usage, claimed, stale, byCall, lost>>
    BY PrePaidAssumption DEF PrePaidInv, CallService, Requests
  <1>2. CASE req' = [req EXCEPT ![c] = refund] /\ UNCHANGED served
    <2>1. refund \in ReqType /\ refund.pc = "refund" /\ ~refund.started
      BY IdleType DEF ReqType, Steps, IdleReq
    <2> HIDE DEF refund
    <2>2. GoodShape(c, refund)
      BY <1>1, <2>1 DEF GoodShape
    <2>3. lost' \in BOOLEAN /\ (~lost' => ~lost)
      BY <1>1 DEF PrePaidTypeOK
    <2>4. QED
      BY <1>1, <1>2, <2>1, <2>2, <2>3, QuietStep
  <1>3. CASE req' = [req EXCEPT ![c] = IdleReq] /\ served' = served + 1
    <2>1. /\ req' \in [Requests -> ReqType]
          /\ req'[c] = IdleReq /\ \A q \in Requests : q # c => req'[q] = req[q]
      BY <1>1, <1>3, IdleType, RequestStep
    <2>2. PrePaidTypeOK'
      BY <1>1, <1>3, <2>1 DEF PrePaidTypeOK, ReqType
    <2>3. ShapeInv'
      BY <1>1, <1>3, IdleType, IdleShape, ShapeStep
    <2>4. LockInv'
      BY <1>1, <2>1, IdleType DEF PrePaidInv, LockInv, Requests
    <2>5. ChargedInv'
      <3>1. /\ Cardinality(Charged) \in Nat /\ Cardinality(Charged') \in Nat
            /\ IsFiniteSet(Charged') /\ Cardinality(Charged') = Cardinality(Charged) - 1
        BY <1>1, <1>3, IdleType, ChargedCount
      <3>2. served + Cardinality(Charged) = served' + Cardinality(Charged')
        BY <1>3, <3>1, Numbers
      <3>3. QED
        BY <1>1, <3>1, <3>2 DEF PrePaidInv, ChargedInv
    <2>6. BudgetInv'
      BY <1>1 DEF PrePaidInv, BudgetInv
    <2>7. PendingInv'
      <3>1. \A p \in Tokens \X Nat : p[1] \in Requests /\ p[1] # c
        BY <1>1 DEF Requests
      <3>2. Units' = Units
        BY <2>1, <3>1 DEF Units
      <3>3. QED
        BY <1>1, <3>2 DEF PrePaidInv, PendingInv
    <2>8. QED
      BY <2>2, <2>3, <2>4, <2>5, <2>6, <2>7 DEF PrePaidInv
  <1>4. QED
    BY <1>2, <1>3 DEF CallService

(* The steps that leave the requests alone: what the channel is worth does *)
(* not fall.                                                               *)
LEMMA ChannelStep ==
    ASSUME PrePaidInv, UnlockChannel \/ EscrowPayment \/ StartClaim
    PROVE  PrePaidInv'
  <1>1. UNCHANGED <<req, usage, served, stale, lost>> /\ PrePaidTypeOK /\ chan \in ChannelStates
    BY DEF UnlockChannel, EscrowPayment, StartClaim, PrePaidInv, PrePaidTypeOK
  <1>2. Charged' = Charged /\ Units' = Units
    BY <1>1 DEF Charged, InService, Refunding, Units
  <1>3. /\ chan' \in ChannelStates /\ claimed' \in Nat /\ locked' \in BOOLEAN
        /\ chan'.auth <= chan'.full
        /\ claimed + chan.auth <= claimed' + chan'.auth
        /\ byCall' \in Nat
        /\ claimed' + chan'.auth <= claimed + chan.auth + (byCall' - byCall)
        /\ \A t \in Tokens : req[t].pc = "commit" => locked' /\ chan' = chan
    <2>1. chan.auth <= chan.full /\ \A t \in Tokens : req[t].pc = "commit" => locked
      BY DEF PrePaidInv, LockInv
    <2>2. CASE UnlockChannel
      <3>1. /\ chan' = chan /\ claimed' = claimed /\ locked' = FALSE /\ byCall' = byCall
            /\ \A t \in Tokens : req[t].pc # "commit"
        BY <2>2 DEF UnlockChannel
      <3>2. /\ chan' \in ChannelStates /\ claimed' \in Nat
            /\ chan'.auth <= chan'.full
            /\ claimed + chan.auth <= claimed' + chan'.auth
            /\ byCall' \in Nat
            /\ claimed' + chan'.auth <= claimed + chan.auth + (byCall' - byCall)
        BY <1>1, <2>1, <3>1, Numbers
      <3>3. /\ locked' \in BOOLEAN
            /\ \A t \in Tokens : req[t].pc = "commit" => locked' /\ chan' = chan
        BY <3>1
      <3>4. QED
        BY <3>2, <3>3
    <2>3. CASE EscrowPayment
      <3>1. /\ chan' = [chan EXCEPT !.auth = chan.auth + Price]
            /\ chan.auth + Price <= chan.full /\ ~locked /\ claimed' = claimed /\ locked' = locked
            /\ byCall' = byCall + Price
        BY <2>3 DEF EscrowPayment
      <3>2. /\ chan' \in ChannelStates /\ chan'.auth = chan.auth + Price /\ chan'.full = chan.full
        BY <1>1, <3>1, Numbers DEF ChannelStates
      <3>3. QED
        BY <1>1, <2>1, <3>1, <3>2, Numbers DEF PrePaidTypeOK
    <2>4. CASE StartClaim
      <3>1. /\ chan' = [nonce |-> chan.nonce + 1, auth |-> 0, full |-> chan.full - chan.auth]
            /\ claimed' = claimed + chan.auth /\ ~locked /\ locked' = locked
            /\ byCall' = byCall
        BY <2>4 DEF StartClaim
      <3>2. chan' \in ChannelStates /\ chan'.auth = 0 /\ chan'.full = chan.full - chan.auth
        BY <2>1, <3>1, Numbers DEF ChannelStates
      <3>3. QED
        BY <1>1, <2>1, <3>1, <3>2, Numbers DEF PrePaidTypeOK
    <2>5. QED
      BY <2>2, <2>3, <2>4
  <1>4. PrePaidTypeOK' /\ ShapeInv' /\ LockInv'
    BY <1>1, <1>3 DEF PrePaidInv, PrePaidTypeOK, ShapeInv, LockInv
  <1>5. ChargedInv' /\ BudgetInv'
    BY <1>1, <1>2 DEF PrePaidInv, ChargedInv, BudgetInv
  <1>6. PendingInv'
    <2>1. chan'.auth \in Nat /\ claimed' \in Nat
      BY <1>3 DEF ChannelStates
    <2>2. stale' \/ usage'.planned + Cardinality(Units') <= claimed' + chan'.auth
      BY <1>1, <1>2, <1>3, <2>1, Numbers DEF PrePaidInv, PendingInv
    <2>3. ASSUME ~stale', ~lost'
          PROVE  claimed' + chan'.auth <= byCall' + usage'.planned + Cardinality(Units')
      <3>1. claimed + chan.auth <= byCall + usage.planned + Cardinality(Units)
        BY <1>1, <2>3 DEF PrePaidInv, PendingInv
      <3>2. QED
        BY <1>1, <1>2, <1>3, <2>1, <3>1, Numbers
    <2>4. QED
      BY <1>2, <2>2, <2>3 DEF PrePaidInv, PendingInv
  <1>7. QED
    BY <1>4, <1>5, <1>6 DEF PrePaidInv

LEMMA PrePaidStep == PrePaidInv /\ [PrePaidNext]_prePaidVars => PrePaidInv'
  <1> SUFFICES ASSUME PrePaidInv, [PrePaidNext]_prePaidVars PROVE PrePaidInv'
    OBVIOUS
  <1>1. CASE PrePaidNext
    <2>1. ASSUME NEW r \in Requests, Crash(r) PROVE PrePaidInv'
      BY <2>1, ForgetStep DEF Crash, Forgotten
    <2>2. QED
      BY <1>1, <2>1, GetTokenStep, StartPaymentStep, CommitTokenStep, PrePaidPaymentStep,
         CallServiceStep, StartUpdateStep, CompleteUpdateStep, ChannelStep DEF PrePaidNext
  <1>2. CASE UNCHANGED prePaidVars
    <2>1. UNCHANGED <<chan, locked, usage, req, claimed, served, stale, byCall, lost>>
      BY <1>2 DEF prePaidVars
    <2>2. Charged' = Charged /\ Units' = Units
      BY <2>1 DEF Charged, InService, Refunding, Units
    <2>3. QED
      BY <2>1, <2>2 DEF PrePaidInv, PrePaidTypeOK, ShapeInv, LockInv, ChargedInv, BudgetInv,
                        PendingInv
  <1>3. QED
    BY <1>1, <1>2

LEMMA PrePaidInvariant == PrePaidSpec => []PrePaidInv
  BY PrePaidInitInv, PrePaidStep, PTL DEF PrePaidSpec

-----------------------------------------------------------------------------
(* The requests, the channel and the three amounts of a channel stay well  *)
(* formed: no amount of UpdateUsage, GetToken or a claim is ever negative. *)
THEOREM PrePaidTypes == PrePaidSpec => []PrePaidTypeOK
  <1>1. PrePaidInv => PrePaidTypeOK
    BY DEF PrePaidInv
  <1>2. QED
    BY <1>1, PrePaidInvariant, PTL

(* No increment of the used amount is lost and no refund is given twice,   *)
(* however the retried transactions of UpdateUsage interleave and fail.    *)
THEOREM NothingUsedIsLost == PrePaidSpec => []UsedIsAccounted
  <1>1. PrePaidInv => UsedIsAccounted
    BY DEF PrePaidInv, ChargedInv, Charged, UsedIsAccounted
  <1>2. QED
    BY <1>1, PrePaidInvariant, PTL

(* Every prepaid call served is covered by the planned amount.             *)
THEOREM ServedIsPlanned == PrePaidSpec => []ServedWithinPlanned
  <1>1. PrePaidInv => ServedWithinPlanned
    <2> SUFFICES ASSUME PrePaidInv PROVE ServedWithinPlanned
      OBVIOUS
    <2> DEFINE m == served + Cardinality(InService)
               n == served + Cardinality(Charged)
    <2>1. /\ Price * n + usage.refund <= usage.used
          /\ usage.used <= usage.planned + usage.refund
          /\ IsFiniteSet(Charged) /\ InService \in SUBSET Charged
      BY DEF PrePaidInv, ChargedInv, BudgetInv, Charged
    <2>2. /\ IsFiniteSet(InService) /\ Cardinality(InService) <= Cardinality(Charged)
          /\ Cardinality(InService) \in Nat
      BY <2>1, FS_Subset, FS_CardinalityType
    <2>3. m \in Nat /\ n \in Nat /\ m <= n
      BY <2>2, Numbers
    <2> HIDE DEF m, n
    <2>4. Price * m <= Price * n /\ Price * m \in Nat /\ Price * n \in Nat
      BY <2>3, TimesMono, Numbers
    <2>5. Price * m <= usage.planned
      BY <2>1, <2>4, Numbers
    <2>6. QED
      BY <2>5 DEF ServedWithinPlanned, m
  <1>2. QED
    BY <1>1, PrePaidInvariant, PTL

(* What is planned is authorized, unless a token request committed over an *)
(* amount it had not seen: GetToken reads the channel before it locks it.  *)
THEOREM PlannedIsAuthorized == PrePaidSpec => []PlannedIsPaid
  <1>1. PrePaidInv => PlannedIsPaid
    BY Numbers DEF PrePaidInv, PendingInv, PlannedIsPaid
  <1>2. QED
    BY <1>1, PrePaidInvariant, PTL

(* What is authorized is planned, or on its way, or has paid for calls,    *)
(* unless a token request failed between its commit and its update or      *)
(* committed over an amount it had not seen: no update is given up because *)
(* others came in between.                                                 *)
THEOREM AuthorizedIsPlanned == PrePaidSpec => []PaidIsPlanned
  <1>1. PrePaidInv => PaidIsPlanned
    <2> SUFFICES ASSUME PrePaidInv PROVE PaidIsPlanned
      OBVIOUS
    <2>1. Pending = Units
      BY PendingIsUnits DEF PrePaidInv
    <2>2. QED
      BY <2>1 DEF PrePaidInv, PendingInv, PaidIsPlanned
  <1>2. QED
    BY <1>1, PrePaidInvariant, PTL

=============================================================================
