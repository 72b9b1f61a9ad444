------------------------------ MODULE PrePaid ------------------------------
(***************************************************************************)
(* Prepaid calls on one channel: GetToken (token_service.go) commits a     *)
(* larger signed amount to the channel and adds the difference to the      *)
(* planned amount; prepaid calls (prepaid_handler.go) spend it, and a call *)
(* that fails is refunded.  The three amounts are changed by transactions  *)
(* that are retried until nothing came in between (UpdateUsage).           *)
(*                                                                         *)
(* The channel is that of module PaymentChannels, where only the nonce,    *)
(* the amounts and the lock matter here: the payments a client signs are   *)
(* taken to be well signed and the channel not to expire.                  *)
(***************************************************************************)
EXTENDS Naturals, FiniteSets

CONSTANTS
    Tokens,    \* token requests that may be in flight at the same time
    Calls,     \* prepaid calls that may be in flight at the same time
    Price,     \* price of a call
    Full,      \* what the sender has put into the channel
    Others,    \* who else uses the channel, see OtherKinds
    Faults,    \* the faults of this instance, see FaultKinds
    MaxNonce,  \* bound: no claim starts at this nonce
    MaxRefund  \* bound: no call fails at this refund amount

(* Calls paid with the channel directly, and claims of the provider.       *)
OtherKinds == {"escrow", "claim"}

FaultKinds == {"storage", "crash"}

ASSUME PrePaidAssumption ==
    /\ Tokens \cap Calls = {}
    /\ Price \in Nat \ {0} /\ Full \in Nat
    /\ Others \subseteq OtherKinds /\ Faults \subseteq FaultKinds
    /\ MaxNonce \in Nat /\ MaxRefund \in Nat

VARIABLES
    chan,    \* the stored channel
    locked,  \* the channel's lock
    usage,   \* PrePaidStorage: the amounts of the channel
    req,     \* token requests and prepaid calls
    claimed, \* history: what the claims of earlier nonces were worth
    served,  \* history: prepaid calls that ended well
    stale,   \* history: a token request committed over an amount it had not seen
    byCall,  \* history: what the calls paid with the channel itself have cost
    lost     \* history: a committed token request failed before its update was made

prePaidVars == <<chan, locked, usage, req, claimed, served, stale, byCall, lost>>

Requests == Tokens \cup Calls

ChannelStates == [nonce : Nat, auth : Nat, full : Nat]

Usages == [planned : Nat, used : Nat, refund : Nat]

NoUsage == [planned |-> 0, used |-> 0, refund |-> 0]

Steps == {"idle", "read", "commit", "planned", "used", "serving", "refund"}

IdleReq == [pc |-> "idle", nonce |-> 0, amount |-> 0, seen |-> 0,
            started |-> FALSE, snap |-> NoUsage]

PrePaidTypeOK ==
    /\ chan \in ChannelStates
    /\ locked \in BOOLEAN
    /\ usage \in Usages
    /\ req \in [Requests -> [pc : Steps, nonce : Nat, amount : Nat, seen : Nat,
                             started : BOOLEAN, snap : Usages]]
    /\ claimed \in Nat
    /\ served \in Nat /\ stale \in BOOLEAN
    /\ byCall \in Nat /\ lost \in BOOLEAN

-----------------------------------------------------------------------------
(***************************************************************************)
(* UpdateUsage.  An amount is only ever increased and all three are        *)
(* condition keys, so comparing amounts is comparing revisions.            *)
(***************************************************************************)

\* Mutant.
RevisedByAmount(r) == IF req[r].pc = "planned" THEN req[r].amount ELSE Price

(* What a request adds: the difference between the amount of the token     *)
(* request and the authorized amount it saw, or the price.                 *)
Revised(r) == IF req[r].pc = "planned" THEN req[r].amount - req[r].seen ELSE Price

\* Mutant.
ExceededAlready(u, amount) == u.used > u.planned + u.refund

UsageExceeded(u, amount) == u.used + amount > u.planned + u.refund

(* IncrementUsedAmount, IncrementPlannedAmount, IncrementRefundAmount: the *)
(* one key that the transaction puts.                                      *)
Increment(u, kind, amount) == [usage EXCEPT ![kind] = u[kind] + amount]

(* The request ends here, whatever it still had to do.                     *)
Forgotten(r) ==
    /\ req' = [req EXCEPT ![r] = IdleReq]
    /\ lost' = (lost \/ req[r].pc = "planned")

StartUpdate(r) ==
    /\ req[r].pc \in {"planned", "used", "refund"}
    /\ ~req[r].started
    /\ \/ /\ req' = [req EXCEPT ![r] = [@ EXCEPT !.started = TRUE, !.snap = usage]]
          /\ UNCHANGED lost
       \/ "storage" \in Faults /\ Forgotten(r)
    /\ UNCHANGED <<chan, locked, usage, claimed, served, stale, byCall>>

Refused(r) ==
    req[r].pc = "used" /\ UsageExceeded(req[r].snap, Revised(r))

\* Mutant.
BlindPut(snap) == TRUE

Unchanged(snap) == usage = snap

\* Mutant.
GivenUp(r) == IdleReq

(* The latest amounts for another try.                                     *)
Retried(r) == [req[r] EXCEPT !.snap = usage]

Updated(r) == IF req[r].pc = "used" THEN [IdleReq EXCEPT !.pc = "serving"] ELSE IdleReq

(* The update function, then the transaction: it succeeds, or hands out    *)
(* the latest amounts for another try, or fails (applied or not).          *)
CompleteUpdate(r) ==
    LET new == Increment(req[r].snap, req[r].pc, Revised(r))
    IN  /\ req[r].started
        /\ \/ /\ Refused(r)
              /\ req' = [req EXCEPT ![r] = IdleReq]
              /\ UNCHANGED <<usage, lost>>
           \/ /\ ~Refused(r) /\ Unchanged(req[r].snap)
              /\ usage' = new
              /\ req' = [req EXCEPT ![r] = Updated(r)]
              /\ UNCHANGED lost
           \/ /\ ~Refused(r) /\ ~Unchanged(req[r].snap)
              /\ req' = [req EXCEPT ![r] = Retried(r)]
              /\ UNCHANGED <<usage, lost>>
           \/ /\ ~Refused(r) /\ "storage" \in Faults
              /\ UNCHANGED usage
              /\ Forgotten(r)
           \/ /\ ~Refused(r) /\ "storage" \in Faults /\ Unchanged(req[r].snap)
              /\ usage' = new
              /\ req' = [req EXCEPT ![r] = IdleReq]
              /\ UNCHANGED lost
        /\ UNCHANGED <<chan, locked, claimed, served, stale, byCall>>

-----------------------------------------------------------------------------
(***************************************************************************)
(* GetToken.                                                               *)
(***************************************************************************)

\* Mutant.
ValidateNonceOnly(n, amount) == n = chan.nonce

(* The payment against the channel as it is: nonce and amount of Validate. *)
Validate(n, amount) == n = chan.nonce /\ amount <= chan.full

(* verifySignatureAndSignedAmountEligibility, with a new signed amount (a  *)
(* request for the last amount again changes nothing).                     *)
Eligible(n, amount) == amount > chan.auth /\ Validate(n, amount)

GetToken(t, n, amount) ==
    /\ req[t].pc = "idle"
    /\ Eligible(n, amount)
    /\ req' = [req EXCEPT ![t] = [IdleReq EXCEPT !.pc = "read", !.nonce = n,
                                     !.amount = amount, !.seen = chan.auth]]
    /\ UNCHANGED <<chan, locked, usage, claimed, served, stale, byCall, lost>>

(* StartPaymentTransaction: takes the lock and validates against the       *)
(* channel of that moment.                                                 *)
StartPaymentTransaction(t) ==
    /\ req[t].pc = "read"
    /\ \/ /\ ~locked /\ Validate(req[t].nonce, req[t].amount)
          /\ locked' = TRUE
          /\ req' = [req EXCEPT ![t] = [@ EXCEPT !.pc = "commit"]]
       \/ /\ \/ locked \/ ~Validate(req[t].nonce, req[t].amount)
             \/ "storage" \in Faults
          /\ req' = [req EXCEPT ![t] = IdleReq]
          /\ UNCHANGED locked
    /\ UNCHANGED <<chan, usage, claimed, served, stale, byCall, lost>>

(* Commit; after a failure there is no update of the planned amount.       *)
CommitToken(t) ==
    LET put == [chan EXCEPT !.auth = req[t].amount]
    IN  /\ req[t].pc = "commit"
        /\ \/ /\ chan' = put
              /\ req' = [req EXCEPT ![t] = [@ EXCEPT !.pc = "planned"]]
              /\ UNCHANGED lost
           \/ /\ "storage" \in Faults
              /\ \/ UNCHANGED <<chan, lost>>
                 \/ chan' = put /\ lost' = TRUE
              /\ req' = [req EXCEPT ![t] = IdleReq]
        /\ locked' = FALSE
        /\ stale' = (stale \/ chan.auth # req[t].seen)
        /\ UNCHANGED <<usage, claimed, served, byCall>>

-----------------------------------------------------------------------------
(***************************************************************************)
(* A prepaid call, made with a valid token.  Without one there would be no *)
(* planned amount and the call is refused for that.                        *)
(***************************************************************************)

PrePaidPayment(c) ==
    /\ req[c].pc = "idle"
    /\ req' = [req EXCEPT ![c] = [IdleReq EXCEPT !.pc = "used"]]
    /\ UNCHANGED <<chan, locked, usage, claimed, served, stale, byCall, lost>>

(* Complete does nothing more; CompleteAfterError refunds the price.       *)
CallService(c) ==
    /\ req[c].pc = "serving"
    /\ \/ /\ req' = [req EXCEPT ![c] = IdleReq]
          /\ served' = served + 1
       \/ /\ usage.refund < MaxRefund
          /\ req' = [req EXCEPT ![c] = [IdleReq EXCEPT !.pc = "refund"]]
          /\ UNCHANGED served
    /\ UNCHANGED <<chan, locked, usage, claimed, stale, byCall, lost>>

-----------------------------------------------------------------------------
(***************************************************************************)
(* Everybody else.                                                         *)
(***************************************************************************)

Crash(r) ==
    /\ "crash" \in Faults
    /\ req[r].pc # "idle"
    /\ Forgotten(r)
    /\ UNCHANGED <<chan, locked, usage, claimed, served, stale, byCall>>

(* The operator unlocks the channel of a token request that is gone.       *)
UnlockChannel ==
    /\ locked /\ \A t \in Tokens : req[t].pc # "commit"
    /\ locked' = FALSE
    /\ UNCHANGED <<chan, usage, req, claimed, served, stale, byCall, lost>>

(* A call paid with the channel, from Lock to Commit (see PaymentChannels).*)
EscrowPayment ==
    /\ "escrow" \in Others
    /\ ~locked /\ chan.auth + Price <= chan.full
    /\ chan' = [chan EXCEPT !.auth = chan.auth + Price]
    /\ byCall' = byCall + Price
    /\ UNCHANGED <<locked, usage, req, claimed, served, stale, lost>>

(* A claim: IncrementChannelNonce under the lock (see PaymentChannels).    *)
StartClaim ==
    /\ "claim" \in Others
    /\ ~locked /\ chan.auth > 0 /\ chan.nonce < MaxNonce
    /\ chan' = [nonce |-> chan.nonce + 1, auth |-> 0, full |-> chan.full - chan.auth]
    /\ claimed' = claimed + chan.auth
    /\ UNCHANGED <<locked, usage, req, served, stale, byCall, lost>>

-----------------------------------------------------------------------------

PrePaidInit ==
    /\ chan = [nonce |-> 0, auth |-> 0, full |-> Full]
    /\ locked = FALSE
    /\ usage = NoUsage
    /\ req = [r \in Requests |-> IdleReq]
    /\ claimed = 0
    /\ served = 0
    /\ stale = FALSE
    /\ byCall = 0
    /\ lost = FALSE

PrePaidNext ==
    \/ \E t \in Tokens :
         \/ \E n \in 0..MaxNonce, amount \in 0..Full + 1 : GetToken(t, n, amount)
         \/ StartPaymentTransaction(t) \/ CommitToken(t)
    \/ \E c \in Calls : PrePaidPayment(c) \/ CallService(c)
    \/ \E r \in Requests : StartUpdate(r) \/ CompleteUpdate(r) \/ Crash(r)
    \/ UnlockChannel \/ EscrowPayment \/ StartClaim

PrePaidSpec == PrePaidInit /\ [][PrePaidNext]_prePaidVars

-----------------------------------------------------------------------------
(***************************************************************************)
(* Properties.                                                             *)
(***************************************************************************)

InService == {c \in Calls : req[c].pc = "serving"}

Refunding == {c \in Calls : req[c].pc = "refund"}

(* Every prepaid call that is being served or ended well is paid from the  *)
(* planned amount, however the updates of calls race each other and        *)
(* whatever becomes of the answers of the storage.                         *)
ServedWithinPlanned ==
    Price * (served + Cardinality(InService)) <= usage.planned

(* No increment of the used amount is lost and no refund is given twice,   *)
(* whatever races and fails: the used amount stands at least for the calls *)
(* that were served, that are being served and that are or will be         *)
(* refunded.                                                               *)
UsedIsAccounted ==
    LET calls == served + Cardinality(InService \cup Refunding)
    IN  Price * calls + usage.refund <= usage.used

(* What the client planned to use it has authorized: the increments of the *)
(* planned amount do not exceed what the channel and its claims are worth, *)
(* unless a token request committed over a channel that another payment    *)
(* had changed since it was read (token_service.go reads it before the     *)
(* lock is taken): nothing else breaks it, failures included.              *)
PlannedIsPaid == stale \/ usage.planned <= claimed + chan.auth

(* The units of token that are committed to the channel and not yet added  *)
(* to the planned amount.                                                  *)
Pending ==
    UNION {{t} \X (req[t].seen + 1 .. req[t].amount) :
              t \in {s \in Tokens : req[s].pc = "planned"}}

(* What the client has authorized it may use: every amount GetToken        *)
(* committed to the channel is in the planned amount or on its way there,  *)
(* and the rest has paid for calls, however often UpdateUsage loses the    *)
(* race against the updates of calls and refunds and starts again.  Only a *)
(* storage call that fails, or a crash, between the commit and the update  *)
(* costs the client what it has signed for: nothing makes up for that      *)
(* later, which `lost` records.                                            *)
PaidIsPlanned ==
    stale \/ lost
        \/ claimed + chan.auth <= byCall + usage.planned + Cardinality(Pending)
=============================================================================
