-------------------------- MODULE PaymentChannels --------------------------
(***************************************************************************)
(* The locking payment channel service of the daemon (package escrow) and  *)
(* everything that runs against it: paid calls, of the service and of the  *)
(* training methods (StartPaymentTransaction, the income check, the call,  *)
(* Commit or Rollback), token requests (GetToken: StartPaymentTransaction  *)
(* and Commit, with neither income check nor call), provider requests that *)
(* start claims or list the claims in progress, the MultiPartyEscrow       *)
(* contract, and the operator's "channel --unlock" command.                *)
(*                                                                         *)
(* A request is a process of some daemon replica.  Replicas share nothing  *)
(* but the storage (etcd) and the contract, so requests of one replica and *)
(* of several are the same to the model.  An action is the stretch of a    *)
(* handler between two calls that another request can observe.             *)
(***************************************************************************)
EXTENDS Naturals, FiniteSets

CONSTANTS
    Channels,    \* payment channel ids
    Calls,       \* paid calls that may be in flight at the same time
    Tokens,      \* token requests that may be in flight at the same time
    Claimers,    \* provider requests that may be in flight at the same time
    Prices,      \* prices of calls, as the income validators compute them
    Amounts,     \* amounts a client may sign
    Deposits,    \* amounts a sender may put into a channel
    Expirations, \* expiration blocks a sender may choose
    Threshold,   \* payment expiration threshold of the organization metadata
    Faults,      \* the faults of this instance, see FaultKinds
    MaxNonce,    \* bound: no claim starts on a channel at this nonce, and no
                 \* client signs a later one
    MaxValue,    \* bound on the value of a channel
    MaxBlock,    \* bound on the block number
    NoSignature  \* the nil signature

(* Failing storage calls, failing Ethereum calls, replicas that die, and   *)
(* operators who unlock a channel while a request holds its lock.          *)
FaultKinds == {"storage", "chain", "crash", "unlock"}

(* The requests that run a payment transaction.                            *)
Payers == Calls \cup Tokens

Signatures == [nonce : Nat, amount : Nat]

ASSUME ConstantsAssumption ==
    /\ Channels # {}
    /\ Calls \cap Tokens = {} /\ Payers \cap Claimers = {}
    /\ Prices \subseteq Nat
    /\ Amounts \subseteq Nat
    /\ Deposits \subseteq Nat
    /\ Expirations \subseteq Nat
    /\ Threshold \in Nat
    /\ Faults \subseteq FaultKinds
    /\ MaxNonce \in Nat /\ MaxValue \in Nat /\ MaxBlock \in Nat
    /\ NoSignature \notin Signatures

VARIABLES
    chain,    \* the contract's channels
    block,    \* the current block number
    store,    \* PaymentChannelStorage: the replicas' view of each channel
    payments, \* PaymentStorage: the payments being claimed
    lock,     \* lock storage: TRUE iff the channel's key holds "locked"
    tx,       \* payment requests: calls and token requests
    cl        \* provider requests

vars == <<chain, block, store, payments, lock, tx, cl>>

-----------------------------------------------------------------------------
(***************************************************************************)
(* Data.                                                                   *)
(***************************************************************************)

(* PaymentChannelData.  Sender, recipient, signer and group never change.  *)
(* State is always Open: no caller uses the CloseChannel update.           *)
ChannelData == [nonce : Nat, full : Nat, auth : Nat,
                sig : Signatures \cup {NoSignature}, exp : Nat]

NoData == [nonce |-> 0, full |-> 0, auth |-> 0, sig |-> NoSignature, exp |-> 0]

(* A payment waiting to be claimed, stored under its ID channel/nonce.     *)
(* full is a history field no code reads: the FullAmount of the channel    *)
(* when the claim was started.                                             *)
PaymentRecords == [ch : Channels, nonce : Nat, amount : Nat,
                   sig : Signatures \cup {NoSignature}, full : Nat]

(* Who a channel of the contract pays: this group of replicas, another     *)
(* group of the same recipient, or another recipient.                      *)
Payees == {"ours", "otherGroup", "otherRecipient"}

ChainChannels == [open : BOOLEAN, payee : Payees, nonce : Nat, value : Nat,
                  exp : Nat]

NotOpened == [open |-> FALSE, payee |-> "ours", nonce |-> 0, value |-> 0,
              exp |-> 0]

PayerSteps == {"idle", "token", "locked", "read", "started", "serving",
               "commit", "unlock"}

ClaimerSteps == {"idle", "list", "sweep", "check", "lock", "locked",
                 "putPayment", "unlock"}

AnyChannel == CHOOSE ch \in Channels : TRUE

(* price is a history field no code reads: the price a call was checked    *)
(* against.                                                                *)
IdleTx == [pc |-> "idle", ch |-> AnyChannel, nonce |-> 0, amount |-> 0,
           signed |-> FALSE, price |-> 0, chan |-> NoData]

IdleCl == [pc |-> "idle", ch |-> AnyChannel, rest |-> {}, todo |-> {},
           ok |-> FALSE, chan |-> NoData]

TypeOK ==
    /\ chain \in [Channels -> ChainChannels]
    /\ block \in Nat
    /\ store \in [Channels -> [stored : BOOLEAN, data : ChannelData]]
    /\ payments \subseteq PaymentRecords
    /\ lock \in [Channels -> BOOLEAN]
    /\ tx \in [Payers -> [pc : PayerSteps, ch : Channels, nonce : Nat,
                          amount : Nat, signed : BOOLEAN, price : Nat,
                          chan : ChannelData]]
    /\ cl \in [Claimers -> [pc : ClaimerSteps, ch : Channels,
                            rest : SUBSET Channels,
                            todo : SUBSET PaymentRecords,
                            ok : BOOLEAN, chan : ChannelData]]

-----------------------------------------------------------------------------
(***************************************************************************)
(* Reading a channel.  up is FALSE when the call to the Ethereum node      *)
(* fails, which only a "chain" fault makes possible.                       *)
(***************************************************************************)

ChainReads == IF "chain" \in Faults THEN BOOLEAN ELSE {TRUE}

(* GetChannelStateFromBlockchain: what it returns when it succeeds.        *)
GetChannelStateFromBlockchain(ch) ==
    [nonce |-> chain[ch].nonce, full |-> chain[ch].value, auth |-> 0,
     sig |-> NoSignature, exp |-> chain[ch].exp]

BlockchainOk(ch, up) == up /\ chain[ch].open /\ chain[ch].payee # "otherRecipient"

\* Mutant.
MergeTakesChainFunds(s, b) ==
    IF s.nonce < b.nonce THEN b ELSE [s EXCEPT !.full = b.full, !.exp = b.exp]

MergeStorageAndBlockchainChannelState(s, b) ==
    IF s.nonce > b.nonce THEN s
    ELSE IF s.nonce < b.nonce THEN b
    ELSE [nonce |-> s.nonce, full |-> b.full, auth |-> s.auth, sig |-> s.sig,
          exp |-> b.exp]

(* PaymentChannel: found, its error result and the channel it returns.     *)
PaymentChannelOk(ch, up) ==
    \/ store[ch].stored
    \/ BlockchainOk(ch, up) /\ chain[ch].payee = "ours"

PaymentChannelErr(ch, up) ==
    /\ ~store[ch].stored
    /\ ~up \/ (chain[ch].open /\ chain[ch].payee # "ours")

PaymentChannel(ch, up) ==
    IF ~store[ch].stored THEN GetChannelStateFromBlockchain(ch)
    ELSE IF ~BlockchainOk(ch, up) THEN store[ch].data
    ELSE MergeStorageAndBlockchainChannelState(store[ch].data,
                                               GetChannelStateFromBlockchain(ch))

\* Mutant.
LastPayments(ch) ==
    {pay \in payments : pay.ch = ch /\ pay.nonce + 1 = PaymentChannel(ch, TRUE).nonce}

(* PaymentChannelStateService.GetChannelState tells the client the signed  *)
(* amount of the nonce before the current one, when the contract is        *)
(* behind; without such a payment it is an error.                          *)
OldPayments(ch) ==
    LET chan == PaymentChannel(ch, TRUE)
    IN  IF chan.nonce = chain[ch].nonce THEN {}
        ELSE {pay \in payments : pay.ch = ch /\ pay.nonce + 1 = chan.nonce}

ChannelStateOk(ch) ==
    /\ PaymentChannelOk(ch, TRUE) /\ BlockchainOk(ch, TRUE)
    /\ OldPayments(ch) = {} => PaymentChannel(ch, TRUE).nonce = chain[ch].nonce

-----------------------------------------------------------------------------
(***************************************************************************)
(* The lock.  etcdLocker keeps "locked" or "unlocked" under the channel's  *)
(* key, without owner or lease; an absent key counts as unlocked.  Lock is *)
(* atomic here: module EtcdLocker shows its Get and compare-and-swap to    *)
(* implement this.  A request that does not get the lock returns an error  *)
(* at once.                                                                *)
(***************************************************************************)

InCriticalTx(p) ==
    tx[p].pc \in {"locked", "read", "started", "serving", "commit", "unlock"}

InCriticalCl(c) == cl[c].pc \in {"locked", "putPayment", "unlock"}

Held(ch) == \/ \E p \in Payers : InCriticalTx(p) /\ tx[p].ch = ch
            \/ \E c \in Claimers : InCriticalCl(c) /\ cl[c].ch = ch

\* Mutant.
LockIgnoringOthers(ch) == lock' = [lock EXCEPT ![ch] = TRUE]

Lock(ch) == ~lock[ch] /\ lock' = [lock EXCEPT ![ch] = TRUE]

\* Mutant.
NeverUnlocks(ch) == lock' = [lock EXCEPT ![ch] = TRUE]

(* The compare-and-swap of Unlock; when it fails the error is logged and   *)
(* the key keeps "locked".                                                 *)
Unlock(ch) ==
    \/ lock' = [lock EXCEPT ![ch] = FALSE]
    \/ "storage" \in Faults /\ UNCHANGED lock

(* The swap of Lock is applied but its answer is lost: the caller gets an  *)
(* error, and nobody holds the lock that is now set.                       *)
LockTimesOut(ch) ==
    /\ "storage" \in Faults
    /\ Lock(ch)
    /\ UNCHANGED <<chain, block, store, payments, tx, cl>>

(* snetd channel --unlock deletes the lock's key.  The command cannot see  *)
(* who holds the lock; without the "unlock" fault the operator runs it     *)
(* only when the holder is gone, which is what the daemon's log asks for.  *)
UnlockChannel(ch) ==
    /\ lock[ch]
    /\ ~Held(ch) \/ "unlock" \in Faults
    /\ lock' = [lock EXCEPT ![ch] = FALSE]
    /\ UNCHANGED <<chain, block, store, payments, tx, cl>>

-----------------------------------------------------------------------------
(***************************************************************************)
(* A payment request.                                                      *)
(***************************************************************************)

NewTx(pc, ch, n, a, signed) ==
    [pc |-> pc, ch |-> ch, nonce |-> n, amount |-> a, signed |-> signed,
     price |-> 0, chan |-> NoData]

(* A paid call: StartPaymentTransaction takes the lock of the channel.     *)
StartPaymentTransaction(p, ch, n, a, signed) ==
    /\ tx[p].pc = "idle"
    /\ Lock(ch)
    /\ tx' = [tx EXCEPT ![p] = NewTx("locked", ch, n, a, signed)]
    /\ UNCHANGED <<chain, block, store, payments, cl>>

(* ChannelPaymentValidator.Validate.  signed: the signature recovers to    *)
(* the signer or the sender of the channel, so it signs nonce and amount.  *)
Validate(t, chan) ==
    /\ t.nonce = chan.nonce
    /\ t.signed
    /\ block + Threshold < chan.exp
    /\ t.amount <= chan.full

(* GetToken reads the channel without its lock; for an amount larger than  *)
(* the authorized one it goes on to a payment transaction.  A request for  *)
(* the authorized amount itself changes nothing.                           *)
GetToken(p, ch, n, a, signed) ==
    LET t == NewTx("token", ch, n, a, signed)
    IN  /\ tx[p].pc = "idle"
        /\ \E up \in ChainReads :
             /\ PaymentChannelOk(ch, up)
             /\ a > PaymentChannel(ch, up).auth
             /\ Validate(t, PaymentChannel(ch, up))
        /\ tx' = [tx EXCEPT ![p] = t]
        /\ UNCHANGED <<chain, block, store, payments, lock, cl>>

(* ... whose StartPaymentTransaction takes the lock, or fails.             *)
StartTokenTransaction(p) ==
    /\ tx[p].pc = "token"
    /\ \/ /\ Lock(tx[p].ch)
          /\ tx' = [tx EXCEPT ![p] = [@ EXCEPT !.pc = "locked"]]
       \/ /\ tx' = [tx EXCEPT ![p] = IdleTx]
          /\ UNCHANGED lock
    /\ UNCHANGED <<chain, block, store, payments, cl>>

(* What is left of a request that only has to release its lock.            *)
Finishing(p) == [IdleTx EXCEPT !.pc = "unlock", !.ch = tx[p].ch]

(* ... reads the channel; not found, a storage error or an error of the    *)
(* reader end the transaction.                                             *)
ReadChannel(p) ==
    /\ tx[p].pc = "locked"
    /\ \E up \in ChainReads :
         \/ /\ PaymentChannelOk(tx[p].ch, up)
            /\ tx' = [tx EXCEPT ![p] = [@ EXCEPT !.pc = "read",
                                !.chan = PaymentChannel(tx[p].ch, up)]]
         \/ /\ "storage" \in Faults \/ ~PaymentChannelOk(tx[p].ch, up)
            /\ tx' = [tx EXCEPT ![p] = Finishing(p)]
    /\ UNCHANGED <<chain, block, store, payments, lock, cl>>

(* ... and validates the payment against it.  A call's transaction is      *)
(* handed to its payment handler; GetToken commits its own at once.        *)
ValidatePayment(p) ==
    /\ tx[p].pc = "read"
    /\ \/ /\ Validate(tx[p], tx[p].chan)
          /\ tx' = [tx EXCEPT ![p] = [@ EXCEPT !.pc =
                       IF p \in Tokens THEN "commit" ELSE "started"]]
       \/ /\ ~Validate(tx[p], tx[p].chan) \/ "chain" \in Faults
          /\ tx' = [tx EXCEPT ![p] = Finishing(p)]
    /\ UNCHANGED <<chain, block, store, payments, lock, cl>>

\* Mutant.
ValidateIncomeAtLeastPrice(t, price) == t.amount >= t.chan.auth + price

(* The income is the difference to the snapshot the transaction holds; the *)
(* price is that of the method, or the one the called model asks for.      *)
ValidateIncome(t, price) == t.amount = t.chan.auth + price

(* The payment handlers of the service and of the training methods check   *)
(* the income, and roll the transaction back when it is not the price, or  *)
(* when the price is not to be had.                                        *)
CheckIncome(p) ==
    /\ tx[p].pc = "started"
    /\ \E price \in Prices :
         \/ /\ ValidateIncome(tx[p], price)
            /\ tx' = [tx EXCEPT ![p] = [@ EXCEPT !.pc = "serving", !.price = price]]
         \/ /\ ~ValidateIncome(tx[p], price) \/ "storage" \in Faults
            /\ tx' = [tx EXCEPT ![p] = Finishing(p)]
    /\ UNCHANGED <<chain, block, store, payments, lock, cl>>

(* The interceptor calls the service with the lock held: Complete after a  *)
(* result, CompleteAfterError after an error or a panic.                   *)
CallService(p) ==
    /\ tx[p].pc = "serving"
    /\ \/ tx' = [tx EXCEPT ![p] = [@ EXCEPT !.pc = "commit"]]
       \/ tx' = [tx EXCEPT ![p] = Finishing(p)]
    /\ UNCHANGED <<chain, block, store, payments, lock, cl>>

\* Mutant.
PaidChannelKeepsSignature(t) == [t.chan EXCEPT !.auth = t.amount]

(* The channel Commit writes: the snapshot with the payment's amount and   *)
(* signature.                                                              *)
PaidChannel(t) ==
    [nonce |-> t.chan.nonce, full |-> t.chan.full, auth |-> t.amount,
     sig |-> [nonce |-> t.nonce, amount |-> t.amount], exp |-> t.chan.exp]

(* Commit; a failing Put leaves the old channel, and the lock is released  *)
(* all the same.                                                           *)
Commit(p) ==
    /\ tx[p].pc = "commit"
    /\ \/ store' = [store EXCEPT ![tx[p].ch] =
                       [stored |-> TRUE, data |-> PaidChannel(tx[p])]]
       \/ "storage" \in Faults /\ UNCHANGED store
    /\ tx' = [tx EXCEPT ![p] = Finishing(p)]
    /\ UNCHANGED <<chain, block, payments, lock, cl>>

(* Rollback, and the deferred Unlock of every way out.                     *)
Rollback(p) ==
    /\ tx[p].pc = "unlock"
    /\ Unlock(tx[p].ch)
    /\ tx' = [tx EXCEPT ![p] = IdleTx]
    /\ UNCHANGED <<chain, block, store, payments, cl>>

PaymentStep(p) ==
    \/ StartTokenTransaction(p)
    \/ ReadChannel(p) \/ ValidatePayment(p) \/ CheckIncome(p) \/ CallService(p)
    \/ Commit(p) \/ Rollback(p)

-----------------------------------------------------------------------------
(***************************************************************************)
(* Provider requests.                                                      *)
(***************************************************************************)

(* StartClaim: the signature is checked against the channel as PaymentCh-  *)
(* annel returns it; a channel that is not found is not checked at all.    *)
StartClaim(c, ch) ==
    /\ cl[c].pc = "idle"
    /\ store[ch].data.nonce < MaxNonce
    /\ \E up \in ChainReads : ~PaymentChannelErr(ch, up)
    /\ cl' = [cl EXCEPT ![c] = [@ EXCEPT !.pc = "list", !.rest = {ch}]]
    /\ UNCHANGED <<chain, block, store, payments, lock, tx>>

StartClaimForMultipleChannels(c, chs) ==
    /\ cl[c].pc = "idle"
    /\ chs # {}
    /\ \A ch \in chs : store[ch].data.nonce < MaxNonce
    /\ cl' = [cl EXCEPT ![c] = [@ EXCEPT !.pc = "list", !.rest = chs]]
    /\ UNCHANGED <<chain, block, store, payments, lock, tx>>

(* GetListInProgress ends after removeClaimedPayments: listing changes     *)
(* nothing.                                                                *)
GetListInProgress(c) ==
    /\ cl[c].pc = "idle"
    /\ cl' = [cl EXCEPT ![c] = [@ EXCEPT !.pc = "list", !.rest = {}]]
    /\ UNCHANGED <<chain, block, store, payments, lock, tx>>

(* removeClaimedPayments reads all payments, ...                           *)
ListClaims(c) ==
    /\ cl[c].pc = "list"
    /\ \/ cl' = [cl EXCEPT ![c] = [@ EXCEPT !.pc = "sweep", !.todo = payments]]
       \/ "storage" \in Faults /\ cl' = [cl EXCEPT ![c] = IdleCl]
    /\ UNCHANGED <<chain, block, store, payments, lock, tx>>

\* Mutant.
ClaimedOffByOne(pay) == chain[pay.ch].nonce >= pay.nonce

Claimed(pay) == chain[pay.ch].nonce > pay.nonce

(* ... and finishes, one after the other, the claims the contract has      *)
(* settled; an error ends the request.                                     *)
RemoveClaimedPayment(c, pay) ==
    LET others == {q \in payments : <<q.ch, q.nonce>> # <<pay.ch, pay.nonce>>}
        left == IF Claimed(pay) THEN others ELSE payments
    IN  /\ cl[c].pc = "sweep"
        /\ pay \in cl[c].todo
        /\ \/ /\ cl' = [cl EXCEPT ![c] = [@ EXCEPT !.todo = cl[c].todo \ {pay}]]
              /\ payments' = left
           \/ /\ "chain" \in Faults \/ "storage" \in Faults
              /\ cl' = [cl EXCEPT ![c] = IdleCl]
              /\ UNCHANGED payments
           \/ /\ "storage" \in Faults                        \* Delete applied, answer lost
              /\ cl' = [cl EXCEPT ![c] = IdleCl]
              /\ payments' = left
        /\ UNCHANGED <<chain, block, store, lock, tx>>

(* All payments are looked at: the next channel of the request, or its end.*)
NextChannel(c) ==
    /\ cl[c].pc = "sweep"
    /\ cl[c].todo = {}
    /\ \/ /\ cl[c].rest = {}
          /\ cl' = [cl EXCEPT ![c] = IdleCl]
       \/ \E ch \in cl[c].rest :
            cl' = [cl EXCEPT ![c] = [IdleCl EXCEPT !.pc = "check", !.ch = ch,
                                                   !.rest = cl[c].rest \ {ch}]]
    /\ UNCHANGED <<chain, block, store, payments, lock, tx>>

(* beginClaimOnChannel looks for an authorized amount, without the lock.   *)
CheckAuthorizedAmount(c) ==
    /\ cl[c].pc = "check"
    /\ \E up \in ChainReads :
         \/ /\ PaymentChannelOk(cl[c].ch, up)
            /\ PaymentChannel(cl[c].ch, up).auth # 0
            /\ cl' = [cl EXCEPT ![c] = [@ EXCEPT !.pc = "lock"]]
         \/ /\ \/ ~PaymentChannelOk(cl[c].ch, up)
               \/ PaymentChannel(cl[c].ch, up).auth = 0
               \/ "storage" \in Faults
            /\ cl' = [cl EXCEPT ![c] = IdleCl]
    /\ UNCHANGED <<chain, block, store, payments, lock, tx>>

(* The service's StartClaim takes the lock, or fails when another request  *)
(* has it (or had it when this one tried).                                 *)
LockForClaim(c) ==
    /\ cl[c].pc = "lock"
    /\ \/ /\ Lock(cl[c].ch)
          /\ cl' = [cl EXCEPT ![c] = [@ EXCEPT !.pc = "locked"]]
       \/ /\ cl' = [cl EXCEPT ![c] = IdleCl]
          /\ UNCHANGED lock
    /\ UNCHANGED <<chain, block, store, payments, tx>>

\* Mutant.
IncrementKeepsFullAmount(d) ==
    [d EXCEPT !.nonce = d.nonce + 1, !.auth = 0, !.sig = NoSignature]

\* Mutant.
IncrementKeepsAuthorizedAmount(d) ==
    [d EXCEPT !.nonce = d.nonce + 1, !.full = d.full - d.auth]

(* The update applied to the channel when a claim starts.                  *)
IncrementChannelNonce(d) ==
    [nonce |-> d.nonce + 1, full |-> d.full - d.auth, auth |-> 0,
     sig |-> NoSignature, exp |-> d.exp]

(* ... reads the channel from the storage alone and writes the updated     *)
(* one; chan keeps the channel as it was.                                  *)
PutNextChannel(c) ==
    LET ch == cl[c].ch
        old == store[ch].data
        put == [store EXCEPT ![ch] = [@ EXCEPT !.data = IncrementChannelNonce(old)]]
        fail == [cl EXCEPT ![c] = [@ EXCEPT !.pc = "unlock", !.ok = FALSE]]
    IN  /\ cl[c].pc = "locked"
        /\ \/ /\ store[ch].stored
              /\ store' = put
              /\ cl' = [cl EXCEPT ![c] = [@ EXCEPT !.pc = "putPayment", !.chan = old]]
           \/ /\ ~store[ch].stored \/ "storage" \in Faults
              /\ cl' = fail
              /\ UNCHANGED store
           \/ /\ store[ch].stored /\ "storage" \in Faults  \* Put applied, answer lost
              /\ store' = put
              /\ cl' = fail
        /\ UNCHANGED <<chain, block, payments, lock, tx>>

(* getPaymentFromChannel                                                   *)
PaymentFromChannel(ch, d) ==
    [ch |-> ch, nonce |-> d.nonce, amount |-> d.auth, sig |-> d.sig,
     full |-> d.full]

(* ... and stores the payment of the old channel.                          *)
PutPayment(c) ==
    LET pay == PaymentFromChannel(cl[c].ch, cl[c].chan)
        others == {q \in payments : <<q.ch, q.nonce>> # <<pay.ch, pay.nonce>>}
    IN  /\ cl[c].pc = "putPayment"
        /\ \/ /\ payments' = others \cup {pay}
              /\ cl' = [cl EXCEPT ![c] = [@ EXCEPT !.pc = "unlock", !.ok = TRUE, !.chan = NoData]]
           \/ /\ "storage" \in Faults
              /\ payments' \in {payments, others \cup {pay}}
              /\ cl' = [cl EXCEPT ![c] = [@ EXCEPT !.pc = "unlock", !.ok = FALSE, !.chan = NoData]]
        /\ UNCHANGED <<chain, block, store, lock, tx>>

(* The deferred Unlock; after a failure the remaining channels are left.   *)
UnlockClaim(c) ==
    /\ cl[c].pc = "unlock"
    /\ Unlock(cl[c].ch)
    /\ cl' = [cl EXCEPT ![c] =
                 IF cl[c].ok THEN [IdleCl EXCEPT !.pc = "sweep", !.rest = cl[c].rest]
                             ELSE IdleCl]
    /\ UNCHANGED <<chain, block, store, payments, tx>>

ClaimStep(c) ==
    \/ ListClaims(c) \/ NextChannel(c)
    \/ \E pay \in cl[c].todo : RemoveClaimedPayment(c, pay)
    \/ CheckAuthorizedAmount(c) \/ LockForClaim(c)
    \/ PutNextChannel(c) \/ PutPayment(c) \/ UnlockClaim(c)

-----------------------------------------------------------------------------
(***************************************************************************)
(* A replica dies in the middle of a request.  The lock stays set.         *)
(***************************************************************************)

CrashPayment(p) ==
    /\ "crash" \in Faults
    /\ tx[p].pc # "idle"
    /\ tx' = [tx EXCEPT ![p] = IdleTx]
    /\ UNCHANGED <<chain, block, store, payments, lock, cl>>

CrashClaim(c) ==
    /\ "crash" \in Faults
    /\ cl[c].pc # "idle"
    /\ cl' = [cl EXCEPT ![c] = IdleCl]
    /\ UNCHANGED <<chain, block, store, payments, lock, tx>>

-----------------------------------------------------------------------------
(***************************************************************************)
(* The MultiPartyEscrow contract, as the daemon relies on it.              *)
(***************************************************************************)

SetChannel(k, n, v, e) ==
    [open |-> k.open, payee |-> k.payee, nonce |-> n, value |-> v, exp |-> e]

OpenChannel(ch, payee, v, e) ==
    /\ ~chain[ch].open
    /\ v <= MaxValue
    /\ chain' = [chain EXCEPT ![ch] = [open |-> TRUE, payee |-> payee, nonce |-> 0,
                                       value |-> v, exp |-> e]]
    /\ UNCHANGED <<block, store, payments, lock, tx, cl>>

ChannelAddFunds(ch, v) ==
    /\ chain[ch].open
    /\ chain[ch].value + v <= MaxValue
    /\ chain' = [chain EXCEPT ![ch] = SetChannel(chain[ch], chain[ch].nonce,
                             chain[ch].value + v, chain[ch].exp)]
    /\ UNCHANGED <<block, store, payments, lock, tx, cl>>

ChannelExtend(ch, e) ==
    /\ chain[ch].open
    /\ e > chain[ch].exp
    /\ chain' = [chain EXCEPT ![ch] = SetChannel(chain[ch], chain[ch].nonce,
                             chain[ch].value, e)]
    /\ UNCHANGED <<block, store, payments, lock, tx, cl>>

(* The provider claims a payment of the payment storage: its signature     *)
(* must be one of the channel's current nonce and the payment's amount.    *)
ChannelClaim(pay) ==
    LET ch == pay.ch
    IN  /\ pay.sig = [nonce |-> chain[ch].nonce, amount |-> pay.amount]
        /\ pay.amount <= chain[ch].value
        /\ chain' = [chain EXCEPT ![ch] = SetChannel(chain[ch], chain[ch].nonce + 1,
                                 chain[ch].value - pay.amount, chain[ch].exp)]
        /\ UNCHANGED <<block, store, payments, lock, tx, cl>>

(* The sender takes the value back once the channel has expired.           *)
ChannelClaimTimeout(ch) ==
    /\ chain[ch].open
    /\ block >= chain[ch].exp
    /\ chain[ch].nonce < MaxNonce
    /\ chain' = [chain EXCEPT ![ch] = SetChannel(chain[ch], chain[ch].nonce + 1, 0, 0)]
    /\ UNCHANGED <<block, store, payments, lock, tx, cl>>

NewBlock ==
    /\ block < MaxBlock
    /\ block' = block + 1
    /\ UNCHANGED <<chain, store, payments, lock, tx, cl>>

-----------------------------------------------------------------------------

Init ==
    /\ chain = [ch \in Channels |-> NotOpened]
    /\ block = 0
    /\ store = [ch \in Channels |-> [stored |-> FALSE, data |-> NoData]]
    /\ payments = {}
    /\ lock = [ch \in Channels |-> FALSE]
    /\ tx = [p \in Payers |-> IdleTx]
    /\ cl = [c \in Claimers |-> IdleCl]

Contract ==
    \/ \E ch \in Channels :
         \/ \E payee \in Payees, v \in Deposits, e \in Expirations :
              OpenChannel(ch, payee, v, e)
         \/ \E v \in Deposits : ChannelAddFunds(ch, v)
         \/ \E e \in Expirations : ChannelExtend(ch, e)
         \/ ChannelClaimTimeout(ch)
    \/ \E pay \in payments : ChannelClaim(pay)
    \/ NewBlock

Payment(p) ==
    \/ \E ch \in Channels, n \in 0..MaxNonce, a \in Amounts, signed \in BOOLEAN :
         \/ p \in Calls /\ StartPaymentTransaction(p, ch, n, a, signed)
         \/ p \in Tokens /\ GetToken(p, ch, n, a, signed)
    \/ PaymentStep(p)
    \/ CrashPayment(p)

Claim(c) ==
    \/ \E ch \in Channels : StartClaim(c, ch)
    \/ \E chs \in SUBSET Channels : StartClaimForMultipleChannels(c, chs)
    \/ GetListInProgress(c)
    \/ ClaimStep(c)
    \/ CrashClaim(c)

Next ==
    \/ \E p \in Payers : Payment(p)
    \/ \E c \in Claimers : Claim(c)
    \/ \E ch \in Channels : LockTimesOut(ch) \/ UnlockChannel(ch)
    \/ Contract

Spec == Init /\ [][Next]_vars

(* The scheduler runs every goroutine, and etcd and the Ethereum node      *)
(* answer.  A call ends: the daemon gives a deadline to what it asks of a  *)
(* proxied service; that the provider of a training method answers, and    *)
(* that clients read their answers, is assumed (see module Daemon).        *)
Fairness ==
    /\ \A p \in Payers : WF_vars(PaymentStep(p))
    /\ \A c \in Claimers : WF_vars(ClaimStep(c))

FairSpec == Spec /\ Fairness

-----------------------------------------------------------------------------
(***************************************************************************)
(* Properties.                                                             *)
(***************************************************************************)

(* At most one request is between Lock and Unlock of a channel, whatever   *)
(* crashes, lost answers and manual unlocks came before: the locker of     *)
(* lock.go has no owner, so this rests on who calls Unlock and when.       *)
MutualExclusion ==
    /\ \A p, q \in Payers :
         (InCriticalTx(p) /\ InCriticalTx(q) /\ tx[p].ch = tx[q].ch) => p = q
    /\ \A c, d \in Claimers :
         (InCriticalCl(c) /\ InCriticalCl(d) /\ cl[c].ch = cl[d].ch) => c = d
    /\ \A p \in Payers, c \in Claimers :
         (InCriticalTx(p) /\ InCriticalCl(c)) => tx[p].ch # cl[c].ch

(* The requests between Lock and Unlock of a channel.                      *)
LockOwners(ch) == {p \in Payers : InCriticalTx(p) /\ tx[p].ch = ch}
                  \cup {c \in Claimers : InCriticalCl(c) /\ cl[c].ch = ch}

ChannelLock(ch) == INSTANCE LockService
    WITH Requests <- Payers \cup Claimers, held <- lock[ch], owners <- LockOwners(ch)

(* The payment channel service uses the lock of every channel as module    *)
(* LockService allows, which is what EtcdLocker implements: it takes the   *)
(* lock only when it is free, and only its owner, or nobody's end, clears  *)
(* it.                                                                     *)
UsesLockService ==
    /\ \A ch \in Channels : ChannelLock(ch)!LockServiceInit
    /\ [][\A ch \in Channels : \/ ChannelLock(ch)!LockServiceNext
                               \/ UNCHANGED <<lock[ch], LockOwners(ch)>>]_vars

Live(d) == block < d.exp

(* No overexpenditure: until the expiration the daemon has stored for a    *)
(* channel is reached, the claim that is next on chain is covered by the   *)
(* channel's value, however many nonces the daemon's view is ahead of the  *)
(* contract (IncrementChannelNonce, Merge, Validate and Commit together).  *)
NextClaimCovered ==
    \A pay \in payments :
        (pay.nonce = chain[pay.ch].nonce /\ Live(store[pay.ch].data))
            => pay.amount <= chain[pay.ch].value

(* Accounting: a call is paid by exactly its own price, whatever calls,    *)
(* token requests, claims and contract changes came between its reading    *)
(* the channel and its Commit: the amount stored then grows by the price,  *)
(* or begins with it at a later nonce.  Besides, a stored channel changes  *)
(* only by a claim, to the next nonce and nothing authorized, or by a      *)
(* token request, whose amount the funds cover.  The nonce never goes back.*)
IncomeStep ==
    [][\A ch \in Channels : store'[ch] # store[ch] =>
          LET d == store[ch].data
              e == store'[ch].data
              before == IF store[ch].stored /\ e.nonce = d.nonce THEN d.auth ELSE 0
          IN  \/ store[ch].stored /\ e.nonce = d.nonce + 1 /\ e.auth = 0
              \/ /\ store[ch].stored => e.nonce >= d.nonce
                 /\ \E p \in Payers :
                      /\ tx[p].pc = "commit" /\ tx[p].ch = ch
                      /\ p \in Calls => e.auth = before + tx[p].price
                      /\ p \in Tokens => e.auth <= e.full]_vars

(* Every payment waiting to be claimed carries a signature of its own      *)
(* nonce and amount, so that the contract accepts the claim.               *)
ClaimIsSigned ==
    \A pay \in payments : pay.sig = [nonce |-> pay.nonce, amount |-> pay.amount]

(* No claim is lost: each nonce the daemon has left and the contract has   *)
(* not yet settled has its payment in the payment storage, or a request    *)
(* about to put it there.                                                  *)
NoClaimLost ==
    \A ch \in Channels : store[ch].stored =>
        \A n \in chain[ch].nonce .. MaxNonce + 1 : n < store[ch].data.nonce =>
            \/ \E pay \in payments : pay.ch = ch /\ pay.nonce = n
            \/ \E c \in Claimers : /\ cl[c].pc = "putPayment"
                                   /\ cl[c].ch = ch /\ cl[c].chan.nonce = n

(* The sum of the amounts of payments, counted unit by unit.               *)
Units(pays) == UNION {{pay} \X (1..pay.amount) : pay \in pays}

Total(pays) == Cardinality(Units(pays))

(* What the daemon owes its client on chain: the payments still to settle. *)
Due(ch) == {pay \in payments : pay.ch = ch /\ pay.nonce >= chain[ch].nonce}

Outstanding(ch) == Total(Due(ch))

(* Every payment the daemon accepts, of a call or of a token request, is   *)
(* backed by the contract at that moment, also in a channel that expired,  *)
(* was emptied by its sender and filled again: the accepted amount and all *)
(* claims not yet settled fit into the channel's value.                    *)
ServedIsCovered ==
    [][\A p \in Payers :
          (tx[p].pc = "read" /\ tx'[p].pc \in {"started", "commit"}) =>
              LET ch == tx[p].ch
              IN  /\ tx[p].nonce >= chain[ch].nonce
                  /\ Outstanding(ch) + tx[p].amount <= chain[ch].value]_vars

(* A client learns its unspent amount from GetChannelState: what is still  *)
(* to be settled is the old nonce's signed amount of the reply, as long as *)
(* the daemon is at most one claim ahead of the contract.  With a second   *)
(* claim under way, which nothing prevents, the reply leaves one out.      *)
UnspentAmountIsExact ==
    \A ch \in Channels :
        ChannelStateOk(ch) /\ PaymentChannel(ch, TRUE).nonce <= chain[ch].nonce + 1 =>
            Outstanding(ch) = Total(OldPayments(ch))

(* Every lock is released again (without faults): the service call and all *)
(* error paths of StartPaymentTransaction and StartClaim end in Unlock.    *)
LockReleased == \A ch \in Channels : lock[ch] ~> ~lock[ch]
=============================================================================
