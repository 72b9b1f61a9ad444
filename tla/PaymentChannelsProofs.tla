----------------------- MODULE PaymentChannelsProofs -----------------------
(***************************************************************************)
(* Mutual exclusion, the use of the lock service, the accounting of stored *)
(* channels, the absence of overexpenditure, what becomes of claims, and   *)
(* the cover of calls, for any number of channels and requests and any     *)
(* prices and amounts.                                                     *)
(***************************************************************************)
EXTENDS PaymentChannels, FiniteSetTheorems, TLAPS

-----------------------------------------------------------------------------
(***************************************************************************)
(* The inductive invariant.                                                *)
(***************************************************************************)

(* Whoever is between Lock and Unlock finds the lock set.                  *)
LockInv ==
    /\ \A p \in Payers : InCriticalTx(p) => lock[tx[p].ch]
    /\ \A c \in Claimers : InCriticalCl(c) => lock[cl[c].ch]
    /\ MutualExclusion

(* A channel signature, if there is one, is of the channel's nonce and     *)
(* authorized amount.                                                      *)
SigOK(d) == d.sig # NoSignature => d.sig = [nonce |-> d.nonce, amount |-> d.auth]

(* d is a view of channel ch the contract will honour: the contract is not *)
(* past its nonce, does not expire before d does, and when it reaches d's  *)
(* nonce it has d's full amount.                                           *)
Backed(ch, d) ==
    Live(d) => /\ chain[ch].nonce <= d.nonce
               /\ d.exp <= chain[ch].exp
               /\ d.nonce = chain[ch].nonce => d.full <= chain[ch].value

(* d is what remains of the channel after payment pay, as long as pay is   *)
(* not settled.                                                            *)
Follows(d, pay) ==
    (d.nonce = pay.nonce + 1 /\ chain[pay.ch].nonce <= pay.nonce)
        => d.full + pay.amount <= pay.full

StoreInv ==
    \A ch \in Channels : store[ch].stored =>
        /\ SigOK(store[ch].data)
        /\ store[ch].data.auth <= store[ch].data.full
        /\ Backed(ch, store[ch].data)

PaymentInv ==
    \A pay \in payments :
        /\ store[pay.ch].stored
        /\ pay.nonce < store[pay.ch].data.nonce
        /\ pay.amount <= pay.full
        /\ pay.sig # NoSignature => pay.sig = [nonce |-> pay.nonce, amount |-> pay.amount]
        /\ (Live(store[pay.ch].data) /\ pay.nonce = chain[pay.ch].nonce)
              => pay.full <= chain[pay.ch].value
        /\ Follows(store[pay.ch].data, pay)
        /\ \A q \in payments : q.ch = pay.ch => Follows(q, pay)

(* The snapshot a transaction works with, against storage and contract.    *)
SnapshotInv(ch, s, k) ==
    /\ s.stored => s.data.nonce <= k.nonce
    /\ (s.stored /\ s.data.nonce = k.nonce) => k.auth = s.data.auth
    /\ (s.stored => s.data.nonce < k.nonce) => k.auth = 0
    /\ k.nonce > chain[ch].nonce => (s.stored /\ k = s.data)
    /\ (s.stored => k.exp # s.data.exp) => k.nonce <= chain[ch].nonce
    /\ Backed(ch, k)

(* The steps of a transaction that has read its channel, and of one whose  *)
(* payment was found valid.                                                *)
Reading == {"read", "started", "serving", "commit"}

Accepted == {"started", "serving", "commit"}

TxInv ==
    \A p \in Payers :
        /\ tx[p].pc \in Reading =>
              SnapshotInv(tx[p].ch, store[tx[p].ch], tx[p].chan)
        /\ tx[p].pc \in Accepted =>
              /\ tx[p].nonce = tx[p].chan.nonce
              /\ tx[p].amount <= tx[p].chan.full
        /\ (p \in Calls /\ tx[p].pc \in {"serving", "commit"}) =>
              tx[p].amount = tx[p].chan.auth + tx[p].price

(* A claim between its two writes: the payment it will store, next to the  *)
(* stored channel and the payments before it.                              *)
ClInv ==
    \A c \in Claimers : cl[c].pc = "putPayment" =>
        LET ch == cl[c].ch
            old == cl[c].chan
            s == store[ch]
        IN  /\ s.stored
            /\ s.data.nonce = old.nonce + 1
            /\ s.data.exp = old.exp
            /\ s.data.full + old.auth <= old.full
            /\ SigOK(old)
            /\ (Live(old) /\ old.nonce = chain[ch].nonce) => old.full <= chain[ch].value
            /\ \A pay \in payments : pay.ch = ch =>
                  pay.nonce < old.nonce /\ Follows(old, pay)

(* Nothing is known of a channel before it is opened.                      *)
OpenInv ==
    \A ch \in Channels : ~chain[ch].open =>
        /\ ~store[ch].stored
        /\ \A p \in Payers : tx[p].pc \in Reading => tx[p].ch # ch

IndInv ==
    /\ TypeOK
    /\ LockInv
    /\ OpenInv
    /\ StoreInv
    /\ PaymentInv
    /\ TxInv
    /\ ClInv

-----------------------------------------------------------------------------

LEMMA AnyChannelType == AnyChannel \in Channels
  BY ConstantsAssumption DEF AnyChannel

LEMMA IdleTypes ==
    /\ NoData \in ChannelData
    /\ IdleTx \in [pc : PayerSteps, ch : Channels, nonce : Nat, amount : Nat,
                   signed : BOOLEAN, price : Nat, chan : ChannelData]
    /\ IdleCl \in [pc : ClaimerSteps, ch : Channels, rest : SUBSET Channels,
                   todo : SUBSET PaymentRecords, ok : BOOLEAN, chan : ChannelData]
  <1>1. NoData \in ChannelData
    BY DEF NoData, ChannelData
  <1>2. QED
    BY <1>1, AnyChannelType DEF IdleTx, IdleCl, PayerSteps, ClaimerSteps

LEMMA InitIndInv == Init => IndInv
  <1> SUFFICES ASSUME Init PROVE IndInv
    OBVIOUS
  <1>1. TypeOK
    BY IdleTypes DEF Init, TypeOK, ChainChannels, NotOpened, Payees
  <1>2. LockInv /\ MutualExclusion
    BY DEF Init, LockInv, MutualExclusion, InCriticalTx, InCriticalCl, IdleTx, IdleCl
  <1>3. OpenInv /\ StoreInv /\ PaymentInv /\ TxInv /\ ClInv
    BY DEF Init, OpenInv, StoreInv, PaymentInv, TxInv, ClInv, Reading,
       Accepted, IdleTx, IdleCl
  <1>4. QED
    BY <1>1, <1>2, <1>3 DEF IndInv

-----------------------------------------------------------------------------
(***************************************************************************)
(* Types.                                                                  *)
(***************************************************************************)

TxType == [pc : PayerSteps, ch : Channels, nonce : Nat, amount : Nat,
           signed : BOOLEAN, price : Nat, chan : ChannelData]

ClType == [pc : ClaimerSteps, ch : Channels, rest : SUBSET Channels,
           todo : SUBSET PaymentRecords, ok : BOOLEAN, chan : ChannelData]

LEMMA PaymentChannelType ==
    ASSUME TypeOK, NEW ch \in Channels, NEW up
    PROVE  PaymentChannel(ch, up) \in ChannelData
  <1>1. store[ch].data \in ChannelData /\ chain[ch] \in ChainChannels
    BY DEF TypeOK
  <1>2. GetChannelStateFromBlockchain(ch) \in ChannelData
    BY <1>1 DEF GetChannelStateFromBlockchain, ChannelData, ChainChannels
  <1>3. ASSUME NEW s \in ChannelData, NEW b \in ChannelData
        PROVE  MergeStorageAndBlockchainChannelState(s, b) \in ChannelData
    BY DEF MergeStorageAndBlockchainChannelState, ChannelData
  <1>4. QED
    BY <1>1, <1>2, <1>3 DEF PaymentChannel

LEMMA PaymentType ==
    ASSUME TypeOK, NEW p \in Payers, Payment(p), StoreInv, TxInv
    PROVE  TypeOK'
  <1>0. tx[p] \in TxType /\ tx[p].ch \in Channels
    BY DEF TypeOK, TxType
  <1>1. ASSUME NEW ch \in Channels, NEW n \in 0..MaxNonce, NEW a \in Amounts,
               NEW signed \in BOOLEAN, StartPaymentTransaction(p, ch, n, a, signed)
        PROVE  TypeOK'
    <2>1. NewTx("locked", ch, n, a, signed) \in TxType
      BY IdleTypes, ConstantsAssumption DEF TxType, PayerSteps, NewTx
    <2>2. QED
      BY <1>1, <2>1 DEF StartPaymentTransaction, TypeOK, TxType, Lock
  <1>g. ASSUME NEW ch \in Channels, NEW n \in 0..MaxNonce, NEW a \in Amounts,
               NEW signed \in BOOLEAN, GetToken(p, ch, n, a, signed)
        PROVE  TypeOK'
    <2>1. NewTx("token", ch, n, a, signed) \in TxType
      BY IdleTypes, ConstantsAssumption DEF TxType, PayerSteps, NewTx
    <2>2. QED
      BY <1>g, <2>1 DEF GetToken, TypeOK, TxType
  <1>f. Finishing(p) \in TxType
    BY <1>0, IdleTypes DEF Finishing, TxType, IdleTx, PayerSteps
  <1>a. ASSUME NEW new \in TxType, tx' = [tx EXCEPT ![p] = new],
               UNCHANGED <<chain, block, store, payments, lock, cl>>
        PROVE  TypeOK'
    BY <1>a DEF TypeOK, TxType
  <1>b. ASSUME NEW pc \in PayerSteps, NEW chan \in ChannelData
        PROVE  /\ [tx[p] EXCEPT !.pc = pc] \in TxType
               /\ [tx[p] EXCEPT !.pc = pc, !.chan = chan] \in TxType
    BY <1>0 DEF TxType
  <1>t. CASE StartTokenTransaction(p)
    <2> DEFINE new == [tx[p] EXCEPT !.pc = "locked"]
    <2>1. new \in TxType /\ IdleTx \in TxType
      BY <1>b, IdleTypes DEF PayerSteps, TxType
    <2>2. /\ tx' = [tx EXCEPT ![p] = new] \/ tx' = [tx EXCEPT ![p] = IdleTx]
          /\ Lock(tx[p].ch) \/ UNCHANGED lock
          /\ UNCHANGED <<chain, block, store, payments, cl>>
      BY <1>t DEF StartTokenTransaction
    <2> HIDE DEF new
    <2>3. QED
      BY <1>0, <2>1, <2>2 DEF TypeOK, TxType, Lock
  <1>2. CASE ReadChannel(p)
    <2> DEFINE new(up) == [tx[p] EXCEPT !.pc = "read",
                                        !.chan = PaymentChannel(tx[p].ch, up)]
    <2>1. \A up \in ChainReads : new(up) \in TxType
      BY <1>0, <1>b, PaymentChannelType DEF PayerSteps
    <2>2. \E up \in ChainReads : \/ tx' = [tx EXCEPT ![p] = new(up)]
                                \/ tx' = [tx EXCEPT ![p] = Finishing(p)]
      BY <1>2 DEF ReadChannel
    <2>3. UNCHANGED <<chain, block, store, payments, lock, cl>>
      BY <1>2 DEF ReadChannel
    <2> HIDE DEF new
    <2>4. QED
      BY <1>a, <1>f, <2>1, <2>2, <2>3
  <1>3. CASE ValidatePayment(p)
    BY <1>3, <1>a, <1>b, <1>f, IdleTypes DEF ValidatePayment, PayerSteps
  <1>i. CASE CheckIncome(p)
    <2> DEFINE new(price) == [tx[p] EXCEPT !.pc = "serving", !.price = price]
    <2>1. \A price \in Prices : new(price) \in TxType
      BY <1>0, ConstantsAssumption DEF TxType, PayerSteps
    <2>2. /\ \E price \in Prices : \/ tx' = [tx EXCEPT ![p] = new(price)]
                                   \/ tx' = [tx EXCEPT ![p] = Finishing(p)]
          /\ UNCHANGED <<chain, block, store, payments, lock, cl>>
      BY <1>i DEF CheckIncome
    <2> HIDE DEF new
    <2>3. QED
      BY <1>a, <1>f, <2>1, <2>2
  <1>4. CASE CallService(p)
    BY <1>4, <1>a, <1>b, <1>f, IdleTypes DEF CallService, PayerSteps
  <1>5. CASE Commit(p)
    <2>1. PaidChannel(tx[p]) \in ChannelData
      BY <1>0 DEF PaidChannel, TxType, ChannelData, Signatures
    <2> DEFINE new == [stored |-> TRUE, data |-> PaidChannel(tx[p])]
    <2>a. new \in [stored : BOOLEAN, data : ChannelData]
      BY <2>1
    <2>b. store' = [store EXCEPT ![tx[p].ch] = new] \/ store' = store
      BY <1>5 DEF Commit
    <2> HIDE DEF new
    <2>2. store' \in [Channels -> [stored : BOOLEAN, data : ChannelData]]
      BY <1>0, <2>a, <2>b DEF TypeOK
    <2>3. tx' \in [Payers -> TxType]
      BY <1>5, <1>f DEF Commit, TypeOK, TxType
    <2>4. QED
      BY <1>5, <2>2, <2>3 DEF Commit, TypeOK, TxType
  <1>6. CASE Rollback(p)
    BY <1>6, <1>0, IdleTypes DEF Rollback, Unlock, TypeOK, TxType
  <1>7. CASE CrashPayment(p)
    BY <1>7, IdleTypes DEF CrashPayment, TypeOK, TxType
  <1>8. QED
    BY <1>1, <1>g, <1>t, <1>2, <1>3, <1>i, <1>4, <1>5, <1>6, <1>7
       DEF Payment, PaymentStep

LEMMA TxProjections ==
    ASSUME NEW r \in TxType, NEW pc, NEW chan, NEW price
    PROVE  /\ [r EXCEPT !.pc = pc].pc = pc
           /\ [r EXCEPT !.pc = pc].ch = r.ch
           /\ [r EXCEPT !.pc = pc].nonce = r.nonce
           /\ [r EXCEPT !.pc = pc].amount = r.amount
           /\ [r EXCEPT !.pc = pc].chan = r.chan
           /\ [r EXCEPT !.pc = pc].price = r.price
           /\ [r EXCEPT !.pc = pc, !.chan = chan].pc = pc
           /\ [r EXCEPT !.pc = pc, !.chan = chan].ch = r.ch
           /\ [r EXCEPT !.pc = pc, !.chan = chan].chan = chan
           /\ [r EXCEPT !.pc = pc, !.price = price].pc = pc
           /\ [r EXCEPT !.pc = pc, !.price = price].ch = r.ch
           /\ [r EXCEPT !.pc = pc, !.price = price].nonce = r.nonce
           /\ [r EXCEPT !.pc = pc, !.price = price].amount = r.amount
           /\ [r EXCEPT !.pc = pc, !.price = price].chan = r.chan
           /\ [r EXCEPT !.pc = pc, !.price = price].price = price
  BY DEF TxType

LEMMA ClaimType ==
    ASSUME TypeOK, NEW c \in Claimers, Claim(c), StoreInv
    PROVE  TypeOK'
  <1>0. cl[c] \in ClType /\ cl[c].ch \in Channels /\ cl[c].chan \in ChannelData
    BY DEF TypeOK, ClType
  <1>a. ASSUME NEW new \in ClType, cl' = [cl EXCEPT ![c] = new],
               UNCHANGED <<chain, block, tx>>,
               lock' \in [Channels -> BOOLEAN], payments' \subseteq PaymentRecords,
               store' \in [Channels -> [stored : BOOLEAN, data : ChannelData]]
        PROVE  TypeOK'
    BY <1>a DEF TypeOK, ClType
  <1>u. /\ lock \in [Channels -> BOOLEAN] /\ payments \subseteq PaymentRecords
        /\ store \in [Channels -> [stored : BOOLEAN, data : ChannelData]]
    BY DEF TypeOK
  <1>b. ASSUME NEW pc \in ClaimerSteps, NEW chs \in SUBSET Channels,
               NEW pays \in SUBSET PaymentRecords, NEW ok \in BOOLEAN,
               NEW chan \in ChannelData
        PROVE  /\ [cl[c] EXCEPT !.pc = pc] \in ClType
               /\ [cl[c] EXCEPT !.pc = pc, !.rest = chs] \in ClType
               /\ [cl[c] EXCEPT !.pc = pc, !.todo = pays] \in ClType
               /\ [cl[c] EXCEPT !.todo = pays] \in ClType
               /\ [cl[c] EXCEPT !.pc = pc, !.ok = ok] \in ClType
               /\ [cl[c] EXCEPT !.pc = pc, !.chan = chan] \in ClType
               /\ [cl[c] EXCEPT !.pc = pc, !.ok = ok, !.chan = chan] \in ClType
               /\ [IdleCl EXCEPT !.pc = pc, !.rest = chs] \in ClType
               /\ \A ch \in Channels :
                     [IdleCl EXCEPT !.pc = pc, !.ch = ch, !.rest = chs] \in ClType
    BY <1>0, IdleTypes DEF ClType
  <1>c. IdleCl \in ClType
    BY IdleTypes DEF ClType
  <1> HIDE DEF ClType
  <1>1. ASSUME NEW ch \in Channels, StartClaim(c, ch)
        PROVE  TypeOK'
    BY ZenonT(60), <1>1, <1>a, <1>b, <1>u, IdleTypes DEF StartClaim, ClaimerSteps
  <1>2. ASSUME NEW chs \in SUBSET Channels, StartClaimForMultipleChannels(c, chs)
        PROVE  TypeOK'
    BY <1>2, <1>a, <1>b, <1>u, IdleTypes DEF StartClaimForMultipleChannels, ClaimerSteps
  <1>3. CASE GetListInProgress(c)
    BY <1>3, <1>a, <1>b, <1>u, IdleTypes DEF GetListInProgress, ClaimerSteps
  <1>4. CASE ListClaims(c)
    BY <1>4, <1>a, <1>b, <1>c, <1>u, IdleTypes DEF ListClaims, ClaimerSteps
  <1>5. ASSUME NEW pay \in cl[c].todo, RemoveClaimedPayment(c, pay)
        PROVE  TypeOK'
    <2> DEFINE new == [cl[c] EXCEPT !.todo = cl[c].todo \ {pay}]
    <2>1. cl[c].todo \ {pay} \in SUBSET PaymentRecords
      BY <1>0 DEF ClType
    <2>2. new \in ClType
      BY <1>b, <2>1, IdleTypes DEF ClaimerSteps
    <2>3. /\ cl' = [cl EXCEPT ![c] = new] \/ cl' = [cl EXCEPT ![c] = IdleCl]
          /\ UNCHANGED <<chain, block, store, lock, tx>>
      BY <1>5 DEF RemoveClaimedPayment
    <2>4. payments' \subseteq PaymentRecords
      BY <1>5, <1>u DEF RemoveClaimedPayment
    <2> HIDE DEF new
    <2>5. QED
      BY <1>a, <1>c, <1>u, <2>2, <2>3, <2>4
  <1>6. CASE NextChannel(c)
    <2> DEFINE new(ch) == [IdleCl EXCEPT !.pc = "check", !.ch = ch, !.rest = cl[c].rest \ {ch}]
    <2>1. \A ch \in Channels : cl[c].rest \ {ch} \in SUBSET Channels
      BY <1>0 DEF ClType
    <2>2. \A ch \in Channels : new(ch) \in ClType
      BY <1>b, <2>1, IdleTypes DEF ClaimerSteps
    <2>3. cl[c].rest \subseteq Channels
      BY <1>0 DEF ClType
    <2>4. /\ \/ cl' = [cl EXCEPT ![c] = IdleCl]
             \/ \E ch \in cl[c].rest : cl' = [cl EXCEPT ![c] = new(ch)]
          /\ UNCHANGED <<chain, block, store, payments, lock, tx>>
      BY <1>6 DEF NextChannel
    <2> HIDE DEF new
    <2>5. QED
      BY <1>a, <1>c, <1>u, <2>2, <2>3, <2>4
  <1>7. CASE CheckAuthorizedAmount(c)
    BY <1>7, <1>a, <1>b, <1>c, <1>u, IdleTypes DEF CheckAuthorizedAmount, ClaimerSteps
  <1>8. CASE LockForClaim(c)
    BY ZenonT(60), <1>8, <1>a, <1>b, <1>c, <1>u, IdleTypes DEF LockForClaim, Lock, ClaimerSteps
  <1>9. CASE PutNextChannel(c)
    <2> DEFINE ch == cl[c].ch
               next == [store[ch] EXCEPT !.data = IncrementChannelNonce(store[ch].data)]
               put == [cl[c] EXCEPT !.pc = "putPayment", !.chan = store[ch].data]
               fail == [cl[c] EXCEPT !.pc = "unlock", !.ok = FALSE]
    <2>0. ch \in Channels /\ store[ch].data \in ChannelData
          /\ "putPayment" \in ClaimerSteps /\ "unlock" \in ClaimerSteps
      BY <1>0, <1>u DEF ClaimerSteps
    <2>1. put \in ClType /\ fail \in ClType
      BY <1>b, <2>0, IdleTypes
    <2>2. ASSUME store[ch].stored
          PROVE  IncrementChannelNonce(store[ch].data) \in ChannelData
      <3>1. store[ch].data \in ChannelData /\ store[ch].data.auth <= store[ch].data.full
        BY <1>0, <1>u, <2>2 DEF StoreInv
      <3>2. QED
        BY <3>1 DEF IncrementChannelNonce, ChannelData
    <2>3. ASSUME store[ch].stored
          PROVE  next \in [stored : BOOLEAN, data : ChannelData]
      BY <1>0, <1>u, <2>2, <2>3
    <2>4. /\ cl' = [cl EXCEPT ![c] = put] \/ cl' = [cl EXCEPT ![c] = fail]
          /\ store' = store \/ (store[ch].stored /\ store' = [store EXCEPT ![ch] = next])
          /\ UNCHANGED <<chain, block, payments, lock, tx>>
      BY <1>9 DEF PutNextChannel
    <2>5. ch \in Channels
      BY <1>0
    <2> HIDE DEF ch, next, put, fail
    <2>6. store' \in [Channels -> [stored : BOOLEAN, data : ChannelData]]
      BY <1>u, <2>3, <2>4, <2>5
    <2>7. QED
      BY <1>a, <1>u, <2>1, <2>4, <2>6
  <1>10. CASE PutPayment(c)
    <2> DEFINE pay == PaymentFromChannel(cl[c].ch, cl[c].chan)
               done == [cl[c] EXCEPT !.pc = "unlock", !.ok = TRUE, !.chan = NoData]
               fail == [cl[c] EXCEPT !.pc = "unlock", !.ok = FALSE, !.chan = NoData]
    <2>1. done \in ClType /\ fail \in ClType
      BY <1>b, IdleTypes DEF ClaimerSteps
    <2>2. pay \in PaymentRecords
      BY <1>0 DEF PaymentFromChannel, PaymentRecords, ChannelData
    <2>3. /\ cl' = [cl EXCEPT ![c] = done] \/ cl' = [cl EXCEPT ![c] = fail]
          /\ payments' \subseteq payments \cup {pay}
          /\ UNCHANGED <<chain, block, store, lock, tx>>
      BY <1>10 DEF PutPayment
    <2> HIDE DEF pay, done, fail
    <2>4. QED
      BY <1>a, <1>u, <2>1, <2>2, <2>3
  <1>11. CASE UnlockClaim(c)
    <2> DEFINE new == IF cl[c].ok THEN [IdleCl EXCEPT !.pc = "sweep", !.rest = cl[c].rest]
                                  ELSE IdleCl
    <2>1. cl[c].rest \in SUBSET Channels
      BY <1>0 DEF ClType
    <2>2. new \in ClType
      BY <1>b, <1>c, <2>1, IdleTypes DEF ClaimerSteps
    <2>3. /\ cl' = [cl EXCEPT ![c] = new]
          /\ UNCHANGED <<chain, block, store, payments, tx>>
      BY <1>11 DEF UnlockClaim
    <2>4. lock' \in [Channels -> BOOLEAN]
      BY <1>11, <1>u DEF UnlockClaim, Unlock
    <2> HIDE DEF new
    <2>5. QED
      BY <1>a, <1>u, <2>2, <2>3, <2>4
  <1>12. CASE CrashClaim(c)
    BY <1>12, <1>a, <1>c, <1>u DEF CrashClaim
  <1>13. QED
    BY <1>1, <1>2, <1>3, <1>4, <1>5, <1>6, <1>7, <1>8, <1>9, <1>10, <1>11, <1>12
       DEF Claim, ClaimStep


LEMMA ContractType ==
    ASSUME TypeOK, Contract
    PROVE  TypeOK'
  <1>a. ASSUME NEW ch \in Channels, NEW new \in ChainChannels,
               chain' = [chain EXCEPT ![ch] = new],
               UNCHANGED <<block, store, payments, lock, tx, cl>>
        PROVE  TypeOK'
    BY <1>a DEF TypeOK
  <1>0. \A ch \in Channels : chain[ch] \in ChainChannels
    BY DEF TypeOK
  <1>1. ASSUME NEW ch \in Channels, NEW payee \in Payees, NEW v \in Deposits,
               NEW e \in Expirations, OpenChannel(ch, payee, v, e)
        PROVE  TypeOK'
    <2> DEFINE new == [open |-> TRUE, payee |-> payee, nonce |-> 0, value |-> v, exp |-> e]
    <2>1. new \in ChainChannels
      BY ConstantsAssumption DEF ChainChannels
    <2>2. /\ chain' = [chain EXCEPT ![ch] = new]
          /\ UNCHANGED <<block, store, payments, lock, tx, cl>>
      BY <1>1 DEF OpenChannel
    <2> HIDE DEF new
    <2>3. QED
      BY <1>a, <2>1, <2>2
  <1>2. ASSUME NEW ch \in Channels, NEW v \in Deposits, ChannelAddFunds(ch, v)
        PROVE  TypeOK'
    <2> DEFINE new == SetChannel(chain[ch], chain[ch].nonce, chain[ch].value + v, chain[ch].exp)
    <2>1. new \in ChainChannels
      BY <1>0, ConstantsAssumption DEF ChainChannels, SetChannel
    <2>2. /\ chain' = [chain EXCEPT ![ch] = new]
          /\ UNCHANGED <<block, store, payments, lock, tx, cl>>
      BY <1>2 DEF ChannelAddFunds
    <2> HIDE DEF new
    <2>3. QED
      BY <1>a, <2>1, <2>2
  <1>3. ASSUME NEW ch \in Channels, NEW e \in Expirations, ChannelExtend(ch, e)
        PROVE  TypeOK'
    <2> DEFINE new == SetChannel(chain[ch], chain[ch].nonce, chain[ch].value, e)
    <2>1. new \in ChainChannels
      BY <1>0, ConstantsAssumption DEF ChainChannels, SetChannel
    <2>2. /\ chain' = [chain EXCEPT ![ch] = new]
          /\ UNCHANGED <<block, store, payments, lock, tx, cl>>
      BY <1>3 DEF ChannelExtend
    <2> HIDE DEF new
    <2>3. QED
      BY <1>a, <2>1, <2>2
  <1>4. ASSUME NEW ch \in Channels, ChannelClaimTimeout(ch)
        PROVE  TypeOK'
    <2> DEFINE new == SetChannel(chain[ch], chain[ch].nonce + 1, 0, 0)
    <2>1. new \in ChainChannels
      BY <1>0 DEF ChainChannels, SetChannel
    <2>2. /\ chain' = [chain EXCEPT ![ch] = new]
          /\ UNCHANGED <<block, store, payments, lock, tx, cl>>
      BY <1>4 DEF ChannelClaimTimeout
    <2> HIDE DEF new
    <2>3. QED
      BY <1>a, <2>1, <2>2
  <1>5. ASSUME NEW pay \in payments, ChannelClaim(pay)
        PROVE  TypeOK'
    <2> DEFINE ch == pay.ch
               new == SetChannel(chain[ch], chain[ch].nonce + 1,
                                 chain[ch].value - pay.amount, chain[ch].exp)
    <2>1. ch \in Channels /\ pay.amount \in Nat
      BY DEF TypeOK, PaymentRecords
    <2>2. pay.amount <= chain[ch].value
      BY <1>5 DEF ChannelClaim
    <2>3. new \in ChainChannels
      BY <1>0, <2>1, <2>2 DEF ChainChannels, SetChannel
    <2>4. /\ chain' = [chain EXCEPT ![ch] = new]
          /\ UNCHANGED <<block, store, payments, lock, tx, cl>>
      BY <1>5 DEF ChannelClaim
    <2> HIDE DEF new, ch
    <2>5. QED
      BY <1>a, <2>1, <2>3, <2>4
  <1>6. CASE NewBlock
    BY <1>6 DEF NewBlock, TypeOK
  <1>7. QED
    BY <1>1, <1>2, <1>3, <1>4, <1>5, <1>6 DEF Contract

-----------------------------------------------------------------------------
(***************************************************************************)
(* Steps of requests that touch nothing but their own state.               *)
(***************************************************************************)

(* What the invariant says of payment request p in state r.                *)
TxOK(p, r) ==
    /\ r.pc \in Reading =>
          chain[r.ch].open /\ SnapshotInv(r.ch, store[r.ch], r.chan)
    /\ r.pc \in Accepted =>
          /\ r.nonce = r.chan.nonce
          /\ r.amount <= r.chan.full
    /\ (p \in Calls /\ r.pc \in {"serving", "commit"}) =>
          r.amount = r.chan.auth + r.price

Critical == {"locked", "read", "started", "serving", "commit", "unlock"}

CriticalCl == {"locked", "putPayment", "unlock"}

LEMMA TxFrame ==
    ASSUME IndInv, NEW p \in Payers, NEW new, tx' = [tx EXCEPT ![p] = new],
           UNCHANGED <<chain, block, store, payments, cl>>, TxOK(p, new)
    PROVE  OpenInv' /\ StoreInv' /\ PaymentInv' /\ TxInv' /\ ClInv'
  <1>1. tx'[p] = new /\ \A q \in Payers : q # p => tx'[q] = tx[q]
    BY DEF IndInv, TypeOK
  <1>3. OpenInv'
    BY <1>1 DEF IndInv, OpenInv, TxOK
  <1>4. TxInv'
    <2>1. ASSUME NEW q \in Payers, q # p
          PROVE  /\ (tx[q].pc \in Reading =>
                       SnapshotInv(tx[q].ch, store[tx[q].ch], tx[q].chan))'
                 /\ (tx[q].pc \in Accepted =>
                       /\ tx[q].nonce = tx[q].chan.nonce
                       /\ tx[q].amount <= tx[q].chan.full)'
                 /\ ((q \in Calls /\ tx[q].pc \in {"serving", "commit"}) =>
                       tx[q].amount = tx[q].chan.auth + tx[q].price)'
      BY <1>1, <2>1 DEF IndInv, TxInv, SnapshotInv, Backed, Live
    <2>2. /\ (tx[p].pc \in Reading =>
                       SnapshotInv(tx[p].ch, store[tx[p].ch], tx[p].chan))'
          /\ (tx[p].pc \in Accepted =>
                       /\ tx[p].nonce = tx[p].chan.nonce
                       /\ tx[p].amount <= tx[p].chan.full)'
          /\ ((p \in Calls /\ tx[p].pc \in {"serving", "commit"}) =>
                       tx[p].amount = tx[p].chan.auth + tx[p].price)'
      BY <1>1 DEF TxOK, SnapshotInv, Backed, Live
    <2>3. QED
      BY <2>1, <2>2 DEF TxInv
  <1>5. StoreInv' /\ PaymentInv'
    BY DEF IndInv, StoreInv, PaymentInv, Backed, Live, Follows, SigOK
  <1>6. ClInv'
    BY DEF IndInv, ClInv, Live, Follows, SigOK
  <1>7. QED
    BY <1>3, <1>4, <1>5, <1>6

LEMMA TxStep ==
    ASSUME IndInv, NEW p \in Payers, NEW new, tx' = [tx EXCEPT ![p] = new],
           UNCHANGED <<chain, block, store, payments, lock, cl>>,
           new.pc \in Critical => InCriticalTx(p) /\ new.ch = tx[p].ch,
           TxOK(p, new)
    PROVE  LockInv' /\ OpenInv' /\ StoreInv' /\ PaymentInv' /\ TxInv' /\ ClInv'
  <1>1. tx'[p] = new /\ \A q \in Payers : q # p => tx'[q] = tx[q]
    BY DEF IndInv, TypeOK
  <1>2. LockInv'
    BY <1>1 DEF IndInv, LockInv, MutualExclusion, InCriticalTx, InCriticalCl, Critical
  <1>3. QED
    BY <1>2, TxFrame

LEMMA ClFrame ==
    ASSUME IndInv, NEW c \in Claimers, NEW new, cl' = [cl EXCEPT ![c] = new],
           UNCHANGED <<chain, block, store, payments, tx>>, new.pc # "putPayment"
    PROVE  OpenInv' /\ StoreInv' /\ PaymentInv' /\ TxInv' /\ ClInv'
  <1>1. cl'[c] = new /\ \A d \in Claimers : d # c => cl'[d] = cl[d]
    BY DEF IndInv, TypeOK
  <1>3. OpenInv' /\ TxInv'
    BY DEF IndInv, OpenInv, TxInv, SnapshotInv, Backed, Live
  <1>4. StoreInv' /\ PaymentInv'
    BY DEF IndInv, StoreInv, PaymentInv, Backed, Live, Follows, SigOK
  <1>5. ClInv'
    <2> SUFFICES ASSUME NEW d \in Claimers, cl'[d].pc = "putPayment"
                 PROVE  cl'[d] = cl[d]
      BY DEF IndInv, ClInv, Live, Follows, SigOK
    <2>1. QED
      BY <1>1
  <1>6. QED
    BY <1>3, <1>4, <1>5

LEMMA ClStep ==
    ASSUME IndInv, NEW c \in Claimers, NEW new, cl' = [cl EXCEPT ![c] = new],
           UNCHANGED <<chain, block, store, payments, lock, tx>>,
           new.pc \in CriticalCl => InCriticalCl(c) /\ new.ch = cl[c].ch,
           new.pc # "putPayment"
    PROVE  LockInv' /\ OpenInv' /\ StoreInv' /\ PaymentInv' /\ TxInv' /\ ClInv'
  <1>1. cl'[c] = new /\ \A d \in Claimers : d # c => cl'[d] = cl[d]
    BY DEF IndInv, TypeOK
  <1>2. LockInv'
    BY <1>1 DEF IndInv, LockInv, MutualExclusion, InCriticalTx, InCriticalCl, CriticalCl
  <1>3. QED
    BY <1>2, ClFrame

(* What PaymentChannel returns fits the storage and the contract.          *)
LEMMA ReadSnapshot ==
    ASSUME IndInv, NEW ch \in Channels, NEW up, PaymentChannelOk(ch, up)
    PROVE  chain[ch].open /\ SnapshotInv(ch, store[ch], PaymentChannel(ch, up))
  <1> DEFINE b == GetChannelStateFromBlockchain(ch)
             s == store[ch].data
             k == PaymentChannel(ch, up)
  <1>1. chain[ch] \in ChainChannels /\ s \in ChannelData /\ block \in Nat
    BY DEF IndInv, TypeOK
  <1>2. chain[ch].open
    BY DEF IndInv, OpenInv, PaymentChannelOk, BlockchainOk
  <1>3. store[ch].stored => s.auth <= s.full /\ Backed(ch, s)
    BY DEF IndInv, StoreInv
  <1>4. /\ b.nonce = chain[ch].nonce /\ b.full = chain[ch].value
        /\ b.auth = 0 /\ b.exp = chain[ch].exp
    BY DEF GetChannelStateFromBlockchain
  <1>5. \/ ~store[ch].stored /\ k = b
        \/ store[ch].stored /\ k = s
        \/ store[ch].stored /\ k = b /\ s.nonce < b.nonce
        \/ /\ store[ch].stored /\ s.nonce = b.nonce
           /\ k.nonce = s.nonce /\ k.full = b.full /\ k.auth = s.auth /\ k.exp = b.exp
    <2> HIDE DEF b, s
    <2>1. CASE k = MergeStorageAndBlockchainChannelState(s, b) /\ store[ch].stored
      <3>1. s.nonce \in Nat /\ b.nonce \in Nat
        BY <1>1, <1>4 DEF ChannelData, ChainChannels
      <3>2. QED
        BY <2>1, <3>1 DEF MergeStorageAndBlockchainChannelState
    <2>2. QED
      BY <2>1 DEF PaymentChannel, b, s
  <1> HIDE DEF b, s, k
  <1>6. SnapshotInv(ch, store[ch], k)
    <2>1. /\ s.nonce \in Nat /\ s.exp \in Nat /\ s.full \in Nat
          /\ chain[ch].nonce \in Nat /\ chain[ch].exp \in Nat /\ chain[ch].value \in Nat
      BY <1>1 DEF ChannelData, ChainChannels
    <2>2. s = store[ch].data
      BY DEF s
    <2>3. QED
      BY <1>1, <1>3, <1>4, <1>5, <2>1, <2>2 DEF SnapshotInv, Backed, Live
  <1>7. QED
    BY <1>2, <1>6 DEF k

LEMMA TxInvTxOK ==
    ASSUME IndInv, NEW p \in Payers
    PROVE  TxOK(p, tx[p]) /\ tx[p] \in TxType
  <1>1. tx[p] \in TxType /\ tx[p].ch \in Channels
    BY DEF IndInv, TypeOK, TxType
  <1>2. tx[p].pc \in Reading => chain[tx[p].ch].open
    BY <1>1 DEF IndInv, OpenInv
  <1>3. QED
    BY <1>1, <1>2 DEF IndInv, TxInv, TxOK

LEMMA PaymentLocal ==
    ASSUME IndInv, NEW p \in Payers,
           \/ \E ch \in Channels, n \in 0..MaxNonce, a \in Amounts, signed \in BOOLEAN :
                GetToken(p, ch, n, a, signed)
           \/ ReadChannel(p) \/ ValidatePayment(p) \/ CheckIncome(p)
           \/ CallService(p) \/ CrashPayment(p)
    PROVE  LockInv' /\ OpenInv' /\ StoreInv' /\ PaymentInv' /\ TxInv' /\ ClInv'
  <1>1. tx[p] \in TxType /\ tx[p].ch \in Channels /\ TxOK(p, tx[p])
    BY TxInvTxOK DEF TxType
  <1>2. /\ Finishing(p).pc = "unlock" /\ Finishing(p).ch = tx[p].ch
        /\ TxOK(p, Finishing(p))
    BY DEF Finishing, IdleTx, TxOK, Reading, Accepted
  <1>3. CASE ReadChannel(p)
    <2> DEFINE new(up) == [tx[p] EXCEPT !.pc = "read",
                                        !.chan = PaymentChannel(tx[p].ch, up)]
    <2>1. InCriticalTx(p)
      BY <1>3 DEF ReadChannel, InCriticalTx
    <2>2. \A up : /\ new(up).pc = "read" /\ new(up).ch = tx[p].ch
                  /\ new(up).chan = PaymentChannel(tx[p].ch, up)
      BY <1>1, TxProjections
    <2>3. PICK up \in ChainReads :
            \/ PaymentChannelOk(tx[p].ch, up) /\ tx' = [tx EXCEPT ![p] = new(up)]
            \/ tx' = [tx EXCEPT ![p] = Finishing(p)]
      BY <1>3 DEF ReadChannel
    <2>4. UNCHANGED <<chain, block, store, payments, lock, cl>>
      BY <1>3 DEF ReadChannel
    <2> HIDE DEF new
    <2>5. PaymentChannelOk(tx[p].ch, up) => TxOK(p, new(up))
      BY <1>1, <2>2, ReadSnapshot DEF TxOK, Reading, Accepted
    <2>6. QED
      BY <1>2, <2>1, <2>2, <2>3, <2>4, <2>5, TxStep DEF Critical
  <1>g. ASSUME NEW ch \in Channels, NEW n \in 0..MaxNonce, NEW a \in Amounts,
               NEW signed \in BOOLEAN, GetToken(p, ch, n, a, signed)
        PROVE  LockInv' /\ OpenInv' /\ StoreInv' /\ PaymentInv' /\ TxInv' /\ ClInv'
    <2> DEFINE new == NewTx("token", ch, n, a, signed)
    <2>1. new.pc = "token"
      BY DEF NewTx
    <2>2. /\ tx' = [tx EXCEPT ![p] = new]
          /\ UNCHANGED <<chain, block, store, payments, lock, cl>>
      BY <1>g DEF GetToken
    <2> HIDE DEF new
    <2>3. TxOK(p, new)
      BY <2>1 DEF TxOK, Reading, Accepted
    <2>4. QED
      BY <2>1, <2>2, <2>3, TxStep DEF Critical
  <1>4. CASE ValidatePayment(p)
    <2> DEFINE pc == IF p \in Tokens THEN "commit" ELSE "started"
               new == [tx[p] EXCEPT !.pc = pc]
    <2>1. InCriticalTx(p)
      BY <1>4 DEF ValidatePayment, InCriticalTx
    <2>2. /\ new.pc = pc /\ new.ch = tx[p].ch /\ new.chan = tx[p].chan
          /\ new.nonce = tx[p].nonce /\ new.amount = tx[p].amount
      BY <1>1, TxProjections
    <2>3. /\ \/ /\ Validate(tx[p], tx[p].chan)
                /\ tx' = [tx EXCEPT ![p] = new]
             \/ tx' = [tx EXCEPT ![p] = Finishing(p)]
          /\ tx[p].pc = "read"
          /\ UNCHANGED <<chain, block, store, payments, lock, cl>>
      BY <1>4 DEF ValidatePayment
    <2>4. pc \in {"started", "commit"} /\ (p \in Calls => pc = "started")
      BY ConstantsAssumption
    <2> HIDE DEF new, pc
    <2>5. Validate(tx[p], tx[p].chan) => TxOK(p, new)
      BY <1>1, <2>2, <2>3, <2>4 DEF TxOK, Validate, Reading, Accepted
    <2>6. QED
      BY <1>2, <2>1, <2>2, <2>3, <2>4, <2>5, TxStep DEF Critical
  <1>i. CASE CheckIncome(p)
    <2> DEFINE new(price) == [tx[p] EXCEPT !.pc = "serving", !.price = price]
    <2>1. InCriticalTx(p)
      BY <1>i DEF CheckIncome, InCriticalTx
    <2>2. \A price : /\ new(price).pc = "serving" /\ new(price).ch = tx[p].ch
                     /\ new(price).chan = tx[p].chan /\ new(price).nonce = tx[p].nonce
                     /\ new(price).amount = tx[p].amount /\ new(price).price = price
      BY <1>1, TxProjections
    <2>3. PICK price \in Prices :
             \/ ValidateIncome(tx[p], price) /\ tx' = [tx EXCEPT ![p] = new(price)]
             \/ tx' = [tx EXCEPT ![p] = Finishing(p)]
      BY <1>i DEF CheckIncome
    <2>4. tx[p].pc = "started" /\ UNCHANGED <<chain, block, store, payments, lock, cl>>
      BY <1>i DEF CheckIncome
    <2> HIDE DEF new
    <2>5. ValidateIncome(tx[p], price) => TxOK(p, new(price))
      BY <1>1, <2>2, <2>4 DEF TxOK, ValidateIncome, Reading, Accepted
    <2>6. QED
      BY <1>2, <2>1, <2>2, <2>3, <2>4, <2>5, TxStep DEF Critical
  <1>5. CASE CallService(p)
    <2> DEFINE new == [tx[p] EXCEPT !.pc = "commit"]
    <2>1. InCriticalTx(p)
      BY <1>5 DEF CallService, InCriticalTx
    <2>2. /\ new.pc = "commit" /\ new.ch = tx[p].ch /\ new.chan = tx[p].chan
          /\ new.nonce = tx[p].nonce /\ new.amount = tx[p].amount
          /\ new.price = tx[p].price
      BY <1>1, TxProjections
    <2>3. /\ tx' = [tx EXCEPT ![p] = new] \/ tx' = [tx EXCEPT ![p] = Finishing(p)]
          /\ tx[p].pc = "serving"
          /\ UNCHANGED <<chain, block, store, payments, lock, cl>>
      BY <1>5 DEF CallService
    <2> HIDE DEF new
    <2>4. TxOK(p, new)
      BY <1>1, <2>2, <2>3 DEF TxOK, Reading, Accepted
    <2>5. QED
      BY <1>2, <2>1, <2>2, <2>3, <2>4, TxStep DEF Critical
  <1>6. CASE CrashPayment(p)
    <2>1. IdleTx.pc = "idle" /\ TxOK(p, IdleTx)
      BY DEF IdleTx, TxOK, Reading, Accepted
    <2>2. QED
      BY <1>6, <2>1, TxStep DEF CrashPayment, Critical
  <1>7. QED
    BY <1>g, <1>3, <1>4, <1>i, <1>5, <1>6

-----------------------------------------------------------------------------
(***************************************************************************)
(* Taking and releasing locks.                                             *)
(***************************************************************************)

LEMMA PaymentLocking ==
    ASSUME IndInv, NEW p \in Payers,
           \/ \E ch \in Channels, n \in 0..MaxNonce, a \in Amounts, signed \in BOOLEAN :
                StartPaymentTransaction(p, ch, n, a, signed)
           \/ StartTokenTransaction(p) \/ Rollback(p)
    PROVE  LockInv' /\ OpenInv' /\ StoreInv' /\ PaymentInv' /\ TxInv' /\ ClInv'
  <1>0. /\ \A q \in Payers : tx[q].ch \in Channels
        /\ \A d \in Claimers : cl[d].ch \in Channels
    BY DEF IndInv, TypeOK
  <1>a. ASSUME NEW new, new.pc = "locked", new.ch \in Channels, TxOK(p, new),
               tx' = [tx EXCEPT ![p] = new], ~InCriticalTx(p), Lock(new.ch),
               UNCHANGED <<chain, block, store, payments, cl>>
        PROVE  LockInv' /\ OpenInv' /\ StoreInv' /\ PaymentInv' /\ TxInv' /\ ClInv'
    <2>3. tx'[p] = new /\ \A q \in Payers : q # p => tx'[q] = tx[q]
      BY <1>a DEF IndInv, TypeOK
    <2>4. /\ ~lock[new.ch] /\ lock'[new.ch]
          /\ \A h \in Channels : h # new.ch => lock'[h] = lock[h]
      BY <1>a DEF Lock, IndInv, TypeOK
    <2>6. LockInv'
      BY <1>0, <1>a, <2>3, <2>4
         DEF IndInv, LockInv, MutualExclusion, InCriticalTx, InCriticalCl
    <2>7. QED
      BY <1>a, <2>6, TxFrame
  <1>1. ASSUME NEW ch \in Channels, NEW n \in 0..MaxNonce, NEW a \in Amounts,
               NEW signed \in BOOLEAN, StartPaymentTransaction(p, ch, n, a, signed)
        PROVE  LockInv' /\ OpenInv' /\ StoreInv' /\ PaymentInv' /\ TxInv' /\ ClInv'
    <2> DEFINE new == NewTx("locked", ch, n, a, signed)
    <2>1. /\ tx' = [tx EXCEPT ![p] = new] /\ tx[p].pc = "idle" /\ Lock(ch)
          /\ UNCHANGED <<chain, block, store, payments, cl>>
      BY <1>1 DEF StartPaymentTransaction
    <2>2. new.pc = "locked" /\ new.ch = ch
      BY DEF NewTx
    <2> HIDE DEF new
    <2>3. TxOK(p, new) /\ ~InCriticalTx(p)
      BY <2>1, <2>2 DEF TxOK, Reading, Accepted, InCriticalTx
    <2>4. QED
      BY <1>a, <2>1, <2>2, <2>3
  <1>t. CASE StartTokenTransaction(p)
    <2> DEFINE new == [tx[p] EXCEPT !.pc = "locked"]
    <2>1. tx[p] \in TxType /\ tx[p].ch \in Channels
      BY TxInvTxOK DEF TxType
    <2>2. new.pc = "locked" /\ new.ch = tx[p].ch /\ IdleTx.pc = "idle"
      BY <2>1, TxProjections DEF IdleTx
    <2>3. /\ \/ tx' = [tx EXCEPT ![p] = new] /\ Lock(tx[p].ch)
             \/ tx' = [tx EXCEPT ![p] = IdleTx] /\ UNCHANGED lock
          /\ tx[p].pc = "token" /\ UNCHANGED <<chain, block, store, payments, cl>>
      BY <1>t DEF StartTokenTransaction
    <2> HIDE DEF new
    <2>4. TxOK(p, new) /\ TxOK(p, IdleTx) /\ ~InCriticalTx(p)
      BY <2>2, <2>3 DEF TxOK, Reading, Accepted, InCriticalTx
    <2>5. QED
      BY <1>a, <2>1, <2>2, <2>3, <2>4, TxStep DEF Critical
  <1>2. CASE Rollback(p)
    <2>1. /\ tx' = [tx EXCEPT ![p] = IdleTx] /\ tx[p].pc = "unlock" /\ Unlock(tx[p].ch)
          /\ UNCHANGED <<chain, block, store, payments, cl>>
      BY <1>2 DEF Rollback
    <2>2. IdleTx.pc = "idle" /\ TxOK(p, IdleTx)
      BY DEF IdleTx, TxOK, Reading, Accepted
    <2>3. tx'[p] = IdleTx /\ \A q \in Payers : q # p => tx'[q] = tx[q]
      BY <2>1 DEF IndInv, TypeOK
    <2>4. \A h \in Channels : h # tx[p].ch => lock'[h] = lock[h]
      BY <2>1 DEF Unlock, IndInv, TypeOK
    <2>6. LockInv'
      BY <1>0, <2>1, <2>2, <2>3, <2>4
         DEF IndInv, LockInv, MutualExclusion, InCriticalTx, InCriticalCl
    <2>7. QED
      BY <2>1, <2>2, <2>6, TxFrame
  <1>3. QED
    BY <1>1, <1>t, <1>2

LEMMA ClProjections ==
    ASSUME NEW r \in ClType, NEW pc, NEW x, NEW y
    PROVE  /\ [r EXCEPT !.pc = pc].pc = pc /\ [r EXCEPT !.pc = pc].ch = r.ch
           /\ [r EXCEPT !.pc = pc, !.rest = x].pc = pc
           /\ [r EXCEPT !.pc = pc, !.todo = x].pc = pc
           /\ [r EXCEPT !.todo = x].pc = r.pc
           /\ [r EXCEPT !.pc = pc, !.ch = y, !.rest = x].pc = pc
           /\ [r EXCEPT !.pc = pc, !.ok = x].pc = pc
           /\ [r EXCEPT !.pc = pc, !.ok = x].ch = r.ch
           /\ [r EXCEPT !.pc = pc, !.chan = x].pc = pc
           /\ [r EXCEPT !.pc = pc, !.chan = x].ch = r.ch
           /\ [r EXCEPT !.pc = pc, !.chan = x].chan = x
           /\ [r EXCEPT !.pc = pc, !.ok = x, !.chan = y].pc = pc
           /\ [r EXCEPT !.pc = pc, !.ok = x, !.chan = y].ch = r.ch
  BY DEF ClType

LEMMA ClaimLocal ==
    ASSUME IndInv, NEW c \in Claimers,
           \/ \E ch \in Channels : StartClaim(c, ch)
           \/ \E chs \in SUBSET Channels : StartClaimForMultipleChannels(c, chs)
           \/ GetListInProgress(c) \/ ListClaims(c) \/ NextChannel(c)
           \/ CheckAuthorizedAmount(c) \/ CrashClaim(c)
    PROVE  LockInv' /\ OpenInv' /\ StoreInv' /\ PaymentInv' /\ TxInv' /\ ClInv'
  <1>0. cl[c] \in ClType /\ IdleCl \in ClType /\ IdleCl.pc = "idle"
    BY IdleTypes DEF IndInv, TypeOK, ClType, IdleCl
  <1> DEFINE Goal == LockInv' /\ OpenInv' /\ StoreInv' /\ PaymentInv' /\ TxInv' /\ ClInv'
             Step(new) == /\ cl' = [cl EXCEPT ![c] = new]
                          /\ UNCHANGED <<chain, block, store, payments, lock, tx>>
  <1>h. ASSUME NEW new, Step(new), new.pc \notin CriticalCl PROVE Goal
    BY <1>h, ClStep DEF CriticalCl
  <1>i. Step(IdleCl) => Goal
    BY <1>0, <1>h DEF CriticalCl
  <1> SUFFICES Goal
    OBVIOUS
  <1> HIDE DEF Goal
  <1>1. ASSUME NEW ch \in Channels, StartClaim(c, ch)
        PROVE  Goal
    <2> DEFINE new == [cl[c] EXCEPT !.pc = "list", !.rest = {ch}]
    <2>1. Step(new)
      BY <1>1 DEF StartClaim
    <2>2. new.pc \notin CriticalCl
      BY <1>0, ClProjections DEF CriticalCl
    <2> HIDE DEF new
    <2>3. QED
      BY <1>h, <2>1, <2>2
  <1>2. ASSUME NEW chs \in SUBSET Channels, StartClaimForMultipleChannels(c, chs)
        PROVE  Goal
    <2> DEFINE new == [cl[c] EXCEPT !.pc = "list", !.rest = chs]
    <2>1. Step(new)
      BY <1>2 DEF StartClaimForMultipleChannels
    <2>2. new.pc \notin CriticalCl
      BY <1>0, ClProjections DEF CriticalCl
    <2> HIDE DEF new
    <2>3. QED
      BY <1>h, <2>1, <2>2
  <1>3. CASE GetListInProgress(c)
    <2> DEFINE new == [cl[c] EXCEPT !.pc = "list", !.rest = {}]
    <2>1. Step(new)
      BY <1>3 DEF GetListInProgress
    <2>2. new.pc \notin CriticalCl
      BY <1>0, ClProjections DEF CriticalCl
    <2> HIDE DEF new
    <2>3. QED
      BY <1>h, <2>1, <2>2
  <1>4. CASE ListClaims(c)
    <2> DEFINE new == [cl[c] EXCEPT !.pc = "sweep", !.todo = payments]
    <2>1. Step(new) \/ Step(IdleCl)
      BY <1>4 DEF ListClaims
    <2>2. new.pc \notin CriticalCl
      BY <1>0, ClProjections DEF CriticalCl
    <2> HIDE DEF new
    <2>3. QED
      BY <1>h, <1>i, <2>1, <2>2
  <1>5. CASE NextChannel(c)
    <2> DEFINE new(ch) == [IdleCl EXCEPT !.pc = "check", !.ch = ch,
                                         !.rest = cl[c].rest \ {ch}]
    <2>1. Step(IdleCl) \/ \E ch : Step(new(ch))
      BY <1>5 DEF NextChannel
    <2>2. ASSUME NEW ch PROVE new(ch).pc \notin CriticalCl
      <3>1. [IdleCl EXCEPT !.pc = "check", !.ch = ch, !.rest = cl[c].rest \ {ch}].pc = "check"
        BY <1>0, ClProjections
      <3>2. QED
        BY <3>1 DEF CriticalCl
    <2> HIDE DEF new
    <2>3. QED
      BY <1>h, <1>i, <2>1, <2>2
  <1>6. CASE CheckAuthorizedAmount(c)
    <2> DEFINE new == [cl[c] EXCEPT !.pc = "lock"]
    <2>1. Step(new) \/ Step(IdleCl)
      BY <1>6 DEF CheckAuthorizedAmount
    <2>2. new.pc \notin CriticalCl
      BY <1>0, ClProjections DEF CriticalCl
    <2> HIDE DEF new
    <2>3. QED
      BY <1>h, <1>i, <2>1, <2>2
  <1>7. CASE CrashClaim(c)
    BY <1>i, <1>7 DEF CrashClaim
  <1>8. QED
    BY <1>1, <1>2, <1>3, <1>4, <1>5, <1>6, <1>7

LEMMA ClaimLocking ==
    ASSUME IndInv, NEW c \in Claimers, LockForClaim(c) \/ UnlockClaim(c)
    PROVE  LockInv' /\ OpenInv' /\ StoreInv' /\ PaymentInv' /\ TxInv' /\ ClInv'
  <1>0. cl[c] \in ClType /\ IdleCl \in ClType /\ IdleCl.pc = "idle"
    BY IdleTypes DEF IndInv, TypeOK, ClType, IdleCl
  <1>t. /\ \A q \in Payers : tx[q].ch \in Channels
        /\ \A d \in Claimers : cl[d].ch \in Channels
    BY DEF IndInv, TypeOK
  <1>1. CASE LockForClaim(c)
    <2> DEFINE new == [cl[c] EXCEPT !.pc = "locked"]
    <2>1. /\ cl[c].pc = "lock"
          /\ UNCHANGED <<chain, block, store, payments, tx>>
          /\ \/ Lock(cl[c].ch) /\ cl' = [cl EXCEPT ![c] = new]
             \/ UNCHANGED lock /\ cl' = [cl EXCEPT ![c] = IdleCl]
      BY <1>1 DEF LockForClaim
    <2>2. new.pc = "locked" /\ new.ch = cl[c].ch
      BY <1>0, ClProjections
    <2> HIDE DEF new
    <2>3. CASE Lock(cl[c].ch) /\ cl' = [cl EXCEPT ![c] = new]
      <3>1. cl'[c] = new /\ \A d \in Claimers : d # c => cl'[d] = cl[d]
        BY <2>3 DEF IndInv, TypeOK
      <3>2. /\ ~lock[cl[c].ch] /\ lock'[cl[c].ch]
            /\ \A h \in Channels : h # cl[c].ch => lock'[h] = lock[h]
        BY <1>t, <2>3 DEF Lock, IndInv, TypeOK
      <3>3. LockInv'
        BY <1>t, <2>1, <2>2, <3>1, <3>2
           DEF IndInv, LockInv, MutualExclusion, InCriticalTx, InCriticalCl
      <3>4. QED
        BY <2>1, <2>2, <2>3, <3>3, ClFrame
    <2>4. CASE UNCHANGED lock /\ cl' = [cl EXCEPT ![c] = IdleCl]
      BY <1>0, <2>1, <2>4, ClStep DEF CriticalCl
    <2>5. QED
      BY <2>1, <2>3, <2>4
  <1>2. CASE UnlockClaim(c)
    <2> DEFINE new == IF cl[c].ok THEN [IdleCl EXCEPT !.pc = "sweep", !.rest = cl[c].rest]
                                  ELSE IdleCl
    <2>1. /\ cl[c].pc = "unlock" /\ Unlock(cl[c].ch)
          /\ UNCHANGED <<chain, block, store, payments, tx>>
          /\ cl' = [cl EXCEPT ![c] = new]
      BY <1>2 DEF UnlockClaim
    <2>2. new.pc \in {"sweep", "idle"}
      BY <1>0, ClProjections
    <2> HIDE DEF new
    <2>3. cl'[c] = new /\ \A d \in Claimers : d # c => cl'[d] = cl[d]
      BY <2>1 DEF IndInv, TypeOK
    <2>4. \A h \in Channels : h # cl[c].ch => lock'[h] = lock[h]
      BY <2>1 DEF Unlock, IndInv, TypeOK
    <2>5. LockInv'
      BY <1>t, <2>1, <2>2, <2>3, <2>4
         DEF IndInv, LockInv, MutualExclusion, InCriticalTx, InCriticalCl
    <2>6. QED
      BY <2>1, <2>2, <2>5, ClFrame
  <1>3. QED
    BY <1>1, <1>2

(* A lock that nobody holds may be set or cleared.                         *)
LEMMA LockOnly ==
    ASSUME IndInv, "unlock" \notin Faults, NEW ch \in Channels,
           LockTimesOut(ch) \/ UnlockChannel(ch)
    PROVE  LockInv' /\ OpenInv' /\ StoreInv' /\ PaymentInv' /\ TxInv' /\ ClInv'
  <1>t. /\ \A q \in Payers : tx[q].ch \in Channels
        /\ \A d \in Claimers : cl[d].ch \in Channels
    BY DEF IndInv, TypeOK
  <1>0. UNCHANGED <<chain, block, store, payments, tx, cl>>
    BY DEF LockTimesOut, UnlockChannel
  <1>1. /\ \A h \in Channels : h # ch => lock'[h] = lock[h]
        /\ lock'[ch] \/ ~Held(ch)
    BY DEF LockTimesOut, Lock, UnlockChannel, IndInv, TypeOK
  <1>2. LockInv'
    BY <1>t, <1>0, <1>1 DEF IndInv, LockInv, MutualExclusion, InCriticalTx, InCriticalCl, Held
  <1>3. OpenInv' /\ TxInv'
    BY <1>0 DEF IndInv, OpenInv, TxInv, SnapshotInv, Backed, Live
  <1>4. StoreInv' /\ PaymentInv'
    BY <1>0 DEF IndInv, StoreInv, PaymentInv, Backed, Live, Follows, SigOK
  <1>5. ClInv'
    BY <1>0 DEF IndInv, ClInv, Live, Follows, SigOK
  <1>6. QED
    BY <1>2, <1>3, <1>4, <1>5

LEMMA RemoveClaimedPaymentInv ==
    ASSUME IndInv, NEW c \in Claimers, NEW pay \in cl[c].todo,
           RemoveClaimedPayment(c, pay)
    PROVE  LockInv' /\ OpenInv' /\ StoreInv' /\ PaymentInv' /\ TxInv' /\ ClInv'
  <1> DEFINE new == [cl[c] EXCEPT !.todo = cl[c].todo \ {pay}]
  <1>0. cl[c] \in ClType /\ IdleCl.pc = "idle"
    BY DEF IndInv, TypeOK, ClType, IdleCl
  <1>1. /\ cl[c].pc = "sweep"
        /\ cl' = [cl EXCEPT ![c] = new] \/ cl' = [cl EXCEPT ![c] = IdleCl]
        /\ UNCHANGED <<chain, block, store, lock, tx>>
    BY DEF RemoveClaimedPayment
  <1>2. payments' \subseteq payments
    BY DEF RemoveClaimedPayment
  <1>3. new.pc = "sweep"
    BY <1>0, <1>1, ClProjections
  <1> HIDE DEF new
  <1>4. cl'[c].pc \in {"sweep", "idle"} /\ \A d \in Claimers : d # c => cl'[d] = cl[d]
    BY <1>0, <1>1, <1>3 DEF IndInv, TypeOK
  <1>5. LockInv'
    BY <1>1, <1>4 DEF IndInv, LockInv, MutualExclusion, InCriticalTx, InCriticalCl
  <1>6. OpenInv' /\ TxInv'
    BY <1>1 DEF IndInv, OpenInv, TxInv, SnapshotInv, Backed, Live
  <1>7. StoreInv' /\ PaymentInv'
    BY <1>1, <1>2 DEF IndInv, StoreInv, PaymentInv, Backed, Live, Follows, SigOK
  <1>8. ClInv'
    <2> SUFFICES ASSUME NEW d \in Claimers, cl'[d].pc = "putPayment"
                 PROVE  cl'[d] = cl[d]
      BY <1>1, <1>2 DEF IndInv, ClInv, Live, Follows, SigOK
    <2>1. QED
      BY <1>4
  <1>9. QED
    BY <1>5, <1>6, <1>7, <1>8

-----------------------------------------------------------------------------
(***************************************************************************)
(* The writes to the channel and payment storages.                         *)
(***************************************************************************)

(* A snapshot outlives every step that leaves its channel alone.           *)
LEMMA SnapshotKept ==
    ASSUME NEW q \in Payers, tx'[q] = tx[q], block' = block,
           store'[tx[q].ch] = store[tx[q].ch], chain'[tx[q].ch] = chain[tx[q].ch],
           SnapshotInv(tx[q].ch, store[tx[q].ch], tx[q].chan)
    PROVE  SnapshotInv(tx[q].ch, store[tx[q].ch], tx[q].chan)'
  BY DEF SnapshotInv, Backed, Live

LEMMA TxInvKept ==
    ASSUME TxInv,
           \A q \in Payers : tx'[q].pc \in Reading =>
               /\ tx'[q] = tx[q]
               /\ SnapshotInv(tx[q].ch, store[tx[q].ch], tx[q].chan)'
    PROVE  TxInv'
  BY DEF TxInv, Reading, Accepted

LEMMA CommitInv ==
    ASSUME IndInv, NEW p \in Payers, Commit(p)
    PROVE  LockInv' /\ OpenInv' /\ StoreInv' /\ PaymentInv' /\ TxInv' /\ ClInv'
  <1> DEFINE ch == tx[p].ch
             k == tx[p].chan
             s == store[ch].data
             d == PaidChannel(tx[p])
             new == [stored |-> TRUE, data |-> d]
  <1>0. tx[p] \in TxType /\ ch \in Channels /\ TxOK(p, tx[p]) /\ tx[p].pc = "commit"
    BY TxInvTxOK DEF TxType, Commit
  <1>1. /\ tx' = [tx EXCEPT ![p] = Finishing(p)]
        /\ UNCHANGED <<chain, block, payments, lock, cl>>
        /\ store' = [store EXCEPT ![ch] = new] \/ store' = store
    BY DEF Commit
  <1>2. /\ Finishing(p).pc = "unlock" /\ Finishing(p).ch = ch
        /\ TxOK(p, Finishing(p))
    BY DEF Finishing, IdleTx, TxOK, Reading, Accepted
  <1>3. InCriticalTx(p)
    BY <1>0 DEF InCriticalTx
  <1>4. CASE store' = store
    BY <1>1, <1>2, <1>3, <1>4, TxStep DEF Critical
  <1>5. CASE store' = [store EXCEPT ![ch] = new]
    <2>1. /\ d.nonce = k.nonce /\ d.full = k.full /\ d.auth = tx[p].amount /\ d.exp = k.exp
          /\ d.sig = [nonce |-> tx[p].nonce, amount |-> tx[p].amount]
      BY DEF PaidChannel
    <2>2. /\ tx[p].nonce = k.nonce /\ tx[p].amount <= k.full /\ chain[ch].open
          /\ SnapshotInv(ch, store[ch], k)
      BY <1>0 DEF TxOK, Reading, Accepted
    <2>3. new.stored /\ new.data = d
      OBVIOUS
    <2>t. /\ k.nonce \in Nat /\ k.exp \in Nat /\ k.full \in Nat /\ block \in Nat
          /\ s.nonce \in Nat /\ s.exp \in Nat /\ s.full \in Nat
          /\ chain[ch].nonce \in Nat /\ chain[ch].exp \in Nat /\ chain[ch].value \in Nat
          /\ \A pay \in payments : pay.nonce \in Nat /\ pay.ch \in Channels
      BY <1>0 DEF IndInv, TypeOK, TxType, ChannelData, ChainChannels, PaymentRecords
    <2> HIDE DEF new, d
    <2>4. store'[ch] = new /\ \A h \in Channels : h # ch => store'[h] = store[h]
      BY <1>0, <1>5 DEF IndInv, TypeOK
    <2>5. tx'[p] = Finishing(p) /\ \A q \in Payers : q # p => tx'[q] = tx[q]
      BY <1>1 DEF IndInv, TypeOK
    <2>6. /\ \A q \in Payers : q # p /\ InCriticalTx(q) => tx[q].ch # ch
          /\ \A c \in Claimers : InCriticalCl(c) => cl[c].ch # ch
          /\ \A q \in Payers : tx[q].ch \in Channels
          /\ \A c \in Claimers : cl[c].ch \in Channels
      BY <1>3 DEF IndInv, LockInv, MutualExclusion, TypeOK
    <2> HIDE DEF ch, k, s
    <2>7. LockInv'
      BY <1>1, <1>2, <1>3, <2>5
         DEF IndInv, LockInv, MutualExclusion, InCriticalTx, InCriticalCl, ch
    <2>8. OpenInv'
      BY <1>1, <1>2, <2>2, <2>4, <2>5 DEF IndInv, OpenInv
    <2>9. StoreInv'
      BY <1>1, <2>1, <2>2, <2>3, <2>4 DEF IndInv, StoreInv, SigOK, Backed, Live, SnapshotInv
    <2>10. PaymentInv'
      <3>1. ASSUME NEW pay \in payments, pay.ch = ch
            PROVE  /\ pay.nonce < d.nonce
                   /\ (block < d.exp /\ pay.nonce = chain[ch].nonce)
                         => pay.full <= chain[ch].value
                   /\ Follows(d, pay)
        <4>1. /\ store[ch].stored /\ pay.nonce < s.nonce /\ Follows(s, pay)
              /\ (block < s.exp /\ pay.nonce = chain[ch].nonce) => pay.full <= chain[ch].value
          BY <3>1 DEF IndInv, PaymentInv, Live, s
        <4>2. s.nonce <= k.nonce /\ (k.nonce > chain[ch].nonce => k = s)
          BY <2>2, <4>1 DEF SnapshotInv, s
        <4>3. QED
          BY <2>1, <2>t, <3>1, <4>1, <4>2 DEF Follows
      <3>2. ASSUME NEW pay \in payments
            PROVE  /\ store'[pay.ch].stored
                   /\ pay.nonce < store'[pay.ch].data.nonce
                   /\ (Live(store'[pay.ch].data) /\ pay.nonce = chain[pay.ch].nonce)
                         => pay.full <= chain[pay.ch].value
                   /\ Follows(store'[pay.ch].data, pay)
        <4>1. CASE pay.ch = ch
          BY <2>3, <2>4, <3>1, <4>1 DEF Live
        <4>2. CASE pay.ch # ch
          <5>1. store'[pay.ch] = store[pay.ch]
            BY <2>t, <2>4, <4>2
          <5>2. QED
            BY <5>1 DEF IndInv, PaymentInv
        <4>3. QED
          BY <4>1, <4>2
      <3>3. \A pay \in payments :
              /\ pay.amount <= pay.full
              /\ pay.sig # NoSignature => pay.sig = [nonce |-> pay.nonce, amount |-> pay.amount]
              /\ \A q \in payments : q.ch = pay.ch => Follows(q, pay)
        BY DEF IndInv, PaymentInv
      <3>4. payments' = payments /\ chain' = chain /\ block' = block
        BY <1>1
      <3>5. QED
        BY <3>2, <3>3, <3>4 DEF PaymentInv, Live, Follows
    <2>11. TxInv'
      <3>1. ASSUME NEW q \in Payers, q # p, InCriticalTx(q)
            PROVE  store'[tx[q].ch] = store[tx[q].ch]
        BY <2>4, <2>6, <3>1
      <3>2. ASSUME NEW q \in Payers, tx'[q].pc \in Reading
            PROVE  /\ tx'[q] = tx[q]
                   /\ SnapshotInv(tx[q].ch, store[tx[q].ch], tx[q].chan)'
        <4>1. q # p /\ tx'[q] = tx[q] /\ InCriticalTx(q)
          BY <1>2, <2>5, <3>2 DEF InCriticalTx, Reading
        <4>2. SnapshotInv(tx[q].ch, store[tx[q].ch], tx[q].chan)
          BY <3>2, <4>1 DEF IndInv, TxInv
        <4>3. store'[tx[q].ch] = store[tx[q].ch] /\ chain' = chain /\ block' = block
          BY <1>1, <3>1, <4>1
        <4>4. QED
          BY <4>1, <4>2, <4>3, SnapshotKept
      <3>3. QED
        BY <3>2, TxInvKept DEF IndInv
    <2>12. ClInv'
      <3>1. ASSUME NEW c \in Claimers, cl[c].pc = "putPayment"
            PROVE  store'[cl[c].ch] = store[cl[c].ch]
        BY <2>4, <2>6, <3>1 DEF InCriticalCl
      <3>2. QED
        BY <1>1, <3>1 DEF IndInv, ClInv, Live, Follows, SigOK
    <2>13. QED
      BY <2>7, <2>8, <2>9, <2>10, <2>11, <2>12
  <1>6. QED
    BY <1>1, <1>4, <1>5

LEMMA PutNextChannelInv ==
    ASSUME IndInv, NEW c \in Claimers, PutNextChannel(c)
    PROVE  LockInv' /\ OpenInv' /\ StoreInv' /\ PaymentInv' /\ TxInv' /\ ClInv'
  <1> DEFINE ch == cl[c].ch
             s == store[ch].data
             d == IncrementChannelNonce(s)
             next == [store[ch] EXCEPT !.data = d]
             put == [cl[c] EXCEPT !.pc = "putPayment", !.chan = s]
             fail == [cl[c] EXCEPT !.pc = "unlock", !.ok = FALSE]
  <1>0. /\ cl[c] \in ClType /\ ch \in Channels /\ cl[c].pc = "locked"
        /\ store[ch] \in [stored : BOOLEAN, data : ChannelData]
    BY DEF IndInv, TypeOK, ClType, PutNextChannel
  <1>1. /\ UNCHANGED <<chain, block, payments, lock, tx>>
        /\ \/ /\ store[ch].stored /\ store' = [store EXCEPT ![ch] = next]
              /\ cl' = [cl EXCEPT ![c] = put] \/ cl' = [cl EXCEPT ![c] = fail]
           \/ store' = store /\ cl' = [cl EXCEPT ![c] = fail]
    BY DEF PutNextChannel
  <1>2. /\ put.pc = "putPayment" /\ put.ch = ch /\ put.chan = s
        /\ fail.pc = "unlock" /\ fail.ch = ch
    BY <1>0, ClProjections
  <1>3. next.data = d /\ (store[ch].stored => next.stored)
    BY <1>0
  <1>4. /\ d.nonce = s.nonce + 1 /\ d.full = s.full - s.auth /\ d.auth = 0
        /\ d.sig = NoSignature /\ d.exp = s.exp
    BY DEF IncrementChannelNonce
  <1>5. InCriticalCl(c)
    BY <1>0 DEF InCriticalCl
  <1> HIDE DEF put, fail, next, d
  <1>6. CASE store' = store /\ cl' = [cl EXCEPT ![c] = fail]
    BY <1>1, <1>2, <1>5, <1>6, ClStep DEF CriticalCl
  <1>7. CASE /\ store[ch].stored /\ store' = [store EXCEPT ![ch] = next]
             /\ cl' = [cl EXCEPT ![c] = put] \/ cl' = [cl EXCEPT ![c] = fail]
    <2>t. /\ s.nonce \in Nat /\ s.exp \in Nat /\ s.full \in Nat /\ s.auth \in Nat
          /\ chain[ch].nonce \in Nat /\ chain[ch].exp \in Nat /\ chain[ch].value \in Nat
          /\ \A pay \in payments : pay.nonce \in Nat /\ pay.ch \in Channels
          /\ block \in Nat
      BY <1>0 DEF IndInv, TypeOK, ChannelData, ChainChannels, PaymentRecords
    <2>1. store'[ch] = next /\ \A h \in Channels : h # ch => store'[h] = store[h]
      BY <1>0, <1>7 DEF IndInv, TypeOK
    <2>2. /\ cl'[c] \in {put, fail}
          /\ \A e \in Claimers : e # c => cl'[e] = cl[e]
      BY <1>7 DEF IndInv, TypeOK
    <2>3. /\ \A q \in Payers : InCriticalTx(q) => tx[q].ch # ch
          /\ \A e \in Claimers : e # c /\ InCriticalCl(e) => cl[e].ch # ch
          /\ \A q \in Payers : tx[q].ch \in Channels
          /\ \A e \in Claimers : cl[e].ch \in Channels
      BY <1>5 DEF IndInv, LockInv, MutualExclusion, TypeOK
    <2>4. SigOK(s) /\ s.auth <= s.full /\ Backed(ch, s)
      BY <1>0, <1>7 DEF IndInv, StoreInv
    <2>5. \A pay \in payments : pay.ch = ch =>
            /\ pay.nonce < s.nonce /\ Follows(s, pay)
            /\ (block < s.exp /\ pay.nonce = chain[ch].nonce) => pay.full <= chain[ch].value
      BY DEF IndInv, PaymentInv, Live
    <2> HIDE DEF ch, s
    <2>6. LockInv'
      BY <1>1, <1>2, <1>5, <2>2
         DEF IndInv, LockInv, MutualExclusion, InCriticalTx, InCriticalCl, ch
    <2>7. OpenInv'
      BY <1>1, <1>7, <2>1 DEF IndInv, OpenInv
    <2>8. StoreInv'
      BY <1>1, <1>3, <1>4, <2>t, <2>1, <2>4 DEF IndInv, StoreInv, SigOK, Backed, Live
    <2>9. PaymentInv'
      <3>1. ASSUME NEW pay \in payments, pay.ch = ch
            PROVE  /\ pay.nonce < d.nonce
                   /\ (block < d.exp /\ pay.nonce = chain[ch].nonce)
                         => pay.full <= chain[ch].value
                   /\ Follows(d, pay)
        BY <1>4, <2>t, <2>5, <3>1 DEF Follows
      <3>2. ASSUME NEW pay \in payments
            PROVE  /\ store'[pay.ch].stored
                   /\ pay.nonce < store'[pay.ch].data.nonce
                   /\ (Live(store'[pay.ch].data) /\ pay.nonce = chain[pay.ch].nonce)
                         => pay.full <= chain[pay.ch].value
                   /\ Follows(store'[pay.ch].data, pay)
        <4>1. CASE pay.ch = ch
          BY <1>3, <1>7, <2>1, <3>1, <4>1 DEF Live
        <4>2. CASE pay.ch # ch
          <5>1. store'[pay.ch] = store[pay.ch]
            BY <2>t, <2>1, <4>2
          <5>2. QED
            BY <5>1 DEF IndInv, PaymentInv
        <4>3. QED
          BY <4>1, <4>2
      <3>3. \A pay \in payments :
              /\ pay.amount <= pay.full
              /\ pay.sig # NoSignature => pay.sig = [nonce |-> pay.nonce, amount |-> pay.amount]
              /\ \A q \in payments : q.ch = pay.ch => Follows(q, pay)
        BY DEF IndInv, PaymentInv
      <3>4. payments' = payments /\ chain' = chain /\ block' = block
        BY <1>1
      <3>5. QED
        BY <3>2, <3>3, <3>4 DEF PaymentInv, Live, Follows
    <2>10. TxInv'
      <3>1. ASSUME NEW q \in Payers, tx[q].pc \in Reading
            PROVE  SnapshotInv(tx[q].ch, store[tx[q].ch], tx[q].chan)'
        <4>1. InCriticalTx(q) /\ SnapshotInv(tx[q].ch, store[tx[q].ch], tx[q].chan)
          BY <3>1 DEF IndInv, TxInv, InCriticalTx, Reading
        <4>2. store'[tx[q].ch] = store[tx[q].ch]
          BY <2>1, <2>3, <4>1
        <4>3. QED
          BY <1>1, <4>1, <4>2, SnapshotKept
      <3>2. QED
        BY <1>1, <3>1, TxInvKept DEF IndInv
    <2>11. ClInv'
      <3>1. ASSUME NEW e \in Claimers, e # c, cl[e].pc = "putPayment"
            PROVE  store'[cl[e].ch] = store[cl[e].ch]
        BY <2>1, <2>3, <3>1 DEF InCriticalCl
      <3>2. ASSUME cl'[c] = put
            PROVE  /\ next.stored /\ next.data.nonce = s.nonce + 1
                   /\ next.data.exp = s.exp
                   /\ next.data.full + s.auth <= s.full
                   /\ SigOK(s)
                   /\ (block < s.exp /\ s.nonce = chain[ch].nonce) => s.full <= chain[ch].value
                   /\ \A pay \in payments : pay.ch = ch =>
                         pay.nonce < s.nonce /\ Follows(s, pay)
        BY <1>3, <1>4, <1>7, <2>t, <2>4, <2>5 DEF Backed, Live
      <3>3. ASSUME NEW e \in Claimers, cl'[e].pc = "putPayment", e # c
            PROVE  /\ cl'[e] = cl[e] /\ store'[cl[e].ch] = store[cl[e].ch]
                   /\ cl[e].pc = "putPayment"
        BY <2>2, <3>1, <3>3
      <3>4. ASSUME cl'[c].pc = "putPayment"
            PROVE  cl'[c] = put
        BY <1>2, <2>2, <3>4
      <3>5. ASSUME NEW e \in Claimers, cl'[e].pc = "putPayment"
            PROVE  /\ store'[cl'[e].ch].stored
                   /\ store'[cl'[e].ch].data.nonce = cl'[e].chan.nonce + 1
                   /\ store'[cl'[e].ch].data.exp = cl'[e].chan.exp
                   /\ store'[cl'[e].ch].data.full + cl'[e].chan.auth <= cl'[e].chan.full
                   /\ SigOK(cl'[e].chan)
                   /\ (block < cl'[e].chan.exp /\ cl'[e].chan.nonce = chain[cl'[e].ch].nonce)
                         => cl'[e].chan.full <= chain[cl'[e].ch].value
                   /\ \A pay \in payments : pay.ch = cl'[e].ch =>
                         pay.nonce < cl'[e].chan.nonce /\ Follows(cl'[e].chan, pay)
        <4>1. CASE e = c
          BY <1>2, <2>1, <3>2, <3>4, <3>5, <4>1
        <4>2. CASE e # c
          BY <3>3, <3>5, <4>2 DEF IndInv, ClInv, Live
        <4>3. QED
          BY <4>1, <4>2
      <3>6. QED
        BY <1>1, <3>5 DEF ClInv, Live, Follows, SigOK
    <2>12. QED
      BY <2>6, <2>7, <2>8, <2>9, <2>10, <2>11
  <1>8. QED
    BY <1>1, <1>6, <1>7

LEMMA PutPaymentInv ==
    ASSUME IndInv, NEW c \in Claimers, PutPayment(c)
    PROVE  LockInv' /\ OpenInv' /\ StoreInv' /\ PaymentInv' /\ TxInv' /\ ClInv'
  <1> DEFINE ch == cl[c].ch
             old == cl[c].chan
             s == store[ch].data
             pay == PaymentFromChannel(ch, old)
             done == [cl[c] EXCEPT !.pc = "unlock", !.ok = TRUE, !.chan = NoData]
             fail == [cl[c] EXCEPT !.pc = "unlock", !.ok = FALSE, !.chan = NoData]
  <1>0. /\ cl[c] \in ClType /\ ch \in Channels /\ cl[c].pc = "putPayment"
    BY DEF IndInv, TypeOK, ClType, PutPayment
  <1>1. /\ UNCHANGED <<chain, block, store, lock, tx>>
        /\ payments' \subseteq payments \cup {pay}
        /\ cl' = [cl EXCEPT ![c] = done] \/ cl' = [cl EXCEPT ![c] = fail]
    BY DEF PutPayment
  <1>2. done.pc = "unlock" /\ done.ch = ch /\ fail.pc = "unlock" /\ fail.ch = ch
    BY <1>0, ClProjections
  <1>3. /\ pay.ch = ch /\ pay.nonce = old.nonce /\ pay.amount = old.auth
        /\ pay.sig = old.sig /\ pay.full = old.full
    BY DEF PaymentFromChannel
  <1> HIDE DEF done, fail, pay
  <1>4. /\ cl'[c] \in {done, fail}
        /\ \A e \in Claimers : e # c => cl'[e] = cl[e]
    BY <1>1 DEF IndInv, TypeOK
  <1>5. /\ \A e \in Claimers : e # c /\ InCriticalCl(e) => cl[e].ch # ch
        /\ InCriticalCl(c)
    BY <1>0 DEF IndInv, LockInv, MutualExclusion, InCriticalCl
  <1>6. /\ store[ch].stored /\ s.nonce = old.nonce + 1 /\ s.exp = old.exp
        /\ s.full + old.auth <= old.full /\ SigOK(old)
        /\ (block < old.exp /\ old.nonce = chain[ch].nonce) => old.full <= chain[ch].value
        /\ \A q \in payments : q.ch = ch => q.nonce < old.nonce /\ Follows(old, q)
    BY <1>0 DEF IndInv, ClInv, Live
  <1>7. /\ old.nonce \in Nat /\ old.auth \in Nat /\ old.full \in Nat
        /\ s.full \in Nat /\ chain[ch].nonce \in Nat
        /\ \A q \in payments : q.nonce \in Nat
    BY <1>0 DEF IndInv, TypeOK, ClType, ChannelData, ChainChannels, PaymentRecords
  <1>8. LockInv'
    BY <1>1, <1>2, <1>4, <1>5
       DEF IndInv, LockInv, MutualExclusion, InCriticalTx, InCriticalCl
  <1>9. OpenInv' /\ TxInv' /\ StoreInv'
    BY <1>1 DEF IndInv, OpenInv, TxInv, StoreInv, SigOK, SnapshotInv, Backed, Live
  <1>10. PaymentInv'
    <2>1. /\ store[pay.ch].stored /\ pay.nonce < store[pay.ch].data.nonce
          /\ pay.amount <= pay.full
          /\ pay.sig # NoSignature => pay.sig = [nonce |-> pay.nonce, amount |-> pay.amount]
          /\ (block < store[pay.ch].data.exp /\ pay.nonce = chain[pay.ch].nonce)
                => pay.full <= chain[pay.ch].value
          /\ Follows(store[pay.ch].data, pay)
      BY <1>3, <1>6, <1>7 DEF SigOK, Follows
    <2>2. \A q \in payments : q.ch = pay.ch => Follows(q, pay) /\ Follows(pay, q)
      BY <1>3, <1>6, <1>7 DEF Follows
    <2>3. Follows(pay, pay)
      BY <1>3, <1>7 DEF Follows
    <2> HIDE DEF ch, old, s
    <2>4. payments' \subseteq payments \cup {pay} /\ store' = store /\ chain' = chain /\ block' = block
      BY <1>1
    <2>5. PaymentInv
      BY DEF IndInv
    <2> HIDE DEF IndInv
    <2>6. QED
      BY <2>1, <2>2, <2>3, <2>4, <2>5 DEF PaymentInv, Follows, Live
  <1>11. ClInv'
    <2> SUFFICES ASSUME NEW e \in Claimers, cl'[e].pc = "putPayment"
                 PROVE  cl'[e] = cl[e] /\ cl[e].ch # pay.ch
      BY <1>1 DEF IndInv, ClInv, Live, Follows, SigOK
    <2>1. QED
      BY <1>2, <1>3, <1>4, <1>5 DEF InCriticalCl
  <1>12. QED
    BY <1>8, <1>9, <1>10, <1>11

-----------------------------------------------------------------------------
(***************************************************************************)
(* Steps of the contract.                                                  *)
(***************************************************************************)

LEMMA OpenChannelInv ==
    ASSUME IndInv, NEW ch \in Channels, NEW payee, NEW v, NEW e,
           OpenChannel(ch, payee, v, e)
    PROVE  LockInv' /\ OpenInv' /\ StoreInv' /\ PaymentInv' /\ TxInv' /\ ClInv'
  <1> DEFINE new == [open |-> TRUE, payee |-> payee, nonce |-> 0, value |-> v, exp |-> e]
  <1>1. /\ chain' = [chain EXCEPT ![ch] = new] /\ ~chain[ch].open
        /\ UNCHANGED <<block, store, payments, lock, tx, cl>>
    BY DEF OpenChannel
  <1>2. new.open
    OBVIOUS
  <1> HIDE DEF new
  <1>3. chain'[ch].open /\ \A h \in Channels : h # ch => chain'[h] = chain[h]
    BY <1>1, <1>2 DEF IndInv, TypeOK
  <1>4. /\ ~store[ch].stored
        /\ \A p \in Payers : tx[p].pc \in Reading => tx[p].ch # ch
    BY <1>1 DEF IndInv, OpenInv
  <1>5. /\ \A pay \in payments : pay.ch # ch /\ pay.ch \in Channels
        /\ \A c \in Claimers : cl[c].pc = "putPayment" => cl[c].ch # ch
        /\ \A p \in Payers : tx[p].ch \in Channels
        /\ \A c \in Claimers : cl[c].ch \in Channels
    BY <1>4 DEF IndInv, PaymentInv, ClInv, TypeOK, PaymentRecords
  <1>6. LockInv'
    BY <1>1 DEF IndInv, LockInv, MutualExclusion, InCriticalTx, InCriticalCl
  <1>7. OpenInv' /\ StoreInv'
    BY <1>1, <1>3, <1>4 DEF IndInv, OpenInv, StoreInv, Backed, Live, SigOK
  <1>8. PaymentInv'
    <2> SUFFICES ASSUME NEW pay \in payments PROVE chain'[pay.ch] = chain[pay.ch]
      BY ZenonT(60), <1>1 DEF IndInv, PaymentInv, Follows, Live
    <2>1. QED
      BY <1>3, <1>5
  <1>9. TxInv'
    BY <1>1, <1>3, <1>4, <1>5 DEF IndInv, TxInv, SnapshotInv, Backed, Live
  <1>10. ClInv'
    BY <1>1, <1>3, <1>5 DEF IndInv, ClInv, Follows, Live, SigOK
  <1>11. QED
    BY <1>6, <1>7, <1>8, <1>9, <1>10

(* A channel whose contract moves from the record old to the record new in *)
(* one of three ways: it gets more value or time; it has expired; or a     *)
(* payment of its current nonce is settled.                                *)
Grows(old, new) ==
    new.nonce = old.nonce /\ new.value >= old.value /\ new.exp >= old.exp

Expires(old, new) ==
    new.nonce = old.nonce + 1 /\ block >= old.exp

Settles(ch, old, new) ==
    /\ new.nonce = old.nonce + 1 /\ new.exp = old.exp
    /\ \E pay \in payments :
         /\ pay.ch = ch /\ pay.nonce = old.nonce
         /\ new.value = old.value - pay.amount

LEMMA ChainStep ==
    ASSUME IndInv, NEW ch \in Channels, NEW new \in ChainChannels, new.open = chain[ch].open,
           chain' = [chain EXCEPT ![ch] = new],
           UNCHANGED <<block, store, payments, lock, tx, cl>>,
           \/ Grows(chain[ch], new) \/ Expires(chain[ch], new)
           \/ Settles(ch, chain[ch], new)
    PROVE  LockInv' /\ OpenInv' /\ StoreInv' /\ PaymentInv' /\ TxInv' /\ ClInv'
  <1> DEFINE s == store[ch].data
             old == chain[ch]
  <1>1. chain'[ch] = new /\ \A h \in Channels : h # ch => chain'[h] = chain[h]
    BY DEF IndInv, TypeOK
  <1>t. /\ old.nonce \in Nat /\ old.value \in Nat /\ old.exp \in Nat /\ block \in Nat
        /\ new.nonce \in Nat /\ new.value \in Nat /\ new.exp \in Nat
        /\ s.nonce \in Nat /\ s.full \in Nat /\ s.exp \in Nat
        /\ \A pay \in payments : /\ pay.ch \in Channels /\ pay.nonce \in Nat
                                 /\ pay.full \in Nat /\ pay.amount \in Nat
        /\ \A p \in Payers : tx[p].ch \in Channels
        /\ \A c \in Claimers : cl[c].ch \in Channels
    BY DEF IndInv, TypeOK, ChainChannels, ChannelData, PaymentRecords
  <1>2. store[ch].stored =>
           SigOK(s) /\ s.auth <= s.full /\ Backed(ch, s)
    BY DEF IndInv, StoreInv
  <1>3. \A pay \in payments : pay.ch = ch =>
           /\ store[ch].stored /\ pay.nonce < s.nonce /\ Follows(s, pay)
           /\ (block < s.exp /\ pay.nonce = old.nonce) => pay.full <= old.value
           /\ \A q \in payments : q.ch = ch => Follows(q, pay)
    BY DEF IndInv, PaymentInv, Live
  <1>4. LockInv' /\ OpenInv'
    BY <1>1 DEF IndInv, LockInv, MutualExclusion, InCriticalTx, InCriticalCl, OpenInv
  <1>5. ASSUME NEW d, store[ch].stored, d.exp \in Nat, d.nonce \in Nat, d.full \in Nat,
               d.exp = s.exp, block < d.exp, d.nonce = new.nonce,
               d.nonce = old.nonce => d.full <= old.value,
               \A pay \in payments : pay.ch = ch => Follows(d, pay)
        PROVE  d.full <= new.value
    <2>1. ~Expires(old, new)
      BY <1>t, <1>2, <1>5 DEF Expires, Backed, Live
    <2>2. CASE Grows(old, new)
      BY <1>t, <1>5, <2>2 DEF Grows
    <2>3. CASE Settles(ch, old, new)
      BY <1>t, <1>3, <1>5, <2>3 DEF Settles, Follows
    <2>4. QED
      BY <2>1, <2>2, <2>3
  <1>6. ASSUME store[ch].stored, block < s.exp
        PROVE  /\ new.nonce <= s.nonce /\ s.exp <= new.exp
               /\ s.nonce = new.nonce => s.full <= new.value
    <2>1. ~Expires(old, new)
      BY <1>t, <1>2, <1>6 DEF Expires, Backed, Live
    <2>2. new.nonce <= s.nonce /\ s.exp <= new.exp
      BY <1>t, <1>2, <1>3, <1>6, <2>1 DEF Grows, Settles, Backed, Live
    <2>3. s.nonce = new.nonce => s.full <= new.value
      BY <1>t, <1>2, <1>3, <1>5, <1>6 DEF Backed, Live
    <2>4. QED
      BY <2>2, <2>3
  <1>7. new.nonce >= old.nonce
    BY <1>t DEF Grows, Expires, Settles
  <1> HIDE DEF s, old
  <1>8. StoreInv'
    BY <1>1, <1>2, <1>6 DEF IndInv, StoreInv, SigOK, Backed, Live, s
  <1>9. PaymentInv'
    <2>1. ASSUME NEW pay \in payments, pay.ch = ch
          PROVE  /\ (block < s.exp /\ pay.nonce = new.nonce) => pay.full <= new.value
                 /\ new.nonce <= pay.nonce => old.nonce <= pay.nonce
      <3>1. ASSUME block < s.exp, pay.nonce = new.nonce
            PROVE  pay.full <= new.value
        <4>1. ~Expires(old, new)
          BY <1>t, <1>2, <1>3, <2>1, <3>1 DEF Expires, Backed, Live, old
        <4>2. CASE Grows(old, new)
          BY <1>t, <1>3, <2>1, <3>1, <4>2 DEF Grows
        <4>3. CASE Settles(ch, old, new)
          BY <1>t, <1>3, <2>1, <3>1, <4>3 DEF Settles, Follows, old
        <4>4. QED
          BY <4>1, <4>2, <4>3 DEF old
      <3>2. QED
        BY <1>t, <1>7, <2>1, <3>1
    <2>2. ASSUME NEW pay \in payments
          PROVE  /\ (block < store[pay.ch].data.exp /\ pay.nonce = chain'[pay.ch].nonce)
                       => pay.full <= chain'[pay.ch].value
                 /\ chain'[pay.ch].nonce <= pay.nonce => chain[pay.ch].nonce <= pay.nonce
      <3>1. CASE pay.ch = ch
        BY <1>1, <2>1, <3>1 DEF s, old
      <3>2. CASE pay.ch # ch
        BY <1>1, <1>t, <3>2 DEF IndInv, PaymentInv, Live
      <3>3. QED
        BY <3>1, <3>2
    <2>3. QED
      BY <2>2 DEF IndInv, PaymentInv, Follows, Live
  <1>10. TxInv'
    <2> SUFFICES ASSUME NEW p \in Payers, tx[p].pc \in Reading
                 PROVE  SnapshotInv(tx[p].ch, store[tx[p].ch], tx[p].chan)'
      BY TxInvKept DEF IndInv
    <2>0. SnapshotInv(tx[p].ch, store[tx[p].ch], tx[p].chan)
      BY DEF IndInv, TxInv
    <2> SUFFICES ASSUME tx[p].ch = ch, SnapshotInv(ch, store[ch], tx[p].chan)
                 PROVE  SnapshotInv(ch, store[ch], tx[p].chan)'
      <3>1. CASE tx[p].ch # ch
        BY <1>1, <1>t, <2>0, <3>1, SnapshotKept
      <3>2. CASE tx[p].ch = ch
        BY <2>0, <3>2
      <3>3. QED
        BY <3>1, <3>2
    <2> DEFINE k == tx[p].chan
    <2>1. k.nonce \in Nat /\ k.exp \in Nat /\ k.full \in Nat
      BY DEF IndInv, TypeOK, ChannelData
    <2>2. ASSUME block < k.exp
          PROVE  /\ new.nonce <= k.nonce /\ k.exp <= new.exp
                 /\ k.nonce = new.nonce => k.full <= new.value
      <3>1. Backed(ch, k)
        BY DEF SnapshotInv
      <3>2. CASE k.nonce > old.nonce
        BY <1>6, <2>2, <3>2 DEF SnapshotInv, s, old
      <3>3. CASE k.nonce <= old.nonce
        <4>1. k.nonce = old.nonce /\ k.full <= old.value /\ k.exp <= old.exp
          BY <1>t, <2>1, <2>2, <3>1, <3>3 DEF Backed, Live, old
        <4>2. ~Expires(old, new)
          BY <1>t, <2>1, <2>2, <4>1 DEF Expires
        <4>3. ~Settles(ch, old, new)
          <5> SUFFICES ASSUME NEW pay \in payments, pay.ch = ch, pay.nonce = old.nonce
                       PROVE  FALSE
            BY DEF Settles
          <5>1. store[ch].stored /\ pay.nonce < s.nonce
            BY <1>3
          <5>2. s.nonce <= k.nonce
            BY <5>1 DEF SnapshotInv, s
          <5>3. QED
            BY <1>t, <2>1, <4>1, <5>1, <5>2
        <4>4. Grows(old, new)
          BY <4>2, <4>3 DEF old
        <4>5. QED
          BY <1>t, <2>1, <4>1, <4>4 DEF Grows
      <3>4. QED
        BY <1>t, <2>1, <3>2, <3>3
    <2>3. QED
      BY <1>1, <1>t, <1>7, <2>1, <2>2 DEF SnapshotInv, Backed, Live, old
  <1>11. ClInv'
    <2> SUFFICES ASSUME NEW c \in Claimers, cl[c].pc = "putPayment", cl[c].ch = ch
                 PROVE  /\ (block < cl[c].chan.exp /\ cl[c].chan.nonce = new.nonce)
                              => cl[c].chan.full <= new.value
                        /\ \A pay \in payments : pay.ch = ch => Follows(cl[c].chan, pay)'
      BY <1>1, <1>t DEF IndInv, ClInv, Live, Follows, SigOK
    <2> DEFINE k == cl[c].chan
    <2>1. k.nonce \in Nat /\ k.exp \in Nat /\ k.full \in Nat
      BY DEF IndInv, TypeOK, ChannelData
    <2>2. /\ store[ch].stored /\ s.exp = k.exp
          /\ (block < k.exp /\ k.nonce = old.nonce) => k.full <= old.value
          /\ \A pay \in payments : pay.ch = ch => Follows(k, pay)
      BY DEF IndInv, ClInv, Live, s, old
    <2>3. (block < k.exp /\ k.nonce = new.nonce) => k.full <= new.value
      BY <1>5, <2>1, <2>2
    <2>4. \A pay \in payments : pay.ch = ch => Follows(k, pay)'
      BY <1>1, <1>t, <1>7, <2>1, <2>2 DEF Follows, old
    <2>5. QED
      BY <2>3, <2>4
  <1>12. QED
    BY <1>4, <1>8, <1>9, <1>10, <1>11

LEMMA ContractInv ==
    ASSUME IndInv, Contract
    PROVE  LockInv' /\ OpenInv' /\ StoreInv' /\ PaymentInv' /\ TxInv' /\ ClInv'
  <1>0. /\ \A ch \in Channels : chain[ch] \in ChainChannels
        /\ \A pay \in payments : pay.ch \in Channels /\ pay.amount \in Nat /\ pay.nonce \in Nat
        /\ block \in Nat
    BY DEF IndInv, TypeOK, PaymentRecords
  <1> DEFINE Goal == LockInv' /\ OpenInv' /\ StoreInv' /\ PaymentInv' /\ TxInv' /\ ClInv'
  <1>a. ASSUME NEW ch \in Channels, NEW n \in Nat, NEW v \in Nat, NEW e \in Nat,
               chain' = [chain EXCEPT ![ch] = SetChannel(chain[ch], n, v, e)],
               UNCHANGED <<block, store, payments, lock, tx, cl>>,
               \/ n = chain[ch].nonce /\ v >= chain[ch].value /\ e >= chain[ch].exp
               \/ n = chain[ch].nonce + 1 /\ block >= chain[ch].exp
               \/ /\ n = chain[ch].nonce + 1 /\ e = chain[ch].exp
                  /\ \E pay \in payments : /\ pay.ch = ch /\ pay.nonce = chain[ch].nonce
                                           /\ v = chain[ch].value - pay.amount
        PROVE  Goal
    <2> DEFINE new == SetChannel(chain[ch], n, v, e)
    <2>1. /\ new \in ChainChannels /\ new.open = chain[ch].open
          /\ new.nonce = n /\ new.value = v /\ new.exp = e
      BY <1>0 DEF SetChannel, ChainChannels
    <2>2. chain' = [chain EXCEPT ![ch] = new]
      BY <1>a
    <2> HIDE DEF new
    <2>3. \/ Grows(chain[ch], new) \/ Expires(chain[ch], new)
          \/ Settles(ch, chain[ch], new)
      BY <1>a, <2>1 DEF Grows, Expires, Settles
    <2>4. QED
      BY <1>a, <2>1, <2>2, <2>3, ChainStep
  <1> SUFFICES Goal
    OBVIOUS
  <1> HIDE DEF Goal
  <1>1. ASSUME NEW ch \in Channels, NEW payee \in Payees, NEW v \in Deposits,
               NEW e \in Expirations, OpenChannel(ch, payee, v, e)
        PROVE  Goal
    BY <1>1, OpenChannelInv DEF Goal
  <1>2. ASSUME NEW ch \in Channels, NEW v \in Deposits, ChannelAddFunds(ch, v)
        PROVE  Goal
    <2>1. /\ chain[ch].nonce \in Nat /\ chain[ch].value \in Nat /\ chain[ch].exp \in Nat
          /\ v \in Nat
      BY <1>0, ConstantsAssumption DEF ChainChannels
    <2>2. chain[ch].value + v \in Nat /\ chain[ch].value + v >= chain[ch].value
          /\ chain[ch].exp >= chain[ch].exp
      BY <2>1
    <2>3. QED
      BY <1>2, <1>a, <2>1, <2>2 DEF ChannelAddFunds
  <1>3. ASSUME NEW ch \in Channels, NEW e \in Expirations, ChannelExtend(ch, e)
        PROVE  Goal
    <2>1. /\ chain[ch].nonce \in Nat /\ chain[ch].value \in Nat /\ chain[ch].exp \in Nat
          /\ e \in Nat
      BY <1>0, ConstantsAssumption DEF ChainChannels
    <2>2. e >= chain[ch].exp /\ chain[ch].value >= chain[ch].value
      BY <1>3, <2>1 DEF ChannelExtend
    <2>3. QED
      BY <1>3, <1>a, <2>1, <2>2 DEF ChannelExtend
  <1>4. ASSUME NEW ch \in Channels, ChannelClaimTimeout(ch)
        PROVE  Goal
    <2>1. chain[ch].nonce + 1 \in Nat
      BY <1>0 DEF ChainChannels
    <2>2. QED
      BY <1>4, <1>a, <2>1 DEF ChannelClaimTimeout
  <1>5. ASSUME NEW pay \in payments, ChannelClaim(pay)
        PROVE  Goal
    <2> DEFINE ch == pay.ch
    <2>1. /\ ch \in Channels /\ pay.amount \in Nat
          /\ chain[ch].nonce \in Nat /\ chain[ch].value \in Nat /\ chain[ch].exp \in Nat
      BY <1>0 DEF ChainChannels
    <2>2. /\ pay.sig = [nonce |-> chain[ch].nonce, amount |-> pay.amount]
          /\ pay.amount <= chain[ch].value
          /\ chain' = [chain EXCEPT ![ch] = SetChannel(chain[ch], chain[ch].nonce + 1,
                           chain[ch].value - pay.amount, chain[ch].exp)]
          /\ UNCHANGED <<block, store, payments, lock, tx, cl>>
      BY <1>5 DEF ChannelClaim
    <2>3. pay.sig \in Signatures
      BY <2>1, <2>2 DEF Signatures
    <2>4. pay.sig = [nonce |-> pay.nonce, amount |-> pay.amount]
      BY <2>3, ConstantsAssumption DEF IndInv, PaymentInv
    <2>5. pay.nonce = chain[ch].nonce
      BY <2>2, <2>4
    <2>6. chain[ch].value - pay.amount \in Nat /\ chain[ch].nonce + 1 \in Nat
      BY <2>1, <2>2
    <2>7. QED
      BY <1>a, <2>1, <2>2, <2>5, <2>6
  <1>6. CASE NewBlock
    <2>1. /\ block' = block + 1
          /\ UNCHANGED <<chain, store, payments, lock, tx, cl>>
      BY <1>6 DEF NewBlock
    <2>2. ASSUME NEW x \in Nat, block' < x
          PROVE  block < x
      BY <1>0, <2>1, <2>2
    <2>3. /\ \A ch \in Channels : store[ch].data.exp \in Nat
          /\ \A p \in Payers : tx[p].chan.exp \in Nat
          /\ \A c \in Claimers : cl[c].chan.exp \in Nat
      BY DEF IndInv, TypeOK, ChannelData
    <2>4. LockInv' /\ OpenInv'
      BY <2>1 DEF IndInv, LockInv, MutualExclusion, InCriticalTx, InCriticalCl, OpenInv
    <2>5. StoreInv' /\ PaymentInv'
      BY <1>0, <2>1, <2>2, <2>3 DEF IndInv, StoreInv, PaymentInv, Backed, Live, Follows, SigOK
    <2>6. TxInv'
      BY <2>1, <2>2, <2>3 DEF IndInv, TxInv, SnapshotInv, Backed, Live
    <2>7. ClInv'
      BY <2>1, <2>2, <2>3 DEF IndInv, ClInv, Live, Follows, SigOK
    <2>8. QED
      BY <2>4, <2>5, <2>6, <2>7 DEF Goal
  <1>7. QED
    BY <1>1, <1>2, <1>3, <1>4, <1>5, <1>6 DEF Contract

-----------------------------------------------------------------------------
(***************************************************************************)
(* The theorems.                                                           *)
(***************************************************************************)

LEMMA NextIndInv ==
    ASSUME IndInv, [Next]_vars, "unlock" \notin Faults
    PROVE  IndInv'
  <1> DEFINE Goal == LockInv' /\ OpenInv' /\ StoreInv' /\ PaymentInv' /\ TxInv' /\ ClInv'
  <1>1. ASSUME NEW p \in Payers, Payment(p)
        PROVE  TypeOK' /\ Goal
    <2>1. TypeOK'
      BY <1>1, PaymentType DEF IndInv
    <2>2. Goal
      BY <1>1, PaymentLocal, PaymentLocking, CommitInv DEF Payment, PaymentStep
    <2>3. QED
      BY <2>1, <2>2
  <1>2. ASSUME NEW c \in Claimers, Claim(c)
        PROVE  TypeOK' /\ Goal
    <2>1. TypeOK'
      BY <1>2, ClaimType DEF IndInv
    <2>2. Goal
      BY <1>2, ClaimLocal, ClaimLocking, RemoveClaimedPaymentInv, PutNextChannelInv,
         PutPaymentInv DEF Claim, ClaimStep
    <2>3. QED
      BY <2>1, <2>2
  <1>3. ASSUME NEW ch \in Channels, LockTimesOut(ch) \/ UnlockChannel(ch)
        PROVE  TypeOK' /\ Goal
    <2>1. TypeOK'
      BY <1>3 DEF IndInv, TypeOK, LockTimesOut, Lock, UnlockChannel
    <2>2. Goal
      BY <1>3, LockOnly
    <2>3. QED
      BY <2>1, <2>2
  <1>4. ASSUME Contract
        PROVE  TypeOK' /\ Goal
    BY <1>4, ContractType, ContractInv DEF IndInv
  <1>5. ASSUME UNCHANGED vars
        PROVE  TypeOK' /\ Goal
    <2>0. UNCHANGED <<chain, block, store, payments, lock, tx, cl>>
      BY <1>5 DEF vars
    <2>1. TypeOK'
      BY <2>0 DEF IndInv, TypeOK
    <2>2. LockInv' /\ OpenInv'
      BY <2>0 DEF IndInv, LockInv, MutualExclusion, InCriticalTx, InCriticalCl, OpenInv
    <2>3. StoreInv' /\ PaymentInv'
      BY <2>0 DEF IndInv, StoreInv, PaymentInv, Backed, Live, Follows, SigOK
    <2>4. TxInv'
      BY <2>0 DEF IndInv, TxInv, SnapshotInv, Backed, Live
    <2>5. ClInv'
      BY <2>0 DEF IndInv, ClInv, Live, Follows, SigOK
    <2>6. QED
      BY <2>1, <2>2, <2>3, <2>4, <2>5
  <1>6. TypeOK' /\ Goal
    BY <1>1, <1>2, <1>3, <1>4, <1>5 DEF Next
  <1>7. QED
    BY <1>6 DEF IndInv

(* The inductive invariant holds, provided operators unlock a channel only *)
(* when the request that locked it is gone.                                *)
THEOREM Inductive ==
    ASSUME "unlock" \notin Faults
    PROVE  Spec => []IndInv
  <1>1. Init => IndInv
    BY InitIndInv
  <1>2. IndInv /\ [Next]_vars => IndInv'
    BY NextIndInv
  <1>3. QED
    BY <1>1, <1>2, PTL DEF Spec

(* Every value the service stores or holds has its type; in particular the *)
(* subtraction of IncrementChannelNonce never goes below zero.             *)
THEOREM TypeCorrectness ==
    ASSUME "unlock" \notin Faults
    PROVE  Spec => []TypeOK
  <1>1. IndInv => TypeOK
    BY DEF IndInv
  <1>2. QED
    BY <1>1, Inductive, PTL

(* The ownerless lock of lock.go excludes, through crashes, lost answers   *)
(* and manual unlocks.                                                     *)
THEOREM LockExcludes ==
    ASSUME "unlock" \notin Faults
    PROVE  Spec => []MutualExclusion
  <1>1. IndInv => MutualExclusion
    BY DEF IndInv, LockInv
  <1>2. QED
    BY <1>1, Inductive, PTL

(* No overexpenditure: the claim that is next on chain is covered while    *)
(* the stored channel has not expired.                                     *)
THEOREM NoOverexpenditure ==
    ASSUME "unlock" \notin Faults
    PROVE  Spec => []NextClaimCovered
  <1>1. IndInv => NextClaimCovered
    <2> SUFFICES ASSUME IndInv, NEW pay \in payments,
                        pay.nonce = chain[pay.ch].nonce, Live(store[pay.ch].data)
                 PROVE  pay.amount <= chain[pay.ch].value
      BY DEF NextClaimCovered
    <2>1. pay.amount \in Nat /\ pay.full \in Nat /\ chain[pay.ch].value \in Nat
      BY DEF IndInv, TypeOK, PaymentRecords, ChainChannels
    <2>2. pay.amount <= pay.full /\ pay.full <= chain[pay.ch].value
      BY DEF IndInv, PaymentInv
    <2>3. QED
      BY <2>1, <2>2
  <1>2. QED
    BY <1>1, Inductive, PTL

(* Only Commit and the first write of a claim change a stored channel.     *)
LEMMA StoreWriters ==
    ASSUME Next
    PROVE  \/ UNCHANGED store
           \/ \E p \in Payers : Commit(p)
           \/ \E c \in Claimers : PutNextChannel(c)
  <1>1. ASSUME NEW p \in Payers, Payment(p) PROVE UNCHANGED store \/ Commit(p)
    BY <1>1 DEF Payment, StartPaymentTransaction, GetToken, PaymentStep,
       StartTokenTransaction, ReadChannel, ValidatePayment, CheckIncome, CallService,
       Rollback, CrashPayment
  <1>2. ASSUME NEW c \in Claimers, Claim(c) PROVE UNCHANGED store \/ PutNextChannel(c)
    BY <1>2 DEF Claim, StartClaim, StartClaimForMultipleChannels, GetListInProgress,
       ClaimStep, ListClaims, NextChannel, RemoveClaimedPayment, CheckAuthorizedAmount,
       LockForClaim, PutPayment, UnlockClaim, CrashClaim
  <1>3. Contract => UNCHANGED store
    BY DEF Contract, OpenChannel, ChannelAddFunds, ChannelExtend, ChannelClaim,
       ChannelClaimTimeout, NewBlock
  <1>4. QED
    BY <1>1, <1>2, <1>3 DEF Next, LockTimesOut, UnlockChannel

(* Accounting: the amount stored by a call's Commit grows by exactly the   *)
(* call's price, whatever came in between; other changes are claims and    *)
(* token requests.                                                         *)
THEOREM Accounting ==
    ASSUME "unlock" \notin Faults
    PROVE  Spec => IncomeStep
  <1> DEFINE A == \A ch \in Channels : store'[ch] # store[ch] =>
          LET d == store[ch].data
              e == store'[ch].data
              before == IF store[ch].stored /\ e.nonce = d.nonce THEN d.auth ELSE 0
          IN  \/ store[ch].stored /\ e.nonce = d.nonce + 1 /\ e.auth = 0
              \/ /\ store[ch].stored => e.nonce >= d.nonce
                 /\ \E p \in Payers :
                      /\ tx[p].pc = "commit" /\ tx[p].ch = ch
                      /\ p \in Calls => e.auth = before + tx[p].price
                      /\ p \in Tokens => e.auth <= e.full
  <1>1. ASSUME IndInv, NEW p \in Payers, Commit(p) PROVE A
    <2> DEFINE d == PaidChannel(tx[p])
               new == [stored |-> TRUE, data |-> d]
    <2>1. store' = [store EXCEPT ![tx[p].ch] = new] \/ store' = store
      BY <1>1 DEF Commit
    <2>2. /\ tx[p] \in TxType /\ TxOK(p, tx[p]) /\ tx[p].pc = "commit" /\ tx[p].ch \in Channels
      BY <1>1, TxInvTxOK DEF Commit, TxType
    <2>3. /\ d.nonce = tx[p].chan.nonce /\ d.auth = tx[p].amount
          /\ d.full = tx[p].chan.full /\ new.data = d
      BY DEF PaidChannel
    <2>4. /\ SnapshotInv(tx[p].ch, store[tx[p].ch], tx[p].chan)
          /\ tx[p].amount <= tx[p].chan.full
          /\ p \in Calls => tx[p].amount = tx[p].chan.auth + tx[p].price
      BY <2>2 DEF TxOK, Reading, Accepted
    <2>5. /\ store[tx[p].ch].data.nonce \in Nat /\ tx[p].chan.nonce \in Nat
          /\ tx[p].chan.auth \in Nat /\ store[tx[p].ch].data.auth \in Nat
          /\ tx[p].price \in Nat
      BY <1>1, <2>2 DEF IndInv, TypeOK, ChannelData
    <2> HIDE DEF d, new
    <2>6. store \in [Channels -> [stored : BOOLEAN, data : ChannelData]]
      BY <1>1 DEF IndInv, TypeOK
    <2>7. ASSUME NEW ch \in Channels, store'[ch] # store[ch]
          PROVE  ch = tx[p].ch /\ store'[ch].data = d
      BY <2>1, <2>2, <2>3, <2>6, <2>7
    <2>8. QED
      BY <2>2, <2>3, <2>4, <2>5, <2>7 DEF SnapshotInv
  <1>2. ASSUME IndInv, NEW c \in Claimers, PutNextChannel(c) PROVE A
    <2> DEFINE ch == cl[c].ch
               d == IncrementChannelNonce(store[ch].data)
               new == [store[ch] EXCEPT !.data = d]
    <2>1. \/ store[ch].stored /\ store' = [store EXCEPT ![ch] = new]
          \/ store' = store
      BY <1>2 DEF PutNextChannel
    <2>2. /\ store \in [Channels -> [stored : BOOLEAN, data : ChannelData]]
          /\ ch \in Channels
      BY <1>2 DEF IndInv, TypeOK
    <2>3. new.data = d /\ d.nonce = store[ch].data.nonce + 1 /\ d.auth = 0
      BY <2>2 DEF IncrementChannelNonce
    <2>4. store[ch].data.nonce \in Nat
      BY <2>2 DEF ChannelData
    <2> HIDE DEF d, new, ch
    <2>5. QED
      BY <2>1, <2>2, <2>3, <2>4
  <1>3. IndInv /\ [Next]_vars => [A]_vars
    <2>1. UNCHANGED store => A
      OBVIOUS
    <2>2. QED
      BY <1>1, <1>2, <2>1, StoreWriters
  <1>4. QED
    BY <1>3, Inductive, PTL DEF Spec, IncomeStep

(* What GetChannelState leaves to the client to subtract is exactly what   *)
(* the contract has still to settle, as long as at most one claim is under *)
(* way, whatever faults happened.                                          *)
THEOREM UnspentIsExact ==
    ASSUME "unlock" \notin Faults
    PROVE  Spec => []UnspentAmountIsExact
  <1>1. ASSUME IndInv, NEW ch \in Channels, ChannelStateOk(ch),
               PaymentChannel(ch, TRUE).nonce <= chain[ch].nonce + 1
        PROVE  {pay \in payments : pay.ch = ch /\ pay.nonce >= chain[ch].nonce}
                   = OldPayments(ch)
    <2> DEFINE b == GetChannelStateFromBlockchain(ch)
               s == store[ch].data
               k == PaymentChannel(ch, TRUE)
    <2>1. /\ s.nonce \in Nat /\ chain[ch].nonce \in Nat /\ b.nonce = chain[ch].nonce
          /\ \A pay \in payments : pay.nonce \in Nat
      BY <1>1 DEF IndInv, TypeOK, ChannelData, ChainChannels, PaymentRecords,
         GetChannelStateFromBlockchain
    <2>2. \A pay \in payments : pay.ch = ch => store[ch].stored /\ pay.nonce < s.nonce
      BY <1>1 DEF IndInv, PaymentInv
    <2>3. BlockchainOk(ch, TRUE)
      BY <1>1 DEF ChannelStateOk
    <2> HIDE DEF b, s
    <2>4. k.nonce = IF store[ch].stored /\ s.nonce > b.nonce THEN s.nonce ELSE b.nonce
      <3>1. k = IF store[ch].stored THEN MergeStorageAndBlockchainChannelState(s, b) ELSE b
        BY <2>3 DEF PaymentChannel, s, b
      <3> HIDE DEF k
      <3>2. MergeStorageAndBlockchainChannelState(s, b).nonce
               = IF s.nonce > b.nonce THEN s.nonce ELSE b.nonce
        BY <2>1 DEF MergeStorageAndBlockchainChannelState
      <3>3. QED
        BY <3>1, <3>2
    <2>5. OldPayments(ch) = IF k.nonce = chain[ch].nonce THEN {}
                            ELSE {pay \in payments : pay.ch = ch /\ pay.nonce + 1 = k.nonce}
      BY DEF OldPayments
    <2>6. k.nonce <= chain[ch].nonce + 1
      BY <1>1
    <2> HIDE DEF k
    <2>7. QED
      BY <2>1, <2>2, <2>4, <2>5, <2>6
  <1>2. IndInv => UnspentAmountIsExact
    BY <1>1 DEF UnspentAmountIsExact, Outstanding, Due
  <1>3. QED
    BY <1>2, Inductive, PTL

-----------------------------------------------------------------------------
(***************************************************************************)
(* The steps of requests, by what they do to the lock, the storage and the *)
(* request's place in its handler.  The remaining results need no more.    *)
(***************************************************************************)

(* A step of payment request p: it takes the lock, goes on under it,       *)
(* releases it, or dies.                                                   *)
PayerMove(p) ==
    LET r == tx[p]
        n == tx'[p]
    IN  /\ \A q \in Payers : q # p => tx'[q] = tx[q]
        /\ UNCHANGED <<chain, block, payments, cl>>
        /\ \/ r.pc \notin Critical /\ n.pc \in Critical /\ n.ch \in Channels /\ Lock(n.ch)
           \/ r.pc \notin Critical /\ n.pc \notin Critical /\ UNCHANGED lock
           \/ r.pc \in Critical /\ n.pc \in Critical /\ n.ch = r.ch /\ UNCHANGED lock
           \/ r.pc \in Critical /\ n.pc = "idle" /\ Unlock(r.ch)
           \/ r.pc # "idle" /\ n.pc = "idle" /\ UNCHANGED lock

LEMMA PayerMoves ==
    ASSUME TypeOK, NEW p \in Payers, Payment(p)
    PROVE  PayerMove(p)
  <1>0. tx[p] \in TxType /\ tx \in [Payers -> TxType]
    BY DEF TypeOK, TxType
  <1>i. IdleTx.pc = "idle"
    BY DEF IdleTx
  <1>f. Finishing(p).pc = "unlock" /\ Finishing(p).ch = tx[p].ch
    BY DEF Finishing
  <1>a. ASSUME NEW new, tx' = [tx EXCEPT ![p] = new]
        PROVE  tx'[p] = new /\ \A q \in Payers : q # p => tx'[q] = tx[q]
    BY <1>0, <1>a
  <1>b. ASSUME NEW new, tx' = [tx EXCEPT ![p] = new], tx[p].pc \in Critical,
               new.pc \in Critical, new.ch = tx[p].ch,
               UNCHANGED <<chain, block, payments, lock, cl>>
        PROVE  PayerMove(p)
    BY <1>a, <1>b DEF PayerMove
  <1>1. ASSUME NEW ch \in Channels, NEW n \in 0..MaxNonce, NEW a \in Amounts,
               NEW signed \in BOOLEAN, StartPaymentTransaction(p, ch, n, a, signed)
        PROVE  PayerMove(p)
    <2> DEFINE new == NewTx("locked", ch, n, a, signed)
    <2>1. new.pc \in Critical /\ new.ch = ch
      BY DEF Critical, NewTx
    <2>2. /\ tx[p].pc = "idle" /\ Lock(ch) /\ tx' = [tx EXCEPT ![p] = new]
          /\ UNCHANGED <<chain, block, payments, cl>>
      BY <1>1 DEF StartPaymentTransaction
    <2> HIDE DEF new
    <2>3. QED
      BY <1>a, <2>1, <2>2 DEF PayerMove, Critical
  <1>g. ASSUME NEW ch \in Channels, NEW n \in 0..MaxNonce, NEW a \in Amounts,
               NEW signed \in BOOLEAN, GetToken(p, ch, n, a, signed)
        PROVE  PayerMove(p)
    <2> DEFINE new == NewTx("token", ch, n, a, signed)
    <2>1. new.pc \notin Critical
      BY DEF Critical, NewTx
    <2>2. /\ tx[p].pc = "idle" /\ tx' = [tx EXCEPT ![p] = new]
          /\ UNCHANGED <<chain, block, payments, lock, cl>>
      BY <1>g DEF GetToken
    <2> HIDE DEF new
    <2>3. QED
      BY <1>a, <2>1, <2>2 DEF PayerMove, Critical
  <1>t. CASE StartTokenTransaction(p)
    <2> DEFINE new == [tx[p] EXCEPT !.pc = "locked"]
    <2>1. new.pc \in Critical /\ new.ch = tx[p].ch /\ tx[p].ch \in Channels
      BY <1>0, TxProjections DEF Critical, TxType
    <2>2. /\ \/ tx' = [tx EXCEPT ![p] = new] /\ Lock(tx[p].ch)
             \/ tx' = [tx EXCEPT ![p] = IdleTx] /\ UNCHANGED lock
          /\ tx[p].pc = "token" /\ UNCHANGED <<chain, block, payments, cl>>
      BY <1>t DEF StartTokenTransaction
    <2> HIDE DEF new
    <2>3. QED
      BY <1>a, <1>i, <2>1, <2>2 DEF PayerMove, Critical
  <1>2. CASE ReadChannel(p)
    <2> DEFINE new(up) == [tx[p] EXCEPT !.pc = "read",
                                        !.chan = PaymentChannel(tx[p].ch, up)]
    <2>1. \A up : new(up).pc = "read" /\ new(up).ch = tx[p].ch
      BY <1>0, TxProjections
    <2>2. /\ tx[p].pc = "locked" /\ UNCHANGED <<chain, block, payments, lock, cl>>
          /\ \/ \E up : tx' = [tx EXCEPT ![p] = new(up)]
             \/ tx' = [tx EXCEPT ![p] = Finishing(p)]
      BY <1>2 DEF ReadChannel
    <2> HIDE DEF new
    <2>3. QED
      BY <1>b, <1>f, <2>1, <2>2 DEF Critical
  <1>3. CASE ValidatePayment(p) \/ CallService(p)
    <2> DEFINE new(pc) == [tx[p] EXCEPT !.pc = pc]
    <2>1. \A pc : new(pc).pc = pc /\ new(pc).ch = tx[p].ch
      BY <1>0, TxProjections
    <2>2. /\ tx[p].pc \in {"read", "serving"}
          /\ UNCHANGED <<chain, block, payments, lock, cl>>
          /\ \/ \E pc \in {"started", "commit"} : tx' = [tx EXCEPT ![p] = new(pc)]
             \/ tx' = [tx EXCEPT ![p] = Finishing(p)]
      BY <1>3 DEF ValidatePayment, CallService
    <2> HIDE DEF new
    <2>3. QED
      BY <1>b, <1>f, <2>1, <2>2 DEF Critical
  <1>c. CASE CheckIncome(p)
    <2> DEFINE new(price) == [tx[p] EXCEPT !.pc = "serving", !.price = price]
    <2>1. \A price : new(price).pc = "serving" /\ new(price).ch = tx[p].ch
      BY <1>0, TxProjections
    <2>2. /\ tx[p].pc = "started" /\ UNCHANGED <<chain, block, payments, lock, cl>>
          /\ \/ \E price : tx' = [tx EXCEPT ![p] = new(price)]
             \/ tx' = [tx EXCEPT ![p] = Finishing(p)]
      BY <1>c DEF CheckIncome
    <2> HIDE DEF new
    <2>3. QED
      BY <1>b, <1>f, <2>1, <2>2 DEF Critical
  <1>4. CASE Commit(p)
    BY <1>4, <1>b, <1>f DEF Commit, Critical
  <1>5. CASE Rollback(p)
    BY <1>5, <1>a, <1>i DEF Rollback, PayerMove, Critical
  <1>6. CASE CrashPayment(p)
    BY <1>6, <1>a, <1>i DEF CrashPayment, PayerMove
  <1>7. QED
    BY <1>1, <1>g, <1>t, <1>2, <1>3, <1>c, <1>4, <1>5, <1>6 DEF Payment, PaymentStep

(* The payments left when the one with pay's key is deleted.               *)
Without(pay) == {q \in payments : <<q.ch, q.nonce>> # <<pay.ch, pay.nonce>>}

(* A step of provider request c outside the lock, from the check for an    *)
(* authorized amount to the lock, into the lock, through the two writes    *)
(* under it, out of it, or its end in a crash.                             *)
Outside(c) ==
    /\ cl[c].pc \notin CriticalCl /\ cl'[c].pc \notin CriticalCl \cup {"lock"}
    /\ UNCHANGED <<store, lock>>
    /\ \/ UNCHANGED payments
       \/ \E pay \in cl[c].todo : Claimed(pay) /\ payments' = Without(pay)

FindsAmount(c) ==
    /\ cl[c].pc = "check" /\ cl'[c].pc = "lock" /\ cl'[c].ch = cl[c].ch
    /\ \E up : PaymentChannel(cl[c].ch, up).auth # 0
    /\ UNCHANGED <<store, lock, payments>>

TakesLock(c) ==
    /\ cl[c].pc = "lock" /\ cl'[c].pc = "locked" /\ cl'[c].ch = cl[c].ch
    /\ Lock(cl[c].ch)
    /\ UNCHANGED <<store, payments>>

PutsChannel(c) ==
    LET ch == cl[c].ch
        s == store[ch]
        next == [s EXCEPT !.data = IncrementChannelNonce(s.data)]
    IN  /\ cl[c].pc = "locked" /\ cl'[c].pc \in {"putPayment", "unlock"}
        /\ cl'[c].ch = ch
        /\ store' = store \/ store' = [store EXCEPT ![ch] = next]
        /\ cl'[c].pc = "putPayment" =>
              cl'[c].chan = s.data /\ s.stored /\ store' = [store EXCEPT ![ch] = next]
        /\ "storage" \in Faults \/ store' = store \/ cl'[c].pc = "putPayment"
        /\ UNCHANGED <<lock, payments>>

PutsPayment(c) ==
    LET pay == PaymentFromChannel(cl[c].ch, cl[c].chan)
    IN  /\ cl[c].pc = "putPayment" /\ cl'[c].pc = "unlock" /\ cl'[c].ch = cl[c].ch
        /\ \/ "storage" \in Faults /\ UNCHANGED payments
           \/ payments' = Without(pay) \cup {pay}
        /\ UNCHANGED <<lock, store>>

LeavesLock(c) ==
    /\ cl[c].pc = "unlock" /\ cl'[c].pc \notin CriticalCl \cup {"lock"}
    /\ Unlock(cl[c].ch)
    /\ UNCHANGED <<store, payments>>

Dies(c) ==
    /\ "crash" \in Faults /\ cl'[c].pc = "idle"
    /\ UNCHANGED <<store, lock, payments>>

ClaimerMove(c) ==
    /\ \A d \in Claimers : d # c => cl'[d] = cl[d]
    /\ UNCHANGED <<chain, block, tx>>
    /\ \/ Outside(c) \/ FindsAmount(c) \/ TakesLock(c) \/ PutsChannel(c)
       \/ PutsPayment(c) \/ LeavesLock(c) \/ Dies(c)

LEMMA ClaimerMoves ==
    ASSUME TypeOK, NEW c \in Claimers, Claim(c)
    PROVE  ClaimerMove(c)
  <1>0. cl[c] \in ClType /\ IdleCl \in ClType /\ IdleCl.pc = "idle"
        /\ cl \in [Claimers -> ClType]
    BY IdleTypes DEF TypeOK, ClType, IdleCl
  <1>a. ASSUME NEW new, cl' = [cl EXCEPT ![c] = new]
        PROVE  cl'[c] = new /\ \A d \in Claimers : d # c => cl'[d] = cl[d]
    BY <1>0, <1>a
  <1>b. ASSUME NEW new, cl' = [cl EXCEPT ![c] = new],
               cl[c].pc \notin CriticalCl, new.pc \notin CriticalCl \cup {"lock"},
               UNCHANGED <<chain, block, store, payments, lock, tx>>
        PROVE  ClaimerMove(c)
    BY <1>a, <1>b DEF ClaimerMove, Outside
  <1>1. CASE \/ \E ch \in Channels : StartClaim(c, ch)
             \/ \E chs \in SUBSET Channels : StartClaimForMultipleChannels(c, chs)
             \/ GetListInProgress(c)
    <2> DEFINE new(chs) == [cl[c] EXCEPT !.pc = "list", !.rest = chs]
    <2>1. \A chs : new(chs).pc = "list"
      BY <1>0, ClProjections
    <2>2. /\ cl[c].pc = "idle" /\ \E chs : cl' = [cl EXCEPT ![c] = new(chs)]
          /\ UNCHANGED <<chain, block, store, payments, lock, tx>>
      BY <1>1 DEF StartClaim, StartClaimForMultipleChannels, GetListInProgress
    <2> HIDE DEF new
    <2>3. QED
      BY <1>b, <2>1, <2>2 DEF CriticalCl
  <1>2. CASE ListClaims(c)
    <2> DEFINE new == [cl[c] EXCEPT !.pc = "sweep", !.todo = payments]
    <2>1. new.pc = "sweep"
      BY <1>0, ClProjections
    <2>2. /\ cl[c].pc = "list"
          /\ cl' = [cl EXCEPT ![c] = new] \/ cl' = [cl EXCEPT ![c] = IdleCl]
          /\ UNCHANGED <<chain, block, store, payments, lock, tx>>
      BY <1>2 DEF ListClaims
    <2> HIDE DEF new
    <2>3. QED
      BY <1>0, <1>b, <2>1, <2>2 DEF CriticalCl
  <1>3. CASE NextChannel(c)
    <2> DEFINE new(ch) == [IdleCl EXCEPT !.pc = "check", !.ch = ch,
                                         !.rest = cl[c].rest \ {ch}]
    <2>1. \A ch : new(ch).pc = "check"
      BY <1>0 DEF ClType
    <2>2. /\ cl[c].pc = "sweep"
          /\ \/ \E ch : cl' = [cl EXCEPT ![c] = new(ch)]
             \/ cl' = [cl EXCEPT ![c] = IdleCl]
          /\ UNCHANGED <<chain, block, store, payments, lock, tx>>
      BY <1>3 DEF NextChannel
    <2> HIDE DEF new
    <2>3. QED
      BY <1>0, <1>b, <2>1, <2>2 DEF CriticalCl
  <1>4. ASSUME NEW pay \in cl[c].todo, RemoveClaimedPayment(c, pay)
        PROVE  ClaimerMove(c)
    <2> DEFINE new == [cl[c] EXCEPT !.todo = cl[c].todo \ {pay}]
    <2>1. cl[c].pc = "sweep" /\ new.pc = cl[c].pc
      BY <1>0, <1>4, ClProjections DEF RemoveClaimedPayment
    <2>2. /\ cl' = [cl EXCEPT ![c] = new] \/ cl' = [cl EXCEPT ![c] = IdleCl]
          /\ payments' = payments \/ (Claimed(pay) /\ payments' = Without(pay))
          /\ UNCHANGED <<chain, block, store, lock, tx>>
      BY <1>4 DEF RemoveClaimedPayment, Without
    <2> HIDE DEF new
    <2>3. cl'[c].pc \in {"sweep", "idle"} /\ \A d \in Claimers : d # c => cl'[d] = cl[d]
      BY <1>0, <1>a, <2>1, <2>2
    <2>4. QED
      BY <2>1, <2>2, <2>3 DEF ClaimerMove, Outside, CriticalCl
  <1>5. CASE CheckAuthorizedAmount(c)
    <2> DEFINE new == [cl[c] EXCEPT !.pc = "lock"]
    <2>1. new.pc = "lock" /\ new.ch = cl[c].ch
      BY <1>0, ClProjections
    <2>2. /\ cl[c].pc = "check"
          /\ \/ /\ \E up : PaymentChannel(cl[c].ch, up).auth # 0
                /\ cl' = [cl EXCEPT ![c] = new]
             \/ cl' = [cl EXCEPT ![c] = IdleCl]
          /\ UNCHANGED <<chain, block, store, payments, lock, tx>>
      BY <1>5 DEF CheckAuthorizedAmount
    <2> HIDE DEF new
    <2>3. CASE cl' = [cl EXCEPT ![c] = IdleCl]
      BY <1>0, <1>b, <2>2, <2>3 DEF CriticalCl
    <2>4. CASE /\ \E up : PaymentChannel(cl[c].ch, up).auth # 0
               /\ cl' = [cl EXCEPT ![c] = new]
      BY <1>a, <2>1, <2>2, <2>4 DEF ClaimerMove, FindsAmount
    <2>5. QED
      BY <2>2, <2>3, <2>4
  <1>6. CASE LockForClaim(c)
    <2> DEFINE new == [cl[c] EXCEPT !.pc = "locked"]
    <2>1. new.pc = "locked" /\ new.ch = cl[c].ch
      BY <1>0, ClProjections
    <2>2. /\ cl[c].pc = "lock"
          /\ \/ Lock(cl[c].ch) /\ cl' = [cl EXCEPT ![c] = new]
             \/ cl' = [cl EXCEPT ![c] = IdleCl] /\ UNCHANGED lock
          /\ UNCHANGED <<chain, block, store, payments, tx>>
      BY <1>6 DEF LockForClaim
    <2> HIDE DEF new
    <2>3. CASE cl' = [cl EXCEPT ![c] = IdleCl] /\ UNCHANGED lock
      BY <1>0, <1>b, <2>2, <2>3 DEF CriticalCl
    <2>4. CASE Lock(cl[c].ch) /\ cl' = [cl EXCEPT ![c] = new]
      BY <1>a, <2>1, <2>2, <2>4 DEF ClaimerMove, TakesLock
    <2>5. QED
      BY <2>2, <2>3, <2>4
  <1>7. CASE PutNextChannel(c)
    <2> DEFINE ch == cl[c].ch
               s == store[ch]
               next == [s EXCEPT !.data = IncrementChannelNonce(s.data)]
               put == [cl[c] EXCEPT !.pc = "putPayment", !.chan = s.data]
               fail == [cl[c] EXCEPT !.pc = "unlock", !.ok = FALSE]
    <2>1. /\ put.pc = "putPayment" /\ put.ch = ch /\ put.chan = s.data
          /\ fail.pc = "unlock" /\ fail.ch = ch
      BY <1>0, ClProjections
    <2>2. /\ cl[c].pc = "locked"
          /\ \/ /\ s.stored /\ cl' = [cl EXCEPT ![c] = put]
                /\ store' = [store EXCEPT ![ch] = next]
             \/ cl' = [cl EXCEPT ![c] = fail] /\ store' = store
             \/ /\ "storage" \in Faults /\ cl' = [cl EXCEPT ![c] = fail]
                /\ store' = [store EXCEPT ![ch] = next]
          /\ UNCHANGED <<chain, block, payments, lock, tx>>
      BY <1>7 DEF PutNextChannel
    <2> HIDE DEF put, fail, next
    <2>3. /\ cl'[c] = put \/ cl'[c] = fail
          /\ \A d \in Claimers : d # c => cl'[d] = cl[d]
      BY <1>a, <2>2
    <2>4. PutsChannel(c)
      <3>1. /\ cl'[c].pc \in {"putPayment", "unlock"} /\ cl'[c].ch = ch
            /\ store' = store \/ store' = [store EXCEPT ![ch] = next]
        BY <2>1, <2>2, <2>3
      <3>2. cl'[c].pc = "putPayment" =>
               cl'[c].chan = s.data /\ s.stored /\ store' = [store EXCEPT ![ch] = next]
        BY <1>a, <2>1, <2>2
      <3>3. "storage" \in Faults \/ store' = store \/ cl'[c].pc = "putPayment"
        BY <1>a, <2>1, <2>2
      <3>4. QED
        BY <2>2, <3>1, <3>2, <3>3 DEF PutsChannel, next
    <2>5. QED
      BY <2>2, <2>3, <2>4 DEF ClaimerMove
  <1>8. CASE PutPayment(c)
    <2> DEFINE pay == PaymentFromChannel(cl[c].ch, cl[c].chan)
               new(ok) == [cl[c] EXCEPT !.pc = "unlock", !.ok = ok, !.chan = NoData]
    <2>1. \A ok : new(ok).pc = "unlock" /\ new(ok).ch = cl[c].ch
      BY <1>0, ClProjections
    <2>2. /\ cl[c].pc = "putPayment" /\ \E ok : cl' = [cl EXCEPT ![c] = new(ok)]
          /\ \/ "storage" \in Faults /\ UNCHANGED payments
             \/ payments' = Without(pay) \cup {pay}
          /\ UNCHANGED <<chain, block, store, lock, tx>>
      BY <1>8 DEF PutPayment, Without
    <2> HIDE DEF new
    <2>3. /\ cl'[c].pc = "unlock" /\ cl'[c].ch = cl[c].ch
          /\ \A d \in Claimers : d # c => cl'[d] = cl[d]
      <3>1. PICK ok : cl' = [cl EXCEPT ![c] = new(ok)]
        BY <2>2
      <3>2. cl'[c] = new(ok) /\ \A d \in Claimers : d # c => cl'[d] = cl[d]
        BY <1>a, <3>1
      <3>3. QED
        BY <2>1, <3>2
    <2>4. PutsPayment(c)
      BY <2>2, <2>3 DEF PutsPayment
    <2>5. QED
      BY <2>2, <2>3, <2>4 DEF ClaimerMove
  <1>9. CASE UnlockClaim(c)
    <2> DEFINE next == [IdleCl EXCEPT !.pc = "sweep", !.rest = cl[c].rest]
    <2>1. next.pc = "sweep"
      BY <1>0, ClProjections
    <2>2. /\ cl[c].pc = "unlock" /\ Unlock(cl[c].ch)
          /\ cl' = [cl EXCEPT ![c] = IF cl[c].ok THEN next ELSE IdleCl]
          /\ UNCHANGED <<chain, block, store, payments, tx>>
      BY <1>9 DEF UnlockClaim
    <2> HIDE DEF next
    <2>3. cl'[c].pc \in {"sweep", "idle"} /\ \A d \in Claimers : d # c => cl'[d] = cl[d]
      BY <1>0, <1>a, <2>1, <2>2
    <2>4. QED
      BY <2>2, <2>3 DEF ClaimerMove, LeavesLock, CriticalCl
  <1>10. CASE CrashClaim(c)
    BY <1>10, <1>0, <1>a DEF CrashClaim, ClaimerMove, Dies
  <1>11. QED
    BY <1>1, <1>2, <1>3, <1>4, <1>5, <1>6, <1>7, <1>8, <1>9, <1>10 DEF Claim, ClaimStep

-----------------------------------------------------------------------------
(***************************************************************************)
(* The lock of a channel, as LockService sees it.                          *)
(***************************************************************************)

LockStep ==
    \A ch \in Channels : \/ ChannelLock(ch)!LockServiceNext
                         \/ UNCHANGED <<lock[ch], LockOwners(ch)>>

(* A step of one request changes the owners of a channel by that request.  *)
LEMMA OwnersAfterPayer ==
    ASSUME NEW p \in Payers, \A q \in Payers : q # p => tx'[q] = tx[q], cl' = cl,
           NEW ch \in Channels
    PROVE  LockOwners(ch)' = (LockOwners(ch) \ {p})
               \cup {q \in {p} : tx'[p].pc \in Critical /\ tx'[p].ch = ch}
  <1>1. p \notin Claimers
    BY ConstantsAssumption
  <1>2. QED
    BY <1>1 DEF LockOwners, InCriticalTx, InCriticalCl, Critical

LEMMA OwnersAfterClaimer ==
    ASSUME NEW c \in Claimers, \A d \in Claimers : d # c => cl'[d] = cl[d], tx' = tx,
           NEW ch \in Channels
    PROVE  LockOwners(ch)' = (LockOwners(ch) \ {c})
               \cup {d \in {c} : cl'[c].pc \in CriticalCl /\ cl'[c].ch = ch}
  <1>1. c \notin Payers
    BY ConstantsAssumption
  <1>2. QED
    BY <1>1 DEF LockOwners, InCriticalTx, InCriticalCl, CriticalCl

(* Request r owns a channel iff it is between its Lock and Unlock.         *)
LEMMA PayerOwns ==
    ASSUME NEW p \in Payers, NEW ch
    PROVE  p \in LockOwners(ch) <=> tx[p].pc \in Critical /\ tx[p].ch = ch
  <1>1. p \notin Claimers
    BY ConstantsAssumption
  <1>2. QED
    BY <1>1 DEF LockOwners, InCriticalTx, Critical

LEMMA ClaimerOwns ==
    ASSUME NEW c \in Claimers, NEW ch
    PROVE  c \in LockOwners(ch) <=> cl[c].pc \in CriticalCl /\ cl[c].ch = ch
  <1>1. c \notin Payers
    BY ConstantsAssumption
  <1>2. QED
    BY <1>1 DEF LockOwners, InCriticalCl, CriticalCl

(* What a request may do to the lock of a channel.                         *)
LEMMA AcquireStep ==
    ASSUME NEW r \in Payers \cup Claimers, NEW ch \in Channels,
           lock[ch] = FALSE, lock'[ch] = TRUE, LockOwners(ch)' = LockOwners(ch) \cup {r}
    PROVE  ChannelLock(ch)!LockServiceNext
  BY DEF ChannelLock!LockServiceNext, ChannelLock!Acquire

LEMMA ReleaseStep ==
    ASSUME NEW r \in Payers \cup Claimers, NEW ch \in Channels, r \in LockOwners(ch),
           LockOwners(ch)' = LockOwners(ch) \ {r}, lock'[ch] \in {lock[ch], FALSE}
    PROVE  ChannelLock(ch)!LockServiceNext
  BY DEF ChannelLock!LockServiceNext, ChannelLock!Release

(* Lock and Unlock touch one channel.                                      *)
LEMMA LockTouches ==
    ASSUME TypeOK, NEW ch \in Channels
    PROVE  /\ Lock(ch) => /\ lock[ch] = FALSE /\ lock'[ch] = TRUE
                          /\ \A o \in Channels : o # ch => lock'[o] = lock[o]
           /\ Unlock(ch) => /\ lock'[ch] \in {lock[ch], FALSE}
                            /\ \A o \in Channels : o # ch => lock'[o] = lock[o]
  <1>1. lock \in [Channels -> BOOLEAN]
    BY DEF TypeOK
  <1>2. Lock(ch) => /\ lock[ch] = FALSE /\ lock'[ch] = TRUE
                    /\ \A o \in Channels : o # ch => lock'[o] = lock[o]
    BY <1>1 DEF Lock
  <1>3. Unlock(ch) => /\ lock'[ch] \in {lock[ch], FALSE}
                      /\ \A o \in Channels : o # ch => lock'[o] = lock[o]
    BY <1>1 DEF Unlock
  <1>4. QED
    BY <1>2, <1>3

LEMMA PayerLockStep ==
    ASSUME TypeOK, NEW p \in Payers, PayerMove(p)
    PROVE  LockStep
  <1> SUFFICES ASSUME NEW ch \in Channels
               PROVE  \/ ChannelLock(ch)!LockServiceNext
                      \/ UNCHANGED <<lock[ch], LockOwners(ch)>>
    BY DEF LockStep
  <1>0. tx[p].ch \in Channels
    BY DEF TypeOK
  <1>1. LockOwners(ch)' = (LockOwners(ch) \ {p})
            \cup {q \in {p} : tx'[p].pc \in Critical /\ tx'[p].ch = ch}
    BY OwnersAfterPayer DEF PayerMove
  <1>2. p \in LockOwners(ch) <=> tx[p].pc \in Critical /\ tx[p].ch = ch
    BY PayerOwns
  <1>3. "idle" \notin Critical
    BY DEF Critical
  <1>4. CASE /\ tx[p].pc \notin Critical /\ tx'[p].pc \in Critical
             /\ tx'[p].ch \in Channels /\ Lock(tx'[p].ch)
    <2>1. CASE tx'[p].ch = ch
      <3>1. LockOwners(ch)' = LockOwners(ch) \cup {p}
        BY <1>1, <1>2, <1>3, <1>4, <2>1
      <3>2. QED
        BY <1>4, <2>1, <3>1, LockTouches, AcquireStep
    <2>2. CASE tx'[p].ch # ch
      <3>1. LockOwners(ch)' = LockOwners(ch)
        BY <1>1, <1>2, <1>3, <1>4, <2>2
      <3>2. QED
        BY <1>4, <2>2, <3>1, LockTouches
    <2>3. QED
      BY <2>1, <2>2
  <1>5. CASE /\ tx[p].pc \in Critical /\ tx'[p].pc \in Critical
             /\ tx'[p].ch = tx[p].ch /\ UNCHANGED lock
    <2>1. LockOwners(ch)' = LockOwners(ch)
      BY <1>1, <1>2, <1>5
    <2>2. QED
      BY <1>5, <2>1
  <1>8. CASE tx[p].pc \notin Critical /\ tx'[p].pc \notin Critical /\ UNCHANGED lock
    <2>1. LockOwners(ch)' = LockOwners(ch)
      BY <1>1, <1>2, <1>8
    <2>2. QED
      BY <1>8, <2>1
  <1>6. CASE /\ tx[p].pc \in Critical /\ tx'[p].pc = "idle"
             /\ Unlock(tx[p].ch) \/ UNCHANGED lock
    <2>1. LockOwners(ch)' = LockOwners(ch) \ {p}
      BY <1>1, <1>3, <1>6
    <2>2. CASE p \in LockOwners(ch)
      <3>1. tx[p].ch = ch
        BY <1>2, <2>2
      <3>2. lock'[ch] \in {lock[ch], FALSE}
        BY <1>6, <3>1, LockTouches
      <3>3. QED
        BY <2>1, <2>2, <3>2, ReleaseStep
    <2>3. CASE p \notin LockOwners(ch)
      <3>2. lock'[ch] = lock[ch]
        BY <1>0, <1>2, <1>6, <2>3, LockTouches
      <3>3. QED
        BY <2>1, <2>3, <3>2
    <2>4. QED
      BY <2>2, <2>3
  <1>7. QED
    BY <1>3, <1>4, <1>5, <1>6, <1>8 DEF PayerMove

LEMMA ClaimerLockStep ==
    ASSUME TypeOK, NEW c \in Claimers, ClaimerMove(c)
    PROVE  LockStep
  <1> SUFFICES ASSUME NEW ch \in Channels
               PROVE  \/ ChannelLock(ch)!LockServiceNext
                      \/ UNCHANGED <<lock[ch], LockOwners(ch)>>
    BY DEF LockStep
  <1>0. cl[c].ch \in Channels
    BY DEF TypeOK
  <1>1. LockOwners(ch)' = (LockOwners(ch) \ {c})
            \cup {d \in {c} : cl'[c].pc \in CriticalCl /\ cl'[c].ch = ch}
    BY OwnersAfterClaimer DEF ClaimerMove
  <1>2. c \in LockOwners(ch) <=> cl[c].pc \in CriticalCl /\ cl[c].ch = ch
    BY ClaimerOwns
  <1>3. CASE Outside(c) \/ FindsAmount(c)
    <2>1. /\ cl[c].pc \notin CriticalCl /\ cl'[c].pc \notin CriticalCl /\ UNCHANGED lock
      BY <1>3 DEF Outside, FindsAmount, CriticalCl
    <2>2. LockOwners(ch)' = LockOwners(ch)
      BY <1>1, <1>2, <2>1
    <2>3. QED
      BY <2>1, <2>2
  <1>4. CASE TakesLock(c)
    <2>0. /\ cl[c].pc \notin CriticalCl /\ cl'[c].pc \in CriticalCl
          /\ cl'[c].ch = cl[c].ch /\ Lock(cl[c].ch)
      BY <1>4 DEF TakesLock, CriticalCl
    <2>1. CASE cl[c].ch = ch
      <3>1. LockOwners(ch)' = LockOwners(ch) \cup {c}
        BY <1>1, <1>2, <2>0, <2>1
      <3>2. QED
        BY <2>0, <2>1, <3>1, LockTouches, AcquireStep
    <2>2. CASE cl[c].ch # ch
      <3>1. LockOwners(ch)' = LockOwners(ch)
        BY <1>1, <1>2, <2>0, <2>2
      <3>2. QED
        BY <1>0, <2>0, <2>2, <3>1, LockTouches
    <2>3. QED
      BY <2>1, <2>2
  <1>5. CASE PutsChannel(c) \/ PutsPayment(c)
    <2>1. /\ cl[c].pc \in CriticalCl /\ cl'[c].pc \in CriticalCl
          /\ cl'[c].ch = cl[c].ch /\ UNCHANGED lock
      BY <1>5 DEF PutsChannel, PutsPayment, CriticalCl
    <2>2. LockOwners(ch)' = LockOwners(ch)
      BY <1>1, <1>2, <2>1
    <2>3. QED
      BY <2>1, <2>2
  <1>6. CASE LeavesLock(c) \/ Dies(c)
    <2>0. /\ cl'[c].pc \notin CriticalCl
          /\ (Unlock(cl[c].ch) /\ cl[c].pc \in CriticalCl) \/ UNCHANGED lock
      BY <1>6 DEF LeavesLock, Dies, CriticalCl
    <2>1. LockOwners(ch)' = LockOwners(ch) \ {c}
      BY <1>1, <2>0
    <2>2. CASE c \in LockOwners(ch)
      <3>1. cl[c].ch = ch
        BY <1>2, <2>2
      <3>2. lock'[ch] \in {lock[ch], FALSE}
        BY <2>0, <3>1, LockTouches
      <3>3. QED
        BY <2>1, <2>2, <3>2, ReleaseStep
    <2>3. CASE c \notin LockOwners(ch)
      <3>1. lock'[ch] = lock[ch]
        BY <1>0, <1>2, <2>0, <2>3, LockTouches
      <3>2. QED
        BY <2>1, <2>3, <3>1
    <2>4. QED
      BY <2>2, <2>3
  <1>7. QED
    BY <1>3, <1>4, <1>5, <1>6 DEF ClaimerMove

(* The owners of a channel are the requests that Held looks for.           *)
LEMMA NotHeld ==
    ASSUME NEW ch, ~Held(ch)
    PROVE  LockOwners(ch) = {}
  BY DEF Held, LockOwners

(* Payments, claims, lost answers, dying replicas and the unlock command   *)
(* together use the lock of every channel as module LockService says, so   *)
(* that each may rely on what the locker promises.                         *)
THEOREM LockServiceRefined ==
    ASSUME "unlock" \notin Faults
    PROVE  Spec => UsesLockService
  <1>1. Init => \A ch \in Channels : ChannelLock(ch)!LockServiceInit
    <2> SUFFICES ASSUME Init, NEW ch \in Channels PROVE ChannelLock(ch)!LockServiceInit
      OBVIOUS
    <2>1. LockOwners(ch) = {} /\ lock[ch] = FALSE
      BY DEF Init, LockOwners, InCriticalTx, InCriticalCl, IdleTx, IdleCl
    <2>2. QED
      BY <2>1 DEF ChannelLock!LockServiceInit
  <1>2. ASSUME IndInv, Next PROVE LockStep
    <2>0. TypeOK
      BY <1>2 DEF IndInv
    <2>1. ASSUME NEW p \in Payers, Payment(p) PROVE LockStep
      BY <2>0, <2>1, PayerMoves, PayerLockStep
    <2>2. ASSUME NEW c \in Claimers, Claim(c) PROVE LockStep
      BY <2>0, <2>2, ClaimerMoves, ClaimerLockStep
    <2>3. ASSUME UNCHANGED <<tx, cl>>, NEW ch \in Channels PROVE LockOwners(ch)' = LockOwners(ch)
      BY <2>3 DEF LockOwners, InCriticalTx, InCriticalCl
    <2>4. ASSUME NEW ch \in Channels, LockTimesOut(ch) PROVE LockStep
      <3>1. Lock(ch) /\ UNCHANGED <<tx, cl>>
        BY <2>4 DEF LockTimesOut
      <3>2. ChannelLock(ch)!LockServiceNext
        BY <2>0, <2>3, <3>1, LockTouches DEF ChannelLock!LockServiceNext, ChannelLock!Orphan
      <3>3. QED
        BY <2>0, <2>3, <3>1, <3>2, LockTouches DEF LockStep
    <2>5. ASSUME NEW ch \in Channels, UnlockChannel(ch) PROVE LockStep
      <3>1. /\ lock[ch] /\ LockOwners(ch) = {} /\ UNCHANGED <<tx, cl>>
            /\ lock' = [lock EXCEPT ![ch] = FALSE]
        BY <2>5, NotHeld DEF UnlockChannel
      <3>2. /\ lock'[ch] = FALSE /\ \A o \in Channels : o # ch => lock'[o] = lock[o]
        BY <2>0, <3>1 DEF TypeOK
      <3>3. ChannelLock(ch)!LockServiceNext
        BY <2>3, <3>1, <3>2 DEF ChannelLock!LockServiceNext, ChannelLock!Clear
      <3>4. QED
        BY <2>3, <3>1, <3>2, <3>3 DEF LockStep
    <2>6. ASSUME Contract PROVE LockStep
      <3>1. UNCHANGED <<lock, tx, cl>>
        BY <2>6 DEF Contract, OpenChannel, ChannelAddFunds, ChannelExtend, ChannelClaim,
           ChannelClaimTimeout, NewBlock
      <3>2. QED
        BY <2>3, <3>1 DEF LockStep
    <2>7. QED
      BY <1>2, <2>1, <2>2, <2>4, <2>5, <2>6 DEF Next
  <1>3. IndInv /\ [Next]_vars
           => [\A ch \in Channels : \/ ChannelLock(ch)!LockServiceNext
                                    \/ UNCHANGED <<lock[ch], LockOwners(ch)>>]_vars
    BY <1>2 DEF LockStep
  <1>4. QED
    BY <1>1, <1>3, Inductive, PTL DEF Spec, UsesLockService

-----------------------------------------------------------------------------
(***************************************************************************)
(* Claims carry signatures.                                                *)
(***************************************************************************)

(* d's authorized amount, if there is one, comes with its signature.       *)
HasSignature(d) == d.sig = [nonce |-> d.nonce, amount |-> d.auth]

Signed(d) == d.auth # 0 => HasSignature(d)

(* A claim that found an authorized amount still finds it under the lock,  *)
(* and what it takes out of the channel is signed.                         *)
SignedInv ==
    /\ \A ch \in Channels : Signed(store[ch].data)
    /\ \A c \in Claimers : cl[c].pc \in {"lock", "locked"} =>
          HasSignature(store[cl[c].ch].data)
    /\ \A c \in Claimers : cl[c].pc = "putPayment" =>
          cl[c].chan.sig = [nonce |-> cl[c].chan.nonce, amount |-> cl[c].chan.auth]
    /\ ClaimIsSigned

(* Only the storage has authorized amounts, never the contract.            *)
LEMMA AmountIsStored ==
    ASSUME NEW ch, NEW up, PaymentChannel(ch, up).auth # 0
    PROVE  store[ch].data.auth # 0
  <1> DEFINE b == GetChannelStateFromBlockchain(ch)
             s == store[ch].data
  <1>1. b.auth = 0
    BY DEF GetChannelStateFromBlockchain
  <1> HIDE DEF b
  <1>2. MergeStorageAndBlockchainChannelState(s, b).auth \in {s.auth, b.auth}
    BY DEF MergeStorageAndBlockchainChannelState
  <1>3. PaymentChannel(ch, up) \in {b, s, MergeStorageAndBlockchainChannelState(s, b)}
    BY DEF PaymentChannel, b
  <1>4. QED
    BY <1>1, <1>2, <1>3

LEMMA SignedWhenPaid ==
    ASSUME IndInv, SignedInv, NEW p \in Payers, Payment(p)
    PROVE  SignedInv'
  <1>1. UNCHANGED <<payments, cl>>
    BY PayerMoves DEF IndInv, PayerMove
  <1>2. CASE UNCHANGED store
    BY <1>1, <1>2 DEF SignedInv, Signed, ClaimIsSigned
  <1>3. CASE Commit(p)
    <2> DEFINE ch == tx[p].ch
               d == PaidChannel(tx[p])
               new == [stored |-> TRUE, data |-> d]
    <2>1. tx[p] \in TxType /\ TxOK(p, tx[p]) /\ tx[p].pc = "commit" /\ ch \in Channels
      BY <1>3, TxInvTxOK DEF Commit, TxType
    <2>2. tx[p].nonce = tx[p].chan.nonce
      BY <2>1 DEF TxOK, Accepted
    <2>3. /\ d.auth = tx[p].amount /\ d.nonce = tx[p].chan.nonce
          /\ d.sig = [nonce |-> tx[p].nonce, amount |-> tx[p].amount]
      BY DEF PaidChannel
    <2>4. HasSignature(d) /\ Signed(d) /\ new.data = d
      BY <2>2, <2>3 DEF Signed, HasSignature
    <2>5. store' = [store EXCEPT ![ch] = new] \/ store' = store
      BY <1>3 DEF Commit
    <2>6. store \in [Channels -> [stored : BOOLEAN, data : ChannelData]]
      BY DEF IndInv, TypeOK
    <2> HIDE DEF d, new, ch
    <2>7. CASE store' = [store EXCEPT ![ch] = new]
      <3>1. /\ store'[ch].data = d
            /\ \A o \in Channels : o # ch => store'[o] = store[o]
        BY <2>1, <2>4, <2>6, <2>7
      <3>2. \A o \in Channels : Signed(store'[o].data)
        BY <2>4, <3>1 DEF SignedInv
      <3>3. \A o \in Channels :
               HasSignature(store[o].data) => HasSignature(store'[o].data)
        BY <2>4, <3>1
      <3>4. \A c \in Claimers : cl[c].ch \in Channels
        BY DEF IndInv, TypeOK
      <3>5. QED
        BY <1>1, <3>2, <3>3, <3>4 DEF SignedInv, Signed, ClaimIsSigned
    <2>8. QED
      BY <1>2, <2>5, <2>7
  <1>4. UNCHANGED store \/ Commit(p)
    BY DEF Payment, StartPaymentTransaction, GetToken, PaymentStep,
       StartTokenTransaction, ReadChannel, ValidatePayment, CheckIncome, CallService,
       Rollback, CrashPayment
  <1>5. QED
    BY <1>2, <1>3, <1>4

LEMMA SignedWhenClaimed ==
    ASSUME IndInv, SignedInv, NEW c \in Claimers, Claim(c), \A d \in Claimers : d = c
    PROVE  SignedInv'
  <1>0. /\ ClaimerMove(c) /\ cl[c].ch \in Channels /\ payments \subseteq PaymentRecords
        /\ store \in [Channels -> [stored : BOOLEAN, data : ChannelData]]
    BY ClaimerMoves DEF IndInv, TypeOK
  <1>a. ASSUME cl'[c].pc \notin {"lock", "locked", "putPayment"}, UNCHANGED store,
               payments' \subseteq payments
        PROVE  SignedInv'
    BY <1>a DEF SignedInv, Signed, ClaimIsSigned
  <1>1. CASE Outside(c) \/ LeavesLock(c) \/ Dies(c)
    BY <1>1, <1>a DEF Outside, LeavesLock, Dies, CriticalCl, Without
  <1>2. CASE FindsAmount(c)
    <2>1. /\ cl'[c].pc = "lock" /\ cl'[c].ch = cl[c].ch /\ UNCHANGED <<store, payments>>
          /\ store[cl[c].ch].data.auth # 0
      BY <1>2, AmountIsStored DEF FindsAmount
    <2>2. HasSignature(store[cl[c].ch].data)
      BY <1>0, <2>1 DEF SignedInv, Signed
    <2>3. QED
      BY <1>0, <2>1, <2>2 DEF SignedInv, Signed, HasSignature, ClaimIsSigned
  <1>3. CASE TakesLock(c)
    BY <1>3 DEF TakesLock, SignedInv, Signed, ClaimIsSigned
  <1>4. CASE PutsChannel(c)
    <2> DEFINE ch == cl[c].ch
               s == store[ch]
               d == IncrementChannelNonce(s.data)
               next == [s EXCEPT !.data = d]
    <2>1. /\ cl[c].pc = "locked" /\ cl'[c].pc \in {"putPayment", "unlock"} /\ UNCHANGED payments
          /\ store' = store \/ store' = [store EXCEPT ![ch] = next]
          /\ cl'[c].pc = "putPayment" => cl'[c].chan = s.data
      BY <1>4 DEF PutsChannel
    <2>2. s.data.sig = [nonce |-> s.data.nonce, amount |-> s.data.auth]
      BY <1>0, <2>1 DEF SignedInv, HasSignature
    <2>3. next.data = d /\ d.auth = 0
      BY <1>0 DEF IncrementChannelNonce
    <2> HIDE DEF next, d
    <2>4. \A o \in Channels : Signed(store'[o].data)
      BY <1>0, <2>1, <2>3 DEF SignedInv, Signed
    <2>5. \A e \in Claimers : /\ cl'[e].pc \notin {"lock", "locked"}
                              /\ cl'[e].pc = "putPayment" => cl'[e].chan = s.data
      BY <2>1
    <2> HIDE DEF s
    <2>6. QED
      BY <2>1, <2>2, <2>4, <2>5 DEF SignedInv, Signed, ClaimIsSigned
  <1>5. CASE PutsPayment(c)
    <2> DEFINE k == cl[c].chan
               pay == PaymentFromChannel(cl[c].ch, k)
    <2>1. /\ cl[c].pc = "putPayment" /\ cl'[c].pc = "unlock" /\ UNCHANGED store
          /\ UNCHANGED payments \/ payments' = Without(pay) \cup {pay}
      BY <1>5 DEF PutsPayment
    <2>2. k.sig = [nonce |-> k.nonce, amount |-> k.auth]
      BY <2>1 DEF SignedInv
    <2>3. pay.sig = k.sig /\ pay.nonce = k.nonce /\ pay.amount = k.auth
      BY DEF PaymentFromChannel
    <2> HIDE DEF pay, k
    <2>4. ClaimIsSigned'
      BY <2>1, <2>2, <2>3 DEF SignedInv, ClaimIsSigned, Without
    <2>5. QED
      BY <2>1, <2>4 DEF SignedInv, Signed
  <1>6. QED
    BY <1>0, <1>1, <1>2, <1>3, <1>4, <1>5 DEF ClaimerMove

(* Every payment that waits to be claimed has the signature the contract   *)
(* asks for, through failing storage calls, an unreachable Ethereum node   *)
(* and dying replicas, as long as provider requests run one at a time:     *)
(* beginClaimOnChannel looks for the amount without the lock, and a second *)
(* provider request can take it before the first one has the lock.         *)
THEOREM ClaimsAreSigned ==
    ASSUME "unlock" \notin Faults, \A c, d \in Claimers : c = d
    PROVE  Spec => []ClaimIsSigned
  <1>1. Init => SignedInv
    BY DEF Init, SignedInv, Signed, ClaimIsSigned, NoData, IdleCl
  <1>2. ASSUME IndInv, SignedInv, [Next]_vars PROVE SignedInv'
    <2>1. ASSUME UNCHANGED <<store, payments, cl>> PROVE SignedInv'
      BY <1>2, <2>1 DEF SignedInv, Signed, ClaimIsSigned
    <2>2. Contract => UNCHANGED <<store, payments, cl>>
      BY DEF Contract, OpenChannel, ChannelAddFunds, ChannelExtend, ChannelClaim,
         ChannelClaimTimeout, NewBlock
    <2>3. QED
      BY <1>2, <2>1, <2>2, SignedWhenPaid, SignedWhenClaimed
         DEF Next, vars, LockTimesOut, UnlockChannel
  <1>3. SignedInv => ClaimIsSigned
    BY DEF SignedInv
  <1>4. QED
    BY <1>1, <1>2, <1>3, Inductive, PTL DEF Spec

-----------------------------------------------------------------------------
(***************************************************************************)
(* Claims are not lost.                                                    *)
(***************************************************************************)

(* The payment of nonce n of channel ch is stored, or about to be.         *)
Kept(ch, n) ==
    \/ \E pay \in payments : pay.ch = ch /\ pay.nonce = n
    \/ \E c \in Claimers : cl[c].pc = "putPayment" /\ cl[c].ch = ch /\ cl[c].chan.nonce = n

KeptInv ==
    \A ch \in Channels : store[ch].stored =>
        \A n \in Nat : chain[ch].nonce <= n /\ n < store[ch].data.nonce => Kept(ch, n)

LEMMA KeptWhenPaid ==
    ASSUME IndInv, KeptInv, NEW p \in Payers, Payment(p)
    PROVE  KeptInv'
  <1>1. UNCHANGED <<chain, payments, cl>>
    BY PayerMoves DEF IndInv, PayerMove
  <1>2. \A ch \in Channels, n \in Nat : Kept(ch, n) => Kept(ch, n)'
    BY <1>1 DEF Kept
  <1>3. CASE UNCHANGED store
    BY <1>1, <1>2, <1>3 DEF KeptInv
  <1>4. CASE Commit(p)
    <2> DEFINE ch == tx[p].ch
               d == PaidChannel(tx[p])
               new == [stored |-> TRUE, data |-> d]
    <2>1. tx[p] \in TxType /\ TxOK(p, tx[p]) /\ tx[p].pc = "commit" /\ ch \in Channels
      BY <1>4, TxInvTxOK DEF Commit, TxType
    <2>2. /\ SnapshotInv(ch, store[ch], tx[p].chan) /\ tx[p].chan.nonce \in Nat
          /\ chain[ch].nonce \in Nat
      BY <2>1 DEF TxOK, Reading, TxType, ChannelData, IndInv, TypeOK, ChainChannels
    <2>3. new.data.nonce = tx[p].chan.nonce
      BY DEF PaidChannel
    <2>4. tx[p].chan.nonce > chain[ch].nonce
             => store[ch].stored /\ store[ch].data.nonce = new.data.nonce
      BY <2>2, <2>3 DEF SnapshotInv
    <2>5. store' = [store EXCEPT ![ch] = new] \/ store' = store
      BY <1>4 DEF Commit
    <2>6. store \in [Channels -> [stored : BOOLEAN, data : ChannelData]]
      BY DEF IndInv, TypeOK
    <2> HIDE DEF d, new, ch
    <2>7. CASE store' = [store EXCEPT ![ch] = new]
      <3>1. store'[ch] = new /\ \A o \in Channels : o # ch => store'[o] = store[o]
        BY <2>1, <2>6, <2>7
      <3>2. ASSUME NEW n \in Nat, chain[ch].nonce <= n, n < new.data.nonce
            PROVE  Kept(ch, n)
        <4>1. store[ch].stored /\ store[ch].data.nonce = new.data.nonce
          BY <2>2, <2>3, <2>4, <3>2
        <4>2. QED
          BY <2>1, <3>2, <4>1 DEF KeptInv
      <3>3. QED
        BY <1>1, <1>2, <2>1, <3>1, <3>2 DEF KeptInv
    <2>8. QED
      BY <1>3, <2>5, <2>7
  <1>5. UNCHANGED store \/ Commit(p)
    BY DEF Payment, StartPaymentTransaction, GetToken, PaymentStep,
       StartTokenTransaction, ReadChannel, ValidatePayment, CheckIncome, CallService,
       Rollback, CrashPayment
  <1>6. QED
    BY <1>3, <1>4, <1>5

LEMMA KeptWhenClaimed ==
    ASSUME IndInv, KeptInv, NEW c \in Claimers, Claim(c), Faults \subseteq {"chain"}
    PROVE  KeptInv'
  <1>0. /\ ClaimerMove(c) /\ cl[c].ch \in Channels /\ payments \subseteq PaymentRecords
        /\ store \in [Channels -> [stored : BOOLEAN, data : ChannelData]]
        /\ \A ch \in Channels : chain[ch].nonce \in Nat /\ store[ch].data.nonce \in Nat
    BY ClaimerMoves DEF IndInv, TypeOK, ChainChannels, ChannelData
  <1>1. "storage" \notin Faults /\ "crash" \notin Faults
    OBVIOUS
  <1>2. UNCHANGED chain /\ \A d \in Claimers : d # c => cl'[d] = cl[d]
    BY <1>0 DEF ClaimerMove
  <1>a. ASSUME cl[c].pc # "putPayment", UNCHANGED payments,
               NEW ch, NEW n, Kept(ch, n)
        PROVE  Kept(ch, n)'
    BY <1>2, <1>a DEF Kept
  <1>3. CASE FindsAmount(c) \/ TakesLock(c) \/ LeavesLock(c)
    <2>1. cl[c].pc # "putPayment" /\ UNCHANGED <<store, payments>>
      BY <1>3 DEF FindsAmount, TakesLock, LeavesLock
    <2>2. QED
      BY <1>2, <1>a, <2>1 DEF KeptInv
  <1>4. CASE Outside(c)
    <2>1. cl[c].pc # "putPayment" /\ UNCHANGED store
      BY <1>4 DEF Outside, CriticalCl
    <2>2. CASE UNCHANGED payments
      BY <1>2, <1>a, <2>1, <2>2 DEF KeptInv
    <2>3. ASSUME NEW pay \in cl[c].todo, Claimed(pay), payments' = Without(pay)
          PROVE  KeptInv'
      <3>1. pay.ch \in Channels /\ pay.nonce \in Nat /\ pay.nonce < chain[pay.ch].nonce
        BY <1>0, <2>3 DEF Claimed, IndInv, TypeOK, PaymentRecords
      <3>2. ASSUME NEW ch \in Channels, NEW n \in Nat, chain[ch].nonce <= n, Kept(ch, n)
            PROVE  Kept(ch, n)'
        <4>1. ~(pay.ch = ch /\ pay.nonce = n)
          BY <1>0, <3>1, <3>2
        <4>2. ASSUME NEW q \in payments, q.ch = ch, q.nonce = n PROVE q \in payments'
          BY <2>3, <4>1, <4>2 DEF Without
        <4>3. QED
          BY <1>2, <2>1, <3>2, <4>2 DEF Kept
      <3>3. QED
        BY <1>2, <2>1, <3>2 DEF KeptInv
    <2>4. QED
      BY <1>4, <2>2, <2>3 DEF Outside
  <1>5. CASE PutsChannel(c)
    <2>0. PICK ch, s, next :
            ch \in Channels /\ ch = cl[c].ch /\ s = store[ch]
            /\ next = [s EXCEPT !.data = IncrementChannelNonce(s.data)]
      BY <1>0
    <2>1. /\ cl[c].pc = "locked" /\ UNCHANGED payments /\ cl'[c].ch = ch
          /\ \/ store' = store
             \/ /\ store' = [store EXCEPT ![ch] = next]
                /\ cl'[c].pc = "putPayment" /\ cl'[c].chan = s.data /\ s.stored
      BY <1>1, <1>5, <2>0 DEF PutsChannel
    <2>2. /\ next.data.nonce = s.data.nonce + 1 /\ s.data.nonce \in Nat
          /\ chain[ch].nonce \in Nat
      BY <1>0, <2>0 DEF IncrementChannelNonce
    <2>3. \A o, n : Kept(o, n) => Kept(o, n)'
      BY <1>a, <2>1
    <2>4. CASE store' = store
      BY <1>2, <2>3, <2>4 DEF KeptInv
    <2>5. CASE /\ store' = [store EXCEPT ![ch] = next]
               /\ cl'[c].pc = "putPayment" /\ cl'[c].chan = s.data /\ s.stored
      <3>1. store'[ch] = next /\ \A o \in Channels : o # ch => store'[o] = store[o]
        BY <2>0, <1>0, <2>5
      <3>2. Kept(ch, s.data.nonce)'
        BY <2>1, <2>5 DEF Kept
      <3>3. ASSUME NEW n \in Nat, chain[ch].nonce <= n, n < next.data.nonce
            PROVE  Kept(ch, n)'
        <4>1. n = s.data.nonce \/ n < s.data.nonce
          BY <2>2, <3>3
        <4>2. QED
          BY <2>0, <2>3, <2>5, <3>2, <3>3, <4>1 DEF KeptInv
      <3>4. QED
        BY <1>2, <2>3, <3>1, <3>3 DEF KeptInv
    <2>6. QED
      BY <2>1, <2>4, <2>5
  <1>6. CASE PutsPayment(c)
    <2> DEFINE pay == PaymentFromChannel(cl[c].ch, cl[c].chan)
    <2>1. UNCHANGED store /\ payments' = Without(pay) \cup {pay}
      BY <1>1, <1>6 DEF PutsPayment
    <2>2. pay.ch = cl[c].ch /\ pay.nonce = cl[c].chan.nonce
      BY DEF PaymentFromChannel
    <2> HIDE DEF pay
    <2>3. ASSUME NEW ch, NEW n, Kept(ch, n) PROVE Kept(ch, n)'
      <3>1. CASE pay.ch = ch /\ pay.nonce = n
        BY <2>1, <3>1 DEF Kept
      <3>2. CASE ~(pay.ch = ch /\ pay.nonce = n)
        <4>1. ASSUME NEW q \in payments, q.ch = ch, q.nonce = n PROVE q \in payments'
          BY <2>1, <3>2, <4>1 DEF Without
        <4>2. QED
          BY <1>2, <2>2, <2>3, <3>2, <4>1 DEF Kept
      <3>3. QED
        BY <3>1, <3>2
    <2>4. QED
      BY <1>2, <2>1, <2>3 DEF KeptInv
  <1>7. QED
    BY <1>0, <1>1, <1>3, <1>4, <1>5, <1>6 DEF ClaimerMove, Dies

(* The contract only ever moves forward on a channel the daemon knows.     *)
LEMMA ChainNonceGrows ==
    ASSUME IndInv, Contract, NEW ch \in Channels, store[ch].stored
    PROVE  chain'[ch].nonce \in Nat /\ chain[ch].nonce <= chain'[ch].nonce
  <1>0. chain \in [Channels -> ChainChannels] /\ payments \subseteq PaymentRecords
        /\ chain[ch].open /\ chain[ch].nonce \in Nat
    BY DEF IndInv, TypeOK, OpenInv, ChainChannels
  <1>a. ASSUME NEW o \in Channels, NEW n \in {chain[o].nonce, chain[o].nonce + 1},
               NEW v, NEW e, chain' = [chain EXCEPT ![o] = SetChannel(chain[o], n, v, e)]
        PROVE  chain'[ch].nonce \in Nat /\ chain[ch].nonce <= chain'[ch].nonce
    <2>1. SetChannel(chain[o], n, v, e).nonce = n
      BY DEF SetChannel
    <2>2. chain'[ch].nonce = IF o = ch THEN n ELSE chain[ch].nonce
      BY <1>0, <1>a, <2>1
    <2>3. QED
      BY <1>0, <2>2
  <1>1. ASSUME NEW o \in Channels, NEW payee \in Payees, NEW v \in Deposits,
               NEW e \in Expirations, OpenChannel(o, payee, v, e)
        PROVE  chain'[ch].nonce \in Nat /\ chain[ch].nonce <= chain'[ch].nonce
    <2>1. chain'[ch] = chain[ch]
      BY <1>0, <1>1 DEF OpenChannel
    <2>2. QED
      BY <1>0, <2>1
  <1>2. ASSUME NEW pay \in payments, ChannelClaim(pay)
        PROVE  chain'[ch].nonce \in Nat /\ chain[ch].nonce <= chain'[ch].nonce
    BY <1>0, <1>2, <1>a DEF ChannelClaim, PaymentRecords
  <1>3. QED
    BY <1>0, <1>1, <1>2, <1>a
       DEF Contract, ChannelAddFunds, ChannelExtend, ChannelClaimTimeout, NewBlock

(* Without storage faults and crashes every nonce the daemon has left and  *)
(* the contract has not settled has its payment in the payment storage, or *)
(* a request about to put it there, however many provider requests sweep   *)
(* and claim at the same time.                                             *)
THEOREM ClaimsAreKept ==
    ASSUME Faults \subseteq {"chain"}
    PROVE  Spec => []NoClaimLost
  <1>0. "unlock" \notin Faults
    OBVIOUS
  <1>1. Init => KeptInv
    BY DEF Init, KeptInv
  <1>2. ASSUME IndInv, KeptInv, [Next]_vars PROVE KeptInv'
    <2>1. ASSUME UNCHANGED <<chain, store, payments, cl>> PROVE KeptInv'
      BY <1>2, <2>1 DEF KeptInv, Kept
    <2>2. ASSUME Contract PROVE KeptInv'
      <3>1. UNCHANGED <<store, payments, cl>>
        BY <2>2 DEF Contract, OpenChannel, ChannelAddFunds, ChannelExtend, ChannelClaim,
           ChannelClaimTimeout, NewBlock
      <3>2. \A ch, n : Kept(ch, n) => Kept(ch, n)'
        BY <3>1 DEF Kept
      <3>3. ASSUME NEW ch \in Channels, store[ch].stored,
                   NEW n \in Nat, chain'[ch].nonce <= n
            PROVE  chain[ch].nonce <= n
        <4>1. chain[ch].nonce \in Nat
          BY <1>2 DEF IndInv, TypeOK, ChainChannels
        <4>2. QED
          BY <1>2, <2>2, <3>3, <4>1, ChainNonceGrows
      <3>4. QED
        BY <1>2, <3>1, <3>2, <3>3 DEF KeptInv
    <2>3. QED
      BY <1>2, <2>1, <2>2, KeptWhenPaid, KeptWhenClaimed
         DEF Next, vars, LockTimesOut, UnlockChannel
  <1>3. IndInv /\ KeptInv => NoClaimLost
    <2> SUFFICES ASSUME IndInv, KeptInv, NEW ch \in Channels, store[ch].stored,
                        NEW n \in chain[ch].nonce .. MaxNonce + 1, n < store[ch].data.nonce
                 PROVE  Kept(ch, n)
      BY DEF NoClaimLost, Kept
    <2>1. chain[ch].nonce \in Nat /\ MaxNonce \in Nat
      BY ConstantsAssumption DEF IndInv, TypeOK, ChainChannels
    <2>2. n \in Nat /\ chain[ch].nonce <= n
      BY <2>1
    <2>3. QED
      BY <2>2 DEF KeptInv
  <1>4. QED
    BY <1>0, <1>1, <1>2, <1>3, Inductive, PTL DEF Spec
-----------------------------------------------------------------------------
(***************************************************************************)
(* Calls are covered.  First, sums of amounts as numbers of units.         *)
(***************************************************************************)

LEMMA UnitsOfOne ==
    ASSUME NEW x, x.amount \in Nat
    PROVE  /\ IsFiniteSet({x} \X (1..x.amount))
           /\ Cardinality({x} \X (1..x.amount)) = x.amount
  <1>1. IsFiniteSet({x}) /\ Cardinality({x}) = 1
    BY FS_Singleton
  <1>2. IsFiniteSet(1..x.amount) /\ Cardinality(1..x.amount) = x.amount
    BY FS_Interval
  <1>3. /\ IsFiniteSet({x} \X (1..x.amount))
        /\ Cardinality({x} \X (1..x.amount)) = Cardinality({x}) * Cardinality(1..x.amount)
    BY <1>1, <1>2, FS_Product
  <1>4. Cardinality({x}) * Cardinality(1..x.amount) = 1 * x.amount
    BY <1>1, <1>2
  <1>5. 1 * x.amount = x.amount
    OBVIOUS
  <1>6. QED
    BY <1>3, <1>4, <1>5

LEMMA TotalOfFew ==
    ASSUME NEW S, IsFiniteSet(Units(S)), NEW T, T \subseteq S
    PROVE  /\ IsFiniteSet(Units(T)) /\ Total(T) \in Nat
           /\ Total(S) \in Nat /\ Total(T) <= Total(S)
  <1>1. Units(T) \subseteq Units(S)
    BY DEF Units
  <1>2. IsFiniteSet(Units(T)) /\ Cardinality(Units(T)) <= Cardinality(Units(S))
    BY <1>1, FS_Subset
  <1>3. QED
    BY <1>2, FS_CardinalityType DEF Total

LEMMA TotalWithOne ==
    ASSUME NEW S, IsFiniteSet(Units(S)), NEW x, x \notin S, x.amount \in Nat
    PROVE  /\ IsFiniteSet(Units(S \cup {x}))
           /\ Total(S \cup {x}) = Total(S) + x.amount
  <1> DEFINE U == {x} \X (1..x.amount)
  <1>1. IsFiniteSet(U) /\ Cardinality(U) = x.amount
    BY UnitsOfOne
  <1>2. Units(S \cup {x}) = Units(S) \cup U
    BY DEF Units
  <1>3. Units(S) \cap U = {}
    <2>1. \A u \in Units(S) : u[1] \in S
      BY DEF Units
    <2>2. \A u \in U : u[1] = x
      OBVIOUS
    <2>3. QED
      BY <2>1, <2>2
  <1> HIDE DEF U
  <1>4. /\ IsFiniteSet(Units(S) \cup U) /\ Cardinality(Units(S)) \in Nat
        /\ Cardinality(Units(S) \cup U) = Cardinality(Units(S)) + Cardinality(U) - 0
    BY <1>1, <1>3, FS_Union, FS_EmptySet, FS_CardinalityType
  <1>5. IsFiniteSet(Units(S \cup {x}))
    BY <1>2, <1>4
  <1>6. Total(S \cup {x}) = Cardinality(Units(S) \cup U) /\ Total(S) = Cardinality(Units(S))
    BY <1>2 DEF Total
  <1>7. Cardinality(Units(S)) + Cardinality(U) - 0 = Cardinality(Units(S)) + x.amount
    BY <1>1, <1>4
  <1>8. Total(S \cup {x}) = Total(S) + x.amount
    BY <1>4, <1>6, <1>7
  <1>9. QED
    BY <1>5, <1>8

(* A channel's stored full amount, the open claims and the claim between   *)
(* its two writes fit together into the channel's value.                   *)
CoverAt(ch) ==
    (store[ch].stored /\ Live(store[ch].data)) =>
        /\ Outstanding(ch) + store[ch].data.full <= chain[ch].value
        /\ \A c \in Claimers :
             (cl[c].pc = "putPayment" /\ cl[c].ch = ch /\ chain[ch].nonce <= cl[c].chan.nonce)
               => Outstanding(ch) + cl[c].chan.auth + store[ch].data.full <= chain[ch].value

CoverInv == IsFiniteSet(Units(payments)) /\ \A ch \in Channels : CoverAt(ch)

LEMMA CoverNumbers ==
    ASSUME IndInv, CoverInv, NEW ch \in Channels
    PROVE  /\ Outstanding(ch) \in Nat /\ IsFiniteSet(Units(Due(ch)))
           /\ chain[ch].nonce \in Nat /\ chain[ch].value \in Nat /\ chain[ch].exp \in Nat
           /\ store[ch].data.nonce \in Nat /\ store[ch].data.full \in Nat
           /\ store[ch].data.auth \in Nat /\ store[ch].data.exp \in Nat
           /\ block \in Nat
           /\ \A c \in Claimers : cl[c].chan.nonce \in Nat /\ cl[c].chan.auth \in Nat
           /\ \A pay \in payments : pay.nonce \in Nat /\ pay.amount \in Nat
  <1>1. Due(ch) \subseteq payments
    BY DEF Due
  <1>2. Outstanding(ch) \in Nat /\ IsFiniteSet(Units(Due(ch)))
    BY <1>1, TotalOfFew DEF CoverInv, Outstanding
  <1>3. QED
    BY <1>2 DEF IndInv, TypeOK, ChainChannels, ChannelData, PaymentRecords

(* A step after which no more is due on a channel that is worth no less.   *)
LEMMA CoverKept ==
    ASSUME IndInv, CoverInv, IndInv', NEW ch \in Channels,
           Due(ch)' \subseteq Due(ch), store'[ch] = store[ch], Live(store[ch].data)' =>
             /\ Live(store[ch].data) /\ chain[ch].value <= chain'[ch].value
             /\ chain[ch].nonce <= chain'[ch].nonce,
           \A c \in Claimers : (cl'[c].pc = "putPayment" /\ cl'[c].ch = ch) =>
             cl[c].pc = "putPayment" /\ cl[c].ch = ch /\ cl[c].chan = cl'[c].chan
    PROVE  CoverAt(ch)'
  <1>1. /\ Outstanding(ch) \in Nat /\ IsFiniteSet(Units(Due(ch)))
        /\ chain[ch].nonce \in Nat /\ chain[ch].value \in Nat
        /\ store[ch].data.full \in Nat
        /\ \A c \in Claimers : cl[c].chan.nonce \in Nat /\ cl[c].chan.auth \in Nat
    BY CoverNumbers
  <1>2. Outstanding(ch)' \in Nat /\ Outstanding(ch)' <= Outstanding(ch)
    BY <1>1, TotalOfFew DEF Outstanding
  <1>3. chain'[ch].nonce \in Nat /\ chain'[ch].value \in Nat
    BY DEF IndInv, TypeOK, ChainChannels
  <1>4. CoverAt(ch)
    BY DEF CoverInv
  <1>5. SUFFICES ASSUME store[ch].stored, Live(store[ch].data)'
                 PROVE  /\ Outstanding(ch)' + store[ch].data.full <= chain'[ch].value
                        /\ \A c \in Claimers :
                             (/\ cl'[c].pc = "putPayment" /\ cl'[c].ch = ch
                              /\ chain'[ch].nonce <= cl'[c].chan.nonce)
                               => Outstanding(ch)' + cl'[c].chan.auth + store[ch].data.full
                                    <= chain'[ch].value
    BY DEF CoverAt
  <1>6. /\ Outstanding(ch) + store[ch].data.full <= chain[ch].value
        /\ chain[ch].value <= chain'[ch].value /\ chain[ch].nonce <= chain'[ch].nonce
    BY <1>4, <1>5 DEF CoverAt
  <1>7. ASSUME NEW c \in Claimers, cl'[c].pc = "putPayment", cl'[c].ch = ch,
               chain'[ch].nonce <= cl'[c].chan.nonce
        PROVE  Outstanding(ch)' + cl'[c].chan.auth + store[ch].data.full <= chain'[ch].value
    <2>1. cl[c].pc = "putPayment" /\ cl[c].ch = ch /\ cl[c].chan = cl'[c].chan
      BY <1>7
    <2>2. chain[ch].nonce <= cl[c].chan.nonce
      BY <1>1, <1>3, <1>6, <1>7, <2>1
    <2>3. Outstanding(ch) + cl[c].chan.auth + store[ch].data.full <= chain[ch].value
      BY <1>4, <1>5, <2>1, <2>2 DEF CoverAt
    <2>4. cl[c].chan.auth \in Nat
      BY <1>1
    <2>5. QED
      BY <1>1, <1>2, <1>3, <1>6, <2>1, <2>3, <2>4
  <1>8. QED
    BY <1>1, <1>2, <1>3, <1>6, <1>7

(* What the snapshot of a payment transaction promises is still there.     *)
LEMMA SnapshotCovered ==
    ASSUME IndInv, CoverInv, NEW p \in Payers, tx[p].pc \in Reading,
           Live(tx[p].chan)
    PROVE  /\ chain[tx[p].ch].nonce <= tx[p].chan.nonce
           /\ Outstanding(tx[p].ch) + tx[p].chan.full <= chain[tx[p].ch].value
  <1> DEFINE ch == tx[p].ch
             k == tx[p].chan
  <1>1. /\ ch \in Channels /\ k.nonce \in Nat /\ k.full \in Nat
        /\ SnapshotInv(ch, store[ch], k)
    BY TxInvTxOK DEF TxOK, TxType, ChannelData
  <1>2. /\ Outstanding(ch) \in Nat /\ chain[ch].nonce \in Nat /\ chain[ch].value \in Nat
        /\ store[ch].data.nonce \in Nat /\ \A pay \in payments : pay.nonce \in Nat
    BY <1>1, CoverNumbers
  <1> HIDE DEF ch, k
  <1>3. /\ chain[ch].nonce <= k.nonce
        /\ k.nonce = chain[ch].nonce => k.full <= chain[ch].value
        /\ k.nonce > chain[ch].nonce => store[ch].stored /\ k = store[ch].data
        /\ store[ch].stored => store[ch].data.nonce <= k.nonce
    BY <1>1 DEF SnapshotInv, Backed, k
  <1>4. CASE k.nonce > chain[ch].nonce
    BY <1>1, <1>3, <1>4 DEF CoverInv, CoverAt, k, ch
  <1>5. CASE k.nonce = chain[ch].nonce
    <2>1. Due(ch) = {}
      <3>1. \A pay \in payments : pay.ch = ch =>
               store[ch].stored /\ pay.nonce < store[ch].data.nonce
        BY DEF IndInv, PaymentInv
      <3>2. QED
        BY <1>2, <1>3, <1>5, <3>1 DEF Due
    <2>2. Outstanding(ch) = 0
      <3>1. Units({}) = {}
        BY DEF Units
      <3>2. QED
        BY <2>1, <3>1, FS_EmptySet DEF Outstanding, Total
    <2>3. QED
      BY <1>1, <1>2, <1>3, <1>5, <2>2 DEF ch, k
  <1>6. QED
    BY <1>1, <1>2, <1>3, <1>4, <1>5

LEMMA CoverWhenPaid ==
    ASSUME IndInv, CoverInv, IndInv', NEW p \in Payers, Payment(p)
    PROVE  CoverInv'
  <1>1. UNCHANGED <<chain, block, payments, cl>>
    BY PayerMoves DEF IndInv, PayerMove
  <1>2. \A ch : Due(ch)' = Due(ch) /\ Outstanding(ch)' = Outstanding(ch)
    BY <1>1 DEF Due, Outstanding
  <1>3. ASSUME NEW ch \in Channels, store'[ch] = store[ch] PROVE CoverAt(ch)'
    BY <1>1, <1>2, <1>3 DEF CoverInv, CoverAt, Live
  <1>4. CASE UNCHANGED store
    BY <1>1, <1>3, <1>4 DEF CoverInv
  <1>5. CASE Commit(p) /\ ~UNCHANGED store
    <2>0. PICK ch, k, d : ch = tx[p].ch /\ k = tx[p].chan /\ d = PaidChannel(tx[p])
      OBVIOUS
    <2>1. /\ tx[p].pc = "commit" /\ ch \in Channels
          /\ store \in [Channels -> [stored : BOOLEAN, data : ChannelData]]
      BY <1>5, <2>0, TxInvTxOK DEF Commit, TxType, IndInv, TypeOK
    <2>2. store' = [store EXCEPT ![ch] = [stored |-> TRUE, data |-> d]]
      BY <1>5, <2>0 DEF Commit
    <2>3. d.full = k.full /\ d.exp = k.exp
      BY <2>0 DEF PaidChannel
    <2>4. Live(k) => Outstanding(ch) + k.full <= chain[ch].value
      BY <2>0, <2>1, SnapshotCovered DEF Reading
    <2>5. \A c \in Claimers : ~(cl[c].pc = "putPayment" /\ cl[c].ch = ch)
      BY <2>0, <2>1 DEF IndInv, LockInv, MutualExclusion, InCriticalTx, InCriticalCl
    <2>6. store'[ch].data = d /\ \A o \in Channels : o # ch => store'[o] = store[o]
      BY <2>1, <2>2
    <2>7. Live(store[ch].data)' => Live(k)
      BY <1>1, <2>3, <2>6 DEF Live
    <2>8. CoverAt(ch)'
      BY <1>1, <1>2, <2>3, <2>4, <2>5, <2>6, <2>7 DEF CoverAt
    <2>9. QED
      BY <1>1, <1>3, <2>6, <2>8 DEF CoverInv
  <1>6. UNCHANGED store \/ Commit(p)
    BY DEF Payment, StartPaymentTransaction, GetToken, PaymentStep,
       StartTokenTransaction, ReadChannel, ValidatePayment, CheckIncome, CallService,
       Rollback, CrashPayment
  <1>7. QED
    BY <1>4, <1>5, <1>6

LEMMA CoverWhenClaimed ==
    ASSUME IndInv, CoverInv, IndInv', NEW c \in Claimers, Claim(c)
    PROVE  CoverInv'
  <1>0. /\ ClaimerMove(c) /\ cl[c].ch \in Channels
        /\ store \in [Channels -> [stored : BOOLEAN, data : ChannelData]]
        /\ \A ch \in Channels : chain[ch].nonce \in Nat /\ chain[ch].value \in Nat
    BY ClaimerMoves DEF IndInv, TypeOK, ChainChannels
  <1>1. UNCHANGED <<chain, block>> /\ \A d \in Claimers : d # c => cl'[d] = cl[d]
    BY <1>0 DEF ClaimerMove
  <1>2. ASSUME NEW ch \in Channels, store'[ch] = store[ch], payments' \subseteq payments,
               ~(cl'[c].pc = "putPayment" /\ cl'[c].ch = ch)
        PROVE  CoverAt(ch)'
    <2>1. Due(ch)' \subseteq Due(ch)
      BY <1>1, <1>2 DEF Due
    <2>2. Live(store[ch].data)' => /\ Live(store[ch].data) /\ chain[ch].value <= chain'[ch].value
                                   /\ chain[ch].nonce <= chain'[ch].nonce
      BY <1>0, <1>1, <1>2 DEF Live
    <2>3. QED
      BY <1>1, <1>2, <2>1, <2>2, CoverKept
  <1>3. ASSUME payments' \subseteq payments PROVE IsFiniteSet(Units(payments))'
    BY <1>3, TotalOfFew DEF CoverInv
  <1>4. CASE Outside(c) \/ FindsAmount(c) \/ TakesLock(c) \/ LeavesLock(c) \/ Dies(c)
    <2>1. UNCHANGED store /\ payments' \subseteq payments /\ cl'[c].pc # "putPayment"
      BY <1>4 DEF Outside, FindsAmount, TakesLock, LeavesLock, Dies, CriticalCl, Without
    <2>2. QED
      BY <1>2, <1>3, <2>1 DEF CoverInv
  <1>5. CASE PutsChannel(c)
    <2>0. PICK ch, s, next :
            ch \in Channels /\ ch = cl[c].ch /\ s = store[ch]
            /\ next = [s EXCEPT !.data = IncrementChannelNonce(s.data)]
      BY <1>0
    <2>1. /\ cl[c].pc = "locked" /\ UNCHANGED payments /\ cl'[c].ch = ch
          /\ store' = store \/ store' = [store EXCEPT ![ch] = next]
          /\ cl'[c].pc = "putPayment" =>
                cl'[c].chan = s.data /\ s.stored /\ store' = [store EXCEPT ![ch] = next]
      BY <1>5, <2>0 DEF PutsChannel
    <2>2. /\ Outstanding(ch) \in Nat /\ chain[ch].value \in Nat
          /\ s.data.full \in Nat /\ s.data.auth \in Nat /\ s.data.exp \in Nat
      BY <2>0, CoverNumbers
    <2>3. s.stored => s.data.auth <= s.data.full
      BY <2>0 DEF IndInv, StoreInv
    <2>4. \A o : Due(o)' = Due(o) /\ Outstanding(o)' = Outstanding(o)
      BY <1>1, <2>1 DEF Due, Outstanding
    <2>5. CASE store' = [store EXCEPT ![ch] = next]
      <3>1. store'[ch] = next /\ \A o \in Channels : o # ch => store'[o] = store[o]
        BY <1>0, <2>0, <2>5
      <3>2. /\ next.stored = s.stored /\ next.data.full = s.data.full - s.data.auth
            /\ next.data.exp = s.data.exp
        BY <1>0, <2>0 DEF IncrementChannelNonce
      <3>3. \A d \in Claimers : d # c => ~(cl[d].pc = "putPayment" /\ cl[d].ch = ch)
        BY <2>0, <2>1 DEF IndInv, LockInv, MutualExclusion, InCriticalCl
      <3>4. (next.stored /\ Live(next.data)') =>
               Outstanding(ch) + s.data.full <= chain[ch].value
        BY <1>1, <2>0, <3>2 DEF CoverInv, CoverAt, Live
      <3>5. CoverAt(ch)'
        <4>1. SUFFICES ASSUME next.stored, Live(next.data)'
                       PROVE  /\ Outstanding(ch) + next.data.full <= chain[ch].value
                              /\ Outstanding(ch) + s.data.auth + next.data.full
                                   <= chain[ch].value
          <5>1. \A d \in Claimers : (cl'[d].pc = "putPayment" /\ cl'[d].ch = ch) =>
                   d = c /\ cl'[d].chan = s.data
            BY <1>1, <2>1, <3>3
          <5>2. Live(store[ch].data)' = Live(next.data)'
            BY <3>1 DEF Live
          <5>3. QED
            BY <1>1, <2>4, <3>1, <4>1, <5>1, <5>2 DEF CoverAt
        <4>2. Outstanding(ch) + s.data.full <= chain[ch].value
          BY <3>4, <4>1
        <4>3. QED
          BY <2>2, <2>3, <3>2, <4>1, <4>2
      <3>6. ASSUME NEW o \in Channels, o # ch PROVE CoverAt(o)'
        BY <1>2, <2>1, <3>1, <3>6
      <3>7. QED
        BY <1>3, <2>1, <3>5, <3>6 DEF CoverInv
    <2>6. CASE store' = store
      <3>1. cl'[c].pc # "putPayment" \/ store' = [store EXCEPT ![ch] = next]
        BY <2>1
      <3>2. CASE cl'[c].pc # "putPayment"
        BY <1>2, <1>3, <2>1, <2>6, <3>2 DEF CoverInv
      <3>3. QED
        BY <2>5, <3>1, <3>2
    <2>7. QED
      BY <2>1, <2>5, <2>6
  <1>6. CASE PutsPayment(c)
    <2>0. PICK ch, pay : ch = cl[c].ch /\ pay = PaymentFromChannel(cl[c].ch, cl[c].chan)
      OBVIOUS
    <2>1. /\ cl[c].pc = "putPayment" /\ cl'[c].pc = "unlock" /\ UNCHANGED store
          /\ UNCHANGED payments \/ payments' = Without(pay) \cup {pay}
      BY <1>6, <2>0 DEF PutsPayment
    <2>2. pay.ch = ch /\ pay.nonce = cl[c].chan.nonce /\ pay.amount = cl[c].chan.auth
      BY <2>0 DEF PaymentFromChannel
    <2>3. /\ Outstanding(ch) \in Nat /\ IsFiniteSet(Units(Due(ch)))
          /\ chain[ch].value \in Nat /\ chain[ch].nonce \in Nat
          /\ store[ch].data.full \in Nat /\ cl[c].chan.auth \in Nat
          /\ cl[c].chan.nonce \in Nat
      BY <1>0, <2>0, CoverNumbers
    <2>4. \A q \in payments : q.ch = ch => q.nonce < cl[c].chan.nonce
      BY <2>0, <2>1 DEF IndInv, ClInv
    <2>5. \A d \in Claimers : d # c => ~(cl[d].pc = "putPayment" /\ cl[d].ch = ch)
      BY <2>0, <2>1 DEF IndInv, LockInv, MutualExclusion, InCriticalCl
    <2>6. ch \in Channels
      BY <1>0, <2>0
    <2>7. CASE UNCHANGED payments
      BY <1>2, <1>3, <2>1, <2>7 DEF CoverInv
    <2>8. CASE payments' = Without(pay) \cup {pay}
      <3>1. pay \notin payments
        BY <2>2, <2>3, <2>4
      <3>2. IsFiniteSet(Units(payments))'
        <4>1. IsFiniteSet(Units(Without(pay)))
          BY TotalOfFew DEF CoverInv, Without
        <4>2. pay \notin Without(pay)
          BY <3>1 DEF Without
        <4>3. QED
          BY <2>2, <2>3, <2>8, <4>1, <4>2, TotalWithOne
      <3>3. ASSUME NEW o \in Channels, o # ch PROVE CoverAt(o)'
        <4>1. Due(o)' \subseteq Due(o)
          BY <1>1, <2>2, <2>8, <3>3 DEF Due, Without
        <4>2. Live(store[o].data)' => /\ Live(store[o].data) /\ chain[o].value <= chain'[o].value
                                      /\ chain[o].nonce <= chain'[o].nonce
          BY <1>0, <1>1, <2>1 DEF Live
        <4>3. QED
          BY <1>1, <2>1, <4>1, <4>2, CoverKept
      <3>4. CoverAt(ch)'
        <4>1. \A d \in Claimers : ~(cl'[d].pc = "putPayment" /\ cl'[d].ch = ch)
          BY <1>1, <2>1, <2>5
        <4>2. Live(store[ch].data)' = Live(store[ch].data)
          BY <1>1, <2>1 DEF Live
        <4>3. SUFFICES ASSUME store[ch].stored, Live(store[ch].data)
                       PROVE  Outstanding(ch)' + store[ch].data.full <= chain[ch].value
          BY <1>1, <2>1, <4>1, <4>2 DEF CoverAt
        <4>4. CoverAt(ch)
          BY <2>6 DEF CoverInv
        <4>5. CASE chain[ch].nonce <= cl[c].chan.nonce
          <5>1. Outstanding(ch) + cl[c].chan.auth + store[ch].data.full <= chain[ch].value
            BY <2>0, <2>1, <4>3, <4>4, <4>5 DEF CoverAt
          <5>2. Due(ch)' \subseteq Due(ch) \cup {pay}
            BY <1>1, <2>8 DEF Due, Without
          <5>3. pay \notin Due(ch)
            BY <3>1 DEF Due
          <5>4. /\ IsFiniteSet(Units(Due(ch) \cup {pay}))
                /\ Total(Due(ch) \cup {pay}) = Outstanding(ch) + cl[c].chan.auth
            BY <2>2, <2>3, <5>3, TotalWithOne DEF Outstanding
          <5>5. Outstanding(ch)' \in Nat /\ Outstanding(ch)' <= Total(Due(ch) \cup {pay})
            BY <5>2, <5>4, TotalOfFew DEF Outstanding
          <5>6. QED
            BY <2>3, <5>1, <5>4, <5>5
        <4>6. CASE ~(chain[ch].nonce <= cl[c].chan.nonce)
          <5>1. Due(ch)' \subseteq Due(ch)
            BY <1>1, <2>2, <2>3, <2>8, <4>6 DEF Due, Without
          <5>2. Outstanding(ch)' \in Nat /\ Outstanding(ch)' <= Outstanding(ch)
            BY <2>3, <5>1, TotalOfFew DEF Outstanding
          <5>3. Outstanding(ch) + store[ch].data.full <= chain[ch].value
            BY <4>3, <4>4 DEF CoverAt
          <5>4. QED
            BY <2>3, <5>2, <5>3
        <4>7. QED
          BY <4>5, <4>6
      <3>5. QED
        BY <3>2, <3>3, <3>4 DEF CoverInv
    <2>9. QED
      BY <2>1, <2>7, <2>8
  <1>7. QED
    BY <1>0, <1>4, <1>5, <1>6 DEF ClaimerMove

(* A payment that is due is settled: what was paid out is no longer due.   *)
LEMMA CoverWhenSettled ==
    ASSUME IndInv, CoverInv, IndInv', NEW pay \in payments, ChannelClaim(pay)
    PROVE  CoverAt(pay.ch)'
  <1> DEFINE ch == pay.ch
             new == SetChannel(chain[ch], chain[ch].nonce + 1, chain[ch].value - pay.amount,
                               chain[ch].exp)
  <1>1. /\ pay.sig = [nonce |-> chain[ch].nonce, amount |-> pay.amount]
        /\ pay.amount <= chain[ch].value /\ chain' = [chain EXCEPT ![ch] = new]
        /\ UNCHANGED <<block, store, payments, lock, tx, cl>>
    BY DEF ChannelClaim
  <1>2. ch \in Channels /\ chain \in [Channels -> ChainChannels]
    BY DEF IndInv, TypeOK, PaymentRecords
  <1>3. /\ Outstanding(ch) \in Nat /\ IsFiniteSet(Units(Due(ch)))
        /\ chain[ch].nonce \in Nat /\ chain[ch].value \in Nat
        /\ store[ch].data.full \in Nat
        /\ \A c \in Claimers : cl[c].chan.nonce \in Nat /\ cl[c].chan.auth \in Nat
        /\ \A q \in payments : q.nonce \in Nat /\ q.amount \in Nat
    BY <1>2, CoverNumbers
  <1>4. pay.nonce = chain[ch].nonce
    <2>1. pay.sig \in Signatures
      BY <1>1, <1>3 DEF Signatures
    <2>2. pay.sig = [nonce |-> pay.nonce, amount |-> pay.amount]
      BY <2>1, ConstantsAssumption DEF IndInv, PaymentInv
    <2>3. QED
      BY <1>1, <2>2
  <1>5. new.nonce = chain[ch].nonce + 1 /\ new.value = chain[ch].value - pay.amount
    BY DEF SetChannel
  <1> HIDE DEF new, ch
  <1>6. chain'[ch] = new
    BY <1>1, <1>2
  <1>7. Outstanding(ch)' \in Nat /\ Outstanding(ch)' + pay.amount <= Outstanding(ch)
    <2> DEFINE others == Due(ch) \ {pay}
    <2>1. pay \in Due(ch)
      BY <1>3, <1>4 DEF Due, ch
    <2>2. Due(ch)' \subseteq others
      BY <1>1, <1>3, <1>4, <1>5, <1>6 DEF Due
    <2>3. IsFiniteSet(Units(others)) /\ Total(others) \in Nat
      BY <1>3, TotalOfFew
    <2>4. Due(ch) = others \cup {pay} /\ pay \notin others
      BY <2>1
    <2> HIDE DEF others
    <2>5. Total(others \cup {pay}) = Total(others) + pay.amount
      BY <1>3, <2>3, <2>4, TotalWithOne
    <2>6. Outstanding(ch) = Total(others) + pay.amount
      BY <2>4, <2>5 DEF Outstanding
    <2>7. Outstanding(ch)' \in Nat /\ Outstanding(ch)' <= Total(others)
      BY <2>2, <2>3, TotalOfFew DEF Outstanding
    <2>8. QED
      BY <1>3, <2>3, <2>6, <2>7
  <1>8. Live(store[ch].data)' = Live(store[ch].data)
    BY <1>1 DEF Live
  <1>9. CoverAt(ch)
    BY <1>2 DEF CoverInv
  <1>10. SUFFICES ASSUME store[ch].stored, Live(store[ch].data)
                  PROVE  /\ Outstanding(ch)' + store[ch].data.full <= new.value
                         /\ \A c \in Claimers :
                              (/\ cl[c].pc = "putPayment" /\ cl[c].ch = ch
                               /\ new.nonce <= cl[c].chan.nonce)
                                => Outstanding(ch)' + cl[c].chan.auth + store[ch].data.full
                                     <= new.value
    BY <1>1, <1>6, <1>8 DEF CoverAt, ch
  <1>11. Outstanding(ch) + store[ch].data.full <= chain[ch].value /\ pay.amount \in Nat
    BY <1>3, <1>9, <1>10 DEF CoverAt
  <1>12. ASSUME NEW c \in Claimers, cl[c].pc = "putPayment", cl[c].ch = ch,
                new.nonce <= cl[c].chan.nonce
         PROVE  Outstanding(ch)' + cl[c].chan.auth + store[ch].data.full <= new.value
    <2>1. chain[ch].nonce <= cl[c].chan.nonce /\ cl[c].chan.auth \in Nat
      BY <1>3, <1>5, <1>12
    <2>2. Outstanding(ch) + cl[c].chan.auth + store[ch].data.full <= chain[ch].value
      BY <1>9, <1>10, <1>12, <2>1 DEF CoverAt
    <2>3. QED
      BY <1>3, <1>5, <1>7, <1>11, <2>1, <2>2
  <1>13. QED
    BY <1>3, <1>5, <1>7, <1>11, <1>12

LEMMA CoverWhenContractMoves ==
    ASSUME IndInv, CoverInv, IndInv', Contract
    PROVE  CoverInv'
  <1>0. /\ chain \in [Channels -> ChainChannels] /\ block \in Nat
        /\ UNCHANGED <<store, payments, cl>>
    BY DEF IndInv, TypeOK, Contract, OpenChannel, ChannelAddFunds, ChannelExtend,
       ChannelClaim, ChannelClaimTimeout, NewBlock
  <1> SUFFICES ASSUME NEW ch \in Channels PROVE CoverAt(ch)'
    BY <1>0 DEF CoverInv
  <1>1. /\ chain[ch].nonce \in Nat /\ chain[ch].value \in Nat /\ chain[ch].exp \in Nat
        /\ store[ch].data.exp \in Nat /\ \A pay \in payments : pay.nonce \in Nat
    BY CoverNumbers
  <1>2. ASSUME chain'[ch].nonce = chain[ch].nonce, chain[ch].value <= chain'[ch].value,
               block <= block', block' \in Nat
        PROVE  CoverAt(ch)'
    <2>1. Due(ch)' \subseteq Due(ch)
      BY <1>0, <1>2 DEF Due
    <2>2. Live(store[ch].data)' => /\ Live(store[ch].data) /\ chain[ch].value <= chain'[ch].value
                                   /\ chain[ch].nonce <= chain'[ch].nonce
      BY <1>0, <1>1, <1>2 DEF Live
    <2>3. QED
      BY <1>0, <2>1, <2>2, CoverKept
  <1>3. ASSUME NEW o \in Channels, NEW n, NEW v, NEW e,
               chain' = [chain EXCEPT ![o] = SetChannel(chain[o], n, v, e)]
        PROVE  /\ ch # o => chain'[ch] = chain[ch]
               /\ ch = o => chain'[ch].nonce = n /\ chain'[ch].value = v
    BY <1>0, <1>3 DEF SetChannel
  <1>4. ASSUME NEW o \in Channels, NEW payee \in Payees, NEW v \in Deposits,
               NEW e \in Expirations, OpenChannel(o, payee, v, e)
        PROVE  CoverAt(ch)'
    <2>1. CASE o = ch
      <3>1. ~store[ch].stored
        BY <1>4, <2>1 DEF OpenChannel, IndInv, OpenInv
      <3>2. QED
        BY <1>0, <3>1 DEF CoverAt
    <2>2. CASE o # ch
      <3>1. chain'[ch] = chain[ch] /\ block' = block
        BY <1>0, <1>4, <2>2 DEF OpenChannel
      <3>2. QED
        BY <1>0, <1>1, <1>2, <3>1
    <2>3. QED
      BY <2>1, <2>2
  <1>5. ASSUME NEW o \in Channels, NEW v \in Deposits, ChannelAddFunds(o, v)
        PROVE  CoverAt(ch)'
    <2>1. /\ chain' = [chain EXCEPT ![o] = SetChannel(chain[o], chain[o].nonce,
                             chain[o].value + v, chain[o].exp)]
          /\ block' = block /\ v \in Nat
      BY <1>5, ConstantsAssumption DEF ChannelAddFunds
    <2>2. /\ ch # o => chain'[ch] = chain[ch]
          /\ ch = o => chain'[ch].nonce = chain[o].nonce /\ chain'[ch].value = chain[o].value + v
      BY <1>3, <2>1
    <2>3. chain'[ch].nonce = chain[ch].nonce
      BY <2>2
    <2>4. chain[ch].value <= chain'[ch].value
      BY <1>1, <2>1, <2>2
    <2>5. QED
      BY <1>0, <1>2, <2>1, <2>3, <2>4
  <1>6. ASSUME NEW o \in Channels, NEW e \in Expirations, ChannelExtend(o, e)
        PROVE  CoverAt(ch)'
    <2>1. /\ chain' = [chain EXCEPT ![o] = SetChannel(chain[o], chain[o].nonce,
                             chain[o].value, e)]
          /\ block' = block
      BY <1>6 DEF ChannelExtend
    <2>2. /\ ch # o => chain'[ch] = chain[ch]
          /\ ch = o => chain'[ch].nonce = chain[o].nonce /\ chain'[ch].value = chain[o].value
      BY <1>3, <2>1
    <2>3. chain'[ch].nonce = chain[ch].nonce /\ chain'[ch].value = chain[ch].value
      BY <2>2
    <2>4. QED
      BY <1>0, <1>1, <1>2, <2>1, <2>3
  <1>7. ASSUME NEW o \in Channels, ChannelClaimTimeout(o)
        PROVE  CoverAt(ch)'
    <2>1. /\ chain' = [chain EXCEPT ![o] = SetChannel(chain[o], chain[o].nonce + 1, 0, 0)]
          /\ block' = block /\ block >= chain[o].exp
      BY <1>7 DEF ChannelClaimTimeout
    <2>2. CASE o = ch
      <3>1. store[ch].stored => ~Live(store[ch].data)
        BY <1>0, <1>1, <2>1, <2>2 DEF IndInv, StoreInv, Backed, Live
      <3>2. QED
        BY <1>0, <2>1, <3>1 DEF CoverAt, Live
    <2>3. CASE o # ch
      BY <1>0, <1>1, <1>2, <1>3, <2>1, <2>3
    <2>4. QED
      BY <2>2, <2>3
  <1>8. ASSUME NEW pay \in payments, ChannelClaim(pay)
        PROVE  CoverAt(ch)'
    <2>1. CASE pay.ch = ch
      BY <1>8, <2>1, CoverWhenSettled
    <2>2. CASE pay.ch # ch
      <3>1. /\ pay.ch \in Channels /\ block' = block
            /\ chain' = [chain EXCEPT ![pay.ch] = SetChannel(chain[pay.ch],
                            chain[pay.ch].nonce + 1, chain[pay.ch].value - pay.amount,
                            chain[pay.ch].exp)]
        BY <1>8 DEF ChannelClaim, IndInv, TypeOK, PaymentRecords
      <3>2. chain'[ch] = chain[ch]
        BY <1>3, <2>2, <3>1
      <3>3. QED
        BY <1>0, <1>1, <1>2, <3>1, <3>2
    <2>3. QED
      BY <2>1, <2>2
  <1>9. CASE NewBlock
    <2>1. block' = block + 1 /\ chain' = chain
      BY <1>9 DEF NewBlock
    <2>2. QED
      BY <1>0, <1>1, <1>2, <2>1
  <1>10. QED
    BY <1>4, <1>5, <1>6, <1>7, <1>8, <1>9 DEF Contract

(* Validate and the income check let only calls to the service that the    *)
(* contract can pay at that moment together with every open claim, for any *)
(* number of claims, crashes, lost answers and timed out channels.         *)
THEOREM CallsAreCovered ==
    ASSUME "unlock" \notin Faults
    PROVE  Spec => ServedIsCovered
  <1> DEFINE Covered(p) == (tx[p].pc = "read" /\ tx'[p].pc \in {"started", "commit"}) =>
                LET ch == tx[p].ch
                IN  /\ tx[p].nonce >= chain[ch].nonce
                    /\ Outstanding(ch) + tx[p].amount <= chain[ch].value
  <1>1. Init => CoverInv
    <2> SUFFICES ASSUME Init PROVE CoverInv
      OBVIOUS
    <2>1. Units(payments) = {}
      BY DEF Init, Units
    <2>2. IsFiniteSet(Units(payments))
      BY <2>1, FS_EmptySet
    <2>3. QED
      BY <2>2 DEF Init, CoverInv, CoverAt
  <1>2. ASSUME IndInv, CoverInv, [Next]_vars PROVE CoverInv'
    <2>1. IndInv'
      BY <1>2, NextIndInv
    <2>2. ASSUME UNCHANGED <<chain, block, store, payments, cl>> PROVE CoverInv'
      BY <1>2, <2>2 DEF CoverInv, CoverAt, Outstanding, Due, Live
    <2>3. QED
      BY <1>2, <2>1, <2>2, CoverWhenPaid, CoverWhenClaimed, CoverWhenContractMoves
         DEF Next, vars, LockTimesOut, UnlockChannel
  <1>3. ASSUME IndInv, CoverInv, Next, NEW p \in Payers,
               tx[p].pc = "read", tx'[p].pc \in {"started", "commit"}
        PROVE  /\ tx[p].nonce >= chain[tx[p].ch].nonce
               /\ Outstanding(tx[p].ch) + tx[p].amount <= chain[tx[p].ch].value
    <2>1. tx \in [Payers -> TxType] /\ tx[p] \in TxType
      BY <1>3 DEF IndInv, TypeOK, TxType
    <2>2. tx'[p] # tx[p]
      BY <1>3
    <2>3. Payment(p)
      <3>1. \A q \in Payers : Payment(q) => q = p
        BY <1>3, <2>2, PayerMoves DEF IndInv, PayerMove
      <3>2. UNCHANGED tx => FALSE
        BY <2>2
      <3>3. \A c \in Claimers : Claim(c) => UNCHANGED tx
        BY <1>3, ClaimerMoves DEF IndInv, ClaimerMove
      <3>4. Contract => UNCHANGED tx
        BY DEF Contract, OpenChannel, ChannelAddFunds, ChannelExtend, ChannelClaim,
           ChannelClaimTimeout, NewBlock
      <3>5. QED
        BY <1>3, <3>1, <3>2, <3>3, <3>4 DEF Next, LockTimesOut, UnlockChannel
    <2>4. ValidatePayment(p)
      <3>1. ASSUME CrashPayment(p) PROVE FALSE
        <4>1. tx'[p] = IdleTx
          BY <2>1, <3>1 DEF CrashPayment
        <4>2. QED
          BY <1>3, <4>1 DEF IdleTx
      <3>2. QED
        BY <1>3, <2>3, <3>1 DEF Payment, StartPaymentTransaction, GetToken, PaymentStep,
           StartTokenTransaction, ReadChannel, CheckIncome, CallService, Commit, Rollback
    <2>5. Validate(tx[p], tx[p].chan)
      <3>1. Finishing(p).pc = "unlock"
        BY DEF Finishing
      <3>2. tx' # [tx EXCEPT ![p] = Finishing(p)]
        BY <1>3, <2>1, <3>1
      <3>3. QED
        BY <2>4, <3>2 DEF ValidatePayment
    <2>6. /\ tx[p].ch \in Channels /\ tx[p].nonce \in Nat /\ tx[p].amount \in Nat
          /\ tx[p].chan.nonce \in Nat /\ tx[p].chan.full \in Nat /\ tx[p].chan.exp \in Nat
      BY <2>1 DEF TxType, ChannelData
    <2>7. /\ Outstanding(tx[p].ch) \in Nat /\ chain[tx[p].ch].value \in Nat
          /\ chain[tx[p].ch].nonce \in Nat /\ block \in Nat
      BY <1>3, <2>6, CoverNumbers
    <2>8. Live(tx[p].chan)
      BY <2>5, <2>6, <2>7, ConstantsAssumption DEF Validate, Live
    <2>9. /\ chain[tx[p].ch].nonce <= tx[p].chan.nonce
          /\ Outstanding(tx[p].ch) + tx[p].chan.full <= chain[tx[p].ch].value
      BY <1>3, <2>8, SnapshotCovered DEF Reading
    <2>10. QED
      BY <2>5, <2>6, <2>7, <2>9 DEF Validate
  <1>4. IndInv /\ CoverInv /\ [Next]_vars => [\A p \in Payers : Covered(p)]_vars
    BY <1>3
  <1>5. QED
    BY <1>1, <1>2, <1>4, Inductive, PTL DEF Spec, ServedIsCovered

=============================================================================
