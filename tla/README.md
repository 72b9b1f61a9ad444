# A verification development for snet-daemon

The daemon (`snetd`) stands between the clients of an AI service and the
service. It accepts a gRPC call when the call is paid for, forwards it, and
settles the payment. Several replicas of the daemon serve the same group and
share nothing but an etcd cluster and the MultiPartyEscrow (MPE) contract. What
is hard about it is therefore money and concurrency: a payment that is taken
twice, a call that is served and not paid, a claim that the contract refuses, a
lock that is never released. The modules here model that core and what surrounds
it, from the storage underneath to the process that serves the calls; TLC checks
them on small instances, and TLAPS proves all the safety properties that hold for
all instances.

| Module | Models | |
|---|---|---|
| `PaymentChannels` | channel transactions and claims, both storages, the contract, crashes | checked, proved |
| `PaymentChannelsProofs` | the inductive invariant of `PaymentChannels` and its theorems | proofs |
| `LockService` | what a lock promises (abstract) | |
| `EtcdLocker` | `etcdLocker` over etcd transactions | checked, proved to implement `LockService` |
| `EtcdLockerProofs` | that proof | proofs |
| `FreeCalls`, `MCFreeCalls` | free calls, their limit and the operator's commands | checked, proved |
| `FreeCallsProofs` | the lock of a user, the limit and how far it is passed | proofs |
| `PrePaid`, `MCPrePaid` | tokens and prepaid calls over retried transactions | checked, proved |
| `PrePaidProofs` | the accounting of tokens and calls | proofs |
| `StorageRequests` | the operations of a storage and what they mean | |
| `AtomicStorage` | what a storage promises (abstract) | |
| `EtcdStorage`, `MCEtcdStorage` | typed over prefixed storage over the etcd client | checked, proved to implement `AtomicStorage` |
| `EtcdStorageProofs` | that proof | proofs |
| `MemoryStorage`, `MCMemoryStorage` | the in-memory storage | checked, proved for transactions whose keys nobody else writes |
| `MemoryStorageProofs` | that proof | proofs |
| `Training`, `MCTraining` | models, access lists, the status workers | checked, proved |
| `TrainingProofs` | access and lost updates | proofs |
| `Proxy` | one call as it is passed on to the service | checked in `Daemon` |
| `Broadcaster` | starting and stopping the processing of requests | checked in `Daemon` |
| `Daemon`, `MCDaemon` | interceptors, proxy, operators, listener and process together | checked, proved |
| `DaemonProofs` | the safety of `Proxy`, `Broadcaster` and `Daemon` | proofs |

## 1. Inventory

### Payment channels (`escrow/escrow.go`, `payment_channel_*.go`, `payment_handler.go`, `validation.go`, `income.go`)

*State*: per channel a record in etcd (nonce, full amount, authorized amount and
its signature, expiration), a lock key, and payments under `channel/nonce` that
wait to be claimed. The contract has a nonce, a value and an expiration of its
own. *Operations*: `StartPaymentTransaction` (lock, read, validate), the income
check, the service call, `Commit` or `Rollback`; `StartClaim`, `ListClaims`,
`Finish`. *Interaction*: the stream interceptor drives a transaction around the
call; the control service starts claims; `PaymentChannel` merges the stored
channel with the contract's.
*Hard*: the lock is held during a service call of any length; the contract moves
meanwhile; a token request commits on the same channel without the income check;
the daemon's nonce runs ahead of the contract's by the number of open
claims; a claim is two writes; every call to etcd or Ethereum may fail, and may
fail after it took effect. *Correct* when: one request at a time has a channel;
every call is paid by exactly its own price; every claim is signed, stored and
covered by the contract; locks are released.

### Locks (`escrow/lock.go` over `etcddb/etcddb_client.go`)

*State*: one key with the value `locked` or `unlocked`, without owner or lease.
*Operations*: `Lock` (Get, then `CompareAndSwap` or `PutIfAbsent`), `Unlock`
(`CompareAndSwap`), and the operator's deletion of the key. *Hard*: three
requests to etcd per Lock; a transaction whose caller timed out may be applied
later. *Correct* when it implements mutual exclusion in spite of that.

### Provider control and channel state services (`control_service.go`, `state_service.go`)

`StartClaim`, `StartClaimForMultipleChannels`, `GetListInProgress` with the
removal of settled payments (`removeClaimedPayments`), `ListUnclaimed`;
`GetChannelState` for the client. *Hard*: they check before the lock is taken,
and sweep a list that was read earlier. *Correct* when no claim is lost, none is
unsigned, and the client can compute its unspent amount.

### Free calls (`free_call*.go`, `snetd/cmd/free_call_users.go`)

*State*: per user a count and a lock. *Operations*: a call (read, lock, check,
serve, write back plus one), `GetFreeCallsAvailable`, the operator's unlock and
reset. *Hard*: the count is read before the lock; the reset takes no lock.
*Correct* when a user gets the calls he is allowed and locks are released.

### Tokens and prepaid calls (`token_service.go`, `prepaid_*.go`)

*State*: per channel the planned, used and refunded amounts. *Operations*:
`GetToken` commits a larger signed amount and adds the difference to the planned
amount; a prepaid call adds its price to the used amount and refunds it after a
failure; all three by etcd transactions retried until they succeed
(`UpdateUsage`). *Hard*: no lock; the difference is taken against a channel read
earlier; crash between two updates. *Correct* when calls stay within the planned
amount and that within what was signed.

### Storage (`storage/`, `etcddb/`)

*State*: keys with values, in etcd also with revisions. *Operations*: Get,
GetByKeyPrefix, Put, Delete, PutIfAbsent, CompareAndSwap and transactions with an
update function, behind a prefix and a typed view. etcd compares revisions, the
memory compares values one key at a time. *Hard*: a transaction is a read, a
computation and a conditional write that may fail, be retried on fresh values,
time out, or be carried out after the caller was told of an error; keys come back
in another order than they were asked for. *Correct* when every operation acts on
all its keys at one moment and a call ends.

### Training (`training/`, `escrow/train_pay_handler.go`)

*State*: a record per model, a list of models per user, a list of pending and one
of public models, under separate keys. *Operations*: create, update, delete, get
and list models, ask for prices, validate, upload, train; workers poll the
provider for the status of pending models. *Interaction*: every request calls the
service provider between a read and a write; the payment handlers read prices
from the records. *Hard*: records and lists are stored whole from copies read
earlier, several lists per request, and part of the work is done after the
answer. *Correct* when lists agree with what owners asked for, when a listing
agrees with the check of access, when updates are lost only to a race, and when
pending models do not stay so.

### Interceptors and proxy (`handler/`)

*State*: per call the frame read ahead, two forwarding goroutines and their
channels, the open payment. *Operations*: rate limit, payment, handler, Complete
or CompleteAfterError in a deferred function. *Hard*: client, service, both
goroutines and the timeout end in any order; the handler may panic; the payment
holds a lock meanwhile. *Correct* when frames arrive in order, a call reported as
good was answered completely, the payment is settled once and in time, and no
goroutine is left.

### Configuration service, broadcaster, contract listener, process (`configuration_service/`, `contract_event_listener/`, `snetd/cmd/`)

An operator's start or stop goes through two channels of capacity one to a flag
of the rate limit interceptor, and is answered before it takes effect. The
listener reconnects etcd when the organization's endpoints change. `serve` starts
the embedded etcd server, creates components when they are first needed, serves
until a signal, waits for the calls and closes the storage. *Correct* when the
last command wins and the storage outlives every call that needs it.

### Licenses, pricing, rate limit, metrics, blockchain and IPFS clients, configuration, logging, utilities

No package of the daemon uses `license_server/`. The rest is I/O, formatting or
wiring without state other parts read. `PROJECT.json` lists each with its status
and reason, and the hazards at their lines.

## 2. What is modelled, and how it corresponds to the code

An action is the stretch of a handler between two points where another request
can see or change something: a call to etcd, to the contract or to the service.
A storage call that fails is a disjunct of the action that makes it, including
the case that it took effect and only its answer was lost. A crash removes a
request at any step and leaves the storages as they are. Faults are chosen by
the constant `Faults`, so a run can exclude those it is not about.

**PaymentChannels.** `store`, `payments` and `lock` are the three etcd storages;
`chain` and `block` the contract (external: opening, adding funds, extending,
claiming and claiming after the timeout, in the order the contract allows); `tx`
and `cl` the requests, with the snapshot each works on. Two kinds of requests run a
payment transaction. A paid call (`Calls`), of the service or of a training method,
goes through `StartPaymentTransaction` (lock), `ReadChannel`, `ValidatePayment`,
`CheckIncome`, `CallService` and `Commit` or `Rollback`; its price is any of `Prices`,
since methods and models have prices of their own. A token request (`Tokens`) reads
the channel without the lock (`GetToken`), then takes it (`StartTokenTransaction`),
reads, validates and commits at once: there is no income check, so the amount may
grow by anything the funds cover, or fall back to one that is lower than what was
committed after its first read. The planned amount it adds afterwards is in
`PrePaid`. A claiming request goes `check` (the test of the authorized amount
before the lock), `lock`, `locked` (read, `IncrementChannelNonce`, put the next
channel), `putPayment`, `unlock`, and on to the next channel of
`StartClaimForMultipleChannels`. A sweep goes `list`, then `sweep`, one Delete at
a time. A signature is a record of what it signs or `NoSignature`; recovering a
signer's address is whether the client signed. `PaymentChannel` reads storage
and contract in one step. Under the lock that makes no difference, since only
the contract can move between the two reads and the read of the contract is
later; in the unlocked `CheckAuthorizedAmount` a result that lets the claim go
on is one that a single read at the earlier moment gives too. The reads of
`GetChannelState` are taken as one moment as well; a reply that mixes two is not
modelled.

**LockService** is the promise of interface `Locker`: `held`, and the `owners`
between a successful Lock and their Unlock. Since there is no lease the lock may
be set for nobody (`Orphan`) and be cleared when nobody has it (`Clear`).
`PaymentChannels` and `FreeCalls` are proved to use their locks as this module
allows (`UsesLockService`, `FreeCallsUseLockService`), and `EtcdLocker` to
implement it; so the one Boolean step for Lock in the former is justified by the
latter.

**EtcdLocker** has the key with its modification revision, the requests with
their transaction's snapshot, and the set of transactions whose caller timed out
and that etcd may apply at any later time. `Compare` is the `If` of
`CompleteTransaction`.

**FreeCalls** follows `StartFreeCallUserTransaction`, `Commit` and `Rollback`;
`Allowed`/`LimitAllows` is the check of the limit, `FreeCallsAvailable` the other
computation of it in the state service. `counted` is a history variable: the
calls stored since the last reset. A number configured for a user is taken to be
-1 (no limit) or more (`EntriesAreLimits` in `FreeCallsProofs`); below that the two
services disagree: the check refuses every call, the other one reports calls left.

**PrePaid** has the three amounts, a channel reduced to nonce and amounts, and
requests that run `UpdateUsage`: `StartUpdate` reads, `CompleteUpdate` applies the
update function and the transaction, which succeeds, is retried with fresh
values, is refused or fails. Calls paid directly on the channel and claims are
single actions, which `PaymentChannels` shows them to be as far as the channel is
concerned (lock). Amounts only grow, so comparing them is comparing revisions.
Four variables are history: `stale`, a token request has committed over an authorized
amount that it had not seen; `lost`, one failed between its commit and its update;
`claimed` and `byCall`, what claims were worth and what calls paid on the channel cost.

**StorageRequests, AtomicStorage, EtcdStorage.** A request is a record (kind, key,
compared value, new value); `Accepts` and `Writes` say what it does. "increment"
stands for the update functions of the code's transactions: it looks at all keys
of a prefix and refuses beyond a limit, as `IncrementUsedAmount` does.
`AtomicStorage` says what callers may rely on: one moment of effect between call
and answer, refusal only for a reason that existed during the call, and after an
error an effect that took place, is still to come, once, or never comes.
`EtcdStorage` has the keys with their modification revisions, the client's
snapshot of a transaction (`txn`), the request on its way (`sent`) and the
requests whose callers have gone (`late`). `checkTxnResponse` gives the present
keys in the order of the responses and the absent ones in any order, since the
code takes these from a map. The refinement mapping forgets revisions and
snapshots. The promise is weaker than the comment of the interface: "If err is nil
and ok is false, then the operation failed because prevValue is not equal to the
current value" (`atomic_storage.go:22-24`). The etcd client compares revisions, once,
so a `CompareAndSwap` may be refused because somebody wrote the key meanwhile, even
the same value. Only the lock uses it, and takes the refusal for a lock it did not
get. Transactions and `PutIfAbsent` are refused for values really stored.

**MemoryStorage** has the same requests with the steps between which its mutex is
free: single operations are one step, a transaction reads at `StartTransaction`
and then compares and writes key by key. `disturbed` is history: the clients during
whose transaction another call wrote one of its keys.

**Training.** `model`, `ids`, `pending` and `public` are the four storages; a
user's list is kept as the number of times each model is in it, which is what the
code's `append` and `remove` can disagree about. A request goes through `read`,
`call`, `put`, `lists` and `store` (one user at a time), `public`; `pend` is what
`AddPendingModelId` still has to do after the answer. A worker reads the record,
asks the provider, takes the id off the pending list and stores the record.
Requests may name a model whose creation is still under way, as soon as its record
or a list shows it. `seen` is history: what owners asked for, who stored over a version
he had not read, whom an update added or left out, and which deletions began before the
creation had ended (`overtaken`). The storage fails at most once in a behaviour.

**Proxy.** For a gRPC service `up` and `down` are the goroutines of
`forwardServerToClient` and `forwardClientToServer`, `errs` their channels, and
`main` the loop with `select`. HTTP, JSON-RPC and process services are read,
convert, call, answer. The transport is external: `RecvMsg` and `SendMsg` as the
code's comments and branches use them. A send to the client (`DownSend`,
`SendAnswer`) is a step of the environment, because flow control makes it wait for a
client that reads; it fails by itself only once the client, or the call, is gone.
The context of the call to a proxied service ends with the client's or by
`withDefaultTimeout`. The training methods (`UnaryHandler`) ask the provider with the
client's context alone: nothing but an answer or the end of the client's call ends
that wait. The header of the answer may be missing (`HeaderFails`); `SendHeader`
cannot fail there, because the wrapper suppresses its first call.

**Broadcaster** has the trigger channel, the publisher, the subscriber's channel
and the flag; the one subscriber registers before any call.

**Daemon** composes the two around one call. `phase` is the interceptor that has
the call; `payment` what `Payment` opened; `life` the process, from the
configuration through the embedded server and the components to `stop` and
`Close`; `etcd` the clients and the server. `start` comes in two steps, before and
after the storage's client exists; each may end by the panic of a component, after
which the deferred functions close what is open, or by `Fatal`, which closes nothing. What a payment does to a channel or a
count is in the modules above; `Daemon` is about when it is opened and settled. A
second call would not meet the first one except in those storages.

## 3. Runs

| Run | Question | Result |
|---|---|---|
| `payments` | a paid call, a token request, a claimer, storage and chain failures, crashes | holds |
| `claims` | a paid call, a token request, a claimer over three nonces, failing Ethereum node, expiry and refill, liveness of the lock | holds |
| `locker` | `EtcdLocker` implements `LockService`, three requests, late transactions | holds |
| `free_calls` | two users, two requests, faults, operator's commands | holds |
| `prepaid` | two token requests, two prepaid calls, claims and paid calls, faults | holds |
| `storage` | `EtcdStorage` implements `AtomicStorage`, two clients, three calls, timeouts and late requests | holds |
| `training` | two requests of any kind and a status worker, failing storage, crash | holds |
| `daemon` | one call of every kind, from the start of the process to its end | holds |
| `claim_race` | two claims at once: is every stored claim signed? | violated |
| `claim_crash` | a crash between the two writes: is a claim lost? | violated |
| `training_access` | does a user whom an update leaves out lose his access? | violated |
| `memory_txn` | has a transaction that reports success written? | violated |

What the properties say:

* `MutualExclusion`, `UsesLockService`: at most one request is between Lock and
  Unlock of a channel, through crashes, lost answers and careful manual unlocks.
* `NextClaimCovered`: until the expiration the daemon has stored, the claim next
  on chain is covered by the channel's value, however many claims are open.
* `ServedIsCovered`: when a payment is accepted, of a call or of a token request,
  its amount and all open claims fit into the channel's value at that moment.
* `IncomeStep`: a call is paid by exactly its own price, whatever overlaps it;
  besides, a stored channel changes only by a claim, to the next nonce, or by a token
  request, to an amount that the funds cover. Within a nonce the authorized amount
  can fall: a token request may commit an amount lower than one it has not seen.
* `ClaimIsSigned`, `NoClaimLost`: every nonce left behind has a signed payment
  until it is settled. They hold as long as claims are made one at a time and
  nothing crashes; `claim_race` and `claim_crash` show that neither condition
  can be dropped.
* `UnspentAmountIsExact`: from the reply of `GetChannelState` the client computes
  exactly what it has left, while the daemon is at most one nonce ahead of the
  contract. `state_service.go` assumes that; nothing enforces it, and with two
  open claims the reply leaves one amount out.
* `LockReleased`: every channel's lock is released again.
* `SoftLimit`: since a count is read before the lock, the limit of free calls is
  soft, but it is a limit: with `n` requests in flight, `k` allowed calls become
  at most `(k+n over n) - 1`. The coefficient is stated as the number of
  `k`-element subsets of `k+n` places, which is how the proof counts; `CountsChoices`
  compares it with `choose` of `Combinatorics`. TLC finds that bound attained, so a user can get
  more calls than the limit the comment at `free_call.go:76` promises.
* `OnlyFailuresLeaveLocks`: a user's lock that nobody holds was left by a crash or
  by a storage call that failed; refusal, failing services and commits give it
  back.
* `AvailabilityAgrees`: the number of free calls reported is positive exactly
  when a call would pass the check.
* `UsedIsAccounted`, `ServedWithinPlanned`: the used amount stands for calls
  served, in service or refunded, each once, and calls stay within what is
  planned, whatever races and failures there are.
* `PlannedIsPaid`, `PaidIsPlanned`: what is planned was signed for, and what was
  signed for with tokens is planned or about to be, however often the update loses
  its race and is tried again. Both except a token request that committed over an
  amount it had not seen. It can: the channel is read before its lock is taken
  (`token_service.go:68`, `:101`), so two requests at once may count the same
  tokens twice and the smaller amount may be committed last. The second one also
  excepts a request that failed between commit and update: the client has then signed
  for what it cannot use, and nothing repairs that.
* `ImplementsAtomicStorage`, `CallsEnd`: see section 2; a transaction that lost a
  race is computed again from the values and revisions it lost to, and therefore
  ends.
* `OkMeansWritten` is violated by the in-memory storage: a transaction that finds
  another value than it read goes on and reports success.
* `AccessOnlyGranted`, `CreateGrantsAccess`, `DeleteRevokes`: the list that the
  check of access trusts names only models whose owner once authorized the user;
  an answered creation gives access until the model is deleted, to everybody whom
  no update has left out; after an answered deletion the check of access refuses
  every address of the record that was read. The exceptions are faults of the code:
  a list stored over one its writer had not read, and for a deletion a public model
  (`deleteModelDetails` leaves the public list alone, so the model stays open to
  everybody), a failing storage, an update that had listed the user twice, and a
  deletion that begins before the creation has ended. As the code is, even users left
  out keep their access (`RevokedLosesAccess`); `CreateGrantsAccess` does not ask for it.
* `ListingAgreesWithAccess`: `GetAllModels` lists what `GetModel` would give, each
  taken as one read.
* `LostUpdatesNeedARace`: addresses and prices of a model are the last ones
  stored for it unless two writers overlapped.
* `PendingDrains`: a model whose work is done leaves the pending list.
* `RevokedLosesAccess` is violated without any race: `getModelUserData` adds the
  id that `remove` then takes out.
* `SettledOnce`, `PaymentSettledEventually`: a payment is settled once, as the
  result of the handler demands, and it is settled unless the process ends, but for
  three places where the handler waits without a timeout: for the provider of
  `train_model` or `validate_model` (`training/service.go:401`, `:500`) and in `SendMsg`
  for a client that does not read (`grpc.go:220`, `:384`), both only as long as the
  client stays, and for a process to read an input larger than its pipe. Each of the
  three is necessary: without it TLC finds the payment open for ever.
* `SettledOnOpenStorage`, `StorageLifetime`: calls find the storage open from the
  beginning to the end of the process, and a process that ends by a signal or a
  panic closes client and server in that order; `Fatal` closes nothing. Only the
  contract listener, which closes the client everybody shares, takes the storage away
  from a running daemon.
* `FramesInOrder`, `OkMeansComplete`, `NeverReached`, `GoroutinesEnd`: the proxy
  loses, repeats and reorders nothing, reports no call as good before the whole
  answer was passed on, never falls out of its loop ("should never reach this
  stage") and leaves no goroutine behind.
* `EventuallyObeyed`: the interceptor ends up with the last command sent.

The violated runs are disagreements with what the code says of itself; the
entries under `findings` quote it. The model also shows that `UploadAndValidate`
cannot succeed behind the payment interceptor: the stream's first `RecvMsg` asks
the wrapper for a message type it refuses (`wrapper_stream.go:47`), and the frame
it had read is lost.

**Bounds.** One channel is enough: no action reads two channels, except that a
claiming request goes on to the next one. A paid call, a token request and a claimer
(or two claimers in `claim_race`) give every pair of kinds of requests; two of a kind
exclude each other by the lock as two kinds do. `MaxNonce = 2` lets the daemon be two
nonces ahead of the contract, or behind it after a timeout claim, and merge both
ways; `MaxBlock = 1` with expirations 1 and 2 and threshold 0 gives payments before, at
and after the threshold, and an expired channel that is filled again. Amounts 1 and 2
with prices 0 and 1 (in `claims` 1) give right, too small and too large payments, and a
deposit of 2 is enough for two claims; a channel is filled again once it is empty. `locker` has three requests (holder, contender, somebody gone) and
revisions up to 5, so that a late transaction meets a lock that has changed
hands; `MaxLate` only limits when a transaction may be delayed. In `free_calls`
three allowed calls and two requests let stale counts pile up; `MaxMade` bounds
the unlimited user. In `prepaid` `Full = 2` and two nonces let a token request
overlap a claim; `MaxRefund` bounds failing calls, without which used and refunded
amounts grow for ever; requests of a kind are symmetric, and every property
treats them alike. `storage` has two names and two prefixes, of which one is used
and the other must not show in a reading by prefix; three calls let a late
request meet two later ones. In `memory_txn` a transaction tries twice instead of
a hundred times. `training` begins with a private model of one user, so that two
requests are enough for every pair of operations on an existing model, and its
second id lets two models meet in one list. `daemon` has two frames each way, two
operators' calls and two changes of the endpoints. The product of the call, the
operators and the listener is large and they meet in one variable each, so
`MCDaemon` lets the operators act in the behaviours of one kind of service
(`OperatorKinds`) and varies storage and endpoints in those of two
(`ListenerKinds`: one stream, one unary call); all other parts are there for every
kind. Deadlock is not checked where the instance may stop: `storage` and
`memory_txn` after the last call, `daemon` after the end of the call or the process.

**Fairness.** Always weak fairness of the daemon's own steps, because goroutines
are scheduled. In `claims`: each request's steps; a proxied call ends since the
proxy gives every call without a deadline one (`withDefaultTimeout`), as `daemon` shows,
and etcd requests end by the client's timeout. That the provider of a training method
answers, and that a client which stays reads its answer, is assumed there: the code
does not ensure it (`PaymentSettledEventually`). In `daemon`: the steps of interceptors, handler and goroutines, and the
expiry of that context (the configured timeout is taken to be positive, as its
default is); clients, services, providers and operators are under no obligation, and
neither are the steps that take a client that reads or a provider that answers. In
`storage`: each call's steps, answers of etcd included, since a request ends by
its answer or by its timeout; a call loses a race only to a call that was carried
out, and the bound on calls stands for the fact that other callers pause. In
`training`: the steps of a worker, which a timer starts again and again, and
strong fairness of the provider's answer, which is an assumption about the
provider. No liveness is claimed for `UpdateUsage` in `PrePaid`: with callers who
never pause a transaction may lose every race.

## 4. What is proved

The theorems are about the specifications themselves and hold for all values of
the constants that satisfy the named assumptions of the modules (sets of requests
and channels of any size, any price, amounts, bounds and sets of faults). Where a
theorem needs more, its `ASSUME` says so, and it is said here.

**PaymentChannelsProofs.** All theorems assume `"unlock" \notin Faults`: the
operator deletes a lock only when no request has it. (With that fault exclusion
fails trivially; the command cannot know.)

* `TypeCorrectness` (`TypeOK`), in particular that the full amount minus the
  authorized amount of `IncrementChannelNonce` is never negative;
* `LockExcludes` (`MutualExclusion`);
* `NoOverexpenditure` (`NextClaimCovered`);
* `CallsAreCovered` (`ServedIsCovered`), for any number of open claims, calls and
  token requests;
* `Accounting` (`IncomeStep`), for any set of prices: a call that has passed the income
  check holds a snapshot whose amount is still the stored one, because it has the lock;
* `UnspentIsExact` (`UnspentAmountIsExact`): the open claims that the contract has
  still to settle are the very payments from which `GetChannelState` takes what it
  reports, so the sums are equal without being computed;
* `LockServiceRefined` (`UsesLockService`);
* `ClaimsAreSigned` (`ClaimIsSigned`), with at most one claimer, which
  `claim_race` shows to be necessary;
* `ClaimsAreKept` (`NoClaimLost`), for any number of claimers, with no fault but
  that of the Ethereum node; `claim_crash` shows why a crash must be excluded.

The first ones follow from `Inductive`: `IndInv` is inductive. Its parts are:
`LockInv`, a request in its critical section has set the lock and is alone;
`OpenInv`, nothing is stored of a channel not yet opened; `StoreInv`, a stored
signature is of the stored nonce and amount, the amount is within the full amount,
and the stored channel is *backed*: while it is live the contract is not past its
nonce, does not expire earlier, and has the full amount when it gets to that nonce;
`PaymentInv`, the open claims of a channel form a chain, each nonce's full amount
covered by what the one before leaves over; `TxInv` and `ClInv`, the snapshot of
a transaction and of a claim between its two writes still fits the storage. The
strengthening is needed because `NextClaimCovered` speaks only of the next
claim: when it is settled, the one after it must have been covered by what is
left, which is what the chain says. The contract's steps are the interesting
ones (`ChannelClaim` moves the chain on, `ChannelClaimTimeout` can only happen when
the channel is no longer live), and `PutNextChannel` extends it. `ClaimsAreSigned`
adds `SignedInv` (past the check of the authorized amount the stored channel has
a signature, since only a claim takes it away), `ClaimsAreKept` adds `KeptInv`
(every nonce between the contract's and the daemon's is paid for, or a claimer is
between its two writes; a sweep deletes only what the contract has settled).

`CallsAreCovered` adds `CoverInv`: on a live channel the stored full amount and
all open claims fit into the channel's value, also together with the claim of a
claimer that has written the next channel and not yet its payment. A claim only
moves an amount from the stored channel to the open claims, a settlement takes
the same amount from the open claims and from the value (`CoverWhenSettled`), and
what a payment has read when it got the lock stays true until it commits
(`SnapshotCovered`). The sum of a set of payments is the number of its units
(`Units`, `Total`), so that adding or removing one payment is a fact about
cardinalities (`TotalWithOne`, `TotalOfFew`) and no induction is needed.

**EtcdLockerProofs**: `LockerImplementsLockService` (`ImplementsLockService`). The
inductive invariant `LockerInv` says that a snapshot whose revision is still the
key's has the key's value (`SnapOK`), and that a delayed Unlock has seen an older
revision than that of a lock somebody has. Comparing values instead of revisions
breaks exactly this.

**EtcdStorageProofs**: `StorageTypes` (`StorageTypeOK`) and
`EtcdImplementsAtomicStorage` (`ImplementsAtomicStorage`). `EtcdInv` says, besides
where a call is in its protocol, that what a transaction has seen is good for
ever: a key that still has the revision that was seen still has the value that
was seen (`SnapOK`; revisions never come back). It follows that a request whose
comparisons hold writes what its update function computes from the values of
*now* (`MessageAgrees`), which is the moment at which the abstract operation takes
effect. For refusals the invariant keeps a reason: a pending call whose update
function would refuse the stored values, or has refused those it has read, has
"refused" among its reasons, and one whose comparisons no longer hold has
"disturbed". Numbers of requests that are under way differ (`IdsInv`), so a late
request takes effect at most once. Every step is then a step of `AtomicStorage` or
none (`StorageStep`). Lemmas about the operators carry it: a request depends on
its condition keys only (`Agreement`), and the answer of etcd is one moment's
values in whatever order it comes (`ReadGives`).

**MemoryStorageProofs**: `UndisturbedIsWritten` (`UndisturbedOkMeansWritten`) and
`UndisturbedTakesEffectAtOnce` (`UndisturbedIsAtomic`), for any number of clients, keys
and calls at the same time. Both are about a transaction during which no other call
wrote one of its keys, whatever the others do elsewhere: a report of success means
that it has written (`memory_txn` shows this to be false without the condition); it
writes once, the whole effect in one step on the values stored then; and it is refused
only for values that are stored, with nothing written. In `MemoryInv` such a
transaction has read what is stored, but for the one key that it has written itself,
and that key is already behind it (along the order of the condition keys, which
goes through each key once: `KeyOrder`). So its comparisons always succeed and the key
is written exactly once. The theorems show where the fault of `CompleteTransaction`
is: it passes over a key that another call has changed, and over nothing else.

**PrePaidProofs**: `PrePaidTypes`, `NothingUsedIsLost` (`UsedIsAccounted`),
`ServedIsPlanned` (`ServedWithinPlanned`), `PlannedIsAuthorized` (`PlannedIsPaid`) and
`AuthorizedIsPlanned` (`PaidIsPlanned`). `PrePaidInv` adds that the used
amount stays within planned plus refunded (`BudgetInv`: that is what the update
function checks, on values that have not changed when the transaction succeeds),
that a token request between validation and commit has the channel to itself
(`LockInv`), and that the planned amount together with the increments still on
their way is signed for and, with what calls on the channel have cost, is all that is
signed for (`PendingInv`). A sum over the token requests would need an
induction; the increments are counted instead as the cardinality of a set of
pairs, one per unit of token, so that facts about finite sets are enough.

**FreeCallsProofs**: `LocksAreGivenBack` (`OnlyFailuresLeaveLocks`),
`FreeCallsRefineLockService` (`FreeCallsUseLockService`), `LimitsAgree`
(`AvailabilityAgrees`, for configured numbers not below -1), `FreeTypes`,
`CountStaysWithinLimit` (the stored count never passes the limit, although the
calls that were served may) and `LimitIsSoftButALimit` (`SoftLimit`, for any finite
number of requests and configured numbers not below -1). `FreeInv` says that a
request between Lock and Unlock is the only one of its user and the lock is set,
and that a request at the service has passed the check.

`SoftLimit` does not rest on the lock at all, and its proof is a measure. Every
request *goes on from* some count: the one it has read, or the stored one if that is
lower or it has yet to read (`GoesOnFrom`). For each count `i` below the limit take
the number of requests that go on from `i` or less: this profile is a sequence of
`k` numbers up to `n` that never falls from one to the next. A commit that is
counted takes the request up from a count `c` and stores `c + 1`, so the profile
stays what it was below `c` and gets smaller at `c`, whatever it becomes above: it
falls lexicographically. Reads, commits that do not count and failures never raise
it (`RankKept`), and a reset starts the count again. There are as many profiles as
ways to mark `k` of `k+n` places (`Marks`, `Ways`), so `SoftInv` can say that the
calls counted so far and the profiles still below the present one (`Rank`) are
together fewer than the ways. The first place at which two profiles differ comes
from the least-number principle (`LeastNumber`, from the well-foundedness of `<`),
so that no induction with an operator parameter is needed.

**TrainingProofs**: `TrainingTypes`, `AccessIsGranted` (`AccessOnlyGranted`),
`CreatorsHaveAccess` (`CreateGrantsAccess`), `DeleteTakesAccess` (`DeleteRevokes`),
`ListingIsAccess` (`ListingAgreesWithAccess`), `UpdatesAreLostToRacesOnly`
(`LostUpdatesNeedARace`). `TrainingInv` says of every request in progress what it
will store (`ReqLists`: only what has been granted) and what it has already
achieved (`ReqGrants`, `ReqRevokes`: the list of every address of a creation or
deletion is still to be stored, or has been, or was stored over), that a model
has one creation and a deletion that overtook it is remembered (`Exclusive`), and that
whether a model is public never changes. What a step of one request may do to the
others is said once (`SharedGrows`, `KeepsFor`) and used for all steps.

**DaemonProofs**: `DaemonTypes`, `EveryPaymentIsSettledOnce` (`SettledOnce`),
`PaymentsFindTheStorage` (`SettledOnOpenStorage`), `StorageOutlivesCalls`
(`StorageLifetime`), `FramesKeepTheirOrder` (`FramesInOrder`), `GoodCallsAreComplete`
(`OkMeansComplete`), `LoopAlwaysReturns` (`NeverReached`), of `DaemonSpec`, which
allows more than `MCSpec` does. `DaemonInv` follows a frame from queue to queue:
a queue holds the last of the numbers sent (`Numbered`), what was received is a
prefix (`Counts`), and a goroutine has at most the one frame between the two
(`UpInv`, `DownInv`; the first frame, which the payment read ahead, is the special
case). `SelectInv` says that a goroutine reports its end once, `CallInv` ties the
payment to the phase of the call, `StorageInv` the clients and the server to the
life of the process. `CommandsReachTheInterceptor` is what `EventuallyObeyed` rests
on: with no command under way the interceptor goes by the last command whose call
was answered, and it stops the processing only after an authenticated operator's
stop was answered. `CommandInv` says that the youngest command between the trigger
channel and the flag is always the last one sent.

**Only model-checked.**

* Liveness under fairness, which is out of the prover's reach: `LockReleased`,
  `CallsEnd`, `PendingDrains`, `EventuallyObeyed`, `PaymentSettledEventually`,
  `GoroutinesEnd`.
* The four violated properties: the runs show what the code does. Three of them are
  proved under the condition that the run breaks (`ClaimsAreSigned`, `ClaimsAreKept`,
  `UndisturbedIsWritten`); `RevokedLosesAccess` fails without any concurrency.
* That `kSubset` counts binomial coefficients (`CountsChoices`), for small numbers: the
  theorem does not use it.

## 5. Not modelled

* Cryptography and the validation of free call tokens: a signature is a record of
  what it signs, or a flag. Serialisation of keys and values is injective.
* Licenses: no package of the daemon uses `license_server/`, so there is no caller
  to model. Reading it shows that renewing a planned license clears the used and
  refunded amounts only in memory, while the update writes the planned key alone.
* Metadata, IPFS and the Ethereum client beyond the contract's channels; metering,
  metrics, heartbeat, logging, CORS, HTTP multiplexing, certificates: I/O without
  state that other parts read.
* The limiter of the rate limit and the choice of a price: a free choice, the latter
  from a set of prices (in `PrePaid` one price).
* The late effect of an unconditional Put on channels: `EtcdStorage` has it for the
  storage, `EtcdLocker` for the lock's transactions. A `Commit` whose Put timed out
  may in principle be applied after the lock was released; the code cannot tell,
  and in `PaymentChannels` a failing Put has no effect.
* Connections: a status worker never closes the one it gets.

## 6. Plan

1. Done: `PaymentChannels`, `LockService` and `EtcdLocker`, `FreeCalls`, `PrePaid`,
   the storages, `Training`, `Broadcaster`, `Proxy`, `Daemon`, with their runs.
2. Done: the theorems of section 4.
3. Left: liveness, which is out of the provers' reach; and the late effect of
   an unconditional Put on a channel, which section 5 leaves out of `PaymentChannels`.
