---------------------------- MODULE EtcdStorage ----------------------------
(***************************************************************************)
(* The daemon's storage as it is stacked in components.go: a typed storage *)
(* (atomic_storage.go) on a prefixed one on the etcd client                *)
(* (etcddb_client.go).  A transaction is optimistic: it reads its          *)
(* condition keys with their revisions, computes the update from them, and *)
(* sends a request that etcd carries out if every revision is still the    *)
(* same.  Every request has a timeout, after which the caller gets an      *)
(* error and etcd may still carry the request out.                         *)
(*                                                                         *)
(* etcd itself is not part of the source: its revisions, and the atomic    *)
(* if-then-else transaction, are modelled from the way the client uses     *)
(* them.  A key is the pair of prefix and name; values are numbers, and    *)
(* the serializers are taken to be injective and never to fail.            *)
(***************************************************************************)
EXTENDS StorageRequests, Sequences, SequencesExt

VARIABLES
    call,     \* per client: its request, how far it is, and the answer
    late,     \* requests at etcd whose callers have given up
    reasons,  \* history: what happened during a call that may refuse it
    store,    \* etcd: value and mod revision of every key; revision 0: no key
    revision, \* etcd: the current revision
    pc,       \* where a call is: see Places
    txn,      \* etcdTransaction: the ConditionValues of a call
    sent,     \* the request at etcd whose answer the call is waiting for
    calls     \* number of calls so far

etcdVars == <<call, late, reasons, store, revision, pc, txn, sent, calls>>

Places == {"idle", "direct", "start", "update", "complete", "answer"}

NoRequest == [cmps |-> {}, puts |-> <<>>, req |-> Absent]

Version == [value : Nat, mod : Nat]

NoKey == [value |-> 0, mod |-> 0]

ValueOf(s, k) == IF s[k].mod = 0 THEN Absent ELSE s[k].value

(* The refinement mapping: the values, without the revisions.              *)
Stored(s) == [k \in Keys |-> ValueOf(s, k)]

-----------------------------------------------------------------------------
(* appendKeyPrefix: the condition keys of a request, in the order in which *)
(* the caller lists them.                                                  *)
appendKeyPrefix(r) ==
    LET order == SetToSeq(Names)
    IN  IF r.kind = "increment"
        THEN [i \in 1..Len(order) |-> <<r.key[1], order[i]>>]
        ELSE <<r.key>>

KeyState(s, k) ==
    [key |-> k, present |-> s[k].mod # 0, value |-> s[k].value, version |-> s[k].mod]

\* Mutant.
checkPresentOnly(s, keys) ==
    {SelectSeq([i \in 1..Len(keys) |-> KeyState(s, keys[i])], LAMBDA v : v.present)}

(* checkTxnResponse: the present keys in the order of the responses, then  *)
(* the absent ones in the order of a map, that is in any order.            *)
checkTxnResponse(s, keys) ==
    LET places     == 1..Len(keys)
        present(i) == s[keys[i]].mod # 0
        orders     == { p \in Bijection(places, places) : \A i, j \in places :
                          i < j /\ present(p[j]) => present(p[i]) /\ p[i] < p[j] }
    IN  { [i \in places |-> KeyState(s, keys[p[i]])] : p \in orders }

(* findKeyValueByKey.                                                      *)
findKeyValueByKey(values, k) == values[SelectInSeq(values, LAMBDA v : v.key = k)]

(* convertKeyValueDataToTyped: the values of the condition keys as the     *)
(* update function gets them.                                              *)
ConditionValues(r, values) ==
    [k \in Range(appendKeyPrefix(r)) |->
       LET v == findKeyValueByKey(values, k)
       IN  IF v.present THEN v.value ELSE Absent]

\* Mutant.
ComparePresent(v, s) == v.present => s[v.key].mod = v.version

(* The comparisons of CompleteTransaction: ModRevision of a present key,   *)
(* CreateRevision = 0 of an absent one.                                    *)
Compare(v, s) ==
    IF v.present THEN s[v.key].mod = v.version ELSE s[v.key].mod = 0

(* etcd writes all the keys of a request at one new revision.              *)
Put(s, puts, rev) ==
    [k \in Keys |-> IF k \notin DOMAIN puts THEN s[k]
                    ELSE IF puts[k] = Absent THEN NoKey
                    ELSE [value |-> puts[k], mod |-> rev]]

CarryOut(puts) ==
    /\ store' = Put(store, puts, revision + 1)
    /\ revision' = IF puts = <<>> THEN revision ELSE revision + 1
    /\ reasons' = Reasons(reasons, call, Stored(store'), DOMAIN puts)

EtcdDecides(c, answer) ==
    /\ pc' = [pc EXCEPT ![c] = "answer"]
    /\ call' = [call EXCEPT ![c] = [@ EXCEPT !.status = "decided", !.answer = answer]]

Untouched == UNCHANGED <<late, calls>>

-----------------------------------------------------------------------------
(***************************************************************************)
(* The client's side.                                                      *)
(***************************************************************************)

(* A method of the typed storage: Get, GetAll, Put and Delete are one      *)
(* request; PutIfAbsent, CompareAndSwap and ExecuteTransaction start a     *)
(* transaction.                                                            *)
CallStorage(c, r) ==
    /\ pc[c] = "idle" /\ calls < MaxCalls
    /\ call' = [call EXCEPT ![c] = [req |-> r, status |-> "pending",
                                    answer |-> Says("none")]]
    /\ reasons' = [reasons EXCEPT ![c] = IF Accepts(r, Stored(store)) THEN {}
                                         ELSE {"refused"}]
    /\ pc' = [pc EXCEPT ![c] = IF r.kind \in {"get", "getall", "put", "delete"}
                               THEN "direct" ELSE "start"]
    /\ calls' = calls + 1
    /\ UNCHANGED <<late, store, revision, txn, sent>>

(* The update functions: of PutIfAbsent and CompareAndSwap, and of a       *)
(* transaction that reads all the keys and increments one of them          *)
(* (IncrementUsedAmount of prepaid_service.go).                            *)
Update(r, f) == Writes(r, f)

(* ExecuteTransaction, with the values just read: the update function      *)
(* refuses, or CompleteTransaction is sent.                                *)
UpdateOrRefuse(c) ==
    LET r == call[c].req
        f == ConditionValues(r, txn[c])
    IN  /\ pc[c] = "update"
        /\ IF Accepts(r, f)
           THEN /\ sent' = [sent EXCEPT ![c] = [cmps |-> Range(txn[c]),
                                                puts |-> Update(r, f), req |-> r]]
                /\ pc' = [pc EXCEPT ![c] = "complete"]
                /\ UNCHANGED call
           ELSE /\ call' = [call EXCEPT ![c] = [@ EXCEPT !.status = "answered",
                                                         !.answer = Says("no")]]
                /\ pc' = [pc EXCEPT ![c] = "idle"]
                /\ UNCHANGED sent
        /\ txn' = [txn EXCEPT ![c] = <<>>]
        /\ UNCHANGED <<reasons, store, revision>> /\ Untouched

(* The answer reaches the caller.                                          *)
Return(c) ==
    /\ pc[c] = "answer"
    /\ pc' = [pc EXCEPT ![c] = "idle"]
    /\ call' = [call EXCEPT ![c].status = "answered"]
    /\ UNCHANGED <<reasons, store, revision, txn, sent>> /\ Untouched

(* What etcd may still carry out of a request that timed out.              *)
InFlight(c) ==
    CASE pc[c] = "complete" -> {sent[c]}
      [] pc[c] = "direct" /\ call[c].req.kind \in {"put", "delete"} ->
           {[cmps |-> {}, puts |-> Writes(call[c].req, <<>>), req |-> call[c].req]}
      [] OTHER -> {}

(* The timeout of a request, at any moment before its answer arrives.  The *)
(* first three have not been carried out, the last one has.                *)
Timeout(c) ==
    /\ pc[c] \in {"direct", "start", "complete", "answer"}
    /\ late' = late \cup InFlight(c)
    /\ pc' = [pc EXCEPT ![c] = "idle"]
    /\ call' = [call EXCEPT ![c] = [@ EXCEPT !.status = "answered", !.answer = Says("error")]]
    /\ txn' = [txn EXCEPT ![c] = <<>>]
    /\ sent' = [sent EXCEPT ![c] = NoRequest]
    /\ UNCHANGED <<reasons, store, revision, calls>>

-----------------------------------------------------------------------------
(***************************************************************************)
(* etcd's side.                                                            *)
(***************************************************************************)

(* The range that GetByKeyPrefix reads for GetAll.                         *)
GetByKeyPrefix(s) == {k \in Keys : k[1] = s}

Read(r) ==
    CASE r.kind = "get" -> Gives(Restrict(Stored(store), {r.key}))
      [] r.kind = "getall" -> Gives(Restrict(Stored(store), GetByKeyPrefix(r.key[1])))
      [] OTHER -> Says("ok")

(* Get, GetByKeyPrefix, Put, Delete.                                       *)
EtcdDirect(c) ==
    LET r == call[c].req
    IN  /\ pc[c] = "direct"
        /\ CarryOut(Writes(r, Stored(store)))
        /\ EtcdDecides(c, Read(r))
        /\ UNCHANGED <<txn, sent>> /\ Untouched

(* StartTransaction: all condition keys are read in one transaction.       *)
StartTransaction(c) ==
    /\ pc[c] = "start"
    /\ \E values \in checkTxnResponse(store, appendKeyPrefix(call[c].req)) :
         txn' = [txn EXCEPT ![c] = values]
    /\ pc' = [pc EXCEPT ![c] = "update"]
    /\ UNCHANGED <<call, reasons, store, revision, sent>> /\ Untouched

\* Mutant.
KeepSnapshot(c) == {SetToSeq(sent[c].cmps)}

(* The Else branch of the transaction: the latest values and revisions.    *)
Latest(c) == checkTxnResponse(store, appendKeyPrefix(call[c].req))

(* CompleteTransaction: the comparisons hold and the update is written, or *)
(* the latest values are read; a transaction that is tried once then ends. *)
CompleteTransaction(c) ==
    /\ pc[c] = "complete"
    /\ IF \A v \in sent[c].cmps : Compare(v, store)
       THEN CarryOut(sent[c].puts) /\ EtcdDecides(c, Says("ok")) /\ UNCHANGED txn
       ELSE /\ IF TriedOnce(call[c].req)
               THEN EtcdDecides(c, Says("no")) /\ UNCHANGED txn
               ELSE /\ \E values \in Latest(c) : txn' = [txn EXCEPT ![c] = values]
                    /\ pc' = [pc EXCEPT ![c] = "update"]
                    /\ UNCHANGED call
            /\ UNCHANGED <<store, revision, reasons>>
    /\ sent' = [sent EXCEPT ![c] = NoRequest]
    /\ Untouched

(* A request whose caller has given up reaches etcd, or is lost.           *)
LateRequest(m) ==
    /\ late' = late \ {m}
    /\ \/ /\ \A v \in m.cmps : Compare(v, store)
          /\ CarryOut(m.puts)
       \/ UNCHANGED <<reasons, store, revision>>
    /\ UNCHANGED <<call, pc, txn, sent, calls>>

-----------------------------------------------------------------------------
EtcdInit ==
    /\ call = [c \in Clients |-> NoCall]
    /\ late = {} /\ reasons = [c \in Clients |-> {}]
    /\ store = [k \in Keys |-> NoKey] /\ revision = 0
    /\ pc = [c \in Clients |-> "idle"] /\ txn = [c \in Clients |-> <<>>]
    /\ sent = [c \in Clients |-> NoRequest] /\ calls = 0

Step(c) ==
    \/ UpdateOrRefuse(c) \/ Return(c)
    \/ EtcdDirect(c) \/ StartTransaction(c) \/ CompleteTransaction(c)

EtcdNext ==
    \/ \E c \in Clients :
         \/ \E r \in Requests(calls) : CallStorage(c, r)
         \/ Step(c) \/ Timeout(c)
    \/ \E m \in late : LateRequest(m)

EtcdSpec == EtcdInit /\ [][EtcdNext]_etcdVars /\ \A c \in Clients : WF_etcdVars(Step(c))

-----------------------------------------------------------------------------
(* Every call is at one place of its protocol, and an update function gets *)
(* all the condition keys it asked for, the absent ones too, and no other. *)
StorageTypeOK ==
    /\ store \in [Keys -> Version] /\ revision \in Nat
    /\ pc \in [Clients -> Places]
    /\ calls \in 0..MaxCalls
    /\ \A c \in Clients :
         /\ pc[c] = "idle" <=> call[c].status = "answered"
         /\ pc[c] = "answer" <=> call[c].status = "decided"
         /\ pc[c] = "complete" <=> sent[c] # NoRequest
         /\ pc[c] = "update" =>
              {v.key : v \in Range(txn[c])} = Range(appendKeyPrefix(call[c].req))
    /\ \A k \in Keys : store[k].mod <= revision

Atomic == INSTANCE AtomicStorage WITH data <- Stored(store), late <- {m.req : m \in late}

(* The stack of typed, prefixed and etcd storage is an atomic storage: a   *)
(* transaction of the optimistic loop of ExecuteTransaction changes its    *)
(* keys at once, as computed from the values they have at that moment, and *)
(* is not refused for a reason that never was; a request that timed out    *)
(* takes effect at most once; GetAll shows the values of one moment of     *)
(* the storage with that prefix and of no other.  The promise is that of   *)
(* module AtomicStorage, which is weaker than the comment of the interface *)
(* where a CompareAndSwap is refused.                                      *)
ImplementsAtomicStorage == Atomic!AtomicSpec

(* Every call of a storage method ends, although ExecuteTransaction loops  *)
(* without a limit: it only tries again after another request was carried  *)
(* out, and then with the latest values.                                   *)
CallsEnd == \A c \in Clients : []<>(pc[c] = "idle")
=============================================================================
