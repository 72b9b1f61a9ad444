--------------------------- MODULE MemoryStorage ---------------------------
(***************************************************************************)
(* The in-memory storage (storage/memory_storage.go), which the daemon     *)
(* uses when payment_channel_storage_type is "memory".  Every method locks *)
(* the map for itself, but a transaction is a sequence of such methods: it *)
(* reads its keys one after the other, and compares and writes them one    *)
(* after the other.                                                        *)
(***************************************************************************)
EXTENDS StorageRequests, Sequences, SequencesExt

CONSTANT MaxRetries  \* how often a transaction is tried: 100 in the code

VARIABLES
    data,   \* the map
    call,   \* per client: its request, how far it is, and the answer
    pc,     \* where a call is
    at,     \* index of the condition key that is next
    values, \* memoryStorageTransaction: the ConditionValues read so far
    tries,  \* tries of the transaction that are left
    calls,  \* number of calls so far
    wrote,  \* history: the transaction of this call has written its key
    disturbed \* history: clients during whose transaction another one wrote its keys

memoryVars == <<data, call, pc, at, values, tries, calls, wrote, disturbed>>

(* The condition keys of an increment, in the order of the request.        *)
KeySequence(r) ==
    LET order == SetToSeq(Names) IN [i \in 1..Len(order) |-> <<r.key[1], order[i]>>]

KeyAt(c) == KeySequence(call[c].req)[at[c]]

(* Client c writes these keys.                                             *)
Disturbs(c, keys) ==
    disturbed' = disturbed \cup {d \in Clients \ {c} :
        pc[d] # "idle" /\ ConditionKeys(call[d].req) \cap keys # {}}

(* Put, by the transaction of client c.                                    *)
Put(c, k, value) ==
    /\ data' = [data EXCEPT ![k] = value]
    /\ wrote' = [wrote EXCEPT ![c] = TRUE]
    /\ Disturbs(c, {k})

Answered(c, answer) ==
    /\ call' = [call EXCEPT ![c] = [@ EXCEPT !.status = "answered", !.answer = answer]]
    /\ pc' = [pc EXCEPT ![c] = "idle"]

(* Get, GetByKeyPrefix, Put, Delete, PutIfAbsent, CompareAndSwap: one      *)
(* critical section each.                                                  *)
OneLock(c, r) ==
    /\ pc[c] = "idle" /\ calls < MaxCalls /\ r.kind # "increment"
    /\ call' = [call EXCEPT ![c] = [req |-> r, status |-> "answered",
                                    answer |-> IF Accepts(r, data) THEN Result(r, data)
                                               ELSE Says("no")]]
    /\ data' = IF Accepts(r, data) THEN Overwrite(data, Writes(r, data)) ELSE data
    /\ Disturbs(c, IF Accepts(r, data) THEN DOMAIN Writes(r, data) ELSE {})
    /\ calls' = calls + 1
    /\ UNCHANGED <<pc, at, values, tries, wrote>>

(* ExecuteTransaction.                                                     *)
ExecuteTransaction(c, r) ==
    /\ pc[c] = "idle" /\ calls < MaxCalls /\ r.kind = "increment"
    /\ call' = [call EXCEPT ![c] = [req |-> r, status |-> "pending",
                                    answer |-> Says("none")]]
    /\ pc' = [pc EXCEPT ![c] = "start"]
    /\ at' = [at EXCEPT ![c] = 1]
    /\ values' = [values EXCEPT ![c] = <<>>]
    /\ tries' = [tries EXCEPT ![c] = MaxRetries]
    /\ wrote' = [wrote EXCEPT ![c] = FALSE]
    /\ disturbed' = disturbed \ {c}
    /\ calls' = calls + 1
    /\ UNCHANGED data

(* StartTransaction reads the next key.                                    *)
StartTransaction(c) ==
    LET last == at[c] = Cardinality(Names)
        k == KeyAt(c)
    IN  /\ pc[c] = "start"
        /\ values' = [values EXCEPT ![c] = [x \in DOMAIN @ \cup {k} |->
                                              IF x = k THEN data[k] ELSE @[x]]]
        /\ at' = [at EXCEPT ![c] = IF last THEN 1 ELSE @ + 1]
        /\ pc' = [pc EXCEPT ![c] = IF last THEN "update" ELSE "start"]
        /\ UNCHANGED <<data, call, tries, calls, wrote, disturbed>>

(* The update function, on the values read at the start, on every try.     *)
Update(c) ==
    /\ pc[c] = "update"
    /\ tries' = [tries EXCEPT ![c] = @ - 1]
    /\ at' = [at EXCEPT ![c] = 1]
    /\ \/ /\ Accepts(call[c].req, values[c])
          /\ pc' = [pc EXCEPT ![c] = "compare"]
          /\ UNCHANGED call
       \/ /\ ~Accepts(call[c].req, values[c]) /\ tries[c] > 1
          /\ UNCHANGED <<pc, call>>
       \/ /\ ~Accepts(call[c].req, values[c]) /\ tries[c] = 1
          /\ Answered(c, Says("no"))
    /\ UNCHANGED <<data, values, calls, wrote, disturbed>>

(* CompleteTransaction goes on to the next key, or says that it is done.   *)
NextKey(c) ==
    IF at[c] = Cardinality(Names)
    THEN Answered(c, Says("ok")) /\ UNCHANGED at
    ELSE /\ at' = [at EXCEPT ![c] = @ + 1]
         /\ pc' = [pc EXCEPT ![c] = "compare"]
         /\ UNCHANGED call

TryAgain(c) ==
    /\ IF tries[c] = 0 THEN Answered(c, Says("no"))
       ELSE pc' = [pc EXCEPT ![c] = "update"] /\ UNCHANGED call
    /\ UNCHANGED <<data, at, wrote, disturbed>>

New(c) == Writes(call[c].req, values[c])

(* CompleteTransaction, one condition key: a present key must still be     *)
(* there, and is written in another critical section if its value is the   *)
(* same; an absent one is put if it still is absent.  A key that is not to *)
(* be written, or whose value has changed, is passed over.                 *)
CompareKey(c) ==
    LET k == KeyAt(c)
    IN  /\ pc[c] = "compare"
        /\ \/ /\ values[c][k] # Absent /\ data[k] = Absent
              /\ TryAgain(c)
           \/ /\ values[c][k] # Absent /\ data[k] = values[c][k] /\ k \in DOMAIN New(c)
              /\ pc' = [pc EXCEPT ![c] = "write"]
              /\ UNCHANGED <<data, call, at, wrote, disturbed>>
           \/ /\ values[c][k] # Absent /\ data[k] # Absent
              /\ data[k] # values[c][k] \/ k \notin DOMAIN New(c)
              /\ NextKey(c)
              /\ UNCHANGED <<data, wrote, disturbed>>
           \/ /\ values[c][k] = Absent /\ k \in DOMAIN New(c) /\ data[k] = Absent
              /\ Put(c, k, New(c)[k])
              /\ NextKey(c)
           \/ /\ values[c][k] = Absent /\ k \in DOMAIN New(c) /\ data[k] # Absent
              /\ TryAgain(c)
           \/ /\ values[c][k] = Absent /\ k \notin DOMAIN New(c)
              /\ NextKey(c)
              /\ UNCHANGED <<data, wrote, disturbed>>
        /\ UNCHANGED <<values, tries, calls>>

WriteKey(c) ==
    /\ pc[c] = "write"
    /\ Put(c, KeyAt(c), New(c)[KeyAt(c)])
    /\ NextKey(c)
    /\ UNCHANGED <<values, tries, calls>>

MemoryInit ==
    /\ data = [k \in Keys |-> Absent]
    /\ call = [c \in Clients |-> NoCall]
    /\ pc = [c \in Clients |-> "idle"] /\ at = [c \in Clients |-> 1]
    /\ values = [c \in Clients |-> <<>>] /\ tries = [c \in Clients |-> 0]
    /\ wrote = [c \in Clients |-> FALSE] /\ calls = 0 /\ disturbed = {}

MemoryNext ==
    \E c \in Clients :
      \/ \E r \in Requests(calls) : OneLock(c, r) \/ ExecuteTransaction(c, r)
      \/ StartTransaction(c) \/ Update(c) \/ CompareKey(c) \/ WriteKey(c)

MemorySpec == MemoryInit /\ [][MemoryNext]_memoryVars

(* A transaction that is answered "ok" has written what it was to write:   *)
(* CompleteTransaction makes "sure the current value is the same as the    *)
(* value last read" and does not report success otherwise.                 *)
OkMeansWritten ==
    \A c \in Clients :
      pc[c] = "idle" /\ call[c].req # Absent /\ call[c].answer = Says("ok")
        => (call[c].req.kind = "increment" => wrote[c])

(* The same for a transaction whose keys no other call wrote meanwhile,    *)
(* whatever else goes on at the same time.                                 *)
UndisturbedOkMeansWritten ==
    \A c \in Clients \ disturbed :
      pc[c] = "idle" /\ call[c].req # Absent /\ call[c].answer = Says("ok")
        => (call[c].req.kind = "increment" => wrote[c])

(* As long as no other call has written its keys a transaction writes them *)
(* once, all of its effect in one step and on the values that are stored   *)
(* then and that its update function accepts; and if it is refused, it is  *)
(* for the values that are stored, and it has written nothing.             *)
UndisturbedIsAtomic ==
    [][\A c \in Clients \ disturbed' : pc[c] # "idle" =>
         LET r == call[c].req
         IN  /\ wrote'[c] # wrote[c] =>
                  Accepts(r, data) /\ data' = Overwrite(data, Writes(r, data))
             /\ wrote'[c] = wrote[c] => \A k \in ConditionKeys(r) : data'[k] = data[k]
             /\ (pc'[c] = "idle" /\ call'[c].answer # Says("ok")) =>
                  ~Accepts(r, data) /\ ~wrote'[c]]_memoryVars
=============================================================================
