-------------------------- MODULE StorageRequests --------------------------
(***************************************************************************)
(* The operations of the interface AtomicStorage (storage/atomic_storage.go)*)
(* as requests, and what each of them means: the vocabulary that the       *)
(* abstract storage and its implementations share.                         *)
(***************************************************************************)
EXTENDS Naturals, FiniteSets, Functions, TLC

CONSTANTS
    Clients,  \* concurrent callers, in this or in another daemon replica
    Stores,   \* the key prefixes of PrefixedAtomicStorage
    Names,    \* keys within a prefix
    Used,     \* the keys that the requests are about
    Values,   \* what Put, PutIfAbsent and CompareAndSwap store
    Absent,   \* the value of a key that is not there
    Limit,    \* the sum that an increment must not exceed
    MaxCalls  \* bound: calls made in a behaviour

ASSUME StorageAssumption ==
    /\ IsFiniteSet(Names) /\ Used \subseteq Stores \X Names /\ Used # {}
    /\ Values \subseteq Nat /\ Absent \notin Nat /\ Limit \in Nat /\ MaxCalls \in Nat

Keys == Stores \X Names

KeysOf(store) == {store} \X Names

(* A request: the kind of the operation, its key, the value it compares    *)
(* with and the value it writes, and the number that tells two requests    *)
(* of the same client apart.                                               *)
Requests(id) ==
    [kind : {"get", "delete", "increment"}, key : Used, prev : {0}, new : {0}, id : {id}]
      \cup [kind : {"getall"}, key : {CHOOSE k \in Used : TRUE}, prev : {0}, new : {0},
            id : {id}]
      \cup [kind : {"put", "putIfAbsent"}, key : Used, prev : {0}, new : Values, id : {id}]
      \cup [kind : {"cas"}, key : Used, prev : Values, new : Values, id : {id}]

(* A request that writes one key, and the values after a request.          *)
Only(k, value) == [x \in {k} |-> value]

Overwrite(f, puts) == [k \in DOMAIN f |-> IF k \in DOMAIN puts THEN puts[k] ELSE f[k]]

Number(value) == IF value = Absent THEN 0 ELSE value

(* The keys that decide what a request does.                               *)
ConditionKeys(r) ==
    IF r.kind \in {"getall", "increment"} THEN KeysOf(r.key[1]) ELSE {r.key}

(* What a request does to values f of its condition keys: whether it is    *)
(* carried out, and what it writes.                                        *)
Accepts(r, f) ==
    CASE r.kind = "cas" -> f[r.key] = r.prev
      [] r.kind = "putIfAbsent" -> f[r.key] = Absent
      [] r.kind = "increment" ->
           SumFunction([k \in ConditionKeys(r) |-> Number(f[k])]) < Limit
      [] OTHER -> TRUE

Writes(r, f) ==
    CASE r.kind \in {"put", "putIfAbsent", "cas"} -> Only(r.key, r.new)
      [] r.kind = "delete" -> Only(r.key, Absent)
      [] r.kind = "increment" -> Only(r.key, Number(f[r.key]) + 1)
      [] OTHER -> <<>>

(* An answer: what the caller is told, and the values it is given.         *)
Says(what) == [what |-> what, values |-> <<>>]

Gives(values) == [what |-> "ok", values |-> values]

(* The answer when the request was carried out.                            *)
Result(r, f) ==
    IF r.kind \in {"get", "getall"} THEN Gives(Restrict(f, ConditionKeys(r)))
    ELSE Says("ok")

TriedOnce(r) == r.kind \in {"cas", "putIfAbsent"}

(* What happened during a call that may refuse it: values that its update  *)
(* function refuses were stored, or a key of its was written.  `past' is   *)
(* what already happened; `changed' is written and the values are `new'.   *)
Reasons(past, call, new, changed) ==
    [c \in DOMAIN call |->
       past[c]
         \cup (IF call[c].status # "pending" THEN {} ELSE
                 (IF Accepts(call[c].req, new) THEN {} ELSE {"refused"})
                   \cup (IF ConditionKeys(call[c].req) \cap changed = {}
                         THEN {} ELSE {"disturbed"}))]

NoCall == [req |-> Absent, status |-> "answered", answer |-> Says("none")]
=============================================================================
