------------------------ MODULE MemoryStorageProofs ------------------------
(***************************************************************************)
(* What the in-memory storage promises to any number of concurrent calls:  *)
(* a transaction whose keys no other call writes meanwhile is what the     *)
(* interface says.  One whose keys are written is not, as the run          *)
(* memory_txn shows.                                                       *)
(***************************************************************************)
EXTENDS MemoryStorage, FiniteSetTheorems, TLAPS

-----------------------------------------------------------------------------
(***************************************************************************)
(* The order in which a transaction goes through its keys.                 *)
(***************************************************************************)

N == Cardinality(Names)

LEMMA Order ==
    /\ N \in Nat \ {0}
    /\ SetToSeq(Names) \in [1..N -> Names]
    /\ \A i, j \in 1..N : SetToSeq(Names)[i] = SetToSeq(Names)[j] => i = j
    /\ \A name \in Names : \E i \in 1..N : SetToSeq(Names)[i] = name
  <1>1. N \in Nat /\ ExistsBijection(1..N, Names) /\ Names # {} /\ IsFiniteSet(Names)
    BY StorageAssumption, FS_CardinalityType DEF N
  <1>2. N # 0
    BY <1>1, FS_EmptySet DEF N
  <1>3. \E f \in [1..N -> Names] : IsInjective(f)
    BY <1>1 DEF ExistsBijection, Bijection, Injection
  <1> DEFINE order == SetToSeq(Names)
  <1>4. order \in [1..N -> Names] /\ IsInjective(order)
    BY <1>3 DEF SetToSeq, N
  <1> HIDE DEF order
  <1>5. order \in Injection(1..N, Names)
    BY <1>4 DEF Injection
  <1>6. Cardinality(1..N) = N
    <2>1. 1 \in Int /\ N \in Int
      BY <1>1
    <2>2. Cardinality(1..N) = IF 1 > N THEN 0 ELSE N - 1 + 1
      BY <2>1, FS_Interval
    <2>3. QED
      BY <1>1, <2>2
  <1>7. order \in Surjection(1..N, Names)
    BY <1>1, <1>5, <1>6, FS_Injection DEF N
  <1>8. QED
    BY <1>1, <1>2, <1>4, <1>7 DEF Surjection, IsInjective, order

Increments == {r \in UNION {Requests(id) : id \in Nat} : r.kind = "increment"}

LEMMA IncrementType ==
    ASSUME NEW r \in Increments
    PROVE  /\ r.kind = "increment" /\ r.key \in Keys /\ r.key \in ConditionKeys(r)
           /\ ConditionKeys(r) = KeysOf(r.key[1]) /\ ConditionKeys(r) \subseteq Keys
           /\ \A f : Writes(r, f) = Only(r.key, Number(f[r.key]) + 1)
  <1>1. r.kind = "increment" /\ r.key \in Used
    BY DEF Increments, Requests
  <1>2. r.key \in Keys /\ r.key[1] \in Stores /\ r.key[2] \in Names
        /\ r.key = <<r.key[1], r.key[2]>>
    BY <1>1, StorageAssumption DEF Keys
  <1>3. QED
    BY <1>1, <1>2 DEF ConditionKeys, KeysOf, Keys, Writes

LEMMA KeyOrder ==
    ASSUME NEW r \in Increments
    PROVE  /\ \A i \in 1..N : KeySequence(r)[i] \in ConditionKeys(r)
           /\ \A i, j \in 1..N : KeySequence(r)[i] = KeySequence(r)[j] => i = j
           /\ \A k \in ConditionKeys(r) : \E i \in 1..N : KeySequence(r)[i] = k
  <1> DEFINE order == SetToSeq(Names)
  <1>1. /\ order \in [1..N -> Names]
        /\ \A i, j \in 1..N : order[i] = order[j] => i = j
        /\ \A name \in Names : \E i \in 1..N : order[i] = name
        /\ N \in Nat
    BY Order
  <1>2. Len(order) = N
    BY <1>1
  <1>3. \A i \in 1..N : KeySequence(r)[i] = <<r.key[1], order[i]>>
    BY <1>2 DEF KeySequence
  <1>4. ConditionKeys(r) = {r.key[1]} \X Names
    BY IncrementType DEF KeysOf
  <1> HIDE DEF order
  <1>5. \A i \in 1..N : KeySequence(r)[i] \in ConditionKeys(r)
    <2> SUFFICES ASSUME NEW i \in 1..N
                 PROVE  KeySequence(r)[i] \in ConditionKeys(r)
      OBVIOUS
    <2>1. order[i] \in Names
      BY <1>1
    <2>2. <<r.key[1], order[i]>> \in {r.key[1]} \X Names
      BY <2>1
    <2>3. QED
      BY <1>3, <1>4, <2>2
  <1>6. \A i, j \in 1..N : KeySequence(r)[i] = KeySequence(r)[j] => i = j
    BY <1>1, <1>3
  <1>7. \A k \in ConditionKeys(r) : \E i \in 1..N : KeySequence(r)[i] = k
    <2> SUFFICES ASSUME NEW k \in ConditionKeys(r)
                 PROVE  \E i \in 1..N : KeySequence(r)[i] = k
      OBVIOUS
    <2>1. k = <<r.key[1], k[2]>> /\ k[2] \in Names
      BY <1>4
    <2>2. PICK i \in 1..N : order[i] = k[2]
      BY <1>1, <2>1
    <2>3. QED
      BY <1>3, <2>1, <2>2
  <1>8. QED
    BY <1>5, <1>6, <1>7

(* The keys that are done before the i-th.                                 *)
Past(r, i) == {KeySequence(r)[j] : j \in 1..(i - 1)}

LEMMA PastKeys ==
    ASSUME NEW r \in Increments, NEW i \in 1..N
    PROVE  /\ Past(r, 1) = {} /\ Past(r, i + 1) = Past(r, i) \cup {KeySequence(r)[i]}
           /\ KeySequence(r)[i] \notin Past(r, i) /\ KeySequence(r)[i] \in ConditionKeys(r)
           /\ i = N => Past(r, i + 1) = ConditionKeys(r)
           /\ i # N => i + 1 \in 1..N
  <1>1. /\ \A j \in 1..N : KeySequence(r)[j] \in ConditionKeys(r)
        /\ \A j, l \in 1..N : KeySequence(r)[j] = KeySequence(r)[l] => j = l
        /\ \A k \in ConditionKeys(r) : \E j \in 1..N : KeySequence(r)[j] = k
    BY KeyOrder
  <1>2. N \in Nat /\ i \in Nat /\ i <= N /\ 1 <= i
    BY Order
  <1>3. 1..((i + 1) - 1) = (1..(i - 1)) \cup {i} /\ 1..(1 - 1) = {}
    BY <1>2
  <1>4. Past(r, 1) = {} /\ Past(r, i + 1) = Past(r, i) \cup {KeySequence(r)[i]}
    BY <1>3 DEF Past
  <1>5. KeySequence(r)[i] \notin Past(r, i)
    BY <1>1, <1>2 DEF Past
  <1>6. i = N => Past(r, i + 1) = ConditionKeys(r)
    BY <1>1, <1>2 DEF Past
  <1>7. QED
    BY <1>1, <1>2, <1>4, <1>5, <1>6

(* What a request does depends on its condition keys only.                 *)
LEMMA SameValues ==
    ASSUME NEW r \in Increments, NEW f, NEW g, \A k \in ConditionKeys(r) : f[k] = g[k]
    PROVE  Accepts(r, f) = Accepts(r, g) /\ Writes(r, f) = Writes(r, g)
  <1>1. [k \in ConditionKeys(r) |-> Number(f[k])] = [k \in ConditionKeys(r) |-> Number(g[k])]
    OBVIOUS
  <1>2. r.kind = "increment" /\ r.key \in ConditionKeys(r)
    BY IncrementType
  <1>3. Accepts(r, f) = Accepts(r, g)
    BY <1>1, <1>2 DEF Accepts
  <1>4. QED
    BY <1>2, <1>3, IncrementType

-----------------------------------------------------------------------------
Places == {"idle", "start", "update", "compare", "write"}

MemoryTypeOK ==
    /\ data = [k \in Keys |-> data[k]] /\ calls \in Nat
    /\ call = [c \in Clients |-> [req |-> call[c].req, status |-> call[c].status,
                                  answer |-> call[c].answer]]
    /\ pc \in [Clients -> Places]
    /\ at = [c \in Clients |-> at[c]] /\ values = [c \in Clients |-> values[c]]
    /\ wrote \in [Clients -> BOOLEAN] /\ disturbed \subseteq Clients

(* A transaction that nobody has disturbed has read what is stored, but    *)
(* for the key that it has written itself, which is behind it.             *)
TransactionInv(c) ==
    LET r == call[c].req
    IN  pc[c] # "idle" =>
          /\ r \in Increments /\ at[c] \in 1..N
          /\ pc[c] = "start" => DOMAIN values[c] = Past(r, at[c])
          /\ pc[c] # "start" => DOMAIN values[c] = ConditionKeys(r)
          /\ pc[c] = "write" => KeyAt(c) = r.key
          /\ c \notin disturbed =>
               /\ \A k \in DOMAIN values[c] :
                    (k # r.key \/ ~wrote[c]) => values[c][k] = data[k]
               /\ pc[c] \in {"start", "update"} => ~wrote[c]
               /\ pc[c] \in {"compare", "write"} =>
                    Accepts(r, values[c]) /\ (wrote[c] <=> r.key \in Past(r, at[c]))

MemoryInv ==
    /\ MemoryTypeOK /\ UndisturbedOkMeansWritten
    /\ \A c \in Clients : TransactionInv(c)

(* What a step of client c leaves to the others.                           *)
SameFor(c) ==
    \A d \in Clients \ {c} :
       /\ pc'[d] = pc[d] /\ call'[d] = call[d] /\ at'[d] = at[d]
       /\ values'[d] = values[d] /\ wrote'[d] = wrote[d]

LeavesKeys(c) ==
    \A d \in Clients \ {c} : d \notin disturbed' =>
       /\ d \notin disturbed
       /\ pc[d] # "idle" => \A k \in ConditionKeys(call[d].req) : data'[k] = data[k]

(* UndisturbedIsAtomic for one client.                                     *)
Effect(c) ==
    LET r == call[c].req
    IN  c \notin disturbed' /\ pc[c] # "idle" =>
          /\ wrote'[c] # wrote[c] =>
               Accepts(r, data) /\ data' = Overwrite(data, Writes(r, data))
          /\ wrote'[c] = wrote[c] => \A k \in ConditionKeys(r) : data'[k] = data[k]
          /\ (pc'[c] = "idle" /\ call'[c].answer # Says("ok")) =>
               ~Accepts(r, data) /\ ~wrote'[c]

OkIsWritten(c) ==
    c \notin disturbed /\ pc[c] = "idle" /\ call[c].req # Absent /\ call[c].answer = Says("ok")
      => (call[c].req.kind = "increment" => wrote[c])

(* What a step of client c has to establish.                               *)
Good(c) ==
    /\ MemoryTypeOK' /\ TransactionInv(c)' /\ Effect(c) /\ OkIsWritten(c)'
    /\ SameFor(c) /\ LeavesKeys(c)

LEMMA OwnStep ==
    ASSUME MemoryTypeOK, NEW c \in Clients, NEW p \in Places, pc' = [pc EXCEPT ![c] = p],
           \/ call' = call
           \/ \E a : call' = [call EXCEPT ![c] = [@ EXCEPT !.status = "answered", !.answer = a]],
           at' = at \/ \E x : at' = [at EXCEPT ![c] = x],
           values' = values \/ \E x : values' = [values EXCEPT ![c] = x],
           wrote' = wrote \/ wrote' = [wrote EXCEPT ![c] = TRUE],
           data' = data \/ \E k \in Keys : \E x : data' = [data EXCEPT ![k] = x],
           calls' = calls, disturbed' \subseteq Clients
    PROVE  /\ MemoryTypeOK' /\ pc'[c] = p /\ call'[c].req = call[c].req /\ SameFor(c)
  <1>1. pc' \in [Clients -> Places] /\ pc'[c] = p /\ \A d \in Clients \ {c} : pc'[d] = pc[d]
    BY DEF MemoryTypeOK
  <1>2. /\ at' = [d \in Clients |-> at'[d]] /\ \A d \in Clients \ {c} : at'[d] = at[d]
    BY DEF MemoryTypeOK
  <1>3. /\ values' = [d \in Clients |-> values'[d]]
        /\ \A d \in Clients \ {c} : values'[d] = values[d]
    BY DEF MemoryTypeOK
  <1>4. wrote' \in [Clients -> BOOLEAN] /\ \A d \in Clients \ {c} : wrote'[d] = wrote[d]
    BY DEF MemoryTypeOK
  <1>5. data' = [k \in Keys |-> data'[k]]
    BY DEF MemoryTypeOK
  <1>6. /\ call' = [d \in Clients |-> [req |-> call'[d].req, status |-> call'[d].status,
                                       answer |-> call'[d].answer]]
        /\ call'[c].req = call[c].req /\ \A d \in Clients \ {c} : call'[d] = call[d]
    <2>1. CASE call' = call
      BY <2>1 DEF MemoryTypeOK
    <2>2. CASE \E a : call' = [call EXCEPT ![c] = [@ EXCEPT !.status = "answered", !.answer = a]]
      <3>1. PICK a : call' = [call EXCEPT ![c] = [@ EXCEPT !.status = "answered", !.answer = a]]
        BY <2>2
      <3>2. /\ call[c] = [req |-> call[c].req, status |-> call[c].status,
                          answer |-> call[c].answer]
            /\ DOMAIN call = Clients
        BY DEF MemoryTypeOK
      <3>3. /\ call'[c] = [req |-> call[c].req, status |-> "answered", answer |-> a]
            /\ \A d \in Clients \ {c} : call'[d] = call[d]
        BY <3>1, <3>2
      <3>4. \A d \in Clients : call'[d] = [req |-> call'[d].req, status |-> call'[d].status,
                                          answer |-> call'[d].answer]
        <4>1. \A d \in Clients : call[d] = [req |-> call[d].req, status |-> call[d].status,
                                           answer |-> call[d].answer]
          BY DEF MemoryTypeOK
        <4>2. QED
          BY <3>3, <4>1
      <3>5. call' = [d \in Clients |-> call'[d]]
        BY <3>1, <3>2
      <3>6. call' = [d \in Clients |-> [req |-> call'[d].req, status |-> call'[d].status,
                                       answer |-> call'[d].answer]]
        BY <3>4, <3>5, Zenon
      <3>7. call'[c].req = call[c].req
        BY <3>1, <3>2
      <3>8. QED
        BY <3>3, <3>6, <3>7
    <2>3. QED
      BY <2>1, <2>2
  <1>7. QED
    BY <1>1, <1>2, <1>3, <1>4, <1>5, <1>6 DEF MemoryTypeOK, SameFor

(* A step that writes nothing disturbs nobody.                             *)
LEMMA LeavesAll ==
    ASSUME NEW c, data' = data, \A d \in Clients \ {c} : d \notin disturbed' => d \notin disturbed
    PROVE  LeavesKeys(c)
  BY DEF LeavesKeys

LEMMA OneLockStep ==
    ASSUME MemoryInv, NEW c \in Clients, NEW r \in Requests(calls), OneLock(c, r)
    PROVE  Good(c)
  <1>1. /\ MemoryTypeOK /\ pc[c] = "idle" /\ pc' = pc /\ r.kind # "increment"
        /\ calls' = calls + 1 /\ UNCHANGED <<at, values, tries, wrote>>
    BY DEF MemoryInv, OneLock
  <1>2. /\ call'[c].req = r /\ call' = [d \in Clients |-> [req |-> call'[d].req,
                                 status |-> call'[d].status, answer |-> call'[d].answer]]
        /\ \A d \in Clients \ {c} : call'[d] = call[d]
    BY <1>1 DEF OneLock, MemoryTypeOK
  <1>3. PICK keys : /\ keys = IF Accepts(r, data) THEN DOMAIN Writes(r, data) ELSE {}
                    /\ Disturbs(c, keys)
    BY DEF OneLock
  <1>4. /\ data' = [k \in Keys |-> data'[k]]
        /\ \A k \in Keys \ keys : data'[k] = data[k]
    BY <1>1, <1>3 DEF OneLock, MemoryTypeOK, Overwrite
  <1>5. MemoryTypeOK'
    BY <1>1, <1>2, <1>3, <1>4 DEF MemoryTypeOK, Disturbs
  <1>6. LeavesKeys(c)
    <2> SUFFICES ASSUME NEW d \in Clients \ {c}, d \notin disturbed'
                 PROVE  /\ d \notin disturbed
                        /\ pc[d] # "idle" =>
                             \A k \in ConditionKeys(call[d].req) : data'[k] = data[k]
      BY DEF LeavesKeys
    <2>1. d \notin disturbed /\ (pc[d] # "idle" => ConditionKeys(call[d].req) \cap keys = {})
      BY <1>3 DEF Disturbs
    <2>2. pc[d] # "idle" => ConditionKeys(call[d].req) \subseteq Keys
      BY IncrementType DEF MemoryInv, TransactionInv
    <2>3. QED
      BY <1>4, <2>1, <2>2
  <1>7. TransactionInv(c)' /\ Effect(c) /\ OkIsWritten(c)'
    BY <1>1, <1>2 DEF TransactionInv, Effect, OkIsWritten
  <1>8. SameFor(c)
    BY <1>1, <1>2 DEF SameFor
  <1>9. QED
    BY <1>5, <1>6, <1>7, <1>8 DEF Good

LEMMA BeginStep ==
    ASSUME MemoryInv, NEW c \in Clients, NEW r \in Requests(calls), ExecuteTransaction(c, r)
    PROVE  Good(c)
  <1>1. /\ MemoryTypeOK /\ r.kind = "increment" /\ data' = data /\ calls' = calls + 1
        /\ pc' = [pc EXCEPT ![c] = "start"] /\ at' = [at EXCEPT ![c] = 1] /\ pc[c] = "idle"
        /\ values' = [values EXCEPT ![c] = <<>>] /\ wrote' = [wrote EXCEPT ![c] = FALSE]
        /\ disturbed' = disturbed \ {c}
    BY DEF MemoryInv, ExecuteTransaction
  <1>2. call'[c].req = r /\ call' = [d \in Clients |-> [req |-> call'[d].req,
                                 status |-> call'[d].status, answer |-> call'[d].answer]]
    BY <1>1 DEF ExecuteTransaction, MemoryTypeOK
  <1>3. r \in Increments
    BY <1>1 DEF Increments, MemoryTypeOK
  <1>4. /\ pc'[c] = "start" /\ at'[c] = 1 /\ values'[c] = <<>> /\ wrote'[c] = FALSE
    BY <1>1 DEF MemoryTypeOK
  <1>5. MemoryTypeOK'
    <2>1. (data = [k \in Keys |-> data[k]] /\ calls \in Nat /\ disturbed \subseteq Clients)'
      BY <1>1 DEF MemoryTypeOK
    <2>2. (pc \in [Clients -> Places])' /\ (wrote \in [Clients -> BOOLEAN])'
      BY <1>1 DEF MemoryTypeOK, Places
    <2>3. (at = [d \in Clients |-> at[d]])' /\ (values = [d \in Clients |-> values[d]])'
      BY <1>1 DEF MemoryTypeOK
    <2>4. QED
      BY <1>2, <2>1, <2>2, <2>3 DEF MemoryTypeOK
  <1>6. DOMAIN <<>> = {} /\ 1 \in 1..N /\ Past(r, 1) = {}
    BY <1>3, Order, PastKeys
  <1>7. TransactionInv(c)'
    BY <1>2, <1>3, <1>4, <1>6 DEF TransactionInv
  <1>8. SameFor(c)
    BY <1>1 DEF ExecuteTransaction, MemoryTypeOK, SameFor
  <1>9. LeavesKeys(c)
    BY <1>1, LeavesAll
  <1>10. QED
    BY <1>1, <1>4, <1>5, <1>7, <1>8, <1>9 DEF Good, Effect, OkIsWritten

(* StartTransaction adds the next key, with its value, to what it has.     *)
LEMMA ReadStep ==
    ASSUME MemoryInv, NEW c \in Clients, StartTransaction(c)
    PROVE  Good(c)
  <1>1. PICK r, k, i : r = call[c].req /\ k = KeyAt(c) /\ i = at[c]
    OBVIOUS
  <1>2. /\ MemoryTypeOK /\ pc[c] = "start" /\ TransactionInv(c)
        /\ UNCHANGED <<data, call, calls, wrote, disturbed>>
    BY DEF MemoryInv, StartTransaction
  <1>3. /\ r \in Increments /\ i \in 1..N /\ DOMAIN values[c] = Past(r, i)
        /\ c \notin disturbed =>
              ~wrote[c] /\ \A x \in DOMAIN values[c] : values[c][x] = data[x]
    BY <1>1, <1>2 DEF TransactionInv
  <1>4. /\ k = KeySequence(r)[i] /\ k \in ConditionKeys(r)
        /\ Past(r, 1) = {} /\ Past(r, i + 1) = Past(r, i) \cup {k} /\ k \notin Past(r, i)
        /\ i = N => Past(r, i + 1) = ConditionKeys(r)
        /\ i # N => i + 1 \in 1..N
    BY <1>1, <1>3, PastKeys DEF KeyAt
  <1>5. PICK p, j : p = (IF i = N THEN "update" ELSE "start") /\ j = (IF i = N THEN 1 ELSE i + 1)
    OBVIOUS
  <1>6. PICK v : v = [x \in DOMAIN values[c] \cup {k} |-> IF x = k THEN data[k] ELSE values[c][x]]
    OBVIOUS
  <1>7. /\ values' = [values EXCEPT ![c] = v] /\ at' = [at EXCEPT ![c] = j]
        /\ pc' = [pc EXCEPT ![c] = p] /\ p \in Places
    <2>1. /\ values' = [values EXCEPT ![c] = [x \in DOMAIN values[c] \cup {k} |->
                                                IF x = k THEN data[k] ELSE values[c][x]]]
          /\ at' = [at EXCEPT ![c] = IF i = N THEN 1 ELSE i + 1]
          /\ pc' = [pc EXCEPT ![c] = IF i = N THEN "update" ELSE "start"]
      BY <1>1 DEF StartTransaction, N
    <2>2. QED
      BY <1>5, <1>6, <2>1 DEF Places
  <1>8. MemoryTypeOK' /\ pc'[c] = p /\ call'[c].req = r /\ SameFor(c)
    BY <1>1, <1>2, <1>7, OwnStep DEF MemoryTypeOK
  <1>9. values'[c] = v /\ at'[c] = j /\ wrote'[c] = wrote[c] /\ data' = data
    BY <1>2, <1>7 DEF MemoryTypeOK
  <1>10. /\ DOMAIN v = Past(r, i) \cup {k}
         /\ c \notin disturbed => \A x \in DOMAIN v : v[x] = data[x]
    BY <1>3, <1>4, <1>6
  <1>11. j \in 1..N
    BY <1>3, <1>4, <1>5, Order
  <1>12. TransactionInv(c)'
    <2>1. CASE i = N
      BY <1>2, <1>3, <1>4, <1>5, <1>8, <1>9, <1>10, <1>11, <2>1 DEF TransactionInv
    <2>2. CASE i # N
      BY <1>2, <1>3, <1>4, <1>5, <1>8, <1>9, <1>10, <1>11, <2>2 DEF TransactionInv
    <2>3. QED
      BY <2>1, <2>2
  <1>13. LeavesKeys(c)
    BY <1>2, LeavesAll
  <1>14. pc'[c] # "idle"
    BY <1>5, <1>8
  <1>15. QED
    BY <1>2, <1>8, <1>9, <1>12, <1>13, <1>14 DEF Good, Effect, OkIsWritten

(* The update function goes by what is stored, if nobody has written.      *)
LEMMA UpdateStep ==
    ASSUME MemoryInv, NEW c \in Clients, Update(c)
    PROVE  Good(c)
  <1>1. PICK r : r = call[c].req
    OBVIOUS
  <1>2. /\ MemoryTypeOK /\ pc[c] = "update" /\ UNCHANGED <<data, values, calls, wrote, disturbed>>
        /\ TransactionInv(c) /\ at' = [at EXCEPT ![c] = 1]
    BY DEF MemoryInv, Update
  <1>3. /\ r \in Increments /\ DOMAIN values[c] = ConditionKeys(r)
        /\ c \notin disturbed =>
              ~wrote[c] /\ \A x \in DOMAIN values[c] : values[c][x] = data[x]
    BY <1>1, <1>2 DEF TransactionInv
  <1>4. c \notin disturbed => Accepts(r, values[c]) = Accepts(r, data)
    BY <1>3, SameValues
  <1>5. PICK p \in {"compare", "update", "idle"} :
          /\ pc' = [pc EXCEPT ![c] = p]
          /\ p = "compare" => Accepts(r, values[c])
          /\ p = "idle" => ~Accepts(r, values[c])
          /\ IF p = "idle" THEN call' = [call EXCEPT ![c] = [@ EXCEPT !.status = "answered",
                                                                   !.answer = Says("no")]]
             ELSE call' = call
    <2>1. CASE Accepts(r, values[c]) /\ pc' = [pc EXCEPT ![c] = "compare"] /\ call' = call
      BY <2>1
    <2>2. CASE pc' = pc /\ call' = call
      <3>1. pc' = [pc EXCEPT ![c] = "update"]
        BY <1>2, <2>2 DEF MemoryTypeOK
      <3>2. QED
        BY <2>2, <3>1
    <2>3. CASE ~Accepts(r, values[c]) /\ Answered(c, Says("no"))
      BY <2>3 DEF Answered
    <2>4. QED
      BY <1>1, <2>1, <2>2, <2>3 DEF Update
  <1>6. MemoryTypeOK' /\ pc'[c] = p /\ call'[c].req = r /\ SameFor(c)
    BY <1>1, <1>2, <1>5, OwnStep DEF MemoryTypeOK, Places
  <1>7. at'[c] = 1 /\ values'[c] = values[c] /\ wrote'[c] = wrote[c] /\ data' = data
    BY <1>2 DEF MemoryTypeOK
  <1>8. 1 \in 1..N /\ Past(r, 1) = {}
    BY <1>3, Order, PastKeys
  <1>9. p = "idle" => call'[c].answer = Says("no")
    <2> SUFFICES ASSUME p = "idle" PROVE call'[c].answer = Says("no")
      OBVIOUS
    <2>1. call[c] = [req |-> r, status |-> call[c].status, answer |-> call[c].answer]
          /\ DOMAIN call = Clients
      BY <1>1, <1>2 DEF MemoryTypeOK
    <2>2. QED
      BY <1>5, <2>1
  <1>10. Says("no") # Says("ok")
    BY DEF Says
  <1>11. TransactionInv(c)'
    BY <1>2, <1>3, <1>5, <1>6, <1>7, <1>8 DEF TransactionInv
  <1>12. LeavesKeys(c)
    BY <1>2, LeavesAll
  <1>13. Effect(c)
    BY <1>1, <1>2, <1>3, <1>4, <1>5, <1>6, <1>7 DEF Effect
  <1>14. QED
    BY <1>6, <1>9, <1>10, <1>11, <1>12, <1>13 DEF Good, OkIsWritten

(* Going on to the next key keeps the invariant, when the key of the       *)
(* request is written, or somebody has disturbed the transaction.          *)
LEMMA NextKeyStep ==
    ASSUME MemoryInv, NEW c \in Clients, NEW r, r = call[c].req, NEW i, i = at[c],
           pc[c] \in {"compare", "write"},
           NextKey(c), UNCHANGED <<values, calls>>,
           \/ /\ c \in disturbed \/ KeySequence(r)[i] # r.key
              /\ UNCHANGED <<data, wrote, disturbed>>
           \/ KeySequence(r)[i] = r.key /\ Put(c, r.key, Writes(r, values[c])[r.key])
    PROVE  Good(c)
  <1>1. MemoryTypeOK /\ TransactionInv(c)
    BY DEF MemoryInv
  <1>2. /\ r \in Increments /\ i \in 1..N /\ DOMAIN values[c] = ConditionKeys(r)
        /\ c \notin disturbed =>
             /\ Accepts(r, values[c]) /\ (wrote[c] <=> r.key \in Past(r, i))
             /\ \A x \in DOMAIN values[c] : (x # r.key \/ ~wrote[c]) => values[c][x] = data[x]
    BY <1>1 DEF TransactionInv
  <1>3. /\ Past(r, i + 1) = Past(r, i) \cup {KeySequence(r)[i]}
        /\ KeySequence(r)[i] \notin Past(r, i)
        /\ i = N => Past(r, i + 1) = ConditionKeys(r)
        /\ i # N => i + 1 \in 1..N
    BY <1>2, PastKeys
  <1>4. /\ r.kind = "increment" /\ r.key \in Keys /\ r.key \in ConditionKeys(r)
        /\ \A f : Writes(r, f) = Only(r.key, Number(f[r.key]) + 1)
        /\ ConditionKeys(r) \subseteq Keys
    BY <1>2, IncrementType
  <1>5. /\ disturbed \subseteq disturbed' /\ disturbed' \subseteq Clients
        /\ c \in disturbed' <=> c \in disturbed
        /\ wrote' = wrote \/ wrote' = [wrote EXCEPT ![c] = TRUE]
        /\ data' = data \/ data' = [data EXCEPT ![r.key] = Writes(r, values[c])[r.key]]
    BY <1>1 DEF Put, Disturbs, MemoryTypeOK
  <1>6. PICK p \in {"idle", "compare"} :
          /\ pc' = [pc EXCEPT ![c] = p]
          /\ p = "idle" => /\ i = N /\ at' = at
                           /\ call' = [call EXCEPT ![c] = [@ EXCEPT !.status = "answered",
                                                                   !.answer = Says("ok")]]
          /\ p = "compare" => i # N /\ at' = [at EXCEPT ![c] = i + 1] /\ call' = call
    <2>1. CASE i = N
      BY <2>1 DEF NextKey, Answered, N
    <2>2. CASE i # N
      BY <2>2 DEF NextKey, N
    <2>3. QED
      BY <2>1, <2>2
  <1>7. MemoryTypeOK' /\ pc'[c] = p /\ call'[c].req = r /\ SameFor(c)
    <2>1. \/ call' = call
          \/ \E a : call' = [call EXCEPT ![c] = [@ EXCEPT !.status = "answered", !.answer = a]]
      BY <1>6
    <2>2. at' = at \/ \E x : at' = [at EXCEPT ![c] = x]
      BY <1>6
    <2>3. data' = data \/ \E k \in Keys : \E x : data' = [data EXCEPT ![k] = x]
      BY <1>4, <1>5
    <2>4. p \in Places
      BY DEF Places
    <2>5. QED
      BY <1>1, <1>5, <1>6, <2>1, <2>2, <2>3, <2>4, OwnStep
  <1>8. p = "idle" => call'[c].answer = Says("ok")
    <2> SUFFICES ASSUME p = "idle" PROVE call'[c].answer = Says("ok")
      OBVIOUS
    <2>1. call[c] = [req |-> r, status |-> call[c].status, answer |-> call[c].answer]
          /\ DOMAIN call = Clients
      BY <1>1 DEF MemoryTypeOK
    <2>2. QED
      BY <1>6, <2>1
  <1>9. c \notin disturbed => wrote' \in [Clients -> BOOLEAN] /\ (wrote'[c] <=> r.key \in Past(r, i + 1))
    BY <1>1, <1>2, <1>3 DEF MemoryTypeOK, Put
  <1>10. \A x \in Keys : x # r.key => data'[x] = data[x]
    BY <1>1, <1>4, <1>5 DEF MemoryTypeOK
  <1>11. /\ data' = data \/ Put(c, r.key, Writes(r, values[c])[r.key])
         /\ c \notin disturbed /\ wrote'[c] = wrote[c] => data' = data
         /\ c \notin disturbed /\ wrote'[c] # wrote[c] =>
               KeySequence(r)[i] = r.key /\ Put(c, r.key, Writes(r, values[c])[r.key]) /\ ~wrote[c]
    <2>1. CASE UNCHANGED <<data, wrote, disturbed>>
      BY <2>1
    <2>2. CASE KeySequence(r)[i] = r.key /\ Put(c, r.key, Writes(r, values[c])[r.key])
      <3>1. wrote'[c] = TRUE /\ wrote[c] \in BOOLEAN
        BY <1>1, <2>2 DEF MemoryTypeOK, Put
      <3>2. c \notin disturbed => ~wrote[c]
        BY <1>2, <1>3, <2>2
      <3>3. QED
        BY <2>2, <3>1, <3>2
    <2>3. QED
      BY <2>1, <2>2
  <1>12. LeavesKeys(c)
    <2>1. CASE data' = data
      BY <1>5, <2>1, LeavesAll
    <2>2. CASE Put(c, r.key, Writes(r, values[c])[r.key])
      <3> SUFFICES ASSUME NEW d \in Clients \ {c}, d \notin disturbed'
                   PROVE  /\ d \notin disturbed
                          /\ pc[d] # "idle" =>
                               \A k \in ConditionKeys(call[d].req) : data'[k] = data[k]
        BY DEF LeavesKeys
      <3>1. d \notin disturbed /\ (pc[d] # "idle" => r.key \notin ConditionKeys(call[d].req))
        BY <2>2 DEF Put, Disturbs
      <3>2. pc[d] # "idle" => ConditionKeys(call[d].req) \subseteq Keys
        BY IncrementType DEF MemoryInv, TransactionInv
      <3>3. QED
        BY <1>10, <3>1, <3>2
    <2>3. QED
      BY <1>11, <2>1, <2>2
  <1>13. ASSUME c \notin disturbed, wrote'[c] # wrote[c]
         PROVE  Accepts(r, data) /\ data' = Overwrite(data, Writes(r, data))
    <2>1. \A x \in ConditionKeys(r) : values[c][x] = data[x]
      BY <1>2, <1>11, <1>13
    <2>2. Accepts(r, data) /\ Writes(r, values[c]) = Writes(r, data)
      BY <1>2, <1>13, <2>1, SameValues
    <2>3. Writes(r, data) = Only(r.key, Number(data[r.key]) + 1)
      BY <1>4
    <2>4. data' = [data EXCEPT ![r.key] = Number(data[r.key]) + 1]
      BY <1>11, <1>13, <2>2, <2>3 DEF Only, Put
    <2>5. data' = Overwrite(data, Writes(r, data))
      BY <1>1, <1>4, <2>3, <2>4 DEF MemoryTypeOK, Overwrite, Only
    <2>6. QED
      BY <2>2, <2>5
  <1>14. Effect(c)
    BY <1>5, <1>7, <1>8, <1>11, <1>13 DEF Effect
  <1>15. OkIsWritten(c)'
    BY <1>3, <1>4, <1>5, <1>6, <1>7, <1>9 DEF OkIsWritten
  <1>16. TransactionInv(c)'
    <2>1. CASE p = "idle"
      BY <1>7, <2>1 DEF TransactionInv
    <2>2. CASE p = "compare"
      <3>1. at'[c] = i + 1 /\ i + 1 \in 1..N /\ values'[c] = values[c]
        BY <1>1, <1>3, <1>6, <2>2 DEF MemoryTypeOK
      <3>2. c \notin disturbed =>
              \A x \in DOMAIN values[c] : (x # r.key \/ ~wrote'[c]) => values[c][x] = data'[x]
        <4> SUFFICES ASSUME c \notin disturbed, NEW x \in DOMAIN values[c], x # r.key \/ ~wrote'[c]
                     PROVE  values[c][x] = data'[x]
          OBVIOUS
        <4>1. CASE x # r.key
          BY <1>2, <1>4, <1>10, <4>1
        <4>2. CASE ~wrote'[c]
          <5>1. wrote'[c] = wrote[c] /\ ~wrote[c]
            BY <1>1, <1>5, <4>2 DEF MemoryTypeOK
          <5>2. QED
            BY <1>2, <1>11, <5>1
        <4>3. QED
          BY <4>1, <4>2
      <3>3. QED
        BY <1>2, <1>5, <1>7, <1>9, <2>2, <3>1, <3>2 DEF TransactionInv
    <2>3. QED
      BY <2>1, <2>2
  <1>17. QED
    BY <1>7, <1>12, <1>14, <1>15, <1>16 DEF Good

(* A try fails only when another call has written a key.                   *)
LEMMA TryAgainStep ==
    ASSUME MemoryInv, NEW c \in Clients, pc[c] = "compare", TryAgain(c), c \in disturbed,
           UNCHANGED <<values, calls>>
    PROVE  Good(c)
  <1>1. MemoryTypeOK /\ TransactionInv(c) /\ UNCHANGED <<data, at, wrote, disturbed>>
    BY DEF MemoryInv, TryAgain
  <1>2. PICK p \in {"idle", "update"} :
          /\ pc' = [pc EXCEPT ![c] = p]
          /\ \/ call' = call
             \/ \E a : call' = [call EXCEPT ![c] = [@ EXCEPT !.status = "answered", !.answer = a]]
    BY DEF TryAgain, Answered
  <1>3. p \in Places /\ disturbed \subseteq Clients
    BY <1>1 DEF Places, MemoryTypeOK
  <1>4. MemoryTypeOK' /\ pc'[c] = p /\ call'[c].req = call[c].req /\ SameFor(c)
    BY <1>1, <1>2, <1>3, OwnStep
  <1>5. TransactionInv(c)'
    BY <1>1, <1>2, <1>4 DEF TransactionInv
  <1>6. LeavesKeys(c)
    BY <1>1, LeavesAll
  <1>7. QED
    BY <1>1, <1>4, <1>5, <1>6 DEF Good, Effect, OkIsWritten

LEMMA CompareStep ==
    ASSUME MemoryInv, NEW c \in Clients, CompareKey(c)
    PROVE  Good(c)
  <1>1. PICK r, i, k : r = call[c].req /\ i = at[c] /\ k = KeyAt(c)
    OBVIOUS
  <1>2. /\ MemoryTypeOK /\ TransactionInv(c) /\ pc[c] = "compare"
        /\ UNCHANGED <<values, calls>> /\ k = KeySequence(r)[i]
    BY <1>1 DEF MemoryInv, CompareKey, KeyAt
  <1>3. /\ r \in Increments /\ i \in 1..N /\ DOMAIN values[c] = ConditionKeys(r)
        /\ c \notin disturbed =>
             /\ Accepts(r, values[c]) /\ (wrote[c] <=> r.key \in Past(r, i))
             /\ \A x \in DOMAIN values[c] : (x # r.key \/ ~wrote[c]) => values[c][x] = data[x]
    BY <1>1, <1>2 DEF TransactionInv
  <1>4. k \in ConditionKeys(r) /\ k \notin Past(r, i)
    BY <1>2, <1>3, PastKeys
  <1>5. c \notin disturbed => values[c][k] = data[k]
    BY <1>3, <1>4
  <1>6. r.key \in Keys /\ New(c) = Only(r.key, Number(values[c][r.key]) + 1)
    BY <1>1, <1>3, IncrementType DEF New
  <1>7. DOMAIN New(c) = {r.key} /\ New(c) = Writes(r, values[c])
    BY <1>1, <1>6 DEF Only, New
  <1>8. \/ c \in disturbed /\ TryAgain(c)
        \/ /\ k = r.key /\ pc' = [pc EXCEPT ![c] = "write"]
           /\ UNCHANGED <<data, call, at, wrote, disturbed>>
        \/ k = r.key /\ Put(c, r.key, Writes(r, values[c])[r.key]) /\ NextKey(c)
        \/ /\ c \in disturbed \/ k # r.key
           /\ UNCHANGED <<data, wrote, disturbed>> /\ NextKey(c)
    BY <1>1, <1>5, <1>7 DEF CompareKey
  <1>9. CASE /\ NextKey(c)
             /\ \/ (c \in disturbed \/ k # r.key) /\ UNCHANGED <<data, wrote, disturbed>>
                \/ k = r.key /\ Put(c, r.key, Writes(r, values[c])[r.key])
    <2>1. \/ /\ c \in disturbed \/ KeySequence(r)[i] # r.key
             /\ UNCHANGED <<data, wrote, disturbed>>
          \/ KeySequence(r)[i] = r.key /\ Put(c, r.key, Writes(r, values[c])[r.key])
      BY <1>2, <1>9
    <2>2. NextKey(c) /\ pc[c] \in {"compare", "write"}
      BY <1>2, <1>9
    <2>3. r = call[c].req /\ i = at[c] /\ UNCHANGED <<values, calls>>
      BY <1>1, <1>2
    <2>4. QED
      BY <2>1, <2>2, <2>3, NextKeyStep
  <1>10. CASE /\ k = r.key /\ pc' = [pc EXCEPT ![c] = "write"]
              /\ UNCHANGED <<data, call, at, wrote, disturbed>>
    <2>1. MemoryTypeOK' /\ pc'[c] = "write" /\ SameFor(c)
      BY <1>2, <1>10, OwnStep DEF MemoryTypeOK, Places
    <2>2. KeyAt(c)' = KeyAt(c)
      BY <1>10 DEF KeyAt
    <2>3. TransactionInv(c)'
      BY <1>1, <1>2, <1>3, <1>10, <2>1, <2>2 DEF TransactionInv
    <2>4. LeavesKeys(c)
      BY <1>10, LeavesAll
    <2>5. QED
      BY <1>10, <2>1, <2>3, <2>4 DEF Good, Effect, OkIsWritten
  <1>11. CASE c \in disturbed /\ TryAgain(c)
    BY <1>2, <1>11, TryAgainStep
  <1>12. QED
    BY <1>8, <1>9, <1>10, <1>11

LEMMA WriteStep ==
    ASSUME MemoryInv, NEW c \in Clients, WriteKey(c)
    PROVE  Good(c)
  <1>1. PICK r, i : r = call[c].req /\ i = at[c]
    OBVIOUS
  <1>2. /\ pc[c] = "write" /\ NextKey(c) /\ UNCHANGED <<values, calls>>
        /\ Put(c, KeyAt(c), New(c)[KeyAt(c)])
    BY DEF WriteKey
  <1>3. KeyAt(c) = r.key /\ KeySequence(r)[i] = r.key
    BY <1>1, <1>2 DEF MemoryInv, TransactionInv, KeyAt
  <1>4. Put(c, r.key, Writes(r, values[c])[r.key])
    BY <1>1, <1>2, <1>3 DEF New
  <1>5. QED
    BY <1>1, <1>2, <1>3, <1>4, NextKeyStep

-----------------------------------------------------------------------------
LEMMA GoodStep ==
    ASSUME MemoryInv, MemoryNext
    PROVE  \E c \in Clients : Good(c)
  <1>1. PICK c \in Clients :
          \/ \E r \in Requests(calls) : OneLock(c, r) \/ ExecuteTransaction(c, r)
          \/ StartTransaction(c) \/ Update(c) \/ CompareKey(c) \/ WriteKey(c)
    BY DEF MemoryNext
  <1>2. QED
    BY <1>1, OneLockStep, BeginStep, ReadStep, UpdateStep, CompareStep, WriteStep

(* A step of one client keeps the invariant of the others, whose keys it   *)
(* does not write or whom it disturbs.                                     *)
LEMMA OthersKeep ==
    ASSUME MemoryInv, NEW c \in Clients, Good(c), NEW d \in Clients \ {c}
    PROVE  TransactionInv(d)' /\ OkIsWritten(d)' /\ Effect(d)
  <1>1. /\ pc'[d] = pc[d] /\ call'[d] = call[d] /\ at'[d] = at[d]
        /\ values'[d] = values[d] /\ wrote'[d] = wrote[d]
        /\ d \notin disturbed' =>
             /\ d \notin disturbed
             /\ pc[d] # "idle" => \A k \in ConditionKeys(call[d].req) : data'[k] = data[k]
    BY DEF Good, SameFor, LeavesKeys
  <1>2. KeyAt(d)' = KeyAt(d)
    BY <1>1 DEF KeyAt
  <1>3. TransactionInv(d)'
    <2> SUFFICES ASSUME pc[d] # "idle" PROVE TransactionInv(d)'
      BY <1>1 DEF TransactionInv
    <2>1. PICK r, v, i : r = call[d].req /\ v = values[d] /\ i = at[d]
      OBVIOUS
    <2>2. /\ r \in Increments /\ i \in 1..N
          /\ pc[d] = "start" => DOMAIN v = Past(r, i)
          /\ pc[d] # "start" => DOMAIN v = ConditionKeys(r)
          /\ pc[d] = "write" => KeyAt(d) = r.key
          /\ d \notin disturbed =>
               /\ \A k \in DOMAIN v : (k # r.key \/ ~wrote[d]) => v[k] = data[k]
               /\ pc[d] \in {"start", "update"} => ~wrote[d]
               /\ pc[d] \in {"compare", "write"} =>
                    Accepts(r, v) /\ (wrote[d] <=> r.key \in Past(r, i))
      BY <2>1 DEF MemoryInv, TransactionInv
    <2>3. DOMAIN v \subseteq ConditionKeys(r)
      <3>1. Past(r, i) \subseteq ConditionKeys(r)
        BY <2>2, KeyOrder, Order DEF Past
      <3>2. QED
        BY <2>2, <3>1
    <2>4. d \notin disturbed' => \A k \in DOMAIN v : (k # r.key \/ ~wrote[d]) => v[k] = data'[k]
      BY <1>1, <2>1, <2>2, <2>3
    <2>5. QED
      BY <1>1, <1>2, <2>1, <2>2, <2>4 DEF TransactionInv
  <1>4. OkIsWritten(d)'
    BY <1>1 DEF OkIsWritten, MemoryInv, UndisturbedOkMeansWritten
  <1>5. Effect(d)
    BY <1>1 DEF Effect
  <1>6. QED
    BY <1>3, <1>4, <1>5

LEMMA MemoryInvInit == MemoryInit => MemoryInv
  <1> SUFFICES ASSUME MemoryInit PROVE MemoryInv
    OBVIOUS
  <1>1. \A c \in Clients : pc[c] = "idle" /\ call[c].answer = Says("none")
    BY DEF MemoryInit, NoCall
  <1>2. Says("none") # Says("ok")
    BY DEF Says
  <1>3. MemoryTypeOK
    BY DEF MemoryInit, MemoryTypeOK, NoCall, Places
  <1>4. UndisturbedOkMeansWritten
    BY <1>1, <1>2 DEF UndisturbedOkMeansWritten
  <1>5. \A c \in Clients : TransactionInv(c)
    BY <1>1 DEF TransactionInv
  <1>6. QED
    BY <1>3, <1>4, <1>5 DEF MemoryInv

LEMMA MemoryInvHolds == MemorySpec => []MemoryInv
  <1>1. ASSUME MemoryInv, MemoryNext
        PROVE  MemoryInv'
    <2>1. PICK c \in Clients : Good(c)
      BY <1>1, GoodStep
    <2>2. \A d \in Clients : TransactionInv(d)' /\ OkIsWritten(d)'
      BY <1>1, <2>1, OthersKeep DEF Good
    <2>3. UndisturbedOkMeansWritten'
      BY <2>2 DEF UndisturbedOkMeansWritten, OkIsWritten
    <2>4. QED
      BY <2>1, <2>2, <2>3 DEF MemoryInv, Good
  <1>2. ASSUME MemoryInv, UNCHANGED memoryVars
        PROVE  MemoryInv'
    <2>1. /\ data' = data /\ call' = call /\ pc' = pc /\ at' = at /\ values' = values
          /\ calls' = calls /\ wrote' = wrote /\ disturbed' = disturbed
      BY <1>2 DEF memoryVars
    <2>2. MemoryTypeOK' /\ UndisturbedOkMeansWritten'
      BY <1>2, <2>1 DEF MemoryInv, MemoryTypeOK, UndisturbedOkMeansWritten
    <2>3. ASSUME NEW c \in Clients
          PROVE  TransactionInv(c)'
      <3>1. TransactionInv(c) /\ KeyAt(c)' = KeyAt(c)
        BY <1>2, <2>1 DEF MemoryInv, KeyAt
      <3>2. QED
        BY <2>1, <3>1 DEF TransactionInv
    <2>4. QED
      BY <2>2, <2>3 DEF MemoryInv
  <1>3. QED
    BY <1>1, <1>2, MemoryInvInit, PTL DEF MemorySpec

(* A transaction of the in-memory storage that says "ok", and whose keys   *)
(* no other call wrote meanwhile, has written its key, with any number of  *)
(* calls at the same time: what CompleteTransaction breaks it breaks only  *)
(* for transactions that share keys.                                       *)
THEOREM UndisturbedIsWritten == MemorySpec => []UndisturbedOkMeansWritten
  <1>1. MemoryInv => UndisturbedOkMeansWritten
    BY DEF MemoryInv
  <1>2. QED
    BY <1>1, MemoryInvHolds, PTL

(* With any number of calls at the same time, a transaction of the         *)
(* in-memory storage whose keys no other call has written takes effect in  *)
(* one step and on the values that are stored, although                    *)
(* CompleteTransaction reads, compares and writes key by key; and it fails *)
(* only when its update function refuses these values, whatever number of  *)
(* tries it is given.                                                      *)
THEOREM UndisturbedTakesEffectAtOnce == MemorySpec => UndisturbedIsAtomic
  <1>1. ASSUME MemoryInv, [MemoryNext]_memoryVars
        PROVE  [\A c \in Clients \ disturbed' : pc[c] # "idle" =>
                 LET r == call[c].req
                 IN  /\ wrote'[c] # wrote[c] =>
                          Accepts(r, data) /\ data' = Overwrite(data, Writes(r, data))
                     /\ wrote'[c] = wrote[c] => \A k \in ConditionKeys(r) : data'[k] = data[k]
                     /\ (pc'[c] = "idle" /\ call'[c].answer # Says("ok")) =>
                          ~Accepts(r, data) /\ ~wrote'[c]]_memoryVars
    <2>1. CASE UNCHANGED memoryVars
      BY <2>1
    <2>2. CASE MemoryNext
      <3>1. PICK c \in Clients : Good(c)
        BY <1>1, <2>2, GoodStep
      <3>2. \A d \in Clients : Effect(d)
        BY <1>1, <3>1, OthersKeep DEF Good
      <3>3. QED
        BY <3>2 DEF Effect
    <2>3. QED
      BY <1>1, <2>1, <2>2
  <1>2. QED
    BY <1>1, MemoryInvHolds, PTL DEF MemorySpec, UndisturbedIsAtomic
=============================================================================
