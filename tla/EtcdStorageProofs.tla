------------------------- MODULE EtcdStorageProofs -------------------------
(***************************************************************************)
(* The storage on etcd is an atomic storage, for any number of clients,    *)
(* keys and calls: EtcdSpec implements AtomicStorage.                      *)
(***************************************************************************)
EXTENDS EtcdStorage, FiniteSetTheorems, TLAPS

-----------------------------------------------------------------------------
(***************************************************************************)
(* Requests.                                                               *)
(***************************************************************************)

(* PutIfAbsent, CompareAndSwap and ExecuteTransaction are transactions,    *)
(* the other operations are one request.                                   *)
Transactions == {"putIfAbsent", "cas", "increment"}

DirectKinds == {"get", "getall", "put", "delete"}

GoodReq(r) ==
    /\ r.key \in Keys /\ r.kind \in Transactions \cup DirectKinds
    /\ r.new \in Nat /\ r.id \in Nat

LEMMA RequestFields ==
    ASSUME NEW n \in Nat, NEW r \in Requests(n)
    PROVE  GoodReq(r) /\ r.id = n
  <1>1. (CHOOSE k \in Used : TRUE) \in Used /\ Used \subseteq Keys /\ Values \subseteq Nat
    BY StorageAssumption DEF Keys
  <1>2. /\ r.key \in Used /\ r.id = n /\ r.kind \in Transactions \cup DirectKinds
        /\ r.new \in Values \cup {0}
    BY <1>1 DEF Requests, Transactions, DirectKinds
  <1>3. r.key \in Keys
    BY <1>1, <1>2
  <1>4. r.new \in Nat
    <2>1. Values \cup {0} \subseteq Nat
      BY <1>1
    <2>2. QED
      BY <1>2, <2>1
  <1>5. QED
    BY <1>2, <1>3, <1>4 DEF GoodReq

LEMMA KeyOfRequest ==
    ASSUME NEW r, GoodReq(r)
    PROVE  r.key \in ConditionKeys(r) /\ ConditionKeys(r) \subseteq Keys
  BY DEF GoodReq, ConditionKeys, KeysOf, Keys

(* A request depends on its condition keys only.                           *)
LEMMA Agreement ==
    ASSUME NEW r, GoodReq(r), NEW f, NEW g, \A k \in ConditionKeys(r) : f[k] = g[k]
    PROVE  (Accepts(r, f) <=> Accepts(r, g)) /\ Writes(r, f) = Writes(r, g)
  <1>1. f[r.key] = g[r.key]
    BY KeyOfRequest
  <1>2. [k \in ConditionKeys(r) |-> Number(f[k])] = [k \in ConditionKeys(r) |-> Number(g[k])]
    BY DEF Number
  <1>3. Writes(r, f) = Writes(r, g)
    BY <1>1 DEF Writes, Number
  <1>4. Accepts(r, f) <=> Accepts(r, g)
    <2>1. CASE r.kind = "cas"
      BY <1>1, <2>1 DEF Accepts
    <2>2. CASE r.kind = "putIfAbsent"
      BY <1>1, <2>2 DEF Accepts
    <2>3. CASE r.kind = "increment"
      BY <1>2, <2>3 DEF Accepts
    <2>4. CASE r.kind \in DirectKinds
      BY <2>4 DEF Accepts, DirectKinds
    <2>5. QED
      BY <2>1, <2>2, <2>3, <2>4 DEF GoodReq, Transactions
  <1>5. QED
    BY <1>3, <1>4

(* What is stored under a key, or that nothing is.                         *)
Contents == Nat \cup {Absent}

LEMMA WritesShape ==
    ASSUME NEW r, GoodReq(r), NEW f, f[r.key] \in Contents
    PROVE  /\ Writes(r, f) = <<>> \/ DOMAIN Writes(r, f) = {r.key}
           /\ DOMAIN Writes(r, f) \subseteq Keys
           /\ DOMAIN Writes(r, f) \subseteq ConditionKeys(r)
           /\ \A k \in DOMAIN Writes(r, f) : Writes(r, f)[k] \in Contents
  <1>1. r.key \in Keys /\ r.new \in Nat /\ r.key \in ConditionKeys(r)
    BY KeyOfRequest DEF GoodReq
  <1>2. Number(f[r.key]) + 1 \in Nat
    BY DEF Number, Contents
  <1>3. CASE r.kind \in {"put", "putIfAbsent", "cas"}
    BY <1>1, <1>3 DEF Writes, Only, Contents
  <1>4. CASE r.kind = "delete"
    BY <1>1, <1>4 DEF Writes, Only, Contents
  <1>5. CASE r.kind = "increment"
    BY <1>1, <1>2, <1>5 DEF Writes, Only, Contents
  <1>6. CASE r.kind \in {"get", "getall"}
    BY <1>1, <1>6 DEF Writes
  <1>7. QED
    BY <1>3, <1>4, <1>5, <1>6 DEF GoodReq, Transactions, DirectKinds

-----------------------------------------------------------------------------
(***************************************************************************)
(* Reading the condition keys.                                             *)
(***************************************************************************)

LEMMA OrderOfNames ==
    /\ DOMAIN SetToSeq(Names) = 1..Len(SetToSeq(Names)) /\ Len(SetToSeq(Names)) \in Nat
    /\ \A i \in 1..Len(SetToSeq(Names)) : SetToSeq(Names)[i] \in Names
    /\ \A i, j \in 1..Len(SetToSeq(Names)) :
         SetToSeq(Names)[i] = SetToSeq(Names)[j] => i = j
    /\ \A n \in Names : \E i \in 1..Len(SetToSeq(Names)) : SetToSeq(Names)[i] = n
  <1> DEFINE n == Cardinality(Names)
             D == 1..n
             order == SetToSeq(Names)
  <1>1. n \in Nat /\ IsFiniteSet(Names) /\ ExistsBijection(D, Names)
    BY StorageAssumption, FS_CardinalityType
  <1>2. \E f \in [D -> Names] : IsInjective(f)
    BY <1>1 DEF ExistsBijection, Bijection, Injection
  <1>3. order \in [D -> Names] /\ IsInjective(order)
    BY <1>2 DEF SetToSeq
  <1>4. Cardinality(D) = n
    BY <1>1, FS_Interval
  <1>5. order \in Injection(D, Names)
    BY <1>3 DEF Injection
  <1>6. order \in Surjection(D, Names)
    BY <1>1, <1>4, <1>5, FS_Injection
  <1>7. Len(order) = n /\ DOMAIN order = D
    BY <1>1, <1>3
  <1>8. QED
    BY <1>1, <1>3, <1>6, <1>7 DEF IsInjective, Surjection

LEMMA ConditionSequence ==
    ASSUME NEW r, GoodReq(r), r.kind \in Transactions
    PROVE  /\ Len(appendKeyPrefix(r)) \in Nat
           /\ DOMAIN appendKeyPrefix(r) = 1..Len(appendKeyPrefix(r))
           /\ \A i, j \in 1..Len(appendKeyPrefix(r)) :
                appendKeyPrefix(r)[i] = appendKeyPrefix(r)[j] => i = j
           /\ Range(appendKeyPrefix(r)) = ConditionKeys(r)
  <1>1. CASE r.kind # "increment"
    <2>1. appendKeyPrefix(r) = <<r.key>> /\ ConditionKeys(r) = {r.key}
      BY <1>1 DEF appendKeyPrefix, ConditionKeys, Transactions
    <2>2. QED
      BY <2>1 DEF Range
  <1>2. CASE r.kind = "increment"
    <2> DEFINE order == SetToSeq(Names)
               n == Len(order)
    <2>1. /\ n \in Nat /\ \A i \in 1..n : order[i] \in Names
          /\ \A i, j \in 1..n : order[i] = order[j] => i = j
          /\ \A x \in Names : \E i \in 1..n : order[i] = x
      BY OrderOfNames
    <2>2. appendKeyPrefix(r) = [i \in 1..n |-> <<r.key[1], order[i]>>]
      BY <1>2 DEF appendKeyPrefix
    <2>3. ConditionKeys(r) = {r.key[1]} \X Names
      BY <1>2 DEF ConditionKeys, KeysOf
    <2> HIDE DEF order, n
    <2>4. Len(appendKeyPrefix(r)) = n /\ DOMAIN appendKeyPrefix(r) = 1..n
      BY <2>1, <2>2
    <2>5. \A i \in 1..n : appendKeyPrefix(r)[i] = <<r.key[1], order[i]>>
      BY <2>2
    <2>6. Range(appendKeyPrefix(r)) = {<<r.key[1], order[i]>> : i \in 1..n}
      BY <2>4, <2>5 DEF Range
    <2>7. Range(appendKeyPrefix(r)) = ConditionKeys(r)
      <3>1. ASSUME NEW x \in Names PROVE <<r.key[1], x>> \in Range(appendKeyPrefix(r))
        BY <2>1, <2>6
      <3>2. QED
        BY <2>1, <2>3, <2>6, <3>1
    <2>8. QED
      BY <2>1, <2>4, <2>5, <2>7
  <1>3. QED
    BY <1>1, <1>2

(* The values and revisions that a transaction has seen are those of one   *)
(* moment, whatever the order in which checkTxnResponse lists them.        *)
LEMMA ReadGives ==
    ASSUME NEW r, GoodReq(r), r.kind \in Transactions, NEW s \in [Keys -> Version],
           NEW values \in checkTxnResponse(s, appendKeyPrefix(r))
    PROVE  /\ Range(values) = {KeyState(s, k) : k \in ConditionKeys(r)}
           /\ \A k \in ConditionKeys(r) : ConditionValues(r, values)[k] = ValueOf(s, k)
  <1> DEFINE keys == appendKeyPrefix(r)
             places == 1..Len(keys)
  <1>1. /\ Len(keys) \in Nat /\ DOMAIN keys = places /\ Range(keys) = ConditionKeys(r)
        /\ \A i, j \in places : keys[i] = keys[j] => i = j
    BY ConditionSequence
  <1>2. PICK p \in Bijection(places, places) :
           values = [i \in places |-> KeyState(s, keys[p[i]])]
    BY DEF checkTxnResponse
  <1> HIDE DEF keys
  <1>3. /\ \A i \in places : p[i] \in places
        /\ \A j \in places : \E i \in places : p[i] = j
        /\ \A i, j \in places : p[i] = p[j] => i = j
    BY <1>2 DEF Bijection, Injection, Surjection, IsInjective
  <1>4. /\ DOMAIN values = places /\ Len(values) = Len(keys)
        /\ \A i \in places : values[i] = KeyState(s, keys[p[i]])
    BY <1>1, <1>2
  <1>5. Range(values) = {KeyState(s, k) : k \in ConditionKeys(r)}
    <2>1. \A k \in ConditionKeys(r) : \E i \in places : keys[p[i]] = k
      BY <1>1, <1>3 DEF Range
    <2>2. \A i \in places : keys[p[i]] \in ConditionKeys(r)
      BY <1>1, <1>3 DEF Range
    <2>3. QED
      BY <1>4, <2>1, <2>2 DEF Range
  <1>6. ASSUME NEW k \in ConditionKeys(r)
        PROVE  ConditionValues(r, values)[k] = ValueOf(s, k)
    <2>1. PICK i \in places : keys[p[i]] = k
      BY <1>1, <1>3 DEF Range
    <2>2. \A j \in places : values[j].key = keys[p[j]]
      BY <1>4 DEF KeyState
    <2>3. \A j \in places : values[j].key = k <=> j = i
      <3>1. ASSUME NEW j \in places, values[j].key = k PROVE j = i
        <4>1. keys[p[j]] = keys[p[i]] /\ p[j] \in places /\ p[i] \in places
          BY <1>3, <2>1, <2>2, <3>1
        <4>2. p[j] = p[i]
          BY <1>1, <4>1
        <4>3. QED
          BY <1>3, <4>2
      <3>2. values[i].key = k
        BY <2>1, <2>2
      <3>3. QED
        BY <3>1, <3>2
    <2>4. {j \in places : values[j].key = k} = {i}
      BY <2>3
    <2>5. Min({i}) = i
      BY <1>1 DEF Min
    <2>6. SelectInSeq(values, LAMBDA v : v.key = k) = i
      BY <1>4, <2>4, <2>5 DEF SelectInSeq
    <2>7. findKeyValueByKey(values, k) = KeyState(s, k)
      BY <1>4, <2>1, <2>6 DEF findKeyValueByKey
    <2>8. KeyState(s, k).present = (s[k].mod # 0) /\ KeyState(s, k).value = s[k].value
      BY DEF KeyState
    <2>9. k \in Range(appendKeyPrefix(r))
      BY <1>1 DEF keys
    <2>10. QED
      BY <2>7, <2>8, <2>9 DEF ConditionValues, ValueOf
  <1>7. QED
    BY <1>5, <1>6

-----------------------------------------------------------------------------
(***************************************************************************)
(* The inductive invariant.                                                *)
(***************************************************************************)

(* The value that a transaction has seen.                                  *)
Seen(v) == IF v.present THEN v.value ELSE Absent

(* A key that still has the revision a transaction has seen still has the  *)
(* value: revisions never come back.                                       *)
SnapOK(v, s, rev) ==
    /\ v.key \in Keys /\ v.version \in Nat /\ v.version <= rev
    /\ v.present <=> v.version # 0
    /\ v.present => v.value \in Nat
    /\ (v.present /\ s[v.key].mod = v.version) => s[v.key].value = v.value

(* V is what request r has seen of its condition keys, and f the values.   *)
Snapshot(r, V, f, s, rev) ==
    /\ f \in [ConditionKeys(r) -> Contents]
    /\ \A v \in V : SnapOK(v, s, rev) /\ v.key \in ConditionKeys(r) /\ f[v.key] = Seen(v)
    /\ \A k \in ConditionKeys(r) : \E v \in V : v.key = k

(* A transaction at etcd: its writes are those of the values it compares.  *)
TxnMsg(m, s, rev) ==
    /\ m.req.kind \in Transactions
    /\ \E f \in [ConditionKeys(m.req) -> Contents] :
         /\ Snapshot(m.req, m.cmps, f, s, rev)
         /\ Accepts(m.req, f) /\ m.puts = Writes(m.req, f)

DirectMsg(m) ==
    /\ m.cmps = {} /\ m.req.kind \in {"put", "delete"}
    /\ m.puts = Writes(m.req, <<>>)

(* A client with call cl at place p, that has seen t and sent m, knows     *)
(* whatever may refuse its call: a value that its update function refuses, *)
(* or a revision that has changed, is among the reasons.                   *)
ClientOK(cl, p, t, m, why, s, rev, n) ==
    /\ DOMAIN cl = {"req", "status", "answer"}
    /\ p = "idle" <=> cl.status = "answered"
    /\ p = "answer" <=> cl.status = "decided"
    /\ p \in {"direct", "start", "update", "complete"} <=> cl.status = "pending"
    /\ p # "complete" => m = NoRequest
    /\ p # "idle" => GoodReq(cl.req) /\ cl.req.id < n
    /\ p = "direct" => cl.req.kind \in DirectKinds
    /\ p \in {"start", "update", "complete"} => cl.req.kind \in Transactions
    /\ cl.status = "pending" => Accepts(cl.req, Stored(s)) \/ "refused" \in why
    /\ p = "update" =>
         /\ Snapshot(cl.req, Range(t), ConditionValues(cl.req, t), s, rev)
         /\ Accepts(cl.req, ConditionValues(cl.req, t)) \/ "refused" \in why
         /\ "disturbed" \in why \/ \A v \in Range(t) : Compare(v, s)
    /\ p = "complete" =>
         /\ TxnMsg(m, s, rev) /\ m.req = cl.req
         /\ "disturbed" \in why \/ \A v \in m.cmps : Compare(v, s)

StoreOK(s, rev) ==
    s \in [Keys -> Version] /\ rev \in Nat /\ \A k \in Keys : s[k].mod <= rev

ShapeInv ==
    /\ DOMAIN call = Clients /\ DOMAIN reasons = Clients /\ pc \in [Clients -> Places]
    /\ DOMAIN txn = Clients /\ DOMAIN sent = Clients /\ calls \in 0..MaxCalls

ClientsInv ==
    \A c \in Clients :
        ClientOK(call[c], pc[c], txn[c], sent[c], reasons[c], store, revision, calls)

LateInv ==
    \A m \in late : /\ GoodReq(m.req) /\ m.req.id < calls
                    /\ DirectMsg(m) \/ TxnMsg(m, store, revision)

(* No two requests that are under way have the same number.                *)
IdsInv ==
    /\ \A c, d \in Clients : (c # d /\ pc[c] # "idle" /\ pc[d] # "idle")
                               => call[c].req.id # call[d].req.id
    /\ \A m \in late, c \in Clients : pc[c] # "idle" => m.req.id # call[c].req.id
    /\ \A m, l \in late : m.req.id = l.req.id => m = l

EtcdInv == StoreOK(store, revision) /\ ShapeInv /\ ClientsInv /\ LateInv /\ IdsInv

-----------------------------------------------------------------------------
(***************************************************************************)
(* What a request does to the store and to the clients.                    *)
(***************************************************************************)

LEMMA StoredContents ==
    ASSUME NEW s, NEW rev, StoreOK(s, rev)
    PROVE  /\ DOMAIN Stored(s) = Keys
           /\ \A k \in Keys : /\ Stored(s)[k] = ValueOf(s, k) /\ Stored(s)[k] \in Contents
                              /\ s[k].mod \in Nat /\ s[k].value \in Nat
  <1>1. \A k \in Keys : s[k].mod \in Nat /\ s[k].value \in Nat
    BY DEF StoreOK, Version
  <1>2. QED
    BY <1>1 DEF Stored, ValueOf, Contents

(* etcd carries out a request: all its keys get a new revision.            *)
LEMMA StoreAfter ==
    ASSUME NEW s, NEW rev, StoreOK(s, rev), NEW r, GoodReq(r), NEW w, w = Writes(r, Stored(s)),
           NEW s2, s2 = Put(s, w, rev + 1),
           NEW rev2, rev2 = IF w = <<>> THEN rev ELSE rev + 1
    PROVE  /\ StoreOK(s2, rev2) /\ Stored(s2) = Overwrite(Stored(s), w)
           /\ \A v : SnapOK(v, s, rev) => SnapOK(v, s2, rev2)
           /\ \A v : (v.key \in Keys /\ v.key \notin DOMAIN w)
                       => (Compare(v, s2) <=> Compare(v, s))
  <1>1. /\ DOMAIN w \subseteq Keys /\ \A k \in DOMAIN w : w[k] \in Contents
        /\ w = <<>> => DOMAIN w = {}
    <2>1. Stored(s)[r.key] \in Contents
      BY StoredContents DEF GoodReq
    <2>2. DOMAIN w \subseteq Keys /\ \A k \in DOMAIN w : w[k] \in Contents
      BY <2>1, WritesShape
    <2>3. QED
      BY <2>2
  <1>2. /\ rev \in Nat /\ rev2 \in Nat /\ rev <= rev2 /\ rev + 1 \in Nat /\ rev + 1 # 0
        /\ DOMAIN w # {} => rev2 = rev + 1
    BY <1>1 DEF StoreOK
  <1>3. \A k \in Keys : s[k].mod \in Nat /\ s[k].value \in Nat /\ s[k].mod <= rev
    BY StoredContents DEF StoreOK
  <1>4. \A k \in Keys :
          /\ k \notin DOMAIN w => s2[k] = s[k]
          /\ (k \in DOMAIN w /\ w[k] = Absent) => s2[k].mod = 0 /\ s2[k].value = 0
          /\ (k \in DOMAIN w /\ w[k] # Absent)
                => s2[k].mod = rev + 1 /\ s2[k].value = w[k] /\ w[k] \in Nat
    BY <1>1 DEF Put, NoKey, Contents
  <1>5. StoreOK(s2, rev2)
    <2>1. ASSUME NEW k \in Keys PROVE s2[k] \in Version /\ s2[k].mod <= rev2
      <3>1. CASE k \notin DOMAIN w
        <4>1. s[k] \in Version
          BY DEF StoreOK
        <4>2. QED
          BY <1>2, <1>3, <1>4, <3>1, <4>1
      <3>2. CASE k \in DOMAIN w /\ w[k] = Absent
        <4>1. s2[k] = NoKey
          BY <3>2 DEF Put
        <4>2. QED
          BY <1>2, <4>1 DEF NoKey, Version
      <3>3. CASE k \in DOMAIN w /\ w[k] # Absent
        <4>1. s2[k] = [value |-> w[k], mod |-> rev + 1] /\ w[k] \in Nat
          BY <1>4, <3>3 DEF Put
        <4>2. QED
          BY <1>2, <3>3, <4>1 DEF Version
      <3>4. QED
        BY <3>1, <3>2, <3>3
    <2>2. s2 = [k \in Keys |-> s2[k]]
      BY DEF Put
    <2>3. s2 \in [Keys -> Version]
      BY <2>1, <2>2
    <2>4. QED
      BY <1>2, <2>1, <2>3 DEF StoreOK
  <1>6. Stored(s2) = Overwrite(Stored(s), w)
    <2>1. DOMAIN Stored(s) = Keys /\ \A k \in Keys : Stored(s)[k] = ValueOf(s, k)
      BY StoredContents
    <2>2. ASSUME NEW k \in Keys
          PROVE  ValueOf(s2, k) = IF k \in DOMAIN w THEN w[k] ELSE ValueOf(s, k)
      BY <1>2, <1>4 DEF ValueOf
    <2>3. QED
      BY <2>1, <2>2 DEF Stored, Overwrite
  <1>7. ASSUME NEW v, SnapOK(v, s, rev) PROVE SnapOK(v, s2, rev2)
    <2>1. /\ v.key \in Keys /\ v.version \in Nat /\ v.version <= rev
          /\ v.present <=> v.version # 0
          /\ v.present => v.value \in Nat
          /\ (v.present /\ s[v.key].mod = v.version) => s[v.key].value = v.value
      BY <1>7 DEF SnapOK
    <2>2. ASSUME v.present, s2[v.key].mod = v.version PROVE s2[v.key].value = v.value
      <3>1. v.key \notin DOMAIN w
        BY <1>2, <1>4, <2>1, <2>2
      <3>2. QED
        BY <1>4, <2>1, <2>2, <3>1
    <2>3. QED
      BY <1>2, <2>1, <2>2 DEF SnapOK
  <1>8. ASSUME NEW v, v.key \in Keys, v.key \notin DOMAIN w
        PROVE  Compare(v, s2) <=> Compare(v, s)
    BY <1>4, <1>8 DEF Compare
  <1>9. QED
    BY <1>5, <1>6, <1>7, <1>8

(* Snapshots stay good.                                                    *)
LEMMA SnapshotsKeep ==
    ASSUME NEW s, NEW rev, NEW s2, NEW rev2,
           \A v : SnapOK(v, s, rev) => SnapOK(v, s2, rev2)
    PROVE  /\ \A r, V, f : Snapshot(r, V, f, s, rev) => Snapshot(r, V, f, s2, rev2)
           /\ \A m : TxnMsg(m, s, rev) => TxnMsg(m, s2, rev2)
  <1>1. ASSUME NEW r, NEW V, NEW f, Snapshot(r, V, f, s, rev)
        PROVE  Snapshot(r, V, f, s2, rev2)
    BY <1>1 DEF Snapshot
  <1>2. ASSUME NEW m, TxnMsg(m, s, rev) PROVE TxnMsg(m, s2, rev2)
    BY <1>1, <1>2 DEF TxnMsg
  <1>3. QED
    BY <1>1, <1>2

(* A call that is not answered meanwhile.                                  *)
LEMMA ClientKeeps ==
    ASSUME NEW cl, NEW p, NEW t, NEW m, NEW why, NEW s, NEW rev, NEW n \in Nat,
           ClientOK(cl, p, t, m, why, s, rev, n),
           NEW why2, NEW s2, NEW rev2, NEW n2 \in Nat, n <= n2,
           \A v : SnapOK(v, s, rev) => SnapOK(v, s2, rev2),
           cl.status = "pending" =>
             /\ why \subseteq why2
             /\ Accepts(cl.req, Stored(s2)) \/ "refused" \in why2
             /\ \/ "disturbed" \in why2
                \/ \A v : (v.key \in ConditionKeys(cl.req) /\ Compare(v, s)) => Compare(v, s2)
    PROVE  ClientOK(cl, p, t, m, why2, s2, rev2, n2)
  <1>1. /\ \A r, V, f : Snapshot(r, V, f, s, rev) => Snapshot(r, V, f, s2, rev2)
        /\ TxnMsg(m, s, rev) => TxnMsg(m, s2, rev2)
    BY SnapshotsKeep
  <1>2. p # "idle" => cl.req.id < n2
    BY DEF ClientOK, GoodReq
  <1>3. ASSUME p = "update"
        PROVE  /\ Snapshot(cl.req, Range(t), ConditionValues(cl.req, t), s2, rev2)
               /\ Accepts(cl.req, ConditionValues(cl.req, t)) \/ "refused" \in why2
               /\ "disturbed" \in why2 \/ \A v \in Range(t) : Compare(v, s2)
    <2>1. /\ Snapshot(cl.req, Range(t), ConditionValues(cl.req, t), s, rev)
          /\ Accepts(cl.req, ConditionValues(cl.req, t)) \/ "refused" \in why
          /\ "disturbed" \in why \/ \A v \in Range(t) : Compare(v, s)
          /\ cl.status = "pending"
      BY <1>3 DEF ClientOK
    <2>2. \A v \in Range(t) : v.key \in ConditionKeys(cl.req)
      BY <2>1 DEF Snapshot
    <2>3. QED
      BY <1>1, <2>1, <2>2
  <1>4. ASSUME p = "complete"
        PROVE  /\ TxnMsg(m, s2, rev2) /\ m.req = cl.req
               /\ "disturbed" \in why2 \/ \A v \in m.cmps : Compare(v, s2)
    <2>1. /\ TxnMsg(m, s, rev) /\ m.req = cl.req /\ cl.status = "pending"
          /\ "disturbed" \in why \/ \A v \in m.cmps : Compare(v, s)
      BY <1>4 DEF ClientOK
    <2>2. \A v \in m.cmps : v.key \in ConditionKeys(cl.req)
      BY <2>1 DEF TxnMsg, Snapshot
    <2>3. QED
      BY <1>1, <2>1, <2>2
  <1>5. cl.status = "pending" => Accepts(cl.req, Stored(s2)) \/ "refused" \in why2
    OBVIOUS
  <1>6. QED
    BY <1>2, <1>3, <1>4, <1>5 DEF ClientOK

(* When no revision has changed, the values have not changed either.       *)
LEMMA MessageAgrees ==
    ASSUME NEW s, NEW rev, StoreOK(s, rev), NEW m, GoodReq(m.req),
           DirectMsg(m) \/ TxnMsg(m, s, rev), \A v \in m.cmps : Compare(v, s)
    PROVE  Accepts(m.req, Stored(s)) /\ m.puts = Writes(m.req, Stored(s))
  <1>1. CASE DirectMsg(m)
    BY <1>1 DEF DirectMsg, Accepts, Writes
  <1>2. CASE TxnMsg(m, s, rev)
    <2>1. PICK f \in [ConditionKeys(m.req) -> Contents] :
             /\ Snapshot(m.req, m.cmps, f, s, rev)
             /\ Accepts(m.req, f) /\ m.puts = Writes(m.req, f)
      BY <1>2 DEF TxnMsg
    <2>2. ASSUME NEW k \in ConditionKeys(m.req) PROVE f[k] = Stored(s)[k]
      <3>1. PICK v \in m.cmps : v.key = k
        BY <2>1 DEF Snapshot
      <3>2. SnapOK(v, s, rev) /\ f[k] = Seen(v) /\ Compare(v, s)
        BY <2>1, <3>1 DEF Snapshot
      <3>3. k \in Keys
        BY KeyOfRequest
      <3>4. Stored(s)[k] = ValueOf(s, k)
        BY <3>3, StoredContents
      <3>5. Seen(v) = ValueOf(s, k)
        BY <3>1, <3>2 DEF Seen, ValueOf, SnapOK, Compare
      <3>6. QED
        BY <3>2, <3>4, <3>5
    <2>3. QED
      BY <2>1, <2>2, Agreement
  <1>3. QED
    BY <1>1, <1>2

(* What StartTransaction and the Else branch of CompleteTransaction read.  *)
LEMMA SnapshotTaken ==
    ASSUME NEW s, NEW rev, StoreOK(s, rev), NEW r, GoodReq(r), r.kind \in Transactions,
           NEW values \in checkTxnResponse(s, appendKeyPrefix(r))
    PROVE  /\ Snapshot(r, Range(values), ConditionValues(r, values), s, rev)
           /\ \A v \in Range(values) : Compare(v, s)
           /\ Accepts(r, ConditionValues(r, values)) <=> Accepts(r, Stored(s))
  <1> DEFINE f == ConditionValues(r, values)
  <1>1. /\ Range(values) = {KeyState(s, k) : k \in ConditionKeys(r)}
        /\ \A k \in ConditionKeys(r) : f[k] = ValueOf(s, k)
    BY ReadGives DEF StoreOK
  <1>2. DOMAIN f = ConditionKeys(r) /\ f = [k \in ConditionKeys(r) |-> f[k]]
    BY ConditionSequence DEF ConditionValues
  <1> HIDE DEF f
  <1>3. ConditionKeys(r) \subseteq Keys
    BY KeyOfRequest
  <1>4. \A k \in Keys : /\ Stored(s)[k] = ValueOf(s, k) /\ Stored(s)[k] \in Contents
                        /\ s[k].mod \in Nat /\ s[k].value \in Nat /\ s[k].mod <= rev
    BY StoredContents DEF StoreOK
  <1>5. f \in [ConditionKeys(r) -> Contents]
    BY <1>1, <1>2, <1>3, <1>4
  <1>6. ASSUME NEW k \in ConditionKeys(r)
        PROVE  /\ SnapOK(KeyState(s, k), s, rev) /\ KeyState(s, k).key = k
               /\ f[k] = Seen(KeyState(s, k)) /\ Compare(KeyState(s, k), s)
    <2>1. /\ KeyState(s, k).key = k /\ KeyState(s, k).present = (s[k].mod # 0)
          /\ KeyState(s, k).value = s[k].value /\ KeyState(s, k).version = s[k].mod
      BY DEF KeyState
    <2>2. /\ k \in Keys /\ s[k].mod \in Nat /\ s[k].mod <= rev /\ f[k] = ValueOf(s, k)
          /\ s[k].value \in Nat
      BY <1>1, <1>3, <1>4
    <2>3. QED
      BY <2>1, <2>2 DEF SnapOK, Seen, ValueOf, Compare
  <1>7. Snapshot(r, Range(values), f, s, rev) /\ \A v \in Range(values) : Compare(v, s)
    BY <1>1, <1>5, <1>6 DEF Snapshot
  <1>8. Accepts(r, f) <=> Accepts(r, Stored(s))
    BY <1>1, <1>3, <1>4, Agreement
  <1>9. QED
    BY <1>7, <1>8 DEF f

(* A request that is carried out leaves every client in order: those whose *)
(* keys it writes, or whose update it makes impossible, have a reason.     *)
LEMMA CarriedOut ==
    ASSUME EtcdInv, NEW r, GoodReq(r), CarryOut(Writes(r, Stored(store)))
    PROVE  /\ StoreOK(store', revision')
           /\ Stored(store') = Overwrite(Stored(store), Writes(r, Stored(store)))
           /\ DOMAIN reasons' = Clients
           /\ \A d \in Clients : ClientOK(call[d], pc[d], txn[d], sent[d], reasons'[d],
                                          store', revision', calls)
           /\ \A m : TxnMsg(m, store, revision) => TxnMsg(m, store', revision')
  <1> DEFINE w == Writes(r, Stored(store))
  <1>0. /\ StoreOK(store, revision) /\ ShapeInv /\ ClientsInv /\ calls \in Nat
    BY StorageAssumption DEF EtcdInv, ShapeInv
  <1>1. /\ store' = Put(store, w, revision + 1)
        /\ revision' = IF w = <<>> THEN revision ELSE revision + 1
        /\ reasons' = Reasons(reasons, call, Stored(store'), DOMAIN w)
    BY DEF CarryOut
  <1>2. /\ StoreOK(store', revision') /\ Stored(store') = Overwrite(Stored(store), w)
        /\ \A v : SnapOK(v, store, revision) => SnapOK(v, store', revision')
        /\ \A v : (v.key \in Keys /\ v.key \notin DOMAIN w)
                    => (Compare(v, store') <=> Compare(v, store))
    BY <1>0, <1>1, StoreAfter
  <1> HIDE DEF w
  <1>3. ASSUME NEW d \in Clients, call[d].status = "pending"
        PROVE  /\ reasons[d] \subseteq reasons'[d]
               /\ Accepts(call[d].req, Stored(store')) \/ "refused" \in reasons'[d]
               /\ \/ "disturbed" \in reasons'[d]
                  \/ \A v : (v.key \in ConditionKeys(call[d].req) /\ Compare(v, store))
                              => Compare(v, store')
    <2>1. reasons'[d] =
            reasons[d]
              \cup ((IF Accepts(call[d].req, Stored(store')) THEN {} ELSE {"refused"})
                    \cup (IF ConditionKeys(call[d].req) \cap DOMAIN w = {}
                          THEN {} ELSE {"disturbed"}))
      BY <1>0, <1>1, <1>3 DEF Reasons, ShapeInv
    <2>2. ConditionKeys(call[d].req) \subseteq Keys
      <3>1. GoodReq(call[d].req)
        BY <1>0, <1>3 DEF ClientsInv, ClientOK
      <3>2. QED
        BY <3>1, KeyOfRequest
    <2>3. QED
      BY <1>2, <2>1, <2>2
  <1>4. DOMAIN reasons' = Clients
    BY <1>0, <1>1 DEF Reasons, ShapeInv
  <1>5. ASSUME NEW d \in Clients
        PROVE  ClientOK(call[d], pc[d], txn[d], sent[d], reasons'[d], store', revision', calls)
    <2>1. ClientOK(call[d], pc[d], txn[d], sent[d], reasons[d], store, revision, calls)
      BY <1>0 DEF ClientsInv
    <2>2. QED
      BY <1>0, <1>2, <1>3, <2>1, ClientKeeps
  <1>6. QED
    BY <1>2, <1>4, <1>5, SnapshotsKeep DEF w

-----------------------------------------------------------------------------
(***************************************************************************)
(* The vocabulary of the abstract storage is the same.                     *)
(***************************************************************************)
LEMMA SameSum == ASSUME NEW f PROVE Atomic!SumFunction(f) = SumFunction(f)
  BY DEF SumFunction, Atomic!SumFunction, SumFunctionOnSet, Atomic!SumFunctionOnSet,
     FoldFunctionOnSet, Atomic!FoldFunctionOnSet, MapThenFoldSet, Atomic!MapThenFoldSet

LEMMA SameWords ==
    /\ \A r, f : Atomic!Accepts(r, f) = Accepts(r, f)
    /\ \A r, f : Atomic!Writes(r, f) = Writes(r, f)
    /\ \A r, f : Atomic!Result(r, f) = Result(r, f)
    /\ \A f, w : Atomic!Overwrite(f, w) = Overwrite(f, w)
    /\ \A p, cl, new, w : Atomic!Reasons(p, cl, new, w) = Reasons(p, cl, new, w)
    /\ \A n : Atomic!Requests(n) = Requests(n)
    /\ \A what : Atomic!Says(what) = Says(what)
    /\ \A r : Atomic!TriedOnce(r) = TriedOnce(r)
  <1>1. ASSUME NEW r, NEW f PROVE Atomic!Accepts(r, f) = Accepts(r, f)
    BY SameSum DEF Accepts, Atomic!Accepts, Number, Atomic!Number, ConditionKeys,
       Atomic!ConditionKeys, KeysOf, Atomic!KeysOf
  <1>2. ASSUME NEW r, NEW f PROVE Atomic!Writes(r, f) = Writes(r, f)
    BY DEF Writes, Atomic!Writes, Only, Atomic!Only, Number, Atomic!Number
  <1>3. ASSUME NEW r, NEW f PROVE Atomic!Result(r, f) = Result(r, f)
    BY DEF Result, Atomic!Result, Gives, Atomic!Gives, Says, Atomic!Says, Restrict,
       Atomic!Restrict, ConditionKeys, Atomic!ConditionKeys, KeysOf, Atomic!KeysOf
  <1>4. ASSUME NEW f, NEW w PROVE Atomic!Overwrite(f, w) = Overwrite(f, w)
    BY DEF Overwrite, Atomic!Overwrite
  <1>5. ASSUME NEW p, NEW cl, NEW new, NEW w
        PROVE  Atomic!Reasons(p, cl, new, w) = Reasons(p, cl, new, w)
    BY <1>1 DEF Reasons, Atomic!Reasons, ConditionKeys, Atomic!ConditionKeys, KeysOf,
       Atomic!KeysOf
  <1>6. ASSUME NEW n PROVE Atomic!Requests(n) = Requests(n)
    BY DEF Requests, Atomic!Requests
  <1>7. ASSUME NEW what PROVE Atomic!Says(what) = Says(what)
    BY DEF Says, Atomic!Says
  <1>8. ASSUME NEW r PROVE Atomic!TriedOnce(r) = TriedOnce(r)
    BY DEF TriedOnce, Atomic!TriedOnce
  <1>9. QED
    BY <1>1, <1>2, <1>3, <1>4, <1>5, <1>6, <1>7, <1>8

-----------------------------------------------------------------------------
(***************************************************************************)
(* The steps.  Each keeps the invariant and is a step of the abstract      *)
(* storage, or none.                                                       *)
(***************************************************************************)

LateRequests == {m.req : m \in late}

AbstractVars == <<Stored(store), call, LateRequests, reasons>>

AbstractStep == Atomic!AtomicNext \/ UNCHANGED AbstractVars

(* What every state gives about a client.                                  *)
LEMMA ClientFacts ==
    ASSUME EtcdInv, NEW c \in Clients
    PROVE  /\ ClientOK(call[c], pc[c], txn[c], sent[c], reasons[c], store, revision, calls)
           /\ StoreOK(store, revision) /\ pc[c] \in Places /\ calls \in Nat
           /\ DOMAIN call = Clients /\ DOMAIN reasons = Clients /\ DOMAIN pc = Clients
           /\ DOMAIN txn = Clients /\ DOMAIN sent = Clients
           /\ DOMAIN call[c] = {"req", "status", "answer"}
  BY StorageAssumption DEF EtcdInv, ClientsInv, ShapeInv, ClientOK

(* A step of one client, or of etcd for it, that begins no call.           *)
LEMMA ClientMoves ==
    ASSUME EtcdInv, NEW c \in Clients,
           StoreOK(store', revision'), UNCHANGED calls, late' = late,
           \A m : TxnMsg(m, store, revision) => TxnMsg(m, store', revision'),
           DOMAIN call' = Clients, DOMAIN reasons' = Clients, pc' \in [Clients -> Places],
           DOMAIN txn' = Clients, DOMAIN sent' = Clients,
           \A d \in Clients \ {c} :
             /\ call'[d] = call[d] /\ pc'[d] = pc[d] /\ txn'[d] = txn[d] /\ sent'[d] = sent[d]
             /\ ClientOK(call[d], pc[d], txn[d], sent[d], reasons'[d], store', revision', calls),
           ClientOK(call'[c], pc'[c], txn'[c], sent'[c], reasons'[c], store', revision', calls),
           pc'[c] # "idle" => pc[c] # "idle" /\ call'[c].req = call[c].req
    PROVE  EtcdInv'
  <1>1. ShapeInv'
    BY DEF EtcdInv, ShapeInv
  <1>2. ClientsInv'
    <2>1. ASSUME NEW d \in Clients
          PROVE  ClientOK(call'[d], pc'[d], txn'[d], sent'[d], reasons'[d], store', revision',
                          calls')
      BY <2>1
    <2>2. QED
      BY <2>1 DEF ClientsInv
  <1>3. LateInv'
    BY DEF EtcdInv, LateInv
  <1>4. IdsInv'
    <2>1. \A d \in Clients : pc'[d] # "idle" => pc[d] # "idle" /\ call'[d].req = call[d].req
      OBVIOUS
    <2>2. IdsInv
      BY DEF EtcdInv
    <2>3. QED
      BY <2>1, <2>2 DEF IdsInv
  <1>5. QED
    BY <1>1, <1>2, <1>3, <1>4 DEF EtcdInv

(* A method of the storage is called.                                      *)
LEMMA CallStorageStep ==
    ASSUME EtcdInv, NEW c \in Clients, NEW r \in Requests(calls), CallStorage(c, r)
    PROVE  EtcdInv' /\ AbstractStep
  <1> DEFINE cl == [req |-> r, status |-> "pending", answer |-> Says("none")]
             why == IF Accepts(r, Stored(store)) THEN {} ELSE {"refused"}
             place == IF r.kind \in {"get", "getall", "put", "delete"}
                      THEN "direct" ELSE "start"
  <1>0. /\ pc[c] = "idle" /\ calls < MaxCalls /\ call' = [call EXCEPT ![c] = cl]
        /\ reasons' = [reasons EXCEPT ![c] = why] /\ pc' = [pc EXCEPT ![c] = place]
        /\ calls' = calls + 1 /\ UNCHANGED <<late, store, revision, txn, sent>>
    BY DEF CallStorage
  <1>1. /\ ClientOK(call[c], pc[c], txn[c], sent[c], reasons[c], store, revision, calls)
        /\ StoreOK(store, revision) /\ calls \in Nat
        /\ DOMAIN call = Clients /\ DOMAIN reasons = Clients /\ DOMAIN pc = Clients
        /\ DOMAIN txn = Clients /\ DOMAIN sent = Clients
    BY ClientFacts
  <1>2. GoodReq(r) /\ r.id = calls
    BY <1>1, RequestFields
  <1>3. /\ cl.req = r /\ cl.status = "pending" /\ DOMAIN cl = {"req", "status", "answer"}
        /\ place \in {"direct", "start"}
        /\ place = "direct" => r.kind \in DirectKinds
        /\ place = "start" => r.kind \in Transactions
        /\ Accepts(r, Stored(store)) \/ "refused" \in why
    BY <1>2 DEF GoodReq, DirectKinds, Transactions
  <1> HIDE DEF cl, why, place
  <1>4. /\ call'[c] = cl /\ pc'[c] = place /\ reasons'[c] = why
        /\ \A d \in Clients \ {c} :
             call'[d] = call[d] /\ pc'[d] = pc[d] /\ reasons'[d] = reasons[d]
        /\ DOMAIN call' = Clients /\ DOMAIN reasons' = Clients /\ pc' \in [Clients -> Places]
    <2>1. pc \in [Clients -> Places] /\ place \in Places
      BY <1>3 DEF EtcdInv, ShapeInv, Places
    <2>2. QED
      BY <1>0, <1>1, <2>1
  <1>5. ClientOK(cl, place, txn[c], sent[c], why, store, revision, calls + 1)
    <2>1. sent[c] = NoRequest
      BY <1>0, <1>1 DEF ClientOK
    <2>2. r.id < calls + 1
      BY <1>1, <1>2
    <2>3. QED
      BY <1>2, <1>3, <2>1, <2>2 DEF ClientOK
  <1>6. EtcdInv'
    <2>1. ShapeInv'
      <3>1. calls + 1 \in 0..MaxCalls
        BY <1>0, <1>1, StorageAssumption
      <3>2. QED
        BY <1>0, <1>1, <1>4, <3>1 DEF ShapeInv
    <2>2. ClientsInv'
      <3>1. ASSUME NEW d \in Clients \ {c}
            PROVE  ClientOK(call[d], pc[d], txn[d], sent[d], reasons[d], store, revision,
                            calls + 1)
        <4>1. ClientOK(call[d], pc[d], txn[d], sent[d], reasons[d], store, revision, calls)
          BY DEF EtcdInv, ClientsInv
        <4>2. /\ calls + 1 \in Nat /\ calls <= calls + 1
              /\ call[d].status = "pending" => Accepts(call[d].req, Stored(store))
                                                 \/ "refused" \in reasons[d]
          BY <1>1, <4>1 DEF ClientOK
        <4>3. QED
          BY <1>1, <4>1, <4>2, ClientKeeps
      <3>2. QED
        BY <1>0, <1>4, <1>5, <3>1 DEF ClientsInv
    <2>3. LateInv'
      <3>1. \A m \in late : m.req.id < calls + 1
        BY <1>1 DEF EtcdInv, LateInv, GoodReq
      <3>2. QED
        BY <1>0, <3>1 DEF EtcdInv, LateInv
    <2>4. IdsInv'
      <3>1. ASSUME NEW d \in Clients \ {c}, pc[d] # "idle" PROVE call[d].req.id # r.id
        <4>1. call[d].req.id < calls /\ call[d].req.id \in Nat
          BY <3>1 DEF EtcdInv, ClientsInv, ClientOK, GoodReq
        <4>2. QED
          BY <1>1, <1>2, <4>1
      <3>2. ASSUME NEW m \in late PROVE m.req.id # r.id
        <4>1. m.req.id < calls /\ m.req.id \in Nat
          BY DEF EtcdInv, LateInv, GoodReq
        <4>2. QED
          BY <1>1, <1>2, <4>1
      <3>3. IdsInv
        BY DEF EtcdInv
      <3>4. \A d \in Clients : call'[d].req = IF d = c THEN r ELSE call[d].req
        BY <1>3, <1>4
      <3>5. \A d \in Clients \ {c} : pc'[d] = pc[d]
        BY <1>4
      <3>6. \A d, e \in Clients : (d # e /\ pc'[d] # "idle" /\ pc'[e] # "idle")
                                     => call'[d].req.id # call'[e].req.id
        BY <3>1, <3>3, <3>4, <3>5 DEF IdsInv
      <3>7. \A m \in late, d \in Clients : pc'[d] # "idle" => m.req.id # call'[d].req.id
        BY <3>2, <3>3, <3>4, <3>5 DEF IdsInv
      <3>8. QED
        BY <1>0, <3>3, <3>6, <3>7 DEF IdsInv
    <2>5. QED
      BY <1>0, <1>1, <2>1, <2>2, <2>3, <2>4 DEF EtcdInv
  <1>7. AbstractStep
    <2>1. call[c].status = "answered"
      BY <1>0, <1>1 DEF ClientOK
    <2>2. calls \in 0..MaxCalls /\ r \in Atomic!Requests(calls)
      BY SameWords DEF EtcdInv, ShapeInv
    <2>3. /\ call' = [call EXCEPT ![c] = [req |-> r, status |-> "pending",
                                          answer |-> Atomic!Says("none")]]
          /\ reasons' = [reasons EXCEPT ![c] = IF Atomic!Accepts(r, Stored(store)) THEN {}
                                               ELSE {"refused"}]
      BY <1>0, SameWords DEF cl, why
    <2>4. UNCHANGED <<Stored(store), LateRequests>>
      BY <1>0 DEF LateRequests
    <2>5. Atomic!Call(c, r)
      BY <2>1, <2>3, <2>4 DEF Atomic!Call, LateRequests
    <2>6. QED
      BY <2>2, <2>5 DEF AbstractStep, Atomic!AtomicNext
  <1>8. QED
    BY <1>6, <1>7

(* How a call ends.                                                        *)
LEMMA CallEnds ==
    ASSUME NEW cl, DOMAIN cl = {"req", "status", "answer"}, NEW st, NEW a, NEW x,
           x = [cl EXCEPT !.status = st, !.answer = a] \/ x = [cl EXCEPT !.status = st]
    PROVE  x.status = st /\ x.req = cl.req /\ DOMAIN x = {"req", "status", "answer"}
  <1>1. CASE x = [cl EXCEPT !.status = st, !.answer = a]
    BY <1>1
  <1>2. CASE x = [cl EXCEPT !.status = st]
    BY <1>2
  <1>3. QED
    BY <1>1, <1>2

LEMMA EndedOK ==
    ASSUME NEW cl, NEW p, NEW t, NEW m, NEW why, NEW s, NEW rev, NEW n,
           ClientOK(cl, p, t, m, why, s, rev, n), p # "idle",
           NEW x, DOMAIN x = {"req", "status", "answer"}, x.req = cl.req,
           NEW q, \/ q = "idle" /\ x.status = "answered"
                  \/ q = "answer" /\ x.status = "decided",
           NEW t2, NEW why2, NEW s2, NEW rev2
    PROVE  ClientOK(x, q, t2, NoRequest, why2, s2, rev2, n)
  BY DEF ClientOK

(* The answer arrives.                                                     *)
LEMMA ReturnStep ==
    ASSUME EtcdInv, NEW c \in Clients, Return(c)
    PROVE  EtcdInv' /\ AbstractStep
  <1>0. /\ pc[c] = "answer" /\ pc' = [pc EXCEPT ![c] = "idle"]
        /\ call' = [call EXCEPT ![c].status = "answered"]
        /\ UNCHANGED <<reasons, store, revision, txn, sent, late, calls>>
    BY DEF Return, Untouched
  <1>1. /\ ClientOK(call[c], pc[c], txn[c], sent[c], reasons[c], store, revision, calls)
        /\ StoreOK(store, revision) /\ pc[c] \in Places /\ calls \in Nat
        /\ DOMAIN call = Clients /\ DOMAIN reasons = Clients /\ DOMAIN pc = Clients
        /\ DOMAIN txn = Clients /\ DOMAIN sent = Clients
        /\ DOMAIN call[c] = {"req", "status", "answer"}
    BY ClientFacts
  <1>2. /\ call'[c] = [call[c] EXCEPT !.status = "answered"] /\ pc'[c] = "idle"
        /\ \A d \in Clients \ {c} : call'[d] = call[d] /\ pc'[d] = pc[d]
        /\ DOMAIN call' = Clients /\ pc' \in [Clients -> Places]
    <2>1. pc \in [Clients -> Places] /\ "idle" \in Places
      BY DEF EtcdInv, ShapeInv, Places
    <2>2. QED
      BY <1>0, <1>1, <2>1
  <1>3. /\ call'[c].status = "answered" /\ call'[c].req = call[c].req
        /\ DOMAIN call'[c] = {"req", "status", "answer"}
    BY <1>1, <1>2, CallEnds
  <1>4. EtcdInv'
    <2>1. sent[c] = NoRequest
      BY <1>0, <1>1 DEF ClientOK
    <2>2. ClientOK(call'[c], "idle", txn[c], NoRequest, reasons[c], store, revision, calls)
      BY <1>0, <1>1, <1>3, EndedOK
    <2>3. \A d \in Clients : ClientOK(call[d], pc[d], txn[d], sent[d], reasons[d], store,
                                      revision, calls)
      BY DEF EtcdInv, ClientsInv
    <2>4. QED
      BY <1>0, <1>1, <1>2, <2>1, <2>2, <2>3, ClientMoves
  <1>5. AbstractStep
    <2>1. call[c].status = "decided"
      BY <1>0, <1>1 DEF ClientOK
    <2>2. Atomic!Answer(c)
      BY <1>0, <2>1 DEF Atomic!Answer
    <2>3. QED
      BY <2>2 DEF AbstractStep, Atomic!AtomicNext
  <1>6. QED
    BY <1>4, <1>5

(* The update function refuses, or the request is sent.                    *)
LEMMA UpdateStep ==
    ASSUME EtcdInv, NEW c \in Clients, UpdateOrRefuse(c)
    PROVE  EtcdInv' /\ AbstractStep
  <1> DEFINE f == ConditionValues(call[c].req, txn[c])
  <1>0. /\ pc[c] = "update" /\ txn' = [txn EXCEPT ![c] = <<>>]
        /\ UNCHANGED <<reasons, store, revision, late, calls>>
    BY DEF UpdateOrRefuse, Untouched
  <1>1. /\ ClientOK(call[c], pc[c], txn[c], sent[c], reasons[c], store, revision, calls)
        /\ StoreOK(store, revision) /\ pc[c] \in Places /\ calls \in Nat
        /\ DOMAIN call = Clients /\ DOMAIN reasons = Clients /\ DOMAIN pc = Clients
        /\ DOMAIN txn = Clients /\ DOMAIN sent = Clients
        /\ DOMAIN call[c] = {"req", "status", "answer"}
    BY ClientFacts
  <1>2. /\ Snapshot(call[c].req, Range(txn[c]), f, store, revision)
        /\ Accepts(call[c].req, f) \/ "refused" \in reasons[c]
        /\ "disturbed" \in reasons[c] \/ \A v \in Range(txn[c]) : Compare(v, store)
        /\ call[c].status = "pending" /\ call[c].req.kind \in Transactions
        /\ GoodReq(call[c].req) /\ sent[c] = NoRequest
    BY <1>0, <1>1 DEF ClientOK
  <1>3. /\ \A d \in Clients : ClientOK(call[d], pc[d], txn[d], sent[d], reasons[d], store,
                                       revision, calls)
        /\ pc \in [Clients -> Places] /\ {"idle", "complete"} \subseteq Places
    BY DEF EtcdInv, ClientsInv, ShapeInv, Places
  <1>4. txn'[c] = <<>> /\ DOMAIN txn' = Clients /\ \A d \in Clients \ {c} : txn'[d] = txn[d]
    BY <1>0, <1>1
  <1>5. CASE Accepts(call[c].req, f)
    <2>1. /\ sent' = [sent EXCEPT ![c] = [cmps |-> Range(txn[c]),
                                          puts |-> Writes(call[c].req, f),
                                          req |-> call[c].req]]
          /\ pc' = [pc EXCEPT ![c] = "complete"] /\ UNCHANGED call
      BY <1>5 DEF UpdateOrRefuse, Update
    <2>2. /\ sent'[c] = [cmps |-> Range(txn[c]), puts |-> Writes(call[c].req, f),
                         req |-> call[c].req]
          /\ pc'[c] = "complete" /\ pc' \in [Clients -> Places] /\ DOMAIN sent' = Clients
          /\ \A d \in Clients \ {c} : sent'[d] = sent[d] /\ pc'[d] = pc[d]
      BY <1>1, <1>3, <2>1
    <2>3. /\ sent'[c].cmps = Range(txn[c]) /\ sent'[c].puts = Writes(call[c].req, f)
          /\ sent'[c].req = call[c].req
      BY <2>2
    <2> HIDE DEF f
    <2>4. TxnMsg(sent'[c], store, revision)
      <3>1. f \in [ConditionKeys(call[c].req) -> Contents]
        BY <1>2 DEF Snapshot
      <3>2. QED
        BY <1>2, <1>5, <2>3, <3>1 DEF TxnMsg
    <2>5. ClientOK(call[c], "complete", <<>>, sent'[c], reasons[c], store, revision, calls)
      BY <1>0, <1>1, <1>2, <2>3, <2>4 DEF ClientOK
    <2>6. EtcdInv'
      BY <1>0, <1>1, <1>3, <1>4, <2>1, <2>2, <2>5, ClientMoves
    <2>7. UNCHANGED AbstractVars
      BY <1>0, <2>1 DEF AbstractVars, LateRequests
    <2>8. QED
      BY <2>6, <2>7 DEF AbstractStep
  <1>6. CASE ~Accepts(call[c].req, f)
    <2>1. /\ call' = [call EXCEPT ![c] = [@ EXCEPT !.status = "answered",
                                                   !.answer = Says("no")]]
          /\ pc' = [pc EXCEPT ![c] = "idle"] /\ UNCHANGED sent
      BY <1>6 DEF UpdateOrRefuse
    <2> HIDE DEF f
    <2>2. /\ call'[c] = [call[c] EXCEPT !.status = "answered", !.answer = Says("no")]
          /\ pc'[c] = "idle" /\ pc' \in [Clients -> Places] /\ DOMAIN call' = Clients
          /\ \A d \in Clients \ {c} : call'[d] = call[d] /\ pc'[d] = pc[d]
      BY <1>1, <1>3, <2>1
    <2>3. /\ call'[c].status = "answered" /\ call'[c].req = call[c].req
          /\ DOMAIN call'[c] = {"req", "status", "answer"}
      BY <1>1, <2>2, CallEnds
    <2>4. ClientOK(call'[c], "idle", <<>>, NoRequest, reasons[c], store, revision, calls)
      BY <1>0, <1>1, <2>3, EndedOK
    <2>5. EtcdInv'
      BY <1>0, <1>1, <1>2, <1>3, <1>4, <2>1, <2>2, <2>4, ClientMoves
    <2>6. Atomic!Refuse(c)
      <3>1. "refused" \in reasons[c] /\ call[c].status = "pending"
        BY <1>2, <1>6
      <3>2. call' = [call EXCEPT ![c] = [@ EXCEPT !.status = "answered",
                                                  !.answer = Atomic!Says("no")]]
        BY <2>1, SameWords
      <3>3. QED
        BY <1>0, <3>1, <3>2 DEF Atomic!Refuse
    <2>7. QED
      BY <2>5, <2>6 DEF AbstractStep, Atomic!AtomicNext
  <1>7. QED
    BY <1>5, <1>6

(* A request times out: etcd may still get it.                             *)
LEMMA TimeoutStep ==
    ASSUME EtcdInv, NEW c \in Clients, Timeout(c)
    PROVE  EtcdInv' /\ AbstractStep
  <1>0. /\ pc[c] \in {"direct", "start", "complete", "answer"}
        /\ late' = late \cup InFlight(c) /\ pc' = [pc EXCEPT ![c] = "idle"]
        /\ call' = [call EXCEPT ![c] = [@ EXCEPT !.status = "answered",
                                                 !.answer = Says("error")]]
        /\ txn' = [txn EXCEPT ![c] = <<>>] /\ sent' = [sent EXCEPT ![c] = NoRequest]
        /\ UNCHANGED <<reasons, store, revision, calls>>
    BY DEF Timeout
  <1>1. /\ ClientOK(call[c], pc[c], txn[c], sent[c], reasons[c], store, revision, calls)
        /\ StoreOK(store, revision) /\ pc[c] \in Places /\ calls \in Nat
        /\ DOMAIN call = Clients /\ DOMAIN reasons = Clients /\ DOMAIN pc = Clients
        /\ DOMAIN txn = Clients /\ DOMAIN sent = Clients
        /\ DOMAIN call[c] = {"req", "status", "answer"}
    BY ClientFacts
  <1>2. /\ GoodReq(call[c].req) /\ call[c].req.id < calls
    BY <1>0, <1>1 DEF ClientOK
  <1>3. /\ call'[c] = [call[c] EXCEPT !.status = "answered", !.answer = Says("error")]
        /\ pc'[c] = "idle" /\ txn'[c] = <<>> /\ sent'[c] = NoRequest
        /\ \A d \in Clients \ {c} : /\ call'[d] = call[d] /\ pc'[d] = pc[d]
                                    /\ txn'[d] = txn[d] /\ sent'[d] = sent[d]
        /\ DOMAIN call' = Clients /\ pc' \in [Clients -> Places]
        /\ DOMAIN txn' = Clients /\ DOMAIN sent' = Clients
    <2>1. pc \in [Clients -> Places] /\ "idle" \in Places
      BY DEF EtcdInv, ShapeInv, Places
    <2>2. QED
      BY <1>0, <1>1, <2>1
  <1>4. /\ call'[c].status = "answered" /\ call'[c].req = call[c].req
        /\ DOMAIN call'[c] = {"req", "status", "answer"}
    BY <1>1, <1>3, CallEnds
  <1>5. \/ InFlight(c) = {}
        \/ /\ call[c].status = "pending"
           /\ \E m : /\ InFlight(c) = {m} /\ m.req = call[c].req
                     /\ DirectMsg(m) \/ TxnMsg(m, store, revision)
    <2>1. CASE pc[c] = "complete"
      <3>1. /\ InFlight(c) = {sent[c]} /\ sent[c].req = call[c].req
            /\ TxnMsg(sent[c], store, revision) /\ call[c].status = "pending"
        BY <1>1, <2>1 DEF InFlight, ClientOK
      <3>2. QED
        BY <3>1
    <2>2. CASE pc[c] = "direct" /\ call[c].req.kind \in {"put", "delete"}
      <3> DEFINE m == [cmps |-> {}, puts |-> Writes(call[c].req, <<>>), req |-> call[c].req]
      <3>1. InFlight(c) = {m} /\ call[c].status = "pending"
        BY <1>1, <2>2 DEF InFlight, ClientOK
      <3>2. m.req = call[c].req /\ DirectMsg(m)
        BY <2>2 DEF DirectMsg
      <3>3. QED
        BY <3>1, <3>2
    <2>3. CASE ~(pc[c] = "complete") /\ ~(pc[c] = "direct" /\ call[c].req.kind \in {"put", "delete"})
      BY <2>3 DEF InFlight
    <2>4. QED
      BY <2>1, <2>2, <2>3
  <1>6. EtcdInv'
    <2>1. ShapeInv'
      BY <1>0, <1>1, <1>3 DEF EtcdInv, ShapeInv
    <2>2. ClientsInv'
      <3>1. ClientOK(call'[c], "idle", <<>>, NoRequest, reasons[c], store, revision, calls)
        BY <1>0, <1>1, <1>4, EndedOK
      <3>2. QED
        BY <1>0, <1>3, <3>1 DEF EtcdInv, ClientsInv
    <2>3. \A m \in late' \ late : /\ m.req = call[c].req
                                  /\ DirectMsg(m) \/ TxnMsg(m, store, revision)
                                  /\ late' \ late \subseteq {m}
      BY <1>0, <1>5
    <2>4. LateInv'
      <3>1. ASSUME NEW m \in late'
            PROVE  /\ GoodReq(m.req) /\ m.req.id < calls
                   /\ DirectMsg(m) \/ TxnMsg(m, store, revision)
        BY <1>2, <2>3 DEF EtcdInv, LateInv
      <3>2. QED
        BY <1>0, <3>1 DEF LateInv
    <2>5. IdsInv'
      <3>1. IdsInv /\ pc[c] # "idle"
        BY <1>0 DEF EtcdInv
      <3>2. \A d \in Clients : pc'[d] # "idle" => /\ d # c /\ pc[d] # "idle"
                                                  /\ call'[d] = call[d]
        BY <1>3
      <3>3. \A m \in late', d \in Clients : pc'[d] # "idle" => m.req.id # call'[d].req.id
        BY <2>3, <3>1, <3>2 DEF IdsInv
      <3>4. ASSUME NEW m \in late', NEW l \in late', m.req.id = l.req.id PROVE m = l
        <4>1. CASE m \in late /\ l \in late
          BY <3>1, <3>4, <4>1 DEF IdsInv
        <4>2. CASE m \notin late /\ l \notin late
          BY <2>3, <4>2
        <4>3. CASE (m \in late /\ l \notin late) \/ (m \notin late /\ l \in late)
          BY <2>3, <3>1, <3>4, <4>3 DEF IdsInv
        <4>4. QED
          BY <4>1, <4>2, <4>3
      <3>5. QED
        BY <3>1, <3>2, <3>3, <3>4 DEF IdsInv
    <2>6. QED
      BY <1>0, <1>1, <2>1, <2>2, <2>4, <2>5 DEF EtcdInv
  <1>7. AbstractStep
    <2>1. call[c].status \in {"pending", "decided"}
      BY <1>0, <1>1 DEF ClientOK
    <2>2. \/ LateRequests' = LateRequests
          \/ call[c].status = "pending" /\ LateRequests' = LateRequests \cup {call[c].req}
      <3>1. CASE InFlight(c) = {}
        BY <1>0, <3>1 DEF LateRequests
      <3>2. CASE call[c].status = "pending" /\ \E m : InFlight(c) = {m} /\ m.req = call[c].req
        <4>1. PICK m : InFlight(c) = {m} /\ m.req = call[c].req
          BY <3>2
        <4>2. LateRequests' = LateRequests \cup {call[c].req}
          BY <1>0, <4>1 DEF LateRequests
        <4>3. QED
          BY <3>2, <4>2
      <3>3. QED
        BY <1>5, <3>1, <3>2
    <2>3. call' = [call EXCEPT ![c] = [@ EXCEPT !.status = "answered",
                                                !.answer = Atomic!Says("error")]]
      BY <1>0, SameWords
    <2>4. Atomic!Fail(c)
      BY <1>0, <2>1, <2>2, <2>3 DEF Atomic!Fail, LateRequests
    <2>5. QED
      BY <2>4 DEF AbstractStep, Atomic!AtomicNext
  <1>8. QED
    BY <1>6, <1>7

(* The request of a call is carried out at etcd: the moment at which the   *)
(* operation takes effect.                                                 *)
LEMMA EffectStep ==
    ASSUME EtcdInv, NEW c \in Clients, call[c].status = "pending",
           Accepts(call[c].req, Stored(store)), CarryOut(Writes(call[c].req, Stored(store))),
           EtcdDecides(c, Result(call[c].req, Stored(store))),
           DOMAIN sent' = Clients, sent'[c] = NoRequest,
           \A d \in Clients \ {c} : sent'[d] = sent[d], UNCHANGED <<txn, late, calls>>
    PROVE  EtcdInv' /\ AbstractStep
  <1> DEFINE r == call[c].req
             a == Result(r, Stored(store))
  <1>0. /\ pc' = [pc EXCEPT ![c] = "answer"]
        /\ call' = [call EXCEPT ![c] = [@ EXCEPT !.status = "decided", !.answer = a]]
    BY DEF EtcdDecides
  <1>1. /\ ClientOK(call[c], pc[c], txn[c], sent[c], reasons[c], store, revision, calls)
        /\ StoreOK(store, revision) /\ pc[c] \in Places /\ calls \in Nat
        /\ DOMAIN call = Clients /\ DOMAIN reasons = Clients /\ DOMAIN pc = Clients
        /\ DOMAIN txn = Clients /\ DOMAIN sent = Clients
        /\ DOMAIN call[c] = {"req", "status", "answer"}
    BY ClientFacts
  <1>2. pc[c] # "idle" /\ GoodReq(r)
    BY <1>1 DEF ClientOK
  <1>3. /\ StoreOK(store', revision')
        /\ Stored(store') = Overwrite(Stored(store), Writes(r, Stored(store)))
        /\ DOMAIN reasons' = Clients
        /\ \A d \in Clients : ClientOK(call[d], pc[d], txn[d], sent[d], reasons'[d],
                                       store', revision', calls)
        /\ \A m : TxnMsg(m, store, revision) => TxnMsg(m, store', revision')
    BY <1>2, CarriedOut
  <1> HIDE DEF r, a
  <1>4. /\ call'[c] = [call[c] EXCEPT !.status = "decided", !.answer = a]
        /\ pc'[c] = "answer" /\ pc' \in [Clients -> Places] /\ DOMAIN call' = Clients
        /\ \A d \in Clients \ {c} : call'[d] = call[d] /\ pc'[d] = pc[d]
    <2>1. pc \in [Clients -> Places] /\ "answer" \in Places
      BY DEF EtcdInv, ShapeInv, Places
    <2>2. QED
      BY <1>0, <1>1, <2>1
  <1>5. /\ call'[c].status = "decided" /\ call'[c].req = call[c].req
        /\ DOMAIN call'[c] = {"req", "status", "answer"}
    BY <1>1, <1>4, CallEnds
  <1>6. EtcdInv'
    <2>1. ClientOK(call'[c], "answer", txn'[c], NoRequest, reasons'[c], store', revision',
                   calls)
      BY <1>1, <1>2, <1>5, EndedOK
    <2>2. QED
      BY <1>1, <1>2, <1>3, <1>4, <1>5, <2>1, ClientMoves
  <1>7. Atomic!TakeEffect(c)
    <2>1. /\ Atomic!Accepts(r, Stored(store))
          /\ Stored(store') = Atomic!Overwrite(Stored(store), Atomic!Writes(r, Stored(store)))
      BY <1>3, SameWords DEF r
    <2>2. reasons' = Atomic!Reasons(reasons, call, Stored(store'),
                                    DOMAIN Atomic!Writes(r, Stored(store)))
      BY SameWords DEF CarryOut, r
    <2>3. call' = [call EXCEPT ![c] = [@ EXCEPT !.status = "decided",
                                                !.answer = Atomic!Result(r, Stored(store))]]
      BY <1>0, SameWords DEF a
    <2>4. QED
      BY <2>1, <2>2, <2>3 DEF Atomic!TakeEffect, r
  <1>8. QED
    BY <1>6, <1>7 DEF AbstractStep, Atomic!AtomicNext

(* Get, GetByKeyPrefix, Put and Delete at etcd.                            *)
LEMMA EtcdDirectStep ==
    ASSUME EtcdInv, NEW c \in Clients, EtcdDirect(c)
    PROVE  EtcdInv' /\ AbstractStep
  <1> DEFINE r == call[c].req
  <1>0. /\ pc[c] = "direct" /\ CarryOut(Writes(r, Stored(store))) /\ EtcdDecides(c, Read(r))
        /\ UNCHANGED <<txn, sent, late, calls>>
    BY DEF EtcdDirect, Untouched
  <1>1. /\ ClientOK(call[c], pc[c], txn[c], sent[c], reasons[c], store, revision, calls)
        /\ DOMAIN sent = Clients
    BY ClientFacts
  <1>2. /\ GoodReq(r) /\ r.kind \in DirectKinds /\ call[c].status = "pending"
        /\ sent[c] = NoRequest
    BY <1>0, <1>1 DEF ClientOK
  <1> HIDE DEF r
  <1>3. Accepts(r, Stored(store))
    BY <1>2 DEF Accepts, DirectKinds
  <1>4. Read(r) = Result(r, Stored(store))
    <2>1. GetByKeyPrefix(r.key[1]) = KeysOf(r.key[1])
      BY <1>2 DEF GetByKeyPrefix, KeysOf, Keys, GoodReq
    <2>2. QED
      BY <1>2, <2>1 DEF Read, Result, ConditionKeys, DirectKinds
  <1>5. QED
    BY <1>0, <1>1, <1>2, <1>3, <1>4, EffectStep DEF r

(* A transaction reads its condition keys, at first or again.              *)
LEMMA ReadStep ==
    ASSUME EtcdInv, NEW c \in Clients, pc[c] \in {"start", "complete"},
           NEW values \in checkTxnResponse(store, appendKeyPrefix(call[c].req)),
           txn' = [txn EXCEPT ![c] = values], pc' = [pc EXCEPT ![c] = "update"],
           DOMAIN sent' = Clients, sent'[c] = NoRequest,
           \A d \in Clients \ {c} : sent'[d] = sent[d],
           UNCHANGED <<call, reasons, store, revision, late, calls>>
    PROVE  EtcdInv' /\ AbstractStep
  <1>1. /\ ClientOK(call[c], pc[c], txn[c], sent[c], reasons[c], store, revision, calls)
        /\ StoreOK(store, revision) /\ pc[c] \in Places /\ calls \in Nat
        /\ DOMAIN call = Clients /\ DOMAIN reasons = Clients /\ DOMAIN pc = Clients
        /\ DOMAIN txn = Clients /\ DOMAIN sent = Clients
    BY ClientFacts
  <1>2. /\ GoodReq(call[c].req) /\ call[c].req.kind \in Transactions
        /\ call[c].status = "pending"
        /\ Accepts(call[c].req, Stored(store)) \/ "refused" \in reasons[c]
    BY <1>1 DEF ClientOK
  <1>3. /\ Snapshot(call[c].req, Range(values), ConditionValues(call[c].req, values), store,
                    revision)
        /\ \A v \in Range(values) : Compare(v, store)
        /\ \/ Accepts(call[c].req, ConditionValues(call[c].req, values))
           \/ "refused" \in reasons[c]
    BY <1>1, <1>2, SnapshotTaken
  <1>4. ClientOK(call[c], "update", values, NoRequest, reasons[c], store, revision, calls)
    BY <1>1, <1>2, <1>3 DEF ClientOK
  <1>5. /\ txn'[c] = values /\ pc'[c] = "update" /\ pc' \in [Clients -> Places]
        /\ DOMAIN txn' = Clients
        /\ \A d \in Clients \ {c} : txn'[d] = txn[d] /\ pc'[d] = pc[d]
    <2>1. pc \in [Clients -> Places] /\ "update" \in Places
      BY DEF EtcdInv, ShapeInv, Places
    <2>2. QED
      BY <1>1, <2>1
  <1>6. \A d \in Clients : ClientOK(call[d], pc[d], txn[d], sent[d], reasons[d], store,
                                    revision, calls)
    BY DEF EtcdInv, ClientsInv
  <1>7. EtcdInv'
    BY <1>1, <1>4, <1>5, <1>6, ClientMoves
  <1>8. UNCHANGED AbstractVars
    BY DEF AbstractVars, LateRequests
  <1>9. QED
    BY <1>7, <1>8 DEF AbstractStep

LEMMA StartTransactionStep ==
    ASSUME EtcdInv, NEW c \in Clients, StartTransaction(c)
    PROVE  EtcdInv' /\ AbstractStep
  <1>0. /\ pc[c] = "start" /\ pc' = [pc EXCEPT ![c] = "update"]
        /\ UNCHANGED <<call, reasons, store, revision, sent, late, calls>>
    BY DEF StartTransaction, Untouched
  <1>1. PICK values \in checkTxnResponse(store, appendKeyPrefix(call[c].req)) :
           txn' = [txn EXCEPT ![c] = values]
    BY DEF StartTransaction
  <1>2. DOMAIN sent = Clients /\ sent[c] = NoRequest
    BY <1>0, ClientFacts DEF ClientOK
  <1>3. QED
    BY <1>0, <1>1, <1>2, ReadStep

(* The request of a transaction at etcd: it is carried out, or refused, or *)
(* the transaction is tried again.                                         *)
LEMMA CompleteTransactionStep ==
    ASSUME EtcdInv, NEW c \in Clients, CompleteTransaction(c)
    PROVE  EtcdInv' /\ AbstractStep
  <1> DEFINE m == sent[c]
             r == call[c].req
  <1>0. /\ pc[c] = "complete" /\ sent' = [sent EXCEPT ![c] = NoRequest]
        /\ UNCHANGED <<late, calls>>
    BY DEF CompleteTransaction, Untouched
  <1>1. /\ ClientOK(call[c], pc[c], txn[c], sent[c], reasons[c], store, revision, calls)
        /\ StoreOK(store, revision) /\ pc[c] \in Places /\ calls \in Nat
        /\ DOMAIN call = Clients /\ DOMAIN reasons = Clients /\ DOMAIN pc = Clients
        /\ DOMAIN txn = Clients /\ DOMAIN sent = Clients
        /\ DOMAIN call[c] = {"req", "status", "answer"}
    BY ClientFacts
  <1>2. /\ GoodReq(r) /\ r.kind \in Transactions /\ call[c].status = "pending"
        /\ TxnMsg(m, store, revision) /\ m.req = r
        /\ "disturbed" \in reasons[c] \/ \A v \in m.cmps : Compare(v, store)
    BY <1>0, <1>1 DEF ClientOK
  <1>3. /\ DOMAIN sent' = Clients /\ sent'[c] = NoRequest
        /\ \A d \in Clients \ {c} : sent'[d] = sent[d]
    BY <1>0, <1>1
  <1>4. CASE \A v \in m.cmps : Compare(v, store)
    <2>1. CarryOut(m.puts) /\ EtcdDecides(c, Says("ok")) /\ UNCHANGED txn
      BY <1>4 DEF CompleteTransaction
    <2> HIDE DEF m, r
    <2>2. Accepts(r, Stored(store)) /\ m.puts = Writes(r, Stored(store))
      BY <1>1, <1>2, <1>4, MessageAgrees
    <2>3. Result(r, Stored(store)) = Says("ok")
      BY <1>2 DEF Result, Transactions
    <2>4. QED
      BY <1>0, <1>2, <1>3, <2>1, <2>2, <2>3, EffectStep DEF r
  <1>5. CASE ~(\A v \in m.cmps : Compare(v, store)) /\ TriedOnce(r)
    <2>1. EtcdDecides(c, Says("no")) /\ UNCHANGED <<txn, store, revision, reasons>>
      BY <1>5 DEF CompleteTransaction
    <2>2. /\ pc' = [pc EXCEPT ![c] = "answer"]
          /\ call' = [call EXCEPT ![c] = [@ EXCEPT !.status = "decided",
                                                   !.answer = Says("no")]]
      BY <2>1 DEF EtcdDecides
    <2> HIDE DEF m
    <2>3. /\ call'[c] = [call[c] EXCEPT !.status = "decided", !.answer = Says("no")]
          /\ pc'[c] = "answer" /\ pc' \in [Clients -> Places] /\ DOMAIN call' = Clients
          /\ \A d \in Clients \ {c} : call'[d] = call[d] /\ pc'[d] = pc[d]
      <3>1. pc \in [Clients -> Places] /\ "answer" \in Places
        BY DEF EtcdInv, ShapeInv, Places
      <3>2. QED
        BY <1>1, <2>2, <3>1
    <2>4. /\ call'[c].status = "decided" /\ call'[c].req = call[c].req
          /\ DOMAIN call'[c] = {"req", "status", "answer"}
      BY <1>1, <2>3, CallEnds
    <2>5. ClientOK(call'[c], "answer", txn[c], NoRequest, reasons[c], store, revision, calls)
      BY <1>0, <1>1, <2>4, EndedOK
    <2>6. \A d \in Clients : ClientOK(call[d], pc[d], txn[d], sent[d], reasons[d], store,
                                      revision, calls)
      BY DEF EtcdInv, ClientsInv
    <2>7. EtcdInv'
      BY <1>0, <1>1, <1>3, <2>1, <2>3, <2>4, <2>5, <2>6, ClientMoves
    <2>8. Atomic!Refuse(c)
      <3>1. "refused" \in reasons[c] \/ (r.kind = "cas" /\ "disturbed" \in reasons[c])
        <4>1. CASE r.kind = "cas"
          BY <1>2, <1>5, <4>1
        <4>2. CASE r.kind = "putIfAbsent"
          <5>1. PICK v \in m.cmps : ~Compare(v, store)
            BY <1>5
          <5>2. /\ v.key = r.key /\ v.key \in Keys /\ Seen(v) = Absent
                /\ v.present => v.value \in Nat
            BY <1>2, <4>2, <5>1 DEF TxnMsg, Snapshot, SnapOK, Accepts, ConditionKeys
          <5>3. ~v.present
            BY <5>2, StorageAssumption DEF Seen
          <5>4. store[r.key].mod # 0 /\ store[r.key].value \in Nat
            BY <1>1, <5>1, <5>2, <5>3 DEF Compare, StoreOK, Version
          <5>5. Stored(store)[r.key] # Absent
            BY <5>2, <5>4, StorageAssumption DEF Stored, ValueOf
          <5>6. ~Accepts(r, Stored(store))
            BY <4>2, <5>5 DEF Accepts
          <5>7. QED
            BY <1>1, <1>2, <5>6 DEF ClientOK
        <4>3. QED
          BY <1>5, <4>1, <4>2 DEF TriedOnce
      <3>2. call' = [call EXCEPT ![c] = [@ EXCEPT !.status = "decided",
                                                  !.answer = Atomic!Says("no")]]
        BY <2>2, SameWords
      <3>3. QED
        BY <1>0, <1>2, <2>1, <3>1, <3>2 DEF Atomic!Refuse
    <2>9. QED
      BY <2>7, <2>8 DEF AbstractStep, Atomic!AtomicNext
  <1>6. CASE ~(\A v \in m.cmps : Compare(v, store)) /\ ~TriedOnce(r)
    <2>1. /\ \E values \in Latest(c) : txn' = [txn EXCEPT ![c] = values]
          /\ pc' = [pc EXCEPT ![c] = "update"]
          /\ UNCHANGED <<call, store, revision, reasons>>
      BY <1>6 DEF CompleteTransaction
    <2>2. PICK values \in checkTxnResponse(store, appendKeyPrefix(call[c].req)) :
             txn' = [txn EXCEPT ![c] = values]
      BY <2>1 DEF Latest
    <2>3. QED
      BY <1>0, <1>3, <2>1, <2>2, ReadStep
  <1>7. QED
    BY <1>4, <1>5, <1>6

(* A request whose caller has given up reaches etcd, or is lost.           *)
LEMMA LateRequestStep ==
    ASSUME EtcdInv, NEW m \in late, LateRequest(m)
    PROVE  EtcdInv' /\ AbstractStep
  <1>0. late' = late \ {m} /\ UNCHANGED <<call, pc, txn, sent, calls>>
    BY DEF LateRequest
  <1>1. /\ GoodReq(m.req)
        /\ DirectMsg(m) \/ TxnMsg(m, store, revision)
        /\ StoreOK(store, revision) /\ IdsInv /\ ShapeInv
    BY DEF EtcdInv, LateInv
  <1>2. LateRequests' = LateRequests \ {m.req} /\ m.req \in LateRequests
    <2>1. \A l \in late : l.req = m.req => l = m
      BY <1>1 DEF IdsInv
    <2>2. QED
      BY <1>0, <2>1 DEF LateRequests
  <1>3. SUFFICES /\ StoreOK(store', revision') /\ DOMAIN reasons' = Clients
                 /\ \A d \in Clients : ClientOK(call[d], pc[d], txn[d], sent[d], reasons'[d],
                                                store', revision', calls)
                 /\ \A l : TxnMsg(l, store, revision) => TxnMsg(l, store', revision')
                 /\ \/ /\ Accepts(m.req, Stored(store))
                       /\ Stored(store') = Overwrite(Stored(store),
                                                     Writes(m.req, Stored(store)))
                       /\ reasons' = Reasons(reasons, call, Stored(store'),
                                             DOMAIN Writes(m.req, Stored(store)))
                    \/ UNCHANGED <<Stored(store), reasons>>
    <2>1. ShapeInv' /\ ClientsInv' /\ IdsInv'
      <3>1. ShapeInv'
        BY <1>0, <1>1, <1>3 DEF ShapeInv
      <3>2. ClientsInv'
        BY <1>0, <1>3 DEF ClientsInv
      <3>3. IdsInv'
        BY <1>0, <1>1 DEF IdsInv
      <3>4. QED
        BY <3>1, <3>2, <3>3
    <2>2. LateInv'
      BY <1>0, <1>3 DEF EtcdInv, LateInv
    <2>3. EtcdInv'
      BY <1>3, <2>1, <2>2 DEF EtcdInv
    <2>4. Atomic!LateEffect(m.req)
      <3>1. \/ /\ Atomic!Accepts(m.req, Stored(store))
               /\ Stored(store') = Atomic!Overwrite(Stored(store),
                                                    Atomic!Writes(m.req, Stored(store)))
               /\ reasons' = Atomic!Reasons(reasons, call, Stored(store'),
                                            DOMAIN Atomic!Writes(m.req, Stored(store)))
            \/ UNCHANGED <<Stored(store), reasons>>
        BY <1>3, SameWords
      <3>2. QED
        BY <1>0, <1>2, <3>1 DEF Atomic!LateEffect, LateRequests
    <2>5. Atomic!AtomicNext
      BY <1>2, <2>4 DEF Atomic!AtomicNext, LateRequests
    <2>6. QED
      BY <2>3, <2>5 DEF AbstractStep
  <1>4. CASE (\A v \in m.cmps : Compare(v, store)) /\ CarryOut(m.puts)
    <2>1. Accepts(m.req, Stored(store)) /\ m.puts = Writes(m.req, Stored(store))
      BY <1>1, <1>4, MessageAgrees
    <2>2. CarryOut(Writes(m.req, Stored(store)))
      BY <1>4, <2>1
    <2>3. reasons' = Reasons(reasons, call, Stored(store'),
                             DOMAIN Writes(m.req, Stored(store)))
      BY <2>2 DEF CarryOut
    <2>4. QED
      BY <1>1, <2>1, <2>2, <2>3, CarriedOut
  <1>5. CASE UNCHANGED <<reasons, store, revision>>
    BY <1>1, <1>5 DEF EtcdInv, ClientsInv, ShapeInv
  <1>6. QED
    BY <1>4, <1>5 DEF LateRequest

-----------------------------------------------------------------------------
(***************************************************************************)
(* The theorems.                                                           *)
(***************************************************************************)

LEMMA StorageStarts == EtcdInit => EtcdInv /\ Atomic!AtomicInit
  <1> SUFFICES ASSUME EtcdInit PROVE EtcdInv /\ Atomic!AtomicInit
    OBVIOUS
  <1>1. StoreOK(store, revision)
    BY DEF EtcdInit, StoreOK, Version, NoKey
  <1>2. ShapeInv
    BY StorageAssumption DEF EtcdInit, ShapeInv, Places
  <1>3. ClientsInv
    <2>1. /\ DOMAIN NoCall = {"req", "status", "answer"} /\ NoCall.status = "answered"
      BY DEF NoCall
    <2>2. QED
      BY <2>1 DEF EtcdInit, ClientsInv, ClientOK
  <1>4. LateInv /\ IdsInv
    BY DEF EtcdInit, LateInv, IdsInv
  <1>5. Atomic!AtomicInit
    <2>1. Stored(store) = [k \in Atomic!Keys |-> Absent]
      BY DEF EtcdInit, Stored, ValueOf, NoKey, Keys, Atomic!Keys
    <2>2. Atomic!NoCall = NoCall
      BY SameWords DEF NoCall, Atomic!NoCall
    <2>3. QED
      BY <2>1, <2>2 DEF EtcdInit, Atomic!AtomicInit
  <1>6. QED
    BY <1>1, <1>2, <1>3, <1>4, <1>5 DEF EtcdInv

LEMMA StorageStep ==
    ASSUME EtcdInv, [EtcdNext]_etcdVars
    PROVE  EtcdInv' /\ AbstractStep
  <1>1. ASSUME NEW c \in Clients, Step(c) PROVE EtcdInv' /\ AbstractStep
    BY <1>1, UpdateStep, ReturnStep, EtcdDirectStep, StartTransactionStep,
       CompleteTransactionStep DEF Step
  <1>2. CASE UNCHANGED etcdVars
    <2>1. EtcdInv'
      BY <1>2 DEF etcdVars, EtcdInv, ShapeInv, ClientsInv, LateInv, IdsInv
    <2>2. UNCHANGED AbstractVars
      BY <1>2 DEF etcdVars, AbstractVars, LateRequests
    <2>3. QED
      BY <2>1, <2>2 DEF AbstractStep
  <1>3. QED
    BY <1>1, <1>2, CallStorageStep, TimeoutStep, LateRequestStep DEF EtcdNext

(* What is seen and sent stays true of the store (EtcdInv): a request at   *)
(* etcd writes what its update function computes from the values that it   *)
(* compares, and whatever makes a comparison of a call fail is among the   *)
(* reasons to refuse it.  Behind StartTransaction, CompleteTransaction and *)
(* ExecuteTransaction of the etcd client.                                  *)
THEOREM StorageInductive == EtcdSpec => []EtcdInv
  <1>1. EtcdInit => EtcdInv
    BY StorageStarts
  <1>2. EtcdInv /\ [EtcdNext]_etcdVars => EtcdInv'
    BY StorageStep
  <1>3. QED
    BY <1>1, <1>2, PTL DEF EtcdSpec

(* Every call of the etcd client is at one place of its protocol: it has a *)
(* request at etcd exactly while CompleteTransaction waits for it, and no  *)
(* key has a revision that etcd has not reached.                           *)
THEOREM StorageTypes == EtcdSpec => []StorageTypeOK
  <1>1. EtcdInv => StorageTypeOK
    <2> SUFFICES ASSUME EtcdInv PROVE StorageTypeOK
      OBVIOUS
    <2>1. ASSUME NEW c \in Clients
          PROVE  /\ pc[c] = "idle" <=> call[c].status = "answered"
                 /\ pc[c] = "answer" <=> call[c].status = "decided"
                 /\ pc[c] = "complete" <=> sent[c] # NoRequest
                 /\ pc[c] = "update" =>
                      {v.key : v \in Range(txn[c])} = Range(appendKeyPrefix(call[c].req))
      <3>1. ClientOK(call[c], pc[c], txn[c], sent[c], reasons[c], store, revision, calls)
        BY DEF EtcdInv, ClientsInv
      <3>2. ASSUME pc[c] = "complete" PROVE sent[c] # NoRequest
        <4>1. /\ TxnMsg(sent[c], store, revision) /\ GoodReq(call[c].req)
              /\ sent[c].req = call[c].req
          BY <3>1, <3>2 DEF ClientOK
        <4>2. \E v \in sent[c].cmps : v.key = call[c].req.key
          BY <4>1, KeyOfRequest DEF TxnMsg, Snapshot
        <4>3. NoRequest.cmps = {}
          BY DEF NoRequest
        <4>4. QED
          BY <4>2, <4>3
      <3>3. ASSUME pc[c] = "update"
            PROVE  {v.key : v \in Range(txn[c])} = Range(appendKeyPrefix(call[c].req))
        <4>1. /\ GoodReq(call[c].req) /\ call[c].req.kind \in Transactions
              /\ \A v \in Range(txn[c]) : v.key \in ConditionKeys(call[c].req)
              /\ \A k \in ConditionKeys(call[c].req) : \E v \in Range(txn[c]) : v.key = k
          BY <3>1, <3>3 DEF ClientOK, Snapshot
        <4>2. Range(appendKeyPrefix(call[c].req)) = ConditionKeys(call[c].req)
          BY <4>1, ConditionSequence
        <4>3. QED
          BY <4>1, <4>2
      <3>4. QED
        BY <3>1, <3>2, <3>3 DEF ClientOK
    <2>2. QED
      BY <2>1 DEF EtcdInv, StoreOK, ShapeInv, StorageTypeOK
  <1>2. QED
    BY <1>1, StorageInductive, PTL

(* The storage on etcd is an atomic storage, as every component above it   *)
(* takes it to be: the optimistic transactions of ExecuteTransaction,      *)
(* CompareAndSwap and PutIfAbsent take effect at one moment and are not    *)
(* refused without a reason, and a request that timed out takes effect at  *)
(* most once.                                                              *)
THEOREM EtcdImplementsAtomicStorage == EtcdSpec => ImplementsAtomicStorage
  <1>1. EtcdInit => Atomic!AtomicInit
    BY StorageStarts
  <1>2. EtcdInv /\ [EtcdNext]_etcdVars => [Atomic!AtomicNext]_(Atomic!atomicVars)
    BY StorageStep DEF AbstractStep, AbstractVars, LateRequests, Atomic!atomicVars
  <1>3. QED
    BY <1>1, <1>2, StorageInductive, PTL
    DEF EtcdSpec, ImplementsAtomicStorage, Atomic!AtomicSpec

=============================================================================
