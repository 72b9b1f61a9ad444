--------------------------- MODULE TrainingProofs ---------------------------
(***************************************************************************)
(* Access to models and lost updates, for any number of users, models,     *)
(* requests and workers.                                                   *)
(***************************************************************************)
EXTENDS Training, TLAPS

Active(q) == q.pc \notin {"idle", "done"}

(* The lists a request has still to store.                                 *)
Left(q) == IF q.pc = "lists" THEN q.todo
           ELSE IF q.pc = "store" THEN q.todo \cup {q.address} ELSE {}

(* Which steps the operations go through.                                  *)
ReqShape(q) ==
    /\ q.pc = "idle" => q.op = "get"
    /\ q.pc = "call" => q.op = "validate"
    /\ q.pc \in {"lists", "store"} => q.op \in {"create", "update", "delete"}
    /\ q.pc = "public" => q.op = "create"
    /\ q.op = "create" => q.pc # "read"
    /\ q.pc = "store" => q.address \notin q.todo
    /\ q.answer = "ok" => q.pc = "done"

(* The record a request works with: of a stored model, except for a create *)
(* that is about to store it.  Who may see a model never changes.          *)
ReqRecord(q) ==
    /\ q.pc # "idle" => provider[q.model] # "none"
    /\ q.op = "create" \/ (q.op = "delete" /\ q.answer = "ok") => q.rec \in Records
    /\ q.op = "create" /\ q.pc = "put" => ~Stored(q.model) /\ q.rec.prices = {}
    /\ Active(q) /\ ~(q.op = "create" /\ q.pc = "put") => Stored(q.model)
    /\ Active(q) /\ q.pc # "read" =>
          /\ q.rec \in Records
          /\ Stored(q.model) => q.rec.public = model[q.model].public

(* What a request will store in the lists has been granted.                *)
ReqLists(q) ==
    /\ q.pc = "store" => \A m \in Models :
          q.list[m] > 0 => q.address \in seen.granted[m] /\ Stored(m)
    /\ q.op = "create" /\ q.pc \in {"lists", "store"} =>
          /\ q.rec.addresses \subseteq seen.granted[q.model]
          /\ Left(q) \subseteq q.rec.addresses
    /\ q.op = "update" /\ q.pc \in {"lists", "store"} =>
          /\ NewAddresses(q) \subseteq seen.granted[q.model]
          /\ Left(q) \subseteq ListsToStore(q)
          /\ \A u \in ListsToStore(q) \ q.rec.addresses : <<u, q.model>> \in seen.added

(* CreateGrantsAccess, for the lists that are already stored.              *)
ReqGrants(q) ==
    (/\ q.op = "create" /\ (q.pc \in {"lists", "store", "public"} \/ q.answer = "ok")
     /\ ~DeleteRequested(q.model))
       => \A u \in q.rec.addresses \ seen.clobbered : u \in Left(q) \/ ids[u][q.model] > 0

(* The lists a create has still to store do not have the model.            *)
ReqFresh(q) ==
    q.op = "create" => \A u \in Left(q) \ seen.clobbered :
        <<u, q.model>> \in seen.added \/ ids[u][q.model] = 0

(* DeleteRevokes, for the lists that are already stored.                   *)
ReqRevokes(q) ==
    (/\ q.op = "delete" /\ (q.pc \in {"lists", "store"} \/ q.answer = "ok")
     /\ ~seen.failed /\ q.model \notin seen.overtaken)
       => \A u \in q.rec.addresses \ seen.clobbered :
            u \in Left(q) \/ <<u, q.model>> \in seen.added \/ ids[u][q.model] = 0

GoodRequest(q) ==
    /\ ReqShape(q) /\ ReqRecord(q) /\ ReqLists(q)
    /\ ReqGrants(q) /\ ReqFresh(q) /\ ReqRevokes(q)

ReqInv == \A r \in Requests : GoodRequest(req[r])

(* A model is created once, and a deletion that came while its creation    *)
(* was on the way is remembered.                                           *)
Exclusive ==
    \A r, s \in Requests :
        r # s /\ req[r].op = "create" /\ req[s].model = req[r].model =>
            /\ req[s].op # "create"
            /\ Active(req[r]) /\ req[s].op = "delete" => req[r].model \in seen.overtaken

StoredInv ==
    \A m \in Models :
        /\ Stored(m) => provider[m] # "none"
        /\ m \in public => Stored(m)
        /\ ~Stored(m) => seen.quoted[m] = {}

IdsInv ==
    \A u \in Users, m \in Models :
        /\ ids[u][m] > 0 => u \in seen.granted[m] /\ Stored(m)
        /\ u \notin seen.clobbered /\ <<u, m>> \notin seen.added => ids[u][m] <= 1

PublicInv ==
    \A m \in Models :
        ~seen.failed /\ CreateAnswered(m) /\ model[m].public => m \in public

WorkerInv ==
    \A m \in Models, w \in Workers :
        worker[m][w].pc \in {"call", "remove", "put"} =>
            /\ worker[m][w].rec \in Records /\ Stored(m)
            /\ worker[m][w].rec.public = model[m].public

TrainingInv ==
    /\ TrainingTypeOK /\ ReqInv /\ Exclusive /\ StoredInv /\ IdsInv
    /\ PublicInv /\ WorkerInv /\ LostUpdatesNeedARace

-----------------------------------------------------------------------------

LEMMA NoModelFacts == NoModel \notin Records /\ NoModel.status = "none"
  BY DEF NoModel, Records, Statuses, Working

LEMMA IdleRequestFacts ==
    /\ IdleRequest \in RequestRecords
    /\ IdleRequest.op = "get" /\ IdleRequest.pc = "idle" /\ IdleRequest.answer = NoAnswer
    /\ ~IdleRequest.pend
  <1>1. AnyOf(Users) \in Users /\ AnyOf(Models) \in Models
    BY TrainingAssumption DEF AnyOf
  <1>2. "CREATED" \in Statuses /\ "get" \in Ops /\ "idle" \in RequestSteps
    BY DEF Statuses, Ops, RequestSteps
  <1>3. [m \in Models |-> 0] \in [Models -> Nat]
    OBVIOUS
  <1>4. QED
    BY <1>1, <1>2, <1>3 DEF IdleRequest, RequestRecords

LEMMA IdleWorkerFacts == IdleWorker \in WorkerRecords /\ IdleWorker.pc = "idle"
  BY DEF IdleWorker, WorkerRecords, Statuses

LEMMA AnsweredFacts ==
    ASSUME NEW q \in RequestRecords, NEW answer \in {"ok", "error"}
    PROVE  LET new == Answered(q, answer)
           IN  /\ new \in RequestRecords /\ new.pc = "done"
               /\ new.op = q.op /\ new.model = q.model /\ new.answer = answer
               /\ new.pend = q.pend /\ Left(new) = {} /\ ~Active(new)
               /\ q.op \in {"create", "delete"} => new.rec = q.rec
  <1>1. "done" \in RequestSteps
    BY DEF RequestSteps
  <1>2. QED
    BY <1>1, IdleRequestFacts DEF Answered, RequestRecords, IdleRequest, Left, Active

(* A request that goes on with its lists, or is through with them.         *)
LEMMA NextListFacts ==
    ASSUME NEW q \in RequestRecords
    PROVE  LET new == NextList(q)
           IN  /\ new \in RequestRecords /\ new.op = q.op /\ new.model = q.model
               /\ new.pend = q.pend /\ new.pc # "idle"
               /\ \/ /\ new.pc = "lists" /\ new.rec = q.rec /\ new.new = q.new
                     /\ new.todo = q.todo /\ new.answer = q.answer /\ new.user = q.user
                     /\ Left(new) = q.todo
                  \/ /\ new.pc = "public" /\ new.rec = q.rec /\ q.op = "create"
                     /\ q.rec.public /\ q.todo = {} /\ new.answer = q.answer
                     /\ Left(new) = {}
                  \/ /\ new.pc = "done" /\ q.todo = {} /\ Left(new) = {} /\ ~Active(new)
                     /\ ~(q.op = "create" /\ q.rec.public)
                     /\ q.op \in {"create", "delete"} => new.rec = q.rec
                     /\ new.answer = (IF q.answer = "error" THEN "error" ELSE "ok")
  <1>1. CASE q.todo # {}
    BY <1>1 DEF NextList, RequestRecords, RequestSteps, Left
  <1>2. CASE q.todo = {} /\ q.op = "create" /\ q.rec.public
    BY <1>2 DEF NextList, RequestRecords, RequestSteps, Left
  <1>3. CASE q.todo = {} /\ ~(q.op = "create" /\ q.rec.public)
    <2> DEFINE answer == IF q.answer = "error" THEN "error" ELSE "ok"
    <2>1. NextList(q) = Answered(q, answer) /\ answer \in {"ok", "error"}
      BY <1>3 DEF NextList
    <2> HIDE DEF answer
    <2>2. QED
      BY <1>3, <2>1, AnsweredFacts DEF answer
  <1>4. QED
    BY <1>1, <1>2, <1>3

LEMMA TrainingInitInv == TrainingInit => TrainingInv
  <1> SUFFICES ASSUME TrainingInit PROVE TrainingInv
    OBVIOUS
  <1>0. PICK rec \in Before :
          LET addresses == [m \in Models |->
                               IF rec[m] = NoModel THEN {} ELSE rec[m].addresses]
              prices == [m \in Models |-> IF rec[m] = NoModel THEN {} ELSE rec[m].prices]
          IN  /\ model = rec
              /\ ids = [u \in Users |-> [m \in Models |-> IF u \in addresses[m] THEN 1 ELSE 0]]
              /\ pending = {}
              /\ public = {m \in Models : rec[m] # NoModel /\ rec[m].public}
              /\ provider = [m \in Models |-> rec[m].status]
              /\ req = [r \in Requests |-> IdleRequest]
              /\ worker = [m \in Models |-> [w \in Workers |-> IdleWorker]]
              /\ seen = [granted |-> addresses, asked |-> addresses,
                         quoted |-> prices, clobbered |-> {}, added |-> {}, dropped |-> {},
                         overwritten |-> {}, overtaken |-> {}, failed |-> FALSE]
    BY DEF TrainingInit
  <1> DEFINE addresses == [m \in Models |-> IF rec[m] = NoModel THEN {} ELSE rec[m].addresses]
             prices == [m \in Models |-> IF rec[m] = NoModel THEN {} ELSE rec[m].prices]
  <1>1. model \in [Models -> Records \cup {NoModel}] /\ model = rec
    BY <1>0, TrainingAssumption
  <1>2. addresses \in [Models -> SUBSET Users] /\ prices \in [Models -> SUBSET {"validate", "train"}]
    BY <1>1 DEF Records
  <1>3. /\ seen.granted = addresses /\ seen.asked = addresses /\ seen.quoted = prices
        /\ seen.clobbered = {} /\ seen.added = {} /\ seen.overwritten = {} /\ seen.failed = FALSE
        /\ seen \in History
    BY <1>0, <1>2 DEF History
  <1>4. /\ \A m \in Models : Stored(m) => model[m] \in Records
        /\ \A m \in Models : Stored(m) => provider[m] = model[m].status
        /\ provider \in [Models -> Statuses \cup {"none"}]
    BY <1>0, <1>1, NoModelFacts DEF Stored, Records
  <1>5. \A u \in Users, m \in Models : ids[u][m] = IF u \in addresses[m] THEN 1 ELSE 0
    BY <1>0
  <1>6. /\ \A r \in Requests : req[r] = IdleRequest
        /\ \A m \in Models, w \in Workers : worker[m][w] = IdleWorker
    BY <1>0
  <1>7. TrainingTypeOK
    <2>1. ids \in UserLists
      BY <1>0 DEF UserLists
    <2>2. req \in [Requests -> RequestRecords] /\ worker \in [Models -> [Workers -> WorkerRecords]]
      BY <1>0, IdleRequestFacts, IdleWorkerFacts
    <2>3. pending \in ModelIds /\ public \in ModelIds
      BY <1>0 DEF ModelIds
    <2>4. QED
      BY <1>1, <1>3, <1>4, <2>1, <2>2, <2>3 DEF TrainingTypeOK
  <1>8. ReqInv /\ Exclusive /\ WorkerInv
    BY <1>6, IdleRequestFacts, IdleWorkerFacts
       DEF ReqInv, GoodRequest, ReqShape, ReqRecord, ReqLists, ReqGrants, ReqFresh,
           ReqRevokes, Active, Exclusive, WorkerInv, NoAnswer
  <1>9. StoredInv
    <2>1. \A m \in Models : m \in public <=> Stored(m) /\ model[m].public
      BY <1>0, <1>1 DEF Stored
    <2>2. \A m \in Models : ~Stored(m) => seen.quoted[m] = {}
      BY <1>1, <1>3 DEF Stored
    <2>3. \A m \in Models : Stored(m) => provider[m] # "none"
      BY <1>4 DEF Records, Statuses, Working
    <2>4. QED
      BY <2>1, <2>2, <2>3 DEF StoredInv
  <1>10. IdsInv
    <2>1. \A m \in Models : ~Stored(m) => addresses[m] = {}
      BY <1>1 DEF Stored
    <2> HIDE DEF addresses
    <2>2. QED
      BY <1>3, <1>5, <2>1 DEF IdsInv
  <1>11. PublicInv
    BY <1>0, <1>1 DEF PublicInv, CreateAnswered, Stored
  <1>12. LostUpdatesNeedARace
    <2>1. \A m \in Models : Stored(m) => model[m].addresses = addresses[m] /\ model[m].prices = prices[m]
      BY <1>1 DEF Stored
    <2> HIDE DEF addresses, prices
    <2>2. QED
      BY <1>3, <2>1 DEF LostUpdatesNeedARace
  <1>13. QED
    BY <1>7, <1>8, <1>9, <1>10, <1>11, <1>12 DEF TrainingInv

-----------------------------------------------------------------------------
(***************************************************************************)
(* What a step of one actor leaves to the requests of the others.          *)
(***************************************************************************)

SharedGrows ==
    /\ \A m \in Models :
         /\ Stored(m) => Stored(m)' /\ model'[m].public = model[m].public
         /\ provider[m] # "none" => provider'[m] # "none"
         /\ seen.granted[m] \subseteq seen'.granted[m]
         /\ DeleteRequested(m) => DeleteRequested(m)'
    /\ seen.added \subseteq seen'.added /\ seen.clobbered \subseteq seen'.clobbered
    /\ seen.overtaken \subseteq seen'.overtaken
    /\ seen.failed => seen'.failed

(* Request r puts model m in the list of u, or takes it out.               *)
Relists(r, u, m) ==
    /\ Active(req[r]) /\ req[r].model = m
    /\ \/ req[r].op = "create" /\ ids'[u][m] > 0
       \/ req[r].op = "update" /\ ids'[u][m] > 0 /\ <<u, m>> \in seen'.added
       \/ req[r].op = "delete" /\ (ids[u][m] = 0 => ids'[u][m] = 0)

(* As far as request s is concerned, only another one stores lists and     *)
(* creates models.                                                         *)
KeepsFor(s) ==
    /\ SharedGrows
    /\ \A m \in Models : Stored(m)' /\ ~Stored(m) =>
          \E r \in Requests \ {s} :
             req[r].op = "create" /\ Active(req[r]) /\ req[r].model = m
    /\ \A u \in Users, m \in Models : u \in seen'.clobbered \/ ids'[u][m] = ids[u][m]
          \/ \E r \in Requests \ {s} : Relists(r, u, m)

LEMMA OthersKeep ==
    ASSUME TrainingInv, NEW s \in Requests, NEW q, q = req[s], KeepsFor(s)
    PROVE  GoodRequest(q)'
  <1> DEFINE m == q.model
  <1>1. /\ q \in RequestRecords /\ m \in Models /\ GoodRequest(q)
        /\ ids \in [Users -> [Models -> Nat]] /\ SharedGrows
        /\ model \in [Models -> Records \cup {NoModel}]
    BY DEF TrainingInv, TrainingTypeOK, ReqInv, UserLists, RequestRecords, KeepsFor
  <1>2. \A r \in Requests \ {s} :
          req[r].model = m /\ Active(req[r]) /\ req[r].op = "create" =>
             q.op # "create" /\ (q.op = "delete" => m \in seen.overtaken)
    BY DEF TrainingInv, Exclusive
  <1>3. ReqShape(q)'
    BY <1>1 DEF GoodRequest, ReqShape
  <1>4. ReqRecord(q)'
    <2>1. q.op = "create" /\ Stored(m)' => Stored(m)
      BY <1>1, <1>2 DEF KeepsFor
    <2>2. q.op = "create" /\ q.pc = "put" => ~Stored(m)'
      BY <1>1, <2>1 DEF GoodRequest, ReqRecord, Active
    <2>3. QED
      BY <1>1, <2>2 DEF GoodRequest, ReqRecord, SharedGrows, Active
  <1>5. ReqLists(q)'
    BY <1>1 DEF GoodRequest, ReqLists, SharedGrows, RequestRecords, NewAddresses, ListsToStore, Left
  <1>6. \A u \in Users \ seen'.clobbered :
          /\ u \notin seen.clobbered
          /\ \/ ids'[u][m] = ids[u][m]
             \/ \E r \in Requests \ {s} : Relists(r, u, m)
    BY <1>1 DEF KeepsFor, SharedGrows
  <1>7. ReqGrants(q)'
    <2> SUFFICES ASSUME q.op = "create", q.pc \in {"lists", "store", "public"} \/ q.answer = "ok",
                        ~DeleteRequested(m)', NEW u \in q.rec.addresses \ seen'.clobbered
                 PROVE  u \in Left(q) \/ ids'[u][m] > 0
      BY <1>1 DEF ReqGrants, Left
    <2>1. q.pc # "idle" /\ q.rec \in Records /\ u \in Users
      BY <1>1 DEF GoodRequest, ReqShape, ReqRecord, Records
    <2>2. ~DeleteRequested(m) /\ (u \in Left(q) \/ ids[u][m] > 0)
      BY <1>1, <1>6, <2>1 DEF SharedGrows, GoodRequest, ReqGrants
    <2>3. ASSUME NEW r \in Requests \ {s}, Relists(r, u, m)
          PROVE  ids'[u][m] > 0
      <3>1. req[r].op # "delete"
        BY <2>2, <2>3 DEF DeleteRequested, Relists, Active
      <3>2. QED
        BY <2>3, <3>1 DEF Relists
    <2>4. QED
      BY <1>6, <2>1, <2>2, <2>3
  <1>8. ReqFresh(q)'
    <2> SUFFICES ASSUME q.op = "create", NEW u \in Left(q) \ seen'.clobbered
                 PROVE  <<u, m>> \in seen'.added \/ ids'[u][m] = 0
      BY <1>1 DEF ReqFresh, Left
    <2>1. /\ q.pc \in {"lists", "store"} /\ Active(q) /\ u \in Users
      BY <1>1 DEF Left, Active, RequestRecords
    <2>2. <<u, m>> \in seen.added \/ ids[u][m] = 0
      BY <1>1, <1>6, <2>1 DEF GoodRequest, ReqFresh
    <2>3. ASSUME NEW r \in Requests \ {s}, Relists(r, u, m)
          PROVE  <<u, m>> \in seen'.added \/ (ids[u][m] = 0 => ids'[u][m] = 0)
      <3>1. req[r].op # "create"
        BY <1>2, <2>3 DEF Relists
      <3>2. QED
        BY <2>3, <3>1 DEF Relists
    <2>4. seen.added \subseteq seen'.added
      BY <1>1 DEF SharedGrows
    <2>5. QED
      BY <1>6, <2>1, <2>2, <2>3, <2>4
  <1>9. ReqRevokes(q)'
    <2> SUFFICES ASSUME q.op = "delete", q.pc \in {"lists", "store"} \/ q.answer = "ok",
                        ~seen'.failed, m \notin seen'.overtaken,
                        NEW u \in q.rec.addresses \ seen'.clobbered
                 PROVE  u \in Left(q) \/ <<u, m>> \in seen'.added \/ ids'[u][m] = 0
      BY <1>1 DEF ReqRevokes, Left
    <2>1. q.pc # "idle" /\ q.rec \in Records /\ u \in Users
      BY <1>1 DEF GoodRequest, ReqShape, ReqRecord, Records, Active
    <2>2. u \in Left(q) \/ <<u, m>> \in seen.added \/ ids[u][m] = 0
      BY <1>1, <1>6, <2>1 DEF SharedGrows, GoodRequest, ReqRevokes
    <2>3. ASSUME NEW r \in Requests \ {s}, Relists(r, u, m)
          PROVE  <<u, m>> \in seen'.added \/ (ids[u][m] = 0 => ids'[u][m] = 0)
      <3>1. req[r].op # "create"
        BY <1>1, <1>2, <2>3 DEF Relists, SharedGrows
      <3>2. QED
        BY <2>3, <3>1 DEF Relists
    <2>4. seen.added \subseteq seen'.added
      BY <1>1 DEF SharedGrows
    <2>5. QED
      BY <1>6, <2>1, <2>2, <2>3, <2>4
  <1>10. QED
    BY <1>3, <1>4, <1>5, <1>7, <1>8, <1>9 DEF GoodRequest

(* The shared state only grows; request r alone may store lists or create  *)
(* the model it names.                                                     *)
DataGrows ==
    /\ \A m \in Models :
         /\ Stored(m) => Stored(m)' /\ model'[m].public = model[m].public
         /\ provider[m] # "none" => provider'[m] # "none"
         /\ seen.granted[m] \subseteq seen'.granted[m]
    /\ seen.added \subseteq seen'.added /\ seen.clobbered \subseteq seen'.clobbered
    /\ seen.overtaken \subseteq seen'.overtaken
    /\ seen.failed => seen'.failed

OnlyChanges(r) ==
    /\ DataGrows /\ public \subseteq public'
    /\ \A m \in Models : Stored(m)' /\ ~Stored(m) =>
          req[r].op = "create" /\ Active(req[r]) /\ req[r].model = m
    /\ \A u \in Users, m \in Models : u \in seen'.clobbered \/ ids'[u][m] = ids[u][m]
          \/ Relists(r, u, m)

(* A step of request r, which stays the same operation on the same model.  *)
LEMMA RequestStep ==
    ASSUME TrainingInv, NEW r \in Requests, NEW q, q = req[r], NEW new \in RequestRecords,
           req' = [req EXCEPT ![r] = new], OnlyChanges(r), GoodRequest(new)',
           new.op = q.op, new.model = q.model, new.pc = "idle" <=> q.pc = "idle",
           Active(new) => Active(q),
           new.op = "create" /\ new.answer = "ok" /\ Stored(q.model)' /\ ~seen'.failed
              /\ model'[q.model].public => q.model \in public'
    PROVE  /\ req' \in [Requests -> RequestRecords] /\ ReqInv' /\ Exclusive' /\ PublicInv'
  <1>1. /\ req \in [Requests -> RequestRecords] /\ q \in RequestRecords /\ q.model \in Models
        /\ req' \in [Requests -> RequestRecords]
        /\ req'[r] = new /\ \A s \in Requests \ {r} : req'[s] = req[s]
    BY DEF TrainingInv, TrainingTypeOK, RequestRecords
  <1>2. \A m \in Models : DeleteRequested(m) => DeleteRequested(m)'
    BY <1>1 DEF DeleteRequested
  <1>3. \A s \in Requests \ {r} : KeepsFor(s)
    BY <1>2 DEF KeepsFor, OnlyChanges, DataGrows, SharedGrows
  <1>4. ASSUME NEW s \in Requests PROVE GoodRequest(req[s])'
    <2>1. CASE s = r
      BY <1>1, <2>1
    <2>2. CASE s # r
      <3>1. PICK p \in RequestRecords : p = req[s]
        BY <1>1
      <3>2. GoodRequest(p)'
        BY <1>3, <2>2, <3>1, OthersKeep
      <3>3. QED
        BY <1>1, <2>2, <3>1, <3>2
    <2>3. QED
      BY <2>1, <2>2
  <1>5. Exclusive'
    BY <1>1 DEF TrainingInv, Exclusive, Active, OnlyChanges, DataGrows
  <1>6. ASSUME NEW m \in Models, ~seen'.failed, CreateAnswered(m)', model'[m].public
        PROVE  m \in public'
    <2>1. CASE q.op = "create" /\ q.model = m /\ q.pc # "idle"
      BY <1>1, <1>6, <2>1 DEF CreateAnswered
    <2>2. CASE ~(q.op = "create" /\ q.model = m /\ q.pc # "idle")
      <3>1. Stored(m)
        BY <1>6, <2>2 DEF OnlyChanges, Active, CreateAnswered
      <3>2. CreateAnswered(m) /\ model[m].public /\ ~seen.failed
        BY <1>1, <1>6, <2>2, <3>1 DEF CreateAnswered, OnlyChanges, DataGrows
      <3>3. QED
        BY <3>2 DEF TrainingInv, PublicInv, OnlyChanges
    <2>3. QED
      BY <2>1, <2>2
  <1>7. QED
    BY <1>1, <1>4, <1>5, <1>6 DEF ReqInv, PublicInv

-----------------------------------------------------------------------------
(***************************************************************************)
(* Steps that store neither a record nor the list of a user.               *)
(***************************************************************************)

Quiet ==
    /\ model' = model /\ ids' = ids
    /\ \/ seen' = seen \/ seen' = [seen EXCEPT !.failed = TRUE]
       \/ \E over \in SUBSET Models :
             seen.overtaken \subseteq over /\ seen' = [seen EXCEPT !.overtaken = over]
    /\ provider' \in [Models -> Statuses \cup {"none"}]
    /\ \A m \in Models : provider[m] # "none" => provider'[m] # "none"
    /\ pending' \in ModelIds /\ public' \in ModelIds
    /\ public \subseteq public' /\ \A m \in public' : Stored(m)

LEMMA QuietFacts ==
    ASSUME TrainingInv, Quiet
    PROVE  /\ DataGrows /\ (\A r \in Requests : OnlyChanges(r))
           /\ \A m \in Models : Stored(m)' = Stored(m)
           /\ seen' \in History /\ StoredInv' /\ IdsInv' /\ LostUpdatesNeedARace'
           /\ seen'.granted = seen.granted /\ seen'.added = seen.added
           /\ seen'.clobbered = seen.clobbered
  <1>1. /\ seen \in History /\ seen' \in History
        /\ seen'.granted = seen.granted /\ seen'.added = seen.added
        /\ seen'.clobbered = seen.clobbered /\ seen'.overwritten = seen.overwritten
        /\ seen'.asked = seen.asked /\ seen'.quoted = seen.quoted
        /\ seen.overtaken \subseteq seen'.overtaken
        /\ seen.failed => seen'.failed
    <2>1. seen \in History
      BY DEF TrainingInv, TrainingTypeOK
    <2>2. CASE seen' = seen \/ seen' = [seen EXCEPT !.failed = TRUE]
      BY <2>1, <2>2 DEF History
    <2>3. CASE \E over \in SUBSET Models :
                 seen.overtaken \subseteq over /\ seen' = [seen EXCEPT !.overtaken = over]
      BY <2>1, <2>3 DEF History
    <2>4. QED
      BY <2>2, <2>3 DEF Quiet
  <1>2. \A m \in Models : Stored(m)' = Stored(m)
    BY DEF Quiet, Stored
  <1>3. DataGrows /\ \A r \in Requests : OnlyChanges(r)
    BY <1>1, <1>2 DEF DataGrows, OnlyChanges, Quiet
  <1>4. StoredInv' /\ IdsInv'
    BY <1>1, <1>2 DEF TrainingInv, StoredInv, IdsInv, Quiet
  <1>5. LostUpdatesNeedARace'
    BY <1>1, <1>2 DEF TrainingInv, LostUpdatesNeedARace, Quiet
  <1>6. QED
    BY <1>1, <1>2, <1>3, <1>4, <1>5

(* What held of the request before the step holds in the state after it.   *)
LEMMA QuietRequest ==
    ASSUME TrainingInv, NEW r \in Requests, NEW q, q = req[r], NEW new \in RequestRecords,
           req' = [req EXCEPT ![r] = new], Quiet,
           new.op = q.op, new.model = q.model, new.pc = "idle" <=> q.pc = "idle"
    PROVE  GoodRequest(q)' /\ GoodRequest(q) /\ q \in RequestRecords
  <1>1. req \in [Requests -> RequestRecords] /\ GoodRequest(q)
    BY DEF TrainingInv, TrainingTypeOK, ReqInv
  <1>2. \A m \in Models : DeleteRequested(m) => DeleteRequested(m)'
    BY <1>1 DEF DeleteRequested
  <1>3. KeepsFor(r)
    BY <1>2, QuietFacts DEF KeepsFor, DataGrows, SharedGrows, Quiet
  <1>4. QED
    BY <1>1, <1>3, OthersKeep

LEMMA QuietRequestStep ==
    ASSUME TrainingInv, NEW r \in Requests, NEW q, q = req[r], NEW new \in RequestRecords,
           req' = [req EXCEPT ![r] = new], Quiet, worker' = worker,
           new.op = q.op, new.model = q.model, new.pc = "idle" <=> q.pc = "idle",
           Active(new) => Active(q), GoodRequest(new)',
           new.op = "create" /\ new.answer = "ok" /\ Stored(q.model)' /\ ~seen'.failed
              /\ model'[q.model].public => q.model \in public'
    PROVE  TrainingInv'
  <1>1. OnlyChanges(r) /\ StoredInv' /\ IdsInv' /\ LostUpdatesNeedARace' /\ seen' \in History
        /\ \A m \in Models : Stored(m)' = Stored(m)
    BY QuietFacts
  <1>2. req' \in [Requests -> RequestRecords] /\ ReqInv' /\ Exclusive' /\ PublicInv'
    BY <1>1, RequestStep
  <1>3. WorkerInv'
    BY <1>1 DEF WorkerInv, TrainingInv, Quiet
  <1>4. TrainingTypeOK'
    BY <1>1, <1>2 DEF TrainingTypeOK, TrainingInv, Quiet
  <1>5. QED
    BY <1>1, <1>2, <1>3, <1>4 DEF TrainingInv

(* An answered request has nothing left to do.                             *)
LEMMA DoneIsGood ==
    ASSUME NEW new \in RequestRecords, new.pc = "done",
           provider'[new.model] # "none", new.op = "create" => new.rec \in Records,
           new.answer = "error" \/ new.op \notin {"create", "delete"}
    PROVE  GoodRequest(new)'
  BY DEF GoodRequest, ReqShape, ReqRecord, ReqLists, ReqGrants, ReqFresh, ReqRevokes,
         Active, Left

(* Steps of a request that leave the shared state as it is.                *)
LEMMA QuietOnFailure ==
    ASSUME TrainingInv, model' = model, ids' = ids, provider' = provider,
           pending' = pending, public' = public, seen' = seen \/ StorageFails
    PROVE  Quiet
  BY DEF TrainingInv, TrainingTypeOK, Quiet, StorageFails, StoredInv, ModelIds

LEMMA GetModelDataInv ==
    ASSUME TrainingInv, NEW r \in Requests, GetModelData(r)
    PROVE  TrainingInv'
  <1>1. PICK q \in RequestRecords : q = req[r]
    BY DEF TrainingInv, TrainingTypeOK
  <1>2. q.pc = "read" /\ q.model \in Models /\ GoodRequest(q)
    BY <1>1 DEF GetModelData, RequestRecords, TrainingInv, ReqInv
  <1>3. Quiet /\ worker' = worker
    BY QuietOnFailure DEF GetModelData
  <1>4. q.op # "create" /\ Active(q) /\ q.answer # "ok" /\ Stored(q.model) /\ provider[q.model] # "none"
    BY <1>2 DEF GoodRequest, ReqShape, ReqRecord, Active
  <1>5. CASE req' = [req EXCEPT ![r] =
                     [q EXCEPT !.rec = model[q.model],
                               !.pc = IF q.op = "validate" THEN "call" ELSE "put"]]
    <2>1. PICK x : x = model[q.model]
      OBVIOUS
    <2>2. x \in Records
      BY <1>2, <1>4, <2>1 DEF TrainingInv, TrainingTypeOK, Stored
    <2> DEFINE pc == IF q.op = "validate" THEN "call" ELSE "put"
               new == [q EXCEPT !.rec = x, !.pc = pc]
    <2>0. pc \in RequestSteps /\ req' = [req EXCEPT ![r] = new]
      BY <1>1, <1>5, <2>1 DEF RequestSteps
    <2> HIDE DEF pc
    <2>3. /\ new \in RequestRecords /\ new.op = q.op /\ new.model = q.model /\ new.rec = x
          /\ new.pc = pc /\ new.answer = q.answer
      BY <2>0, <2>2 DEF RequestRecords
    <2> HIDE DEF new
    <2> USE <2>0 DEF pc
    <2>4. GoodRequest(q)'
      BY <1>1, <1>2, <1>3, <2>3, QuietRequest
    <2>5. ReqShape(new)
      BY <1>2, <1>4, <2>3 DEF ReqShape
    <2>6. ReqRecord(new)'
      BY <1>2, <1>3, <1>4, <2>1, <2>2, <2>3, <2>4 DEF GoodRequest, ReqRecord, Quiet, Stored, Active
    <2>7. GoodRequest(new)'
      BY <1>2, <1>4, <2>3, <2>5, <2>6
         DEF GoodRequest, ReqShape, ReqLists, ReqGrants, ReqFresh, ReqRevokes, Left
    <2>8. QED
      BY <1>1, <1>2, <1>3, <1>4, <2>3, <2>7, QuietRequestStep
  <1>6. CASE req' = [req EXCEPT ![r] =
                     [Answered(q, IF q.op \in {"train", "upload"} THEN "ok" ELSE "error")
                        EXCEPT !.pend = @ \/ q.op = "train"]]
    <2> DEFINE answer == IF q.op \in {"train", "upload"} THEN "ok" ELSE "error"
               pend == Answered(q, answer).pend \/ q.op = "train"
               new == [Answered(q, answer) EXCEPT !.pend = pend]
    <2>1. /\ Answered(q, answer) \in RequestRecords
          /\ Answered(q, answer).pc = "done" /\ Answered(q, answer).op = q.op
          /\ Answered(q, answer).model = q.model /\ Answered(q, answer).answer = answer
          /\ pend \in BOOLEAN /\ req' = [req EXCEPT ![r] = new]
      BY <1>1, <1>6, AnsweredFacts
    <2> HIDE DEF pend
    <2>2. /\ new \in RequestRecords /\ new.op = q.op /\ new.model = q.model
          /\ new.pc = "done" /\ new.answer = answer
      BY <2>1 DEF RequestRecords
    <2> HIDE DEF new
    <2>3. GoodRequest(new)'
      BY <1>2, <1>3, <1>4, <2>2, DoneIsGood DEF Quiet
    <2>4. ~Active(new)
      BY <2>2 DEF Active
    <2>5. QED
      BY <1>1, <1>2, <1>3, <1>4, <2>1, <2>2, <2>3, <2>4, QuietRequestStep
  <1>7. QED
    BY <1>1, <1>5, <1>6 DEF GetModelData

LEMMA CallValidateModelInv ==
    ASSUME TrainingInv, NEW r \in Requests, CallValidateModel(r)
    PROVE  TrainingInv'
  <1>1. PICK q \in RequestRecords : q = req[r]
    BY DEF TrainingInv, TrainingTypeOK
  <1>2. q.pc = "call" /\ q.model \in Models /\ GoodRequest(q)
    BY <1>1 DEF CallValidateModel, RequestRecords, TrainingInv, ReqInv
  <1>3. Quiet /\ worker' = worker
    BY <1>1, <1>2 DEF CallValidateModel, Quiet, TrainingInv, TrainingTypeOK, StoredInv, ModelIds,
       Statuses, Working
  <1>4. /\ q.op = "validate" /\ Active(q) /\ q.answer # "ok" /\ Stored(q.model)
        /\ provider[q.model] # "none"
    BY <1>2 DEF GoodRequest, ReqShape, ReqRecord, Active
  <1>5. CASE req' = [req EXCEPT ![r] = [q EXCEPT !.pc = "put", !.status = "VALIDATING"]]
    <2> DEFINE new == [q EXCEPT !.pc = "put", !.status = "VALIDATING"]
    <2>1. /\ new \in RequestRecords /\ new.op = q.op /\ new.model = q.model /\ new.rec = q.rec
          /\ new.pc = "put" /\ new.answer = q.answer /\ req' = [req EXCEPT ![r] = new]
      BY <1>1, <1>5 DEF RequestRecords, RequestSteps, Statuses, Working
    <2> HIDE DEF new
    <2>2. GoodRequest(q)'
      BY <1>1, <1>2, <1>3, <2>1, QuietRequest
    <2>3. GoodRequest(new)'
      BY <1>2, <1>4, <2>1, <2>2
         DEF GoodRequest, ReqShape, ReqRecord, ReqLists, ReqGrants, ReqFresh, ReqRevokes, Left, Active
    <2>4. QED
      BY <1>1, <1>2, <1>3, <1>4, <2>1, <2>3, QuietRequestStep
  <1>6. CASE Finish(r, "error")
    <2> DEFINE new == Answered(q, "error")
    <2>1. /\ new \in RequestRecords /\ new.op = q.op /\ new.model = q.model
          /\ new.pc = "done" /\ new.answer = "error" /\ req' = [req EXCEPT ![r] = new]
      BY <1>1, <1>6, AnsweredFacts DEF Finish
    <2> HIDE DEF new
    <2>2. GoodRequest(new)'
      BY <1>2, <1>3, <1>4, <2>1, DoneIsGood DEF Quiet
    <2>3. ~Active(new)
      BY <2>1 DEF Active
    <2>4. QED
      BY <1>1, <1>2, <1>3, <1>4, <2>1, <2>2, <2>3, QuietRequestStep
  <1>7. QED
    BY <1>1, <1>5, <1>6 DEF CallValidateModel

(* An answered creation of a public model has it in the public list.       *)
LEMMA PublicOnceCreated ==
    ASSUME TrainingInv, NEW r \in Requests, req[r].op = "create", req[r].answer = "ok",
           ~seen.failed, model[req[r].model].public, Stored(req[r].model)
    PROVE  req[r].model \in public
  <1>1. req[r] \in RequestRecords /\ req[r].model \in Models
    BY DEF TrainingInv, TrainingTypeOK, RequestRecords
  <1>2. CreateAnswered(req[r].model)
    BY DEF CreateAnswered, TrainingInv, Exclusive
  <1>3. QED
    BY <1>1, <1>2 DEF TrainingInv, PublicInv

LEMMA AddPendingModelIdInv ==
    ASSUME TrainingInv, NEW r \in Requests, AddPendingModelId(r)
    PROVE  TrainingInv'
  <1>1. PICK q \in RequestRecords : q = req[r]
    BY DEF TrainingInv, TrainingTypeOK
  <1>2. q.model \in Models /\ GoodRequest(q)
    BY <1>1 DEF RequestRecords, TrainingInv, ReqInv
  <1>3. Quiet /\ worker' = worker
    BY <1>1, <1>2 DEF AddPendingModelId, Quiet, TrainingInv, TrainingTypeOK, StoredInv, ModelIds,
       StorageFails
  <1> DEFINE new == [q EXCEPT !.pend = FALSE]
  <1>4. /\ new \in RequestRecords /\ new.op = q.op /\ new.model = q.model /\ new.rec = q.rec
        /\ new.pc = q.pc /\ new.answer = q.answer /\ req' = [req EXCEPT ![r] = new]
        /\ new.todo = q.todo /\ new.address = q.address /\ new.list = q.list
        /\ new.new = q.new /\ new.user = q.user
    BY <1>1 DEF RequestRecords, AddPendingModelId
  <1> HIDE DEF new
  <1>5. GoodRequest(q)'
    BY <1>1, <1>2, <1>3, <1>4, QuietRequest
  <1>6. GoodRequest(new)'
    BY <1>2, <1>4, <1>5
       DEF GoodRequest, ReqShape, ReqRecord, ReqLists, ReqGrants, ReqFresh, ReqRevokes, Left, Active,
           NewAddresses, ListsToStore
  <1>7. new.op = "create" /\ new.answer = "ok" /\ Stored(q.model)' /\ ~seen'.failed
           /\ model'[q.model].public => q.model \in public'
    <2> SUFFICES ASSUME q.op = "create", q.answer = "ok", Stored(q.model)', ~seen'.failed,
                        model'[q.model].public
                 PROVE  q.model \in public
      BY <1>4 DEF AddPendingModelId
    <2>1. ~seen.failed /\ model[q.model].public /\ Stored(q.model)
      BY <1>2, <1>3, QuietFacts DEF DataGrows, Quiet
    <2>2. QED
      BY PublicOnceCreated, <1>1, <2>1
  <1>8. Active(new) => Active(q)
    BY <1>4 DEF Active
  <1>9. QED
    BY <1>1, <1>2, <1>3, <1>4, <1>6, <1>7, <1>8, QuietRequestStep

LEMMA AddPublicModelIdInv ==
    ASSUME TrainingInv, NEW r \in Requests, AddPublicModelId(r)
    PROVE  TrainingInv'
  <1>1. PICK q \in RequestRecords : q = req[r]
    BY DEF TrainingInv, TrainingTypeOK
  <1>2. q.pc = "public" /\ q.model \in Models /\ GoodRequest(q)
    BY <1>1 DEF RequestRecords, TrainingInv, ReqInv, AddPublicModelId
  <1>3. q.op = "create" /\ Active(q) /\ Stored(q.model) /\ q.rec \in Records
    BY <1>2 DEF GoodRequest, ReqShape, ReqRecord, Active
  <1>4. Quiet /\ worker' = worker
    BY <1>1, <1>2, <1>3 DEF AddPublicModelId, Quiet, TrainingInv, TrainingTypeOK, StoredInv, ModelIds,
       StorageFails
  <1> DEFINE new == Answered(q, "ok")
  <1>5. /\ new \in RequestRecords /\ new.op = q.op /\ new.model = q.model /\ new.rec = q.rec
        /\ new.pc = "done" /\ new.answer = "ok" /\ req' = [req EXCEPT ![r] = new]
        /\ Left(new) = {} /\ ~Active(new)
    BY <1>1, <1>3, AnsweredFacts DEF AddPublicModelId, Finish
  <1> HIDE DEF new
  <1>6. GoodRequest(q)'
    BY <1>1, <1>2, <1>4, <1>5, QuietRequest
  <1>7. GoodRequest(new)'
    BY <1>2, <1>3, <1>5, <1>6
       DEF GoodRequest, ReqShape, ReqRecord, ReqLists, ReqGrants, ReqFresh, ReqRevokes, Left, Active
  <1>8. seen'.failed \/ q.model \in public'
    BY <1>1 DEF AddPublicModelId, StorageFails, TrainingInv, TrainingTypeOK, History
  <1>9. QED
    BY <1>1, <1>2, <1>3, <1>4, <1>5, <1>7, <1>8, QuietRequestStep

LEMMA ReadUserListInv ==
    ASSUME TrainingInv, NEW r \in Requests, ReadUserList(r)
    PROVE  TrainingInv'
  <1>1. PICK q \in RequestRecords : q = req[r]
    BY DEF TrainingInv, TrainingTypeOK
  <1>2. q.pc = "lists" /\ q.model \in Models /\ GoodRequest(q) /\ q.todo \subseteq Users
    BY <1>1 DEF RequestRecords, TrainingInv, ReqInv, ReadUserList
  <1>3. /\ q.op \in {"create", "update", "delete"} /\ Active(q) /\ Stored(q.model)
        /\ q.rec \in Records /\ q.answer # "ok" /\ Left(q) = q.todo
        /\ provider[q.model] # "none"
    BY <1>2 DEF GoodRequest, ReqShape, ReqRecord, Active, Left
  <1>4. Quiet /\ worker' = worker
    BY QuietOnFailure DEF ReadUserList
  <1>5. PICK u \in q.todo :
          \/ \E list \in {ids[u], [m \in Models |-> 0]} :
                req' = [req EXCEPT ![r] = [q EXCEPT !.todo = q.todo \ {u}, !.address = u,
                                                    !.pc = "store", !.list = list]]
          \/ /\ StorageFails /\ q.op = "delete"
             /\ req' = [req EXCEPT ![r] = NextList([q EXCEPT !.todo = q.todo \ {u}])]
    <2>1. PICK u \in q.todo :
            \/ req' = [req EXCEPT ![r] = [[q EXCEPT !.todo = @ \ {u}, !.address = u, !.pc = "store"]
                                             EXCEPT !.list = ids[u]]]
            \/ /\ StorageFails
               /\ req' = [req EXCEPT ![r] =
                      IF q.op = "delete" THEN NextList([q EXCEPT !.todo = @ \ {u}])
                      ELSE [[q EXCEPT !.todo = @ \ {u}, !.address = u, !.pc = "store"]
                              EXCEPT !.list = [m \in Models |-> 0]]]
      BY <1>1 DEF ReadUserList
    <2>2. \A list : [[q EXCEPT !.todo = @ \ {u}, !.address = u, !.pc = "store"] EXCEPT !.list = list]
            = [q EXCEPT !.todo = q.todo \ {u}, !.address = u, !.pc = "store", !.list = list]
      BY DEF RequestRecords
    <2>3. QED
      BY <2>1, <2>2
  <1>6. CASE \E list \in {ids[u], [m \in Models |-> 0]} :
               req' = [req EXCEPT ![r] = [q EXCEPT !.todo = q.todo \ {u}, !.address = u,
                                                   !.pc = "store", !.list = list]]
    <2>1. PICK list \in {ids[u], [m \in Models |-> 0]} :
               req' = [req EXCEPT ![r] = [q EXCEPT !.todo = q.todo \ {u}, !.address = u,
                                                   !.pc = "store", !.list = list]]
      BY <1>6
    <2> DEFINE new == [q EXCEPT !.todo = q.todo \ {u}, !.address = u, !.pc = "store", !.list = list]
    <2>2. list \in [Models -> Nat] /\ u \in Users
      BY <1>2 DEF TrainingInv, TrainingTypeOK, UserLists
    <2>3. \A m \in Models : list[m] > 0 => u \in seen.granted[m] /\ Stored(m)
      <3>1. CASE list = ids[u]
        BY <2>2, <3>1 DEF TrainingInv, IdsInv
      <3>2. CASE list = [m \in Models |-> 0]
        BY <3>2
      <3>3. QED
        BY <2>1, <3>1, <3>2
    <2>4. /\ new \in RequestRecords /\ new.op = q.op /\ new.model = q.model /\ new.rec = q.rec
          /\ new.pc = "store" /\ new.answer = q.answer
          /\ new.todo = q.todo \ {u} /\ new.address = u /\ new.list = list
          /\ new.new = q.new /\ new.user = q.user /\ Left(new) = q.todo
      BY <2>2 DEF RequestRecords, RequestSteps, Left
    <2>5. req' = [req EXCEPT ![r] = new]
      BY <2>1
    <2> HIDE DEF new
    <2>6. GoodRequest(q)'
      BY <1>1, <1>2, <1>4, <2>4, <2>5, QuietRequest
    <2>7. ReqShape(new)
      BY <1>2, <1>3, <2>4 DEF ReqShape
    <2>8. ReqRecord(new)'
      BY <1>2, <1>3, <2>4, <2>6 DEF GoodRequest, ReqRecord, Active
    <2>9. ReqLists(new)'
      BY <1>2, <1>3, <2>3, <2>4, <2>6, QuietFacts, <1>4
         DEF GoodRequest, ReqLists, NewAddresses, ListsToStore
    <2>10. ReqGrants(new)' /\ ReqFresh(new)' /\ ReqRevokes(new)'
      BY <1>2, <1>3, <2>4, <2>6 DEF GoodRequest, ReqGrants, ReqFresh, ReqRevokes
    <2>11. GoodRequest(new)'
      BY <2>7, <2>8, <2>9, <2>10 DEF GoodRequest, ReqShape
    <2>12. QED
      BY <1>1, <1>2, <1>3, <1>4, <2>4, <2>5, <2>11, QuietRequestStep
  <1>7. CASE /\ StorageFails /\ q.op = "delete"
             /\ req' = [req EXCEPT ![r] = NextList([q EXCEPT !.todo = q.todo \ {u}])]
    <2> DEFINE q1 == [q EXCEPT !.todo = q.todo \ {u}]
               new == NextList(q1)
    <2>1. /\ q1 \in RequestRecords /\ q1.op = "delete" /\ q1.model = q.model /\ q1.rec = q.rec
          /\ q1.answer = q.answer
      BY <1>7 DEF RequestRecords
    <2> HIDE DEF q1
    <2>2. /\ new \in RequestRecords /\ new.op = "delete" /\ new.model = q.model
          /\ new.pc \in {"lists", "done"} /\ new.rec = q.rec
          /\ new.answer = "ok" => new.pc = "done"
          /\ req' = [req EXCEPT ![r] = new]
      BY <1>3, <1>7, <2>1, NextListFacts DEF q1
    <2> HIDE DEF new
    <2>3. GoodRequest(q)'
      <3>1. new.op = q.op /\ new.pc # "idle" /\ q.pc # "idle"
        BY <1>2, <1>7, <2>2
      <3>2. QED
        BY <1>1, <1>4, <2>2, <3>1, QuietRequest
    <2>4. seen'.failed
      BY <1>7 DEF StorageFails, TrainingInv, TrainingTypeOK, History
    <2>5. GoodRequest(new)'
      BY <1>2, <1>3, <1>7, <2>2, <2>3, <2>4
         DEF GoodRequest, ReqShape, ReqRecord, ReqLists, ReqGrants, ReqFresh, ReqRevokes, Active
    <2>6. QED
      BY <1>1, <1>2, <1>3, <1>4, <1>7, <2>2, <2>5, QuietRequestStep
  <1>8. QED
    BY <1>5, <1>6, <1>7

(* StoreUserList when the list cannot be stored.                           *)
LEMMA StoreFailsInv ==
    ASSUME TrainingInv, NEW r \in Requests, StoreUserList(r), ids' = ids, StorageFails,
           req' = [req EXCEPT ![r] =
                     CASE req[r].op = "create" -> Answered(req[r], "error")
                       [] req[r].op = "update" -> NextList([req[r] EXCEPT !.answer = "error"])
                       [] req[r].op = "delete" -> NextList(req[r])]
    PROVE  TrainingInv'
  <1>1. PICK q \in RequestRecords : q = req[r]
    BY DEF TrainingInv, TrainingTypeOK
  <1>2. q.pc = "store" /\ q.model \in Models /\ GoodRequest(q) /\ q.todo \subseteq Users
    BY <1>1 DEF RequestRecords, TrainingInv, ReqInv, StoreUserList
  <1>3. /\ q.op \in {"create", "update", "delete"} /\ Active(q) /\ Stored(q.model)
        /\ q.rec \in Records /\ q.answer # "ok" /\ Left(q) = q.todo \cup {q.address}
        /\ provider[q.model] # "none"
    BY <1>2 DEF GoodRequest, ReqShape, ReqRecord, Active, Left
  <1>4. Quiet /\ worker' = worker /\ provider' = provider /\ seen'.failed
    <2>1. Quiet /\ worker' = worker /\ provider' = provider
      BY QuietOnFailure DEF StoreUserList
    <2>2. seen'.failed
      BY DEF StorageFails, TrainingInv, TrainingTypeOK, History
    <2>3. QED
      BY <2>1, <2>2
  <1> DEFINE q1 == [q EXCEPT !.answer = "error"]
  <1>5. /\ q1 \in RequestRecords /\ q1.op = q.op /\ q1.model = q.model /\ q1.rec = q.rec
        /\ q1.todo = q.todo /\ q1.new = q.new /\ q1.user = q.user /\ q1.answer = "error"
    BY DEF RequestRecords
  <1>6. PICK new : /\ req' = [req EXCEPT ![r] = new]
                   /\ \/ q.op = "create" /\ new = Answered(q, "error")
                      \/ q.op = "update" /\ new = NextList(q1)
                      \/ q.op = "delete" /\ new = NextList(q)
    BY <1>1, <1>3
  <1> HIDE DEF q1
  <1>7. CASE q.op = "create"
    <2>1. /\ new \in RequestRecords /\ new.op = q.op /\ new.model = q.model /\ new.rec = q.rec
          /\ new.pc = "done" /\ new.answer = "error" /\ ~Active(new)
      BY <1>6, <1>7, AnsweredFacts
    <2>2. GoodRequest(new)'
      BY <1>3, <1>4, <2>1, DoneIsGood
    <2>3. QED
      BY <1>1, <1>2, <1>3, <1>4, <1>6, <2>1, <2>2, QuietRequestStep
  <1>8. CASE q.op = "update"
    <2>1. /\ new \in RequestRecords /\ new.op = q.op /\ new.model = q.model
          /\ new.pc # "idle"
          /\ \/ new.pc = "done"
             \/ /\ new.pc = "lists" /\ new.rec = q.rec /\ new.new = q.new
                /\ new.todo = q.todo /\ new.answer = "error" /\ new.user = q.user
                /\ Left(new) = q.todo
      BY <1>5, <1>6, <1>8, NextListFacts
    <2>2. GoodRequest(q)'
      BY <1>1, <1>2, <1>4, <1>6, <2>1, QuietRequest
    <2>3. CASE new.pc = "done"
      <3>1. GoodRequest(new)' /\ ~Active(new)
        BY <1>3, <1>4, <1>8, <2>1, <2>3, DoneIsGood DEF Active
      <3>2. QED
        BY <1>1, <1>2, <1>4, <1>6, <1>8, <2>1, <2>3, <3>1, QuietRequestStep
    <2>4. CASE new.pc = "lists"
      <3>1. ReqLists(new)'
        BY <1>2, <1>3, <1>8, <2>1, <2>2, <2>4
           DEF GoodRequest, ReqLists, NewAddresses, ListsToStore
      <3>2. GoodRequest(new)'
        BY <1>2, <1>3, <1>8, <2>1, <2>2, <2>4, <3>1
           DEF GoodRequest, ReqShape, ReqRecord, ReqGrants, ReqFresh, ReqRevokes, Active
      <3>3. QED
        BY <1>1, <1>2, <1>3, <1>4, <1>6, <1>8, <2>1, <3>2, QuietRequestStep
    <2>5. QED
      BY <2>1, <2>3, <2>4
  <1>9. CASE q.op = "delete"
    <2>1. /\ new \in RequestRecords /\ new.op = "delete" /\ new.model = q.model
          /\ new.pc \in {"lists", "done"} /\ new.rec = q.rec
          /\ new.answer = "ok" => new.pc = "done"
      BY <1>3, <1>6, <1>9, NextListFacts
    <2>2. new.op = q.op /\ new.pc # "idle" /\ q.pc # "idle"
      BY <1>2, <1>9, <2>1
    <2>3. GoodRequest(q)'
      BY <1>1, <1>4, <1>6, <2>1, <2>2, QuietRequest
    <2>4. GoodRequest(new)'
      BY <1>2, <1>3, <1>4, <1>9, <2>1, <2>3
         DEF GoodRequest, ReqShape, ReqRecord, ReqLists, ReqGrants, ReqFresh, ReqRevokes, Active
    <2>5. QED
      BY <1>1, <1>3, <1>4, <1>6, <2>1, <2>2, <2>4, QuietRequestStep
  <1>10. QED
    BY <1>3, <1>7, <1>8, <1>9

(* What a request stores in the list of user u, seen from the invariant.   *)
LEMMA ListedFacts ==
    ASSUME TrainingInv, NEW r \in Requests, NEW q \in RequestRecords, q = req[r], q.pc = "store",
           NEW n \in Nat, n = Listed(q, q.list[q.model])
    PROVE  LET u == q.address
               m == q.model
           IN  /\ n > 0 => u \in seen.granted[m]
               /\ q.op = "create" => n > 0
               /\ q.op = "update" => n = q.list[m] \/ (n > 0 /\ <<u, m>> \in seen.added)
               /\ q.op = "delete" => n <= q.list[m] /\ (q.list[m] <= 1 => n = 0)
               /\ ids[u] = q.list /\ u \notin seen.clobbered /\ <<u, m>> \notin seen.added => n <= 1
  <1> DEFINE u == q.address
             m == q.model
  <1>1. /\ GoodRequest(q) /\ u \in Users /\ m \in Models /\ q.list \in [Models -> Nat]
        /\ q.op \in {"create", "update", "delete"} /\ u \in Left(q) /\ q.list[m] \in Nat
        /\ q.rec \in Records
    BY DEF RequestRecords, TrainingInv, ReqInv, GoodRequest, ReqShape, ReqRecord, Active, Left
  <1>2. q.list[m] > 0 => u \in seen.granted[m]
    BY <1>1 DEF GoodRequest, ReqLists
  <1>3. u \notin seen.clobbered /\ <<u, m>> \notin seen.added => ids[u][m] <= 1
    BY <1>1 DEF TrainingInv, IdsInv
  <1>4. CASE q.op = "create"
    <2>1. n = q.list[m] + 1
      BY <1>4 DEF Listed
    <2>2. u \in seen.granted[m]
      BY <1>1, <1>4 DEF GoodRequest, ReqLists
    <2>3. u \notin seen.clobbered /\ <<u, m>> \notin seen.added => ids[u][m] = 0
      BY <1>1, <1>4 DEF GoodRequest, ReqFresh
    <2>4. QED
      BY <1>1, <1>4, <2>1, <2>2, <2>3
  <1>5. CASE q.op = "update"
    <2>1. n = IF q.new # {} /\ u \in NewAddresses(q) THEN q.list[m] + 2 ELSE q.list[m]
      BY <1>5 DEF Listed
    <2>2. NewAddresses(q) \subseteq seen.granted[m] /\ u \in ListsToStore(q)
      BY <1>1, <1>5 DEF GoodRequest, ReqLists
    <2>3. q.new # {} /\ u \in NewAddresses(q) => u \notin q.rec.addresses
      BY <1>5, <2>2 DEF ListsToStore
    <2>4. q.new # {} /\ u \in NewAddresses(q) => <<u, m>> \in seen.added
      BY <1>1, <1>5, <2>2, <2>3 DEF GoodRequest, ReqLists
    <2>5. QED
      BY <1>1, <1>2, <1>3, <1>5, <2>1, <2>2, <2>4
  <1>6. CASE q.op = "delete"
    <2>1. n = IF q.list[m] = 0 THEN 0 ELSE q.list[m] - 1
      BY <1>6 DEF Listed
    <2>2. QED
      BY <1>1, <1>2, <1>3, <1>6, <2>1
  <1>7. QED
    BY <1>1, <1>4, <1>5, <1>6

LEMMA ListedType ==
    ASSUME NEW q \in RequestRecords, q.op \in {"create", "update", "delete"}
    PROVE  Listed(q, q.list[q.model]) \in Nat
  <1>1. q.list[q.model] \in Nat
    BY DEF RequestRecords
  <1>2. PICK k \in Nat : k = q.list[q.model]
    BY <1>1
  <1>3. CASE q.op = "create"
    BY <1>2, <1>3 DEF Listed
  <1>4. CASE q.op = "update"
    BY <1>2, <1>4 DEF Listed
  <1>5. CASE q.op = "delete"
    BY <1>2, <1>5 DEF Listed
  <1>6. QED
    BY <1>3, <1>4, <1>5

LEMMA StoreUserListInv ==
    ASSUME TrainingInv, NEW r \in Requests, StoreUserList(r)
    PROVE  TrainingInv'
  <1>1. PICK q \in RequestRecords : q = req[r]
    BY DEF TrainingInv, TrainingTypeOK
  <1>2. q.pc = "store" /\ q.model \in Models /\ GoodRequest(q) /\ q.todo \subseteq Users
        /\ q.address \in Users /\ q.list \in [Models -> Nat]
    BY <1>1 DEF RequestRecords, TrainingInv, ReqInv, StoreUserList
  <1>3. /\ q.op \in {"create", "update", "delete"} /\ Active(q) /\ Stored(q.model)
        /\ q.rec \in Records /\ q.answer # "ok" /\ Left(q) = q.todo \cup {q.address}
        /\ provider[q.model] # "none" /\ q.address \notin q.todo
    BY <1>2 DEF GoodRequest, ReqShape, ReqRecord, Active, Left
  <1> DEFINE u == q.address
             m == q.model
             q1 == [q EXCEPT !.answer = NoAnswer]
             new == NextList(q1)
  <1>4. CASE /\ ids' = [ids EXCEPT ![u] = [q.list EXCEPT ![m] = Listed(q, q.list[m])]]
             /\ seen' = [seen EXCEPT !.clobbered = IF ids[u] = q.list THEN @ ELSE @ \cup {u}]
             /\ req' = [req EXCEPT ![r] = new]
    <2>1. PICK n \in Nat : n = Listed(q, q.list[m])
      BY <1>3, ListedType
    <2>2. /\ ids \in UserLists /\ ids' \in UserLists
          /\ \A v \in Users, k \in Models :
               ids'[v][k] = IF v = u THEN IF k = m THEN n ELSE q.list[k] ELSE ids[v][k]
      BY <1>2, <1>4, <2>1 DEF TrainingInv, TrainingTypeOK, UserLists
    <2>3. /\ seen' \in History /\ seen'.granted = seen.granted /\ seen'.asked = seen.asked
          /\ seen'.quoted = seen.quoted /\ seen'.added = seen.added
          /\ seen'.overwritten = seen.overwritten /\ seen'.failed = seen.failed
          /\ seen'.overtaken = seen.overtaken
          /\ seen.clobbered \subseteq seen'.clobbered
          /\ u \notin seen'.clobbered => ids[u] = q.list
          /\ \A v \in seen'.clobbered : v = u \/ v \in seen.clobbered
      <3>1. PICK c : c = IF ids[u] = q.list THEN seen.clobbered ELSE seen.clobbered \cup {u}
        OBVIOUS
      <3>2. seen' = [seen EXCEPT !.clobbered = c] /\ seen \in History
        BY <1>4, <3>1 DEF TrainingInv, TrainingTypeOK
      <3>3. c \in SUBSET Users /\ seen.clobbered \subseteq c /\ (u \notin c => ids[u] = q.list)
            /\ \A v \in c : v = u \/ v \in seen.clobbered
        BY <1>2, <3>1, <3>2 DEF History
      <3>4. QED
        BY <3>2, <3>3 DEF History
    <2>4. /\ model' = model /\ pending' = pending /\ public' = public /\ provider' = provider
          /\ worker' = worker /\ \A k \in Models : Stored(k)' = Stored(k)
      BY DEF StoreUserList, Stored
    <2>5. /\ n > 0 => u \in seen.granted[m]
          /\ q.op = "create" => n > 0
          /\ q.op = "update" => n = q.list[m] \/ (n > 0 /\ <<u, m>> \in seen.added)
          /\ q.op = "delete" => n <= q.list[m] /\ (q.list[m] <= 1 => n = 0)
          /\ ids[u] = q.list /\ u \notin seen.clobbered /\ <<u, m>> \notin seen.added => n <= 1
      BY <1>1, <1>2, <2>1, ListedFacts
    <2>6. IdsInv'
      <3> SUFFICES ASSUME NEW v \in Users, NEW k \in Models
                   PROVE  /\ ids'[v][k] > 0 => v \in seen'.granted[k] /\ Stored(k)'
                          /\ v \notin seen'.clobbered /\ <<v, k>> \notin seen'.added
                                => ids'[v][k] <= 1
        BY DEF IdsInv
      <3>1. /\ ids[v][k] > 0 => v \in seen.granted[k] /\ Stored(k)
            /\ v \notin seen.clobbered /\ <<v, k>> \notin seen.added => ids[v][k] <= 1
        BY DEF TrainingInv, IdsInv
      <3>2. CASE v # u
        BY <2>2, <2>3, <2>4, <3>1, <3>2
      <3>3. CASE v = u /\ k # m
        <4>1. q.list[k] > 0 => v \in seen.granted[k] /\ Stored(k)
          BY <1>2, <3>3 DEF GoodRequest, ReqLists
        <4>2. QED
          BY <2>2, <2>3, <2>4, <3>1, <3>3, <4>1
      <3>4. CASE v = u /\ k = m
        BY <1>3, <2>2, <2>3, <2>4, <2>5, <3>4
      <3>5. QED
        BY <3>2, <3>3, <3>4
    <2>7. StoredInv' /\ WorkerInv' /\ LostUpdatesNeedARace'
      BY <2>3, <2>4 DEF TrainingInv, StoredInv, WorkerInv, LostUpdatesNeedARace
    <2>8. OnlyChanges(r)
      <3>1. ASSUME NEW v \in Users, NEW k \in Models, v \notin seen'.clobbered
            PROVE  ids'[v][k] = ids[v][k] \/ Relists(r, v, k)
        <4>1. CASE v # u \/ k # m
          BY <2>2, <2>3, <3>1, <4>1
        <4>2. CASE v = u /\ k = m
          <5>1. ids'[v][k] = n /\ ids[v][k] = q.list[m] /\ q.list[m] \in Nat
            BY <1>2, <2>2, <2>3, <3>1, <4>2
          <5>2. QED
            BY <1>1, <1>3, <2>3, <2>5, <4>2, <5>1 DEF Relists
        <4>3. QED
          BY <4>1, <4>2
      <3>2. QED
        BY <2>3, <2>4, <3>1 DEF OnlyChanges, DataGrows
    <2>9. /\ q1 \in RequestRecords /\ q1.op = q.op /\ q1.model = q.model /\ q1.rec = q.rec
          /\ q1.todo = q.todo /\ q1.new = q.new /\ q1.user = q.user /\ q1.answer = NoAnswer
      BY DEF RequestRecords
    <2> HIDE DEF q1
    <2>10. /\ new \in RequestRecords /\ new.op = q.op /\ new.model = q.model
           /\ new.pc \in {"lists", "public", "done"} /\ Left(new) = q.todo
           /\ q.op \in {"create", "delete"} => new.rec = q.rec
           /\ new.pc = "lists" => new.rec = q.rec /\ new.new = q.new /\ new.todo = q.todo
                                   /\ new.user = q.user
           /\ new.pc = "public" => q.op = "create" /\ new.rec = q.rec
           /\ new.answer = "ok" => new.pc = "done"
           /\ new.pc = "done" /\ q.op = "create" => ~q.rec.public
      <3>1. /\ new \in RequestRecords /\ new.op = q1.op /\ new.model = q1.model
            /\ \/ /\ new.pc = "lists" /\ new.rec = q1.rec /\ new.new = q1.new
                  /\ new.todo = q1.todo /\ new.answer = q1.answer /\ new.user = q1.user
                  /\ Left(new) = q1.todo
               \/ /\ new.pc = "public" /\ new.rec = q1.rec /\ q1.op = "create"
                  /\ q1.todo = {} /\ new.answer = q1.answer /\ Left(new) = {}
               \/ /\ new.pc = "done" /\ q1.todo = {} /\ Left(new) = {}
                  /\ ~(q1.op = "create" /\ q1.rec.public)
                  /\ q1.op \in {"create", "delete"} => new.rec = q1.rec
        BY <2>9, NextListFacts
      <3> HIDE DEF new
      <3>2. QED
        BY <2>9, <3>1 DEF NoAnswer
    <2> HIDE DEF new
    <2>11. \A k \in Models : DeleteRequested(k)' <=> DeleteRequested(k)
      BY <1>1, <1>2, <1>4, <2>10 DEF DeleteRequested, TrainingInv, TrainingTypeOK
    <2>12. ReqShape(new)' /\ ReqRecord(new)'
      BY <1>2, <1>3, <2>4, <2>10 DEF GoodRequest, ReqShape, ReqRecord, Active
    <2>13. ReqLists(new)'
      BY <1>2, <1>3, <2>3, <2>10 DEF GoodRequest, ReqLists, NewAddresses, ListsToStore
    <2>14. ReqGrants(new)'
      <3> SUFFICES ASSUME q.op = "create", ~DeleteRequested(m)',
                          NEW v \in q.rec.addresses \ seen'.clobbered
                   PROVE  v \in q.todo \/ ids'[v][m] > 0
        BY <2>10 DEF ReqGrants
      <3>1. v \in Left(q) \/ ids[v][m] > 0
        BY <1>2, <2>3, <2>11 DEF GoodRequest, ReqGrants
      <3>2. v \in Users
        BY <1>3 DEF Records
      <3>3. QED
        BY <1>2, <1>3, <2>2, <2>5, <3>1, <3>2
    <2>15. ReqFresh(new)'
      <3> SUFFICES ASSUME q.op = "create", NEW v \in q.todo \ seen'.clobbered
                   PROVE  <<v, m>> \in seen'.added \/ ids'[v][m] = 0
        BY <2>10 DEF ReqFresh
      <3>1. v # u /\ v \in Users
        BY <1>2, <1>3
      <3>2. <<v, m>> \in seen.added \/ ids[v][m] = 0
        BY <1>2, <1>3, <2>3 DEF GoodRequest, ReqFresh
      <3>3. QED
        BY <1>2, <2>2, <2>3, <3>1, <3>2
    <2>16. ReqRevokes(new)'
      <3> SUFFICES ASSUME q.op = "delete", ~seen'.failed, m \notin seen'.overtaken,
                          NEW v \in q.rec.addresses \ seen'.clobbered
                   PROVE  v \in q.todo \/ <<v, m>> \in seen'.added \/ ids'[v][m] = 0
        BY <2>10 DEF ReqRevokes
      <3>1. v \in Users
        BY <1>3 DEF Records
      <3>2. v \in Left(q) \/ <<v, m>> \in seen.added \/ ids[v][m] = 0
        BY <1>2, <2>3 DEF GoodRequest, ReqRevokes
      <3>3. CASE v # u
        BY <1>2, <1>3, <2>2, <2>3, <3>1, <3>2, <3>3
      <3>4. CASE v = u
        <4>1. <<u, m>> \in seen.added \/ ids[u][m] <= 1
          BY <1>2, <2>3, <3>4 DEF TrainingInv, IdsInv
        <4>2. QED
          BY <1>2, <2>2, <2>3, <2>5, <3>4, <4>1
      <3>5. QED
        BY <3>3, <3>4
    <2>17. GoodRequest(new)'
      BY <2>12, <2>13, <2>14, <2>15, <2>16 DEF GoodRequest
    <2>18. new.op = "create" /\ new.answer = "ok" => ~model'[m].public
      BY <1>2, <1>3, <2>4, <2>10 DEF GoodRequest, ReqRecord
    <2>19. req' \in [Requests -> RequestRecords] /\ ReqInv' /\ Exclusive' /\ PublicInv'
      BY <1>1, <1>2, <1>3, <1>4, <2>8, <2>10, <2>17, <2>18, RequestStep
    <2>20. TrainingTypeOK'
      BY <2>2, <2>3, <2>4, <2>19 DEF TrainingInv, TrainingTypeOK
    <2>21. QED
      BY <2>6, <2>7, <2>19, <2>20 DEF TrainingInv
  <1>5. CASE /\ StorageFails /\ ids' = ids
             /\ req' = [req EXCEPT ![r] =
                     CASE q.op = "create" -> Answered(q, "error")
                       [] q.op = "update" -> NextList([q EXCEPT !.answer = "error"])
                       [] q.op = "delete" -> NextList(q)]
    BY <1>1, <1>5, StoreFailsInv
  <1>6. QED
    BY <1>1, <1>4, <1>5 DEF StoreUserList

-----------------------------------------------------------------------------
(***************************************************************************)
(* Storing a record.                                                       *)
(***************************************************************************)

LEMMA ChangedFacts ==
    ASSUME NEW q \in RequestRecords, q.rec \in Records
    PROVE  /\ Changed(q) \in Records /\ Changed(q).public = q.rec.public
           /\ q.op = "create" => Changed(q) = q.rec
           /\ q.op = "update" => Changed(q).addresses = NewAddresses(q)
           /\ q.op # "update" => Changed(q).addresses = q.rec.addresses
           /\ q.op # "create" => Changed(q).prices = q.rec.prices \cup Quoted(q)
           /\ q.op = "create" => Quoted(q) = {}
           /\ Quoted(q) \subseteq {"validate", "train"}
           /\ NewAddresses(q) \subseteq Users /\ ListsToStore(q) \subseteq Users
  <1>1. /\ q.rec.addresses \subseteq Users /\ q.new \subseteq Users /\ q.user \in Users
        /\ q.op \in Ops /\ q.status \in Statuses /\ q.rec.prices \subseteq {"validate", "train"}
    BY DEF RequestRecords, Records
  <1>2. NewAddresses(q) \subseteq Users
    BY <1>1 DEF NewAddresses
  <1>3. ListsToStore(q) \subseteq Users
    <2>1. CASE q.op \in {"create", "delete"}
      BY <1>1, <2>1 DEF ListsToStore
    <2>2. CASE q.op = "update"
      BY <1>1, <1>2, <2>2 DEF ListsToStore
    <2>3. CASE q.op \notin {"create", "update", "delete"}
      BY <2>3 DEF ListsToStore
    <2>4. QED
      BY <2>1, <2>2, <2>3
  <1>4. /\ Quoted(q) \subseteq {"validate", "train"}
        /\ q.op \notin {"validatePrice", "trainPrice"} => Quoted(q) = {}
    BY DEF Quoted
  <1>5. CASE q.op = "create"
    <2>1. Changed(q) = q.rec
      BY <1>5 DEF Changed
    <2>2. QED
      BY <1>2, <1>3, <1>4, <1>5, <2>1
  <1>6. CASE q.op = "update"
    <2>1. Changed(q) = [q.rec EXCEPT !.addresses = NewAddresses(q)]
      BY <1>6 DEF Changed
    <2>2. QED
      BY <1>2, <1>3, <1>4, <1>6, <2>1 DEF Records
  <1>7. CASE q.op = "delete"
    <2>1. Changed(q) = [q.rec EXCEPT !.status = "DELETED"]
      BY <1>7 DEF Changed
    <2>2. QED
      BY <1>2, <1>3, <1>4, <1>7, <2>1 DEF Records, Statuses
  <1>8. CASE q.op \in {"validatePrice", "trainPrice"}
    <2>1. Changed(q) = [q.rec EXCEPT !.prices = @ \cup Quoted(q)]
      BY <1>8 DEF Changed
    <2>2. QED
      BY <1>1, <1>2, <1>3, <1>4, <1>8, <2>1 DEF Records
  <1>9. CASE q.op \notin {"create", "update", "delete", "validatePrice", "trainPrice"}
    <2>1. Changed(q) = [q.rec EXCEPT !.status = q.status]
      BY <1>9 DEF Changed
    <2>2. QED
      BY <1>1, <1>2, <1>3, <1>4, <1>9, <2>1 DEF Records
  <1>10. QED
    BY <1>5, <1>6, <1>7, <1>8, <1>9

LEMMA AfterPutFacts ==
    ASSUME NEW q \in RequestRecords, q.rec \in Records, q.answer # "ok", NEW stored \in BOOLEAN
    PROVE  LET new == AfterPut(q, stored)
               todo == ListsToStore(q)
           IN  /\ new \in RequestRecords /\ new.op = q.op /\ new.model = q.model
               /\ q.op \in {"create", "delete"} => new.rec = q.rec
               /\ \/ /\ new.pc = "lists" /\ new.rec = q.rec /\ new.new = q.new
                     /\ new.todo = todo /\ new.answer # "ok" /\ new.user = q.user
                     /\ Left(new) = todo
                     /\ q.op \in {"create", "update", "delete"} /\ (q.op = "create" => stored)
                  \/ /\ new.pc = "public" /\ new.rec = q.rec /\ q.op = "create" /\ stored
                     /\ todo = {} /\ new.answer # "ok" /\ Left(new) = {}
                  \/ /\ new.pc = "done" /\ Left(new) = {}
                     /\ q.op = "delete" => todo = {}
                     /\ q.op = "create" /\ new.answer = "ok" =>
                          ~q.rec.public /\ stored /\ todo = {}
  <1> DEFINE q1 == [q EXCEPT !.todo = ListsToStore(q), !.answer =
                        IF q.op = "update" /\ ~stored THEN "error" ELSE NoAnswer]
  <1>1. /\ q1 \in RequestRecords /\ q1.op = q.op /\ q1.model = q.model /\ q1.rec = q.rec
        /\ q1.todo = ListsToStore(q) /\ q1.answer # "ok" /\ q1.new = q.new /\ q1.user = q.user
    BY ChangedFacts DEF RequestRecords, NoAnswer
  <1>2. CASE q.op \in {"create", "update", "delete"} /\ ~(q.op = "create" /\ ~stored)
    <2>1. AfterPut(q, stored) = NextList(q1)
      BY <1>2 DEF AfterPut
    <2> HIDE DEF q1
    <2> DEFINE new == NextList(q1)
    <2>2. /\ new \in RequestRecords /\ new.op = q1.op /\ new.model = q1.model
            /\ \/ /\ new.pc = "lists" /\ new.rec = q1.rec /\ new.new = q1.new
                  /\ new.todo = q1.todo /\ new.answer = q1.answer /\ new.user = q1.user
                  /\ Left(new) = q1.todo
               \/ /\ new.pc = "public" /\ new.rec = q1.rec /\ q1.op = "create"
                  /\ q1.todo = {} /\ new.answer = q1.answer /\ Left(new) = {}
               \/ /\ new.pc = "done" /\ q1.todo = {} /\ Left(new) = {}
                  /\ ~(q1.op = "create" /\ q1.rec.public)
                  /\ q1.op \in {"create", "delete"} => new.rec = q1.rec
      BY <1>1, NextListFacts
    <2> HIDE DEF new
    <2>3. QED
      BY <1>1, <1>2, <2>1, <2>2 DEF new
  <1>3. CASE q.op = "create" /\ ~stored
    <2>1. AfterPut(q, stored) = Answered(q, "error")
      BY <1>3 DEF AfterPut
    <2>2. QED
      BY <1>3, <2>1, AnsweredFacts
  <1>4. CASE q.op \in {"validate", "train"}
    <2>1. AfterPut(q, stored) = [Answered(q, "ok") EXCEPT !.pend = TRUE]
      BY <1>4 DEF AfterPut
    <2>2. /\ Answered(q, "ok") \in RequestRecords /\ Answered(q, "ok").pc = "done"
          /\ Answered(q, "ok").op = q.op /\ Answered(q, "ok").model = q.model
      BY AnsweredFacts
    <2>3. QED
      BY <1>4, <2>1, <2>2 DEF RequestRecords, Left
  <1>5. CASE q.op \notin {"create", "update", "delete", "validate", "train"}
    <2>1. PICK answer \in {"ok", "error"} : AfterPut(q, stored) = Answered(q, answer)
      BY <1>5 DEF AfterPut
    <2>2. QED
      BY <1>5, <2>1, AnsweredFacts
  <1>6. QED
    BY <1>2, <1>3, <1>4, <1>5

(* The request after its Put, whether the record is stored or not.         *)
LEMMA AfterPutIsGood ==
    ASSUME TrainingInv, NEW r \in Requests, NEW q \in RequestRecords, q = req[r], q.pc = "put",
           NEW stored \in BOOLEAN, NEW new, new = AfterPut(q, stored),
           ids' = ids, provider' = provider, seen'.clobbered = seen.clobbered,
           seen.granted[q.model] \subseteq seen'.granted[q.model],
           seen.added \subseteq seen'.added,
           q.op \in {"create", "update"} => Changed(q).addresses \subseteq seen'.granted[q.model],
           q.op = "update" =>
              \A u \in ListsToStore(q) \ q.rec.addresses : <<u, q.model>> \in seen'.added,
           Stored(q.model)' \/ (q.op = "create" /\ ~stored),
           Stored(q.model)' => model'[q.model].public = q.rec.public
    PROVE  GoodRequest(new)'
  <1> DEFINE m == q.model
             todo == ListsToStore(q)
  <1>1. /\ GoodRequest(q) /\ m \in Models /\ Active(q) /\ q.rec \in Records
        /\ q.answer # "ok" /\ provider[m] # "none"
        /\ q.op = "create" => ~Stored(m)
    BY DEF RequestRecords, TrainingInv, ReqInv, GoodRequest, ReqShape, ReqRecord, Active
  <1>2. /\ new \in RequestRecords /\ new.op = q.op /\ new.model = m
        /\ q.op \in {"create", "delete"} => new.rec = q.rec
        /\ \/ /\ new.pc = "lists" /\ new.rec = q.rec /\ new.new = q.new
              /\ new.todo = todo /\ new.answer # "ok" /\ new.user = q.user
              /\ Left(new) = todo
              /\ q.op \in {"create", "update", "delete"} /\ (q.op = "create" => stored)
           \/ /\ new.pc = "public" /\ new.rec = q.rec /\ q.op = "create" /\ stored
              /\ todo = {} /\ new.answer # "ok" /\ Left(new) = {}
           \/ /\ new.pc = "done" /\ Left(new) = {}
              /\ q.op = "delete" => todo = {}
              /\ q.op = "create" /\ new.answer = "ok" => ~q.rec.public /\ stored /\ todo = {}
    BY <1>1, AfterPutFacts
  <1>3. /\ q.op \in {"create", "delete"} => todo = q.rec.addresses
        /\ q.op = "update" => Changed(q).addresses = NewAddresses(q)
        /\ q.op = "create" => Changed(q).addresses = q.rec.addresses
        /\ todo \subseteq Users
    BY <1>1, ChangedFacts DEF ListsToStore
  <1> HIDE DEF todo
  <1>4. ReqShape(new)' /\ ReqRecord(new)'
    BY <1>1, <1>2 DEF GoodRequest, ReqShape, ReqRecord, Active
  <1>5. new.pc = "lists" => NewAddresses(new) = NewAddresses(q) /\ ListsToStore(new) = todo
    BY <1>2 DEF NewAddresses, ListsToStore, todo
  <1>6. ReqLists(new)'
    <2>1. new.pc = "lists" /\ q.op = "create" =>
            q.rec.addresses \subseteq seen'.granted[m] /\ Left(new) \subseteq q.rec.addresses
      BY <1>2, <1>3
    <2>2. new.pc = "lists" /\ q.op = "update" =>
            /\ NewAddresses(new) \subseteq seen'.granted[m]
            /\ Left(new) \subseteq ListsToStore(new)
            /\ \A u \in ListsToStore(new) \ new.rec.addresses : <<u, m>> \in seen'.added
      BY <1>2, <1>3, <1>5 DEF todo
    <2>3. QED
      BY <1>2, <2>1, <2>2 DEF ReqLists
  <1>7. ReqGrants(new)' /\ ReqRevokes(new)'
    BY <1>2, <1>3 DEF ReqGrants, ReqRevokes
  <1>8. ReqFresh(new)'
    <2> SUFFICES ASSUME q.op = "create", NEW u \in Left(new)
                 PROVE  ids'[u][m] = 0
      BY <1>2 DEF ReqFresh
    <2>1. u \in Users /\ ~Stored(m) /\ ids[u][m] \in Nat
      BY <1>1, <1>2, <1>3 DEF TrainingInv, TrainingTypeOK, UserLists
    <2>2. ids[u][m] > 0 => Stored(m)
      BY <1>1, <2>1 DEF TrainingInv, IdsInv
    <2>3. QED
      BY <2>1, <2>2
  <1>9. QED
    BY <1>4, <1>6, <1>7, <1>8 DEF GoodRequest

LEMMA PutModelDataInv ==
    ASSUME TrainingInv, NEW r \in Requests, PutModelData(r)
    PROVE  TrainingInv'
  <1>1. PICK q \in RequestRecords : q = req[r]
    BY DEF TrainingInv, TrainingTypeOK
  <1> DEFINE m == q.model
  <1>2. /\ GoodRequest(q) /\ m \in Models /\ Active(q) /\ q.rec \in Records
        /\ q.answer # "ok" /\ provider[m] # "none" /\ q.pc = "put"
        /\ q.op = "create" => ~Stored(m) /\ q.rec.prices = {}
        /\ q.op # "create" => Stored(m)
        /\ Stored(m) => model[m].public = q.rec.public
    BY <1>1 DEF RequestRecords, TrainingInv, ReqInv, GoodRequest, ReqShape, ReqRecord, Active,
       PutModelData
  <1> DEFINE Granted(p) == IF p.op \in {"create", "update"} THEN Changed(p).addresses ELSE {}
             Fresh(p) == model[p.model] = (IF p.op = "create" THEN NoModel ELSE p.rec)
             Added(p) == IF p.op = "update" THEN ListsToStore(p) \ p.rec.addresses ELSE {}
             Dropped(p) == IF p.op = "update" THEN p.rec.addresses \ Changed(p).addresses ELSE {}
             Named(p) == [seen EXCEPT !.granted[p.model] = @ \cup Granted(p),
                                      !.added = @ \cup (Added(p) \X {p.model}),
                                      !.dropped = @ \cup (Dropped(p) \X {p.model})]
             Kept(p) == [Named(p) EXCEPT
                !.asked[p.model] = IF p.op \in {"create", "update"} THEN Changed(p).addresses ELSE @,
                !.quoted[p.model] = @ \cup Quoted(p),
                !.overwritten = IF Fresh(p) THEN @ ELSE @ \cup {p.model}]
             Failed(p) == [Named(p) EXCEPT !.failed = TRUE]
  <1>6. /\ ids' = ids /\ pending' = pending /\ public' = public /\ provider' = provider
        /\ worker' = worker
        /\ \/ /\ model' = [model EXCEPT ![req[r].model] = Changed(req[r])]
              /\ seen' = Kept(req[r])
              /\ req' = [req EXCEPT ![r] = AfterPut(req[r], TRUE)]
           \/ /\ seen' = Failed(req[r])
              /\ req' = [req EXCEPT ![r] = AfterPut(req[r], FALSE)]
              /\ model' = model
    BY DEF PutModelData
  <1> HIDE DEF Granted, Fresh, Added, Dropped, Named, Kept, Failed
  <1>7. /\ ids' = ids /\ pending' = pending /\ public' = public /\ provider' = provider
        /\ worker' = worker
        /\ \/ /\ model' = [model EXCEPT ![m] = Changed(q)]
              /\ seen' = Kept(q) /\ req' = [req EXCEPT ![r] = AfterPut(q, TRUE)]
           \/ /\ seen' = Failed(q) /\ req' = [req EXCEPT ![r] = AfterPut(q, FALSE)]
              /\ model' = model
    BY <1>1, <1>6
  <1> DEFINE rec == Changed(q)
             granted == Granted(q)
             fresh == Fresh(q)
             added == Added(q)
             dropped == Dropped(q)
             named == Named(q)
  <1>3. rec \in Records
    BY <1>2, ChangedFacts
  <1>4. granted \in SUBSET Users
    BY <1>3 DEF Records, Granted
  <1>5. added \in SUBSET Users /\ dropped \in SUBSET Users
    BY <1>2, ChangedFacts DEF Added, Dropped, Records
  <1> HIDE DEF rec, granted, fresh, added, dropped, named
  <1>8. /\ seen \in History /\ named \in History
        /\ named.granted[m] = seen.granted[m] \cup granted
        /\ \A k \in Models \ {m} : named.granted[k] = seen.granted[k]
        /\ named.added = seen.added \cup (added \X {m})
        /\ named.asked = seen.asked /\ named.quoted = seen.quoted
        /\ named.clobbered = seen.clobbered /\ named.overwritten = seen.overwritten
        /\ named.failed = seen.failed /\ named.overtaken = seen.overtaken
    <2>1. seen \in History
      BY DEF TrainingInv, TrainingTypeOK
    <2>2. added \X {m} \in SUBSET (Users \X Models)
      BY <1>2, <1>5
    <2>3. PICK pairs \in SUBSET (Users \X Models) : pairs = added \X {m}
      BY <2>2
    <2>4. PICK lost \in SUBSET (Users \X Models) : lost = dropped \X {m}
      BY <1>2, <1>5
    <2>5. named = [seen EXCEPT !.granted[m] = @ \cup granted, !.added = @ \cup pairs,
                               !.dropped = @ \cup lost]
      BY <2>3, <2>4 DEF named, Named, granted, added, dropped
    <2>6. QED
      BY <1>2, <1>4, <2>1, <2>3, <2>5 DEF History
  <1>9. PICK stored \in BOOLEAN :
          /\ req' = [req EXCEPT ![r] = AfterPut(q, stored)]
          /\ IF stored
             THEN /\ model' = [model EXCEPT ![m] = rec]
                  /\ seen' = [named EXCEPT
                        !.asked[m] = IF q.op \in {"create", "update"} THEN rec.addresses ELSE @,
                        !.quoted[m] = @ \cup Quoted(q),
                        !.overwritten = IF fresh THEN @ ELSE @ \cup {m}]
             ELSE seen' = [named EXCEPT !.failed = TRUE] /\ model' = model
    <2>1. /\ Failed(q) = [named EXCEPT !.failed = TRUE]
          /\ Kept(q) = [named EXCEPT
                !.asked[m] = IF q.op \in {"create", "update"} THEN rec.addresses ELSE @,
                !.quoted[m] = @ \cup Quoted(q),
                !.overwritten = IF fresh THEN @ ELSE @ \cup {m}]
      BY DEF Kept, Failed, named, rec, fresh
    <2>2. CASE seen' = Kept(q)
      BY <1>7, <2>1, <2>2 DEF rec
    <2>3. QED
      BY <1>7, <2>1 DEF rec
  <1>10. /\ seen' \in History /\ seen'.granted = named.granted /\ seen'.added = named.added
         /\ seen'.clobbered = seen.clobbered /\ (seen.failed => seen'.failed)
         /\ seen'.overtaken = seen.overtaken
         /\ ~stored => seen'.asked = seen.asked /\ seen'.quoted = seen.quoted
                        /\ seen'.overwritten = seen.overwritten
         /\ stored =>
              /\ seen'.asked[m] = IF q.op \in {"create", "update"} THEN rec.addresses ELSE seen.asked[m]
              /\ seen'.quoted[m] = seen.quoted[m] \cup Quoted(q)
              /\ \A k \in Models \ {m} : seen'.asked[k] = seen.asked[k]
                                          /\ seen'.quoted[k] = seen.quoted[k]
              /\ seen.overwritten \subseteq seen'.overwritten
              /\ m \in seen'.overwritten \/ fresh
    <2>1. CASE stored
      <3>1. PICK asked \in SUBSET Users :
              asked = IF q.op \in {"create", "update"} THEN rec.addresses ELSE seen.asked[m]
        BY <1>2, <1>3, <1>8 DEF History, Records
      <3>2. PICK quoted \in SUBSET {"validate", "train"} : quoted = seen.quoted[m] \cup Quoted(q)
        BY <1>2, <1>8, ChangedFacts DEF History
      <3>3. PICK over \in SUBSET Models :
              over = IF fresh THEN seen.overwritten ELSE seen.overwritten \cup {m}
        <4>1. seen.overwritten \in SUBSET Models
          BY <1>8 DEF History
        <4>2. seen.overwritten \cup {m} \in SUBSET Models
          BY <1>2, <4>1
        <4>3. (IF fresh THEN seen.overwritten ELSE seen.overwritten \cup {m}) \in SUBSET Models
          BY <4>1, <4>2, Zenon
        <4>4. QED
          BY <4>3, Zenon
      <3>4. seen' = [named EXCEPT !.asked[m] = asked, !.quoted[m] = quoted, !.overwritten = over]
        BY <1>8, <1>9, <2>1, <3>1, <3>2, <3>3
      <3>5. /\ seen' \in History /\ seen'.granted = named.granted /\ seen'.added = named.added
            /\ seen'.clobbered = named.clobbered /\ seen'.failed = named.failed
            /\ seen'.overtaken = named.overtaken
            /\ seen'.asked = [named.asked EXCEPT ![m] = asked]
            /\ seen'.quoted = [named.quoted EXCEPT ![m] = quoted]
            /\ seen'.overwritten = over
        BY <1>2, <1>8, <3>4 DEF History
      <3>6. named.asked \in [Models -> SUBSET Users]
            /\ named.quoted \in [Models -> SUBSET {"validate", "train"}]
        BY <1>8 DEF History
      <3>7. /\ seen'.asked[m] = asked /\ seen'.quoted[m] = quoted
            /\ \A k \in Models \ {m} : seen'.asked[k] = seen.asked[k]
                                        /\ seen'.quoted[k] = seen.quoted[k]
        BY <1>2, <1>8, <3>5, <3>6
      <3>8. seen.overwritten \subseteq over /\ (m \in over \/ fresh)
        BY <3>3
      <3>9. /\ seen'.clobbered = seen.clobbered /\ (seen.failed => seen'.failed)
            /\ seen'.overtaken = seen.overtaken
            /\ seen'.overwritten = over
        BY <1>8, <3>5
      <3>10. seen'.asked[m] = IF q.op \in {"create", "update"} THEN rec.addresses ELSE seen.asked[m]
        BY <3>1, <3>7
      <3>11. seen'.quoted[m] = seen.quoted[m] \cup Quoted(q)
        BY <3>2, <3>7
      <3>12. seen.overwritten \subseteq seen'.overwritten /\ (m \in seen'.overwritten \/ fresh)
        BY <3>8, <3>9
      <3> HIDE DEF m
      <3>13. QED
        BY <2>1, <3>5, <3>7, <3>9, <3>10, <3>11, <3>12
    <2>2. CASE ~stored
      <3>1. seen' = [named EXCEPT !.failed = TRUE]
        BY <1>9, <2>2
      <3>2. /\ seen' \in History /\ seen'.granted = named.granted /\ seen'.added = named.added
            /\ seen'.clobbered = named.clobbered /\ seen'.failed /\ seen'.asked = named.asked
            /\ seen'.quoted = named.quoted /\ seen'.overwritten = named.overwritten
            /\ seen'.overtaken = named.overtaken
        BY <1>8, <3>1 DEF History
      <3>3. QED
        BY <1>8, <2>2, <3>2
    <2>3. QED
      BY <2>1, <2>2
  <1>11. /\ model \in [Models -> Records \cup {NoModel}]
         /\ model' \in [Models -> Records \cup {NoModel}]
         /\ stored => Stored(m)' /\ model'[m] = rec
         /\ ~stored => model' = model
         /\ \A k \in Models \ {m} : model'[k] = model[k] /\ (Stored(k)' <=> Stored(k))
    BY <1>2, <1>3, <1>9, NoModelFacts DEF TrainingInv, TrainingTypeOK, Stored
  <1>12. rec.public = q.rec.public
    BY <1>2, ChangedFacts DEF rec
  <1>13. OnlyChanges(r)
    <2>1. DataGrows
      BY <1>2, <1>7, <1>8, <1>10, <1>11, <1>12 DEF DataGrows, Stored
    <2>2. QED
      BY <1>1, <1>2, <1>7, <1>11, <2>1 DEF OnlyChanges, Stored
  <1>14. PICK new : new = AfterPut(q, stored)
    OBVIOUS
  <1>15. GoodRequest(new)'
    <2>1. Stored(m)' \/ (q.op = "create" /\ ~stored)
      BY <1>2, <1>11 DEF Stored
    <2>2. Stored(m)' => model'[m].public = q.rec.public
      BY <1>2, <1>11, <1>12 DEF Stored
    <2>3. /\ seen.granted[m] \subseteq seen'.granted[m] /\ seen.added \subseteq seen'.added
          /\ q.op \in {"create", "update"} => Changed(q).addresses \subseteq seen'.granted[m]
          /\ q.op = "update" =>
                \A u \in ListsToStore(q) \ q.rec.addresses : <<u, m>> \in seen'.added
      BY <1>5, <1>8, <1>10 DEF granted, added, rec, Granted, Added
    <2>4. QED
      BY <1>1, <1>2, <1>7, <1>10, <1>14, <2>1, <2>2, <2>3, AfterPutIsGood
  <1>16. /\ new \in RequestRecords /\ new.op = q.op /\ new.model = m
         /\ new.pc \in {"lists", "public", "done"}
         /\ q.op = "create" /\ new.answer = "ok" => ~q.rec.public /\ stored
    <2>1. /\ new \in RequestRecords /\ new.op = q.op /\ new.model = q.model
          /\ \/ /\ new.pc = "lists" /\ new.answer # "ok"
             \/ /\ new.pc = "public" /\ new.answer # "ok"
             \/ /\ new.pc = "done"
                /\ q.op = "create" /\ new.answer = "ok" => ~q.rec.public /\ stored
      BY <1>2, <1>14, AfterPutFacts
    <2>2. QED
      BY <2>1
  <1>17. req' \in [Requests -> RequestRecords] /\ ReqInv' /\ Exclusive' /\ PublicInv'
    <2>1. new.op = "create" /\ new.answer = "ok" => ~model'[m].public
      BY <1>11, <1>12, <1>16
    <2>2. req' = [req EXCEPT ![r] = new]
      BY <1>9, <1>14
    <2>3. new.pc # "idle" /\ q.pc # "idle"
      BY <1>2, <1>16
    <2>4. QED
      BY <1>1, <1>2, <1>13, <1>15, <1>16, <2>1, <2>2, <2>3, RequestStep
  <1>18. StoredInv'
    <2> SUFFICES ASSUME NEW k \in Models
                 PROVE  /\ Stored(k)' => provider'[k] # "none"
                        /\ k \in public' => Stored(k)'
                        /\ ~Stored(k)' => seen'.quoted[k] = {}
      BY DEF StoredInv
    <2>1. /\ Stored(k) => provider[k] # "none"
          /\ k \in public => Stored(k)
          /\ ~Stored(k) => seen.quoted[k] = {}
      BY DEF TrainingInv, StoredInv
    <2>2. QED
      BY <1>2, <1>7, <1>10, <1>11, <2>1 DEF Stored
  <1>19. IdsInv'
    BY <1>7, <1>13, <1>10 DEF TrainingInv, IdsInv, OnlyChanges, DataGrows
  <1>20. WorkerInv'
    BY <1>7, <1>13 DEF TrainingInv, WorkerInv, OnlyChanges, DataGrows
  <1>21. LostUpdatesNeedARace'
    <2> SUFFICES ASSUME NEW k \in Models, Stored(k)', k \notin seen'.overwritten
                 PROVE  model'[k].addresses = seen'.asked[k] /\ model'[k].prices = seen'.quoted[k]
      BY DEF LostUpdatesNeedARace
    <2>1. Stored(k) /\ k \notin seen.overwritten =>
            model[k].addresses = seen.asked[k] /\ model[k].prices = seen.quoted[k]
      BY DEF TrainingInv, LostUpdatesNeedARace
    <2>2. CASE ~stored
      BY <1>10, <1>11, <2>1, <2>2 DEF Stored
    <2>3. CASE stored /\ k # m
      BY <1>10, <1>11, <2>1, <2>3
    <2>4. CASE stored /\ k = m
      <3>1. fresh /\ model'[m] = rec /\ m \notin seen.overwritten
        BY <1>10, <1>11, <2>4
      <3>2. CASE q.op = "create"
        <4>1. seen.quoted[m] = {}
          BY <1>2, <3>2 DEF TrainingInv, StoredInv
        <4>2. rec = q.rec /\ Quoted(q) = {} /\ q.rec.prices = {}
          BY <1>2, <3>2, ChangedFacts DEF rec
        <4>3. QED
          BY <1>10, <2>4, <3>1, <3>2, <4>1, <4>2
      <3>3. CASE q.op # "create"
        <4>1. model[m] = q.rec /\ Stored(m)
          BY <1>2, <3>1, <3>3 DEF fresh, Fresh
        <4>2. /\ rec.prices = q.rec.prices \cup Quoted(q)
              /\ q.op # "update" => rec.addresses = q.rec.addresses
          BY <1>2, <3>3, ChangedFacts DEF rec
        <4>3. QED
          BY <1>10, <2>1, <2>4, <3>1, <3>3, <4>1, <4>2
      <3>4. QED
        BY <3>2, <3>3
    <2>5. QED
      BY <2>2, <2>3, <2>4
  <1>22. TrainingTypeOK'
    BY <1>7, <1>10, <1>11, <1>17 DEF TrainingInv, TrainingTypeOK
  <1>23. QED
    BY <1>17, <1>18, <1>19, <1>20, <1>21, <1>22 DEF TrainingInv

-----------------------------------------------------------------------------
(***************************************************************************)
(* Starting a request.                                                     *)
(***************************************************************************)

LEMMA BeginStep ==
    ASSUME TrainingInv, NEW r \in Requests, NEW new \in RequestRecords, Begin(r, new), Quiet,
           worker' = worker, GoodRequest(new)', Active(new), new.answer # "ok",
           new.op = "create" => provider[new.model] = "none",
           new.op = "delete" /\ BeingCreated(new.model) => new.model \in seen'.overtaken
    PROVE  TrainingInv'
  <1>1. /\ req \in [Requests -> RequestRecords] /\ new.model \in Models
        /\ req' \in [Requests -> RequestRecords]
        /\ req'[r] = new /\ \A s \in Requests \ {r} : req'[s] = req[s]
        /\ req[r].pc = "idle"
    BY DEF TrainingInv, TrainingTypeOK, RequestRecords, Begin
  <1>2. \A s \in Requests : /\ req[s].pc = "idle" => req[s].op = "get"
                            /\ req[s].pc # "idle" => provider[req[s].model] # "none"
    BY DEF TrainingInv, ReqInv, GoodRequest, ReqShape, ReqRecord
  <1>3. \A m \in Models : DeleteRequested(m) => DeleteRequested(m)'
    BY <1>1 DEF DeleteRequested
  <1>4. \A s \in Requests : KeepsFor(s)
    BY <1>3, QuietFacts DEF KeepsFor, DataGrows, SharedGrows, Quiet
  <1>5. ASSUME NEW s \in Requests PROVE GoodRequest(req[s])'
    <2>1. CASE s = r
      BY <1>1, <2>1
    <2>2. CASE s # r
      <3>1. PICK p \in RequestRecords : p = req[s]
        BY <1>1
      <3>2. GoodRequest(p)'
        BY <1>4, <3>1, OthersKeep
      <3>3. QED
        BY <1>1, <2>2, <3>1, <3>2
    <2>3. QED
      BY <2>1, <2>2
  <1>6. Exclusive'
    <2> SUFFICES ASSUME NEW p \in Requests, NEW s \in Requests, p # s, req'[p].op = "create",
                        req'[s].model = req'[p].model
                 PROVE  /\ req'[s].op # "create"
                        /\ Active(req'[p]) /\ req'[s].op = "delete" =>
                              req'[p].model \in seen'.overtaken
      BY DEF Exclusive, Active
    <2>0. seen.overtaken \subseteq seen'.overtaken
      BY QuietFacts DEF DataGrows
    <2>1. CASE p # r /\ s # r
      BY <1>1, <2>0, <2>1 DEF TrainingInv, Exclusive
    <2>2. CASE p = r
      <3>1. new.op = "create" /\ provider[req[s].model] = "none" /\ req'[s] = req[s]
        BY <1>1, <2>2
      <3>2. QED
        BY <1>2, <3>1
    <2>3. CASE s = r
      <3>1. req'[p] = req[p] /\ req[p].op = "create" /\ req[p].model = new.model /\ req'[s] = new
        BY <1>1, <2>3
      <3>2. req[p].pc # "idle" /\ provider[new.model] # "none"
        BY <1>2, <3>1
      <3>3. new.op # "create" /\ (Active(req[p]) => BeingCreated(new.model))
        BY <3>1, <3>2 DEF BeingCreated, Active
      <3>4. QED
        BY <3>1, <3>3
    <2>4. QED
      BY <2>1, <2>2, <2>3
  <1>7. PublicInv'
    <2> SUFFICES ASSUME NEW m \in Models, ~seen'.failed, CreateAnswered(m)', model'[m].public
                 PROVE  m \in public'
      BY DEF PublicInv
    <2>1. CreateAnswered(m) /\ model[m].public /\ ~seen.failed
      BY <1>1, QuietFacts DEF CreateAnswered, DataGrows, Quiet
    <2>2. QED
      BY <2>1 DEF TrainingInv, PublicInv, Quiet
  <1>8. StoredInv' /\ IdsInv' /\ LostUpdatesNeedARace' /\ seen' \in History
        /\ \A m \in Models : Stored(m)' = Stored(m)
    BY QuietFacts
  <1>9. WorkerInv'
    BY <1>8 DEF WorkerInv, TrainingInv, Quiet
  <1>10. TrainingTypeOK'
    BY <1>1, <1>8 DEF TrainingTypeOK, TrainingInv, Quiet
  <1>11. QED
    BY <1>5, <1>6, <1>7, <1>8, <1>9, <1>10 DEF TrainingInv, ReqInv

(* A request for a stored model, before it has read the record.            *)
LEMMA ReadingIsGood ==
    ASSUME NEW new \in RequestRecords, new.pc = "read", new.op # "create", new.answer = NoAnswer,
           provider'[new.model] # "none", Stored(new.model)'
    PROVE  GoodRequest(new)' /\ Active(new) /\ new.answer # "ok"
  BY DEF GoodRequest, ReqShape, ReqRecord, ReqLists, ReqGrants, ReqFresh, ReqRevokes,
         Active, Left, NoAnswer

LEMMA RequestFacts ==
    ASSUME NEW op \in Ops, NEW u \in Users, NEW m \in Models
    PROVE  LET new == Request(op, u, m)
           IN  /\ new \in RequestRecords /\ new.op = op /\ new.pc = "read"
               /\ new.user = u /\ new.model = m /\ new.answer = NoAnswer
  <1>1. "read" \in RequestSteps
    BY DEF RequestSteps
  <1>2. QED
    BY <1>1, IdleRequestFacts DEF Request, RequestRecords

LEMMA HasAccessMeansStored ==
    ASSUME TrainingInv, NEW u \in Users, NEW m \in Models,
           verifySignerHasAccessToTheModel(u, m) \/ verifyCreatedByAddress(u, m)
    PROVE  Stored(m) /\ provider[m] # "none"
  BY DEF TrainingInv, StoredInv, IdsInv, verifySignerHasAccessToTheModel, verifyCreatedByAddress

LEMMA CreateModelInv ==
    ASSUME TrainingInv, NEW r \in Requests, NEW u \in Users, NEW list \in AddressLists,
           NEW isPublic \in BOOLEAN, CreateModel(r, u, list, isPublic)
    PROVE  TrainingInv'
  <1> DEFINE rec == [status |-> "CREATED", owner |-> u, addresses |-> list \cup {u},
                     public |-> isPublic, prices |-> {}]
             start(m) == [Request("create", u, m) EXCEPT !.pc = "put", !.new = list, !.rec = rec]
  <1>1. PICK m \in Models :
          /\ provider[m] = "none" /\ provider' = [provider EXCEPT ![m] = "CREATED"]
          /\ Begin(r, start(m))
          /\ UNCHANGED <<model, ids, pending, public, worker, seen>>
    BY DEF CreateModel
  <1> DEFINE new == start(m)
  <1>2. rec \in Records /\ rec.prices = {}
    BY TrainingAssumption DEF Records, Statuses
  <1> HIDE DEF rec
  <1>3. /\ new \in RequestRecords /\ new.op = "create" /\ new.pc = "put" /\ new.model = m
        /\ new.rec = rec /\ new.answer = NoAnswer
    <2>1. "create" \in Ops /\ "put" \in RequestSteps /\ list \in SUBSET Users
      BY TrainingAssumption DEF Ops, RequestSteps
    <2>2. /\ Request("create", u, m) \in RequestRecords /\ Request("create", u, m).op = "create"
          /\ Request("create", u, m).model = m /\ Request("create", u, m).answer = NoAnswer
      BY <2>1, RequestFacts
    <2>3. QED
      BY <1>2, <2>1, <2>2 DEF RequestRecords
  <1>4. Begin(r, new)
    BY <1>1
  <1> HIDE DEF new
  <1>5. Quiet /\ worker' = worker
    BY <1>1 DEF Quiet, TrainingInv, TrainingTypeOK, StoredInv, ModelIds, Statuses
  <1>6. ~Stored(m)' /\ provider'[m] # "none"
    BY <1>1 DEF TrainingInv, TrainingTypeOK, StoredInv, Stored
  <1>7. GoodRequest(new)' /\ Active(new)
    BY <1>2, <1>3, <1>6
       DEF GoodRequest, ReqShape, ReqRecord, ReqLists, ReqGrants, ReqFresh, ReqRevokes, Active, Left,
           NoAnswer
  <1>8. QED
    BY <1>1, <1>3, <1>4, <1>5, <1>7, BeginStep DEF NoAnswer

LEMMA StartsReading ==
    ASSUME TrainingInv, NEW r \in Requests, NEW new \in RequestRecords, Begin(r, new),
           new.pc = "read", new.op # "create", new.answer = NoAnswer,
           Stored(new.model), Quiet, worker' = worker,
           new.op = "delete" /\ BeingCreated(new.model) => new.model \in seen'.overtaken
    PROVE  TrainingInv'
  <1>1. new.model \in Models /\ Stored(new.model)' /\ provider'[new.model] # "none"
    BY QuietFacts DEF RequestRecords, TrainingInv, StoredInv, Quiet
  <1>2. GoodRequest(new)' /\ Active(new) /\ new.answer # "ok"
    BY <1>1, ReadingIsGood
  <1>3. QED
    BY <1>2, BeginStep

LEMMA OtherStartsInv ==
    ASSUME TrainingInv, NEW r \in Requests, NEW u \in Users, NEW m \in Models,
           \/ \E list \in AddressLists \cup {{}} : UpdateModel(r, u, m, list)
           \/ DeleteModel(r, u, m) \/ GetModel(r, u, m)
           \/ ValidateModelPrice(r, u, m) \/ TrainModelPrice(r, u, m)
           \/ ValidateModel(r, u, m) \/ UploadAndValidate(r, u, m) \/ TrainModel(r, u, m)
    PROVE  TrainingInv'
  <1>1. Stored(m) /\ provider[m] # "none" /\ provider \in [Models -> Statuses \cup {"none"}]
    <2>1. verifySignerHasAccessToTheModel(u, m) \/ verifyCreatedByAddress(u, m)
      BY DEF UpdateModel, DeleteModel, GetModel, ValidateModelPrice, TrainModelPrice, ModelPrice,
             ValidateModel, UploadAndValidate, TrainModel
    <2>2. QED
      BY <2>1, HasAccessMeansStored DEF TrainingInv, TrainingTypeOK
  <1>2. Quiet /\ worker' = worker
    <2>0. seen' = seen \/ DeleteModel(r, u, m)
      BY DEF UpdateModel, GetModel, ValidateModelPrice, TrainModelPrice, ModelPrice,
             ValidateModel, UploadAndValidate, TrainModel
    <2>1. /\ model' = model /\ ids' = ids /\ pending' = pending /\ public' = public
          /\ worker' = worker
          /\ \/ provider' = provider
             \/ \E x \in {"DELETED", "VALIDATING", "TRAINING"} :
                    provider' = [provider EXCEPT ![m] = x]
      BY DEF UpdateModel, DeleteModel, GetModel, ValidateModelPrice, TrainModelPrice, ModelPrice,
             ValidateModel, UploadAndValidate, TrainModel
    <2>2. provider' \in [Models -> Statuses \cup {"none"}]
          /\ \A k \in Models : provider[k] # "none" => provider'[k] # "none"
      BY <1>1, <2>1 DEF Statuses, Working
    <2>3. CASE seen' = seen
      BY <2>1, <2>2, <2>3 DEF Quiet, TrainingInv, TrainingTypeOK, StoredInv, ModelIds
    <2>4. CASE DeleteModel(r, u, m)
      <3>1. PICK over \in SUBSET Models :
              over = IF BeingCreated(m) THEN seen.overtaken \cup {m} ELSE seen.overtaken
        <4>1. seen.overtaken \in SUBSET Models
          BY DEF TrainingInv, TrainingTypeOK, History
        <4>2. seen.overtaken \cup {m} \in SUBSET Models
          BY <4>1
        <4>3. (IF BeingCreated(m) THEN seen.overtaken \cup {m} ELSE seen.overtaken)
                 \in SUBSET Models
          BY <4>1, <4>2, Zenon
        <4>4. QED
          BY <4>3, Zenon
      <3>2. seen' = [seen EXCEPT !.overtaken = over] /\ seen.overtaken \subseteq over
        BY <2>4, <3>1 DEF DeleteModel
      <3>3. QED
        BY <2>1, <2>2, <3>1, <3>2 DEF Quiet, TrainingInv, TrainingTypeOK, StoredInv, ModelIds
    <2>5. QED
      BY <2>0, <2>1, <2>3, <2>4
  <1>3. \A op \in Ops :
          /\ Request(op, u, m) \in RequestRecords /\ Request(op, u, m).op = op
          /\ Request(op, u, m).pc = "read" /\ Request(op, u, m).model = m
          /\ Request(op, u, m).answer = NoAnswer
    BY RequestFacts
  <1>4. \A op \in Ops \ {"create", "delete"}, new \in RequestRecords :
          new.op = op /\ new.pc = "read" /\ new.model = m /\ new.answer = NoAnswer /\ Begin(r, new)
             => TrainingInv'
    BY <1>1, <1>2, StartsReading
  <1>5. ASSUME NEW op \in Ops \ {"create", "delete"}, Begin(r, Request(op, u, m)) PROVE TrainingInv'
    BY <1>3, <1>4, <1>5
  <1>6. CASE \E list \in AddressLists \cup {{}} : UpdateModel(r, u, m, list)
    <2>1. PICK list \in SUBSET Users : Begin(r, [Request("update", u, m) EXCEPT !.new = list])
      BY <1>6, TrainingAssumption DEF UpdateModel
    <2> DEFINE new == [Request("update", u, m) EXCEPT !.new = list]
    <2>2. /\ new \in RequestRecords /\ new.op = "update" /\ new.pc = "read" /\ new.model = m
          /\ new.answer = NoAnswer
      BY <1>3 DEF RequestRecords, Ops
    <2>3. Begin(r, new)
      BY <2>1
    <2> HIDE DEF new
    <2>4. QED
      BY <1>4, <2>2, <2>3 DEF Ops
  <1>7. CASE GetModel(r, u, m)
    <2>1. PICK x \in Statuses : x = provider[m]
      BY <1>1
    <2> DEFINE new == [Request("get", u, m) EXCEPT !.status = x]
    <2>2. /\ new \in RequestRecords /\ new.op = "get" /\ new.pc = "read" /\ new.model = m
          /\ new.answer = NoAnswer
      BY <1>3 DEF RequestRecords, Ops
    <2>3. Begin(r, new)
      BY <1>7, <2>1 DEF GetModel
    <2> HIDE DEF new
    <2>4. QED
      BY <1>4, <2>2, <2>3 DEF Ops
  <1>8. CASE UploadAndValidate(r, u, m)
    <2> DEFINE new == [Request("upload", u, m) EXCEPT !.status = "VALIDATING", !.pend = TRUE]
    <2>1. /\ new \in RequestRecords /\ new.op = "upload" /\ new.pc = "read" /\ new.model = m
          /\ new.answer = NoAnswer
      BY <1>3 DEF RequestRecords, Ops, Statuses, Working
    <2>2. Begin(r, new)
      BY <1>8 DEF UploadAndValidate
    <2> HIDE DEF new
    <2>3. QED
      BY <1>4, <2>1, <2>2 DEF Ops
  <1>9. CASE TrainModel(r, u, m)
    <2> DEFINE new == [Request("train", u, m) EXCEPT !.status = "TRAINING"]
    <2>1. /\ new \in RequestRecords /\ new.op = "train" /\ new.pc = "read" /\ new.model = m
          /\ new.answer = NoAnswer
      BY <1>3 DEF RequestRecords, Ops, Statuses, Working
    <2>2. Begin(r, new)
      BY <1>9 DEF TrainModel
    <2> HIDE DEF new
    <2>3. QED
      BY <1>4, <2>1, <2>2 DEF Ops
  <1>10. CASE DeleteModel(r, u, m)
    <2>1. /\ Begin(r, Request("delete", u, m)) /\ seen \in History
          /\ seen' = [seen EXCEPT !.overtaken = IF BeingCreated(m) THEN @ \cup {m} ELSE @]
      BY <1>10 DEF DeleteModel, TrainingInv, TrainingTypeOK
    <2>2. BeingCreated(m) => m \in seen'.overtaken
      BY <2>1 DEF History
    <2>3. "delete" \in Ops
      BY DEF Ops
    <2>4. PICK new \in RequestRecords :
            /\ new = Request("delete", u, m) /\ new.op = "delete" /\ new.pc = "read"
            /\ new.model = m /\ new.answer = NoAnswer
      BY <1>3, <2>3
    <2>5. QED
      BY <1>1, <1>2, <2>1, <2>2, <2>4, StartsReading
  <1>11. CASE ValidateModelPrice(r, u, m) \/ TrainModelPrice(r, u, m)
    BY <1>5, <1>11 DEF ValidateModelPrice, TrainModelPrice, ModelPrice, Ops
  <1>12. CASE ValidateModel(r, u, m)
    BY <1>5, <1>12 DEF ValidateModel, Ops
  <1>13. QED
    BY <1>6, <1>7, <1>8, <1>9, <1>10, <1>11, <1>12

-----------------------------------------------------------------------------
(***************************************************************************)
(* Workers, the provider and a crash.                                      *)
(***************************************************************************)

(* A step of no request.                                                   *)
LEMMA OtherStep ==
    ASSUME TrainingInv, req' = req, DataGrows, ids' = ids, public' = public,
           \A m \in Models : Stored(m)' => Stored(m)
    PROVE  req' \in [Requests -> RequestRecords] /\ ReqInv' /\ Exclusive' /\ PublicInv'
  <1>1. req \in [Requests -> RequestRecords]
    BY DEF TrainingInv, TrainingTypeOK
  <1>2. \A m \in Models : DeleteRequested(m)' <=> DeleteRequested(m)
    BY DEF DeleteRequested
  <1>3. \A s \in Requests : KeepsFor(s)
    BY <1>2 DEF KeepsFor, DataGrows, SharedGrows
  <1>4. ASSUME NEW s \in Requests PROVE GoodRequest(req[s])'
    <2>1. PICK p \in RequestRecords : p = req[s]
      BY <1>1
    <2>2. GoodRequest(p)'
      BY <1>3, <2>1, OthersKeep
    <2>3. QED
      BY <2>1, <2>2
  <1>5. Exclusive'
    BY DEF TrainingInv, Exclusive, Active, DataGrows
  <1>6. PublicInv'
    BY DEF TrainingInv, PublicInv, CreateAnswered, DataGrows
  <1>7. QED
    BY <1>1, <1>4, <1>5, <1>6 DEF ReqInv

LEMMA QuietWorkerStep ==
    ASSUME TrainingInv, NEW m \in Models, NEW w \in Workers, NEW v \in WorkerRecords,
           WorkerGoes(m, w, v), Quiet, req' = req, public' = public,
           v.pc \in {"call", "remove", "put"} =>
              v.rec \in Records /\ Stored(m) /\ v.rec.public = model[m].public
    PROVE  TrainingInv'
  <1>1. /\ DataGrows /\ \A k \in Models : Stored(k)' = Stored(k)
        /\ StoredInv' /\ IdsInv' /\ LostUpdatesNeedARace' /\ seen' \in History
    BY QuietFacts
  <1>2. ids' = ids /\ model' = model
    BY DEF Quiet
  <1>3. req' \in [Requests -> RequestRecords] /\ ReqInv' /\ Exclusive' /\ PublicInv'
    BY <1>1, <1>2, OtherStep
  <1>4. /\ worker \in [Models -> [Workers -> WorkerRecords]]
        /\ worker' = [worker EXCEPT ![m][w] = v]
    BY DEF TrainingInv, TrainingTypeOK, WorkerGoes
  <1>5. /\ worker' \in [Models -> [Workers -> WorkerRecords]]
        /\ \A k \in Models, x \in Workers :
             worker'[k][x] = IF k = m /\ x = w THEN v ELSE worker[k][x]
    BY <1>4
  <1>6. WorkerInv'
    BY <1>1, <1>2, <1>5 DEF TrainingInv, WorkerInv
  <1>7. TrainingTypeOK'
    BY <1>1, <1>2, <1>3, <1>5 DEF TrainingTypeOK, TrainingInv, Quiet
  <1>8. QED
    BY <1>1, <1>3, <1>6, <1>7 DEF TrainingInv

LEMMA WorkerPutsInv ==
    ASSUME TrainingInv, NEW m \in Models, NEW w \in Workers, WorkerPuts(m, w)
    PROVE  TrainingInv'
  <1>1. PICK v \in WorkerRecords : v = worker[m][w]
    BY DEF TrainingInv, TrainingTypeOK
  <1>2. /\ v.pc = "put" /\ v.rec \in Records /\ Stored(m) /\ v.rec.public = model[m].public
        /\ v.status \in Statuses
    BY <1>1 DEF TrainingInv, WorkerInv, WorkerPuts, WorkerRecords
  <1>3. /\ WorkerGoes(m, w, IdleWorker) /\ ids' = ids /\ pending' = pending /\ public' = public
        /\ provider' = provider /\ req' = req
    BY DEF WorkerPuts
  <1>4. CASE /\ model' = [model EXCEPT ![m] = [v.rec EXCEPT !.status = v.status]]
             /\ seen' = [seen EXCEPT !.overwritten = IF model[m] = v.rec THEN @ ELSE @ \cup {m}]
    <2> DEFINE rec == [v.rec EXCEPT !.status = v.status]
    <2>1. /\ rec \in Records /\ rec.public = v.rec.public /\ rec.addresses = v.rec.addresses
          /\ rec.prices = v.rec.prices /\ rec # NoModel
      BY <1>2, NoModelFacts DEF Records
    <2>2. /\ model \in [Models -> Records \cup {NoModel}]
          /\ model' = [model EXCEPT ![m] = rec]
      BY <1>4 DEF TrainingInv, TrainingTypeOK
    <2> HIDE DEF rec
    <2>3. /\ model' \in [Models -> Records \cup {NoModel}] /\ model'[m] = rec
          /\ \A k \in Models \ {m} : model'[k] = model[k]
          /\ \A k \in Models : Stored(k)' <=> Stored(k)
      BY <1>2, <2>1, <2>2 DEF Stored
    <2>4. PICK over \in SUBSET Models :
            over = IF model[m] = v.rec THEN seen.overwritten ELSE seen.overwritten \cup {m}
      <3>1. seen.overwritten \in SUBSET Models
        BY DEF TrainingInv, TrainingTypeOK, History
      <3>2. (IF model[m] = v.rec THEN seen.overwritten ELSE seen.overwritten \cup {m})
               \in SUBSET Models
        BY <3>1
      <3>3. QED
        BY <3>2
    <2>5. seen' = [seen EXCEPT !.overwritten = over] /\ seen \in History
      BY <1>4, <2>4 DEF TrainingInv, TrainingTypeOK
    <2>6. /\ seen' \in History /\ seen'.granted = seen.granted /\ seen'.asked = seen.asked
          /\ seen'.quoted = seen.quoted /\ seen'.added = seen.added
          /\ seen'.clobbered = seen.clobbered /\ seen'.failed = seen.failed
          /\ seen'.overwritten = over /\ seen'.overtaken = seen.overtaken
      BY <2>5 DEF History
    <2>7. DataGrows
      BY <1>2, <1>3, <2>1, <2>3, <2>6 DEF DataGrows
    <2>8. req' \in [Requests -> RequestRecords] /\ ReqInv' /\ Exclusive' /\ PublicInv'
      BY <1>3, <2>3, <2>7, OtherStep
    <2>9. StoredInv' /\ IdsInv'
      BY <1>3, <2>3, <2>6 DEF TrainingInv, StoredInv, IdsInv
    <2>10. LostUpdatesNeedARace'
      <3> SUFFICES ASSUME NEW k \in Models, Stored(k)', k \notin over
                   PROVE  model'[k].addresses = seen'.asked[k] /\ model'[k].prices = seen'.quoted[k]
        BY <2>6 DEF LostUpdatesNeedARace
      <3>1. model[k].addresses = seen.asked[k] /\ model[k].prices = seen.quoted[k]
        BY <2>3, <2>4 DEF TrainingInv, LostUpdatesNeedARace
      <3>2. CASE k # m
        BY <2>3, <2>6, <3>1, <3>2
      <3>3. CASE k = m
        BY <2>1, <2>3, <2>4, <2>6, <3>1, <3>3
      <3>4. QED
        BY <3>2, <3>3
    <2>11. /\ worker' \in [Models -> [Workers -> WorkerRecords]]
           /\ \A k \in Models, x \in Workers :
                worker'[k][x] = IF k = m /\ x = w THEN IdleWorker ELSE worker[k][x]
      BY <1>3, IdleWorkerFacts DEF WorkerGoes, TrainingInv, TrainingTypeOK
    <2>12. WorkerInv'
      BY <2>7, <2>11, IdleWorkerFacts DEF TrainingInv, WorkerInv, DataGrows
    <2>13. TrainingTypeOK'
      BY <1>3, <2>3, <2>6, <2>8, <2>11 DEF TrainingInv, TrainingTypeOK
    <2>14. QED
      BY <2>8, <2>9, <2>10, <2>12, <2>13 DEF TrainingInv
  <1>5. CASE model' = model /\ (seen' = seen \/ StorageFails)
    <2>1. Quiet
      BY <1>3, <1>5, QuietOnFailure
    <2>2. QED
      BY <1>3, <2>1, IdleWorkerFacts, QuietWorkerStep
  <1>6. QED
    BY <1>1, <1>4, <1>5 DEF WorkerPuts

LEMMA WorkerStepInv ==
    ASSUME TrainingInv, NEW m \in Models, NEW w \in Workers, WorkerStep(m, w)
    PROVE  TrainingInv'
  <1>1. PICK v \in WorkerRecords : v = worker[m][w]
    BY DEF TrainingInv, TrainingTypeOK
  <1>2. v.pc \in {"call", "remove", "put"} =>
          v.rec \in Records /\ Stored(m) /\ v.rec.public = model[m].public
    BY <1>1 DEF TrainingInv, WorkerInv
  <1>3. CASE WorkerPuts(m, w)
    BY <1>3, WorkerPutsInv
  <1>4. CASE ManageUpdateModelStatusWorkers(m, w)
    <2> DEFINE x == [IdleWorker EXCEPT !.pc = "read"]
    <2>1. x \in WorkerRecords /\ x.pc = "read"
      BY DEF WorkerRecords, IdleWorker, Statuses
    <2>2. WorkerGoes(m, w, x) /\ Quiet /\ req' = req /\ public' = public
      BY <1>4, QuietOnFailure DEF ManageUpdateModelStatusWorkers
    <2> HIDE DEF x
    <2>3. QED
      BY <2>1, <2>2, QuietWorkerStep
  <1>5. CASE WorkerReads(m, w)
    <2>1. Quiet /\ req' = req /\ public' = public
      BY <1>5, QuietOnFailure DEF WorkerReads
    <2>2. CASE WorkerGoes(m, w, IdleWorker)
      BY <2>1, <2>2, IdleWorkerFacts, QuietWorkerStep
    <2>3. CASE Stored(m) /\ WorkerGoes(m, w, [IdleWorker EXCEPT !.rec = model[m], !.pc = "call"])
      <3>1. PICK rec \in Records : rec = model[m]
        BY <2>3 DEF TrainingInv, TrainingTypeOK, Stored
      <3> DEFINE x == [IdleWorker EXCEPT !.rec = rec, !.pc = "call"]
      <3>2. x \in WorkerRecords /\ x.pc = "call" /\ x.rec = rec
        BY DEF WorkerRecords, IdleWorker, Statuses
      <3>3. WorkerGoes(m, w, x)
        BY <2>3, <3>1
      <3> HIDE DEF x
      <3>4. QED
        BY <2>1, <2>3, <3>1, <3>2, <3>3, QuietWorkerStep
    <2>4. QED
      BY <1>5, <2>2, <2>3 DEF WorkerReads
  <1>6. CASE WorkerAsks(m, w)
    <2>1. PICK status \in Statuses : status = provider[m]
      BY <1>1, <1>2, <1>6 DEF WorkerAsks, TrainingInv, TrainingTypeOK, StoredInv
    <2>2. PICK pc \in {"put", "remove"} : pc = IF status \in Working THEN "put" ELSE "remove"
      OBVIOUS
    <2> DEFINE x == [v EXCEPT !.status = status, !.pc = pc]
    <2>3. x \in WorkerRecords /\ x.pc = pc /\ x.rec = v.rec
      BY DEF WorkerRecords
    <2>4. WorkerGoes(m, w, x) /\ Quiet /\ req' = req /\ public' = public /\ v.pc = "call"
      BY <1>1, <1>6, <2>1, <2>2, QuietOnFailure DEF WorkerAsks
    <2> HIDE DEF x
    <2>5. QED
      BY <1>2, <2>3, <2>4, QuietWorkerStep
  <1>7. CASE WorkerGetsNoAnswer(m, w)
    <2>1. WorkerGoes(m, w, IdleWorker) /\ Quiet /\ req' = req /\ public' = public
      BY <1>7, QuietOnFailure DEF WorkerGetsNoAnswer
    <2>2. QED
      BY <2>1, IdleWorkerFacts, QuietWorkerStep
  <1>8. CASE RemovePendingModelId(m, w)
    <2> DEFINE x == [v EXCEPT !.pc = "put"]
    <2>1. x \in WorkerRecords /\ x.pc = "put" /\ x.rec = v.rec
      BY DEF WorkerRecords
    <2>2. Quiet
      BY <1>8 DEF RemovePendingModelId, Quiet, TrainingInv, TrainingTypeOK, StoredInv, ModelIds,
         StorageFails
    <2>3. WorkerGoes(m, w, x) /\ req' = req /\ public' = public /\ v.pc = "remove"
      BY <1>1, <1>8 DEF RemovePendingModelId
    <2> HIDE DEF x
    <2>4. QED
      BY <1>2, <2>1, <2>2, <2>3, QuietWorkerStep
  <1>9. QED
    BY <1>3, <1>4, <1>5, <1>6, <1>7, <1>8 DEF WorkerStep

LEMMA ProviderFinishesInv ==
    ASSUME TrainingInv, NEW m \in Models, ProviderFinishes(m)
    PROVE  TrainingInv'
  <1>1. Quiet /\ req' = req /\ worker' = worker /\ public' = public /\ ids' = ids /\ model' = model
    BY DEF ProviderFinishes, Quiet, TrainingInv, TrainingTypeOK, StoredInv, ModelIds, Statuses, Working
  <1>2. /\ DataGrows /\ \A k \in Models : Stored(k)' = Stored(k)
        /\ StoredInv' /\ IdsInv' /\ LostUpdatesNeedARace' /\ seen' \in History
    BY <1>1, QuietFacts
  <1>3. req' \in [Requests -> RequestRecords] /\ ReqInv' /\ Exclusive' /\ PublicInv'
    BY <1>1, <1>2, OtherStep
  <1>4. WorkerInv'
    BY <1>1, <1>2 DEF TrainingInv, WorkerInv
  <1>5. TrainingTypeOK'
    BY <1>1, <1>2, <1>3 DEF TrainingTypeOK, TrainingInv, Quiet
  <1>6. QED
    BY <1>2, <1>3, <1>4, <1>5 DEF TrainingInv

LEMMA CrashInv ==
    ASSUME TrainingInv, Crash
    PROVE  TrainingInv'
  <1>1. Quiet /\ public' = public /\ model' = model /\ ids' = ids /\ seen' = seen
        /\ provider' = provider
    BY QuietOnFailure DEF Crash
  <1>2. /\ \A k \in Models : Stored(k)' = Stored(k)
        /\ StoredInv' /\ IdsInv' /\ LostUpdatesNeedARace' /\ seen' \in History
    BY <1>1, QuietFacts
  <1>3. ASSUME NEW r \in Requests
        PROVE  /\ req[r] \in RequestRecords /\ req'[r] \in RequestRecords
               /\ req'[r].op = req[r].op /\ req'[r].model = req[r].model
               /\ ~Active(req'[r]) /\ (req'[r].pc = "idle" <=> req[r].pc = "idle")
               /\ IF Active(req[r])
                  THEN req'[r].answer = "error" /\ req'[r].pc = "done"
                       /\ (req[r].op = "create" => req'[r].rec = req[r].rec)
                  ELSE req'[r] = [req[r] EXCEPT !.pend = FALSE]
    <2>1. req[r] \in RequestRecords
      BY DEF TrainingInv, TrainingTypeOK
    <2>2. CASE Active(req[r])
      <3>1. req'[r] = [Answered(req[r], "error") EXCEPT !.pend = FALSE]
        BY <2>2 DEF Crash, Active
      <3>2. /\ Answered(req[r], "error") \in RequestRecords
            /\ Answered(req[r], "error").pc = "done" /\ Answered(req[r], "error").op = req[r].op
            /\ Answered(req[r], "error").model = req[r].model
            /\ Answered(req[r], "error").answer = "error"
            /\ req[r].op = "create" => Answered(req[r], "error").rec = req[r].rec
        BY <2>1, AnsweredFacts
      <3>3. QED
        BY <2>1, <2>2, <3>1, <3>2 DEF RequestRecords, Active
    <2>3. CASE ~Active(req[r])
      <3>1. req'[r] = [req[r] EXCEPT !.pend = FALSE]
        BY <2>3 DEF Crash, Active
      <3>2. QED
        BY <2>1, <2>3, <3>1 DEF RequestRecords, Active
    <2>4. QED
      BY <2>2, <2>3
  <1>4. \A m \in Models : DeleteRequested(m)' <=> DeleteRequested(m)
    BY <1>3 DEF DeleteRequested
  <1>5. ASSUME NEW r \in Requests PROVE GoodRequest(req[r])'
    <2>1. KeepsFor(r)
      BY <1>1, <1>4, QuietFacts DEF KeepsFor, DataGrows, SharedGrows
    <2>2. PICK q \in RequestRecords : q = req[r]
      BY <1>3
    <2>3. PICK new \in RequestRecords : new = req'[r]
      BY <1>3
    <2>4. GoodRequest(q)' /\ GoodRequest(q)
      BY <2>1, <2>2, OthersKeep DEF TrainingInv, ReqInv
    <2>5. GoodRequest(new)'
      <3>1. CASE Active(q)
        <4>1. /\ new.pc = "done" /\ new.answer = "error" /\ new.op = q.op /\ new.model = q.model
              /\ q.op = "create" => new.rec = q.rec
          BY <1>3, <2>2, <2>3, <3>1
        <4>2. provider'[new.model] # "none" /\ (new.op = "create" => new.rec \in Records)
          BY <2>4, <3>1, <4>1 DEF GoodRequest, ReqRecord, Active
        <4>3. QED
          BY <4>1, <4>2, DoneIsGood
      <3>2. CASE ~Active(q)
        <4>1. new = [q EXCEPT !.pend = FALSE]
          BY <1>3, <2>2, <2>3, <3>2
        <4>2. /\ new.op = q.op /\ new.pc = q.pc /\ new.model = q.model /\ new.rec = q.rec
              /\ new.answer = q.answer /\ Left(new) = {} /\ Left(q) = {}
          BY <3>2, <4>1 DEF RequestRecords, Left, Active
        <4>3. QED
          BY <2>4, <3>2, <4>2
             DEF GoodRequest, ReqShape, ReqRecord, ReqLists, ReqGrants, ReqFresh, ReqRevokes, Active
      <3>3. QED
        BY <3>1, <3>2
    <2>6. QED
      BY <2>3, <2>5
  <1>6. Exclusive'
    <2> SUFFICES ASSUME NEW r \in Requests, NEW s \in Requests, r # s,
                        req'[r].op = "create", req'[s].model = req'[r].model
                 PROVE  req'[s].op # "create" /\ ~Active(req'[r])
      BY DEF Exclusive, Active
    <2>1. /\ req[r].op = "create" /\ req[s].model = req[r].model /\ ~Active(req'[r])
          /\ req'[s].op = req[s].op
      BY <1>3
    <2>2. QED
      BY <2>1 DEF TrainingInv, Exclusive
  <1>7. PublicInv'
    <2> SUFFICES ASSUME NEW m \in Models, ~seen.failed, CreateAnswered(m)', model[m].public
                 PROVE  m \in public
      BY <1>1 DEF PublicInv
    <2>1. ASSUME NEW r \in Requests, req[r].op = "create", req[r].model = m, req[r].pc # "idle"
          PROVE  req[r].answer = "ok"
      <3>1. req'[r].answer = "ok"
        BY <1>3, <2>1 DEF CreateAnswered
      <3>2. ~Active(req[r]) /\ req'[r] = [req[r] EXCEPT !.pend = FALSE]
        BY <1>3, <3>1
      <3>3. QED
        BY <1>3, <3>1, <3>2 DEF RequestRecords
    <2>2. CreateAnswered(m)
      BY <1>2, <2>1 DEF CreateAnswered
    <2>3. QED
      BY <2>2 DEF TrainingInv, PublicInv
  <1>8. /\ worker' \in [Models -> [Workers -> WorkerRecords]]
        /\ \A m \in Models, w \in Workers : worker'[m][w] = IdleWorker
    BY IdleWorkerFacts DEF Crash
  <1>9. WorkerInv'
    BY <1>8, IdleWorkerFacts DEF WorkerInv
  <1>10. req' \in [Requests -> RequestRecords]
    BY <1>3 DEF Crash
  <1>11. TrainingTypeOK'
    BY <1>1, <1>2, <1>8, <1>10 DEF TrainingTypeOK, TrainingInv, Quiet
  <1>12. QED
    BY <1>2, <1>5, <1>6, <1>7, <1>9, <1>11 DEF TrainingInv, ReqInv

-----------------------------------------------------------------------------
(***************************************************************************)
(* The theorems.                                                           *)
(***************************************************************************)

LEMMA TrainingNextInv == TrainingInv /\ [TrainingNext]_trainingVars => TrainingInv'
  <1> SUFFICES ASSUME TrainingInv, [TrainingNext]_trainingVars PROVE TrainingInv'
    OBVIOUS
  <1>1. ASSUME NEW r \in Requests, HandlerStep(r) PROVE TrainingInv'
    BY <1>1, GetModelDataInv, PutModelDataInv, CallValidateModelInv, ReadUserListInv,
       StoreUserListInv, AddPublicModelIdInv, AddPendingModelIdInv DEF HandlerStep
  <1>2. ASSUME NEW r \in Requests, NEW u \in Users, HandlerStarts(r, u) PROVE TrainingInv'
    BY <1>2, CreateModelInv, OtherStartsInv DEF HandlerStarts
  <1>3. ASSUME NEW m \in Models, ProviderFinishes(m) PROVE TrainingInv'
    BY <1>3, ProviderFinishesInv
  <1>4. ASSUME NEW m \in Models, NEW w \in Workers, WorkerStep(m, w) PROVE TrainingInv'
    BY <1>4, WorkerStepInv
  <1>5. CASE Crash
    BY <1>5, CrashInv
  <1>6. CASE UNCHANGED trainingVars
    <2>1. /\ Quiet /\ req' = req /\ worker' = worker /\ public' = public /\ ids' = ids
          /\ model' = model
      BY <1>6, QuietOnFailure DEF trainingVars
    <2>2. /\ DataGrows /\ \A k \in Models : Stored(k)' = Stored(k)
          /\ StoredInv' /\ IdsInv' /\ LostUpdatesNeedARace' /\ seen' \in History
      BY <2>1, QuietFacts
    <2>3. req' \in [Requests -> RequestRecords] /\ ReqInv' /\ Exclusive' /\ PublicInv'
      BY <2>1, <2>2, OtherStep
    <2>4. WorkerInv'
      BY <2>1, <2>2 DEF TrainingInv, WorkerInv
    <2>5. TrainingTypeOK'
      BY <2>1, <2>2, <2>3 DEF TrainingTypeOK, TrainingInv, Quiet
    <2>6. QED
      BY <2>2, <2>3, <2>4, <2>5 DEF TrainingInv
  <1>7. QED
    BY <1>1, <1>2, <1>3, <1>4, <1>5, <1>6 DEF TrainingNext, Waiting

(* Whatever requests, workers, storage failures and crashes overlap, the   *)
(* stored records and lists keep their form.                               *)
THEOREM TrainingTypes == TrainingSpec => []TrainingTypeOK
  <1>1. TrainingSpec => []TrainingInv
    BY TrainingInitInv, TrainingNextInv, PTL DEF TrainingSpec
  <1>2. TrainingInv => TrainingTypeOK
    BY DEF TrainingInv
  <1>3. QED
    BY <1>1, <1>2, PTL

(* verifySignerHasAccessToTheModel trusts the list of a user: it never has *)
(* a model whose owner did not name the user in a create or an update.     *)
THEOREM AccessIsGranted == TrainingSpec => []AccessOnlyGranted
  <1>1. TrainingSpec => []TrainingInv
    BY TrainingInitInv, TrainingNextInv, PTL DEF TrainingSpec
  <1>2. TrainingInv => AccessOnlyGranted
    BY DEF TrainingInv, IdsInv, AccessOnlyGranted
  <1>3. QED
    BY <1>1, <1>2, PTL

(* CreateModel answers without error only when every address it was given  *)
(* has access, and it keeps it until the model is deleted or an update     *)
(* leaves it out, short of a list that another request stored over.        *)
THEOREM CreatorsHaveAccess == TrainingSpec => []CreateGrantsAccess
  <1>1. TrainingSpec => []TrainingInv
    BY TrainingInitInv, TrainingNextInv, PTL DEF TrainingSpec
  <1>2. TrainingInv => CreateGrantsAccess
    <2> SUFFICES ASSUME TrainingInv, NEW r \in Requests, req[r].op = "create",
                        req[r].answer = "ok", ~DeleteRequested(req[r].model),
                        NEW u \in req[r].rec.addresses \ seen.clobbered
                 PROVE  ids[u][req[r].model] > 0
      BY DEF CreateGrantsAccess
    <2>1. GoodRequest(req[r]) /\ Left(req[r]) = {}
      BY DEF TrainingInv, ReqInv, GoodRequest, ReqShape, Left
    <2>2. QED
      BY <2>1 DEF GoodRequest, ReqGrants
  <1>3. QED
    BY <1>1, <1>2, PTL

(* An answered DeleteModel leaves none of the model's addresses with       *)
(* access, unless the model is public, its deletion began before its       *)
(* creation had ended, the storage failed, another request stored over the *)
(* list or an update had put the id in it twice.                           *)
THEOREM DeleteTakesAccess == TrainingSpec => []DeleteRevokes
  <1>1. TrainingSpec => []TrainingInv
    BY TrainingInitInv, TrainingNextInv, PTL DEF TrainingSpec
  <1>2. TrainingInv => DeleteRevokes
    <2> SUFFICES ASSUME TrainingInv, NEW r \in Requests, req[r].op = "delete",
                        req[r].answer = "ok", ~seen.failed,
                        req[r].model \notin public \cup seen.overtaken,
                        NEW u \in req[r].rec.addresses \ seen.clobbered
                 PROVE  <<u, req[r].model>> \in seen.added \/ ids[u][req[r].model] = 0
      BY DEF DeleteRevokes, verifySignerHasAccessToTheModel
    <2>1. GoodRequest(req[r]) /\ Left(req[r]) = {}
      BY DEF TrainingInv, ReqInv, GoodRequest, ReqShape, Left
    <2>2. QED
      BY <2>1 DEF GoodRequest, ReqRevokes
  <1>3. QED
    BY <1>1, <1>2, PTL

(* Without storage failures GetAllModels lists, once a creation was        *)
(* answered, exactly the models GetModel gives the user access to.         *)
THEOREM ListingIsAccess == TrainingSpec => []ListingAgreesWithAccess
  <1>1. TrainingSpec => []TrainingInv
    BY TrainingInitInv, TrainingNextInv, PTL DEF TrainingSpec
  <1>2. TrainingInv => ListingAgreesWithAccess
    <2> SUFFICES ASSUME TrainingInv, NEW m \in Models, CreateAnswered(m), ~seen.failed,
                        NEW u \in Users
                 PROVE  m \in GetAllModels(u, "any") <=> verifySignerHasAccessToTheModel(u, m)
      BY DEF ListingAgreesWithAccess
    <2>1. Stored(m) /\ (model[m].public => m \in public)
      BY DEF TrainingInv, PublicInv, CreateAnswered
    <2>2. m \in GetAllModels(u, "any") <=> (ids[u][m] > 0 /\ ~model[m].public) \/ m \in public
      BY <2>1 DEF GetAllModels
    <2>3. QED
      BY <2>1, <2>2 DEF verifySignerHasAccessToTheModel
  <1>3. QED
    BY <1>1, <1>2, PTL

(* updateModelDetails, updateModelPrices, updateModelStatus and the status *)
(* workers store whole records: an address list or a price is lost only    *)
(* where one of them stored over a record it had not read.                 *)
THEOREM UpdatesAreLostToRacesOnly == TrainingSpec => []LostUpdatesNeedARace
  <1>1. TrainingSpec => []TrainingInv
    BY TrainingInitInv, TrainingNextInv, PTL DEF TrainingSpec
  <1>2. TrainingInv => LostUpdatesNeedARace
    BY DEF TrainingInv
  <1>3. QED
    BY <1>1, <1>2, PTL
=============================================================================
