------------------------------ MODULE Training ------------------------------
(***************************************************************************)
(* Model training (training/service.go, storage.go, util.go).  A model is  *)
(* one record of the storage; each user has a list of the models he may    *)
(* use; the models the provider works on are in the pending list and are   *)
(* polled by status workers.  Records and user lists are read, changed and *)
(* stored as a whole, with no transaction; the pending and the public list *)
(* are changed by a transaction each.                                      *)
(*                                                                         *)
(* A request that is refused before it reads a record changes nothing and  *)
(* is left out.  The list of a user is kept as the number of times each    *)
(* model id is in it.                                                      *)
(***************************************************************************)
EXTENDS Naturals, FiniteSets

CONSTANTS
    Users,     \* addresses, already in lower case
    Models,    \* model ids the provider hands out
    AddressLists, \* address lists of create and update requests
    Before,    \* the records there may be when this instance begins
    Requests,  \* requests of this instance, numbered in the order they are made
    Workers,   \* status workers that may run for a model at the same time
    Faults     \* the faults of this instance; the storage fails at most once

TrainingFaults == {"storage", "crash"}

VARIABLES
    model,     \* ModelStorage
    ids,       \* ModelUserStorage: how often a model is in a user's list
    pending,   \* PendingModelStorage
    public,    \* PublicModelStorage
    provider,  \* external: the status the service provider has for a model
    req,       \* requests
    worker,    \* status workers
    seen       \* history, see History

trainingVars == <<model, ids, pending, public, provider, req, worker, seen>>

(* FINISHED stands for VALIDATED, READY_TO_USE and ERRORED, which the      *)
(* daemon does not tell apart.                                             *)
Working == {"VALIDATING", "TRAINING"}
Statuses == {"CREATED", "FINISHED", "DELETED"} \cup Working

Records == [status : Statuses, owner : Users, addresses : SUBSET Users,
            public : BOOLEAN, prices : SUBSET {"validate", "train"}]
NoModel == [status |-> "none"]

ASSUME TrainingAssumption ==
    /\ Users # {} /\ Models # {}
    /\ AddressLists \subseteq SUBSET Users
    /\ Requests \subseteq Nat
    /\ Before \subseteq [Models -> Records \cup {NoModel}]
    /\ Faults \subseteq TrainingFaults

Ops == {"create", "update", "delete", "get", "validatePrice", "trainPrice",
        "validate", "upload", "train"}

RequestSteps == {"idle", "read", "call", "put", "lists", "store", "public", "done"}

NoAnswer == "none"

AnyOf(S) == CHOOSE x \in S : TRUE

IdleRequest ==
    [op |-> "get", pc |-> "idle", user |-> AnyOf(Users), model |-> AnyOf(Models),
     new |-> {}, rec |-> NoModel, status |-> "CREATED", todo |-> {}, address |-> AnyOf(Users),
     list |-> [m \in Models |-> 0], pend |-> FALSE, answer |-> NoAnswer]

RequestRecords ==
    [op : Ops, pc : RequestSteps, user : Users, model : Models, new : SUBSET Users,
     rec : Records \cup {NoModel}, status : Statuses, todo : SUBSET Users, address : Users,
     list : [Models -> Nat], pend : BOOLEAN, answer : {NoAnswer, "ok", "error"}]

IdleWorker == [pc |-> "idle", rec |-> NoModel, status |-> "CREATED"]

WorkerRecords ==
    [pc : {"idle", "read", "call", "remove", "put"},
     rec : Records \cup {NoModel}, status : Statuses]

(* ModelUserData: how often each model is in the list of a user.           *)
UserLists == [Users -> [Models -> Nat]]

(* PendingModelData, PublicModelData: one list of model ids each.          *)
ModelIds == SUBSET Models

(* What happened so far: the users the owner ever named for a model, the   *)
(* address list he asked for last and the prices he was told; the users    *)
(* whose list was stored over a version the writer had not read, those an  *)
(* update added and those it left out, the models a writer stored over a   *)
(* version it had not read and those whose deletion began before their     *)
(* creation had ended; whether the storage failed.                         *)
History ==
    [granted : [Models -> SUBSET Users], asked : [Models -> SUBSET Users],
     quoted : [Models -> SUBSET {"validate", "train"}], clobbered : SUBSET Users,
     added : SUBSET (Users \X Models), dropped : SUBSET (Users \X Models),
     overwritten : SUBSET Models, overtaken : SUBSET Models, failed : BOOLEAN]

TrainingTypeOK ==
    /\ model \in [Models -> Records \cup {NoModel}]
    /\ ids \in UserLists
    /\ pending \in ModelIds /\ public \in ModelIds
    /\ provider \in [Models -> Statuses \cup {"none"}]
    /\ req \in [Requests -> RequestRecords]
    /\ worker \in [Models -> [Workers -> WorkerRecords]]
    /\ seen \in History

-----------------------------------------------------------------------------
(***************************************************************************)
(* Who may do what.                                                        *)
(***************************************************************************)

Stored(m) == model[m] # NoModel

(* verifySignature: the signed message is the method, or "unified" for the *)
(* four methods that only ask; age is the distance in blocks.              *)
allowBlockDifference == 5
unifiedAllowBlockDifference == 600
unifiedAuthMethods == {"validatePrice", "trainPrice", "get", "getAll"}

verifySignature(method, message, age) ==
    \/ message = method /\ age <= allowBlockDifference
    \/ /\ message = "unified" /\ method \in unifiedAuthMethods
       /\ age <= unifiedAllowBlockDifference

(* The authorizations of this model: each message, at and past each limit. *)
Authorized(method) ==
    \E message \in {method, "unified"}, age \in {0, 5, 6, 600, 601} :
        verifySignature(method, message, age)

\* Mutant.
AccessByRecord(u, m) == m \in public \/ (Stored(m) /\ u \in model[m].addresses)

verifySignerHasAccessToTheModel(u, m) == m \in public \/ ids[u][m] > 0

verifyCreatedByAddress(u, m) == Stored(m) /\ model[m].owner = u

(* GetAllModels: the user's list without the public models, or the public  *)
(* list, or both ("any"); without the filters on name and creator.         *)
GetAllModels(u, isPublic) ==
    {m \in Models : /\ Stored(m)
                    /\ \/ isPublic # "yes" /\ ids[u][m] > 0 /\ ~model[m].public
                       \/ isPublic # "no" /\ m \in public}

-----------------------------------------------------------------------------
(***************************************************************************)
(* Reading and storing a record.                                           *)
(***************************************************************************)

(* An answered request; create and delete keep their address list.         *)
Answered(q, answer) ==
    [IdleRequest EXCEPT !.op = q.op, !.pc = "done", !.model = q.model,
                        !.pend = q.pend, !.answer = answer,
                        !.rec = IF q.op \in {"create", "delete"} THEN q.rec ELSE NoModel]

Finish(r, answer) == req' = [req EXCEPT ![r] = Answered(req[r], answer)]

StorageMayFail == "storage" \in Faults /\ ~seen.failed

StorageFails == StorageMayFail /\ seen' = [seen EXCEPT !.failed = TRUE]

(* updateModelDetails adds the creator to the new list when the OLD list   *)
(* does not have him; an empty list asks for no change.                    *)
NewAddresses(q) ==
    IF q.new = {} THEN q.rec.addresses
    ELSE q.new \cup IF q.rec.owner \in q.rec.addresses THEN {} ELSE {q.user}

Quoted(q) == IF q.op = "validatePrice" THEN {"validate"}
             ELSE IF q.op = "trainPrice" THEN {"train"} ELSE {}

\* Mutant.
StatusWithoutPrices(q) ==
    CASE q.op = "create" -> q.rec
      [] q.op = "update" -> [q.rec EXCEPT !.addresses = NewAddresses(q)]
      [] OTHER -> [q.rec EXCEPT !.status = q.status, !.prices = Quoted(q)]

(* The record a request stores, from the one it read.                      *)
Changed(q) ==
    CASE q.op = "create" -> q.rec
      [] q.op = "update" -> [q.rec EXCEPT !.addresses = NewAddresses(q)]
      [] q.op = "delete" -> [q.rec EXCEPT !.status = "DELETED"]
      [] q.op \in {"validatePrice", "trainPrice"} ->
           [q.rec EXCEPT !.prices = @ \cup Quoted(q)]
      [] OTHER -> [q.rec EXCEPT !.status = q.status]

(* The addresses whose lists are stored after the record.                  *)
ListsToStore(q) ==
    CASE q.op = "create" -> q.rec.addresses
      [] q.op = "update" ->
           LET asked == IF q.new = {} THEN {} ELSE NewAddresses(q)
           IN  (q.rec.addresses \ asked) \cup (asked \ q.rec.addresses)
      [] q.op = "delete" -> q.rec.addresses
      [] OTHER -> {}

(* storage.Get of the model, at the start of updateModelDetails,           *)
(* deleteModelDetails, updateModelStatus and updateModelPrices; in         *)
(* ValidateModel it comes before the provider is called.  After an error   *)
(* TrainModel still adds the model to the pending list.                    *)
GetModelData(r) ==
    LET q == req[r]
    IN  /\ q.pc = "read"
        /\ \/ /\ req' = [req EXCEPT ![r] =
                     [q EXCEPT !.rec = model[q.model],
                               !.pc = IF q.op = "validate" THEN "call" ELSE "put"]]
              /\ UNCHANGED seen
           \/ /\ StorageFails
              /\ req' = [req EXCEPT ![r] =
                     [Answered(q, IF q.op \in {"train", "upload"} THEN "ok" ELSE "error")
                        EXCEPT !.pend = @ \/ q.op = "train"]]
        /\ UNCHANGED <<model, ids, pending, public, provider, worker>>

(* All lists are stored, or some are still to be.                          *)
NextList(q) ==
    IF q.todo # {} THEN [q EXCEPT !.pc = "lists"]
    ELSE IF q.op = "create" /\ q.rec.public THEN [q EXCEPT !.pc = "public"]
    ELSE Answered(q, IF q.answer = "error" THEN "error" ELSE "ok")

(* What a request does once its record is stored, or could not be: an      *)
(* update answers with that error if it has no list to store.              *)
AfterPut(q, stored) ==
    CASE q.op \in {"create", "update", "delete"} ->
           IF q.op = "create" /\ ~stored THEN Answered(q, "error")
           ELSE NextList([q EXCEPT !.todo = ListsToStore(q), !.answer =
                             IF q.op = "update" /\ ~stored THEN "error" ELSE NoAnswer])
      [] q.op \in {"validate", "train"} -> [Answered(q, "ok") EXCEPT !.pend = TRUE]
      [] q.op = "upload" -> Answered(q, "ok")
      [] OTHER -> Answered(q, IF stored THEN "ok" ELSE "error")

(* storage.Put of the whole record; update, delete and validate go on when *)
(* it fails.                                                               *)
PutModelData(r) ==
    LET q == req[r]
        m == q.model
        rec == Changed(q)
        granted == IF q.op \in {"create", "update"} THEN rec.addresses ELSE {}
        fresh == model[m] = (IF q.op = "create" THEN NoModel ELSE q.rec)
        added == IF q.op = "update" THEN ListsToStore(q) \ q.rec.addresses ELSE {}
        dropped == IF q.op = "update" THEN q.rec.addresses \ rec.addresses ELSE {}
        named == [seen EXCEPT !.granted[m] = @ \cup granted,
                              !.added = @ \cup (added \X {m}),
                              !.dropped = @ \cup (dropped \X {m})]
    IN  /\ q.pc = "put"
        /\ \/ /\ model' = [model EXCEPT ![m] = rec]
              /\ seen' = [named EXCEPT
                     !.asked[m] = IF q.op \in {"create", "update"} THEN rec.addresses ELSE @,
                     !.quoted[m] = @ \cup Quoted(q),
                     !.overwritten = IF fresh THEN @ ELSE @ \cup {m}]
              /\ req' = [req EXCEPT ![r] = AfterPut(q, TRUE)]
           \/ /\ StorageMayFail
              /\ seen' = [named EXCEPT !.failed = TRUE]
              /\ req' = [req EXCEPT ![r] = AfterPut(q, FALSE)]
              /\ UNCHANGED model
        /\ UNCHANGED <<ids, pending, public, provider, worker>>

-----------------------------------------------------------------------------
(***************************************************************************)
(* The lists of the users.                                                 *)
(***************************************************************************)

\* Mutant.
ReadCreatorsList(r) ==
    LET q == req[r]
    IN  /\ q.pc = "lists"
        /\ \E u \in q.todo :
             req' = [req EXCEPT ![r] = [q EXCEPT !.todo = @ \ {u}, !.address = u,
                                                 !.pc = "store", !.list = ids[q.user]]]
        /\ UNCHANGED <<model, ids, pending, public, provider, worker, seen>>

(* getModelUserData, userStorage.Get: the list is read as it is, but when  *)
(* the read fails create and update take it for empty and delete skips the *)
(* user.                                                                   *)
ReadUserList(r) ==
    LET q == req[r]
    IN  /\ q.pc = "lists"
        /\ \E u \in q.todo :
             LET next == [q EXCEPT !.todo = @ \ {u}, !.address = u, !.pc = "store"]
             IN  \/ /\ req' = [req EXCEPT ![r] = [next EXCEPT !.list = ids[u]]]
                    /\ UNCHANGED seen
                 \/ /\ StorageFails
                    /\ req' = [req EXCEPT ![r] =
                           IF q.op = "delete" THEN NextList([q EXCEPT !.todo = @ \ {u}])
                           ELSE [next EXCEPT !.list = [m \in Models |-> 0]]]
        /\ UNCHANGED <<model, ids, pending, public, provider, worker>>

\* Mutants.
ListedForCreator(q, n) ==
    IF q.op = "delete" THEN 0 ELSE IF q.address = q.user THEN n + 1 ELSE n

ListedAfterDelete(q, n) == IF q.op = "delete" THEN n ELSE n + 1

ListedUnchecked(q, n) == IF q.op = "delete" THEN n - 1 ELSE n + 1

(* How often the model is in the list that is stored.  getModelUserData    *)
(* has already appended the id, so update appends it again for a new       *)
(* address, and for a removed one takes out what was just appended.        *)
Listed(q, n) ==
    CASE q.op = "create" -> n + 1
      [] q.op = "update" -> IF q.new # {} /\ q.address \in NewAddresses(q) THEN n + 2 ELSE n
      [] q.op = "delete" -> IF n = 0 THEN 0 ELSE n - 1

(* userStorage.Put; its error ends create, and is the answer of update     *)
(* when it is the last one.                                                *)
StoreUserList(r) ==
    LET q == req[r]
        u == q.address
    IN  /\ q.pc = "store"
        /\ \/ /\ ids' = [ids EXCEPT ![u] = [q.list EXCEPT ![q.model] = Listed(q, @)]]
              /\ seen' = [seen EXCEPT !.clobbered =
                             IF ids[u] = q.list THEN @ ELSE @ \cup {u}]
              /\ req' = [req EXCEPT ![r] = NextList([q EXCEPT !.answer = NoAnswer])]
           \/ /\ StorageFails
              /\ req' = [req EXCEPT ![r] =
                     CASE q.op = "create" -> Answered(q, "error")
                       [] q.op = "update" -> NextList([q EXCEPT !.answer = "error"])
                       [] q.op = "delete" -> NextList(q)]
              /\ UNCHANGED ids
        /\ UNCHANGED <<model, pending, public, provider, worker>>

(* A public model is added to the public list, which may fail without the  *)
(* client being told.                                                      *)
AddPublicModelId(r) ==
    /\ req[r].pc = "public"
    /\ \/ public' = public \cup {req[r].model} /\ UNCHANGED seen
       \/ StorageFails /\ UNCHANGED public
    /\ Finish(r, "ok")
    /\ UNCHANGED <<model, ids, pending, provider, worker>>

(* The goroutine that adds the model to the pending list.                  *)
AddPendingModelId(r) ==
    /\ req[r].pend
    /\ \/ pending' = pending \cup {req[r].model} /\ UNCHANGED seen
       \/ StorageFails /\ UNCHANGED pending
    /\ req' = [req EXCEPT ![r] = [@ EXCEPT !.pend = FALSE]]
    /\ UNCHANGED <<model, ids, public, provider, worker>>

-----------------------------------------------------------------------------
(***************************************************************************)
(* The handlers up to their first access to a record: authorization, and   *)
(* the call of the provider where it comes first.                          *)
(***************************************************************************)

Request(op, u, m) ==
    [IdleRequest EXCEPT !.op = op, !.pc = "read", !.user = u, !.model = m]

BeingCreated(m) == \E r \in Requests :
    req[r].op = "create" /\ req[r].model = m /\ req[r].pc \notin {"idle", "done"}

Begin(r, q) ==
    /\ req[r].pc = "idle"
    /\ \A p \in Requests : p < r => req[p].pc # "idle"
    /\ req' = [req EXCEPT ![r] = q]

(* CreateModel, getModelDataToCreate: the provider hands out a new id and  *)
(* the creator is added to the address list.                               *)
CreateModel(r, u, new, isPublic) ==
    \E m \in Models :
        /\ Authorized("create")
        /\ provider[m] = "none"
        /\ provider' = [provider EXCEPT ![m] = "CREATED"]
        /\ Begin(r, [Request("create", u, m) EXCEPT !.pc = "put", !.new = new,
               !.rec = [status |-> "CREATED", owner |-> u, addresses |-> new \cup {u},
                        public |-> isPublic, prices |-> {}]])
        /\ UNCHANGED <<model, ids, pending, public, worker, seen>>

UpdateModel(r, u, m, new) ==
    /\ Authorized("update")
    /\ verifySignerHasAccessToTheModel(u, m)
    /\ verifyCreatedByAddress(u, m)
    /\ Begin(r, [Request("update", u, m) EXCEPT !.new = new])
    /\ UNCHANGED <<model, ids, pending, public, provider, worker, seen>>

(* DeleteModel may come while the model's creation still stores lists: the *)
(* record is there and GetAllModels shows the id.                          *)
DeleteModel(r, u, m) ==
    /\ Authorized("delete")
    /\ verifyCreatedByAddress(u, m)
    /\ provider' = [provider EXCEPT ![m] = "DELETED"]
    /\ Begin(r, Request("delete", u, m))
    /\ seen' = [seen EXCEPT !.overtaken = IF BeingCreated(m) THEN @ \cup {m} ELSE @]
    /\ UNCHANGED <<model, ids, pending, public, worker>>

(* GetModel asks the provider for the status and stores it.                *)
GetModel(r, u, m) ==
    /\ Authorized("get")
    /\ verifySignerHasAccessToTheModel(u, m)
    /\ Begin(r, [Request("get", u, m) EXCEPT !.status = provider[m]])
    /\ UNCHANGED <<model, ids, pending, public, provider, worker, seen>>

ModelPrice(r, u, m, op) ==
    /\ Authorized(op)
    /\ verifyCreatedByAddress(u, m)
    /\ Begin(r, Request(op, u, m))
    /\ UNCHANGED <<model, ids, pending, public, provider, worker, seen>>

ValidateModelPrice(r, u, m) == ModelPrice(r, u, m, "validatePrice")

TrainModelPrice(r, u, m) == ModelPrice(r, u, m, "trainPrice")

ValidateModel(r, u, m) ==
    /\ Authorized("validate")
    /\ verifyCreatedByAddress(u, m)
    /\ Begin(r, Request("validate", u, m))
    /\ UNCHANGED <<model, ids, pending, public, provider, worker, seen>>

(* ValidateModel has read the record and calls the provider.               *)
CallValidateModel(r) ==
    LET q == req[r]
    IN  /\ q.pc = "call"
        /\ \/ /\ provider[q.model] # "DELETED"
              /\ provider' = [provider EXCEPT ![q.model] = "VALIDATING"]
              /\ req' = [req EXCEPT ![r] = [q EXCEPT !.pc = "put", !.status = "VALIDATING"]]
           \/ Finish(r, "error") /\ UNCHANGED provider
        /\ UNCHANGED <<model, ids, pending, public, worker, seen>>

(* UploadAndValidate, at the end of the client's stream: when the provider *)
(* fails, the status is VALIDATING all the same.                           *)
UploadAndValidate(r, u, m) ==
    /\ Authorized("upload")
    /\ verifyCreatedByAddress(u, m)
    /\ provider' \in {provider} \cup
          IF provider[m] = "DELETED" THEN {} ELSE {[provider EXCEPT ![m] = "VALIDATING"]}
    /\ Begin(r, [Request("upload", u, m) EXCEPT !.status = "VALIDATING", !.pend = TRUE])
    /\ UNCHANGED <<model, ids, pending, public, worker, seen>>

(* TrainModel answers once the provider has, and stores the status after.  *)
TrainModel(r, u, m) ==
    /\ Authorized("train")
    /\ verifyCreatedByAddress(u, m)
    /\ provider[m] # "DELETED"
    /\ provider' = [provider EXCEPT ![m] = "TRAINING"]
    /\ Begin(r, [Request("train", u, m) EXCEPT !.status = "TRAINING"])
    /\ UNCHANGED <<model, ids, pending, public, worker, seen>>

-----------------------------------------------------------------------------
(***************************************************************************)
(* The status workers.  A tick reads the pending list and starts a         *)
(* goroutine per model, whether or not an earlier one still runs.          *)
(***************************************************************************)

WorkerGoes(m, w, v) == worker' = [worker EXCEPT ![m][w] = v]

ManageUpdateModelStatusWorkers(m, w) ==
    /\ worker[m][w].pc = "idle" /\ m \in pending
    /\ WorkerGoes(m, w, [IdleWorker EXCEPT !.pc = "read"])
    /\ UNCHANGED <<model, ids, pending, public, provider, req, seen>>

(* startUpdateModelStatusWorker reads the record (a pending model has      *)
(* one), ...                                                               *)
WorkerReads(m, w) ==
    /\ worker[m][w].pc = "read"
    /\ \/ /\ Stored(m)
          /\ WorkerGoes(m, w, [IdleWorker EXCEPT !.rec = model[m], !.pc = "call"])
          /\ UNCHANGED seen
       \/ StorageFails /\ WorkerGoes(m, w, IdleWorker)
    /\ UNCHANGED <<model, ids, pending, public, provider, req>>

(* ... asks the provider, which may not answer, ...                        *)
WorkerAsks(m, w) ==
    /\ worker[m][w].pc = "call"
    /\ WorkerGoes(m, w, [worker[m][w] EXCEPT !.status = provider[m],
                             !.pc = IF provider[m] \in Working THEN "put" ELSE "remove"])
    /\ UNCHANGED <<model, ids, pending, public, provider, req, seen>>

WorkerGetsNoAnswer(m, w) ==
    /\ worker[m][w].pc = "call"
    /\ WorkerGoes(m, w, IdleWorker)
    /\ UNCHANGED <<model, ids, pending, public, provider, req, seen>>

\* Mutant.
RemoveIfStatusChanged(m, w) ==
    LET v == worker[m][w]
    IN  /\ v.pc = "remove"
        /\ pending' = IF v.rec.status = v.status THEN pending ELSE pending \ {m}
        /\ WorkerGoes(m, w, [v EXCEPT !.pc = "put"])
        /\ UNCHANGED <<model, ids, public, provider, req, seen>>

(* ... takes the model off the pending list when the work is done, ...     *)
RemovePendingModelId(m, w) ==
    /\ worker[m][w].pc = "remove"
    /\ \/ pending' = pending \ {m} /\ UNCHANGED seen
       \/ StorageFails /\ UNCHANGED pending
    /\ WorkerGoes(m, w, [worker[m][w] EXCEPT !.pc = "put"])
    /\ UNCHANGED <<model, ids, public, provider, req>>

(* ... and stores the record it read, with the new status, if that is new. *)
WorkerPuts(m, w) ==
    LET v == worker[m][w]
    IN  /\ v.pc = "put"
        /\ \/ /\ v.status # v.rec.status
              /\ model' = [model EXCEPT ![m] = [v.rec EXCEPT !.status = v.status]]
              /\ seen' = [seen EXCEPT !.overwritten =
                             IF model[m] = v.rec THEN @ ELSE @ \cup {m}]
           \/ v.status = v.rec.status /\ UNCHANGED <<model, seen>>
           \/ v.status # v.rec.status /\ StorageFails /\ UNCHANGED model
        /\ WorkerGoes(m, w, IdleWorker)
        /\ UNCHANGED <<ids, pending, public, provider, req>>

(* External: the provider finishes validating or training.                 *)
ProviderFinishes(m) ==
    /\ provider[m] \in Working
    /\ provider' = [provider EXCEPT ![m] = "FINISHED"]
    /\ UNCHANGED <<model, ids, pending, public, req, worker, seen>>

(* The daemon stops and starts again: requests and workers are gone.  It   *)
(* does so while a request is made, hence finitely often.                  *)
Crash ==
    /\ "crash" \in Faults
    /\ req' = [r \in Requests |->
                  IF req[r].pc \in {"idle", "done"} THEN [req[r] EXCEPT !.pend = FALSE]
                  ELSE [Answered(req[r], "error") EXCEPT !.pend = FALSE]]
    /\ worker' = [m \in Models |-> [w \in Workers |-> IdleWorker]]
    /\ req' # req
    /\ UNCHANGED <<model, ids, pending, public, provider, seen>>

-----------------------------------------------------------------------------

TrainingInit ==
    \E rec \in Before :
        LET addresses == [m \in Models |->
                             IF rec[m] = NoModel THEN {} ELSE rec[m].addresses]
            prices == [m \in Models |-> IF rec[m] = NoModel THEN {} ELSE rec[m].prices]
        IN  /\ model = rec
            /\ ids = [u \in Users |-> [m \in Models |-> IF u \in addresses[m] THEN 1 ELSE 0]]
            /\ pending = {}
            /\ public = {m \in Models : rec[m] # NoModel /\ rec[m].public}
            /\ provider = [m \in Models |-> rec[m].status]
            /\ req = [r \in Requests |-> IdleRequest]
            /\ worker = [m \in Models |-> [w \in Workers |-> IdleWorker]]
            /\ seen = [granted |-> addresses, asked |-> addresses,
                       quoted |-> prices, clobbered |-> {}, added |-> {}, dropped |-> {},
                       overwritten |-> {}, overtaken |-> {}, failed |-> FALSE]

HandlerStarts(r, u) ==
    \/ \E new \in AddressLists, isPublic \in BOOLEAN : CreateModel(r, u, new, isPublic)
    \/ \E m \in Models :
          \/ \E new \in AddressLists \cup {{}} : UpdateModel(r, u, m, new)
          \/ DeleteModel(r, u, m) \/ GetModel(r, u, m)
          \/ ValidateModelPrice(r, u, m) \/ TrainModelPrice(r, u, m)
          \/ ValidateModel(r, u, m) \/ UploadAndValidate(r, u, m) \/ TrainModel(r, u, m)

HandlerStep(r) ==
    \/ GetModelData(r) \/ PutModelData(r) \/ CallValidateModel(r)
    \/ ReadUserList(r) \/ StoreUserList(r)
    \/ AddPublicModelId(r) \/ AddPendingModelId(r)

WorkerStep(m, w) ==
    \/ ManageUpdateModelStatusWorkers(m, w) \/ WorkerReads(m, w) \/ WorkerAsks(m, w)
    \/ WorkerGetsNoAnswer(m, w) \/ RemovePendingModelId(m, w) \/ WorkerPuts(m, w)

NothingInFlight ==
    /\ \A r \in Requests : req[r].pc \in {"idle", "done"} /\ ~req[r].pend
    /\ \A m \in Models, w \in Workers : worker[m][w].pc = "idle"

(* The daemon waits for requests, or the instance has made all of its own. *)
Waiting == NothingInFlight /\ UNCHANGED trainingVars

TrainingNext ==
    \/ \E r \in Requests : HandlerStep(r) \/ \E u \in Users : HandlerStarts(r, u)
    \/ \E m \in Models : ProviderFinishes(m) \/ \E w \in Workers : WorkerStep(m, w)
    \/ Crash
    \/ Waiting

TrainingSpec == TrainingInit /\ [][TrainingNext]_trainingVars

(* Every tick of the worker's timer starts a goroutine for every pending   *)
(* model.  That the provider answers the worker again and again is         *)
(* assumed, not something the daemon can enforce.                          *)
WorkerFairness ==
    \A m \in Models, w \in Workers :
        WF_trainingVars(WorkerStep(m, w)) /\ SF_trainingVars(WorkerAsks(m, w))

FairTrainingSpec == TrainingSpec /\ WorkerFairness

-----------------------------------------------------------------------------
(***************************************************************************)
(* Properties.                                                             *)
(***************************************************************************)

CreateAnswered(m) == Stored(m) /\ \A r \in Requests :
    req[r].op = "create" /\ req[r].model = m /\ req[r].pc # "idle" => req[r].answer = "ok"

DeleteRequested(m) == \E r \in Requests :
    req[r].op = "delete" /\ req[r].model = m /\ req[r].pc # "idle"

(* The list of a user, which verifySignerHasAccessToTheModel trusts, names *)
(* only models whose owner once authorized the user, whatever requests and *)
(* failures overlapped.                                                    *)
AccessOnlyGranted ==
    \A u \in Users, m \in Models : ids[u][m] > 0 => u \in seen.granted[m]

(* A CreateModel answered without error gave every address of its list     *)
(* access to the model, the creator included.  Before the model is deleted *)
(* only an update that names other addresses may take it away again, or a  *)
(* list stored over a version its writer had not read (getModelUserData);  *)
(* an update without addresses, a status or a price may not.               *)
CreateGrantsAccess ==
    \A r \in Requests :
        req[r].op = "create" /\ req[r].answer = "ok" /\ ~DeleteRequested(req[r].model) =>
            \A u \in req[r].rec.addresses \ seen.clobbered :
                <<u, req[r].model>> \in seen.dropped \/ ids[u][req[r].model] > 0

(* Once DeleteModel has answered, none of the addresses of the record it   *)
(* read has access to the model any more (verifySignerHasAccessToTheModel),*)
(* with these exceptions, all of them the code's: a public model stays     *)
(* open to everybody, as deleteModelDetails does not touch the public      *)
(* list; an address that an update added is in its list twice and is taken *)
(* out once; a deletion that began before the creation had ended finds     *)
(* lists that are stored afterwards; a list stored over a newer one, or a  *)
(* storage failure, is not noticed.                                        *)
DeleteRevokes ==
    \A r \in Requests :
        LET m == req[r].model
        IN  req[r].op = "delete" /\ req[r].answer = "ok" /\ ~seen.failed
              /\ m \notin public \cup seen.overtaken =>
                \A u \in req[r].rec.addresses \ seen.clobbered :
                    <<u, m>> \in seen.added \/ ~verifySignerHasAccessToTheModel(u, m)

(* GetAllModels lists exactly the models GetModel gives access to, once    *)
(* their creation was answered, unless the storage failed.                 *)
ListingAgreesWithAccess ==
    \A m \in Models : CreateAnswered(m) /\ ~seen.failed =>
        \A u \in Users : m \in GetAllModels(u, "any") <=> verifySignerHasAccessToTheModel(u, m)

(* The address list and the prices of a model are the last ones that were  *)
(* stored for it, unless a request or a worker stored a record over one it *)
(* had not read: updates are lost only to overlapping requests.            *)
LostUpdatesNeedARace ==
    \A m \in Models : Stored(m) /\ m \notin seen.overwritten =>
        model[m].addresses = seen.asked[m] /\ model[m].prices = seen.quoted[m]

(* A pending model whose work is done leaves the pending list: the worker  *)
(* does not poll the provider for ever.                                    *)
PendingDrains ==
    \A m \in Models :
        (m \in pending /\ provider[m] \notin Working)
            ~> (m \notin pending \/ provider[m] \in Working)

(* updateModelDetails: an address that an update took off the list loses   *)
(* its access, even where no two requests overlapped and nothing failed.   *)
RevokedLosesAccess ==
    NothingInFlight /\ ~seen.failed =>
        \A m \in Models \ seen.overwritten, u \in Users \ seen.clobbered :
            Stored(m) /\ ids[u][m] > 0 => u \in model[m].addresses \cup {model[m].owner}
=============================================================================
