------------------------------- MODULE Daemon -------------------------------
(***************************************************************************)
(* The daemon around one call: the chain of interceptors that admits it,   *)
(* takes its payment and settles it (handler/stream_interceptor.go,        *)
(* handler/unary_interceptor.go), the handler (module Proxy), the          *)
(* operator's commands (module Broadcaster), the listener that follows     *)
(* changes of the storage endpoints (contract_event_listener), and the     *)
(* beginning and the end of the process (snetd/cmd/serve.go,               *)
(* snetd/cmd/components.go).                                               *)
(*                                                                         *)
(* What a payment does to a channel or to a user's count is in modules     *)
(* PaymentChannels, FreeCalls and PrePaid; here it is opened by Payment,   *)
(* and Complete or CompleteAfterError settles it.                          *)
(***************************************************************************)
EXTENDS Proxy, Broadcaster

CONSTANT MaxEvents  \* bound: changes of the endpoints; 0 without hot_reload

ASSUME DaemonAssumption == MaxEvents \in Nat

VARIABLES
    phase,   \* how far the call has come, see Phases
    payment, \* the payment of the call
    life,    \* of the process
    etcd     \* the storage: embedded server, clients of Components and listener

daemonVars == <<phase, payment, life, etcd>>
vars == <<proxyVars, broadcastVars, daemonVars>>

(* Where the payments are stored: at an etcd server, at the one that the   *)
(* daemon itself runs, or in memory.                                       *)
StorageTypes == {"etcd", "embedded", "memory"}

Phases == {"none", "admit", "context", "first", "payment", "handler", "over"}

(* The handlers of GrpcStreamPaymentValidationInterceptor, of              *)
(* GrpcUnaryPaymentValidationInterceptor, and a name that none of them has.*)
PaymentTypes ==
    IF kind = "unary" THEN {"train-call", "unknown"}
    ELSE {"escrow", "free-call", "prepaid-call", "train-call", "unknown"}

DaemonTypeOK ==
    /\ ProxyTypeOK /\ BroadcastTypeOK
    /\ phase \in Phases
    /\ payment \in [type : {"none", "escrow", "free-call", "prepaid-call", "train-call"},
                    open : BOOLEAN, settled : {"none", "Complete", "CompleteAfterError"},
                    times : 0..1, storage : {"open", "closed"}]
    /\ life \in {"loading", "initializing", "creating", "starting", "registering", "serving",
                 "stopping", "closing", "exited", "crashed"}
    /\ etcd \in [type : StorageTypes, server : {"none", "running", "closed"},
                 components : {"none", "open", "closed"},
                 listener : {"off", "shared", "own", "none"}, events : 0..MaxEvents]

DaemonInit ==
    /\ ProxyInit /\ BroadcastInit
    /\ phase = "none"
    /\ payment = [type |-> "none", open |-> FALSE, settled |-> "none", times |-> 0,
                  storage |-> "open"]
    /\ life = "loading"
    /\ \E type \in StorageTypes :
         etcd = [type |-> type, server |-> "none", components |-> "none",
                 listener |-> "off", events |-> 0]

Alive == life \notin {"exited", "crashed"}

-----------------------------------------------------------------------------
(***************************************************************************)
(* The interceptors.  A refusal ends the call.                             *)
(***************************************************************************)
Refused == phase' = "over" /\ main' = [main EXCEPT !.at = "over", !.result = "error"]

Goes(to) == phase' = to /\ UNCHANGED main

ProxyBut == UNCHANGED <<kind, client, service, up, down, errs>>

(* A client opens a call.  Only streams go through the rate limit.         *)
Arrives ==
    /\ phase = "none" /\ life = "serving"
    /\ Goes(IF kind = "unary" THEN "context" ELSE "admit")
    /\ ProxyBut /\ UNCHANGED <<first, broadcastVars, payment, life, etcd>>

(* The rate limit interceptor.  The limiter's Allow is a library's.        *)
intercept ==
    /\ phase = "admit"
    /\ \/ processRequest = StopProcessingAnyRequest /\ Refused
       \/ processRequest # StopProcessingAnyRequest /\ (Refused \/ Goes("context"))
    /\ ProxyBut /\ UNCHANGED <<first, broadcastVars, payment, life, etcd>>

(* getGrpcContext: no metadata ends the call.  A unary method without a    *)
(* price is handled without a payment.                                     *)
getGrpcContext ==
    /\ phase = "context"
    /\ \/ Refused
       \/ kind # "unary" /\ Goes("first")
       \/ kind = "unary" /\ Goes("payment")
       \/ kind = "unary" /\ phase' = "handler" /\ main' = [main EXCEPT !.at = "start"]
    /\ ProxyBut /\ UNCHANGED <<first, broadcastVars, payment, life, etcd>>

(* NewWrapperServerStream waits for the first frame.                       *)
NewWrapperServerStream ==
    /\ phase = "first"
    /\ \E m \in ClientRecv :
         IF m.end = "none"
         THEN /\ \E big \in BOOLEAN :
                   /\ big => kind = "process"
                   /\ first' = [frame |-> m.frame, pending |-> TRUE, big |-> big]
              /\ client' = [client EXCEPT !.queue = Tail(@)]
              /\ Goes("payment")
         ELSE Refused /\ UNCHANGED <<first, client>>
    /\ UNCHANGED <<kind, service, up, down, errs, broadcastVars, payment, life, etcd>>

(* The handler that the payment type of the metadata names.                *)
getPaymentHandler(type) == type \in PaymentTypes \ {"unknown"}

(* The income validators read the price of a training method from the      *)
(* model; when there is none they panic.                                   *)
PriceOfModel(type) ==
    kind \in {"upload", "unary"} /\ type \in {"escrow", "train-call"}

(* Payment of a payment handler: it refuses the payment, which it always   *)
(* does without a storage, or opens it, or panics with the payment open.   *)
TakePayment(type) ==
    \/ Refused /\ UNCHANGED <<payment, life>>
    \/ /\ getPaymentHandler(type) /\ etcd.components = "open"
       /\ payment' = [payment EXCEPT !.type = type, !.open = TRUE]
       /\ \/ phase' = "handler" /\ main' = [main EXCEPT !.at = "start"] /\ UNCHANGED life
          \/ PriceOfModel(type) /\ life' = "crashed" /\ UNCHANGED <<phase, main>>

(* The payment of a stream, whose first frame has been read, ...           *)
streamIntercept(type) ==
    /\ phase = "payment" /\ kind # "unary"
    /\ TakePayment(type)
    /\ ProxyBut /\ UNCHANGED <<first, broadcastVars, etcd>>

(* ... and of a training method: validate_model, train_model.              *)
unaryIntercept(type) ==
    /\ phase = "payment" /\ kind = "unary"
    /\ TakePayment(type)
    /\ ProxyBut /\ UNCHANGED <<first, broadcastVars, etcd>>

\* Mutant.
SettlementAfter(result) ==
    IF result = "panic" THEN "none"
    ELSE IF result = "ok" THEN "Complete" ELSE "CompleteAfterError"

(* The deferred function of the interceptors.                              *)
Settlement(result) == IF result = "ok" THEN "Complete" ELSE "CompleteAfterError"

(* The handler has returned or panicked: the payment is settled, and a     *)
(* panic is raised again, which nothing catches.                           *)
Settle ==
    /\ phase = "handler" /\ main.at = "over"
    /\ phase' = "over"
    /\ payment' =
         IF ~payment.open \/ Settlement(main.result) = "none" THEN payment
         ELSE [payment EXCEPT !.settled = Settlement(main.result), !.times = @ + 1,
                              !.open = FALSE, !.storage = etcd.components]
    /\ life' = IF main.result = "panic" THEN "crashed" ELSE life
    /\ UNCHANGED <<proxyVars, broadcastVars, etcd>>

-----------------------------------------------------------------------------
(***************************************************************************)
(* The process.  Components are created when they are first asked for; one *)
(* that cannot be panics, and then the deferred Close runs.                *)
(***************************************************************************)
Elsewhere == UNCHANGED <<proxyVars, broadcastVars, phase, payment>>

(* The configuration is loaded; without one the process panics before      *)
(* anything was created.                                                   *)
InitComponents ==
    /\ life = "loading"
    /\ life' \in {"initializing", "crashed"}
    /\ UNCHANGED etcd /\ Elsewhere

(* The embedded server gets ready, or fails, or is stopped because it took *)
(* too long.                                                               *)
startEtcdServer ==
    /\ etcd.type = "embedded"
    /\ \/ etcd' = [etcd EXCEPT !.server = "running"] /\ life' = "creating"
       \/ UNCHANGED etcd /\ life' = "closing"

(* components.EtcdServer: starts the server if it is enabled; a            *)
(* configuration that cannot be parsed panics.                             *)
EtcdServer ==
    /\ life = "initializing"
    /\ \/ startEtcdServer
       \/ etcd.type # "embedded" /\ life' = "creating" /\ UNCHANGED etcd
       \/ life' = "closing" /\ UNCHANGED etcd
    /\ Elsewhere

(* An error of newDaemon is fatal: no deferred function runs.  The         *)
(* blockchain processor, which it creates, panics.                         *)
newDaemon ==
    /\ life = "creating"
    /\ life' \in {"starting", "crashed", "closing"}
    /\ UNCHANGED etcd /\ Elsewhere

(* components.AtomicStorage, EtcdClient: the client of the storage.        *)
AtomicStorage == [etcd EXCEPT !.components = "open"]

(* start: NewGrpcHandler, and the components that the interceptors need,   *)
(* the storage first.  A configuration or an endpoint that the handler     *)
(* does not accept is fatal; a component that cannot be created, the       *)
(* client of etcd for instance, panics.                                    *)
start ==
    /\ life = "starting"
    /\ \/ life' = "registering" /\ etcd' = AtomicStorage
       \/ life' \in {"closing", "crashed"} /\ UNCHANGED etcd
    /\ Elsewhere

Listener ==
    [etcd EXCEPT !.listener = IF etcd.type = "memory" \/ MaxEvents = 0 THEN "off" ELSE "shared"]

(* The rest of start, with the storage open: the other components and      *)
(* services, which may panic, and the listening sockets, without which the *)
(* daemon ends by Fatal.  Then it serves; the listener of the              *)
(* organization's metadata runs if there is an etcd client and hot_reload  *)
(* is on.                                                                  *)
startServices ==
    /\ life = "registering"
    /\ \/ life' = "serving" /\ etcd' = Listener
       \/ life' \in {"closing", "crashed"} /\ UNCHANGED etcd
    /\ Elsewhere

(* SIGTERM or SIGINT; the deferred stop and Close run after it.            *)
Signal ==
    /\ life = "serving"
    /\ life' = "stopping"
    /\ UNCHANGED etcd /\ Elsewhere

\* Mutant.
StopAtOnce ==
    /\ life = "stopping"
    /\ life' = "closing"
    /\ UNCHANGED etcd /\ Elsewhere

(* GracefulStop returns when no call is left.                              *)
stop ==
    /\ life = "stopping" /\ phase \in {"none", "over"}
    /\ life' = "closing"
    /\ UNCHANGED etcd /\ Elsewhere

HasClient == etcd.type # "memory" /\ etcd.components = "open"

\* Mutant.
CloseServerFirst ==
    /\ life = "closing"
    /\ \/ /\ etcd.server = "running"
          /\ etcd' = [etcd EXCEPT !.server = "closed"] /\ UNCHANGED life
       \/ /\ etcd.server # "running" /\ HasClient
          /\ etcd' = [etcd EXCEPT !.components = "closed"] /\ UNCHANGED life
       \/ /\ etcd.server # "running" /\ ~HasClient /\ life' = "exited"
          /\ UNCHANGED etcd
    /\ Elsewhere

(* components.Close, while the process still runs, and its end.            *)
Close ==
    /\ life = "closing"
    /\ \/ /\ HasClient
          /\ etcd' = [etcd EXCEPT !.components = "closed"] /\ UNCHANGED life
       \/ /\ ~HasClient /\ etcd.server = "running"
          /\ etcd' = [etcd EXCEPT !.server = "closed"] /\ UNCHANGED life
       \/ /\ ~HasClient /\ etcd.server # "running" /\ life' = "exited"
          /\ UNCHANGED etcd
    /\ Elsewhere

(* ListenOrganizationMetadataChanging: new endpoints.  The listener closes *)
(* its client, at first the one that all storages of the daemon use, and   *)
(* connects one that only it knows, or none, and then the next event makes *)
(* it panic.                                                               *)
OrganizationModified ==
    /\ etcd.events < MaxEvents /\ etcd.listener # "off"
    /\ IF etcd.listener = "none"
       THEN life' = "crashed" /\ UNCHANGED etcd
       ELSE /\ \E new \in {"own", "none"} :
                 etcd' = [etcd EXCEPT !.listener = new, !.events = @ + 1,
                            !.components = IF etcd.listener = "shared" THEN "closed" ELSE @]
            /\ UNCHANGED life
    /\ Elsewhere

-----------------------------------------------------------------------------
(* What the daemon does by itself.                                         *)
DaemonStep ==
    /\ Alive
    /\ \/ InitComponents \/ EtcdServer \/ newDaemon \/ start \/ startServices
       \/ intercept \/ getGrpcContext \/ NewWrapperServerStream
       \/ \E type \in PaymentTypes : streamIntercept(type) \/ unaryIntercept(type)
       \/ Settle \/ stop \/ Close
       \/ ProxyStep /\ UNCHANGED <<broadcastVars, daemonVars>>
       \/ ServiceTimeout /\ UNCHANGED <<broadcastVars, daemonVars>>

BroadcasterSteps == Alive /\ BroadcastStep /\ UNCHANGED <<proxyVars, daemonVars>>

DaemonNext ==
    \/ DaemonStep
    \/ BroadcasterSteps
    \/ life = "serving" /\ OperatorNext /\ UNCHANGED <<proxyVars, daemonVars>>
    \/ /\ Alive
       /\ \/ Arrives \/ Signal \/ OrganizationModified
          \/ phase # "none" /\ ProxyEnvironment /\ UNCHANGED <<broadcastVars, daemonVars>>

(* The goroutines of the daemon run, and the context of a call to the      *)
(* service expires; nothing is assumed of clients, services and operators. *)
DaemonSpec ==
    DaemonInit /\ [][DaemonNext]_vars /\ WF_vars(DaemonStep) /\ WF_vars(BroadcasterSteps)

-----------------------------------------------------------------------------
(* A payment that Payment opened is settled once, with Complete exactly    *)
(* when the handler returned no error, and the interceptor is not left     *)
(* with it open, whichever way the handler ended.                          *)
SettledOnce ==
    /\ phase = "over" => ~payment.open
    /\ payment.settled = "Complete" => main.result = "ok"
    /\ payment.settled = "CompleteAfterError" => main.result \in {"error", "panic"}
    /\ payment.settled # "none" => payment.times = 1

(* A payment is settled while the storage is open: stop waits for the      *)
(* calls before Close.  Only the listener of the organization's metadata   *)
(* closes the storage of a running daemon.                                 *)
SettledOnOpenStorage == payment.storage = "closed" => etcd.listener \in {"own", "none"}

(* A call finds a storage, the client of an embedded etcd server is only   *)
(* open while that server runs, and a process that ends by a signal, or by *)
(* the panic of a component that cannot be created, has closed both,       *)
(* whichever of them were open by then.  (Fatal runs no deferred function, *)
(* and closes nothing.)                                                    *)
StorageLifetime ==
    /\ phase # "none" => etcd.components # "none"
    /\ etcd.type = "embedded" /\ HasClient => etcd.server = "running"
    /\ life = "exited" => ~HasClient /\ etcd.server # "running"

(* The interceptor ends up with the last command that an operator's call   *)
(* was answered for, however the calls overlap.                            *)
EventuallyObeyed == <>[](Alive => processRequest = lastCommand)

(* stdin.Write of grpcToProcess before the process runs: no timeout helps. *)
StuckOnStdin == main.at = "stdin" /\ first.big

(* inStream.SendMsg: the client stays and does not read.                   *)
ClientDoesNotRead == ~client.gone /\ (down.at = "send" \/ main.at = "answer")

(* TrainModel, ValidateModel: no deadline but the client's.                *)
ProviderIsSilent == main.at = "provider" /\ ~client.gone

(* A payment that is open, and with it a channel or a user that is locked, *)
(* is settled unless the process ends, and but for three places where the  *)
(* handler waits without a timeout, then for ever: for the provider of a   *)
(* training method and for a client that does not read, in both cases as   *)
(* long as the client stays, and for a process to read an input that does  *)
(* not fit its pipe.  Everywhere else a silent service or client does not  *)
(* keep it open.                                                           *)
PaymentSettledEventually ==
    payment.open ~> \/ ~payment.open \/ ~Alive
                    \/ [](StuckOnStdin \/ ClientDoesNotRead \/ ProviderIsSilent)

(* The goroutines of a gRPC call end after it: none waits for a handler    *)
(* that has returned.                                                      *)
GoroutinesEnd == Over ~> (GoroutinesDone \/ ~Alive)
=============================================================================
