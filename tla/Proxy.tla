------------------------------- MODULE Proxy -------------------------------
(***************************************************************************)
(* One call that the daemon passes on to the service (handler/grpc.go,     *)
(* handler/wrapper_stream.go).  For a gRPC service two goroutines copy     *)
(* frames, one in each direction, and the handler waits for their ends     *)
(* (grpcToGRPC); for the other kinds one frame is read, converted and      *)
(* answered.  The payment interceptor has read the first frame before the  *)
(* handler runs.                                                           *)
(*                                                                         *)
(* A frame is its number.  The transport is modelled from the way the      *)
(* code uses it: a client stream's SendMsg answers io.EOF once the stream  *)
(* is over, its RecvMsg then gives the status; the context of the call to  *)
(* the service ends with that of the client's call.                        *)
(***************************************************************************)
EXTENDS Naturals, Sequences, SequencesExt

CONSTANTS
    Kinds,      \* the kinds of handler of this instance, see HandlerKinds
    MaxFrames,  \* bound: frames that a client sends
    MaxReplies  \* bound: frames that a gRPC service sends

(* The service types of NewGrpcHandler, passthrough_enabled off            *)
(* ("loopback"), a stream that a service of the daemon itself handles      *)
(* ("upload": UploadAndValidate), and its unary methods.                   *)
HandlerKinds ==
    {"grpc", "http", "jsonrpc", "process", "loopback", "upload", "unary"}

ASSUME ProxyAssumption ==
    /\ Kinds \subseteq HandlerKinds
    /\ MaxFrames \in Nat \ {0} /\ MaxReplies \in Nat

VARIABLES
    kind,    \* how this call is handled
    client,  \* the client's stream
    first,   \* WrapperServerStream: the frame read ahead
    service, \* the stream to the service
    up,      \* goroutine of forwardServerToClient: frames to the service
    down,    \* goroutine of forwardClientToServer: frames to the client
    errs,    \* the channels s2cErrChan and c2sErrChan
    main     \* the handler: where it is, rounds of select left, its result

proxyVars == <<kind, client, first, service, up, down, errs, main>>

Ends == {"none", "EOF", "error"}
Results == {"none", "ok", "error", "panic"}
Goroutine == [at : {"off", "recv", "send", "report", "done"}, frame : Nat, err : Ends]

ProxyTypeOK ==
    /\ kind \in Kinds
    /\ client \in [sent : 0..MaxFrames, queue : Seq(Nat), closed : BOOLEAN,
                   gone : BOOLEAN, got : Seq(Nat)]
    /\ first \in [frame : Nat, pending : BOOLEAN, big : BOOLEAN]
    /\ service \in [got : Seq(Nat), queue : Seq(Nat), sent : Nat, closed : BOOLEAN,
                    status : {"running", "ok", "error"}, cancelled : BOOLEAN]
    /\ up \in Goroutine /\ down \in Goroutine
    /\ errs \in [{"s2c", "c2s"} -> Ends]
    /\ main \in [at : {"off", "start", "select", "call", "stdin", "answer", "provider",
                       "unreachable", "over"}, rounds : 0..2, result : Results]

Idle == [at |-> "off", frame |-> 0, err |-> "none"]

ProxyInit ==
    /\ kind \in Kinds
    /\ client = [sent |-> 0, queue |-> <<>>, closed |-> FALSE, gone |-> FALSE, got |-> <<>>]
    /\ first = [frame |-> 0, pending |-> FALSE, big |-> FALSE]
    /\ service = [got |-> <<>>, queue |-> <<>>, sent |-> 0, closed |-> FALSE,
                  status |-> "running", cancelled |-> FALSE]
    /\ up = Idle /\ down = Idle
    /\ errs = [s2c |-> "none", c2s |-> "none"]
    /\ main = [at |-> "off", rounds |-> 0, result |-> "none"]

-----------------------------------------------------------------------------
(***************************************************************************)
(* The client.                                                             *)
(***************************************************************************)
Over == main.at = "over"

ClientSends ==
    /\ ~client.closed /\ ~client.gone /\ ~Over /\ client.sent < MaxFrames
    /\ client' = [client EXCEPT !.sent = @ + 1, !.queue = Append(@, client.sent + 1)]
    /\ UNCHANGED <<kind, first, service, up, down, errs, main>>

ClientCloses ==
    /\ ~client.closed /\ ~client.gone /\ ~Over
    /\ client' = [client EXCEPT !.closed = TRUE]
    /\ UNCHANGED <<kind, first, service, up, down, errs, main>>

(* The client cancels, loses its connection or runs into its deadline.     *)
ClientGone ==
    /\ ~client.gone /\ ~Over
    /\ client' = [client EXCEPT !.gone = TRUE]
    /\ UNCHANGED <<kind, first, service, up, down, errs, main>>

-----------------------------------------------------------------------------
(***************************************************************************)
(* The streams.                                                            *)
(***************************************************************************)

Frame(n) == [frame |-> n, end |-> "none"]
End(e) == [frame |-> 0, end |-> e]

(* What RecvMsg on the daemon's stream gives: a frame, or its end; empty   *)
(* while there is nothing to be had.                                       *)
ClientRecv ==
    IF client.gone \/ Over THEN {End("error")}
    ELSE IF client.queue # <<>> THEN {Frame(Head(client.queue))}
    ELSE IF client.closed THEN {End("EOF")}
    ELSE {}

(* RecvMsg of WrapperServerStream.                                         *)
RecvMsg == IF first.pending THEN {Frame(first.frame)} ELSE ClientRecv

\* Mutant.
FirstForever ==
    IF first.pending /\ client.queue = <<>>
    THEN UNCHANGED <<first, client>>
    ELSE client' = [client EXCEPT !.queue = Tail(@)] /\ UNCHANGED first

(* RecvMsg hands out the frame read ahead once; the next frame is the head *)
(* of the queue.                                                           *)
FrameTaken ==
    IF first.pending
    THEN first' = [first EXCEPT !.pending = FALSE] /\ UNCHANGED client
    ELSE client' = [client EXCEPT !.queue = Tail(@)] /\ UNCHANGED first

Cancelled == service.cancelled \/ client.gone \/ Over

(* What RecvMsg on the stream to the service gives.                        *)
ServiceRecv ==
    (IF service.queue # <<>> THEN {Frame(Head(service.queue))}
     ELSE CASE service.status = "ok" -> {End("EOF")}
            [] service.status = "error" -> {End("error")}
            [] OTHER -> {})
      \cup (IF Cancelled THEN {End("error")} ELSE {})

(* The gRPC service sends, or ends the call with a status, whatever it has *)
(* received so far.                                                        *)
ServiceSends ==
    /\ main.at = "select" /\ service.status = "running" /\ ~Cancelled
    /\ service.sent < MaxReplies
    /\ service' = [service EXCEPT !.sent = @ + 1, !.queue = Append(@, service.sent + 1)]
    /\ UNCHANGED <<kind, client, first, up, down, errs, main>>

ServiceEnds(status) ==
    /\ main.at = "select" /\ service.status = "running"
    /\ service' = [service EXCEPT !.status = status]
    /\ UNCHANGED <<kind, client, first, up, down, errs, main>>

\* Mutant.
NoTimeout == FALSE /\ UNCHANGED proxyVars

(* withDefaultTimeout: the context of the call to the service expires.     *)
ServiceTimeout ==
    /\ main.at \in {"select", "call"} /\ ~service.cancelled
    /\ service' = [service EXCEPT !.cancelled = TRUE]
    /\ UNCHANGED <<kind, client, first, up, down, errs, main>>

-----------------------------------------------------------------------------
(***************************************************************************)
(* grpcToGRPC.                                                             *)
(***************************************************************************)
Return(result) == main' = [main EXCEPT !.at = "over", !.result = result]

(* NewStream, and the two goroutines are started; or there is no           *)
(* connection to the service.                                              *)
GrpcStarts ==
    /\ kind = "grpc" /\ main.at = "start"
    /\ \/ /\ main' = [main EXCEPT !.at = "select", !.rounds = 2]
          /\ up' = [Idle EXCEPT !.at = "recv"] /\ down' = [Idle EXCEPT !.at = "recv"]
       \/ Return("error") /\ UNCHANGED <<up, down>>
    /\ UNCHANGED <<kind, client, first, service, errs>>

(* forwardServerToClient: the next frame from the client, or the end.      *)
UpRecv ==
    /\ up.at = "recv"
    /\ \E m \in RecvMsg :
         IF m.end = "none"
         THEN up' = [up EXCEPT !.at = "send", !.frame = m.frame] /\ FrameTaken
         ELSE up' = [up EXCEPT !.at = "report", !.err = m.end] /\ UNCHANGED <<first, client>>
    /\ UNCHANGED <<kind, service, down, errs, main>>

(* The frame is sent to the service, which may be gone.  Any other failure *)
(* of SendMsg, a frame above the limit for instance, ends the stream.      *)
UpSend ==
    /\ up.at = "send"
    /\ \/ /\ service.status = "running" /\ ~Cancelled
          /\ service' = [service EXCEPT !.got = Append(@, up.frame)]
          /\ up' = [up EXCEPT !.at = "recv", !.frame = 0]
       \/ /\ service.status # "running" \/ Cancelled
          /\ up' = [up EXCEPT !.at = "report", !.err = "EOF", !.frame = 0]
          /\ UNCHANGED service
       \/ /\ up' = [up EXCEPT !.at = "report", !.err = "error", !.frame = 0]
          /\ service' = [service EXCEPT !.cancelled = TRUE]
    /\ UNCHANGED <<kind, client, first, down, errs, main>>

(* forwardClientToServer: the next frame from the service, or the end.     *)
DownRecv ==
    /\ down.at = "recv"
    /\ \E m \in ServiceRecv :
         IF m.end = "none"
         THEN /\ down' = [down EXCEPT !.at = "send", !.frame = m.frame]
              /\ service' = [service EXCEPT !.queue = Tail(@)]
         ELSE down' = [down EXCEPT !.at = "report", !.err = m.end] /\ UNCHANGED service
    /\ UNCHANGED <<kind, client, first, up, errs, main>>

(* SendMsg to the client returns once flow control lets the frame pass: it *)
(* is the client's reading that makes this step possible.                  *)
DownSend ==
    /\ down.at = "send" /\ ~client.gone /\ ~Over
    /\ client' = [client EXCEPT !.got = Append(@, down.frame)]
    /\ down' = [down EXCEPT !.at = "recv", !.frame = 0]
    /\ UNCHANGED <<kind, first, service, up, errs, main>>

DownFails ==
    /\ down' = [down EXCEPT !.at = "report", !.err = "error", !.frame = 0]
    /\ UNCHANGED <<kind, client, first, service, up, errs, main>>

(* ... or fails when the client, or the call, is gone.                     *)
DownSendFails == down.at = "send" /\ (client.gone \/ Over) /\ DownFails

(* Before the first frame: the header cannot be had from the service.  The *)
(* wrapper holds back what SendHeader is given, and gives no error.        *)
HeaderFails == down.at = "send" /\ down.frame = 1 /\ DownFails

\* Mutant.
Unbuffered(chan) == main.at = "select"

(* The channels have room for the one error that is sent to them.          *)
HasRoom(chan) == errs[chan] = "none"

\* Mutant.
ReportsAgain ==
    /\ up.at = "report" /\ HasRoom("s2c")
    /\ errs' = [errs EXCEPT !.s2c = up.err]
    /\ up' = [up EXCEPT !.at = "recv"]
    /\ UNCHANGED <<kind, client, first, service, down, main>>

UpReports ==
    /\ up.at = "report" /\ HasRoom("s2c")
    /\ errs' = [errs EXCEPT !.s2c = up.err]
    /\ up' = [up EXCEPT !.at = "done"]
    /\ UNCHANGED <<kind, client, first, service, down, main>>

DownReports ==
    /\ down.at = "report" /\ HasRoom("c2s")
    /\ errs' = [errs EXCEPT !.c2s = down.err]
    /\ down' = [down EXCEPT !.at = "done"]
    /\ UNCHANGED <<kind, client, first, service, up, main>>

\* Mutant.
ServedWhenClientIsDone ==
    /\ main.at = "select" /\ errs.s2c # "none"
    /\ errs' = [errs EXCEPT !.s2c = "none"]
    /\ Return(IF errs.s2c = "EOF" THEN "ok" ELSE "error")
    /\ service' = [service EXCEPT !.closed = TRUE]
    /\ UNCHANGED <<kind, client, first, up, down>>

(* The handler takes an end from s2cErrChan: the client has sent all it    *)
(* will, or the service is over; anything else ends the call.              *)
SelectS2C ==
    /\ main.at = "select" /\ errs.s2c # "none"
    /\ errs' = [errs EXCEPT !.s2c = "none"]
    /\ IF errs.s2c = "EOF"
       THEN /\ service' = [service EXCEPT !.closed = TRUE]
            /\ main' = [main EXCEPT !.rounds = @ - 1,
                                    !.at = IF main.rounds = 1 THEN "unreachable" ELSE @]
       ELSE /\ service' = [service EXCEPT !.cancelled = TRUE]
            /\ Return("error")
    /\ UNCHANGED <<kind, client, first, up, down>>

(* The handler takes the end of the service's answer from c2sErrChan.      *)
SelectC2S ==
    /\ main.at = "select" /\ errs.c2s # "none"
    /\ errs' = [errs EXCEPT !.c2s = "none"]
    /\ Return(IF errs.c2s = "EOF" THEN "ok" ELSE "error")
    /\ UNCHANGED <<kind, client, first, service, up, down>>

-----------------------------------------------------------------------------
(***************************************************************************)
(* grpcToHTTP, grpcToJSONRPC, grpcToProcess, grpcLoopback: one frame in,   *)
(* one frame out.                                                          *)
(***************************************************************************)
OneFrame == kind \in {"http", "jsonrpc", "process", "loopback"}

(* protoToJson, json.Unmarshal: not every frame has a form that the        *)
(* service understands.                                                    *)
protoToJsonMayFail == kind \in {"http", "jsonrpc"}

(* The frame is received and converted.  The process gets its input        *)
(* through a pipe that is filled before the process is started.            *)
OneFrameStarts ==
    /\ OneFrame /\ main.at = "start" /\ first.pending
    /\ FrameTaken
    /\ \/ /\ main' = [main EXCEPT !.at = CASE kind = "loopback" -> "answer"
                                           [] kind = "process" -> "stdin"
                                           [] OTHER -> "call"]
          /\ service' = IF kind = "loopback"
                        THEN [service EXCEPT !.status = "ok", !.sent = 1] ELSE service
       \/ /\ protoToJsonMayFail
          /\ Return("error") /\ UNCHANGED service
    /\ UNCHANGED <<kind, up, down, errs>>

(* stdin.Write: a frame that is larger than the pipe stays here.           *)
WriteStdin ==
    /\ main.at = "stdin" /\ ~first.big
    /\ main' = [main EXCEPT !.at = "call"]
    /\ UNCHANGED <<kind, client, first, service, up, down, errs>>

(* The service answers, or the call to it fails: a status that is not 2xx, *)
(* an answer that cannot be converted, an exit code, a timeout.            *)
CallService ==
    /\ main.at = "call"
    /\ \/ /\ ~Cancelled
          /\ service' = [service EXCEPT !.got = Append(@, first.frame), !.status = "ok",
                                        !.sent = 1]
          /\ main' = [main EXCEPT !.at = "answer"]
       \/ /\ service' = [service EXCEPT !.status = "error"]
          /\ Return("error")
    /\ UNCHANGED <<kind, client, first, up, down, errs>>

(* SendMsg of the answer, which waits for the client as well, ...          *)
SendAnswer ==
    /\ main.at = "answer" /\ ~client.gone
    /\ client' = [client EXCEPT !.got = Append(@, 1)] /\ Return("ok")
    /\ UNCHANGED <<kind, first, service, up, down, errs>>

(* ... or fails when it is gone.                                           *)
SendAnswerFails ==
    /\ main.at = "answer" /\ client.gone
    /\ Return("error")
    /\ UNCHANGED <<kind, client, first, service, up, down, errs>>

-----------------------------------------------------------------------------
(***************************************************************************)
(* A service of the daemon itself.                                         *)
(***************************************************************************)

(* The stream of UploadAndValidate asks the wrapper for its own message    *)
(* type: the frame read ahead is not handed over, and RecvMsg fails.       *)
UploadRecv ==
    /\ kind = "upload" /\ main.at = "start"
    /\ first' = [first EXCEPT !.pending = FALSE]
    /\ Return("error")
    /\ UNCHANGED <<kind, client, service, up, down, errs>>

(* TrainModel, ValidateModel and the methods without a price: module       *)
(* Training.  The request is refused, or the provider of the service is    *)
(* asked, with the context of the client's call: the daemon sets no        *)
(* deadline.                                                               *)
UnaryHandler ==
    /\ kind = "unary" /\ main.at = "start"
    /\ Return("error") \/ main' = [main EXCEPT !.at = "provider"]
    /\ UNCHANGED <<kind, client, first, service, up, down, errs>>

ProviderAnswers(result) ==
    /\ main.at = "provider"
    /\ service' = [service EXCEPT !.status = result]
    /\ Return(result)
    /\ UNCHANGED <<kind, client, first, up, down, errs>>

(* The client's call has ended, and with it the context.                   *)
ProviderGivenUp ==
    /\ main.at = "provider" /\ client.gone
    /\ Return("error")
    /\ UNCHANGED <<kind, client, first, service, up, down, errs>>

(* The handler panics.                                                     *)
HandlerPanics ==
    /\ main.at \in {"start", "call", "answer", "provider"}
    /\ Return("panic")
    /\ UNCHANGED <<kind, client, first, service, up, down, errs>>

-----------------------------------------------------------------------------
(* What the daemon does by itself, without the client or the service.      *)
ProxyStep ==
    \/ GrpcStarts \/ UpRecv \/ UpSend \/ DownRecv \/ DownSendFails
    \/ UpReports \/ DownReports \/ SelectS2C \/ SelectC2S
    \/ OneFrameStarts \/ WriteStdin \/ CallService \/ SendAnswerFails
    \/ UploadRecv \/ UnaryHandler \/ ProviderGivenUp

(* What takes the client, which sends and reads, or the service, or what   *)
(* may only happen.                                                        *)
ProxyEnvironment ==
    \/ ClientSends \/ ClientCloses \/ ClientGone \/ DownSend \/ SendAnswer
    \/ ServiceSends
    \/ \E status \in {"ok", "error"} : ServiceEnds(status) \/ ProviderAnswers(status)
    \/ HeaderFails \/ HandlerPanics

Frames(n) == [i \in 1..n |-> i]

(* What reaches the service are the client's frames in their order, none   *)
(* twice and none left out, the one read ahead by the payment interceptor  *)
(* included; what reaches the client are the service's.                    *)
FramesInOrder ==
    /\ kind # "loopback" => IsPrefix(service.got, Frames(client.sent))
    /\ IsPrefix(client.got, Frames(service.sent))

(* A call that the handler reports as good, and that is then paid for, was *)
(* ended as good by the service, and every frame of its answer has been    *)
(* passed on to the client, in whatever order the two goroutines ended.    *)
OkMeansComplete ==
    main.result = "ok" =>
      /\ service.status = "ok"
      /\ kind # "unary" => client.got = Frames(service.sent)

(* "gRPC proxying should never reach this stage."                          *)
NeverReached == main.at # "unreachable"

GoroutinesDone == up.at \in {"off", "done"} /\ down.at \in {"off", "done"}
=============================================================================
