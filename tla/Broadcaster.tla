---------------------------- MODULE Broadcaster ----------------------------
(***************************************************************************)
(* Starting and stopping the processing of requests.  An operator's call   *)
(* (configuration_service.go) puts a command into the trigger channel and  *)
(* answers at once; a goroutine (broadcast_message.go) hands it to the     *)
(* channel of every subscriber, and another one, of the rate limit         *)
(* interceptor (stream_interceptor.go), keeps the last command it was      *)
(* given.  Both channels hold one command.                                 *)
(*                                                                         *)
(* The interceptor subscribes while the daemon starts, before a call can   *)
(* be made, so the mutex of the list of subscribers is never contended.    *)
(***************************************************************************)
EXTENDS Naturals, Sequences

CONSTANT Operators  \* calls of operators: each is made once

VARIABLES
    operator,       \* per call: where it is and its command
    trigger,        \* channel: a command that has to be published
    publisher,      \* Publish: the command it is sending, or Nothing
    notification,   \* channel of the subscriber
    processRequest, \* what the interceptor goes by
    lastCommand     \* history: the last command that was put into trigger

broadcastVars ==
    <<operator, trigger, publisher, notification, processRequest, lastCommand>>

StopProcessingAnyRequest == 0
StartProcessingAnyRequest == 1
ProcessingCommands == {StopProcessingAnyRequest, StartProcessingAnyRequest}

Nothing == 2

BroadcastTypeOK ==
    /\ operator \in [Operators -> [at : {"idle", "send", "replied", "refused"},
                                   command : ProcessingCommands]]
    /\ trigger \in Seq(ProcessingCommands) /\ Len(trigger) <= 1
    /\ publisher \in ProcessingCommands \cup {Nothing}
    /\ notification \in Seq(ProcessingCommands) /\ Len(notification) <= 1
    /\ processRequest \in ProcessingCommands /\ lastCommand \in ProcessingCommands

BroadcastInit ==
    /\ operator = [o \in Operators |-> [at |-> "idle", command |-> Nothing - 1]]
    /\ trigger = <<>> /\ publisher = Nothing /\ notification = <<>>
    /\ processRequest = StartProcessingAnyRequest
    /\ lastCommand = StartProcessingAnyRequest

(* How an operator's call may be signed.                                   *)
Signatures == {"valid", "of an old block", "of a stranger"}

(* authenticate: the block of the signature is recent and the signer is    *)
(* one of authentication_addresses.                                        *)
authenticate(signature) == signature = "valid"

(* StopProcessingRequests, StartProcessingRequests: the call is            *)
(* authenticated and then waits for room in the trigger channel.           *)
OperatorCalls(o, command, signature) ==
    /\ operator[o].at = "idle"
    /\ operator' = [operator EXCEPT ![o] =
                      [at |-> IF authenticate(signature) THEN "send" ELSE "refused",
                       command |-> command]]
    /\ UNCHANGED <<trigger, publisher, notification, processRequest, lastCommand>>

OperatorSends(o) ==
    /\ operator[o].at = "send" /\ trigger = <<>>
    /\ trigger' = <<operator[o].command>>
    /\ lastCommand' = operator[o].command
    /\ operator' = [operator EXCEPT ![o].at = "replied"]
    /\ UNCHANGED <<publisher, notification, processRequest>>

(* Publish takes a command.                                                *)
PublishTakes ==
    /\ publisher = Nothing /\ trigger # <<>>
    /\ publisher' = Head(trigger) /\ trigger' = <<>>
    /\ UNCHANGED <<operator, notification, processRequest, lastCommand>>

\* Mutant.
PublishWithoutWaiting ==
    /\ publisher # Nothing
    /\ notification' = IF notification = <<>> THEN <<publisher>> ELSE notification
    /\ publisher' = Nothing
    /\ UNCHANGED <<operator, trigger, processRequest, lastCommand>>

\* Mutant.
PublishUnbounded ==
    /\ publisher # Nothing
    /\ notification' = Append(notification, publisher)
    /\ publisher' = Nothing
    /\ UNCHANGED <<operator, trigger, processRequest, lastCommand>>

(* Publish waits until the subscriber's channel has room.                  *)
PublishSends ==
    /\ publisher # Nothing /\ notification = <<>>
    /\ notification' = <<publisher>>
    /\ publisher' = Nothing
    /\ UNCHANGED <<operator, trigger, processRequest, lastCommand>>

(* startOrStopProcessingAnyRequests.                                       *)
startOrStopProcessingAnyRequests ==
    /\ notification # <<>>
    /\ processRequest' = Head(notification)
    /\ notification' = <<>>
    /\ UNCHANGED <<operator, trigger, publisher, lastCommand>>

BroadcastStep ==
    PublishTakes \/ PublishSends \/ startOrStopProcessingAnyRequests
      \/ \E o \in Operators : OperatorSends(o)

OperatorNext ==
    \E o \in Operators, command \in ProcessingCommands, signature \in Signatures :
        OperatorCalls(o, command, signature)
=============================================================================
