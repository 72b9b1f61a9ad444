---------------------------- MODULE DaemonProofs ----------------------------
(***************************************************************************)
(* One call through the daemon, for any number of frames and operators:    *)
(* its payment is settled once and on a storage that is open, its frames   *)
(* keep their order in both directions, and a call reported as good is     *)
(* complete.                                                               *)
(***************************************************************************)
EXTENDS Daemon, TLAPS

-----------------------------------------------------------------------------
(***************************************************************************)
(* The inductive invariant.                                                *)
(***************************************************************************)

(* The interceptors have the call before the handler runs, ...             *)
Early == {"none", "admit", "context", "first", "payment"}

(* ... and the payment is theirs: open from Payment until the end of the   *)
(* handler, unless the process crashes.                                    *)
CallInv ==
    /\ phase \in Early <=> main.at = "off"
    /\ phase = "over" => main.at = "over"
    /\ main.at = "over" <=> main.result # "none"
    /\ phase \in Early => payment.settled = "none" /\ (payment.open => life = "crashed")
    /\ payment.open => payment.settled = "none" /\ phase # "over"
    /\ payment.settled = "none" => payment.times = 0
    /\ payment.settled # "none" => /\ phase = "over" /\ payment.times = 1
                                   /\ payment.settled = Settlement(main.result)

(* The process before it opens the storage.                                *)
Young == {"loading", "initializing", "creating", "starting"}

(* The storage is opened by start, and a call lives between start and the  *)
(* end of stop; meanwhile only the listener closes the storage.            *)
StorageInv ==
    /\ life \in Young => /\ etcd.components = "none" /\ etcd.listener = "off"
                         /\ phase = "none"
    /\ life = "registering" => /\ etcd.components = "open" /\ etcd.listener = "off"
                               /\ phase = "none"
    /\ life \in {"serving", "stopping"} => etcd.components # "none"
    /\ phase \notin {"none", "over"} => life \in {"serving", "stopping", "crashed"}
    /\ (life \in {"serving", "stopping"} /\ etcd.components = "closed")
          => etcd.listener \in {"own", "none"}
    /\ phase = "none" => payment.storage = "open"
    /\ SettledOnOpenStorage
    /\ (etcd.type = "embedded"
          /\ life \in {"creating", "starting", "registering", "serving", "stopping"})
          => etcd.server = "running"
    /\ StorageLifetime

(* The goroutines of grpcToGRPC and the handler that waits for them: each  *)
(* goroutine reports its end once.                                         *)
SelectInv ==
    /\ up.at = "off" <=> down.at = "off"
    /\ up.at # "off" => kind = "grpc" /\ main.at \in {"select", "over"}
    /\ main.at = "select" => /\ up.at # "off" /\ main.rounds \in {1, 2}
                             /\ main.rounds = 1 => up.at = "done" /\ errs.s2c = "none"
    /\ errs.s2c # "none" => up.at = "done"
    /\ errs.c2s # "none" => down.at = "done" /\ errs.c2s = down.err
    /\ NeverReached

(* q holds the last of sent frames, in their order.                        *)
Numbered(q, sent) ==
    Len(q) <= sent /\ \A i \in 1..Len(q) : q[i] = sent - Len(q) + i

(* s holds the first frames, in their order.                               *)
Counts(s) == \A i \in 1..Len(s) : s[i] = i

(* The frames that the daemon has taken from the client, ...               *)
Taken == client.sent - Len(client.queue)

(* ... and from the service.                                               *)
Drawn == service.sent - Len(service.queue)

(* A frame of the client is in its queue, read ahead, with the goroutine   *)
(* or the handler that forwards it, or at the service.                     *)
UpInv ==
    /\ Numbered(client.queue, client.sent) /\ Counts(service.got)
    /\ Len(service.got) <= Taken
    /\ phase \in Early \ {"payment"} => Taken = 0 /\ ~first.pending
    /\ ((phase = "payment" \/ main.at = "start") /\ kind # "unary") => first.pending
    /\ main.at \in {"stdin", "call"} => first.frame = 1 /\ Taken >= 1 /\ ~first.pending
    /\ main.at \in {"off", "start", "stdin", "call"} => service.got = <<>>
    /\ first.pending => /\ first.frame = 1 /\ Taken = 1 /\ service.got = <<>>
                        /\ up.at # "send"
    /\ (up.at = "recv" /\ ~first.pending) => Len(service.got) = Taken
    /\ up.at = "send" => up.frame = Taken /\ Len(service.got) + 1 = Taken

(* A frame of the service is in its queue, with the goroutine or the       *)
(* handler, or at the client; the end of the stream comes after all.       *)
DownInv ==
    /\ Numbered(service.queue, service.sent) /\ Counts(client.got)
    /\ Len(client.got) <= Drawn
    /\ down.at = "off" => service.queue = <<>>
    /\ main.at \in {"off", "start", "stdin", "call"} => service.sent = 0
    /\ main.at = "answer" => service.sent = 1 /\ client.got = <<>> /\ service.status = "ok"
    /\ main.at = "provider" => kind = "unary"
    /\ down.at = "recv" => Len(client.got) = Drawn
    /\ down.at = "send" => down.frame = Drawn /\ Len(client.got) + 1 = Drawn
    /\ down.err = "EOF" => /\ down.at \in {"report", "done"} /\ service.status = "ok"
                           /\ service.queue = <<>> /\ Len(client.got) = service.sent
    /\ main.result = "ok" => /\ service.status = "ok"
                             /\ kind # "unary" => Len(client.got) = service.sent

DaemonInv ==
    /\ DaemonTypeOK
    /\ CallInv
    /\ StorageInv
    /\ SelectInv
    /\ UpInv
    /\ DownInv

-----------------------------------------------------------------------------

LEMMA InitDaemonInv == DaemonInit => DaemonInv
  <1> SUFFICES ASSUME DaemonInit PROVE DaemonInv
    OBVIOUS
  <1>1. DaemonTypeOK
    <2>1. ProxyTypeOK
      BY ProxyAssumption DEF DaemonInit, ProxyInit, ProxyTypeOK, Goroutine, Idle, Ends, Results
    <2>2. BroadcastTypeOK
      BY DEF DaemonInit, BroadcastInit, BroadcastTypeOK, ProcessingCommands,
         StopProcessingAnyRequest, StartProcessingAnyRequest, Nothing
    <2>3. QED
      BY <2>1, <2>2, DaemonAssumption DEF DaemonInit, DaemonTypeOK, StorageTypes, Phases
  <1>2. CallInv /\ StorageInv
    BY DEF DaemonInit, ProxyInit, CallInv, StorageInv, Early, Young, SettledOnOpenStorage,
       StorageLifetime, HasClient, StorageTypes
  <1>3. SelectInv
    BY DEF DaemonInit, ProxyInit, SelectInv, NeverReached, Idle
  <1>4. UpInv /\ DownInv
    BY DEF DaemonInit, ProxyInit, UpInv, DownInv, Idle, Numbered, Counts, Taken, Drawn, Early
  <1>5. QED
    BY <1>1, <1>2, <1>3, <1>4 DEF DaemonInv

(* The inductive invariant gives what the runs check.                      *)
LEMMA CountsIsPrefix ==
    ASSUME NEW s \in Seq(Nat), NEW n \in Nat, Counts(s), Len(s) <= n
    PROVE  /\ IsPrefix(s, Frames(n))
           /\ Len(s) = n => s = Frames(n)
  <1>1. Frames(n) \in Seq(Nat) /\ Len(Frames(n)) = n
    BY DEF Frames
  <1>2. \A i \in 1..Len(s) : s[i] = Frames(n)[i]
    BY DEF Frames, Counts
  <1>3. SubSeq(s, 1, Len(s)) = SubSeq(Frames(n), 1, Len(s))
    BY <1>1, <1>2
  <1>4. QED
    BY <1>1, <1>2, <1>3 DEF IsPrefix

(* Queues at both ends.                                                    *)
LEMMA NumberedQueue ==
    ASSUME NEW q \in Seq(Nat), NEW n \in Nat, Numbered(q, n)
    PROVE  /\ Append(q, n + 1) \in Seq(Nat) /\ Numbered(Append(q, n + 1), n + 1)
           /\ (n + 1) - Len(Append(q, n + 1)) = n - Len(q)
           /\ q # <<>> => /\ Tail(q) \in Seq(Nat) /\ Numbered(Tail(q), n)
                          /\ Head(q) \in Nat /\ Head(q) = n - Len(Tail(q))
                          /\ n - Len(Tail(q)) = (n - Len(q)) + 1
  <1>0. Len(q) \in Nat /\ Len(q) <= n /\ \A i \in 1..Len(q) : q[i] = n - Len(q) + i
    BY DEF Numbered
  <1>1. /\ Append(q, n + 1) \in Seq(Nat) /\ Len(Append(q, n + 1)) = Len(q) + 1
        /\ \A i \in 1..Len(q) + 1 : Append(q, n + 1)[i] = IF i <= Len(q) THEN q[i] ELSE n + 1
    BY <1>0
  <1>2. Numbered(Append(q, n + 1), n + 1)
    <2> DEFINE r == Append(q, n + 1)
    <2>1. ASSUME NEW i \in 1..Len(r) PROVE r[i] = (n + 1) - Len(r) + i
      BY <1>0, <1>1
    <2>2. Len(r) <= n + 1
      BY <1>0, <1>1
    <2>3. QED
      BY <2>1, <2>2 DEF Numbered
  <1>3. ASSUME q # <<>>
        PROVE  /\ Tail(q) \in Seq(Nat) /\ Numbered(Tail(q), n)
               /\ Head(q) \in Nat /\ Head(q) = n - Len(Tail(q))
               /\ n - Len(Tail(q)) = (n - Len(q)) + 1
    <2> DEFINE r == Tail(q)
    <2>1. /\ r \in Seq(Nat) /\ Len(r) = Len(q) - 1 /\ Len(q) >= 1 /\ Head(q) = q[1]
          /\ \A i \in 1..Len(r) : r[i] = q[i + 1]
      BY <1>0, <1>3
    <2> HIDE DEF r
    <2>2. \A i \in 1..Len(r) : r[i] = n - Len(r) + i
      <3> SUFFICES ASSUME NEW i \in 1..Len(r) PROVE r[i] = n - Len(r) + i
        OBVIOUS
      <3>1. i \in Nat /\ i + 1 \in 1..Len(q)
        BY <1>0, <2>1
      <3>2. r[i] = n - Len(q) + (i + 1)
        BY <1>0, <2>1, <3>1
      <3>3. QED
        BY <1>0, <2>1, <3>1, <3>2
    <2>3. Numbered(r, n)
      BY <1>0, <2>1, <2>2 DEF Numbered
    <2>4. Head(q) = n - Len(q) + 1
      BY <1>0, <2>1
    <2>5. QED
      BY <1>0, <2>1, <2>3, <2>4 DEF r
  <1>4. (n + 1) - Len(Append(q, n + 1)) = n - Len(q)
    BY <1>0, <1>1
  <1>5. QED
    BY <1>1, <1>2, <1>3, <1>4

LEMMA CountsAppend ==
    ASSUME NEW s \in Seq(Nat), Counts(s), NEW n \in Nat, n = Len(s) + 1
    PROVE  /\ Append(s, n) \in Seq(Nat) /\ Counts(Append(s, n))
           /\ Len(Append(s, n)) = Len(s) + 1
  <1>1. /\ Append(s, n) \in Seq(Nat) /\ Len(Append(s, n)) = Len(s) + 1
        /\ \A i \in 1..Len(s) + 1 : Append(s, n)[i] = IF i <= Len(s) THEN s[i] ELSE n
    OBVIOUS
  <1>2. QED
    BY <1>1 DEF Counts

-----------------------------------------------------------------------------
(***************************************************************************)
(* Steps of the handler, its goroutines, the client and the service.       *)
(***************************************************************************)

ClientType == [sent : 0..MaxFrames, queue : Seq(Nat), closed : BOOLEAN,
               gone : BOOLEAN, got : Seq(Nat)]
FirstType == [frame : Nat, pending : BOOLEAN, big : BOOLEAN]
ServiceType == [got : Seq(Nat), queue : Seq(Nat), sent : Nat, closed : BOOLEAN,
                status : {"running", "ok", "error"}, cancelled : BOOLEAN]
MainType == [at : {"off", "start", "select", "call", "stdin", "answer", "provider",
                   "unreachable", "over"}, rounds : 0..2, result : Results]

(* What every state of a call gives.                                       *)
LEMMA ProxyTypes ==
    ASSUME ProxyTypeOK
    PROVE  /\ client \in ClientType /\ first \in FirstType /\ service \in ServiceType
           /\ main \in MainType /\ up \in Goroutine /\ down \in Goroutine
           /\ errs \in [{"s2c", "c2s"} -> Ends]
           /\ MaxFrames \in Nat /\ MaxReplies \in Nat
           /\ client.sent \in Nat /\ client.queue \in Seq(Nat) /\ client.got \in Seq(Nat)
           /\ service.sent \in Nat /\ service.queue \in Seq(Nat) /\ service.got \in Seq(Nat)
           /\ Len(client.queue) \in Nat /\ Len(client.got) \in Nat
           /\ Len(service.queue) \in Nat /\ Len(service.got) \in Nat
           /\ first.frame \in Nat
  <1>1. /\ client \in ClientType /\ first \in FirstType /\ service \in ServiceType
        /\ main \in MainType /\ up \in Goroutine /\ down \in Goroutine
        /\ errs \in [{"s2c", "c2s"} -> Ends]
    BY DEF ProxyTypeOK, ClientType, FirstType, ServiceType, MainType
  <1>2. MaxFrames \in Nat /\ MaxReplies \in Nat
    BY ProxyAssumption
  <1>3. /\ client.sent \in Nat /\ client.queue \in Seq(Nat) /\ client.got \in Seq(Nat)
        /\ service.sent \in Nat /\ service.queue \in Seq(Nat) /\ service.got \in Seq(Nat)
        /\ first.frame \in Nat
    BY <1>1, <1>2 DEF ClientType, ServiceType, FirstType
  <1>4. QED
    BY <1>1, <1>2, <1>3

(* The handler neither starts nor comes back.                              *)
MainMove ==
    \/ main' = main
    \/ /\ main.at \notin {"off", "over"} /\ main'.at # "off"
       /\ main'.at = "over" <=> main'.result # "none"

(* What one step of the call keeps.                                        *)
ProxyInv ==
    /\ ProxyTypeOK /\ SelectInv /\ UpInv /\ DownInv
    /\ phase \in Early <=> main.at = "off"
    /\ main.at = "over" <=> main.result # "none"

ProxyKept == ProxyTypeOK' /\ SelectInv' /\ UpInv' /\ DownInv' /\ MainMove

(* The ways of the frames only depend on these parts of the state.         *)
LEMMA UpFrame ==
    ASSUME UpInv, UNCHANGED <<kind, first, up, phase>>,
           client'.queue = client.queue, client'.sent = client.sent,
           service'.got = service.got,
           main'.at = main.at
             \/ main'.at \in {"select", "answer", "provider", "unreachable", "over"}
    PROVE  UpInv'
  BY DEF UpInv, Taken

LEMMA DownFrame ==
    ASSUME DownInv, UNCHANGED <<kind, down>>, client'.got = client.got,
           service'.queue = service.queue, service'.sent = service.sent,
           service'.status = service.status,
           main'.at = main.at \/ main'.at \in {"select", "unreachable", "over"},
           main'.result = main.result \/ main'.result # "ok"
    PROVE  DownInv'
  BY DEF DownInv, Drawn

LEMMA SelectFrame ==
    ASSUME SelectInv, UNCHANGED <<kind, up, down, errs>>,
           main' = main \/ main'.at = "over"
             \/ (up.at = "off" /\ main'.at \notin {"select", "unreachable"})
    PROVE  SelectInv'
  BY DEF SelectInv, NeverReached

(* Return ends the handler.                                                *)
LEMMA ReturnMoves ==
    ASSUME main \in MainType, NEW result \in Results \ {"none"}, Return(result),
           main.at \notin {"off", "over"}
    PROVE  /\ main' \in MainType /\ main'.at = "over" /\ main'.result = result
           /\ main'.rounds = main.rounds /\ MainMove
  BY DEF MainType, Return, MainMove

-----------------------------------------------------------------------------

(* The client sends, closes or is gone.                                    *)
LEMMA ClientSteps ==
    ASSUME ProxyInv, UNCHANGED phase, ClientSends \/ ClientCloses \/ ClientGone
    PROVE  ProxyKept
  <1>0. ProxyTypeOK /\ UNCHANGED <<kind, first, service, up, down, errs, main>>
    BY DEF ProxyInv, ClientSends, ClientCloses, ClientGone
  <1>1. client' \in ClientType /\ client'.got = client.got
    <2>0. client \in ClientType /\ client.sent + 1 \in Nat
      BY <1>0, ProxyTypes
    <2>1. CASE ClientSends
      <3>1. client.sent + 1 \in 0..MaxFrames /\ Append(client.queue, client.sent + 1) \in Seq(Nat)
        BY <1>0, <2>1, ProxyTypes DEF ClientSends
      <3>2. QED
        BY <2>0, <2>1, <3>1 DEF ClientSends, ClientType
    <2>2. CASE ClientCloses \/ ClientGone
      BY <2>0, <2>2 DEF ClientCloses, ClientGone, ClientType
    <2>3. QED
      BY <2>1, <2>2
  <1>2. ProxyTypeOK' /\ SelectInv' /\ DownInv' /\ MainMove
    BY <1>0, <1>1, SelectFrame, DownFrame DEF ProxyInv, ProxyTypeOK, ClientType, MainMove
  <1>3. UpInv'
    <2>1. CASE ClientCloses \/ ClientGone
      <3>1. client'.queue = client.queue /\ client'.sent = client.sent
        BY <1>0, <2>1, ProxyTypes DEF ClientCloses, ClientGone, ClientType
      <3>2. QED
        BY <1>0, <3>1, UpFrame DEF ProxyInv
    <2>2. CASE ClientSends
      <3>1. /\ client'.sent = client.sent + 1
            /\ client'.queue = Append(client.queue, client.sent + 1)
        BY <1>0, <2>2, ProxyTypes DEF ClientSends, ClientType
      <3>2. Numbered(client.queue, client.sent)
        BY DEF ProxyInv, UpInv
      <3>3. Numbered(client'.queue, client'.sent) /\ Taken' = Taken
        <4>1. client.queue \in Seq(Nat) /\ client.sent \in Nat
          BY <1>0, ProxyTypes
        <4>2. /\ Numbered(Append(client.queue, client.sent + 1), client.sent + 1)
              /\ (client.sent + 1) - Len(Append(client.queue, client.sent + 1))
                    = client.sent - Len(client.queue)
          BY <3>2, <4>1, NumberedQueue
        <4>3. QED
          BY <3>1, <4>2 DEF Taken
      <3>4. QED
        BY <1>0, <3>3 DEF ProxyInv, UpInv
    <2>3. QED
      BY <2>1, <2>2
  <1>4. QED
    BY <1>2, <1>3 DEF ProxyKept

(* The service sends or ends the call, or the context of the call expires. *)
LEMMA ServiceSteps ==
    ASSUME ProxyInv, UNCHANGED phase,
           \/ ServiceSends \/ ServiceTimeout
           \/ \E status \in {"ok", "error"} : ServiceEnds(status)
    PROVE  ProxyKept
  <1>0. ProxyTypeOK /\ UNCHANGED <<kind, client, first, up, down, errs, main>>
    BY DEF ProxyInv, ServiceSends, ServiceTimeout, ServiceEnds
  <1>1. service' \in ServiceType /\ service'.got = service.got
    <2>0. service \in ServiceType /\ service.sent + 1 \in Nat
      BY <1>0, ProxyTypes
    <2>1. CASE ServiceSends
      <3>1. Append(service.queue, service.sent + 1) \in Seq(Nat)
        BY <1>0, ProxyTypes
      <3>2. QED
        BY <2>0, <2>1, <3>1 DEF ServiceSends, ServiceType
    <2>2. CASE ServiceTimeout
      BY <2>0, <2>2 DEF ServiceTimeout, ServiceType
    <2>3. ASSUME NEW status \in {"ok", "error"}, ServiceEnds(status)
          PROVE  service' \in ServiceType /\ service'.got = service.got
      BY <2>0, <2>3 DEF ServiceEnds, ServiceType
    <2>4. QED
      BY <2>1, <2>2, <2>3
  <1>2. ProxyTypeOK' /\ SelectInv' /\ UpInv' /\ MainMove
    BY <1>0, <1>1, SelectFrame, UpFrame DEF ProxyInv, ProxyTypeOK, ServiceType, MainMove
  <1>3. DownInv'
    <2>1. CASE ServiceTimeout
      <3>1. /\ service'.queue = service.queue /\ service'.sent = service.sent
            /\ service'.status = service.status
        BY <1>0, <2>1, ProxyTypes DEF ServiceTimeout, ServiceType
      <3>2. QED
        BY <1>0, <3>1, DownFrame DEF ProxyInv
    <2>2. CASE \E status \in {"ok", "error"} : ServiceEnds(status)
      <3>1. /\ service'.queue = service.queue /\ service'.sent = service.sent
            /\ service.status = "running" /\ main.at = "select"
        BY <1>0, <2>2, ProxyTypes DEF ServiceEnds, ServiceType
      <3>2. main.result = "none" /\ down.err # "EOF"
        BY <3>1 DEF ProxyInv, DownInv
      <3>3. QED
        BY <1>0, <3>1, <3>2 DEF ProxyInv, DownInv, Drawn
    <2>3. CASE ServiceSends
      <3>1. /\ service'.sent = service.sent + 1 /\ service'.status = service.status
            /\ service'.queue = Append(service.queue, service.sent + 1)
            /\ service.status = "running" /\ main.at = "select"
        BY <1>0, <2>3, ProxyTypes DEF ServiceSends, ServiceType
      <3>2. main.result = "none" /\ down.err # "EOF" /\ down.at # "off"
        BY <3>1 DEF ProxyInv, DownInv, SelectInv
      <3>3. Numbered(service.queue, service.sent)
        BY DEF ProxyInv, DownInv
      <3>4. Numbered(service'.queue, service'.sent) /\ Drawn' = Drawn
        <4>1. service.queue \in Seq(Nat) /\ service.sent \in Nat
          BY <1>0, ProxyTypes
        <4>2. /\ Numbered(Append(service.queue, service.sent + 1), service.sent + 1)
              /\ (service.sent + 1) - Len(Append(service.queue, service.sent + 1))
                    = service.sent - Len(service.queue)
          BY <3>3, <4>1, NumberedQueue
        <4>3. QED
          BY <3>1, <4>2 DEF Drawn
      <3>5. QED
        BY <1>0, <3>1, <3>2, <3>4 DEF ProxyInv, DownInv
    <2>4. QED
      BY <2>1, <2>2, <2>3
  <1>4. QED
    BY <1>2, <1>3 DEF ProxyKept

(* The handler panics.                                                     *)
LEMMA PanicStep ==
    ASSUME ProxyInv, UNCHANGED phase, HandlerPanics
    PROVE  ProxyKept
  <1>1. /\ ProxyTypeOK /\ UNCHANGED <<kind, client, first, service, up, down, errs>>
        /\ Return("panic") /\ main.at \in {"start", "call", "answer", "provider"}
    BY DEF ProxyInv, HandlerPanics
  <1>2. /\ main' \in MainType /\ main'.at = "over" /\ main'.result = "panic" /\ MainMove
    BY <1>1, ProxyTypes, ReturnMoves DEF Results
  <1>3. ProxyTypeOK'
    BY <1>1, <1>2 DEF ProxyTypeOK, MainType
  <1>4. SelectInv' /\ UpInv' /\ DownInv'
    BY <1>1, <1>2, SelectFrame, UpFrame, DownFrame DEF ProxyInv
  <1>5. QED
    BY <1>2, <1>3, <1>4 DEF ProxyKept

-----------------------------------------------------------------------------

LEMMA GrpcStartsStep ==
    ASSUME ProxyInv, UNCHANGED phase, GrpcStarts
    PROVE  ProxyKept
  <1>1. /\ ProxyTypeOK /\ UNCHANGED <<kind, client, first, service, errs>>
        /\ kind = "grpc" /\ main.at = "start"
    BY DEF ProxyInv, GrpcStarts
  <1>2. main \in MainType /\ main.result = "none"
    BY <1>1, ProxyTypes DEF ProxyInv, MainType
  <1>3. up.at = "off" /\ down.at = "off"
    BY <1>1 DEF ProxyInv, SelectInv
  <1>4. CASE Return("error") /\ UNCHANGED <<up, down>>
    <2>1. /\ main' \in MainType /\ main'.at = "over" /\ main'.result = "error" /\ MainMove
      BY <1>1, <1>2, <1>4, ReturnMoves DEF Results
    <2>2. ProxyTypeOK'
      BY <1>1, <1>4, <2>1 DEF ProxyTypeOK, MainType
    <2>3. SelectInv' /\ UpInv' /\ DownInv'
      BY <1>1, <1>4, <2>1, SelectFrame, UpFrame, DownFrame DEF ProxyInv
    <2>4. QED
      BY <2>1, <2>2, <2>3 DEF ProxyKept
  <1>5. CASE /\ main' = [main EXCEPT !.at = "select", !.rounds = 2]
             /\ up' = [Idle EXCEPT !.at = "recv"] /\ down' = [Idle EXCEPT !.at = "recv"]
    <2>1. /\ main' \in MainType /\ main'.at = "select" /\ main'.rounds = 2
          /\ main'.result = "none"
      <3>1. main' = [main EXCEPT !.at = "select", !.rounds = 2]
        BY <1>5
      <3>2. /\ main' = [at |-> "select", rounds |-> 2, result |-> main.result]
            /\ main.result \in Results
        BY <1>2, <3>1 DEF MainType
      <3>3. 2 \in 0..2
        OBVIOUS
      <3>4. QED
        BY <1>2, <3>2, <3>3 DEF MainType
    <2>2. /\ up' \in Goroutine /\ up'.at = "recv"
          /\ down' \in Goroutine /\ down'.at = "recv" /\ down'.err = "none"
      BY <1>5 DEF Goroutine, Idle, Ends
    <2>3. ProxyTypeOK' /\ MainMove
      BY <1>1, <2>1, <2>2 DEF ProxyTypeOK, MainType, MainMove
    <2>4. SelectInv'
      BY <1>1, <1>3, <2>1, <2>2 DEF ProxyInv, SelectInv, NeverReached
    <2>5. UpInv'
      BY <1>1, <2>1, <2>2 DEF ProxyInv, UpInv, Taken
    <2>6. DownInv'
      <3>1. service.queue = <<>> /\ service.sent = 0 /\ Len(client.got) <= Drawn
        BY <1>1, <1>3 DEF ProxyInv, DownInv
      <3>2. Len(client.got) = Drawn /\ Len(client.got) \in Nat
        BY <1>1, <3>1, ProxyTypes DEF Drawn
      <3>3. QED
        BY <1>1, <2>1, <2>2, <3>1, <3>2 DEF ProxyInv, DownInv, Drawn
    <2>7. QED
      BY <2>3, <2>4, <2>5, <2>6 DEF ProxyKept
  <1>6. QED
    BY <1>4, <1>5 DEF GrpcStarts

(* A goroutine goes on without having reported.                            *)
LEMMA GoroutineSelect ==
    ASSUME SelectInv, UNCHANGED <<kind, errs, main>>,
           \/ up.at \notin {"off", "done"} /\ up'.at # "off" /\ UNCHANGED down
           \/ down.at \notin {"off", "done"} /\ down'.at # "off" /\ UNCHANGED up
    PROVE  SelectInv'
  BY DEF SelectInv, NeverReached

LEMMA UpRecvStep ==
    ASSUME ProxyInv, UNCHANGED phase, UpRecv
    PROVE  ProxyKept
  <1>1. /\ ProxyTypeOK /\ UNCHANGED <<kind, service, down, errs, main>> /\ up.at = "recv"
    BY DEF ProxyInv, UpRecv
  <1>t. /\ up \in Goroutine /\ client \in ClientType /\ first \in FirstType
        /\ client.queue \in Seq(Nat) /\ client.sent \in Nat /\ first.frame \in Nat
        /\ Len(service.got) \in Nat
    BY <1>1, ProxyTypes
  <1>m. main.at \in {"select", "over"}
    BY <1>1 DEF ProxyInv, SelectInv
  <1>p. phase \notin Early /\ phase # "payment"
    BY <1>m DEF ProxyInv, Early
  <1>2. ASSUME NEW e \in Ends, up' = [up EXCEPT !.at = "report", !.err = e],
               UNCHANGED <<first, client>>
        PROVE  ProxyKept
    <2>1. up' \in Goroutine /\ up'.at = "report"
      BY <1>t, <1>2 DEF Goroutine
    <2>2. ProxyTypeOK' /\ MainMove
      BY <1>1, <1>2, <2>1 DEF ProxyTypeOK, MainMove
    <2>3. SelectInv' /\ DownInv'
      BY <1>1, <1>2, <2>1, GoroutineSelect, DownFrame DEF ProxyInv
    <2>4. UpInv'
      BY <1>1, <1>2, <2>1 DEF ProxyInv, UpInv, Taken
    <2>5. QED
      BY <2>2, <2>3, <2>4 DEF ProxyKept
  <1>3. CASE /\ first.pending /\ up' = [up EXCEPT !.at = "send", !.frame = first.frame]
             /\ first' = [first EXCEPT !.pending = FALSE] /\ UNCHANGED client
    <2>1. up' \in Goroutine /\ up'.at = "send" /\ up'.frame = first.frame
      BY <1>t, <1>3 DEF Goroutine
    <2>2. first' \in FirstType /\ first'.pending = FALSE /\ first'.frame = first.frame
      BY <1>t, <1>3 DEF FirstType
    <2>3. ProxyTypeOK' /\ MainMove
      BY <1>1, <1>3, <2>1, <2>2 DEF ProxyTypeOK, MainMove, FirstType
    <2>4. SelectInv' /\ DownInv'
      BY <1>1, <1>3, <2>1, GoroutineSelect, DownFrame DEF ProxyInv
    <2>5. first.frame = 1 /\ Taken = 1 /\ service.got = <<>>
      BY <1>3 DEF ProxyInv, UpInv
    <2>6. Taken' = Taken /\ Len(service.got) + 1 = Taken
      BY <1>3, <2>5 DEF Taken
    <2>8. UpInv'
      BY <1>1, <1>3, <1>m, <1>p, <2>1, <2>2, <2>5, <2>6 DEF ProxyInv, UpInv
    <2>9. QED
      BY <2>3, <2>4, <2>8 DEF ProxyKept
  <1>4. CASE /\ ~first.pending /\ client.queue # <<>>
             /\ up' = [up EXCEPT !.at = "send", !.frame = Head(client.queue)]
             /\ client' = [client EXCEPT !.queue = Tail(@)] /\ UNCHANGED first
    <2>0. Numbered(client.queue, client.sent) /\ Len(service.got) = Taken
      BY <1>1, <1>4 DEF ProxyInv, UpInv
    <2>q. /\ Tail(client.queue) \in Seq(Nat) /\ Numbered(Tail(client.queue), client.sent)
          /\ Head(client.queue) \in Nat
          /\ Head(client.queue) = client.sent - Len(Tail(client.queue))
          /\ client.sent - Len(Tail(client.queue)) = Taken + 1
      BY <1>t, <1>4, <2>0, NumberedQueue DEF Taken
    <2>1. up' \in Goroutine /\ up'.at = "send" /\ up'.frame = Head(client.queue)
      BY <1>t, <1>4, <2>q DEF Goroutine
    <2>2. /\ client' \in ClientType /\ client'.queue = Tail(client.queue)
          /\ client'.sent = client.sent /\ client'.got = client.got
      BY <1>t, <1>4, <2>q DEF ClientType
    <2>3. ProxyTypeOK' /\ MainMove
      BY <1>1, <1>4, <2>1, <2>2 DEF ProxyTypeOK, MainMove, ClientType
    <2>4. SelectInv' /\ DownInv'
      BY <1>1, <1>4, <2>1, <2>2, GoroutineSelect, DownFrame DEF ProxyInv
    <2>5. Taken' = Taken + 1 /\ up'.frame = Taken'
      BY <2>1, <2>2, <2>q DEF Taken
    <2>8. UpInv'
      BY <1>1, <1>t, <1>4, <1>m, <1>p, <2>0, <2>1, <2>2, <2>5, <2>q DEF ProxyInv, UpInv
    <2>9. QED
      BY <2>3, <2>4, <2>8 DEF ProxyKept
  <1>5. QED
    <2>1. PICK m \in RecvMsg :
            IF m.end = "none"
            THEN up' = [up EXCEPT !.at = "send", !.frame = m.frame] /\ FrameTaken
            ELSE up' = [up EXCEPT !.at = "report", !.err = m.end] /\ UNCHANGED <<first, client>>
      BY DEF UpRecv
    <2>2. CASE first.pending
      <3>1. m = Frame(first.frame)
        BY <2>1, <2>2 DEF RecvMsg
      <3>2. QED
        BY <1>3, <2>1, <2>2, <3>1 DEF Frame, FrameTaken
    <2>3. CASE ~first.pending
      <3>1. \/ m = Frame(Head(client.queue)) /\ client.queue # <<>>
            \/ m = End("error") \/ m = End("EOF")
        BY <2>1, <2>3 DEF RecvMsg, ClientRecv
      <3>2. CASE m = Frame(Head(client.queue)) /\ client.queue # <<>>
        BY <1>4, <2>1, <2>3, <3>2 DEF Frame, FrameTaken
      <3>3. CASE m = End("error") \/ m = End("EOF")
        <4>1. m.end \in Ends /\ m.end # "none"
          BY <3>3 DEF End, Ends
        <4>2. QED
          BY <1>2, <2>1, <4>1
      <3>4. QED
        BY <3>1, <3>2, <3>3
    <2>4. QED
      BY <2>2, <2>3

LEMMA UpSendStep ==
    ASSUME ProxyInv, UNCHANGED phase, UpSend
    PROVE  ProxyKept
  <1>1. /\ ProxyTypeOK /\ UNCHANGED <<kind, client, first, down, errs, main>> /\ up.at = "send"
    BY DEF ProxyInv, UpSend
  <1>t. /\ up \in Goroutine /\ service \in ServiceType /\ service.got \in Seq(Nat)
        /\ Len(service.got) \in Nat
    BY <1>1, ProxyTypes
  <1>m. main.at \in {"select", "over"}
    BY <1>1 DEF ProxyInv, SelectInv
  <1>2. CASE /\ up' = [up EXCEPT !.at = "report", !.err = "EOF", !.frame = 0]
             /\ UNCHANGED service
    <2>1. up' \in Goroutine /\ up'.at = "report"
      BY <1>t, <1>2 DEF Goroutine, Ends
    <2>2. ProxyTypeOK' /\ MainMove
      BY <1>1, <1>2, <2>1 DEF ProxyTypeOK, MainMove
    <2>3. SelectInv' /\ DownInv'
      BY <1>1, <1>2, <2>1, GoroutineSelect, DownFrame DEF ProxyInv
    <2>4. UpInv'
      BY <1>1, <1>2, <2>1 DEF ProxyInv, UpInv, Taken
    <2>5. QED
      BY <2>2, <2>3, <2>4 DEF ProxyKept
  <1>3. CASE /\ service' = [service EXCEPT !.got = Append(@, up.frame)]
             /\ up' = [up EXCEPT !.at = "recv", !.frame = 0]
    <2>0. /\ up.frame = Taken /\ Len(service.got) + 1 = Taken /\ Counts(service.got)
          /\ ~first.pending
      BY <1>1 DEF ProxyInv, UpInv
    <2>q. /\ Append(service.got, up.frame) \in Seq(Nat)
          /\ Counts(Append(service.got, up.frame))
          /\ Len(Append(service.got, up.frame)) = Len(service.got) + 1
      BY <1>t, <2>0, CountsAppend
    <2>1. up' \in Goroutine /\ up'.at = "recv"
      BY <1>t, <1>3 DEF Goroutine
    <2>2. /\ service' \in ServiceType /\ service'.got = Append(service.got, up.frame)
          /\ service'.queue = service.queue /\ service'.sent = service.sent
          /\ service'.status = service.status
      BY <1>t, <1>3, <2>q DEF ServiceType
    <2>3. ProxyTypeOK' /\ MainMove
      BY <1>1, <1>3, <2>1, <2>2 DEF ProxyTypeOK, MainMove, ServiceType
    <2>4. SelectInv' /\ DownInv'
      BY <1>1, <1>3, <2>1, <2>2, GoroutineSelect, DownFrame DEF ProxyInv
    <2>5. Taken' = Taken
      BY <1>1 DEF Taken
    <2>6. UpInv'
      BY <1>1, <1>t, <1>m, <2>0, <2>1, <2>2, <2>5, <2>q DEF ProxyInv, UpInv
    <2>7. QED
      BY <2>3, <2>4, <2>6 DEF ProxyKept
  <1>4. CASE /\ up' = [up EXCEPT !.at = "report", !.err = "error", !.frame = 0]
             /\ service' = [service EXCEPT !.cancelled = TRUE]
    <2>1. up' \in Goroutine /\ up'.at = "report"
      BY <1>t, <1>4 DEF Goroutine, Ends
    <2>2. /\ service' \in ServiceType /\ service'.got = service.got
          /\ service'.queue = service.queue /\ service'.sent = service.sent
          /\ service'.status = service.status
      BY <1>t, <1>4 DEF ServiceType
    <2>3. ProxyTypeOK' /\ MainMove
      BY <1>1, <2>1, <2>2 DEF ProxyTypeOK, MainMove, ServiceType
    <2>4. SelectInv' /\ DownInv'
      BY <1>1, <2>1, <2>2, GoroutineSelect, DownFrame DEF ProxyInv
    <2>5. UpInv'
      BY <1>1, <2>1, <2>2 DEF ProxyInv, UpInv, Taken
    <2>6. QED
      BY <2>3, <2>4, <2>5 DEF ProxyKept
  <1>5. QED
    BY <1>2, <1>3, <1>4 DEF UpSend

LEMMA DownRecvStep ==
    ASSUME ProxyInv, UNCHANGED phase, DownRecv
    PROVE  ProxyKept
  <1>1. /\ ProxyTypeOK /\ UNCHANGED <<kind, client, first, up, errs, main>> /\ down.at = "recv"
    BY DEF ProxyInv, DownRecv
  <1>t. /\ down \in Goroutine /\ service \in ServiceType /\ service.queue \in Seq(Nat)
        /\ service.sent \in Nat /\ Len(client.got) \in Nat
    BY <1>1, ProxyTypes
  <1>m. main.at \in {"select", "over"}
    BY <1>1 DEF ProxyInv, SelectInv
  <1>d. Numbered(service.queue, service.sent) /\ Len(client.got) = Drawn /\ down.err # "EOF"
    BY <1>1 DEF ProxyInv, DownInv
  <1>2. ASSUME NEW e \in Ends, down' = [down EXCEPT !.at = "report", !.err = e],
               UNCHANGED service,
               e = "EOF" => service.status = "ok" /\ service.queue = <<>>
        PROVE  ProxyKept
    <2>1. down' \in Goroutine /\ down'.at = "report" /\ down'.err = e
      BY <1>t, <1>2 DEF Goroutine
    <2>2. ProxyTypeOK' /\ MainMove
      BY <1>1, <1>2, <2>1 DEF ProxyTypeOK, MainMove
    <2>3. SelectInv' /\ UpInv'
      BY <1>1, <1>2, <2>1, GoroutineSelect, UpFrame DEF ProxyInv
    <2>4. service.queue = <<>> => Len(client.got) = service.sent
      BY <1>t, <1>d DEF Drawn
    <2>5. DownInv'
      BY <1>1, <1>2, <2>1, <2>4 DEF ProxyInv, DownInv, Drawn
    <2>6. QED
      BY <2>2, <2>3, <2>5 DEF ProxyKept
  <1>3. CASE /\ service.queue # <<>>
             /\ down' = [down EXCEPT !.at = "send", !.frame = Head(service.queue)]
             /\ service' = [service EXCEPT !.queue = Tail(@)]
    <2>q. /\ Tail(service.queue) \in Seq(Nat) /\ Numbered(Tail(service.queue), service.sent)
          /\ Head(service.queue) \in Nat
          /\ Head(service.queue) = service.sent - Len(Tail(service.queue))
          /\ service.sent - Len(Tail(service.queue)) = Drawn + 1
      BY <1>t, <1>3, <1>d, NumberedQueue DEF Drawn
    <2>1. /\ down' \in Goroutine /\ down'.at = "send" /\ down'.frame = Head(service.queue)
          /\ down'.err = down.err
      BY <1>t, <1>3, <2>q DEF Goroutine
    <2>2. /\ service' \in ServiceType /\ service'.queue = Tail(service.queue)
          /\ service'.sent = service.sent /\ service'.got = service.got
          /\ service'.status = service.status
      BY <1>t, <1>3, <2>q DEF ServiceType
    <2>3. ProxyTypeOK' /\ MainMove
      BY <1>1, <1>3, <2>1, <2>2 DEF ProxyTypeOK, MainMove, ServiceType
    <2>4. SelectInv' /\ UpInv'
      BY <1>1, <1>3, <2>1, <2>2, GoroutineSelect, UpFrame DEF ProxyInv
    <2>5. Drawn' = Drawn + 1 /\ down'.frame = Drawn'
      BY <2>1, <2>2, <2>q DEF Drawn
    <2>6. Len(client.got) + 1 = Drawn' /\ Len(client.got) <= Drawn'
      BY <1>t, <1>d, <2>5
    <2>7. DownInv'
      BY <1>1, <1>m, <1>d, <2>1, <2>2, <2>5, <2>6, <2>q DEF ProxyInv, DownInv
    <2>8. QED
      BY <2>3, <2>4, <2>7 DEF ProxyKept
  <1>4. QED
    <2>1. PICK m \in ServiceRecv :
            IF m.end = "none"
            THEN /\ down' = [down EXCEPT !.at = "send", !.frame = m.frame]
                 /\ service' = [service EXCEPT !.queue = Tail(@)]
            ELSE down' = [down EXCEPT !.at = "report", !.err = m.end] /\ UNCHANGED service
      BY DEF DownRecv
    <2>2. \/ m = Frame(Head(service.queue)) /\ service.queue # <<>>
          \/ m = End("EOF") /\ service.queue = <<>> /\ service.status = "ok"
          \/ m = End("error")
      BY <2>1 DEF ServiceRecv
    <2>3. CASE m = Frame(Head(service.queue)) /\ service.queue # <<>>
      BY <1>3, <2>1, <2>3 DEF Frame
    <2>4. CASE m = End("EOF") /\ service.queue = <<>> /\ service.status = "ok"
      BY <1>2, <2>1, <2>4 DEF End, Ends
    <2>5. CASE m = End("error")
      BY <1>2, <2>1, <2>5 DEF End, Ends
    <2>6. QED
      BY <2>2, <2>3, <2>4, <2>5

LEMMA DownSendStep ==
    ASSUME ProxyInv, UNCHANGED phase, DownSend \/ DownSendFails \/ HeaderFails
    PROVE  ProxyKept
  <1>1. /\ ProxyTypeOK /\ UNCHANGED <<kind, first, service, up, errs, main>> /\ down.at = "send"
    BY DEF ProxyInv, DownSend, DownSendFails, HeaderFails, DownFails
  <1>t. /\ down \in Goroutine /\ client \in ClientType /\ client.got \in Seq(Nat)
        /\ Len(client.got) \in Nat
    BY <1>1, ProxyTypes
  <1>m. main.at \in {"select", "over"}
    BY <1>1 DEF ProxyInv, SelectInv
  <1>d. /\ down.frame = Drawn /\ Len(client.got) + 1 = Drawn /\ Counts(client.got)
        /\ down.err # "EOF"
    BY <1>1 DEF ProxyInv, DownInv
  <1>2. CASE /\ down' = [down EXCEPT !.at = "report", !.err = "error", !.frame = 0]
             /\ UNCHANGED client
    <2>1. down' \in Goroutine /\ down'.at = "report" /\ down'.err = "error"
      BY <1>t, <1>2 DEF Goroutine, Ends
    <2>2. ProxyTypeOK' /\ MainMove
      BY <1>1, <1>2, <2>1 DEF ProxyTypeOK, MainMove
    <2>3. SelectInv' /\ UpInv'
      BY <1>1, <1>2, <2>1, GoroutineSelect, UpFrame DEF ProxyInv
    <2>4. DownInv'
      BY <1>1, <1>2, <2>1 DEF ProxyInv, DownInv, Drawn
    <2>5. QED
      BY <2>2, <2>3, <2>4 DEF ProxyKept
  <1>3. CASE /\ ~Over /\ client' = [client EXCEPT !.got = Append(@, down.frame)]
             /\ down' = [down EXCEPT !.at = "recv", !.frame = 0]
    <2>q. /\ Append(client.got, down.frame) \in Seq(Nat)
          /\ Counts(Append(client.got, down.frame))
          /\ Len(Append(client.got, down.frame)) = Len(client.got) + 1
      BY <1>t, <1>d, CountsAppend
    <2>1. down' \in Goroutine /\ down'.at = "recv" /\ down'.err = down.err
      BY <1>t, <1>3 DEF Goroutine
    <2>2. /\ client' \in ClientType /\ client'.got = Append(client.got, down.frame)
          /\ client'.queue = client.queue /\ client'.sent = client.sent
      BY <1>t, <1>3, <2>q DEF ClientType
    <2>3. ProxyTypeOK' /\ MainMove
      BY <1>1, <1>3, <2>1, <2>2 DEF ProxyTypeOK, MainMove, ClientType
    <2>4. SelectInv' /\ UpInv'
      BY <1>1, <1>3, <2>1, <2>2, GoroutineSelect, UpFrame DEF ProxyInv
    <2>5. Drawn' = Drawn /\ main.result = "none"
      BY <1>1, <1>3 DEF Drawn, Over, ProxyInv
    <2>6. DownInv'
      BY <1>1, <1>t, <1>m, <1>d, <2>1, <2>2, <2>5, <2>q DEF ProxyInv, DownInv
    <2>7. QED
      BY <2>3, <2>4, <2>6 DEF ProxyKept
  <1>4. QED
    BY <1>2, <1>3 DEF DownSend, DownSendFails, HeaderFails, DownFails

LEMMA ReportSteps ==
    ASSUME ProxyInv, UNCHANGED phase, UpReports \/ DownReports
    PROVE  ProxyKept
  <1>0. ProxyTypeOK
    BY DEF ProxyInv
  <1>t. /\ up \in Goroutine /\ down \in Goroutine /\ errs \in [{"s2c", "c2s"} -> Ends]
        /\ up.err \in Ends /\ down.err \in Ends
    BY <1>0, ProxyTypes DEF Goroutine
  <1>1. CASE UpReports
    <2>1. /\ UNCHANGED <<kind, client, first, service, down, main>> /\ up.at = "report"
          /\ errs' = [errs EXCEPT !.s2c = up.err] /\ up' = [up EXCEPT !.at = "done"]
      BY <1>1 DEF UpReports
    <2>2. up' \in Goroutine /\ up'.at = "done"
      BY <1>t, <2>1 DEF Goroutine
    <2>3. errs' \in [{"s2c", "c2s"} -> Ends] /\ errs'.c2s = errs.c2s
      BY <1>t, <2>1
    <2>4. ProxyTypeOK' /\ MainMove
      BY <1>0, <2>1, <2>2, <2>3 DEF ProxyTypeOK, MainMove
    <2>5. SelectInv'
      BY <2>1, <2>2, <2>3 DEF ProxyInv, SelectInv, NeverReached
    <2>6. UpInv'
      BY <2>1, <2>2 DEF ProxyInv, UpInv, Taken
    <2>7. DownInv'
      BY <2>1, DownFrame DEF ProxyInv
    <2>8. QED
      BY <2>4, <2>5, <2>6, <2>7 DEF ProxyKept
  <1>2. CASE DownReports
    <2>1. /\ UNCHANGED <<kind, client, first, service, up, main>> /\ down.at = "report"
          /\ errs' = [errs EXCEPT !.c2s = down.err] /\ down' = [down EXCEPT !.at = "done"]
      BY <1>2 DEF DownReports
    <2>2. down' \in Goroutine /\ down'.at = "done" /\ down'.err = down.err
      BY <1>t, <2>1 DEF Goroutine
    <2>3. errs' \in [{"s2c", "c2s"} -> Ends] /\ errs'.c2s = down.err /\ errs'.s2c = errs.s2c
      BY <1>t, <2>1
    <2>4. ProxyTypeOK' /\ MainMove
      BY <1>0, <2>1, <2>2, <2>3 DEF ProxyTypeOK, MainMove
    <2>5. SelectInv'
      BY <2>1, <2>2, <2>3 DEF ProxyInv, SelectInv, NeverReached
    <2>6. UpInv'
      BY <2>1, UpFrame DEF ProxyInv
    <2>7. DownInv'
      BY <2>1, <2>2 DEF ProxyInv, DownInv, Drawn
    <2>8. QED
      BY <2>4, <2>5, <2>6, <2>7 DEF ProxyKept
  <1>3. QED
    BY <1>1, <1>2

(* The handler waits for two ends, and takes at most one of the client's:  *)
(* it returns before its rounds are used up.                               *)
LEMMA SelectSteps ==
    ASSUME ProxyInv, UNCHANGED phase, SelectS2C \/ SelectC2S
    PROVE  ProxyKept
  <1>0. ProxyTypeOK /\ main.at = "select" /\ UNCHANGED <<kind, client, first, up, down>>
    BY DEF ProxyInv, SelectS2C, SelectC2S
  <1>t. /\ main \in MainType /\ service \in ServiceType
        /\ errs \in [{"s2c", "c2s"} -> Ends]
    BY <1>0, ProxyTypes
  <1>n. main.result = "none"
    BY <1>0 DEF ProxyInv
  <1>1. CASE SelectS2C /\ errs.s2c = "EOF"
    <2>1. /\ errs.s2c # "none" /\ errs' = [errs EXCEPT !.s2c = "none"]
          /\ service' = [service EXCEPT !.closed = TRUE]
          /\ main' = [main EXCEPT !.rounds = @ - 1,
                                  !.at = IF main.rounds = 1 THEN "unreachable" ELSE @]
      BY <1>1 DEF SelectS2C
    <2>2. main.rounds = 2 /\ up.at = "done"
      BY <1>0, <2>1 DEF ProxyInv, SelectInv
    <2>3. main' = [at |-> "select", rounds |-> 1, result |-> "none"]
      <3>1. main' = [main EXCEPT !.rounds = 1, !.at = "select"]
        BY <1>0, <2>1, <2>2
      <3>2. QED
        BY <1>t, <1>n, <3>1 DEF MainType
    <2>4. main' \in MainType
      BY <2>3 DEF MainType, Results
    <2>5. /\ service' \in ServiceType /\ service'.got = service.got
          /\ service'.queue = service.queue /\ service'.sent = service.sent
          /\ service'.status = service.status
      BY <1>t, <2>1 DEF ServiceType
    <2>6. errs' \in [{"s2c", "c2s"} -> Ends] /\ errs'.s2c = "none" /\ errs'.c2s = errs.c2s
      BY <1>t, <2>1 DEF Ends
    <2>7. ProxyTypeOK' /\ MainMove
      BY <1>0, <2>3, <2>4, <2>5, <2>6 DEF ProxyTypeOK, MainMove, MainType, ServiceType
    <2>8. SelectInv'
      BY <1>0, <2>2, <2>3, <2>6 DEF ProxyInv, SelectInv, NeverReached
    <2>9. UpInv' /\ DownInv'
      BY <1>0, <1>n, <2>3, <2>5, UpFrame, DownFrame DEF ProxyInv
    <2>10. QED
      BY <2>7, <2>8, <2>9 DEF ProxyKept
  <1>2. CASE SelectS2C /\ errs.s2c # "EOF"
    <2>1. /\ errs' = [errs EXCEPT !.s2c = "none"] /\ Return("error")
          /\ service' = [service EXCEPT !.cancelled = TRUE]
      BY <1>2 DEF SelectS2C
    <2>2. /\ main' \in MainType /\ main'.at = "over" /\ main'.result = "error" /\ MainMove
      BY <1>0, <1>t, <2>1, ReturnMoves DEF Results
    <2>5. /\ service' \in ServiceType /\ service'.got = service.got
          /\ service'.queue = service.queue /\ service'.sent = service.sent
          /\ service'.status = service.status
      BY <1>t, <2>1 DEF ServiceType
    <2>6. errs' \in [{"s2c", "c2s"} -> Ends] /\ errs'.s2c = "none" /\ errs'.c2s = errs.c2s
      BY <1>t, <2>1 DEF Ends
    <2>7. ProxyTypeOK'
      BY <1>0, <2>2, <2>5, <2>6 DEF ProxyTypeOK, MainType, ServiceType
    <2>8. SelectInv'
      BY <1>0, <2>2, <2>6 DEF ProxyInv, SelectInv, NeverReached
    <2>9. UpInv' /\ DownInv'
      BY <1>0, <2>2, <2>5, UpFrame, DownFrame DEF ProxyInv
    <2>10. QED
      BY <2>2, <2>7, <2>8, <2>9 DEF ProxyKept
  <1>3. CASE SelectC2S
    <2>0. PICK result \in {"ok", "error"} :
            result = IF errs.c2s = "EOF" THEN "ok" ELSE "error"
      OBVIOUS
    <2>1. /\ errs.c2s # "none" /\ errs' = [errs EXCEPT !.c2s = "none"] /\ Return(result)
          /\ UNCHANGED service
      BY <1>3, <2>0 DEF SelectC2S
    <2>2. /\ main' \in MainType /\ main'.at = "over" /\ main'.result = result /\ MainMove
      BY <1>0, <1>t, <2>1, ReturnMoves DEF Results
    <2>3. result = "ok" => service.status = "ok" /\ Len(client.got) = service.sent
      BY <2>0, <2>1 DEF ProxyInv, SelectInv, DownInv
    <2>6. errs' \in [{"s2c", "c2s"} -> Ends] /\ errs'.s2c = errs.s2c /\ errs'.c2s = "none"
      BY <1>t, <2>1 DEF Ends
    <2>7. ProxyTypeOK'
      BY <1>0, <2>1, <2>2, <2>6 DEF ProxyTypeOK, MainType
    <2>8. SelectInv'
      BY <1>0, <2>2, <2>6 DEF ProxyInv, SelectInv, NeverReached
    <2>9. UpInv'
      BY <1>0, <2>1, <2>2, UpFrame DEF ProxyInv
    <2>10. DownInv'
      BY <1>0, <2>1, <2>2, <2>3 DEF ProxyInv, DownInv, Drawn
    <2>11. QED
      BY <2>2, <2>7, <2>8, <2>9, <2>10 DEF ProxyKept
  <1>4. QED
    BY <1>1, <1>2, <1>3

-----------------------------------------------------------------------------

LEMMA OneFrameStartsStep ==
    ASSUME ProxyInv, UNCHANGED phase, OneFrameStarts
    PROVE  ProxyKept
  <1>0. /\ ProxyTypeOK /\ main.at = "start" /\ first.pending /\ OneFrame
        /\ UNCHANGED <<kind, up, down, errs>>
    BY DEF ProxyInv, OneFrameStarts
  <1>t. /\ main \in MainType /\ service \in ServiceType /\ first \in FirstType
        /\ Len(client.got) \in Nat /\ client.got \in Seq(Nat)
    BY <1>0, ProxyTypes
  <1>1. /\ first' = [first EXCEPT !.pending = FALSE] /\ UNCHANGED client
    BY <1>0 DEF OneFrameStarts, FrameTaken
  <1>2. first' \in FirstType /\ first'.pending = FALSE /\ first'.frame = first.frame
    BY <1>t, <1>1 DEF FirstType
  <1>3. /\ first.frame = 1 /\ Taken = 1 /\ service.got = <<>>
        /\ up.at = "off" /\ down.at = "off" /\ main.result = "none"
        /\ service.queue = <<>> /\ service.sent = 0 /\ Len(client.got) <= Drawn
        /\ phase \notin Early
    BY <1>0 DEF ProxyInv, UpInv, DownInv, SelectInv
  <1>4. client.got = <<>>
    BY <1>t, <1>3 DEF Drawn
  <1>5. Taken' = Taken
    BY <1>1 DEF Taken
  <1>6. CASE Return("error") /\ UNCHANGED service
    <2>1. /\ main' \in MainType /\ main'.at = "over" /\ main'.result = "error" /\ MainMove
      BY <1>0, <1>t, <1>6, ReturnMoves DEF Results
    <2>2. ProxyTypeOK'
      BY <1>0, <1>1, <1>2, <1>6, <2>1 DEF ProxyTypeOK, MainType, FirstType
    <2>3. SelectInv' /\ DownInv'
      BY <1>0, <1>1, <1>6, <2>1, SelectFrame, DownFrame DEF ProxyInv
    <2>4. UpInv'
      BY <1>0, <1>1, <1>2, <1>3, <1>5, <1>6, <2>1 DEF ProxyInv, UpInv, Early
    <2>5. QED
      BY <2>1, <2>2, <2>3, <2>4 DEF ProxyKept
  <1>7. ASSUME NEW at \in {"stdin", "call"}, main' = [main EXCEPT !.at = at],
               UNCHANGED service
        PROVE  ProxyKept
    <2>1. main' \in MainType /\ main'.at = at /\ main'.result = "none"
      BY <1>t, <1>3, <1>7 DEF MainType
    <2>2. ProxyTypeOK' /\ MainMove
      BY <1>0, <1>1, <1>2, <1>7, <2>1 DEF ProxyTypeOK, MainType, FirstType, MainMove
    <2>3. SelectInv'
      BY <1>0, <1>3, <2>1, SelectFrame DEF ProxyInv
    <2>4. DownInv'
      BY <1>0, <1>1, <1>3, <1>7, <2>1 DEF ProxyInv, DownInv, Drawn
    <2>5. UpInv'
      BY <1>0, <1>1, <1>2, <1>3, <1>5, <1>7, <2>1 DEF ProxyInv, UpInv, Early
    <2>6. QED
      BY <2>2, <2>3, <2>4, <2>5 DEF ProxyKept
  <1>8. CASE /\ main' = [main EXCEPT !.at = "answer"]
             /\ service' = [service EXCEPT !.status = "ok", !.sent = 1]
    <2>1. main' \in MainType /\ main'.at = "answer" /\ main'.result = "none"
      <3>1. main' = [main EXCEPT !.at = "answer"]
        BY <1>8
      <3>2. QED
        BY <1>t, <1>3, <3>1 DEF MainType
    <2>2. /\ service' \in ServiceType /\ service'.got = <<>> /\ service'.queue = <<>>
          /\ service'.status = "ok" /\ service'.sent = 1
      <3>1. service' = [service EXCEPT !.status = "ok", !.sent = 1]
        BY <1>8
      <3>2. QED
        BY <1>t, <1>3, <3>1 DEF ServiceType
    <2>3. ProxyTypeOK' /\ MainMove
      BY <1>0, <1>1, <1>2, <2>1, <2>2 DEF ProxyTypeOK, MainType, FirstType, ServiceType, MainMove
    <2>4. SelectInv'
      BY <1>0, <1>3, <2>1, SelectFrame DEF ProxyInv
    <2>5. Drawn' = 1
      BY <2>2 DEF Drawn
    <2>6. DownInv'
      <3>1. Numbered(service'.queue, service'.sent) /\ Counts(client'.got)
        BY <1>1, <1>4, <2>2 DEF Numbered, Counts
      <3>2. Len(client'.got) <= Drawn'
        BY <1>1, <1>4, <2>5
      <3>3. down.err # "EOF"
        BY <1>3 DEF ProxyInv, DownInv
      <3>4. QED
        BY <1>0, <1>1, <1>3, <1>4, <2>1, <2>2, <3>1, <3>2, <3>3 DEF DownInv
    <2>7. UpInv'
      BY <1>0, <1>1, <1>2, <1>3, <1>5, <2>1, <2>2 DEF ProxyInv, UpInv, Early
    <2>8. QED
      BY <2>3, <2>4, <2>6, <2>7 DEF ProxyKept
  <1>9. QED
    BY <1>0, <1>6, <1>7, <1>8 DEF OneFrameStarts, OneFrame

LEMMA WriteStdinStep ==
    ASSUME ProxyInv, UNCHANGED phase, WriteStdin
    PROVE  ProxyKept
  <1>0. /\ ProxyTypeOK /\ main.at = "stdin" /\ main' = [main EXCEPT !.at = "call"]
        /\ UNCHANGED <<kind, client, first, service, up, down, errs>>
    BY DEF ProxyInv, WriteStdin
  <1>1. main \in MainType /\ up.at = "off" /\ main.result = "none"
    BY <1>0, ProxyTypes DEF ProxyInv, SelectInv
  <1>2. main' \in MainType /\ main'.at = "call" /\ main'.result = "none"
    BY <1>0, <1>1 DEF MainType
  <1>3. ProxyTypeOK' /\ MainMove
    BY <1>0, <1>2 DEF ProxyTypeOK, MainType, MainMove
  <1>4. SelectInv'
    BY <1>0, <1>1, <1>2, SelectFrame DEF ProxyInv
  <1>5. UpInv' /\ DownInv'
    BY <1>0, <1>2 DEF ProxyInv, UpInv, DownInv, Taken, Drawn
  <1>6. QED
    BY <1>3, <1>4, <1>5 DEF ProxyKept

LEMMA CallServiceStep ==
    ASSUME ProxyInv, UNCHANGED phase, CallService
    PROVE  ProxyKept
  <1>0. /\ ProxyTypeOK /\ main.at = "call"
        /\ UNCHANGED <<kind, client, first, up, down, errs>>
    BY DEF ProxyInv, CallService
  <1>t. /\ main \in MainType /\ service \in ServiceType /\ client.got \in Seq(Nat)
        /\ Len(client.got) \in Nat /\ main.result = "none"
    BY <1>0, ProxyTypes DEF ProxyInv
  <1>1. /\ first.frame = 1 /\ Taken >= 1 /\ service.got = <<>> /\ ~first.pending
        /\ up.at = "off" /\ down.at = "off" /\ service.queue = <<>> /\ service.sent = 0
        /\ Len(client.got) <= Drawn /\ phase \notin Early /\ down.err # "EOF"
    <2>1. ~first.pending
      BY <1>0 DEF ProxyInv, UpInv
    <2>2. QED
      BY <1>0, <2>1 DEF ProxyInv, UpInv, DownInv, SelectInv
  <1>2. client.got = <<>>
    BY <1>t, <1>1 DEF Drawn
  <1>3. Taken' = Taken
    BY <1>0 DEF Taken
  <1>4. CASE service' = [service EXCEPT !.status = "error"] /\ Return("error")
    <2>1. /\ main' \in MainType /\ main'.at = "over" /\ main'.result = "error" /\ MainMove
      BY <1>0, <1>t, <1>4, ReturnMoves DEF Results
    <2>2. /\ service' \in ServiceType /\ service'.got = service.got
          /\ service'.queue = service.queue /\ service'.sent = service.sent
      BY <1>t, <1>4 DEF ServiceType
    <2>3. ProxyTypeOK'
      BY <1>0, <2>1, <2>2 DEF ProxyTypeOK, MainType, ServiceType
    <2>4. SelectInv' /\ UpInv'
      BY <1>0, <2>1, <2>2, SelectFrame, UpFrame DEF ProxyInv
    <2>5. DownInv'
      BY <1>0, <1>1, <2>1, <2>2 DEF ProxyInv, DownInv, Drawn
    <2>6. QED
      BY <2>1, <2>3, <2>4, <2>5 DEF ProxyKept
  <1>5. CASE /\ service' = [service EXCEPT !.got = Append(@, first.frame), !.status = "ok",
                                           !.sent = 1]
             /\ main' = [main EXCEPT !.at = "answer"]
    <2>1. main' \in MainType /\ main'.at = "answer" /\ main'.result = "none"
      <3>1. main' = [main EXCEPT !.at = "answer"]
        BY <1>5
      <3>2. QED
        BY <1>t, <3>1 DEF MainType
    <2>2. /\ service' \in ServiceType /\ service'.got = <<1>> /\ service'.queue = <<>>
          /\ service'.status = "ok" /\ service'.sent = 1
      <3>1. Append(service.got, first.frame) = <<1>> /\ <<1>> \in Seq(Nat)
        BY <1>1
      <3>2. service' = [service EXCEPT !.got = <<1>>, !.status = "ok", !.sent = 1]
        BY <1>5, <3>1
      <3>3. QED
        BY <1>t, <1>1, <3>1, <3>2 DEF ServiceType
    <2>3. ProxyTypeOK' /\ MainMove
      BY <1>0, <2>1, <2>2 DEF ProxyTypeOK, MainType, ServiceType, MainMove
    <2>4. SelectInv'
      BY <1>0, <1>1, <2>1, SelectFrame DEF ProxyInv
    <2>5. DownInv'
      <3>1. Drawn' = 1
        BY <2>2 DEF Drawn
      <3>2. Numbered(service'.queue, service'.sent) /\ Counts(client'.got)
            /\ Len(client'.got) <= Drawn'
        BY <1>0, <1>2, <2>2, <3>1 DEF Numbered, Counts
      <3>3. QED
        BY <1>0, <1>1, <1>2, <2>1, <2>2, <3>2 DEF DownInv
    <2>6. UpInv'
      <3>1. Counts(service'.got) /\ Len(service'.got) = 1
        BY <2>2 DEF Counts
      <3>2. QED
        BY <1>0, <1>1, <1>3, <2>1, <2>2, <3>1 DEF ProxyInv, UpInv, Early
    <2>7. QED
      BY <2>3, <2>4, <2>5, <2>6 DEF ProxyKept
  <1>6. QED
    BY <1>4, <1>5 DEF CallService

LEMMA SendAnswerStep ==
    ASSUME ProxyInv, UNCHANGED phase, SendAnswer \/ SendAnswerFails
    PROVE  ProxyKept
  <1>0. /\ ProxyTypeOK /\ main.at = "answer"
        /\ UNCHANGED <<kind, first, service, up, down, errs>>
    BY DEF ProxyInv, SendAnswer, SendAnswerFails
  <1>t. main \in MainType /\ client \in ClientType
    BY <1>0, ProxyTypes
  <1>1. CASE Return("error") /\ UNCHANGED client
    <2>1. /\ main' \in MainType /\ main'.at = "over" /\ main'.result = "error" /\ MainMove
      BY <1>0, <1>t, <1>1, ReturnMoves DEF Results
    <2>2. ProxyTypeOK'
      BY <1>0, <1>1, <2>1 DEF ProxyTypeOK, MainType
    <2>3. SelectInv' /\ UpInv' /\ DownInv'
      BY <1>0, <1>1, <2>1, SelectFrame, UpFrame, DownFrame DEF ProxyInv
    <2>4. QED
      BY <2>1, <2>2, <2>3 DEF ProxyKept
  <1>2. CASE client' = [client EXCEPT !.got = Append(@, 1)] /\ Return("ok")
    <2>0. /\ service.sent = 1 /\ client.got = <<>> /\ service.status = "ok"
          /\ down.at = "off" /\ service.queue = <<>> /\ down.err # "EOF"
      BY <1>0 DEF ProxyInv, DownInv, SelectInv
    <2>1. /\ main' \in MainType /\ main'.at = "over" /\ main'.result = "ok" /\ MainMove
      BY <1>0, <1>t, <1>2, ReturnMoves DEF Results
    <2>2. /\ client' \in ClientType /\ client'.got = <<1>>
          /\ client'.queue = client.queue /\ client'.sent = client.sent
      <3>1. Append(client.got, 1) = <<1>> /\ <<1>> \in Seq(Nat)
        BY <2>0
      <3>2. client' = [client EXCEPT !.got = <<1>>]
        BY <1>2, <3>1
      <3>3. QED
        BY <1>t, <3>1, <3>2 DEF ClientType
    <2>3. ProxyTypeOK'
      BY <1>0, <2>1, <2>2 DEF ProxyTypeOK, MainType, ClientType
    <2>4. SelectInv' /\ UpInv'
      BY <1>0, <2>1, <2>2, SelectFrame, UpFrame DEF ProxyInv
    <2>5. DownInv'
      <3>1. Counts(client'.got) /\ Len(client'.got) = 1 /\ Drawn' = 1
        BY <1>0, <2>0, <2>2 DEF Counts, Drawn
      <3>2. Numbered(service.queue, service.sent)
        BY DEF ProxyInv, DownInv
      <3>3. QED
        BY <1>0, <2>0, <2>1, <3>1, <3>2 DEF DownInv
    <2>6. QED
      BY <2>1, <2>3, <2>4, <2>5 DEF ProxyKept
  <1>3. QED
    BY <1>1, <1>2 DEF SendAnswer, SendAnswerFails

(* The services of the daemon itself.                                      *)
LEMMA OwnServiceSteps ==
    ASSUME ProxyInv, UNCHANGED phase, UploadRecv \/ UnaryHandler
    PROVE  ProxyKept
  <1>0. /\ ProxyTypeOK /\ main.at = "start" /\ UNCHANGED <<kind, client, up, down, errs>>
    BY DEF ProxyInv, UploadRecv, UnaryHandler
  <1>t. main \in MainType /\ first \in FirstType /\ service \in ServiceType
    BY <1>0, ProxyTypes
  <1>1. CASE UploadRecv
    <2>0. /\ first' = [first EXCEPT !.pending = FALSE] /\ Return("error") /\ UNCHANGED service
      BY <1>1 DEF UploadRecv
    <2>1. /\ main' \in MainType /\ main'.at = "over" /\ main'.result = "error" /\ MainMove
      BY <1>0, <1>t, <2>0, ReturnMoves DEF Results
    <2>2. first' \in FirstType /\ first'.pending = FALSE
      BY <1>t, <2>0 DEF FirstType
    <2>3. ProxyTypeOK'
      BY <1>0, <2>0, <2>1, <2>2 DEF ProxyTypeOK, MainType, FirstType
    <2>4. SelectInv' /\ DownInv'
      BY <1>0, <2>0, <2>1, SelectFrame, DownFrame DEF ProxyInv
    <2>5. up.at = "off" /\ phase \notin Early
      BY <1>0 DEF ProxyInv, SelectInv
    <2>6. UpInv'
      BY <1>0, <2>0, <2>1, <2>2, <2>5 DEF ProxyInv, UpInv, Taken, Early
    <2>7. QED
      BY <2>1, <2>3, <2>4, <2>6 DEF ProxyKept
  <1>2. CASE UnaryHandler
    <2>0. /\ UNCHANGED <<first, service>> /\ kind = "unary"
          /\ Return("error") \/ main' = [main EXCEPT !.at = "provider"]
      BY <1>2 DEF UnaryHandler
    <2>1. CASE Return("error")
      <3>1. /\ main' \in MainType /\ main'.at = "over" /\ main'.result = "error" /\ MainMove
        BY <1>0, <1>t, <2>1, ReturnMoves DEF Results
      <3>2. ProxyTypeOK'
        BY <1>0, <2>0, <3>1 DEF ProxyTypeOK, MainType
      <3>3. SelectInv' /\ UpInv' /\ DownInv'
        BY <1>0, <2>0, <3>1, SelectFrame, UpFrame, DownFrame DEF ProxyInv
      <3>4. QED
        BY <3>1, <3>2, <3>3 DEF ProxyKept
    <2>2. CASE main' = [main EXCEPT !.at = "provider"]
      <3>1. /\ main' \in MainType /\ main'.at = "provider" /\ main'.result = main.result
            /\ up.at = "off"
        BY <1>0, <1>t, <2>2 DEF MainType, ProxyInv, SelectInv
      <3>2. ProxyTypeOK'
        BY <1>0, <2>0, <3>1 DEF ProxyTypeOK, MainType
      <3>3. SelectInv' /\ UpInv'
        BY <1>0, <2>0, <3>1, SelectFrame, UpFrame DEF ProxyInv
      <3>4. DownInv'
        BY <1>0, <2>0, <3>1 DEF ProxyInv, DownInv, Drawn
      <3>5. MainMove
        BY <1>0, <3>1 DEF ProxyInv, MainMove
      <3>6. QED
        BY <3>2, <3>3, <3>4, <3>5 DEF ProxyKept
    <2>3. QED
      BY <2>0, <2>1, <2>2
  <1>3. QED
    BY <1>1, <1>2

(* The provider answers, or the client does not wait for it.               *)
LEMMA ProviderSteps ==
    ASSUME ProxyInv, UNCHANGED phase,
           ProviderGivenUp \/ \E result \in {"ok", "error"} : ProviderAnswers(result)
    PROVE  ProxyKept
  <1>0. /\ ProxyTypeOK /\ main.at = "provider" /\ UNCHANGED <<kind, client, first, up, down, errs>>
    BY DEF ProxyInv, ProviderGivenUp, ProviderAnswers
  <1>t. main \in MainType /\ service \in ServiceType
    BY <1>0, ProxyTypes
  <1>1. PICK result \in {"ok", "error"}, status \in {"running", "ok", "error"} :
           /\ Return(result) /\ service' = [service EXCEPT !.status = status]
           /\ result = "ok" => status = "ok"
    <2>1. CASE ProviderGivenUp
      <3>1. service' = [service EXCEPT !.status = service.status] /\ Return("error")
        BY <1>t, <2>1 DEF ProviderGivenUp, ServiceType
      <3>2. service.status \in {"running", "ok", "error"}
        BY <1>t DEF ServiceType
      <3>3. QED
        BY <3>1, <3>2
    <2>2. CASE \E result \in {"ok", "error"} : ProviderAnswers(result)
      BY <2>2 DEF ProviderAnswers
    <2>3. QED
      BY <2>1, <2>2
  <1>2. /\ main' \in MainType /\ main'.at = "over" /\ main'.result = result /\ MainMove
    BY <1>0, <1>t, <1>1, ReturnMoves DEF Results
  <1>3. /\ service' \in ServiceType /\ service'.got = service.got
        /\ service'.queue = service.queue /\ service'.sent = service.sent
        /\ service'.status = status
    BY <1>t, <1>1 DEF ServiceType
  <1>4. ProxyTypeOK'
    BY <1>0, <1>2, <1>3 DEF ProxyTypeOK, MainType, ServiceType
  <1>5. SelectInv' /\ UpInv'
    BY <1>0, <1>2, <1>3, SelectFrame, UpFrame DEF ProxyInv
  <1>6. down.err # "EOF" /\ kind = "unary"
    BY <1>0 DEF ProxyInv, DownInv, SelectInv
  <1>7. DownInv'
    BY <1>0, <1>1, <1>2, <1>3, <1>6 DEF ProxyInv, DownInv, Drawn
  <1>8. QED
    BY <1>2, <1>4, <1>5, <1>7 DEF ProxyKept

(* Every step of the call.                                                 *)
LEMMA CallStep ==
    ASSUME ProxyInv, UNCHANGED phase, ProxyStep \/ ServiceTimeout \/ ProxyEnvironment
    PROVE  ProxyKept
  BY GrpcStartsStep, UpRecvStep, UpSendStep, DownRecvStep, DownSendStep, ReportSteps,
     SelectSteps, OneFrameStartsStep, WriteStdinStep, CallServiceStep, SendAnswerStep,
     OwnServiceSteps, ProviderSteps, ClientSteps, ServiceSteps, PanicStep
     DEF ProxyStep, ProxyEnvironment

-----------------------------------------------------------------------------
(***************************************************************************)
(* The interceptors.                                                       *)
(***************************************************************************)

LEMMA DaemonParts ==
    ASSUME DaemonInv
    PROVE  ProxyInv /\ BroadcastTypeOK /\ CallInv /\ StorageInv
  BY DEF DaemonInv, DaemonTypeOK, ProxyInv, CallInv

(* The types of the daemon's own variables.                                *)
OwnTypes ==
    /\ phase \in Phases
    /\ payment \in [type : {"none", "escrow", "free-call", "prepaid-call", "train-call"},
                    open : BOOLEAN, settled : {"none", "Complete", "CompleteAfterError"},
                    times : 0..1, storage : {"open", "closed"}]
    /\ life \in {"loading", "initializing", "creating", "starting", "registering", "serving",
                 "stopping", "closing", "exited", "crashed"}
    /\ etcd \in [type : StorageTypes, server : {"none", "running", "closed"},
                 components : {"none", "open", "closed"},
                 listener : {"off", "shared", "own", "none"}, events : 0..MaxEvents]

LEMMA BroadcastFrame ==
    ASSUME BroadcastTypeOK, UNCHANGED broadcastVars
    PROVE  BroadcastTypeOK'
  BY DEF BroadcastTypeOK, broadcastVars

(* A call that is passed on from one interceptor to the next, refused, or  *)
(* handed to its handler.                                                  *)
LEMMA InterceptorKeeps ==
    ASSUME ProxyInv, phase \in Early, ProxyBut, UNCHANGED first,
           \/ /\ UNCHANGED main /\ phase' \in Early
              /\ phase = "payment" \/ kind = "unary" \/ phase' # "payment"
              /\ phase = "payment" => phase' = "payment"
           \/ phase' = "over" /\ main' = [main EXCEPT !.at = "over", !.result = "error"]
           \/ /\ phase' = "handler" /\ main' = [main EXCEPT !.at = "start"]
              /\ phase = "payment" \/ kind = "unary"
    PROVE  ProxyTypeOK' /\ SelectInv' /\ UpInv' /\ DownInv'
  <1>0. /\ ProxyTypeOK /\ main.at = "off" /\ main.result = "none"
        /\ UNCHANGED <<kind, client, service, up, down, errs, first>>
    BY ProxyTypes DEF ProxyInv, ProxyBut
  <1>t. main \in MainType
    BY <1>0, ProxyTypes
  <1>1. up.at = "off" /\ down.at = "off" /\ service.got = <<>>
    BY <1>0 DEF ProxyInv, SelectInv, UpInv
  <1>2. /\ main' \in MainType
        /\ main' = main \/ main'.at = "over" \/ main'.at = "start"
        /\ main'.result # "ok"
    BY <1>0, <1>t DEF MainType, Results
  <1>3. ProxyTypeOK' /\ SelectInv'
    BY <1>0, <1>1, <1>2, SelectFrame DEF ProxyInv, ProxyTypeOK, MainType
  <1>4. DownInv'
    BY <1>0, <1>1, <1>2 DEF ProxyInv, DownInv, Drawn
  <1>5. UpInv'
    <2>1. Taken' = Taken
      BY <1>0 DEF Taken
    <2>2. CASE UNCHANGED main /\ phase' \in Early
      BY <1>0, <1>1, <2>1, <2>2 DEF ProxyInv, UpInv, Early
    <2>3. CASE phase' = "over" /\ main' = [main EXCEPT !.at = "over", !.result = "error"]
      <3>1. main'.at = "over"
        BY <1>t, <2>3 DEF MainType
      <3>2. QED
        BY <1>0, <1>1, <2>1, <2>3, <3>1 DEF ProxyInv, UpInv, Early
    <2>4. CASE phase' = "handler" /\ main' = [main EXCEPT !.at = "start"]
      <3>1. main'.at = "start"
        BY <1>t, <2>4 DEF MainType
      <3>2. kind # "unary" => first.pending
        BY <1>0, <2>4 DEF ProxyInv, UpInv, Early
      <3>3. QED
        BY <1>0, <1>1, <2>1, <2>4, <3>1, <3>2 DEF ProxyInv, UpInv, Early
    <2>5. QED
      BY <2>2, <2>3, <2>4
  <1>6. QED
    BY <1>3, <1>4, <1>5

(* A call arrives, passes the rate limit and is asked for its metadata.    *)
LEMMA AdmitSteps ==
    ASSUME DaemonInv, Alive, Arrives \/ intercept \/ getGrpcContext
    PROVE  DaemonInv'
  <1>0. /\ ProxyInv /\ BroadcastTypeOK /\ CallInv /\ StorageInv /\ OwnTypes
        /\ ProxyBut /\ UNCHANGED <<first, broadcastVars, payment, life, etcd>>
        /\ phase \in Early \ {"payment", "first"} /\ phase' \in Phases \ {"none"}
        /\ life \in {"serving", "stopping"}
    <2>1. ProxyInv /\ BroadcastTypeOK /\ CallInv /\ StorageInv /\ OwnTypes
      BY DaemonParts DEF DaemonInv, DaemonTypeOK, OwnTypes
    <2>2. /\ ProxyBut /\ UNCHANGED <<first, broadcastVars, payment, life, etcd>>
          /\ phase \in Early \ {"payment", "first"} /\ phase' \in Phases \ {"none"}
      BY DEF Arrives, intercept, getGrpcContext, Goes, Refused, Early, Phases
    <2>3. life \in {"serving", "stopping"}
      BY <2>1, <2>2 DEF Arrives, intercept, getGrpcContext, StorageInv, Alive
    <2>4. QED
      BY <2>1, <2>2, <2>3
  <1>1. \/ /\ UNCHANGED main /\ phase' \in Early
           /\ phase' = "payment" => kind = "unary"
        \/ phase' = "over" /\ main' = [main EXCEPT !.at = "over", !.result = "error"]
        \/ /\ phase' = "handler" /\ main' = [main EXCEPT !.at = "start"] /\ kind = "unary"
    BY DEF Arrives, intercept, getGrpcContext, Goes, Refused, Early
  <1>2. ProxyTypeOK' /\ SelectInv' /\ UpInv' /\ DownInv'
    BY <1>0, <1>1, InterceptorKeeps DEF Early
  <1>3. CallInv'
    <2>1. main \in MainType
      BY <1>0, ProxyTypes DEF ProxyInv
    <2>2. \/ UNCHANGED main /\ phase' \in Early
          \/ phase' = "over" /\ main'.at = "over" /\ main'.result = "error"
          \/ phase' = "handler" /\ main'.at = "start" /\ main'.result = main.result
      BY <1>1, <2>1 DEF MainType
    <2>3. ~payment.open /\ payment.settled = "none" /\ main.at = "off"
      BY <1>0 DEF CallInv, Early
    <2>4. QED
      BY <1>0, <2>2, <2>3 DEF CallInv, Early
  <1>4. StorageInv' /\ OwnTypes'
    BY <1>0 DEF StorageInv, OwnTypes, Phases, Young, SettledOnOpenStorage, StorageLifetime,
       HasClient
  <1>5. QED
    BY <1>0, <1>2, <1>3, <1>4, BroadcastFrame DEF DaemonInv, DaemonTypeOK, OwnTypes

(* The first frame of a stream is read ahead.                              *)
LEMMA FirstFrameStep ==
    ASSUME DaemonInv, Alive, NewWrapperServerStream
    PROVE  DaemonInv'
  <1>0. /\ ProxyInv /\ BroadcastTypeOK /\ CallInv /\ StorageInv /\ OwnTypes
        /\ UNCHANGED <<kind, service, up, down, errs, broadcastVars, payment, life, etcd>>
        /\ phase = "first" /\ life \in {"serving", "stopping"}
    <2>1. ProxyInv /\ BroadcastTypeOK /\ CallInv /\ StorageInv /\ OwnTypes
      BY DaemonParts DEF DaemonInv, DaemonTypeOK, OwnTypes
    <2>2. /\ UNCHANGED <<kind, service, up, down, errs, broadcastVars, payment, life, etcd>>
          /\ phase = "first"
      BY DEF NewWrapperServerStream
    <2>3. QED
      BY <2>1, <2>2 DEF StorageInv, Alive
  <1>t. /\ ProxyTypeOK /\ main \in MainType /\ client \in ClientType
        /\ client.queue \in Seq(Nat) /\ client.sent \in Nat
    BY <1>0, ProxyTypes DEF ProxyInv
  <1>s. /\ ~payment.open /\ payment.settled = "none" /\ main.at = "off"
        /\ main.result = "none" /\ up.at = "off" /\ Taken = 0 /\ service.got = <<>>
        /\ Numbered(client.queue, client.sent) /\ ~first.pending
    BY <1>0 DEF CallInv, Early, ProxyInv, SelectInv, UpInv, Alive
  <1>1. ASSUME phase' \in {"payment", "over"} PROVE StorageInv' /\ OwnTypes'
    BY <1>0, <1>1 DEF StorageInv, OwnTypes, Phases, Young, SettledOnOpenStorage,
       StorageLifetime, HasClient
  <1>2. CASE Refused /\ UNCHANGED <<first, client>>
    <2>1. phase' = "over" /\ main' = [main EXCEPT !.at = "over", !.result = "error"]
      BY <1>2 DEF Refused
    <2>2. ProxyTypeOK' /\ SelectInv' /\ UpInv' /\ DownInv'
      BY <1>0, <1>2, <2>1, InterceptorKeeps DEF ProxyBut, Early
    <2>3. main'.at = "over" /\ main'.result = "error"
      BY <1>t, <2>1 DEF MainType
    <2>4. CallInv'
      BY <1>0, <1>s, <2>1, <2>3 DEF CallInv, Early
    <2>5. QED
      BY <1>0, <1>1, <2>1, <2>2, <2>4, BroadcastFrame DEF DaemonInv, DaemonTypeOK, OwnTypes
  <1>3. ASSUME NEW m \in ClientRecv, m.end = "none", NEW big \in BOOLEAN,
               first' = [frame |-> m.frame, pending |-> TRUE, big |-> big],
               client' = [client EXCEPT !.queue = Tail(@)],
               Goes("payment")
        PROVE  DaemonInv'
    <2>1. client.queue # <<>> /\ m.frame = Head(client.queue)
      BY <1>3 DEF ClientRecv, Frame, End
    <2>2. /\ Tail(client.queue) \in Seq(Nat) /\ Numbered(Tail(client.queue), client.sent)
          /\ Head(client.queue) \in Nat
          /\ Head(client.queue) = client.sent - Len(Tail(client.queue))
          /\ client.sent - Len(Tail(client.queue)) = (client.sent - Len(client.queue)) + 1
      BY <1>t, <1>s, <2>1, NumberedQueue
    <2>3. /\ client' \in ClientType /\ client'.queue = Tail(client.queue)
          /\ client'.sent = client.sent /\ client'.got = client.got
      BY <1>t, <1>3, <2>2 DEF ClientType
    <2>4. /\ first' \in FirstType /\ first'.frame = 1 /\ first'.pending
          /\ Taken' = 1 /\ UNCHANGED main /\ phase' = "payment"
      BY <1>s, <1>3, <2>1, <2>2, <2>3 DEF FirstType, Taken, Goes
    <2>5. ProxyTypeOK' /\ SelectInv' /\ DownInv'
      BY <1>0, <1>t, <2>3, <2>4, SelectFrame, DownFrame
         DEF ProxyInv, ProxyTypeOK, ClientType, FirstType
    <2>6. UpInv'
      BY <1>0, <1>s, <2>2, <2>3, <2>4 DEF ProxyInv, UpInv, Early
    <2>7. CallInv'
      BY <1>0, <1>s, <2>4 DEF CallInv, Early
    <2>8. QED
      BY <1>0, <1>1, <2>4, <2>5, <2>6, <2>7, BroadcastFrame
         DEF DaemonInv, DaemonTypeOK, OwnTypes
  <1>4. QED
    BY <1>2, <1>3 DEF NewWrapperServerStream

(* The payment is refused, or opened, or the price cannot be found.        *)
LEMMA PaymentSteps ==
    ASSUME DaemonInv, Alive, NEW type \in PaymentTypes,
           streamIntercept(type) \/ unaryIntercept(type)
    PROVE  DaemonInv'
  <1>0. /\ ProxyInv /\ BroadcastTypeOK /\ CallInv /\ StorageInv /\ OwnTypes
        /\ ProxyBut /\ UNCHANGED <<first, broadcastVars, etcd>>
        /\ phase = "payment" /\ TakePayment(type) /\ life \in {"serving", "stopping"}
    <2>1. ProxyInv /\ BroadcastTypeOK /\ CallInv /\ StorageInv /\ OwnTypes
      BY DaemonParts DEF DaemonInv, DaemonTypeOK, OwnTypes
    <2>2. /\ ProxyBut /\ UNCHANGED <<first, broadcastVars, etcd>>
          /\ phase = "payment" /\ TakePayment(type)
      BY DEF streamIntercept, unaryIntercept
    <2>3. QED
      BY <2>1, <2>2 DEF StorageInv, Alive
  <1>t. main \in MainType
    BY <1>0, ProxyTypes DEF ProxyInv
  <1>s. /\ ~payment.open /\ payment.settled = "none" /\ main.at = "off"
        /\ main.result = "none" /\ payment.times = 0 /\ etcd.components # "none"
    BY <1>0 DEF CallInv, Early, StorageInv, Alive
  <1>1. CASE Refused /\ UNCHANGED <<payment, life>>
    <2>1. phase' = "over" /\ main' = [main EXCEPT !.at = "over", !.result = "error"]
      BY <1>1 DEF Refused
    <2>2. ProxyTypeOK' /\ SelectInv' /\ UpInv' /\ DownInv'
      BY <1>0, <2>1, InterceptorKeeps DEF Early
    <2>3. main'.at = "over" /\ main'.result = "error"
      BY <1>t, <2>1 DEF MainType
    <2>4. CallInv'
      BY <1>0, <1>1, <1>s, <2>1, <2>3 DEF CallInv, Early
    <2>5. StorageInv' /\ OwnTypes'
      BY <1>0, <1>1, <2>1 DEF StorageInv, OwnTypes, Phases, Young, SettledOnOpenStorage,
         StorageLifetime, HasClient
    <2>6. QED
      BY <1>0, <2>2, <2>4, <2>5, BroadcastFrame DEF DaemonInv, DaemonTypeOK, OwnTypes
  <1>2. ASSUME getPaymentHandler(type),
               payment' = [payment EXCEPT !.type = type, !.open = TRUE]
        PROVE  /\ payment'.open /\ payment'.settled = "none" /\ payment'.times = 0
               /\ payment'.storage = payment.storage
               /\ payment' \in [type : {"none", "escrow", "free-call", "prepaid-call",
                                         "train-call"},
                                open : BOOLEAN,
                                settled : {"none", "Complete", "CompleteAfterError"},
                                times : 0..1, storage : {"open", "closed"}]
    <2>1. type \in {"escrow", "free-call", "prepaid-call", "train-call"}
      BY <1>2 DEF getPaymentHandler, PaymentTypes
    <2>2. payment' = [payment EXCEPT !.type = type, !.open = TRUE]
      BY <1>2
    <2>3. QED
      BY <1>0, <1>s, <2>1, <2>2 DEF OwnTypes
  <1>3. CASE /\ getPaymentHandler(type)
             /\ payment' = [payment EXCEPT !.type = type, !.open = TRUE]
             /\ phase' = "handler" /\ main' = [main EXCEPT !.at = "start"] /\ UNCHANGED life
    <2>1. ProxyTypeOK' /\ SelectInv' /\ UpInv' /\ DownInv'
      BY <1>0, <1>3, InterceptorKeeps DEF Early
    <2>2. main'.at = "start" /\ main'.result = "none"
      BY <1>t, <1>3, <1>s DEF MainType
    <2>3. CallInv'
      BY <1>2, <1>3, <2>2 DEF CallInv, Early
    <2>4. StorageInv' /\ OwnTypes'
      BY <1>0, <1>2, <1>3 DEF StorageInv, OwnTypes, Phases, Young, SettledOnOpenStorage,
         StorageLifetime, HasClient
    <2>5. QED
      BY <1>0, <2>1, <2>3, <2>4, BroadcastFrame DEF DaemonInv, DaemonTypeOK, OwnTypes
  <1>4. CASE /\ getPaymentHandler(type)
             /\ payment' = [payment EXCEPT !.type = type, !.open = TRUE]
             /\ life' = "crashed" /\ UNCHANGED <<phase, main>>
    <2>1. ProxyTypeOK' /\ SelectInv' /\ UpInv' /\ DownInv'
      BY <1>0, <1>4, InterceptorKeeps DEF Early
    <2>2. CallInv'
      BY <1>0, <1>2, <1>4, <1>s DEF CallInv, Early
    <2>3. StorageInv' /\ OwnTypes'
      BY <1>0, <1>2, <1>4 DEF StorageInv, OwnTypes, Phases, Young, SettledOnOpenStorage,
         StorageLifetime, HasClient
    <2>4. QED
      BY <1>0, <2>1, <2>2, <2>3, BroadcastFrame DEF DaemonInv, DaemonTypeOK, OwnTypes
  <1>5. QED
    BY <1>0, <1>1, <1>3, <1>4 DEF TakePayment

(* The handler is over: the payment is settled.                            *)
LEMMA SettleStep ==
    ASSUME DaemonInv, Alive, Settle
    PROVE  DaemonInv'
  <1>0. /\ ProxyInv /\ BroadcastTypeOK /\ CallInv /\ StorageInv /\ OwnTypes
        /\ phase = "handler" /\ main.at = "over" /\ phase' = "over"
        /\ UNCHANGED <<proxyVars, broadcastVars, etcd>>
        /\ life' = life \/ life' = "crashed"
        /\ life \in {"serving", "stopping"}
    <2>1. ProxyInv /\ BroadcastTypeOK /\ CallInv /\ StorageInv /\ OwnTypes
      BY DaemonParts DEF DaemonInv, DaemonTypeOK, OwnTypes
    <2>2. /\ phase = "handler" /\ main.at = "over" /\ phase' = "over"
          /\ UNCHANGED <<proxyVars, broadcastVars, etcd>>
          /\ life' = life \/ life' = "crashed"
      BY DEF Settle
    <2>3. QED
      BY <2>1, <2>2 DEF StorageInv, Alive
  <1>1. ProxyTypeOK' /\ SelectInv' /\ UpInv' /\ DownInv'
    <2>1. UNCHANGED <<kind, client, first, service, up, down, errs, main>>
      BY <1>0 DEF proxyVars
    <2>2. ProxyTypeOK' /\ SelectInv' /\ DownInv'
      BY <1>0, <2>1, SelectFrame, DownFrame DEF ProxyInv, ProxyTypeOK
    <2>3. UpInv'
      BY <1>0, <2>1 DEF ProxyInv, UpInv, Taken, Early
    <2>4. QED
      BY <2>2, <2>3
  <1>2. /\ main' = main /\ main.result # "none"
        /\ Settlement(main.result) \in {"Complete", "CompleteAfterError"}
        /\ payment.settled = "none" /\ payment.times = 0 /\ etcd.components \in {"open", "closed"}
        /\ etcd.components = "closed" => etcd.listener \in {"own", "none"}
    <2>1. main' = main
      BY <1>0 DEF proxyVars
    <2>2. etcd.components \in {"open", "closed"}
      BY <1>0 DEF OwnTypes, StorageInv
    <2>3. QED
      BY <1>0, <2>1, <2>2 DEF CallInv, Settlement, StorageInv
  <1>3. CASE ~payment.open
    <2>1. payment' = payment
      BY <1>3 DEF Settle
    <2>2. CallInv'
      BY <1>0, <1>2, <1>3, <2>1 DEF CallInv, Early
    <2>3. StorageInv' /\ OwnTypes'
      BY <1>0, <2>1 DEF StorageInv, OwnTypes, Phases, Young, SettledOnOpenStorage,
         StorageLifetime, HasClient
    <2>4. QED
      BY <1>0, <1>1, <2>2, <2>3, BroadcastFrame DEF DaemonInv, DaemonTypeOK, OwnTypes
  <1>4. CASE payment.open
    <2>1. payment' = [payment EXCEPT !.settled = Settlement(main.result), !.times = 1,
                                     !.open = FALSE, !.storage = etcd.components]
      <3>1. payment' = [payment EXCEPT !.settled = Settlement(main.result),
                                       !.times = payment.times + 1,
                                       !.open = FALSE, !.storage = etcd.components]
        BY <1>2, <1>4 DEF Settle
      <3>2. payment.times + 1 = 1
        BY <1>2
      <3>3. QED
        BY <3>1, <3>2
    <2>2. /\ payment'.settled = Settlement(main.result) /\ payment'.times = 1
          /\ payment'.open = FALSE /\ payment'.storage = etcd.components
          /\ payment' \in [type : {"none", "escrow", "free-call", "prepaid-call",
                                   "train-call"},
                           open : BOOLEAN,
                           settled : {"none", "Complete", "CompleteAfterError"},
                           times : 0..1, storage : {"open", "closed"}]
      <3>1. PICK s \in {"Complete", "CompleteAfterError"}, c \in {"open", "closed"} :
               /\ s = Settlement(main.result) /\ c = etcd.components
               /\ payment' = [payment EXCEPT !.settled = s, !.times = 1, !.open = FALSE,
                                             !.storage = c]
        BY <1>2, <2>1
      <3>2. payment' = [payment EXCEPT !.settled = s, !.times = 1, !.open = FALSE,
                                       !.storage = c]
        BY <3>1
      <3>3. 1 \in 0..1
        OBVIOUS
      <3>4. QED
        BY <1>0, <3>1, <3>2, <3>3 DEF OwnTypes
    <2>3. CallInv'
      BY <1>0, <1>2, <2>2 DEF CallInv, Early
    <2>4. StorageInv' /\ OwnTypes'
      BY <1>0, <1>2, <2>2 DEF StorageInv, OwnTypes, Phases, Young, SettledOnOpenStorage,
         StorageLifetime, HasClient
    <2>5. QED
      BY <1>0, <1>1, <2>3, <2>4, BroadcastFrame DEF DaemonInv, DaemonTypeOK, OwnTypes
  <1>5. QED
    BY <1>3, <1>4

-----------------------------------------------------------------------------
(***************************************************************************)
(* The process, the operators and the handler.                             *)
(***************************************************************************)

(* The process begins and ends around the call.                            *)
LEMMA ProcessSteps ==
    ASSUME DaemonInv, Alive,
           \/ InitComponents \/ EtcdServer \/ newDaemon \/ start \/ startServices
           \/ Signal \/ stop \/ Close \/ OrganizationModified
    PROVE  DaemonInv'
  <1>0. /\ ProxyInv /\ BroadcastTypeOK /\ CallInv /\ StorageInv /\ OwnTypes
        /\ UNCHANGED <<proxyVars, broadcastVars, phase, payment>>
    <2>1. ProxyInv /\ BroadcastTypeOK /\ CallInv /\ StorageInv /\ OwnTypes
      BY DaemonParts DEF DaemonInv, DaemonTypeOK, OwnTypes
    <2>2. UNCHANGED <<proxyVars, broadcastVars, phase, payment>>
      BY DEF InitComponents, EtcdServer, newDaemon, start, startServices, Signal, stop, Close,
         OrganizationModified, Elsewhere
    <2>3. QED
      BY <2>1, <2>2
  <1>1. ProxyTypeOK' /\ SelectInv' /\ UpInv' /\ DownInv'
    <2>1. UNCHANGED <<kind, client, first, service, up, down, errs, main>>
      BY <1>0 DEF proxyVars
    <2>2. QED
      BY <1>0, <2>1, SelectFrame, DownFrame, UpFrame DEF ProxyInv, ProxyTypeOK
  <1>2. CallInv'
    <2>1. main' = main
      BY <1>0 DEF proxyVars
    <2>2. life # "crashed"
      BY DEF Alive
    <2>3. QED
      BY <1>0, <2>1, <2>2 DEF CallInv
  <1>t. etcd \in [type : StorageTypes, server : {"none", "running", "closed"},
                  components : {"none", "open", "closed"},
                  listener : {"off", "shared", "own", "none"}, events : 0..MaxEvents]
    BY <1>0 DEF OwnTypes
  <1>3. StorageInv' /\ OwnTypes'
    <2>1. CASE /\ UNCHANGED etcd
               /\ \/ InitComponents \/ EtcdServer \/ newDaemon
                  \/ start /\ life' # "registering"
      <3>1. /\ life \in {"loading", "initializing", "creating", "starting"}
            /\ life' \in {"initializing", "crashed", "closing", "creating", "starting"}
            /\ (life' \in {"creating", "starting"} /\ etcd.type = "embedded")
                  => life = "creating" \/ etcd.server = "running"
        <4>1. CASE EtcdServer /\ etcd' = [etcd EXCEPT !.server = "running"]
          <5>1. etcd.server = "running"
            BY <1>t, <2>1, <4>1
          <5>2. QED
            BY <4>1, <5>1 DEF EtcdServer, startEtcdServer
        <4>2. QED
          BY <2>1, <4>1 DEF InitComponents, EtcdServer, startEtcdServer, newDaemon, start
      <3>2. QED
        BY <1>0, <2>1, <3>1 DEF StorageInv, OwnTypes, Young, SettledOnOpenStorage,
           StorageLifetime, HasClient
    <2>2. CASE EtcdServer /\ etcd' = [etcd EXCEPT !.server = "running"] /\ life' = "creating"
      <3>1. /\ etcd'.server = "running" /\ etcd'.components = etcd.components
            /\ etcd'.listener = etcd.listener /\ etcd'.type = etcd.type
            /\ etcd' \in [type : StorageTypes, server : {"none", "running", "closed"},
                  components : {"none", "open", "closed"},
                  listener : {"off", "shared", "own", "none"}, events : 0..MaxEvents]
        BY <1>t, <2>2
      <3>2. life = "initializing"
        BY <2>2 DEF EtcdServer
      <3>3. QED
        BY <1>0, <2>2, <3>1, <3>2 DEF StorageInv, OwnTypes, Young, SettledOnOpenStorage,
           StorageLifetime, HasClient
    <2>3. CASE start /\ life' = "registering" /\ etcd' = AtomicStorage
      <3>1. /\ etcd'.server = etcd.server /\ etcd'.components = "open"
            /\ etcd'.listener = etcd.listener /\ etcd'.type = etcd.type
            /\ etcd' \in [type : StorageTypes, server : {"none", "running", "closed"},
                  components : {"none", "open", "closed"},
                  listener : {"off", "shared", "own", "none"}, events : 0..MaxEvents]
        BY <1>t, <2>3 DEF AtomicStorage
      <3>2. life = "starting"
        BY <2>3 DEF start
      <3>3. QED
        BY <1>0, <2>3, <3>1, <3>2 DEF StorageInv, OwnTypes, Young, SettledOnOpenStorage,
           StorageLifetime, HasClient
    <2>4. CASE startServices /\ life' \in {"closing", "crashed"} /\ UNCHANGED etcd
      BY <1>0, <2>4 DEF startServices, StorageInv, OwnTypes, Young, SettledOnOpenStorage,
         StorageLifetime, HasClient
    <2>5. CASE startServices /\ life' = "serving" /\ etcd' = Listener
      <3>1. /\ etcd'.server = etcd.server /\ etcd'.components = etcd.components
            /\ etcd'.listener \in {"off", "shared"} /\ etcd'.type = etcd.type
            /\ etcd' \in [type : StorageTypes, server : {"none", "running", "closed"},
                  components : {"none", "open", "closed"},
                  listener : {"off", "shared", "own", "none"}, events : 0..MaxEvents]
        BY <1>t, <2>5 DEF Listener
      <3>2. life = "registering"
        BY <2>5 DEF startServices
      <3>3. QED
        BY <1>0, <2>5, <3>1, <3>2 DEF StorageInv, OwnTypes, Young, SettledOnOpenStorage,
           StorageLifetime, HasClient
    <2>6. CASE Signal \/ stop
      BY <1>0, <2>6 DEF Signal, stop, StorageInv, OwnTypes, Young, SettledOnOpenStorage,
         StorageLifetime, HasClient
    <2>7. CASE Close
      <3>1. life = "closing"
        BY <2>7 DEF Close
      <3>2. CASE /\ HasClient /\ etcd' = [etcd EXCEPT !.components = "closed"]
                 /\ UNCHANGED life
        <4>1. /\ etcd'.server = etcd.server /\ etcd'.components = "closed"
              /\ etcd'.listener = etcd.listener /\ etcd'.type = etcd.type
              /\ etcd' \in [type : StorageTypes, server : {"none", "running", "closed"},
                  components : {"none", "open", "closed"},
                  listener : {"off", "shared", "own", "none"}, events : 0..MaxEvents]
          BY <1>t, <3>2
        <4>2. QED
          BY <1>0, <3>1, <3>2, <4>1 DEF StorageInv, OwnTypes, Young, SettledOnOpenStorage,
             StorageLifetime, HasClient
      <3>3. CASE /\ ~HasClient /\ etcd.server = "running"
                 /\ etcd' = [etcd EXCEPT !.server = "closed"] /\ UNCHANGED life
        <4>1. /\ etcd'.server = "closed" /\ etcd'.components = etcd.components
              /\ etcd'.listener = etcd.listener /\ etcd'.type = etcd.type
              /\ etcd' \in [type : StorageTypes, server : {"none", "running", "closed"},
                  components : {"none", "open", "closed"},
                  listener : {"off", "shared", "own", "none"}, events : 0..MaxEvents]
          BY <1>t, <3>3
        <4>2. QED
          BY <1>0, <3>1, <3>3, <4>1 DEF StorageInv, OwnTypes, Young, SettledOnOpenStorage,
             StorageLifetime, HasClient
      <3>4. CASE /\ ~HasClient /\ etcd.server # "running" /\ life' = "exited"
                 /\ UNCHANGED etcd
        BY <1>0, <3>1, <3>4 DEF StorageInv, OwnTypes, Young, SettledOnOpenStorage,
           StorageLifetime, HasClient
      <3>5. QED
        BY <2>7, <3>2, <3>3, <3>4 DEF Close
    <2>8. CASE OrganizationModified
      <3>1. /\ etcd.events < MaxEvents /\ etcd.listener # "off"
            /\ life \notin Young \cup {"registering"}
        BY <1>0, <2>8 DEF OrganizationModified, StorageInv
      <3>2. CASE etcd.listener = "none" /\ life' = "crashed" /\ UNCHANGED etcd
        BY <1>0, <3>1, <3>2 DEF StorageInv, OwnTypes, Young, SettledOnOpenStorage,
           StorageLifetime, HasClient
      <3>3. ASSUME NEW new \in {"own", "none"}, UNCHANGED life,
                   etcd' = [etcd EXCEPT !.listener = new, !.events = @ + 1,
                              !.components = IF etcd.listener = "shared" THEN "closed" ELSE @]
            PROVE  StorageInv' /\ OwnTypes'
        <4>1. etcd.events + 1 \in 0..MaxEvents
          BY <1>t, <3>1, DaemonAssumption
        <4>2. PICK c \in {"none", "open", "closed"} :
                 /\ c = etcd.components \/ (etcd.listener = "shared" /\ c = "closed")
                 /\ etcd' = [etcd EXCEPT !.listener = new, !.events = etcd.events + 1,
                                         !.components = c]
          <5>1. CASE etcd.listener = "shared"
            BY <3>3, <5>1
          <5>2. CASE etcd.listener # "shared"
            <6>1. etcd.components \in {"none", "open", "closed"}
              BY <1>t
            <6>2. etcd' = [etcd EXCEPT !.listener = new, !.events = etcd.events + 1,
                                       !.components = etcd.components]
              BY <3>3, <5>2
            <6>3. QED
              BY <6>1, <6>2
          <5>3. QED
            BY <5>1, <5>2
        <4>3. /\ etcd'.server = etcd.server /\ etcd'.components = c
              /\ etcd'.listener = new /\ etcd'.type = etcd.type
              /\ etcd' \in [type : StorageTypes, server : {"none", "running", "closed"},
                  components : {"none", "open", "closed"},
                  listener : {"off", "shared", "own", "none"}, events : 0..MaxEvents]
          BY <1>t, <4>1, <4>2
        <4>4. c = "open" => etcd.components = "open"
          BY <4>2
        <4>5. QED
          BY <1>0, <3>1, <3>3, <4>2, <4>3, <4>4 DEF StorageInv, OwnTypes, Young,
             SettledOnOpenStorage, StorageLifetime, HasClient
      <3>4. QED
        BY <2>8, <3>2, <3>3 DEF OrganizationModified
    <2>9. QED
      BY <2>1, <2>2, <2>3, <2>6, <2>7, <2>8, <2>4, <2>5
         DEF InitComponents, EtcdServer, startEtcdServer, newDaemon, start, startServices
  <1>4. QED
    BY <1>0, <1>1, <1>2, <1>3, BroadcastFrame DEF DaemonInv, DaemonTypeOK, OwnTypes

(* Commands of the operators do not touch the call.                        *)
LEMMA OperatorSteps ==
    ASSUME DaemonInv, BroadcastStep \/ OperatorNext, UNCHANGED <<proxyVars, daemonVars>>
    PROVE  DaemonInv'
  <1>0. DaemonInv /\ UNCHANGED <<kind, client, first, service, up, down, errs, main>>
        /\ UNCHANGED <<phase, payment, life, etcd>>
    BY DEF proxyVars, daemonVars
  <1>1. BroadcastTypeOK
    BY DEF DaemonInv, DaemonTypeOK
  <1>2. BroadcastTypeOK'
    <2>1. CASE PublishTakes
      <3>1. trigger[1] \in ProcessingCommands /\ Head(trigger) = trigger[1]
        BY <1>1, <2>1 DEF BroadcastTypeOK, PublishTakes
      <3>2. QED
        BY <1>1, <2>1, <3>1 DEF BroadcastTypeOK, PublishTakes
    <2>2. CASE PublishSends
      BY <1>1, <2>2 DEF BroadcastTypeOK, PublishSends
    <2>3. CASE startOrStopProcessingAnyRequests
      BY <1>1, <2>3 DEF BroadcastTypeOK, startOrStopProcessingAnyRequests
    <2>4. ASSUME NEW o \in Operators, OperatorSends(o) PROVE BroadcastTypeOK'
      <3>1. operator[o] \in [at : {"idle", "send", "replied", "refused"},
                             command : ProcessingCommands]
        BY <1>1 DEF BroadcastTypeOK
      <3>2. QED
        BY <1>1, <2>4, <3>1 DEF BroadcastTypeOK, OperatorSends
    <2>5. ASSUME NEW o \in Operators, NEW command \in ProcessingCommands,
                 NEW signature \in Signatures, OperatorCalls(o, command, signature)
          PROVE  BroadcastTypeOK'
      <3>1. [at |-> IF authenticate(signature) THEN "send" ELSE "refused",
             command |-> command] \in [at : {"idle", "send", "replied", "refused"},
                                       command : ProcessingCommands]
        OBVIOUS
      <3>2. QED
        BY <1>1, <2>5, <3>1 DEF BroadcastTypeOK, OperatorCalls
    <2>6. QED
      BY <2>1, <2>2, <2>3, <2>4, <2>5 DEF BroadcastStep, OperatorNext
  <1>3. ProxyTypeOK' /\ SelectInv' /\ UpInv' /\ DownInv'
    BY <1>0, SelectFrame, UpFrame, DownFrame DEF DaemonInv, DaemonTypeOK, ProxyTypeOK
  <1>4. CallInv' /\ StorageInv'
    BY <1>0 DEF DaemonInv, CallInv, StorageInv, SettledOnOpenStorage, StorageLifetime,
       HasClient
  <1>5. QED
    BY <1>0, <1>2, <1>3, <1>4 DEF DaemonInv, DaemonTypeOK

(* A step of the handler, its goroutines, the client or the service.       *)
LEMMA HandlerSteps ==
    ASSUME DaemonInv, ProxyStep \/ ServiceTimeout \/ ProxyEnvironment,
           UNCHANGED <<broadcastVars, daemonVars>>
    PROVE  DaemonInv'
  <1>0. /\ ProxyInv /\ BroadcastTypeOK /\ CallInv /\ StorageInv /\ OwnTypes
        /\ UNCHANGED <<phase, payment, life, etcd>> /\ UNCHANGED broadcastVars
    BY DaemonParts DEF DaemonInv, DaemonTypeOK, OwnTypes, daemonVars
  <1>1. ProxyTypeOK' /\ SelectInv' /\ UpInv' /\ DownInv' /\ MainMove
    BY <1>0, CallStep DEF ProxyKept
  <1>2. CallInv'
    <2>1. CASE main' = main
      BY <1>0, <2>1 DEF CallInv
    <2>2. CASE /\ main.at \notin {"off", "over"} /\ main'.at # "off"
               /\ main'.at = "over" <=> main'.result # "none"
      BY <1>0, <2>2 DEF CallInv
    <2>3. QED
      BY <1>1, <2>1, <2>2 DEF MainMove
  <1>3. StorageInv' /\ OwnTypes'
    BY <1>0 DEF StorageInv, OwnTypes, SettledOnOpenStorage, StorageLifetime, HasClient
  <1>4. QED
    BY <1>0, <1>1, <1>2, <1>3, BroadcastFrame DEF DaemonInv, DaemonTypeOK, OwnTypes

LEMMA NextDaemonInv ==
    ASSUME DaemonInv, [DaemonNext]_vars
    PROVE  DaemonInv'
  <1>1. CASE UNCHANGED vars
    <2>1. /\ UNCHANGED <<kind, client, first, service, up, down, errs, main>>
          /\ UNCHANGED <<phase, payment, life, etcd>> /\ UNCHANGED broadcastVars
      BY <1>1 DEF vars, proxyVars, daemonVars
    <2>2. ProxyTypeOK' /\ SelectInv' /\ UpInv' /\ DownInv' /\ BroadcastTypeOK'
      BY <2>1, SelectFrame, UpFrame, DownFrame, BroadcastFrame
         DEF DaemonInv, DaemonTypeOK, ProxyTypeOK
    <2>3. CallInv' /\ StorageInv'
      BY <2>1 DEF DaemonInv, CallInv, StorageInv, SettledOnOpenStorage, StorageLifetime,
         HasClient
    <2>4. QED
      BY <2>1, <2>2, <2>3 DEF DaemonInv, DaemonTypeOK
  <1>2. CASE DaemonStep
    BY <1>2, ProcessSteps, AdmitSteps, FirstFrameStep, PaymentSteps, SettleStep, HandlerSteps
       DEF DaemonStep
  <1>3. CASE BroadcasterSteps \/ (OperatorNext /\ UNCHANGED <<proxyVars, daemonVars>>)
    BY <1>3, OperatorSteps DEF BroadcasterSteps
  <1>4. CASE /\ Alive
             /\ \/ Arrives \/ Signal \/ OrganizationModified
                \/ ProxyEnvironment /\ UNCHANGED <<broadcastVars, daemonVars>>
    <2>1. CASE Arrives
      BY <1>4, <2>1, AdmitSteps
    <2>2. CASE Signal \/ OrganizationModified
      BY <1>4, <2>2, ProcessSteps
    <2>3. CASE ProxyEnvironment /\ UNCHANGED <<broadcastVars, daemonVars>>
      BY <2>3, HandlerSteps
    <2>4. QED
      BY <1>4, <2>1, <2>2, <2>3
  <1>5. QED
    BY <1>1, <1>2, <1>3, <1>4 DEF DaemonNext

-----------------------------------------------------------------------------
(***************************************************************************)
(* The theorems.                                                           *)
(***************************************************************************)

(* The inductive invariant holds in every state of the daemon.             *)
THEOREM DaemonInductive == DaemonSpec => []DaemonInv
  <1>1. DaemonInv /\ [DaemonNext]_vars => DaemonInv'
    BY NextDaemonInv
  <1>2. QED
    BY InitDaemonInv, <1>1, PTL DEF DaemonSpec

(* The state of the daemon, of the handler of the call and of the          *)
(* broadcaster has the types that serve.go, grpc.go and                    *)
(* broadcast_message.go give it: above all, no payment is settled twice,   *)
(* and neither channel of the broadcaster ever holds two commands.         *)
THEOREM DaemonTypes == DaemonSpec => []DaemonTypeOK
  <1>1. DaemonInv => DaemonTypeOK
    BY DEF DaemonInv
  <1>2. QED
    BY DaemonInductive, <1>1, PTL

(* The deferred function of the interceptors settles a payment once, with  *)
(* Complete exactly when the handler returned no error, and leaves none    *)
(* open, whichever way the handler ended.                                  *)
THEOREM EveryPaymentIsSettledOnce == DaemonSpec => []SettledOnce
  <1>1. DaemonInv => SettledOnce
    <2> SUFFICES ASSUME DaemonInv PROVE SettledOnce
      OBVIOUS
    <2>1. CallInv /\ main.result \in {"none", "ok", "error", "panic"}
      BY DEF DaemonInv, DaemonTypeOK, ProxyTypeOK, Results
    <2>2. QED
      BY <2>1 DEF CallInv, SettledOnce, Settlement
  <1>2. QED
    BY DaemonInductive, <1>1, PTL

(* A payment finds the storage open when it is settled: stop waits for the *)
(* calls before Close, and only the listener of the organization's         *)
(* metadata closes the storage of a daemon that serves.                    *)
THEOREM PaymentsFindTheStorage == DaemonSpec => []SettledOnOpenStorage
  <1>1. DaemonInv => SettledOnOpenStorage
    BY DEF DaemonInv, StorageInv
  <1>2. QED
    BY DaemonInductive, <1>1, PTL

(* InitComponents, start, stop and Close open and close the storage around *)
(* every call and the embedded server around the storage, at whatever      *)
(* point a component could not be created or a signal came.                *)
THEOREM StorageOutlivesCalls == DaemonSpec => []StorageLifetime
  <1>1. DaemonInv => StorageLifetime
    BY DEF DaemonInv, StorageInv
  <1>2. QED
    BY DaemonInductive, <1>1, PTL

(* grpcToGRPC and the one-frame handlers pass on the client's frames and   *)
(* the service's in their order, none twice and none left out, for streams *)
(* of any length, the frame that NewWrapperServerStream has read ahead     *)
(* included.                                                               *)
THEOREM FramesKeepTheirOrder == DaemonSpec => []FramesInOrder
  <1>1. DaemonInv => FramesInOrder
    <2> SUFFICES ASSUME DaemonInv PROVE FramesInOrder
      OBVIOUS
    <2>1. ProxyTypeOK /\ UpInv /\ DownInv
      BY DEF DaemonInv, DaemonTypeOK
    <2>2. /\ client.sent \in Nat /\ client.got \in Seq(Nat) /\ Len(client.got) \in Nat
          /\ service.sent \in Nat /\ service.got \in Seq(Nat) /\ Len(service.got) \in Nat
          /\ Len(client.queue) \in Nat /\ Len(service.queue) \in Nat
      BY <2>1, ProxyTypes
    <2>3. Counts(service.got) /\ Len(service.got) <= client.sent
      BY <2>1, <2>2 DEF UpInv, Taken
    <2>4. Counts(client.got) /\ Len(client.got) <= service.sent
      BY <2>1, <2>2 DEF DownInv, Drawn
    <2>5. /\ IsPrefix(service.got, Frames(client.sent))
          /\ IsPrefix(client.got, Frames(service.sent))
      BY <2>2, <2>3, <2>4, CountsIsPrefix
    <2>6. QED
      BY <2>5 DEF FramesInOrder
  <1>2. QED
    BY DaemonInductive, <1>1, PTL

(* A call that the handler reports as good, and that is then paid for, was *)
(* ended as good by the service, and its whole answer has reached the      *)
(* client, in whatever order the goroutines of grpcToGRPC ended.           *)
THEOREM GoodCallsAreComplete == DaemonSpec => []OkMeansComplete
  <1>1. DaemonInv => OkMeansComplete
    <2> SUFFICES ASSUME DaemonInv, main.result = "ok"
                 PROVE  /\ service.status = "ok"
                        /\ kind # "unary" => client.got = Frames(service.sent)
      BY DEF OkMeansComplete
    <2>1. ProxyTypeOK /\ DownInv
      BY DEF DaemonInv, DaemonTypeOK
    <2>2. client.got \in Seq(Nat) /\ service.sent \in Nat
      BY <2>1, ProxyTypes
    <2>3. /\ Counts(client.got) /\ service.status = "ok"
          /\ kind # "unary" => Len(client.got) = service.sent
      BY <2>1 DEF DownInv
    <2>4. QED
      BY <2>2, <2>3, CountsIsPrefix
  <1>2. QED
    BY DaemonInductive, <1>1, PTL

(* The loop of grpcToGRPC takes at most one end from each of its two       *)
(* channels, so it never falls through to the error after it.              *)
THEOREM LoopAlwaysReturns == DaemonSpec => []NeverReached
  <1>1. DaemonInv => NeverReached
    BY DEF DaemonInv, SelectInv
  <1>2. QED
    BY DaemonInductive, <1>1, PTL

-----------------------------------------------------------------------------
(***************************************************************************)
(* The operators' commands: what EventuallyObeyed rests on.                *)
(***************************************************************************)

(* A command that the daemon may go by: the one it starts with, or one     *)
(* whose call was authenticated and answered.                              *)
Given(command) ==
    \/ command = StartProcessingAnyRequest
    \/ \E o \in Operators : operator[o].at = "replied" /\ operator[o].command = command

(* The youngest command between the trigger channel and the interceptor.   *)
Youngest ==
    IF trigger # <<>> THEN trigger[1]
    ELSE IF publisher # Nothing THEN publisher
    ELSE IF notification # <<>> THEN notification[1] ELSE processRequest

CommandInv ==
    /\ Youngest = lastCommand
    /\ trigger # <<>> => Given(trigger[1])
    /\ publisher # Nothing => Given(publisher)
    /\ notification # <<>> => Given(notification[1])
    /\ Given(processRequest)

(* With no command under way the interceptor goes by the last one whose    *)
(* call was answered, and it never stops the processing of requests unless *)
(* an authenticated operator asked for that.                               *)
FlagIsCommanded ==
    /\ (trigger = <<>> /\ publisher = Nothing /\ notification = <<>>) =>
         processRequest = lastCommand
    /\ processRequest = StopProcessingAnyRequest =>
         \E o \in Operators :
           operator[o].at = "replied" /\ operator[o].command = StopProcessingAnyRequest

(* Only the operators and the broadcaster touch the commands.              *)
LEMMA CommandSteps ==
    ASSUME [DaemonNext]_vars
    PROVE  UNCHANGED broadcastVars \/ BroadcastStep \/ OperatorNext
  <1>1. CASE UNCHANGED vars
    BY <1>1 DEF vars
  <1>2. CASE DaemonStep
    BY <1>2 DEF DaemonStep, InitComponents, EtcdServer, newDaemon, start, startServices, intercept,
       getGrpcContext, NewWrapperServerStream, streamIntercept, unaryIntercept, Settle, stop,
       Close, Elsewhere
  <1>3. CASE BroadcasterSteps \/ OperatorNext
    BY <1>3 DEF BroadcasterSteps
  <1>4. CASE \/ Arrives \/ Signal \/ OrganizationModified
             \/ UNCHANGED <<broadcastVars, daemonVars>>
    BY <1>4 DEF Arrives, Signal, OrganizationModified, Elsewhere
  <1>5. QED
    BY <1>1, <1>2, <1>3, <1>4 DEF DaemonNext

(* A command that was given stays so: no call is made or answered twice.   *)
LEMMA GivenStays ==
    ASSUME BroadcastTypeOK, BroadcastStep \/ OperatorNext, NEW command, Given(command)
    PROVE  Given(command)'
  <1>1. ASSUME NEW o \in Operators, operator[o].at = "replied"
        PROVE  operator'[o] = operator[o]
    <2>1. CASE operator' = operator
      BY <2>1
    <2>2. ASSUME NEW q \in Operators, OperatorSends(q)
          PROVE  operator'[o] = operator[o]
      BY <1>1, <2>2 DEF OperatorSends, BroadcastTypeOK
    <2>3. ASSUME NEW q \in Operators, NEW c \in ProcessingCommands,
                 NEW signature \in Signatures, OperatorCalls(q, c, signature)
          PROVE  operator'[o] = operator[o]
      BY <1>1, <2>3 DEF OperatorCalls, BroadcastTypeOK
    <2>4. QED
      BY <2>1, <2>2, <2>3 DEF BroadcastStep, OperatorNext, PublishTakes, PublishSends,
         startOrStopProcessingAnyRequests
  <1>2. QED
    BY <1>1 DEF Given

LEMMA CommandInvKept ==
    ASSUME BroadcastTypeOK, CommandInv, UNCHANGED broadcastVars \/ BroadcastStep \/ OperatorNext
    PROVE  CommandInv'
  <1>1. CASE UNCHANGED broadcastVars
    BY <1>1 DEF broadcastVars, CommandInv, Youngest, Given
  <1>2. ASSUME BroadcastStep \/ OperatorNext, NEW command, Given(command)
        PROVE  Given(command)'
    BY <1>2, GivenStays
  <1>3. CASE PublishTakes
    <2>1. /\ publisher = Nothing /\ trigger # <<>> /\ publisher' = trigger[1]
          /\ trigger' = <<>> /\ UNCHANGED <<operator, notification, processRequest, lastCommand>>
      BY <1>3 DEF PublishTakes, BroadcastTypeOK
    <2>2. trigger[1] # Nothing
      BY <2>1 DEF BroadcastTypeOK, ProcessingCommands, StopProcessingAnyRequest,
         StartProcessingAnyRequest, Nothing
    <2>3. QED
      BY <2>1, <2>2 DEF CommandInv, Youngest, Given
  <1>4. CASE PublishSends
    <2>1. notification'[1] = publisher /\ notification' # <<>>
      BY <1>4 DEF PublishSends
    <2>2. QED
      BY <1>4, <2>1 DEF PublishSends, CommandInv, Youngest, Given
  <1>5. CASE startOrStopProcessingAnyRequests
    <2>1. /\ notification # <<>> /\ processRequest' = notification[1] /\ notification' = <<>>
          /\ UNCHANGED <<operator, trigger, publisher, lastCommand>>
      BY <1>5 DEF startOrStopProcessingAnyRequests, BroadcastTypeOK
    <2>2. QED
      BY <2>1 DEF CommandInv, Youngest, Given
  <1>6. ASSUME NEW o \in Operators, OperatorSends(o)
        PROVE  CommandInv'
    <2>1. /\ trigger' # <<>> /\ trigger'[1] = operator[o].command
          /\ lastCommand' = operator[o].command
          /\ UNCHANGED <<publisher, notification, processRequest>>
      BY <1>6 DEF OperatorSends
    <2>2. operator'[o].at = "replied" /\ operator'[o].command = operator[o].command
      BY <1>6 DEF OperatorSends, BroadcastTypeOK
    <2>3. Given(trigger[1])'
      BY <2>1, <2>2 DEF Given
    <2>4. \A command : Given(command) => Given(command)'
      BY <1>2, <1>6 DEF BroadcastStep
    <2>5. Given(processRequest)' /\ (publisher # Nothing => Given(publisher))'
      BY <2>1, <2>4 DEF CommandInv, Given
    <2>6. (notification # <<>> => Given(notification[1]))'
      BY <2>1, <2>4 DEF CommandInv, Given
    <2>7. QED
      BY <2>1, <2>3, <2>5, <2>6 DEF CommandInv, Youngest
  <1>7. CASE OperatorNext
    <2>1. UNCHANGED <<trigger, publisher, notification, processRequest, lastCommand>>
      BY <1>7 DEF OperatorNext, OperatorCalls
    <2>2. \A command : Given(command) => Given(command)'
      BY <1>2, <1>7
    <2>3. Given(processRequest)' /\ (publisher # Nothing => Given(publisher))'
      BY <2>1, <2>2 DEF CommandInv, Given
    <2>4. (notification # <<>> => Given(notification[1]))'
      BY <2>1, <2>2 DEF CommandInv, Given
    <2>5. (trigger # <<>> => Given(trigger[1]))'
      BY <2>1, <2>2 DEF CommandInv, Given
    <2>6. QED
      BY <2>1, <2>3, <2>4, <2>5 DEF CommandInv, Youngest
  <1>8. QED
    BY <1>1, <1>3, <1>4, <1>5, <1>6, <1>7 DEF BroadcastStep

(* The commands of configuration_service.go go through both channels of    *)
(* broadcast_message.go in their order and none is lost, so that the       *)
(* interceptor is left with the last one; and a call that authenticate     *)
(* refused never stops the daemon.                                         *)
THEOREM CommandsReachTheInterceptor == DaemonSpec => []FlagIsCommanded
  <1>1. DaemonInit => CommandInv
    BY DEF DaemonInit, BroadcastInit, CommandInv, Youngest, Given
  <1>2. ASSUME DaemonInv, CommandInv, [DaemonNext]_vars
        PROVE  CommandInv'
    BY <1>2, CommandSteps, CommandInvKept DEF DaemonInv, DaemonTypeOK
  <1>3. DaemonInv /\ CommandInv => FlagIsCommanded
    BY DEF CommandInv, FlagIsCommanded, Youngest, Given, StopProcessingAnyRequest,
       StartProcessingAnyRequest
  <1>4. QED
    BY DaemonInductive, <1>1, <1>2, <1>3, PTL DEF DaemonSpec

=============================================================================
