--------------------------- MODULE AtomicStorage ---------------------------
(***************************************************************************)
(* What the callers of the interface AtomicStorage (atomic_storage.go) can *)
(* rely on: an operation takes effect on all its keys at once, at one      *)
(* moment between its call and its answer.                                 *)
(*                                                                         *)
(*   - an answer "ok" says the effect took place, on the values stored     *)
(*     at that moment;                                                     *)
(*   - an answer "no" says that nothing was changed.  A transaction that   *)
(*     is retried may only be refused because its update function refused  *)
(*     values that were really stored during the call, and PutIfAbsent     *)
(*     because its key was there.  A CompareAndSwap may also be refused    *)
(*     when another operation wrote its key during the call;               *)
(*   - after an error the caller knows nothing: the operation took effect, *)
(*     or it still may, once, or it never will.                            *)
(*                                                                         *)
(* For CompareAndSwap this is less than the interface says: "If err is nil *)
(* and ok is false, then the operation failed because prevValue is not     *)
(* equal to the current value" (atomic_storage.go:22-24).  EtcdClient      *)
(* reads the value, compares it itself, and lets etcd compare revisions,   *)
(* once (etcddb_client.go:286, :388): a Put that stores the same value     *)
(* again in between makes it answer false although the key had the value   *)
(* prevValue all the time.                                                 *)
(***************************************************************************)
EXTENDS StorageRequests

VARIABLES
    data,    \* the stored values
    call,    \* per client: its request, how far it is, and the answer
    late,    \* requests given up by their callers that may still take effect
    reasons  \* per client: what happened during the call that may refuse it

atomicVars == <<data, call, late, reasons>>

AtomicInit ==
    /\ data = [k \in Keys |-> Absent]
    /\ call = [c \in Clients |-> NoCall]
    /\ late = {}
    /\ reasons = [c \in Clients |-> {}]

Call(c, r) ==
    /\ call[c].status = "answered"
    /\ call' = [call EXCEPT ![c] = [req |-> r, status |-> "pending",
                                    answer |-> Says("none")]]
    /\ reasons' = [reasons EXCEPT ![c] = IF Accepts(r, data) THEN {} ELSE {"refused"}]
    /\ UNCHANGED <<data, late>>

TakeEffect(c) ==
    LET r == call[c].req
    IN  /\ call[c].status = "pending" /\ Accepts(r, data)
        /\ data' = Overwrite(data, Writes(r, data))
        /\ call' = [call EXCEPT ![c] = [@ EXCEPT !.status = "decided",
                                                 !.answer = Result(r, data)]]
        /\ reasons' = Reasons(reasons, call, data', DOMAIN Writes(r, data))
        /\ UNCHANGED late

Refuse(c) ==
    /\ call[c].status = "pending"
    /\ "refused" \in reasons[c] \/ (call[c].req.kind = "cas" /\ "disturbed" \in reasons[c])
    /\ \E s \in {"decided", "answered"} :
         call' = [call EXCEPT ![c] = [@ EXCEPT !.status = s, !.answer = Says("no")]]
    /\ UNCHANGED <<data, late, reasons>>

Answer(c) ==
    /\ call[c].status = "decided"
    /\ call' = [call EXCEPT ![c].status = "answered"]
    /\ UNCHANGED <<data, late, reasons>>

Fail(c) ==
    /\ call[c].status \in {"pending", "decided"}
    /\ call' = [call EXCEPT ![c] = [@ EXCEPT !.status = "answered", !.answer = Says("error")]]
    /\ \/ UNCHANGED late
       \/ call[c].status = "pending" /\ late' = late \cup {call[c].req}
    /\ UNCHANGED <<data, reasons>>

LateEffect(r) ==
    /\ late' = late \ {r}
    /\ UNCHANGED call
    /\ \/ /\ Accepts(r, data)
          /\ data' = Overwrite(data, Writes(r, data))
          /\ reasons' = Reasons(reasons, call, data', DOMAIN Writes(r, data))
       \/ UNCHANGED <<data, reasons>>

AtomicNext ==
    \/ \E c \in Clients : TakeEffect(c) \/ Refuse(c) \/ Answer(c) \/ Fail(c)
    \/ \E r \in late : LateEffect(r)
    \/ \E c \in Clients, id \in 0..MaxCalls : \E r \in Requests(id) : Call(c, r)

AtomicSpec == AtomicInit /\ [][AtomicNext]_atomicVars
=============================================================================
