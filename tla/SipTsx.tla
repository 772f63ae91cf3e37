------------------------------- MODULE SipTsx -------------------------------
(***************************************************************************)
(* One SIP transaction (sip_transaction.c), client or server, INVITE or    *)
(* not, over a reliable transport or not, from its creation to its         *)
(* unregistration, with the stateful helper's once-only callback.          *)
(*                                                                         *)
(* Every handler runs under the group lock and is one step; what runs      *)
(* outside that lock (a timer popped from the heap whose callback has not  *)
(* started, the posted transport error of ticket 1646, which is reported   *)
(* with the helper's test of its data and its call apart) is split.  The   *)
(* network loses, repeats and reorders: any message the peer could have    *)
(* sent may arrive at any time.  The user of the transaction acts between  *)
(* handlers, not from inside its on_tsx_state.                             *)
(*                                                                         *)
(* A definition named D_error is D with a mistake a maintainer could make; *)
(* no specification uses it, it shows which property notices the mistake.  *)
(***************************************************************************)
EXTENDS Naturals, FiniteSets

CONSTANT Workers   \* the threads that poll timers and sockets
ASSUME WorkersAssumption == Workers # {}

VARIABLES
  role,    \* tsx->role: "uac" or "uas"
  invite,  \* tsx->method.id is PJSIP_INVITE_METHOD
  tx,      \* the transaction, see Tx
  pc       \* what each worker does with a timer it popped

vars == <<role, invite, tx, pc>>

States == {"null", "calling", "trying", "proceeding", "completed",
           "confirmed", "terminated", "destroyed"}

Rank == [s \in States |->
  CASE s = "null" -> 0 [] s = "calling" -> 1 [] s = "trying" -> 2
    [] s = "proceeding" -> 3 [] s = "completed" -> 4 [] s = "confirmed" -> 5
    [] s = "terminated" -> 6 [] s = "destroyed" -> 7]

Finals == {"success", "failure", "timeout", "transport", "stopped"}
Codes == {"none", "provisional"} \cup Finals
Over(t) == Rank[t.st] >= Rank["terminated"]

Tx == [st : States,          \* state
       code : Codes,         \* status_code, by class and origin
       rt : BOOLEAN,         \* retransmit_timer is in the heap
       to : BOOLEAN,         \* timeout_timer is in the heap
       id : {"inactive", "timeout", "error"},       \* timeout_timer.id
       pend : BOOLEAN,       \* TSX_HAS_PENDING_TRANSPORT
       send : BOOLEAN,       \* TSX_HAS_PENDING_SEND
       resched : BOOLEAN,    \* TSX_HAS_PENDING_RESCHED
       resolved : BOOLEAN,   \* TSX_HAS_RESOLVED_SERVER
       tp : BOOLEAN,         \* transport is set, with its state listener
       reliable : BOOLEAN,   \* is_reliable
       last : BOOLEAN,       \* last_tx is set
       op : {"none", "transport", "lookup", "orphan"},  \* the send under way
       sent : BOOLEAN,       \* the network has the request, or the last response
       told : States,        \* the state the user was last told
       answer : Finals \cup {"none", "twice"}]  \* the answer it was given

PCs == {"idle", "retransmit", "popped", "timeout", "error", "notify", "hear",
        "sched"}

Init ==
  /\ role \in {"uac", "uas"}
  /\ invite \in BOOLEAN
  /\ tx \in [st : {"null"}, code : {"none"}, rt : {FALSE}, to : {FALSE},
             id : {"inactive"}, pend : {FALSE}, send : {FALSE},
             resched : {FALSE}, resolved : {FALSE}, tp : {role = "uas"},
             reliable : BOOLEAN, last : {FALSE}, op : {"none"},
             sent : {FALSE}, told : {"null"}, answer : {"none"}]
  /\ pc = [w \in Workers |-> "idle"]

-----------------------------------------------------------------------------
(* Timers.  Scheduling a timer that is in the heap is refused.             *)

CancelTimeout(t) == [t EXCEPT !.to = FALSE, !.id = "inactive"]
CancelRetransmit(t) == [t EXCEPT !.rt = FALSE]
Schedule(t, id) == IF t.to THEN t ELSE [t EXCEPT !.to = TRUE, !.id = id]
Restart(t, id) == Schedule(CancelTimeout(t), id)

(* Telling the user.  The helper calls the sender of a request back when   *)
(* there is a final code and its data is still there; it forgets the data   *)
(* at the same time.  Under the group lock this is one step.                *)
Wanted(t) == role = "uac" /\ t.code \in Finals /\ t.answer = "none"
Hear(t) == [t EXCEPT !.answer = IF @ = "none" THEN t.code ELSE "twice"]

Notify_error(t) ==
  LET u == [t EXCEPT !.told = t.st] IN
  IF role = "uac" /\ t.code \in Finals THEN Hear(u) ELSE u
Notify_anyCode(t) ==
  LET u == [t EXCEPT !.told = t.st] IN
  IF role = "uac" /\ t.answer = "none" THEN Hear(u) ELSE u
Notify(t) ==
  LET u == [t EXCEPT !.told = t.st] IN IF Wanted(t) THEN Hear(u) ELSE u

(* What tsx_set_state does beside telling. *)
Enter(t, s) ==
  CASE s = "terminated" ->
         [CancelTimeout(t) EXCEPT
            !.st = s, !.pend = FALSE,
            !.op = IF t.pend /\ @ = "lookup" THEN "orphan" ELSE @]
    [] s = "destroyed" ->
         [CancelRetransmit(CancelTimeout(t)) EXCEPT
            !.st = s, !.tp = FALSE, !.last = FALSE,
            !.resched = FALSE, !.send = FALSE]
    [] OTHER -> [t EXCEPT !.st = s]

SetState(t, s) ==
  LET told == Notify([t EXCEPT !.st = s]) IN
  IF s = "terminated" THEN Schedule(Enter(told, s), "timeout")
                      ELSE Enter(told, s)

End(t, code) == SetState([t EXCEPT !.code = code], "terminated")

-----------------------------------------------------------------------------
(* Sending.  Each operator is the set of transactions a send may leave; a  *)
(* send that fails leaves it terminated, and the caller then returns.      *)

Sent(t) == [t EXCEPT !.sent = TRUE]
Later(t, op) == [t EXCEPT !.pend = TRUE, !.op = op]
NowBound(t) == {Sent(t), Sent(Later(t, "transport"))}

(* Over a transport a lookup has just given. *)
SendResolved(t) ==
  IF t.pend THEN {[t EXCEPT !.send = TRUE]}
  ELSE NowBound(t) \cup {End([t EXCEPT !.tp = FALSE], "transport")}

(* send_msg_callback with sent > 0.  Only a request can be moved to a      *)
(* reliable transport, for its size.                                       *)
Reschedule(t) ==
  IF t.resched /\ ~t.pend
  THEN [t EXCEPT !.resched = FALSE, !.rt = @ \/ ~t.reliable]
  ELSE t

LookupDone(t) ==
  LET bound == [t EXCEPT !.pend = FALSE, !.resolved = TRUE, !.tp = TRUE,
                         !.op = "none", !.sent = TRUE]
      rel == IF role = "uac" /\ ~t.tp THEN {t.reliable, TRUE} ELSE {t.reliable}
  IN UNION {LET u == [bound EXCEPT !.reliable = r] IN
            IF u.send /\ u.last
            THEN {Reschedule(v) : v \in SendResolved([u EXCEPT !.send = FALSE])}
            ELSE {Reschedule([u EXCEPT !.send = FALSE])} : r \in rel}

(* send_msg_callback with sent < 0 and no other address to try. *)
LookupFailed(t) ==
  End([t EXCEPT !.pend = FALSE, !.resolved = TRUE, !.op = "none"], "transport")

Lookup(t) ==
  LET u == Later(t, "lookup") IN LookupDone(u) \cup {u, LookupFailed(u)}

(* tsx_send_msg *)
SendMsg(t) ==
  LET lost == [t EXCEPT !.tp = FALSE] IN
  IF t.pend THEN {[t EXCEPT !.send = TRUE]}
  ELSE (IF t.tp THEN NowBound(t) ELSE {})
       \cup (IF t.resolved THEN {End(lost, "transport")} ELSE Lookup(lost))

(* Do F to those that were sent; a failed send ends the handler. *)
IfSent(S, F(_)) == {IF Over(t) THEN t ELSE F(t) : t \in S}

(* The retransmit timer starts now, or when the pending send completes. *)
StartRetransmit(t) ==
  IF t.pend THEN [t EXCEPT !.resched = TRUE] ELSE [t EXCEPT !.rt = TRUE]

(* tsx_retransmit *)
Retransmit(t, resched) ==
  IF (resched /\ t.rt) \/ ~t.last THEN {t}
  ELSE SendMsg(IF resched THEN StartRetransmit(t) ELSE t)

-----------------------------------------------------------------------------
(* The client.                                                             *)

(* tsx_on_state_null, role UAC *)
Ask ==
  LET Asked(t) ==
        LET u == Restart(t, "timeout") IN
        SetState(IF u.reliable THEN u ELSE StartRetransmit(u), "calling")
  IN /\ role = "uac"
     /\ tx.st = "null"
     /\ tx' \in IfSent(SendMsg([tx EXCEPT !.last = TRUE]), Asked)
     /\ UNCHANGED <<role, invite, pc>>

(* What state Calling does with a response before it is treated as in      *)
(* Proceeding.                                                             *)
LeaveCalling_error(t, c) ==
  CancelTimeout([CancelRetransmit(t) EXCEPT !.resched = FALSE])

LeaveCalling(t, c) ==
  LET u == [CancelRetransmit(t) EXCEPT !.resched = FALSE] IN
  IF c # "provisional" THEN IF u.id = "inactive" THEN u ELSE CancelTimeout(u)
  ELSE IF invite THEN CancelTimeout(u)
  ELSE [u EXCEPT !.rt = ~u.reliable]

Acknowledged(t) == Restart(SetState(t, "completed"), "timeout")

(* tsx_on_state_proceeding_uac, a response *)
TakeResponse(t, c) ==
  LET u == [t EXCEPT !.code = c]
      quiet == CancelRetransmit(CancelTimeout(u))
  IN CASE c = "provisional" -> {SetState(u, "proceeding")}
       [] c = "success" /\ invite ->
            {SetState(CancelTimeout(u), "terminated")}
       [] c = "success" /\ ~invite ->
            {SetState(Schedule(quiet, "timeout"), "completed")}
       [] c = "failure" /\ ~invite -> {Acknowledged(quiet)}
       [] c = "failure" /\ invite -> IfSent(SendMsg(quiet), Acknowledged)

FreeWorker == \E w \in Workers : pc[w] = "idle"

(* mod_tsx_layer_on_rx_response: any response, again or late, to what was  *)
(* sent.  A final one that comes again is answered by the ACK again.       *)
RxResponse(c) ==
  /\ role = "uac" /\ tx.sent /\ FreeWorker
  /\ \/ tx.st = "calling" /\ tx' \in TakeResponse(LeaveCalling(tx, c), c)
     \/ tx.st = "proceeding" /\ tx' \in TakeResponse(tx, c)
     \/ /\ tx.st = "completed" /\ invite /\ c # "provisional"
        /\ tx' \in Retransmit(tx, FALSE)
  /\ UNCHANGED <<role, invite, pc>>

(* pjsip_tsx_set_timeout, when a CANCEL is sent: under the timer lock only *)
SetTimeout ==
  /\ role = "uac" /\ invite
  /\ tx.st \in {"calling", "proceeding", "completed"}
  /\ ~(tx.code \in Finals /\ tx.id # "inactive")
  /\ tx' = Restart(tx, "timeout")
  /\ UNCHANGED <<role, invite, pc>>

-----------------------------------------------------------------------------
(* The server.                                                             *)

(* pjsip_tsx_create_uas and the request fed to tsx_on_state_null *)
Accept ==
  /\ role = "uas" /\ FreeWorker
  /\ tx.st = "null"
  /\ tx' = SetState(tx, "trying")
  /\ UNCHANGED <<role, invite, pc>>

(* tsx_on_state_proceeding_uas, a response of the user.  100 is not        *)
(* retransmitted, the other provisional responses are.                     *)
Provisional(u) ==
  LET v == SetState([u EXCEPT !.last = TRUE], "proceeding") IN
  IF invite THEN {v, StartRetransmit(CancelRetransmit(v))} ELSE {v}

Completed_error(u) ==
  LET v == Restart(CancelRetransmit(u), "timeout") IN
  SetState(IF invite /\ (u.code = "success" \/ ~u.reliable)
           THEN StartRetransmit(v) ELSE v, "completed")

Completed(u) ==
  LET v == Restart([CancelRetransmit(u) EXCEPT !.last = TRUE], "timeout") IN
  SetState(IF invite /\ (u.code = "success" \/ ~u.reliable)
           THEN StartRetransmit(v) ELSE v, "completed")

Respond(c) ==
  LET S == SendMsg([tx EXCEPT !.code = c, !.last = FALSE, !.sent = FALSE]) IN
  /\ role = "uas"
  /\ tx.st \in {"trying", "proceeding"}
  /\ tx' \in IF c = "provisional"
             THEN UNION {IF Over(u) THEN {u} ELSE Provisional(u) : u \in S}
             ELSE IfSent(S, Completed)
  /\ UNCHANGED <<role, invite, pc>>

(* The request again. *)
RxRequest ==
  /\ role = "uas" /\ FreeWorker
  /\ \/ tx.st = "proceeding" /\ tx.last /\ tx' \in SendMsg(tx)
     \/ tx.st = "completed" /\ tx' \in Retransmit(tx, FALSE)
  /\ UNCHANGED <<role, invite, pc>>

(* The ACK of a failure (the ACK of a success is another transaction). *)
Confirm_error(t) ==
  SetState(CancelRetransmit(Restart(t, "timeout")), "confirmed")
Confirm_noRestart(t) ==
  SetState([CancelRetransmit(CancelTimeout(t)) EXCEPT !.resched = FALSE],
           "confirmed")
Confirm(t) ==
  SetState([CancelRetransmit(Restart(t, "timeout")) EXCEPT !.resched = FALSE],
           "confirmed")

RxAck ==
  /\ role = "uas" /\ invite /\ FreeWorker
  /\ tx.st = "completed" /\ tx.sent /\ tx.code = "failure"
  /\ tx' = Confirm(tx)
  /\ UNCHANGED <<role, invite, pc>>

-----------------------------------------------------------------------------
(* pjsip_tsx_terminate, by the session or the dialog *)
Terminate ==
  /\ tx.st # "null" /\ ~Over(tx)
  /\ tx' = End(tx, "stopped")
  /\ UNCHANGED <<role, invite, pc>>

(* Completions of a send.  transport_callback clears the pending flag only. *)
PostError(t) == Restart(t, "error")

LookupCompletes ==
  /\ tx.op = "lookup" /\ FreeWorker
  /\ tx' \in LookupDone(tx) \cup {LookupFailed(tx)}
  /\ UNCHANGED <<role, invite, pc>>

(* Only requests have a second address to try. *)
RetryTimer_error(t) == CancelTimeout(t)
RetryTimer(t) == IF t.id # "inactive" THEN Restart(t, "timeout") ELSE t
LookupRetries ==
  /\ tx.op = "lookup" /\ role = "uac" /\ FreeWorker
  /\ tx' = RetryTimer(tx)
  /\ UNCHANGED <<role, invite, pc>>

OrphanCompletes ==
  /\ tx.op = "orphan" /\ FreeWorker
  /\ tx' = [tx EXCEPT !.op = "none"]
  /\ UNCHANGED <<role, invite, pc>>

TransportCompletes ==
  /\ tx.op = "transport" /\ FreeWorker
  /\ LET t == [tx EXCEPT !.op = "none", !.pend = FALSE] IN
     tx' \in {t, PostError(t)}
  /\ UNCHANGED <<role, invite, pc>>

(* tsx_tp_state_callback, from whichever thread notices *)
TransportLost ==
  /\ tx.tp /\ tx.st # "null"
  /\ tx' = PostError(tx)
  /\ UNCHANGED <<role, invite, pc>>

-----------------------------------------------------------------------------
(* tsx_timer_callback.  The timer is out of the heap before the callback   *)
(* reads its id or takes the lock.                                         *)

Go(w, at) == pc' = [pc EXCEPT ![w] = at] /\ UNCHANGED <<role, invite>>

PopRetransmit(w) ==
  /\ pc[w] = "idle" /\ tx.rt
  /\ tx' = CancelRetransmit(tx)
  /\ Go(w, "retransmit")

PopTimeout(w) ==
  /\ pc[w] = "idle" /\ tx.to
  /\ tx' = [tx EXCEPT !.to = FALSE]
  /\ Go(w, "popped")

ReadId(w) ==
  /\ pc[w] = "popped"
  /\ tx' = [tx EXCEPT !.id = "inactive"]
  /\ Go(w, CASE tx.id # "error" -> "timeout"
             [] tx.id = "error" /\ ~Over(tx) -> "error"
             [] OTHER -> "idle")

(* The state handlers on a retransmit timer. *)
OnRetransmit(w) ==
  /\ pc[w] = "retransmit"
  /\ tx' \in CASE tx.st \in {"calling", "proceeding"} \/
                  (tx.st = "completed" /\ role = "uas") -> Retransmit(tx, TRUE)
              [] tx.st = "terminated" -> {SetState(tx, "destroyed")}
              [] OTHER -> {tx}
  /\ Go(w, "idle")

(* And on the timeout timer.  The end of a transaction that has its answer *)
(* keeps the code. *)
Expire(t) ==
  CASE t.st = "calling" ->
         End([CancelRetransmit(t) EXCEPT !.resched = FALSE], "timeout")
    [] t.st = "proceeding" -> End(t, "timeout")
    [] t.st = "completed" ->
         End(t, IF role = "uas" /\ invite THEN "timeout" ELSE t.code)
    [] t.st = "confirmed" -> SetState(t, "terminated")
    [] t.st = "terminated" -> SetState(t, "destroyed")
    [] OTHER -> t

OnTimeout(w) ==
  /\ pc[w] = "timeout"
  /\ tx' = Expire(tx)
  /\ Go(w, "idle")

(* The posted transport error: the user is told later, without the lock,   *)
(* and only then is the destruction scheduled (ticket 1902).               *)
OnError(w) ==
  /\ pc[w] = "error"
  /\ LET t == [tx EXCEPT !.tp = FALSE,
                         !.code = IF @ \in Finals THEN @ ELSE "transport"]
     IN tx' = Enter(t, "terminated")
  /\ Go(w, "notify")

(* Without the lock, the helper's test comes before the call, for which it  *)
(* clears its data too late if another thread's notification came between.  *)
NotifyError(w) ==
  /\ pc[w] = "notify"
  /\ tx' = [tx EXCEPT !.told = tx.st]
  /\ Go(w, IF Wanted(tx) THEN "hear" ELSE "sched")

CallBack(w) ==
  /\ pc[w] = "hear"
  /\ tx' = Hear(tx)
  /\ Go(w, "sched")

ScheduleDestroy(w) ==
  /\ pc[w] = "sched"
  /\ tx' = Schedule(tx, "timeout")
  /\ Go(w, "idle")

-----------------------------------------------------------------------------
Client == Ask \/ (\E c \in {"provisional", "success", "failure"} : RxResponse(c))
          \/ SetTimeout
Server == Accept \/ RxRequest \/ RxAck
          \/ (\E c \in {"provisional", "success", "failure"} : Respond(c))
Completion == LookupCompletes \/ LookupRetries \/ OrphanCompletes
              \/ TransportCompletes
Callback(w) == ReadId(w) \/ OnRetransmit(w) \/ OnTimeout(w) \/ OnError(w)
               \/ NotifyError(w) \/ CallBack(w) \/ ScheduleDestroy(w)
Timer(w) == PopRetransmit(w) \/ PopTimeout(w) \/ Callback(w)

Next == Client \/ Server \/ Terminate \/ Completion \/ TransportLost
        \/ \E w \in Workers : Timer(w)

Spec == Init /\ [][Next]_vars

(* A callback that started ends, and a timer that stays in the heap, or is *)
(* put there again and again, is one day the earliest and popped.          *)
Fairness == \A w \in Workers : WF_vars(Callback(w)) /\ SF_vars(PopTimeout(w))

FairSpec == Spec /\ Fairness

-----------------------------------------------------------------------------
(* Each variable has its type. *)
TypeOK ==
  /\ role \in {"uac", "uas"}
  /\ invite \in BOOLEAN
  /\ tx \in Tx
  /\ pc \in [Workers -> PCs]

(* A transaction that waits for something that may never come has a timer  *)
(* to end it, in the heap or in the hands of a worker: no cancel is left   *)
(* without its schedule.                                                   *)
Waits == \/ tx.st \in {"calling", "completed", "confirmed"}
         \/ tx.st = "proceeding" /\ role = "uac" /\ ~invite
NotForgotten == Waits => tx.to \/ \E w \in Workers : pc[w] \notin {"idle", "retransmit"}

(* What tsx_retransmit and the server's handlers assert: there is a last   *)
(* message to send again.                                                  *)
LastMessageKept ==
  tx.st \in {"calling", "proceeding", "completed", "confirmed"} => tx.last

(* A transaction that needs no more retransmission has none under way: the *)
(* ACK or the final response stopped the timer and the flag that would     *)
(* start it once a pending send completes.                                 *)
QuietAfterAnswer ==
  (tx.st = "confirmed" \/ (tx.st = "completed" /\ role = "uac"))
     => ~tx.rt /\ ~(tx.resched /\ tx.op = "lookup")

(* With one worker, the user hears of the states in their order, and of    *)
(* the destruction only after the termination (ticket 1902).               *)
ToldInOrder ==
  [][/\ Rank[tx'.told] >= Rank[tx.told]
     /\ tx'.told = "destroyed" => tx.told \in {"terminated", "destroyed"}]_vars

OA == INSTANCE OneAnswer WITH
  Answers <- Finals, NoAnswer <- "none",
  asked <- role = "uac" /\ tx.st # "null", answer <- tx.answer

(* With one worker, the sender of a request hears at most one final        *)
(* answer, and none it did not ask for.                                    *)
ImplementsOneAnswer == OA!Spec

(* Every request that is not an INVITE is answered, at worst by 408 or 503: *)
(* what pjsip_regc relies on.                                              *)
AskedIsAnswered ==
  (role = "uac" /\ ~invite /\ tx.st = "calling") ~> (tx.answer # "none")

(* A completed or confirmed transaction ends. *)
CompletedEnds == (tx.st \in {"completed", "confirmed"}) ~> Over(tx)

(* A terminated transaction is about to be destroyed: the zero timer that  *)
(* does it is in the heap or with a worker.                                *)
TerminatedIsDestroyed ==
  tx.st = "terminated" => tx.to \/ \E w \in Workers : pc[w] # "idle"
=============================================================================
