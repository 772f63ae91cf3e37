---------------------------- MODULE SipTsx_proofs ----------------------------
(***************************************************************************)
(* Theorems about SipTsx for any number of worker threads.                 *)
(***************************************************************************)
EXTENDS SipTsx, TLAPS

(* What the user hears under the group lock: once, for a client, a final    *)
(* answer after none (tsx_set_state calling the helper's callback).         *)
Heard(t, u) == \/ u.answer = t.answer
               \/ role = "uac" /\ t.answer = "none" /\ u.answer \in Finals

(* Two values of the transaction that agree on what a helper leaves alone:  *)
(* the state, the last message and the answer; the send under way and the   *)
(* transport; the resending; the timeout timer.                             *)
SameUser(t, u) == u.st = t.st /\ u.last = t.last /\ u.answer = t.answer
SameLink(t, u) == u.op = t.op /\ u.resolved = t.resolved /\ u.tp = t.tp /\ u.sent = t.sent
SameResend(t, u) == u.rt = t.rt /\ u.resched = t.resched
SameTimeout(t, u) == u.to = t.to /\ u.id = t.id

(* Telling the user touches what the user was told and its answer, nothing  *)
(* else.                                                                    *)
LEMMA NotifyFacts ==
  ASSUME NEW t \in Tx
  PROVE  /\ Notify(t) \in Tx
         /\ Heard(t, Notify(t))
         /\ Notify(t).st = t.st /\ Notify(t).last = t.last
         /\ SameLink(t, Notify(t)) /\ SameResend(t, Notify(t)) /\ SameTimeout(t, Notify(t))
<1> DEFINE u == [t EXCEPT !.told = t.st]
<1>1. /\ u \in Tx /\ u.answer = t.answer /\ u.code = t.code /\ u.st = t.st /\ u.last = t.last
      /\ SameLink(t, u) /\ SameResend(t, u) /\ SameTimeout(t, u)
  BY DEF Tx, SameLink, SameResend, SameTimeout
<1>2. Notify(t) = IF Wanted(t) THEN Hear(u) ELSE u
  BY DEF Notify
<1> HIDE DEF u
<1>3. CASE Wanted(t)
  <2>1. Hear(u) = [u EXCEPT !.answer = t.code] /\ t.code \in Finals
    BY <1>1, <1>3 DEF Wanted, Hear
  <2>2. Hear(u) \in Tx
    BY <1>1, <2>1 DEF Tx
  <2>3. /\ Hear(u).answer = t.code /\ Hear(u).st = u.st /\ Hear(u).last = u.last
        /\ SameLink(u, Hear(u)) /\ SameResend(u, Hear(u)) /\ SameTimeout(u, Hear(u))
    BY <1>1, <2>1 DEF Tx, SameLink, SameResend, SameTimeout
  <2> QED
    BY <1>1, <1>2, <1>3, <2>1, <2>2, <2>3
       DEF Wanted, Heard, SameLink, SameResend, SameTimeout
<1>4. CASE ~Wanted(t)
  BY <1>1, <1>2, <1>4 DEF Heard
<1> QED
  BY <1>3, <1>4

(* Cancelling a timer touches that timer only. *)
LEMMA CancelFacts ==
  ASSUME NEW t \in Tx
  PROVE  /\ CancelTimeout(t) \in Tx
         /\ CancelRetransmit(t) \in Tx
         /\ SameUser(t, CancelTimeout(t))
         /\ SameUser(t, CancelRetransmit(t))
         /\ SameLink(t, CancelTimeout(t))
         /\ SameLink(t, CancelRetransmit(t))
         /\ SameResend(t, CancelTimeout(t))
         /\ SameTimeout(t, CancelRetransmit(t))
         /\ ~CancelRetransmit(t).rt /\ CancelRetransmit(t).resched = t.resched
BY DEF CancelTimeout, CancelRetransmit, Tx, SameUser, SameLink, SameResend, SameTimeout

(* Scheduling the timeout leaves it in the heap, whether it was refused or  *)
(* not.                                                                     *)
LEMMA ScheduleFacts ==
  ASSUME NEW t \in Tx, NEW id \in {"timeout", "error"}
  PROVE  /\ Schedule(t, id) \in Tx
         /\ Schedule(t, id).to
         /\ SameUser(t, Schedule(t, id))
         /\ SameLink(t, Schedule(t, id))
         /\ SameResend(t, Schedule(t, id))
<1>1. CASE t.to
  BY <1>1 DEF Schedule, SameUser, SameLink, SameResend
<1>2. CASE ~t.to
  BY <1>2 DEF Schedule, Tx, SameUser, SameLink, SameResend
<1> QED
  BY <1>1, <1>2

(* tsx_cancel_timer and tsx_schedule_timer in a row leave the timer in the  *)
(* heap.                                                                    *)
LEMMA RestartFacts ==
  ASSUME NEW t \in Tx, NEW id \in {"timeout", "error"}
  PROVE  /\ Restart(t, id) \in Tx
         /\ Restart(t, id).to
         /\ SameUser(t, Restart(t, id))
         /\ SameLink(t, Restart(t, id))
         /\ SameResend(t, Restart(t, id))
<1>1. CancelTimeout(t) \in Tx
  BY CancelFacts
<1> QED
  BY <1>1, CancelFacts, ScheduleFacts DEF Restart, SameUser, SameLink, SameResend

(* A transaction is over in its two last states. *)
LEMMA OverFacts ==
  ASSUME NEW t \in Tx
  PROVE  Over(t) <=> t.st \in {"terminated", "destroyed"}
BY DEF Over, Rank, States, Tx

(* A request is sent, and a transport bound, only once the server is        *)
(* resolved; a lookup is under way only before.                             *)
Linked(t) == /\ t.op = "lookup" => ~t.resolved
             /\ t.sent => t.resolved
             /\ t.tp => t.resolved

(* The states tsx_set_state enters without ending anything. *)
Open == States \ {"terminated", "destroyed"}

(* tsx_set_state to a state that ends nothing changes the state and tells. *)
LEMMA SetOpenFacts ==
  ASSUME NEW t \in Tx, NEW s \in Open
  PROVE  LET u == SetState(t, s) IN
         /\ u \in Tx /\ u.st = s /\ u.last = t.last /\ Heard(t, u)
         /\ SameLink(t, u) /\ SameResend(t, u) /\ SameTimeout(t, u)
<1> DEFINE v == [t EXCEPT !.st = s]
           n == Notify(v)
<1>1. /\ v \in Tx /\ v.st = s /\ v.last = t.last /\ v.answer = t.answer
      /\ SameLink(t, v) /\ SameResend(t, v) /\ SameTimeout(t, v)
  BY DEF Tx, Open, SameLink, SameResend, SameTimeout
<1> HIDE DEF v
<1>2. /\ n \in Tx /\ n.last = t.last /\ Heard(t, n)
      /\ SameLink(t, n) /\ SameResend(t, n) /\ SameTimeout(t, n)
  BY <1>1, NotifyFacts DEF Heard, SameLink, SameResend, SameTimeout
<1> HIDE DEF n
<1>3. s # "terminated" /\ s # "destroyed" /\ s \in States
  BY DEF Open
<1>4. SetState(t, s) = [n EXCEPT !.st = s]
  BY <1>3 DEF SetState, Enter, n, v
<1> QED
  BY <1>2, <1>3, <1>4 DEF Tx, Heard, SameLink, SameResend, SameTimeout

(* tsx_set_state's own work on entering one of the last two states: no      *)
(* answer is made up there, and a lookup under way is at most orphaned.     *)
LEMMA EnterFacts ==
  ASSUME NEW t \in Tx, NEW s \in {"terminated", "destroyed"}
  PROVE  LET u == Enter(t, s) IN
         /\ u \in Tx /\ u.st = s /\ u.answer = t.answer
         /\ t.sent = u.sent
         /\ Linked(t) => Linked(u)
<1>1. CASE s = "terminated"
  <2> DEFINE c == CancelTimeout(t)
             o == IF t.pend /\ c.op = "lookup" THEN "orphan" ELSE c.op
             u == [c EXCEPT !.st = s, !.pend = FALSE, !.op = o]
  <2>1. c \in Tx /\ SameUser(t, c) /\ SameLink(t, c)
    BY CancelFacts
  <2>2. Enter(t, s) = u
    BY <1>1 DEF Enter
  <2>3. o \in {"none", "transport", "lookup", "orphan"} /\ (o = "lookup" => t.op = "lookup")
    BY <2>1 DEF Tx, SameLink
  <2> HIDE DEF c, o
  <2>4. s \in States
    BY DEF States
  <2>5. u \in Tx
    BY <2>1, <2>3, <2>4 DEF Tx
  <2>6. u.st = s /\ u.answer = c.answer /\ u.sent = c.sent
    BY <2>1 DEF Tx
  <2>7. u.op = o /\ u.resolved = c.resolved /\ u.tp = c.tp
    BY <2>1 DEF Tx
  <2> QED
    BY <2>1, <2>2, <2>3, <2>5, <2>6, <2>7 DEF SameUser, SameLink, Linked
<1>2. CASE s = "destroyed"
  <2> DEFINE c == CancelRetransmit(CancelTimeout(t))
             u == [c EXCEPT !.st = s, !.tp = FALSE, !.last = FALSE, !.resched = FALSE,
                            !.send = FALSE]
  <2>1. c \in Tx /\ SameUser(t, c) /\ SameLink(t, c)
    <3>1. CancelTimeout(t) \in Tx
      BY CancelFacts
    <3> QED
      BY <3>1, CancelFacts DEF SameUser, SameLink
  <2>2. Enter(t, s) = u
    BY <1>2 DEF Enter
  <2> HIDE DEF c
  <2>3. s \in States
    BY DEF States
  <2>4. u \in Tx
    BY <2>1, <2>3 DEF Tx
  <2>5. u.st = s /\ u.answer = c.answer /\ u.sent = c.sent
    BY <2>1 DEF Tx
  <2>6. u.op = c.op /\ u.resolved = c.resolved /\ u.tp = FALSE
    BY <2>1 DEF Tx
  <2> QED
    BY <2>1, <2>2, <2>4, <2>5, <2>6 DEF SameUser, SameLink, Linked
<1> QED
  BY <1>1, <1>2

(* tsx_set_state to one of the last two states. *)
LEMMA SetOverFacts ==
  ASSUME NEW t \in Tx, NEW s \in {"terminated", "destroyed"}
  PROVE  LET u == SetState(t, s) IN
         /\ u \in Tx /\ u.st = s /\ Heard(t, u) /\ u.sent = t.sent
         /\ Linked(t) => Linked(u)
<1> DEFINE v == [t EXCEPT !.st = s]
           n == Notify(v)
           e == Enter(n, s)
<1>1. v \in Tx /\ v.answer = t.answer /\ SameLink(t, v)
  BY DEF Tx, States, SameLink
<1> HIDE DEF v
<1>2. n \in Tx /\ Heard(t, n) /\ SameLink(t, n)
  BY <1>1, NotifyFacts DEF Heard, SameLink
<1> HIDE DEF n
<1>3. e \in Tx /\ e.st = s /\ Heard(t, e) /\ e.sent = t.sent /\ (Linked(t) => Linked(e))
  BY <1>2, EnterFacts DEF Heard, SameLink, Linked
<1> HIDE DEF e
<1>4. SetState(t, s) = IF s = "terminated" THEN Schedule(e, "timeout") ELSE e
  BY DEF SetState, e, n, v
<1>5. CASE s = "terminated"
  BY <1>3, <1>4, <1>5, ScheduleFacts DEF SameUser, SameLink, Linked, Heard
<1>6. CASE s # "terminated"
  BY <1>3, <1>4, <1>6
<1> QED
  BY <1>5, <1>6

(* A status code and then tsx_set_state to Terminated, as the error paths   *)
(* do.                                                                      *)
LEMMA EndFacts ==
  ASSUME NEW t \in Tx, NEW code \in Codes
  PROVE  LET u == End(t, code) IN
         /\ u \in Tx /\ u.st = "terminated" /\ Heard(t, u) /\ u.sent = t.sent
         /\ Linked(t) => Linked(u)
<1> DEFINE v == [t EXCEPT !.code = code]
<1>1. v \in Tx /\ v.answer = t.answer /\ SameLink(t, v)
  BY DEF Tx, SameLink
<1> HIDE DEF v
<1>2. End(t, code) = SetState(v, "terminated")
  BY DEF End, v
<1> QED
  BY <1>1, <1>2, SetOverFacts DEF SameLink, Heard, Linked

-----------------------------------------------------------------------------
(* What a send may leave: the transaction terminated, or its state, last    *)
(* message, answer and timeout timer as they were.                          *)
Outcome(t, u) ==
  /\ u \in Tx /\ Heard(t, u)
  /\ t.sent => u.sent
  /\ role = "uac" /\ Linked(t) => Linked(u)
  /\ \/ u.st = "terminated"
     \/ SameUser(t, u) /\ SameTimeout(t, u)

(* A send over a bound transport. *)
LEMMA NowBoundFacts ==
  ASSUME NEW t \in Tx, t.tp, NEW u \in NowBound(t)
  PROVE  Outcome(t, u) /\ SameResend(t, u)
BY DEF NowBound, Sent, Later, Tx, Outcome, SameResend, SameUser, SameTimeout, Heard, Linked

(* A send over the transport a lookup gave, which may be lost at once. *)
LEMMA SendResolvedFacts ==
  ASSUME NEW t \in Tx, t.tp, NEW u \in SendResolved(t)
  PROVE  Outcome(t, u) /\ (u.st = "terminated" \/ SameResend(t, u))
<1>1. CASE t.pend
  BY <1>1 DEF SendResolved, Tx, Outcome, SameResend, SameUser, SameTimeout, Heard, Linked
<1>2. CASE ~t.pend /\ u \in NowBound(t)
  BY <1>2, NowBoundFacts
<1>3. CASE ~t.pend /\ u \notin NowBound(t)
  <2> DEFINE v == [t EXCEPT !.tp = FALSE]
  <2>1. v \in Tx /\ v.answer = t.answer /\ v.sent = t.sent /\ (Linked(t) => Linked(v))
    BY DEF Tx, Linked
  <2>2. u = End(v, "transport")
    BY <1>3 DEF SendResolved
  <2> HIDE DEF v
  <2>3. "transport" \in Codes
    BY DEF Codes, Finals
  <2> QED
    BY <2>1, <2>2, <2>3, EndFacts DEF Outcome, Heard
<1> QED
  BY <1>1, <1>2, <1>3

(* send_msg_callback starts the retransmission that waited for it: with none*)
(* waiting it changes nothing.                                              *)
LEMMA RescheduleFacts ==
  ASSUME NEW t \in Tx
  PROVE  LET u == Reschedule(t) IN
         /\ u \in Tx /\ SameUser(t, u) /\ SameTimeout(t, u) /\ SameLink(t, u)
         /\ ~t.resched => SameResend(t, u)
<1>1. CASE t.resched /\ ~t.pend
  <2> DEFINE r == t.rt \/ ~t.reliable
             u == [t EXCEPT !.resched = FALSE, !.rt = r]
  <2>1. r \in BOOLEAN
    BY DEF Tx
  <2>2. Reschedule(t) = u
    BY <1>1 DEF Reschedule
  <2> HIDE DEF r
  <2>3. u \in Tx
    BY <2>1 DEF Tx
  <2>4. SameUser(t, u) /\ SameTimeout(t, u) /\ SameLink(t, u)
    BY DEF Tx, SameUser, SameTimeout, SameLink
  <2> QED
    BY <1>1, <2>2, <2>3, <2>4
<1>2. CASE ~(t.resched /\ ~t.pend)
  BY <1>2 DEF Reschedule, SameUser, SameTimeout, SameLink, SameResend
<1> QED
  BY <1>1, <1>2

(* The transaction ended, or what is to be sent again is as it was. *)
Resent(t, u) == u.st = "terminated" \/ SameResend(t, u)

(* send_msg_callback after a success. *)
LEMMA LookupDoneFacts ==
  ASSUME NEW t \in Tx, NEW u \in LookupDone(t)
  PROVE  Outcome(t, u) /\ (~t.resched => Resent(t, u))
<1> DEFINE bound == [t EXCEPT !.pend = FALSE, !.resolved = TRUE, !.tp = TRUE,
                              !.op = "none", !.sent = TRUE]
           Base(r) == [bound EXCEPT !.reliable = r]
           Idle(r) == [Base(r) EXCEPT !.send = FALSE]
<1>1. PICK r \in {t.reliable, TRUE} :
        u \in IF Base(r).send /\ Base(r).last
              THEN {Reschedule(v) : v \in SendResolved(Idle(r))}
              ELSE {Reschedule(Idle(r))}
  BY DEF LookupDone
<1>2. PICK w \in SendResolved(Idle(r)) \cup {Idle(r)} : u = Reschedule(w)
  BY <1>1
<1>3. bound \in Tx
  BY DEF Tx
<1>4. /\ SameUser(t, bound) /\ SameTimeout(t, bound) /\ SameResend(t, bound)
      /\ bound.sent /\ bound.resolved /\ bound.tp /\ bound.op = "none"
  BY DEF Tx, SameUser, SameTimeout, SameResend
<1> HIDE DEF bound
<1>5. r \in BOOLEAN
  BY DEF Tx
<1>6. Idle(r) \in Tx
  BY <1>3, <1>5 DEF Tx
<1>7. /\ SameUser(t, Idle(r)) /\ SameTimeout(t, Idle(r)) /\ SameResend(t, Idle(r))
      /\ Idle(r).sent /\ Idle(r).resolved /\ Idle(r).tp /\ Idle(r).op = "none"
  BY <1>3, <1>4 DEF Tx, SameUser, SameTimeout, SameResend
<1> HIDE DEF Idle
<1>8. Outcome(Idle(r), w) /\ Resent(Idle(r), w)
  <2>1. CASE w = Idle(r)
    BY <1>6, <2>1 DEF Outcome, Heard, SameUser, SameTimeout, SameResend, Resent
  <2>2. CASE w \in SendResolved(Idle(r))
    BY <1>6, <1>7, <2>2, SendResolvedFacts DEF Resent
  <2> QED
    BY <1>2, <2>1, <2>2
<1>9. Outcome(t, w) /\ Resent(t, w)
  BY <1>7, <1>8 DEF Outcome, Resent, Heard, SameUser, SameTimeout, SameResend, Linked
<1>10. /\ u \in Tx /\ SameUser(w, u) /\ SameTimeout(w, u) /\ SameLink(w, u)
       /\ ~w.resched => SameResend(w, u)
  BY <1>2, <1>9, RescheduleFacts DEF Outcome
<1> QED
  BY <1>9, <1>10 DEF Outcome, Resent, Heard, SameUser, SameTimeout, SameLink, SameResend, Linked

(* send_msg_callback after the last address failed ends the transaction. *)
LEMMA LookupFailedFacts ==
  ASSUME NEW t \in Tx
  PROVE  Outcome(t, LookupFailed(t)) /\ LookupFailed(t).st = "terminated"
<1> DEFINE v == [t EXCEPT !.pend = FALSE, !.resolved = TRUE, !.op = "none"]
<1>1. v \in Tx
  BY DEF Tx
<1>2. v.answer = t.answer /\ v.sent = t.sent /\ Linked(v)
  BY DEF Tx, Linked
<1>3. LookupFailed(t) = End(v, "transport")
  BY DEF LookupFailed
<1> HIDE DEF v
<1>4. "transport" \in Codes
  BY DEF Codes, Finals
<1> QED
  BY <1>1, <1>2, <1>3, <1>4, EndFacts DEF Outcome, Heard

(* A lookup that completes within the call, or later, or fails. *)
LEMMA LookupFacts ==
  ASSUME NEW t \in Tx, ~t.resolved, NEW u \in Lookup(t)
  PROVE  Outcome(t, u) /\ (~t.resched => Resent(t, u))
<1> DEFINE v == Later(t, "lookup")
<1>1. v \in Tx
  BY DEF Later, Tx
<1>2. /\ SameUser(t, v) /\ SameTimeout(t, v) /\ SameResend(t, v)
      /\ v.sent = t.sent /\ v.resolved = t.resolved /\ v.tp = t.tp
  BY DEF Later, Tx, SameUser, SameTimeout, SameResend
<1>3. u \in LookupDone(v) \/ u = v \/ u = LookupFailed(v)
  BY DEF Lookup
<1> HIDE DEF v
<1>4. Outcome(v, u) /\ (~v.resched => Resent(v, u))
  <2>1. CASE u \in LookupDone(v)
    BY <1>1, <2>1, LookupDoneFacts
  <2>2. CASE u = v
    BY <1>1, <2>2 DEF Outcome, Resent, Heard, SameUser, SameTimeout, SameResend
  <2>3. CASE u = LookupFailed(v)
    BY <1>1, <2>3, LookupFailedFacts DEF Resent
  <2> QED
    BY <1>3, <2>1, <2>2, <2>3
<1> QED
  BY <1>2, <1>4 DEF Outcome, Resent, Heard, SameUser, SameTimeout, SameResend, Linked

(* tsx_send_msg: once the server is resolved, or with no retransmission     *)
(* waiting, it starts no resending.                                         *)
LEMMA SendMsgFacts ==
  ASSUME NEW t \in Tx, NEW u \in SendMsg(t)
  PROVE  Outcome(t, u) /\ (~t.resched \/ t.resolved => Resent(t, u))
<1> DEFINE lost == [t EXCEPT !.tp = FALSE]
<1>1. lost \in Tx
  BY DEF Tx
<1>2. /\ SameUser(t, lost) /\ SameTimeout(t, lost) /\ SameResend(t, lost)
      /\ lost.sent = t.sent /\ lost.resolved = t.resolved /\ lost.op = t.op /\ ~lost.tp
  BY DEF Tx, SameUser, SameTimeout, SameResend
<1>3. \/ u = [t EXCEPT !.send = TRUE]
      \/ t.tp /\ u \in NowBound(t)
      \/ t.resolved /\ u = End(lost, "transport")
      \/ ~t.resolved /\ u \in Lookup(lost)
  BY DEF SendMsg
<1> HIDE DEF lost
<1>4. CASE u = [t EXCEPT !.send = TRUE]
  BY <1>4 DEF Tx, Outcome, Resent, SameResend, SameUser, SameTimeout, Heard, Linked
<1>5. CASE t.tp /\ u \in NowBound(t)
  BY <1>5, NowBoundFacts DEF Resent
<1>6. CASE t.resolved /\ u = End(lost, "transport")
  <2>1. "transport" \in Codes
    BY DEF Codes, Finals
  <2>2. /\ u \in Tx /\ u.st = "terminated" /\ Heard(lost, u) /\ u.sent = lost.sent
        /\ Linked(lost) => Linked(u)
    BY <1>1, <1>6, <2>1, EndFacts
  <2>3. Linked(t) => Linked(lost)
    BY <1>2 DEF Linked
  <2> QED
    BY <1>2, <2>2, <2>3 DEF Outcome, Resent, Heard, SameUser
<1>7. CASE ~t.resolved /\ u \in Lookup(lost)
  BY <1>1, <1>2, <1>7, LookupFacts DEF Outcome, Resent, Heard, SameUser, SameTimeout, SameResend, Linked
<1> QED
  BY <1>3, <1>4, <1>5, <1>6, <1>7

(* Starting the retransmission touches the resending only. *)
LEMMA StartRetransmitFacts ==
  ASSUME NEW t \in Tx
  PROVE  LET u == StartRetransmit(t) IN
         u \in Tx /\ SameUser(t, u) /\ SameLink(t, u) /\ SameTimeout(t, u)
<1>1. CASE t.pend
  BY <1>1 DEF StartRetransmit, Tx, SameUser, SameLink, SameTimeout
<1>2. CASE ~t.pend
  BY <1>2 DEF StartRetransmit, Tx, SameUser, SameLink, SameTimeout
<1> QED
  BY <1>1, <1>2

(* tsx_retransmit; without its flag it starts no resending either. *)
LEMMA RetransmitFacts ==
  ASSUME NEW t \in Tx, NEW resched \in BOOLEAN, NEW u \in Retransmit(t, resched)
  PROVE  /\ Outcome(t, u)
         /\ ~resched /\ (~t.resched \/ t.resolved) => Resent(t, u)
<1>1. CASE u = t
  BY <1>1 DEF Outcome, Resent, Heard, SameUser, SameTimeout, SameResend
<1>2. CASE ~resched /\ u \in SendMsg(t)
  BY <1>2, SendMsgFacts
<1>3. CASE resched /\ u \in SendMsg(StartRetransmit(t))
  <2> DEFINE v == StartRetransmit(t)
  <2>1. v \in Tx /\ SameUser(t, v) /\ SameLink(t, v) /\ SameTimeout(t, v)
    BY StartRetransmitFacts
  <2>2. u \in SendMsg(v)
    BY <1>3
  <2> HIDE DEF v
  <2>3. Outcome(v, u)
    BY <2>1, <2>2, SendMsgFacts
  <2> QED
    BY <1>3, <2>1, <2>3 DEF Outcome, Heard, SameUser, SameTimeout, SameLink, Linked
<1> QED
  BY <1>1, <1>2, <1>3 DEF Retransmit

-----------------------------------------------------------------------------
(* The state waits for a message that may never come (Waits, of any         *)
(* transaction).                                                            *)
Waiting(t) == \/ t.st \in {"calling", "completed", "confirmed"}
              \/ t.st = "proceeding" /\ role = "uac" /\ ~invite

(* What holds of the transaction between handlers: it keeps its last        *)
(* message, a client is linked and has sent what it has a response to, a    *)
(* confirmed one has no resending at all and a client that has its answer no*)
(* retransmission under way.                                                *)
Safe(t) ==
  /\ t \in Tx
  /\ t.st \in {"calling", "proceeding", "completed", "confirmed"} => t.last
  /\ role = "uac" => Linked(t) /\ (t.st \in {"proceeding", "completed"} => t.sent)
  /\ t.st = "confirmed" => ~t.rt /\ ~t.resched
  /\ t.st = "completed" /\ role = "uac" => ~t.rt

(* What every handler does to a safe transaction: it stays safe, the user   *)
(* hears at most one answer, what is over stays over, a state that waits has*)
(* the timeout in the heap unless it waited without one before, and nothing *)
(* returns to state Null.                                                   *)
Progress(t, u) ==
  /\ Safe(u) /\ Heard(t, u)
  /\ Over(t) => Over(u)
  /\ Waiting(u) => u.to \/ (Waiting(t) /\ ~t.to)
  /\ u.st = "null" => t.st = "null" /\ u.answer = t.answer

(* Ending a transaction is progress. *)
LEMMA OverProgress ==
  ASSUME NEW t, NEW u, u \in Tx, u.st \in {"terminated", "destroyed"}, Heard(t, u),
         role = "uac" => Linked(u)
  PROVE  Progress(t, u)
BY OverFacts DEF Progress, Safe, Waiting

(* So is any outcome of a send that leaves a quiet transaction quiet. *)
LEMMA OutcomeProgress ==
  ASSUME NEW t, NEW u, Safe(t), Outcome(t, u),
         t.st = "confirmed" \/ (t.st = "completed" /\ role = "uac") => Resent(t, u)
  PROVE  Progress(t, u)
<1>1. CASE u.st = "terminated"
  BY <1>1, OverProgress DEF Safe, Outcome
<1>2. CASE u.st # "terminated"
  BY <1>2, OverFacts DEF Safe, Outcome, Resent, Progress, SameUser, SameTimeout, SameResend, Waiting
<1> QED
  BY <1>1, <1>2

(* tsx_on_state_null of a client: the timeout is scheduled after the send,  *)
(* which may have failed.                                                   *)
LEMMA AskProgress ==
  ASSUME Safe(tx), Ask
  PROVE  Progress(tx, tx')
<1> DEFINE v == [tx EXCEPT !.last = TRUE]
<1>1. v \in Tx
  BY DEF Safe, Tx
<1>2. v.last /\ v.st = "null" /\ v.answer = tx.answer /\ SameLink(tx, v)
  BY DEF Ask, Safe, Tx, SameLink
<1>3. role = "uac" /\ tx.st = "null" /\ Linked(tx)
  BY DEF Ask, Safe
<1>4. PICK u \in SendMsg(v) :
        tx' = IF Over(u) THEN u
              ELSE LET w == Restart(u, "timeout") IN
                   SetState(IF w.reliable THEN w ELSE StartRetransmit(w), "calling")
  BY DEF Ask, IfSent
<1> HIDE DEF v
<1>5. Outcome(v, u)
  BY <1>1, SendMsgFacts
<1>6. Heard(tx, u) /\ Linked(u) /\ u \in Tx
  BY <1>2, <1>3, <1>5 DEF Outcome, Heard, SameLink, Linked
<1>7. CASE Over(u)
  BY <1>4, <1>6, <1>7, OverFacts, OverProgress
<1>8. CASE ~Over(u)
  <2> DEFINE w == Restart(u, "timeout")
             x == IF w.reliable THEN w ELSE StartRetransmit(w)
  <2>1. u.last
    BY <1>2, <1>5, <1>6, <1>8, OverFacts DEF Outcome, SameUser
  <2>2. w \in Tx /\ w.to /\ SameUser(u, w) /\ SameLink(u, w)
    BY <1>6, RestartFacts
  <2>3. tx' = SetState(x, "calling")
    BY <1>4, <1>8
  <2>4. x = w \/ x = StartRetransmit(w)
    OBVIOUS
  <2> HIDE DEF w, x
  <2>5. x \in Tx /\ SameUser(w, x) /\ SameLink(w, x) /\ SameTimeout(w, x)
    BY <2>2, <2>4, StartRetransmitFacts DEF SameUser, SameLink, SameTimeout
  <2>6. "calling" \in Open
    BY DEF Open, States
  <2>7. /\ tx' \in Tx /\ tx'.st = "calling" /\ tx'.last = x.last /\ Heard(x, tx')
        /\ SameLink(x, tx') /\ SameTimeout(x, tx')
    BY <2>3, <2>5, <2>6, SetOpenFacts
  <2>8. tx'.last /\ tx'.to /\ Heard(tx, tx')
    BY <1>6, <2>1, <2>2, <2>5, <2>7 DEF SameUser, SameTimeout, Heard
  <2>9. Linked(tx')
    BY <1>6, <2>2, <2>5, <2>7 DEF SameLink, Linked
  <2>10. ~Over(tx)
    BY <1>3, OverFacts DEF Safe
  <2> QED
    BY <2>7, <2>8, <2>9, <2>10 DEF Progress, Safe, Waiting
<1> QED
  BY <1>7, <1>8

(* The classes of responses. *)
Classes == {"provisional", "success", "failure"}

(* State Calling stops the retransmission, and keeps the timeout when a     *)
(* provisional response came to another request than an INVITE.             *)
LEMMA LeaveCallingFacts ==
  ASSUME NEW t \in Tx, NEW c \in Classes
  PROVE  LET u == LeaveCalling(t, c) IN
         /\ u \in Tx /\ SameUser(t, u) /\ SameLink(t, u)
         /\ c = "provisional" /\ ~invite => SameTimeout(t, u)
<1> DEFINE q == [CancelRetransmit(t) EXCEPT !.resched = FALSE]
           r == ~q.reliable
<1>1. CancelRetransmit(t) \in Tx /\ SameUser(t, CancelRetransmit(t))
      /\ SameLink(t, CancelRetransmit(t)) /\ SameTimeout(t, CancelRetransmit(t))
  BY CancelFacts
<1>2. q \in Tx
  BY <1>1 DEF Tx
<1>3. SameUser(t, q) /\ SameLink(t, q) /\ SameTimeout(t, q)
  BY <1>1 DEF Tx, SameUser, SameLink, SameTimeout
<1>4. r \in BOOLEAN
  BY <1>2 DEF Tx
<1>5. LeaveCalling(t, c) \in {q, CancelTimeout(q), [q EXCEPT !.rt = r]}
  BY DEF LeaveCalling
<1>6. c = "provisional" /\ ~invite => LeaveCalling(t, c) = [q EXCEPT !.rt = r]
  BY DEF LeaveCalling
<1> HIDE DEF q, r
<1>7. [q EXCEPT !.rt = r] \in Tx
  BY <1>2, <1>4 DEF Tx
<1>8. /\ SameUser(q, [q EXCEPT !.rt = r]) /\ SameLink(q, [q EXCEPT !.rt = r])
      /\ SameTimeout(q, [q EXCEPT !.rt = r])
  BY <1>2 DEF Tx, SameUser, SameLink, SameTimeout
<1>9. CancelTimeout(q) \in Tx /\ SameUser(q, CancelTimeout(q)) /\ SameLink(q, CancelTimeout(q))
  BY <1>2, CancelFacts
<1> QED
  BY <1>2, <1>3, <1>5, <1>6, <1>7, <1>8, <1>9 DEF SameUser, SameLink, SameTimeout

(* What a response leaves: the end, state Proceeding with the timeout as it *)
(* was, or state Completed with the timeout restarted and no retransmission.*)
Taken(t, u) ==
  /\ u \in Tx /\ Heard(t, u) /\ Linked(u)
  /\ \/ u.st = "terminated"
     \/ u.st = "proceeding" /\ u.last /\ u.sent /\ SameTimeout(t, u)
     \/ u.st = "completed" /\ u.last /\ u.sent /\ u.to /\ ~u.rt

(* Entering Completed restarts the timeout. *)
LEMMA AcknowledgedFacts ==
  ASSUME NEW t \in Tx, t.last, t.sent, Linked(t), ~t.rt
  PROVE  Taken(t, Acknowledged(t)) /\ Acknowledged(t).st = "completed"
<1> DEFINE v == SetState(t, "completed")
<1>1. "completed" \in Open
  BY DEF Open, States
<1>2. /\ v \in Tx /\ v.st = "completed" /\ v.last = t.last /\ Heard(t, v)
      /\ SameLink(t, v) /\ SameResend(t, v)
  BY <1>1, SetOpenFacts
<1>3. Acknowledged(t) = Restart(v, "timeout")
  BY DEF Acknowledged
<1> HIDE DEF v
<1>4. LET u == Restart(v, "timeout") IN
      u \in Tx /\ u.to /\ SameUser(v, u) /\ SameLink(v, u) /\ SameResend(v, u)
  BY <1>2, RestartFacts
<1> QED
  BY <1>2, <1>3, <1>4 DEF Taken, SameUser, SameLink, SameResend, Heard, Linked

(* tsx_on_state_proceeding_uac; only a provisional response leads to        *)
(* Proceeding. The ACK of a failed INVITE may fail to be sent, which ends   *)
(* the transaction before the timer is restarted.                           *)
LEMMA TakeResponseFacts ==
  ASSUME NEW t \in Tx, t.st \in Open, t.last, t.sent, Linked(t), role = "uac",
         NEW c \in Classes, NEW u \in TakeResponse(t, c)
  PROVE  Taken(t, u) /\ (u.st = "proceeding" => c = "provisional")
<1> DEFINE v == [t EXCEPT !.code = c]
           n == CancelTimeout(v)
           q == CancelRetransmit(n)
           s == Schedule(q, "timeout")
<1>1. v \in Tx
  BY DEF Tx, Codes, Finals, Classes
<1>2. SameUser(t, v) /\ SameLink(t, v) /\ SameTimeout(t, v)
  BY DEF Tx, SameUser, SameLink, SameTimeout
<1>3. n \in Tx /\ SameUser(v, n) /\ SameLink(v, n)
  BY <1>1, CancelFacts
<1>4. q \in Tx /\ SameUser(n, q) /\ SameLink(n, q) /\ ~q.rt
  BY <1>3, CancelFacts
<1>5. s \in Tx /\ s.to /\ SameUser(q, s) /\ SameLink(q, s) /\ SameResend(q, s)
  BY <1>4, ScheduleFacts
<1>6. \/ c = "provisional" /\ u = SetState(v, "proceeding")
      \/ c = "success" /\ u = SetState(n, "terminated")
      \/ c = "success" /\ u = SetState(s, "completed")
      \/ c = "failure" /\ u = Acknowledged(q)
      \/ c = "failure" /\ u \in IfSent(SendMsg(q), Acknowledged)
  BY DEF TakeResponse, Classes
<1>7. "proceeding" \in Open /\ "completed" \in Open
  BY DEF Open, States
<1> HIDE DEF v, n, q, s
<1>8. /\ q.last /\ q.sent /\ Linked(q) /\ q.answer = t.answer
      /\ s.last /\ s.sent /\ Linked(s) /\ s.answer = t.answer /\ ~s.rt
      /\ Linked(n) /\ n.answer = t.answer
  BY <1>2, <1>3, <1>4, <1>5 DEF SameUser, SameLink, SameResend, Linked
<1>9. CASE c = "provisional" /\ u = SetState(v, "proceeding")
  <2>1. /\ u \in Tx /\ u.st = "proceeding" /\ u.last = v.last /\ Heard(v, u)
        /\ SameLink(v, u) /\ SameTimeout(v, u)
    BY <1>1, <1>7, <1>9, SetOpenFacts
  <2> QED
    BY <1>2, <1>9, <2>1 DEF Taken, Heard, SameUser, SameLink, SameTimeout, Linked
<1>10. CASE u = SetState(n, "terminated")
  BY <1>3, <1>8, <1>10, SetOverFacts DEF Taken, Heard
<1>11. CASE u = SetState(s, "completed")
  <2>1. /\ u \in Tx /\ u.st = "completed" /\ u.last = s.last /\ Heard(s, u)
        /\ SameLink(s, u) /\ SameTimeout(s, u) /\ SameResend(s, u)
    BY <1>5, <1>7, <1>11, SetOpenFacts
  <2> QED
    BY <1>5, <1>8, <2>1 DEF Taken, Heard, SameLink, SameTimeout, SameResend, Linked
<1>12. CASE u = Acknowledged(q)
  BY <1>4, <1>8, <1>12, AcknowledgedFacts DEF Taken, Heard
<1>13. CASE u \in IfSent(SendMsg(q), Acknowledged)
  <2>1. PICK w \in SendMsg(q) : u = IF Over(w) THEN w ELSE Acknowledged(w)
    BY <1>13 DEF IfSent
  <2>2. Outcome(q, w) /\ Resent(q, w)
    BY <1>4, <1>8, <2>1, SendMsgFacts DEF Linked
  <2>3. Linked(w) /\ w.sent /\ w \in Tx /\ Heard(q, w)
    BY <1>8, <2>2 DEF Outcome
  <2>4. CASE w.st = "terminated"
    BY <1>8, <2>1, <2>3, <2>4, OverFacts DEF Taken, Heard
  <2>5. CASE w.st # "terminated"
    <3>1. w.last /\ ~w.rt /\ w.answer = t.answer
      BY <1>4, <1>8, <2>2, <2>5 DEF Outcome, SameUser, Resent, SameResend
    <3>2. CASE Over(w)
      <4>1. w.st = t.st
        BY <1>2, <1>3, <1>4, <2>2, <2>5 DEF Outcome, SameUser
      <4> QED
        BY <2>3, <3>2, <4>1, OverFacts DEF Open
    <3>3. CASE ~Over(w)
      BY <2>1, <2>3, <3>1, <3>3, AcknowledgedFacts DEF Taken, Heard
    <3> QED
      BY <3>2, <3>3
  <2> QED
    BY <2>4, <2>5
<1> QED
  BY <1>6, <1>9, <1>10, <1>11, <1>12, <1>13

(* A response, in any state. *)
LEMMA RxResponseProgress ==
  ASSUME Safe(tx), NEW c \in Classes, RxResponse(c)
  PROVE  Progress(tx, tx')
<1>1. role = "uac" /\ tx.sent /\ tx \in Tx /\ Linked(tx)
  BY DEF RxResponse, Safe
<1>2. CASE tx.st = "calling" /\ tx' \in TakeResponse(LeaveCalling(tx, c), c)
  <2> DEFINE v == LeaveCalling(tx, c)
  <2>1. /\ v \in Tx /\ SameUser(tx, v) /\ SameLink(tx, v)
        /\ c = "provisional" /\ ~invite => SameTimeout(tx, v)
    BY <1>1, LeaveCallingFacts
  <2>2. tx' \in TakeResponse(v, c)
    BY <1>2
  <2> HIDE DEF v
  <2>3. v.st \in Open /\ v.last /\ v.sent /\ Linked(v)
    BY <1>1, <1>2, <2>1 DEF Safe, SameUser, SameLink, Linked, Open, States
  <2>4. Taken(v, tx')
    BY <1>1, <2>1, <2>2, <2>3, TakeResponseFacts
  <2>5. Heard(tx, tx')
    BY <2>1, <2>4 DEF Taken, Heard, SameUser
  <2>6. CASE tx'.st = "terminated"
    BY <2>4, <2>5, <2>6, OverProgress DEF Taken
  <2>7. CASE tx'.st # "terminated"
    <3>1. ~Over(tx) /\ Waiting(tx)
      BY <1>1, <1>2, OverFacts DEF Waiting
    <3>2. Waiting(tx') => tx'.to \/ ~tx.to
      <4>1. CASE tx'.st = "completed"
        BY <2>4, <4>1 DEF Taken
      <4>2. CASE tx'.st # "completed"
        <5>1. tx'.st = "proceeding" /\ SameTimeout(v, tx')
          BY <2>4, <2>7, <4>2 DEF Taken
        <5>2. Waiting(tx') => ~invite
          BY <5>1 DEF Waiting
        <5>3. c = "provisional"
          BY <1>1, <2>1, <2>2, <2>3, <5>1, TakeResponseFacts
        <5> QED
          BY <2>1, <5>1, <5>2, <5>3 DEF SameTimeout
      <4> QED
        BY <4>1, <4>2
    <3> QED
      BY <2>4, <2>5, <2>7, <3>1, <3>2 DEF Progress, Safe, Taken
  <2> QED
    BY <2>6, <2>7
<1>3. CASE tx.st = "proceeding" /\ tx' \in TakeResponse(tx, c)
  <2>1. tx.st \in Open /\ tx.last
    BY <1>3 DEF Safe, Open, States
  <2>2. Taken(tx, tx')
    BY <1>1, <1>3, <2>1, TakeResponseFacts
  <2>3. CASE tx'.st = "terminated"
    BY <2>2, <2>3, OverProgress DEF Taken
  <2>4. CASE tx'.st # "terminated"
    <3>1. ~Over(tx)
      BY <1>1, <1>3, OverFacts
    <3> QED
      BY <1>1, <1>3, <2>2, <2>4, <3>1 DEF Progress, Safe, Taken, Waiting, SameTimeout
  <2> QED
    BY <2>3, <2>4
<1>4. CASE tx.st = "completed" /\ tx' \in Retransmit(tx, FALSE)
  <2>1. tx.resolved
    BY <1>1 DEF Linked
  <2>2. Outcome(tx, tx') /\ Resent(tx, tx')
    BY <1>1, <1>4, <2>1, RetransmitFacts
  <2> QED
    BY <2>2, OutcomeProgress
<1> QED
  BY <1>2, <1>3, <1>4 DEF RxResponse

(* pjsip_tsx_set_timeout replaces one timeout by another. *)
LEMMA SetTimeoutProgress ==
  ASSUME Safe(tx), SetTimeout
  PROVE  Progress(tx, tx')
<1>1. tx \in Tx /\ tx' = Restart(tx, "timeout")
  BY DEF Safe, SetTimeout
<1>2. /\ tx' \in Tx /\ tx'.to /\ SameUser(tx, tx') /\ SameLink(tx, tx') /\ SameResend(tx, tx')
  BY <1>1, RestartFacts
<1> QED
  BY <1>1, <1>2, OverFacts
     DEF SetTimeout, Progress, Safe, SameUser, SameLink, SameResend, Linked, Heard

(* pjsip_tsx_create_uas; state Trying waits for the user, without a timer. *)
LEMMA AcceptProgress ==
  ASSUME Safe(tx), Accept
  PROVE  Progress(tx, tx')
<1>1. tx \in Tx /\ role = "uas" /\ tx.st = "null" /\ tx' = SetState(tx, "trying")
  BY DEF Safe, Accept
<1>2. "trying" \in Open
  BY DEF Open, States
<1>3. tx' \in Tx /\ tx'.st = "trying" /\ Heard(tx, tx')
  BY <1>1, <1>2, SetOpenFacts
<1>4. ~Over(tx)
  BY <1>1, OverFacts
<1> QED
  BY <1>1, <1>3, <1>4 DEF Progress, Safe, Waiting

(* A provisional response of the user of a server transaction. *)
LEMMA ProvisionalProgress ==
  ASSUME NEW t, NEW u \in Tx, Heard(t, u), role = "uas", ~Over(t), NEW v \in Provisional(u)
  PROVE  Progress(t, v)
<1> DEFINE a == [u EXCEPT !.last = TRUE]
           b == SetState(a, "proceeding")
           d == CancelRetransmit(b)
<1>1. a \in Tx
  BY DEF Tx
<1>2. a.last /\ a.answer = u.answer
  BY DEF Tx
<1>3. v = b \/ v = StartRetransmit(d)
  BY DEF Provisional
<1> HIDE DEF a
<1>4. "proceeding" \in Open
  BY DEF Open, States
<1>5. b \in Tx /\ b.st = "proceeding" /\ b.last /\ Heard(a, b)
  BY <1>1, <1>2, <1>4, SetOpenFacts
<1> HIDE DEF b
<1>6. d \in Tx /\ SameUser(b, d)
  BY <1>5, CancelFacts
<1> HIDE DEF d
<1>7. v \in Tx /\ SameUser(b, v)
  BY <1>3, <1>5, <1>6, StartRetransmitFacts DEF SameUser
<1> QED
  BY <1>2, <1>5, <1>7 DEF Progress, Safe, Waiting, Heard, SameUser

(* A final one: the timeout is restarted with the new state. *)
LEMMA CompletedProgress ==
  ASSUME NEW t, NEW u \in Tx, Heard(t, u), role = "uas", ~Over(t)
  PROVE  Progress(t, Completed(u))
<1> DEFINE a == [CancelRetransmit(u) EXCEPT !.last = TRUE]
           b == Restart(a, "timeout")
           d == IF invite /\ (u.code = "success" \/ ~u.reliable) THEN StartRetransmit(b) ELSE b
           v == SetState(d, "completed")
<1>1. CancelRetransmit(u) \in Tx /\ SameUser(u, CancelRetransmit(u))
  BY CancelFacts
<1>2. a \in Tx
  BY <1>1 DEF Tx
<1>3. a.last /\ a.answer = u.answer
  BY <1>1 DEF Tx, SameUser
<1> HIDE DEF a
<1>4. b \in Tx /\ b.to /\ SameUser(a, b)
  BY <1>2, RestartFacts
<1> HIDE DEF b
<1>5. d \in Tx /\ SameUser(b, d) /\ d.to
  BY <1>4, StartRetransmitFacts DEF SameUser, SameTimeout
<1>6. Completed(u) = v
  BY DEF Completed, a, b
<1> HIDE DEF d
<1>7. "completed" \in Open
  BY DEF Open, States
<1>8. v \in Tx /\ v.st = "completed" /\ v.last = d.last /\ Heard(d, v) /\ SameTimeout(d, v)
  BY <1>5, <1>7, SetOpenFacts
<1> HIDE DEF v
<1> QED
  BY <1>3, <1>4, <1>5, <1>6, <1>8 DEF Progress, Safe, Heard, SameUser, SameTimeout

(* tsx_on_state_proceeding_uas: last_tx is replaced, sent and only then the *)
(* state changes.                                                           *)
LEMMA RespondProgress ==
  ASSUME Safe(tx), NEW c \in Classes, Respond(c)
  PROVE  Progress(tx, tx')
<1> DEFINE v == [tx EXCEPT !.code = c, !.last = FALSE, !.sent = FALSE]
<1>1. role = "uas" /\ tx \in Tx /\ tx.st \in {"trying", "proceeding"}
  BY DEF Respond, Safe
<1>2. v \in Tx
  BY <1>1 DEF Tx, Classes, Codes, Finals
<1>3. v.answer = tx.answer
  BY <1>1 DEF Tx
<1>4. ~Over(tx)
  BY <1>1, OverFacts
<1>5. PICK u \in SendMsg(v) :
        IF Over(u) THEN tx' = u ELSE tx' \in Provisional(u) \/ tx' = Completed(u)
  BY DEF Respond, IfSent
<1> HIDE DEF v
<1>6. u \in Tx /\ Heard(tx, u)
  BY <1>2, <1>3, <1>5, SendMsgFacts DEF Outcome, Heard
<1>7. CASE Over(u)
  BY <1>1, <1>5, <1>6, <1>7, OverFacts, OverProgress
<1>8. CASE ~Over(u)
  BY <1>1, <1>4, <1>5, <1>6, <1>8, ProvisionalProgress, CompletedProgress
<1> QED
  BY <1>7, <1>8

(* The request again. *)
LEMMA RxRequestProgress ==
  ASSUME Safe(tx), RxRequest
  PROVE  Progress(tx, tx')
<1>1. role = "uas" /\ tx \in Tx /\ tx.st \in {"proceeding", "completed"}
  BY DEF RxRequest, Safe
<1>2. Outcome(tx, tx')
  BY <1>1, SendMsgFacts, RetransmitFacts DEF RxRequest
<1> QED
  BY <1>1, <1>2, OutcomeProgress

(* The ACK stops the retransmission and the flag that would start it. *)
LEMMA RxAckProgress ==
  ASSUME Safe(tx), RxAck
  PROVE  Progress(tx, tx')
<1> DEFINE a == Restart(tx, "timeout")
           b == CancelRetransmit(a)
           d == [b EXCEPT !.resched = FALSE]
<1>1. role = "uas" /\ tx \in Tx /\ tx.st = "completed" /\ tx.last
  BY DEF RxAck, Safe
<1>2. a \in Tx /\ a.to /\ SameUser(tx, a)
  BY <1>1, RestartFacts
<1>3. b \in Tx /\ SameUser(a, b) /\ SameTimeout(a, b) /\ ~b.rt
  BY <1>2, CancelFacts
<1>4. tx' = SetState(d, "confirmed")
  BY DEF RxAck, Confirm
<1> HIDE DEF a, b
<1>5. d \in Tx
  BY <1>3 DEF Tx
<1>6. SameUser(b, d) /\ SameTimeout(b, d) /\ ~d.rt /\ ~d.resched
  BY <1>3 DEF Tx, SameUser, SameTimeout
<1> HIDE DEF d
<1>7. "confirmed" \in Open
  BY DEF Open, States
<1>8. /\ tx' \in Tx /\ tx'.st = "confirmed" /\ tx'.last = d.last /\ Heard(d, tx')
      /\ SameResend(d, tx') /\ SameTimeout(d, tx')
  BY <1>4, <1>5, <1>7, SetOpenFacts
<1>9. ~Over(tx)
  BY <1>1, OverFacts
<1> QED
  BY <1>1, <1>2, <1>3, <1>6, <1>8, <1>9
     DEF Progress, Safe, Heard, SameUser, SameResend, SameTimeout

-----------------------------------------------------------------------------
(* A handler that changes no state, drops no timer and starts no resending  *)
(* makes progress.                                                          *)
LEMMA QuietProgress ==
  ASSUME NEW t, NEW u, Safe(t), u \in Tx, SameUser(t, u),
         role = "uac" => Linked(u), t.sent => u.sent,
         u.rt => t.rt, u.resched => t.resched, u.to \/ ~t.to
  PROVE  Progress(t, u)
<1>1. Over(t) => Over(u)
  BY OverFacts DEF Safe, SameUser
<1>2. Safe(u)
  BY DEF Safe, SameUser
<1> QED
  BY <1>1, <1>2 DEF Progress, SameUser, Heard, Waiting

(* pjsip_tsx_terminate. *)
LEMMA TerminateProgress ==
  ASSUME Safe(tx), Terminate
  PROVE  Progress(tx, tx')
<1>1. tx \in Tx /\ tx' = End(tx, "stopped")
  BY DEF Safe, Terminate
<1>2. "stopped" \in Codes
  BY DEF Codes, Finals
<1>3. /\ tx' \in Tx /\ tx'.st = "terminated" /\ Heard(tx, tx')
      /\ Linked(tx) => Linked(tx')
  BY <1>1, <1>2, EndFacts
<1> QED
  BY <1>3, OverProgress DEF Safe

(* A lookup that completes: a client that already has a response has no     *)
(* lookup under way, so nothing is sent again.                              *)
LEMMA LookupCompletesProgress ==
  ASSUME Safe(tx), LookupCompletes
  PROVE  Progress(tx, tx')
<1>1. tx \in Tx /\ tx.op = "lookup"
  BY DEF Safe, LookupCompletes
<1>2. Outcome(tx, tx') /\ (~tx.resched => Resent(tx, tx'))
  BY <1>1, LookupDoneFacts, LookupFailedFacts DEF LookupCompletes, Resent
<1>3. ~(tx.st = "completed" /\ role = "uac")
  BY <1>1 DEF Safe, Linked
<1> QED
  BY <1>2, <1>3, OutcomeProgress DEF Safe

(* Posting the transport error over the timeout, after progress. *)
LEMMA PostErrorProgress ==
  ASSUME NEW t, NEW u, Progress(t, u)
  PROVE  Progress(t, PostError(u))
<1> DEFINE v == PostError(u)
<1>1. v \in Tx /\ v.to /\ SameUser(u, v) /\ SameLink(u, v) /\ SameResend(u, v)
  BY RestartFacts DEF PostError, Progress, Safe
<1>2. Safe(u)
  BY DEF Progress
<1> HIDE DEF v
<1>3. Progress(u, v)
  BY <1>1, <1>2, QuietProgress DEF SameLink, SameResend, Safe, Linked
<1>4. Progress(t, v)
  BY <1>1, <1>3 DEF Progress, Heard, SameUser
<1> QED
  BY <1>4 DEF v

(* The next address: the timeout starts again. *)
LEMMA LookupRetriesProgress ==
  ASSUME Safe(tx), LookupRetries
  PROVE  Progress(tx, tx')
<1>1. tx' = tx \/ tx' = Restart(tx, "timeout")
  BY DEF LookupRetries, RetryTimer
<1>2. CASE tx' = tx
  BY <1>2, QuietProgress DEF Safe, SameUser
<1>3. CASE tx' = Restart(tx, "timeout")
  <2>1. /\ tx' \in Tx /\ tx'.to /\ SameUser(tx, tx') /\ SameLink(tx, tx')
        /\ SameResend(tx, tx')
    BY <1>3, RestartFacts DEF Safe
  <2> QED
    BY <2>1, QuietProgress DEF Safe, SameLink, SameResend, Linked
<1> QED
  BY <1>1, <1>2, <1>3

(* transport_callback clears the pending send. *)
LEMMA SendEndsProgress ==
  ASSUME Safe(tx), NEW p \in BOOLEAN
  PROVE  Progress(tx, [tx EXCEPT !.op = "none", !.pend = p])
<1> DEFINE u == [tx EXCEPT !.op = "none", !.pend = p]
<1>1. tx \in Tx
  BY DEF Safe
<1>2. u \in Tx
  BY <1>1 DEF Tx
<1>3. /\ SameUser(tx, u) /\ SameResend(tx, u) /\ SameTimeout(tx, u)
      /\ u.op = "none" /\ u.sent = tx.sent /\ u.resolved = tx.resolved /\ u.tp = tx.tp
  BY <1>1 DEF Tx, SameUser, SameResend, SameTimeout
<1> HIDE DEF u
<1>4. Progress(tx, u)
  BY <1>2, <1>3, QuietProgress DEF Safe, SameResend, SameTimeout, Linked
<1> QED
  BY <1>4 DEF u

(* The lookup of a transaction that ended meanwhile. *)
LEMMA OrphanCompletesProgress ==
  ASSUME Safe(tx), OrphanCompletes
  PROVE  Progress(tx, tx')
<1>1. tx \in Tx /\ tx' = [tx EXCEPT !.op = "none"]
  BY DEF Safe, OrphanCompletes
<1>2. tx' \in Tx
  BY <1>1 DEF Tx
<1>3. /\ SameUser(tx, tx') /\ SameResend(tx, tx') /\ SameTimeout(tx, tx')
      /\ tx'.op = "none" /\ tx'.sent = tx.sent /\ tx'.resolved = tx.resolved
      /\ tx'.tp = tx.tp
  BY <1>1 DEF Tx, SameUser, SameResend, SameTimeout
<1> QED
  BY <1>2, <1>3, QuietProgress DEF Safe, SameResend, SameTimeout, Linked

(* transport_callback, after a success or a failure. *)
LEMMA TransportCompletesProgress ==
  ASSUME Safe(tx), TransportCompletes
  PROVE  Progress(tx, tx')
<1> DEFINE t == [tx EXCEPT !.op = "none", !.pend = FALSE]
<1>1. tx' = t \/ tx' = PostError(t)
  BY DEF TransportCompletes
<1>2. Progress(tx, t)
  BY SendEndsProgress
<1> HIDE DEF t
<1>3. Progress(tx, PostError(t))
  BY <1>2, PostErrorProgress
<1> QED
  BY <1>1, <1>2, <1>3

(* tsx_tp_state_callback. *)
LEMMA TransportLostProgress ==
  ASSUME Safe(tx), TransportLost
  PROVE  Progress(tx, tx')
<1>1. Progress(tx, tx)
  BY QuietProgress DEF Safe, SameUser
<1> QED
  BY <1>1, PostErrorProgress DEF TransportLost

(* The retransmit timer is popped. *)
LEMMA PopRetransmitProgress ==
  ASSUME Safe(tx), NEW w \in Workers, PopRetransmit(w)
  PROVE  Progress(tx, tx')
<1>1. tx' \in Tx /\ SameUser(tx, tx') /\ SameLink(tx, tx') /\ SameTimeout(tx, tx')
      /\ ~tx'.rt /\ tx'.resched = tx.resched
  BY CancelFacts DEF PopRetransmit, Safe
<1> QED
  BY <1>1, QuietProgress DEF Safe, SameLink, SameTimeout, Linked

(* tsx_timer_callback reads the id. *)
LEMMA ReadIdProgress ==
  ASSUME Safe(tx), NEW w \in Workers, ReadId(w)
  PROVE  Progress(tx, tx')
<1>1. tx \in Tx /\ tx' = [tx EXCEPT !.id = "inactive"]
  BY DEF ReadId, Safe
<1>2. tx' \in Tx
  BY <1>1 DEF Tx
<1>3. SameUser(tx, tx') /\ SameLink(tx, tx') /\ SameResend(tx, tx') /\ tx'.to = tx.to
  BY <1>1 DEF Tx, SameUser, SameLink, SameResend
<1> QED
  BY <1>2, <1>3, QuietProgress DEF Safe, SameLink, SameResend, Linked

(* The end, with the code there is. *)
LEMMA SetOverProgress ==
  ASSUME NEW t, Safe(t), NEW s \in {"terminated", "destroyed"}
  PROVE  Progress(t, SetState(t, s))
BY SetOverFacts, OverProgress DEF Safe

(* The retransmission of the state handlers. *)
LEMMA OnRetransmitProgress ==
  ASSUME Safe(tx), NEW w \in Workers, OnRetransmit(w)
  PROVE  Progress(tx, tx')
<1>1. \/ /\ tx.st \in {"calling", "proceeding"} \/ (tx.st = "completed" /\ role = "uas")
         /\ tx' \in Retransmit(tx, TRUE)
      \/ tx' = SetState(tx, "destroyed")
      \/ tx' = tx
  BY DEF OnRetransmit
<1>2. ASSUME tx.st \in {"calling", "proceeding"} \/ (tx.st = "completed" /\ role = "uas"),
             tx' \in Retransmit(tx, TRUE)
      PROVE  Progress(tx, tx')
  <2>1. Outcome(tx, tx')
    BY <1>2, RetransmitFacts DEF Safe
  <2> QED
    BY <1>2, <2>1, OutcomeProgress
<1>3. CASE tx' = SetState(tx, "destroyed")
  BY <1>3, SetOverProgress
<1>4. CASE tx' = tx
  BY <1>4, QuietProgress DEF Safe, SameUser
<1> QED
  BY <1>1, <1>2, <1>3, <1>4

(* The end, with a code. *)
LEMMA EndProgress ==
  ASSUME NEW t, Safe(t), NEW code \in Codes
  PROVE  Progress(t, End(t, code))
BY EndFacts, OverProgress DEF Safe

(* The timeout of the state handlers. *)
LEMMA OnTimeoutProgress ==
  ASSUME Safe(tx), NEW w \in Workers, OnTimeout(w)
  PROVE  Progress(tx, tx')
<1> DEFINE c == CancelRetransmit(tx)
           v == [c EXCEPT !.resched = FALSE]
<1>1. "timeout" \in Codes /\ tx.code \in Codes
  BY DEF Safe, Tx, Codes, Finals
<1>2. c \in Tx /\ SameUser(tx, c) /\ SameLink(tx, c)
  BY CancelFacts DEF Safe
<1>3. \/ tx' = End(v, "timeout")
      \/ tx' = End(tx, "timeout") \/ tx' = End(tx, tx.code)
      \/ tx' = SetState(tx, "terminated") \/ tx' = SetState(tx, "destroyed")
      \/ tx' = tx
  BY DEF OnTimeout, Expire
<1> HIDE DEF c
<1>4. v \in Tx
  BY <1>2 DEF Tx
<1>5. v.answer = tx.answer /\ SameLink(tx, v)
  BY <1>2 DEF Tx, SameLink, SameUser
<1> HIDE DEF v
<1>6. CASE tx' = End(v, "timeout")
  <2>1. /\ tx' \in Tx /\ tx'.st = "terminated" /\ Heard(v, tx')
        /\ Linked(v) => Linked(tx')
    BY <1>1, <1>4, <1>6, EndFacts
  <2> QED
    BY <1>5, <2>1, OverProgress DEF Safe, Heard, SameLink, Linked
<1>7. CASE tx' = End(tx, "timeout") \/ tx' = End(tx, tx.code)
  BY <1>1, <1>7, EndProgress
<1>8. CASE tx' = SetState(tx, "terminated") \/ tx' = SetState(tx, "destroyed")
  BY <1>8, SetOverProgress
<1>9. CASE tx' = tx
  BY <1>9, QuietProgress DEF Safe, SameUser
<1> QED
  BY <1>3, <1>6, <1>7, <1>8, <1>9

(* After the timeout no state waits any more: the worker may forget the     *)
(* timer it held.                                                           *)
LEMMA ExpireEndsWaiting ==
  ASSUME Safe(tx), NEW w \in Workers, OnTimeout(w)
  PROVE  ~Waiting(tx')
<1> DEFINE v == [CancelRetransmit(tx) EXCEPT !.resched = FALSE]
<1>1. tx \in Tx /\ "timeout" \in Codes /\ tx.code \in Codes
  BY DEF Safe, Tx, Codes, Finals
<1>2. CancelRetransmit(tx) \in Tx
  BY <1>1, CancelFacts
<1>3. v \in Tx
  BY <1>2 DEF Tx
<1>4. \/ tx' = End(v, "timeout")
      \/ tx' = End(tx, "timeout") \/ tx' = End(tx, tx.code)
      \/ tx' = SetState(tx, "terminated") \/ tx' = SetState(tx, "destroyed")
      \/ tx' = tx /\ ~Waiting(tx)
  BY DEF OnTimeout, Expire, Waiting
<1> HIDE DEF v
<1>5. tx' = End(v, "timeout") => tx'.st = "terminated"
  BY <1>1, <1>3, EndFacts
<1>6. tx' = End(tx, "timeout") \/ tx' = End(tx, tx.code) => tx'.st = "terminated"
  BY <1>1, EndFacts
<1>7. tx' = SetState(tx, "terminated") \/ tx' = SetState(tx, "destroyed")
        => tx'.st \in {"terminated", "destroyed"}
  BY <1>1, SetOverFacts
<1> QED
  BY <1>4, <1>5, <1>6, <1>7 DEF Waiting

(* The posted error ends the transaction and keeps a final code. *)
LEMMA OnErrorProgress ==
  ASSUME Safe(tx), NEW w \in Workers, OnError(w)
  PROVE  Progress(tx, tx') /\ Over(tx')
<1> DEFINE k == IF tx.code \in Finals THEN tx.code ELSE "transport"
           t == [tx EXCEPT !.tp = FALSE, !.code = k]
<1>1. tx \in Tx /\ k \in Codes
  BY DEF Safe, Codes, Finals
<1>2. tx' = Enter(t, "terminated")
  BY DEF OnError
<1> HIDE DEF k
<1>3. t \in Tx
  BY <1>1 DEF Tx
<1>4. t.answer = tx.answer /\ (Linked(tx) => Linked(t))
  BY <1>1 DEF Tx, Linked
<1> HIDE DEF t
<1>5. tx' \in Tx /\ tx'.st = "terminated" /\ tx'.answer = t.answer /\ (Linked(t) => Linked(tx'))
  BY <1>2, <1>3, EnterFacts
<1> QED
  BY <1>4, <1>5, OverProgress, OverFacts DEF Safe, Heard

(* The user is told outside the lock, of a transaction that is over; the    *)
(* sender is not called back yet.                                           *)
LEMMA NotifyErrorProgress ==
  ASSUME Safe(tx), NEW w \in Workers, NotifyError(w)
  PROVE  Progress(tx, tx') /\ tx'.code = tx.code /\ tx'.answer = tx.answer
<1>1. tx \in Tx /\ tx' = [tx EXCEPT !.told = tx.st]
  BY DEF NotifyError, Safe
<1>2. tx' \in Tx /\ tx'.code = tx.code
  BY <1>1 DEF Tx
<1>3. SameUser(tx, tx') /\ SameLink(tx, tx') /\ SameResend(tx, tx') /\ SameTimeout(tx, tx')
  BY <1>1 DEF Tx, SameUser, SameLink, SameResend, SameTimeout
<1> QED
  BY <1>2, <1>3, QuietProgress DEF Safe, SameUser, SameLink, SameResend, SameTimeout, Linked

(* The sender is called back, for the first time or not. *)
LEMMA CallBackFacts ==
  ASSUME Safe(tx), NEW w \in Workers, CallBack(w), tx.code \in Finals
  PROVE  /\ Safe(tx') /\ tx'.st = tx.st /\ tx'.code = tx.code /\ tx'.to = tx.to
         /\ tx.answer = "none" => tx'.answer \in Finals
<1> DEFINE a == IF tx.answer = "none" THEN tx.code ELSE "twice"
<1>1. tx \in Tx /\ tx' = [tx EXCEPT !.answer = a]
  BY DEF CallBack, Hear, Safe
<1>2. a \in Finals \cup {"none", "twice"} /\ (tx.answer = "none" => a \in Finals)
  OBVIOUS
<1> HIDE DEF a
<1>3. tx' \in Tx /\ tx'.answer = a /\ tx'.code = tx.code
  BY <1>1, <1>2 DEF Tx
<1>4. /\ tx'.st = tx.st /\ tx'.last = tx.last
      /\ SameLink(tx, tx') /\ SameResend(tx, tx') /\ SameTimeout(tx, tx')
  BY <1>1 DEF Tx, SameLink, SameResend, SameTimeout
<1> QED
  BY <1>2, <1>3, <1>4 DEF Safe, SameLink, SameResend, SameTimeout, Linked

(* The destruction is scheduled last. *)
LEMMA ScheduleDestroyProgress ==
  ASSUME Safe(tx), NEW w \in Workers, ScheduleDestroy(w)
  PROVE  Progress(tx, tx')
<1>1. tx' \in Tx /\ tx'.to /\ SameUser(tx, tx') /\ SameLink(tx, tx') /\ SameResend(tx, tx')
  BY ScheduleFacts DEF ScheduleDestroy, Safe
<1> QED
  BY <1>1, QuietProgress DEF Safe, SameLink, SameResend, Linked

-----------------------------------------------------------------------------
(* A final code stays: what the helper tests before it calls back still     *)
(* holds when it calls.                                                     *)
StaysFinal(t, u) == t.code \in Finals => u.code \in Finals

(* None of the helpers changes the code. *)
LEMMA HelpersKeepCode ==
  ASSUME NEW t \in Tx, NEW id \in {"timeout", "error"}
  PROVE  /\ Notify(t).code = t.code
         /\ CancelTimeout(t).code = t.code /\ CancelRetransmit(t).code = t.code
         /\ Schedule(t, id).code = t.code /\ Restart(t, id).code = t.code
         /\ Reschedule(t).code = t.code
<1>1. CancelTimeout(t).code = t.code /\ CancelRetransmit(t).code = t.code
  BY DEF CancelTimeout, CancelRetransmit, Tx
<1>2. ASSUME NEW v \in Tx PROVE Schedule(v, id).code = v.code
  BY DEF Schedule, Tx
<1>3. Restart(t, id).code = t.code
  BY <1>1, <1>2, CancelFacts DEF Restart
<1>4. Reschedule(t).code = t.code
  BY DEF Reschedule, Tx
<1>5. Notify(t).code = t.code
  BY DEF Notify, Hear, Tx
<1> QED
  BY <1>1, <1>2, <1>3, <1>4, <1>5

(* Nor does entering one of the last two states. *)
LEMMA SetOverKeepsCode ==
  ASSUME NEW t \in Tx, NEW s \in {"terminated", "destroyed"}
  PROVE  SetState(t, s).code = t.code /\ Enter(t, s).code = t.code
<1>1. ASSUME NEW v \in Tx PROVE Enter(v, s) \in Tx /\ Enter(v, s).code = v.code
  <2>1. CancelTimeout(v) \in Tx /\ CancelTimeout(v).code = v.code
    BY HelpersKeepCode, CancelFacts
  <2>2. CancelRetransmit(CancelTimeout(v)) \in Tx
    BY <2>1, CancelFacts
  <2>3. CancelRetransmit(CancelTimeout(v)).code = v.code
    BY <2>1, HelpersKeepCode
  <2>4. CASE s = "terminated"
    <3> DEFINE c == CancelTimeout(v)
               o == IF v.pend /\ c.op = "lookup" THEN "orphan" ELSE c.op
    <3>1. Enter(v, s) = [c EXCEPT !.st = s, !.pend = FALSE, !.op = o]
      BY <2>4 DEF Enter
    <3> HIDE DEF c, o
    <3>2. Enter(v, s).code = c.code
      BY <2>1, <3>1 DEF c, Tx
    <3> QED
      BY <2>1, <3>2, EnterFacts DEF c
  <2>5. CASE s = "destroyed"
    <3> DEFINE c == CancelRetransmit(CancelTimeout(v))
    <3>1. Enter(v, s) = [c EXCEPT !.st = s, !.tp = FALSE, !.last = FALSE, !.resched = FALSE,
                                  !.send = FALSE]
      BY <2>5 DEF Enter
    <3>2. c \in Tx /\ c.code = v.code
      BY <2>2, <2>3
    <3> HIDE DEF c
    <3>3. Enter(v, s).code = c.code
      BY <3>1, <3>2 DEF Tx
    <3> QED
      BY <3>2, <3>3, EnterFacts
  <2> QED
    BY <2>4, <2>5
<1> DEFINE v == [t EXCEPT !.st = s]
           n == Notify(v)
<1>2. v \in Tx /\ v.code = t.code
  BY DEF Tx, States
<1> HIDE DEF v
<1>3. n \in Tx /\ n.code = t.code
  BY <1>2, NotifyFacts, HelpersKeepCode
<1> HIDE DEF n
<1>4. SetState(t, s) = IF s = "terminated" THEN Schedule(Enter(n, s), "timeout") ELSE Enter(n, s)
  BY DEF SetState, n, v
<1>5. Schedule(Enter(n, s), "timeout").code = t.code
  BY <1>1, <1>3, HelpersKeepCode
<1> QED
  BY <1>1, <1>3, <1>4, <1>5

(* The code a failed send ends the transaction with. *)
LEMMA EndHasCode ==
  ASSUME NEW t \in Tx
  PROVE  End(t, "transport").code = "transport"
<1> DEFINE v == [t EXCEPT !.code = "transport"]
<1>1. v \in Tx /\ v.code = "transport"
  BY DEF Tx, Codes, Finals
<1> HIDE DEF v
<1>2. End(t, "transport") = SetState(v, "terminated")
  BY DEF End, v
<1> QED
  BY <1>1, <1>2, SetOverKeepsCode

(* A send over a new transport ends the transaction with a final code, or   *)
(* leaves the code.                                                         *)
LEMMA SendKeepsFinal ==
  ASSUME NEW t \in Tx, NEW u \in SendResolved(t)
  PROVE  StaysFinal(t, u)
<1> DEFINE v == [t EXCEPT !.tp = FALSE]
<1>1. \/ u = [t EXCEPT !.send = TRUE]
      \/ u = Sent(t)
      \/ u = Sent(Later(t, "transport"))
      \/ u = End(v, "transport")
  BY DEF SendResolved, NowBound
<1>2. v \in Tx
  BY DEF Tx
<1> HIDE DEF v
<1>3. CASE u = [t EXCEPT !.send = TRUE]
  BY <1>3 DEF StaysFinal, Tx
<1>4. CASE u = Sent(t)
  BY <1>4 DEF Sent, StaysFinal, Tx
<1>5. CASE u = Sent(Later(t, "transport"))
  BY <1>5 DEF Sent, Later, StaysFinal, Tx
<1>6. CASE u = End(v, "transport")
  BY <1>2, <1>6, EndHasCode DEF StaysFinal, Finals
<1> QED
  BY <1>1, <1>3, <1>4, <1>5, <1>6

(* So does a lookup that succeeds, *)
LEMMA LookupDoneKeepsFinal ==
  ASSUME NEW t \in Tx, NEW u \in LookupDone(t)
  PROVE  StaysFinal(t, u)
<1> DEFINE bound == [t EXCEPT !.pend = FALSE, !.resolved = TRUE, !.tp = TRUE,
                              !.op = "none", !.sent = TRUE]
           Base(r) == [bound EXCEPT !.reliable = r]
           Idle(r) == [Base(r) EXCEPT !.send = FALSE]
<1>1. PICK r \in {t.reliable, TRUE} :
        u \in IF Base(r).send /\ Base(r).last
              THEN {Reschedule(v) : v \in SendResolved(Idle(r))}
              ELSE {Reschedule(Idle(r))}
  BY DEF LookupDone
<1>2. PICK w \in SendResolved(Idle(r)) \cup {Idle(r)} : u = Reschedule(w)
  BY <1>1
<1>3. bound \in Tx
  BY DEF Tx
<1>4. bound.tp /\ bound.code = t.code
  BY DEF Tx
<1> HIDE DEF bound
<1>5. r \in BOOLEAN
  BY DEF Tx
<1>6. Idle(r) \in Tx
  BY <1>3, <1>5 DEF Tx
<1>7. Idle(r).tp /\ Idle(r).code = t.code
  BY <1>3, <1>4 DEF Tx
<1> HIDE DEF Idle
<1>8. w \in Tx /\ StaysFinal(t, w)
  BY <1>2, <1>6, <1>7, SendResolvedFacts, SendKeepsFinal DEF Outcome, StaysFinal
<1> QED
  BY <1>2, <1>8, HelpersKeepCode DEF StaysFinal

(* and one that fails. *)
LEMMA LookupFailedKeepsFinal ==
  ASSUME NEW t \in Tx
  PROVE  StaysFinal(t, LookupFailed(t))
<1> DEFINE v == [t EXCEPT !.pend = FALSE, !.resolved = TRUE, !.op = "none"]
<1>1. v \in Tx /\ LookupFailed(t) = End(v, "transport")
  BY DEF Tx, LookupFailed
<1> HIDE DEF v
<1> QED
  BY <1>1, EndHasCode DEF StaysFinal, Finals

(* Of a transaction that is over no handler takes the final code away. *)
LEMMA HandlersKeepFinal ==
  ASSUME Safe(tx), Over(tx), Client \/ Server \/ Terminate \/ Completion \/ TransportLost
  PROVE  StaysFinal(tx, tx')
<1>1. tx \in Tx /\ tx.st \in {"terminated", "destroyed"}
  BY OverFacts DEF Safe
<1>2. ASSUME NEW t \in Tx PROVE PostError(t).code = t.code /\ RetryTimer(t).code = t.code
  BY HelpersKeepCode DEF PostError, RetryTimer
<1>3. ~Client /\ ~Server /\ ~Terminate
  BY <1>1 DEF Client, Ask, RxResponse, SetTimeout, Server, Accept, RxRequest, RxAck, Respond,
              Terminate
<1>4. CASE LookupCompletes
  BY <1>1, <1>4, LookupDoneKeepsFinal, LookupFailedKeepsFinal DEF LookupCompletes
<1>5. CASE LookupRetries \/ TransportLost
  BY <1>1, <1>2, <1>5 DEF LookupRetries, TransportLost, StaysFinal
<1>6. CASE OrphanCompletes
  BY <1>1, <1>6 DEF OrphanCompletes, StaysFinal, Tx
<1>7. CASE TransportCompletes
  <2> DEFINE t == [tx EXCEPT !.op = "none", !.pend = FALSE]
  <2>1. t \in Tx /\ t.code = tx.code
    BY <1>1 DEF Tx
  <2>2. tx' = t \/ tx' = PostError(t)
    BY <1>7 DEF TransportCompletes
  <2> HIDE DEF t
  <2> QED
    BY <1>2, <2>1, <2>2 DEF StaysFinal
<1> QED
  BY <1>3, <1>4, <1>5, <1>6, <1>7 DEF Completion

(* Nor does a worker. *)
LEMMA TimersKeepFinal ==
  ASSUME Safe(tx), Over(tx), NEW w \in Workers, Timer(w)
  PROVE  StaysFinal(tx, tx')
<1>1. tx \in Tx /\ tx.st \in {"terminated", "destroyed"}
  BY OverFacts DEF Safe
<1>2. CASE PopRetransmit(w)
  BY <1>1, <1>2, HelpersKeepCode DEF PopRetransmit, StaysFinal
<1>3. CASE PopTimeout(w) \/ ReadId(w) \/ NotifyError(w) \/ CallBack(w)
  BY <1>1, <1>3 DEF PopTimeout, ReadId, NotifyError, CallBack, Hear, StaysFinal, Tx
<1>4. CASE OnRetransmit(w)
  <2>1. tx' = SetState(tx, "destroyed") \/ tx' = tx
    BY <1>1, <1>4 DEF OnRetransmit
  <2> QED
    BY <1>1, <2>1, SetOverKeepsCode DEF StaysFinal
<1>5. CASE OnTimeout(w)
  <2>1. tx' = SetState(tx, "destroyed") \/ tx' = tx
    BY <1>1, <1>5 DEF OnTimeout, Expire
  <2> QED
    BY <1>1, <2>1, SetOverKeepsCode DEF StaysFinal
<1>6. CASE OnError(w)
  <2> DEFINE k == IF tx.code \in Finals THEN tx.code ELSE "transport"
             t == [tx EXCEPT !.tp = FALSE, !.code = k]
  <2>1. k \in Finals /\ k \in Codes
    BY DEF Finals, Codes
  <2>2. tx' = Enter(t, "terminated")
    BY <1>6 DEF OnError
  <2> HIDE DEF k
  <2>3. t \in Tx /\ t.code = k
    BY <1>1, <2>1 DEF Tx
  <2> HIDE DEF t
  <2> QED
    BY <2>1, <2>2, <2>3, SetOverKeepsCode DEF StaysFinal
<1>7. CASE ScheduleDestroy(w)
  BY <1>1, <1>7, HelpersKeepCode DEF ScheduleDestroy, StaysFinal
<1> QED
  BY <1>2, <1>3, <1>4, <1>5, <1>6, <1>7 DEF Timer, Callback

-----------------------------------------------------------------------------
(* The inductive invariant: the transaction is safe, not forgotten, and a   *)
(* worker that has yet to tell of a transport error or to schedule the      *)
(* destruction holds a transaction that is over, with a final code if it is *)
(* about to call back.                                                      *)
Reporting == {"notify", "hear", "sched"}
Answered(t) == role = "uac" /\ t.code \in Finals

IInv ==
  /\ TypeOK
  /\ Safe(tx)
  /\ NotForgotten
  /\ \A w \in Workers : /\ pc[w] \in Reporting => Over(tx)
                        /\ pc[w] = "hear" => Answered(tx)

(* A handler of the group lock that makes progress keeps the invariant. *)
LEMMA HandlerStep ==
  ASSUME IInv, Progress(tx, tx'), UNCHANGED <<role, invite, pc>>,
         Over(tx) => StaysFinal(tx, tx')
  PROVE  IInv'
<1>1. Safe(tx)' /\ TypeOK'
  BY DEF IInv, TypeOK, Progress, Safe, Linked
<1>2. NotForgotten'
  BY DEF IInv, NotForgotten, Progress, Waits, Waiting
<1>3. \A w \in Workers : pc'[w] \in Reporting => Over(tx)'
  BY DEF IInv, Progress, Over
<1>4. \A w \in Workers : pc'[w] = "hear" => Answered(tx)'
  BY DEF IInv, Reporting, Answered, StaysFinal
<1> QED
  BY <1>1, <1>2, <1>3, <1>4 DEF IInv

(* So does a worker's step, if the timer it held is replaced: it held none, *)
(* it holds one still, or nothing waits.                                    *)
LEMMA WorkerStep ==
  ASSUME IInv, NEW w \in Workers, NEW at \in PCs, Go(w, at),
         Safe(tx'), Over(tx) => Over(tx'), Over(tx) => StaysFinal(tx, tx'),
         Waiting(tx') => tx'.to \/ (Waiting(tx) /\ ~tx.to),
         at \in Reporting => Over(tx'), at = "hear" => Answered(tx'),
         \/ pc[w] \in {"idle", "retransmit"}
         \/ at \notin {"idle", "retransmit"}
         \/ ~Waiting(tx')
  PROVE  IInv'
<1>1. pc' = [pc EXCEPT ![w] = at] /\ role' = role /\ invite' = invite
  BY DEF Go
<1>2. pc \in [Workers -> PCs]
  BY DEF IInv, TypeOK
<1>3. pc' \in [Workers -> PCs] /\ pc'[w] = at
  BY <1>1, <1>2
<1>4. Safe(tx)'
  BY <1>1 DEF Safe, Linked
<1>5. TypeOK'
  BY <1>1, <1>3, <1>4 DEF IInv, TypeOK, Safe
<1>6. NotForgotten'
  <2> SUFFICES ASSUME Waits', ~tx'.to
               PROVE  \E v \in Workers : pc'[v] \notin {"idle", "retransmit"}
    BY DEF NotForgotten
  <2>1. Waiting(tx')
    BY <1>1 DEF Waits, Waiting
  <2>2. Waiting(tx) /\ ~tx.to
    BY <2>1
  <2>3. PICK v \in Workers : pc[v] \notin {"idle", "retransmit"}
    BY <2>2 DEF IInv, NotForgotten, Waits, Waiting
  <2>4. CASE at \notin {"idle", "retransmit"}
    BY <1>3, <2>4
  <2>5. CASE pc[w] \in {"idle", "retransmit"}
    BY <1>1, <1>2, <2>3, <2>5
  <2> QED
    BY <2>1, <2>4, <2>5
<1>7. ASSUME NEW v \in Workers
      PROVE  /\ pc'[v] \in Reporting => Over(tx)'
             /\ pc'[v] = "hear" => Answered(tx)'
  <2>1. CASE v = w
    BY <1>1, <1>3, <2>1 DEF Over, Answered
  <2>2. CASE v # w
    <3>1. pc'[v] = pc[v]
      BY <1>1, <1>2, <2>2
    <3>2. pc[v] \in Reporting => Over(tx)'
      BY DEF IInv, Over
    <3>3. pc[v] = "hear" => Answered(tx) /\ StaysFinal(tx, tx')
      BY DEF IInv, Reporting
    <3> QED
      BY <1>1, <3>1, <3>2, <3>3 DEF Answered, StaysFinal
  <2> QED
    BY <2>1, <2>2
<1> QED
  BY <1>4, <1>5, <1>6, <1>7 DEF IInv

(* Popping the timeout moves it from the heap to the worker. *)
LEMMA PopTimeoutStep ==
  ASSUME IInv, NEW w \in Workers, PopTimeout(w)
  PROVE  /\ IInv'
         /\ tx'.answer = tx.answer /\ tx'.st = tx.st
<1>1. tx \in Tx /\ tx' = [tx EXCEPT !.to = FALSE] /\ pc \in [Workers -> PCs]
  BY DEF IInv, Safe, PopTimeout, TypeOK
<1>2. pc' = [pc EXCEPT ![w] = "popped"] /\ role' = role /\ invite' = invite
  BY DEF PopTimeout, Go
<1>3. tx' \in Tx
  BY <1>1 DEF Tx
<1>4. SameUser(tx, tx') /\ SameLink(tx, tx') /\ SameResend(tx, tx')
  BY <1>1 DEF Tx, SameUser, SameLink, SameResend
<1>5. Safe(tx)'
  BY <1>2, <1>3, <1>4 DEF IInv, Safe, SameUser, SameLink, SameResend, Linked
<1>6. pc' \in [Workers -> PCs] /\ pc'[w] = "popped"
  BY <1>1, <1>2 DEF PCs
<1>7. NotForgotten'
  BY <1>6 DEF NotForgotten
<1>8. TypeOK'
  BY <1>2, <1>3, <1>6 DEF IInv, TypeOK
<1>9. ASSUME NEW v \in Workers
      PROVE  /\ pc'[v] \in Reporting => Over(tx)'
             /\ pc'[v] = "hear" => Answered(tx)'
  <2>1. pc'[v] \in Reporting => pc'[v] = pc[v]
    BY <1>1, <1>2 DEF Reporting
  <2>2. tx'.code = tx.code /\ tx'.st = tx.st
    BY <1>1 DEF Tx
  <2> QED
    BY <1>2, <2>1, <2>2 DEF IInv, Over, Answered, Reporting
<1> QED
  BY <1>4, <1>5, <1>7, <1>8, <1>9 DEF IInv, SameUser

(* What a step under the lock may tell the user: nothing is told of a       *)
(* transaction never started.                                               *)
Told(t, u) == Heard(t, u) /\ (u.st = "null" => t.st = "null" /\ u.answer = t.answer)

(* Every handler of the group lock makes progress. *)
LEMMA HandlersProgress ==
  ASSUME IInv, Client \/ Server \/ Terminate \/ Completion \/ TransportLost
  PROVE  Progress(tx, tx') /\ UNCHANGED <<role, invite, pc>>
<1>1. Safe(tx)
  BY DEF IInv
<1>2. CASE Client
  BY <1>1, <1>2, AskProgress, RxResponseProgress, SetTimeoutProgress
     DEF Client, Classes, Ask, RxResponse, SetTimeout
<1>3. CASE Server
  BY <1>1, <1>3, AcceptProgress, RxRequestProgress, RxAckProgress, RespondProgress
     DEF Server, Classes, Accept, RxRequest, RxAck, Respond
<1>4. CASE Terminate
  BY <1>1, <1>4, TerminateProgress DEF Terminate
<1>5. CASE Completion
  BY <1>1, <1>5, LookupCompletesProgress, LookupRetriesProgress, OrphanCompletesProgress,
     TransportCompletesProgress
     DEF Completion, LookupCompletes, LookupRetries, OrphanCompletes, TransportCompletes
<1>6. CASE TransportLost
  BY <1>1, <1>6, TransportLostProgress DEF TransportLost
<1> QED
  BY <1>2, <1>3, <1>4, <1>5, <1>6

(* A worker's step that makes progress keeps the invariant, if it does not  *)
(* go on to call back.                                                      *)
LEMMA ProgressStep ==
  ASSUME IInv, Progress(tx, tx'), NEW w \in Workers, Timer(w), NEW at \in PCs, Go(w, at),
         at # "hear", at \in Reporting => Over(tx'),
         \/ pc[w] \in {"idle", "retransmit"}
         \/ at \notin {"idle", "retransmit"}
         \/ ~Waiting(tx')
  PROVE  IInv' /\ Told(tx, tx')
<1>1. Over(tx) => StaysFinal(tx, tx')
  BY TimersKeepFinal DEF IInv
<1>2. IInv'
  BY <1>1, WorkerStep DEF Progress
<1> QED
  BY <1>2 DEF Progress, Told

(* Every step of a worker keeps the invariant, and each but the call back   *)
(* outside the lock tells what the lock allows.                             *)
LEMMA TimersStep ==
  ASSUME IInv, NEW w \in Workers, Timer(w)
  PROVE  IInv' /\ (~CallBack(w) => Told(tx, tx')) /\ UNCHANGED <<role, invite>>
<1>1. Safe(tx)
  BY DEF IInv
<1>2. UNCHANGED <<role, invite>>
  BY DEF Timer, Callback, PopRetransmit, PopTimeout, ReadId, OnRetransmit, OnTimeout,
         OnError, NotifyError, CallBack, ScheduleDestroy, Go
<1>3. ASSUME PopRetransmit(w) PROVE IInv' /\ Told(tx, tx')
  <2>1. Progress(tx, tx')
    BY <1>1, <1>3, PopRetransmitProgress
  <2>2. pc[w] = "idle" /\ Go(w, "retransmit") /\ "retransmit" \in PCs
    BY <1>3 DEF PopRetransmit, PCs
  <2> QED
    BY <2>1, <2>2, ProgressStep DEF Reporting
<1>4. ASSUME PopTimeout(w) PROVE IInv' /\ Told(tx, tx')
  BY <1>4, PopTimeoutStep DEF Told, Heard
<1>5. ASSUME ReadId(w) PROVE IInv' /\ Told(tx, tx')
  <2> DEFINE at == CASE tx.id # "error" -> "timeout"
                     [] tx.id = "error" /\ ~Over(tx) -> "error"
                     [] OTHER -> "idle"
  <2>1. Progress(tx, tx')
    BY <1>1, <1>5, ReadIdProgress
  <2>2. Go(w, at)
    BY <1>5 DEF ReadId
  <2>3. at \in {"timeout", "error"} \/ (at = "idle" /\ Over(tx))
    OBVIOUS
  <2> HIDE DEF at
  <2>4. Over(tx) => ~Waiting(tx')
    BY <2>1, OverFacts DEF Progress, Safe, Waiting
  <2>5. at \in PCs /\ at \notin Reporting /\ at # "hear"
    BY <2>3 DEF PCs, Reporting
  <2>6. at \notin {"idle", "retransmit"} \/ ~Waiting(tx')
    BY <2>3, <2>4
  <2> QED
    BY <2>1, <2>2, <2>5, <2>6, ProgressStep
<1>6. ASSUME OnRetransmit(w) PROVE IInv' /\ Told(tx, tx')
  <2>1. Progress(tx, tx')
    BY <1>1, <1>6, OnRetransmitProgress
  <2>2. pc[w] = "retransmit" /\ Go(w, "idle") /\ "idle" \in PCs
    BY <1>6 DEF OnRetransmit, PCs
  <2> QED
    BY <2>1, <2>2, ProgressStep DEF Reporting
<1>7. ASSUME OnTimeout(w) PROVE IInv' /\ Told(tx, tx')
  <2>1. Progress(tx, tx')
    BY <1>1, <1>7, OnTimeoutProgress
  <2>2. Go(w, "idle") /\ "idle" \in PCs
    BY <1>7 DEF OnTimeout, PCs
  <2>3. ~Waiting(tx')
    BY <1>1, <1>7, ExpireEndsWaiting
  <2> QED
    BY <2>1, <2>2, <2>3, ProgressStep DEF Reporting
<1>8. ASSUME OnError(w) PROVE IInv' /\ Told(tx, tx')
  <2>1. Progress(tx, tx') /\ Over(tx')
    BY <1>1, <1>8, OnErrorProgress
  <2>2. Go(w, "notify") /\ "notify" \in PCs
    BY <1>8 DEF OnError, PCs
  <2> QED
    BY <2>1, <2>2, ProgressStep
<1>9. ASSUME NotifyError(w) PROVE IInv' /\ Told(tx, tx')
  <2> DEFINE at == IF Wanted(tx) THEN "hear" ELSE "sched"
  <2>1. Over(tx)
    BY <1>9 DEF NotifyError, IInv, Reporting
  <2>2. Progress(tx, tx') /\ tx'.code = tx.code
    BY <1>1, <1>9, NotifyErrorProgress
  <2>3. Go(w, at) /\ Over(tx')
    BY <1>9, <2>1, <2>2 DEF NotifyError, Progress
  <2>4. at \in PCs /\ at \notin {"idle", "retransmit"} /\ (at = "hear" => Wanted(tx))
    BY DEF PCs
  <2> HIDE DEF at
  <2>5. at = "hear" => Answered(tx')
    BY <2>2, <2>4 DEF Wanted, Answered
  <2>6. Over(tx) => StaysFinal(tx, tx')
    BY <2>2 DEF StaysFinal
  <2>7. IInv'
    BY <2>2, <2>3, <2>4, <2>5, <2>6, WorkerStep DEF Progress
  <2> QED
    BY <2>2, <2>7 DEF Progress, Told
<1>10. ASSUME CallBack(w) PROVE IInv'
  <2>1. Over(tx) /\ tx.code \in Finals
    BY <1>10 DEF CallBack, IInv, Reporting, Answered
  <2>2. Safe(tx') /\ tx'.st = tx.st /\ tx'.code = tx.code
    BY <1>1, <1>10, <2>1, CallBackFacts
  <2>3. Over(tx') /\ StaysFinal(tx, tx') /\ ~Waiting(tx')
    BY <1>1, <2>1, <2>2, OverFacts DEF Over, StaysFinal, Waiting, Safe
  <2>4. Go(w, "sched") /\ "sched" \in PCs
    BY <1>10 DEF CallBack, PCs
  <2> QED
    BY <2>2, <2>3, <2>4, WorkerStep
<1>11. ASSUME ScheduleDestroy(w) PROVE IInv' /\ Told(tx, tx')
  <2>1. Over(tx)
    BY <1>11 DEF ScheduleDestroy, IInv, Reporting
  <2>2. Progress(tx, tx')
    BY <1>1, <1>11, ScheduleDestroyProgress
  <2>3. Go(w, "idle") /\ "idle" \in PCs
    BY <1>11 DEF ScheduleDestroy, PCs
  <2>4. ~Waiting(tx')
    BY <2>1, <2>2, OverFacts DEF Progress, Safe, Waiting
  <2> QED
    BY <2>2, <2>3, <2>4, ProgressStep DEF Reporting
<1> QED
  BY <1>2, <1>3, <1>4, <1>5, <1>6, <1>7, <1>8, <1>9, <1>10, <1>11 DEF Timer, Callback

(* Every step keeps the invariant, and each but the call back outside the   *)
(* lock tells one answer at most.                                           *)
LEMMA NextFacts ==
  ASSUME IInv, Next
  PROVE  /\ IInv' /\ UNCHANGED <<role, invite>>
         /\ (\A w \in Workers : ~CallBack(w)) => Told(tx, tx')
<1>1. CASE Client \/ Server \/ Terminate \/ Completion \/ TransportLost
  <2>1. Progress(tx, tx') /\ UNCHANGED <<role, invite, pc>>
    BY <1>1, HandlersProgress
  <2>2. Over(tx) => StaysFinal(tx, tx')
    BY <1>1, HandlersKeepFinal DEF IInv
  <2>3. IInv'
    BY <2>1, <2>2, HandlerStep
  <2> QED
    BY <2>1, <2>3 DEF Progress, Told
<1>2. CASE \E w \in Workers : Timer(w)
  BY <1>2, TimersStep
<1> QED
  BY <1>1, <1>2 DEF Next

(* A new transaction satisfies it. *)
LEMMA InitFacts ==
  ASSUME Init
  PROVE  IInv
<1>1. /\ tx.st = "null" /\ ~tx.sent /\ ~tx.rt /\ ~tx.resched /\ tx.op = "none"
      /\ tx.tp = (role = "uas")
      /\ tx \in Tx
  BY DEF Init, Tx, States, Codes, Finals
<1>2. pc = [w \in Workers |-> "idle"] /\ role \in {"uac", "uas"} /\ invite \in BOOLEAN
  BY DEF Init
<1> QED
  BY <1>1, <1>2 DEF IInv, TypeOK, PCs, Safe, Linked, NotForgotten, Waits, Reporting

(* The inductive invariant holds of every transaction. *)
THEOREM Invariance == Spec => []IInv
<1>1. Init => IInv
  BY InitFacts
<1>2. IInv /\ [Next]_vars => IInv'
  <2>1. ASSUME IInv, Next PROVE IInv'
    BY <2>1, NextFacts
  <2>2. ASSUME IInv, UNCHANGED vars PROVE IInv'
    BY <2>2 DEF vars, IInv, TypeOK, Safe, Linked, NotForgotten, Waits, Over, Answered
  <2> QED
    BY <2>1, <2>2
<1> QED
  BY <1>1, <1>2, PTL DEF Spec

(* The variables keep their types. *)
THEOREM TypeCorrect == Spec => []TypeOK
<1>1. IInv => TypeOK
  BY DEF IInv
<1> QED
  BY <1>1, Invariance, PTL

(* A transaction that waits for something that may never come always has  *)
(* a timer to end it, whatever the handlers cancel and restart.            *)
THEOREM NeverForgotten == Spec => []NotForgotten
<1>1. IInv => NotForgotten
  BY DEF IInv
<1> QED
  BY <1>1, Invariance, PTL

(* Where the handlers assert tsx->last_tx there is one. *)
THEOREM LastMessageIsThere == Spec => []LastMessageKept
<1>1. IInv => LastMessageKept
  BY DEF IInv, Safe, LastMessageKept
<1> QED
  BY <1>1, Invariance, PTL

(* Once answered, nothing is sent again by a timer. *)
THEOREM StaysQuiet == Spec => []QuietAfterAnswer
<1>1. IInv => QuietAfterAnswer
  BY DEF IInv, Safe, Linked, QuietAfterAnswer
<1> QED
  BY <1>1, Invariance, PTL

-----------------------------------------------------------------------------
(* One worker: pjsua's default.  While it reports a transport error nobody  *)
(* else tells the sender, so nothing was heard between test and call.       *)
OneWorker == \A v, w \in Workers : v = w

Unheard ==
  /\ tx.answer # "twice"
  /\ \A w \in Workers : pc[w] = "hear" => tx.answer = "none"

(* No handler runs beside the worker that would tell the sender. *)
LEMMA HandlersWait ==
  ASSUME OneWorker, IInv, NEW w \in Workers, pc[w] = "hear",
         Client \/ Server \/ Terminate \/ Completion \/ TransportLost
  PROVE  tx'.answer = tx.answer
<1>1. tx \in Tx /\ tx.st \in {"terminated", "destroyed"} /\ Over(tx)
  BY OverFacts DEF IInv, Safe, Reporting
<1>2. ~FreeWorker
  BY DEF OneWorker, FreeWorker
<1>3. ~Client /\ ~Server /\ ~Terminate
  BY <1>1 DEF Client, Ask, RxResponse, SetTimeout, Server, Accept, RxRequest, RxAck, Respond,
              Terminate
<1>4. ~Completion
  BY <1>2 DEF Completion, LookupCompletes, LookupRetries, OrphanCompletes, TransportCompletes
<1>5. CASE TransportLost
  BY <1>1, <1>5, RestartFacts DEF TransportLost, PostError, SameUser
<1> QED
  BY <1>3, <1>4, <1>5

(* A step tells one answer at most, outside the lock as well. *)
LEMMA ToldOnce ==
  ASSUME IInv, Unheard, Next
  PROVE  Told(tx, tx') /\ UNCHANGED <<role, invite>>
<1>1. CASE \A w \in Workers : ~CallBack(w)
  BY <1>1, NextFacts
<1>2. ASSUME NEW w \in Workers, CallBack(w)
      PROVE  Told(tx, tx') /\ UNCHANGED <<role, invite>>
  <2>1. /\ Safe(tx) /\ Over(tx) /\ role = "uac" /\ tx.code \in Finals
        /\ tx.answer = "none"
    BY <1>2 DEF IInv, Unheard, CallBack, Reporting, Answered
  <2>2. tx'.st = tx.st /\ tx'.answer \in Finals
    BY <1>2, <2>1, CallBackFacts
  <2>3. tx.st # "null"
    BY <2>1, OverFacts DEF Safe
  <2> QED
    BY <1>2, <2>1, <2>2, <2>3 DEF Told, Heard, CallBack, Go
<1> QED
  BY <1>1, <1>2

(* What the helper tested still holds when it calls. *)
LEMMA UnheardStep ==
  ASSUME OneWorker, IInv, Unheard, Next
  PROVE  Unheard'
<1>4. tx'.answer # "twice"
  BY ToldOnce DEF Told, Heard, Unheard, Finals
<1> SUFFICES ASSUME NEW w \in Workers, pc'[w] = "hear"
             PROVE  tx'.answer = "none"
  BY <1>4 DEF Unheard
<1>1. pc \in [Workers -> PCs] /\ Safe(tx)
  BY DEF IInv, TypeOK
<1>2. CASE Client \/ Server \/ Terminate \/ Completion \/ TransportLost
  <2>1. pc' = pc
    BY <1>2, HandlersProgress
  <2> QED
    BY <1>2, <2>1, HandlersWait DEF Unheard
<1>3. CASE \E v \in Workers : Timer(v)
  <2>1. Timer(w)
    BY <1>3 DEF OneWorker
  <2>2. CASE NotifyError(w)
    <3>1. Wanted(tx)
      BY <1>1, <2>2 DEF NotifyError, Go
    <3> QED
      BY <1>1, <2>2, <3>1, NotifyErrorProgress DEF Wanted
  <2>3. CASE ~NotifyError(w)
    BY <1>1, <2>1, <2>3
       DEF Timer, Callback, PopRetransmit, PopTimeout, ReadId, OnRetransmit, OnTimeout, OnError,
           CallBack, ScheduleDestroy, Go
  <2> QED
    BY <2>2, <2>3
<1> QED
  BY <1>2, <1>3 DEF Next

(* With one worker the sender of a request hears at most one final answer,  *)
(* and none it did not ask for.                                             *)
THEOREM HearsOneAnswer == OneWorker => (Spec => ImplementsOneAnswer)
<1> SUFFICES ASSUME OneWorker PROVE Spec => ImplementsOneAnswer
  OBVIOUS
<1> DEFINE asked == role = "uac" /\ tx.st # "null"
<1>1. Init => OA!Init /\ Unheard
  BY DEF Init, OA!Init, Unheard
<1>2. IInv /\ Unheard /\ [Next]_vars => [OA!Next]_OA!oaVars /\ Unheard'
  <2>1. ASSUME IInv, Unheard, Next PROVE OA!Next \/ UNCHANGED OA!oaVars
    <3>1. Told(tx, tx') /\ UNCHANGED <<role, invite>>
      BY <2>1, ToldOnce
    <3>2. CASE asked
      <4>1. asked'
        BY <3>1, <3>2 DEF Told
      <4>2. tx'.answer = tx.answer \/ (tx.answer = "none" /\ tx'.answer \in Finals)
        BY <3>1 DEF Told, Heard
      <4> QED
        BY <3>2, <4>1, <4>2 DEF OA!Next, OA!Report, OA!oaVars
    <3>3. CASE ~asked /\ asked'
      <4>1. tx'.answer \in Finals \cup {"none"}
        BY <2>1, NextFacts, UnheardStep DEF IInv, Safe, Tx, Unheard
      <4> QED
        BY <3>3, <4>1 DEF OA!Next, OA!Ask
    <3>4. CASE ~asked /\ ~asked'
      <4>1. tx'.answer = tx.answer
        BY <3>1, <3>4 DEF Told, Heard
      <4> QED
        BY <3>4, <4>1 DEF OA!oaVars
    <3> QED
      BY <3>2, <3>3, <3>4
  <2>2. ASSUME UNCHANGED vars PROVE UNCHANGED OA!oaVars
    BY <2>2 DEF vars, OA!oaVars
  <2>3. ASSUME Unheard, UNCHANGED vars PROVE Unheard'
    BY <2>3 DEF vars, Unheard
  <2> QED
    BY <2>1, <2>2, <2>3, UnheardStep
<1> QED
  BY <1>1, <1>2, Invariance, PTL DEF Spec, ImplementsOneAnswer, OA!Spec
==============================================================================
