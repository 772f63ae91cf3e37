------------------------------ MODULE PjsuaAcc ------------------------------
(***************************************************************************)
(* The account table of pjsua_acc.c: slots that are reused, the client     *)
(* registration session of each account, and the timer that retries a      *)
(* registration which failed for the moment.                               *)
(*                                                                         *)
(* An application thread adds, deletes and registers accounts; workers     *)
(* poll the timers and the sockets.  What runs under PJSUA_LOCK is one     *)
(* step; a worker that has taken an answer or a timer and still waits for  *)
(* that lock, and pjsua_acc_add between its unlock and its registration,   *)
(* are states of their own.  The session (pjsip_regc) is seen from         *)
(* outside: idle, asked to register or to leave, or stuck with has_tsx set *)
(* and nothing outstanding.                                                *)
(*                                                                         *)
(* Not modelled: the account's URIs, credentials and routes, keep-alive,   *)
(* presence and publication, contact_rewrite_method UNREGISTER (not the    *)
(* default), and the length of the retry delay.                            *)
(*                                                                         *)
(* A definition named D_error is D with a mistake a maintainer could make. *)
(***************************************************************************)
EXTENDS Naturals, FiniteSets

CONSTANTS
  Slots,     \* the indices of pjsua_var.acc: 0 .. n
  Workers,   \* the threads that poll
  Sessions,  \* addresses of pjsip_regc structures, used again once free
  MaxCalls   \* bound: how many calls the application makes

ASSUME SlotsAssumption ==
  Slots # {} /\ Slots \subseteq Nat /\ IsFiniteSet(Slots)
ASSUME SessionsAssumption ==
  /\ IsFiniteSet(Sessions) /\ IsFiniteSet(Workers)
  /\ Cardinality(Sessions) >= Cardinality(Slots) + Cardinality(Workers)
  /\ 0 \notin Sessions
ASSUME MaxCallsAssumption == MaxCalls \in Nat

VARIABLES
  acc,     \* pjsua_var.acc
  heap,    \* the slots whose retry timer is in the timer heap
  regc,    \* the registration sessions
  pc,      \* what each worker took and has not handled yet
  adding,  \* the slot pjsua_acc_add has to register, as a set
  calls    \* how many calls the application made

sys == <<acc, heap, regc>>   \* what PJSUA_LOCK protects
vars == <<acc, heap, regc, pc, adding, calls>>

NoSession == 0
Generation == 0 .. MaxCalls   \* which account a slot holds; 0 is none yet

(* Registration answers, by what regc_cb does with them: 2xx, 2xx that     *)
(* says nothing is registered, a failure worth retrying, any other.        *)
Answers == {"ok", "gone", "temp", "perm"}

Account == [valid : BOOLEAN,
            gen : Generation,           \* which account this is
            regc : Sessions \cup {NoSession},
            codeOf : Generation,        \* whose answer reg_last_code is
            active : BOOLEAN,           \* auto_rereg.active
            timer : BOOLEAN,            \* auto_rereg.timer.id
            rewritten : BOOLEAN,        \* contact_rewritten
            settled : BOOLEAN]          \* the application knows no retry follows

Session == [state : {"free", "idle", "asked", "leaving", "stuck"},
            armed : BOOLEAN,            \* its refresh timer is in the heap
            slot : Slots, gen : Generation]  \* the account it was made for

Job == [do : {"idle"}]
  \cup [do : {"retry"}, slot : Slots]
  \cup [do : {"refresh"}, regc : Sessions]
  \cup [do : {"answer"}, regc : Sessions, code : Answers,
        slot : Slots, gen : Generation]
  \cup [do : {"mark"}, slot : Slots]
Idle == [do |-> "idle"]

Unused == [state |-> "free", armed |-> FALSE,
           slot |-> CHOOSE i \in Slots : TRUE, gen |-> 0]

Init ==
  /\ acc = [i \in Slots |-> [valid |-> FALSE, gen |-> 0, regc |-> NoSession,
                             codeOf |-> 0, active |-> FALSE, timer |-> FALSE,
                             rewritten |-> FALSE, settled |-> FALSE]]
  /\ heap = {}
  /\ regc = [r \in Sessions |-> Unused]
  /\ pc = [w \in Workers |-> Idle]
  /\ adding = {}
  /\ calls = 0

-----------------------------------------------------------------------------
(* The locked functions, as operators on u, a record of the variables in   *)
(* sys.  Those with more than one outcome return a set.                    *)

Now == [acc |-> acc, heap |-> heap, regc |-> regc]
Becomes(u) == acc' = u.acc /\ heap' = u.heap /\ regc' = u.regc

(* "Cancel any re-registration timer" *)
CancelRetry(u, i) ==
  IF u.acc[i].timer
  THEN [u EXCEPT !.acc[i].timer = FALSE, !.heap = @ \ {i}]
  ELSE u

(* schedule_reregistration.  The heap refuses an entry it already has.     *)
ScheduleRetry(u, i) ==
  LET v == CancelRetry(u, i) IN
  IF ~u.acc[i].valid THEN u
  ELSE [v EXCEPT !.acc[i].active = TRUE,
                 !.acc[i].timer = i \notin v.heap,
                 !.acc[i].settled = FALSE,
                 !.heap = @ \cup {i}]

(* pjsip_regc_destroy, then acc->regc = NULL. *)
DropSession_leak(u, i) == [u EXCEPT !.acc[i].regc = NoSession]
DropSession(u, i) ==
  LET r == u.acc[i].regc IN
  IF r = NoSession THEN u
  ELSE [u EXCEPT !.regc[r] = Unused, !.acc[i].regc = NoSession]

(* What an answer to generation g leaves in the account. *)
Noted(a, g, code) ==
  [a EXCEPT !.active = @ /\ code \notin {"ok", "gone"},
            !.codeOf = g,
            !.rewritten = FALSE,
            !.settled = @ \/ code = "perm"]

(* regc_cb, past the NAT check, for an answer to account generation g; it   *)
(* then calls on_reg_state.                                                *)
Answered_active(u, i, g, code) ==
  LET v == IF code = "ok" THEN u ELSE DropSession(u, i)
      s == [v EXCEPT !.acc[i] = [Noted(@, g, code) EXCEPT
                                   !.active = v.acc[i].active]]
  IN IF code = "temp" THEN ScheduleRetry(s, i) ELSE s
Answered(u, i, g, code) ==
  LET v == IF code = "ok" THEN u ELSE DropSession(u, i)
      s == [v EXCEPT !.acc[i] = Noted(@, g, code)]
  IN IF code = "temp" THEN ScheduleRetry(s, i) ELSE s

-----------------------------------------------------------------------------
(* pjsua_acc_set_registration: the set of [st, ok] it may end with.        *)

(* A session a structure is still read through is not free. *)
Free(u) == {r \in Sessions : /\ u.regc[r].state = "free"
                             /\ \A w \in Workers :
                                  pc[w].do \in {"answer", "refresh"}
                                    => pc[w].regc # r}

(* pjsip_regc_register or _unregister, and pjsip_regc_send.  The request   *)
(* goes out; it cannot be made; it fails with the callback (503) called in *)
(* the send; or it fails without one, and has_tsx stays set.               *)
Ask(u, i, renew) ==
  LET r == u.acc[i].regc
      v == [u EXCEPT !.regc[r].armed = FALSE] IN
  IF u.regc[r].state # "idle" THEN {[st |-> v, ok |-> FALSE]}
  ELSE {[st |-> [v EXCEPT !.regc[r].state = IF renew THEN "asked" ELSE "leaving"],
         ok |-> TRUE],
        [st |-> u, ok |-> FALSE],
        [st |-> Answered(v, i, u.acc[i].gen, "temp"), ok |-> FALSE],
        [st |-> [v EXCEPT !.regc[r].state = "stuck"], ok |-> FALSE]}

(* pjsua_regc_init *)
NewSession(u, i) ==
  LET r == CHOOSE x \in Free(u) : TRUE IN
  [u EXCEPT !.acc[i].regc = r,
            !.regc[r] = [state |-> "idle", armed |-> FALSE,
                         slot |-> i, gen |-> u.acc[i].gen]]

SetRegistration(u, i, renew) ==
  LET v == CancelRetry(u, i) IN
  IF ~u.acc[i].valid THEN {[st |-> u, ok |-> FALSE]}
  ELSE IF v.acc[i].regc # NoSession THEN Ask(v, i, renew)
  ELSE {[st |-> v, ok |-> FALSE]}
       \cup (IF renew THEN Ask(NewSession(v, i), i, TRUE) ELSE {})

-----------------------------------------------------------------------------
(* The workers. *)

Waits(w, job) == pc[w] = Idle /\ pc' = [pc EXCEPT ![w] = job]
Done(w) == pc' = [pc EXCEPT ![w] = Idle]

(* The final response: the session is idle again, and scheduled to refresh *)
(* what was granted, before regc_cb gets the lock.                         *)
TakeAnswer(w, r, code) ==
  /\ \/ regc[r].state = "asked"
     \/ regc[r].state = "leaving" /\ code # "ok"
  /\ Waits(w, [do |-> "answer", regc |-> r, code |-> code,
               slot |-> regc[r].slot, gen |-> regc[r].gen])
  /\ regc' = [regc EXCEPT ![r].state = "idle", ![r].armed = code = "ok"]
  /\ UNCHANGED <<acc, heap, adding, calls>>

(* regc_cb.  After a NAT rewrite it unlocks before it marks the account.   *)
RunAnswer_anySession(w) ==
  LET j == pc[w] IN
  /\ j.do = "answer"
  /\ Becomes(Answered(Now, j.slot, j.gen, j.code))
  /\ Done(w)
  /\ UNCHANGED <<adding, calls>>
RunAnswer(w) ==
  LET j == pc[w]
      i == j.slot IN
  /\ j.do = "answer"
  /\ \/ /\ acc[i].regc # j.regc
        /\ UNCHANGED sys /\ Done(w)
     \/ /\ acc[i].regc = j.regc
        /\ Becomes(Answered(Now, i, j.gen, j.code)) /\ Done(w)
     \/ /\ acc[i].regc = j.regc /\ j.code = "ok" /\ ~acc[i].rewritten
        /\ \E out \in SetRegistration([Now EXCEPT !.acc[i].active = FALSE],
                                      i, TRUE) : Becomes(out.st)
        /\ pc' = [pc EXCEPT ![w] = [do |-> "mark", slot |-> i]]
  /\ UNCHANGED <<adding, calls>>

RunMark(w) ==
  /\ pc[w].do = "mark"
  /\ acc' = [acc EXCEPT ![pc[w].slot].rewritten = TRUE]
  /\ Done(w)
  /\ UNCHANGED <<heap, regc, adding, calls>>

(* auto_rereg_timer_cb *)
PopRetry(w, i) ==
  /\ i \in heap
  /\ heap' = heap \ {i}
  /\ Waits(w, [do |-> "retry", slot |-> i])
  /\ UNCHANGED <<acc, regc, adding, calls>>

RunRetry_once(w) ==
  LET i == pc[w].slot IN
  /\ pc[w].do = "retry"
  /\ IF acc[i].valid /\ acc[i].active
     THEN \E out \in SetRegistration(Now, i, TRUE) : Becomes(out.st)
     ELSE UNCHANGED sys
  /\ Done(w)
  /\ UNCHANGED <<adding, calls>>
RunRetry(w) ==
  LET i == pc[w].slot IN
  /\ pc[w].do = "retry"
  /\ \/ /\ ~(acc[i].valid /\ acc[i].active)
        /\ UNCHANGED sys
     \/ /\ acc[i].valid /\ acc[i].active
        /\ \E out \in SetRegistration(Now, i, TRUE) :
             Becomes(IF out.ok THEN out.st ELSE ScheduleRetry(out.st, i))
  /\ Done(w)
  /\ UNCHANGED <<adding, calls>>

(* regc_refresh_timer_cb.  It does not hold PJSUA_LOCK; whatever fails, a  *)
(* request under way included, is told to regc_cb.                         *)
PopRefresh(w, r) ==
  /\ regc[r].armed
  /\ regc' = [regc EXCEPT ![r].armed = FALSE]
  /\ Waits(w, [do |-> "refresh", regc |-> r])
  /\ UNCHANGED <<acc, heap, adding, calls>>

RunRefresh(w) ==
  LET r == pc[w].regc
      Becoming(state) == regc' = [regc EXCEPT ![r].state = state]
      Fails(code) == pc' = [pc EXCEPT ![w] =
        [do |-> "answer", regc |-> r, code |-> code,
         slot |-> regc[r].slot, gen |-> regc[r].gen]] IN
  /\ pc[w].do = "refresh"
  /\ \/ regc[r].state = "free" /\ Done(w) /\ UNCHANGED regc
     \/ regc[r].state = "idle" /\ Done(w) /\ Becoming("asked")
     \/ regc[r].state = "idle" /\ Fails("temp") /\ UNCHANGED regc
     \/ regc[r].state = "idle" /\ Fails("perm") /\ Becoming("stuck")
     \/ regc[r].state # "free" /\ Fails("perm") /\ UNCHANGED regc
  /\ UNCHANGED <<acc, heap, adding, calls>>

(* pjsua_acc_on_tp_state_changed: the accounts in lost used the transport. *)
Disconnected(lost) ==
  /\ acc' = [i \in Slots |-> IF i \in lost THEN ScheduleRetry(Now, i).acc[i]
                                           ELSE acc[i]]
  /\ heap' = heap \cup lost
  /\ UNCHANGED <<regc, pc, adding, calls>>

-----------------------------------------------------------------------------
(* The application. *)

Call == adding = {} /\ calls < MaxCalls /\ calls' = calls + 1

Working(u, i) ==
  \/ i \in u.heap
  \/ LET r == u.acc[i].regc IN
     r # NoSession /\ u.regc[r].state \in {"asked", "leaving"}

(* pjsua_acc_set_registration, called for the application. *)
Register(i, renew) ==
  \E out \in SetRegistration(Now, i, renew) :
    Becomes([out.st EXCEPT !.acc[i].settled =
               IF out.ok THEN ~renew ELSE ~Working(out.st, i)])

(* pjsua_acc_add takes the first slot that is not valid, and resets none   *)
(* of its registration state; then, unlocked, it starts to register.       *)
Add_count ==
  /\ Call
  /\ \E i \in Slots :
       /\ ~acc[i].valid
       /\ acc' = [acc EXCEPT ![i].valid = TRUE, ![i].gen = calls + 1,
                             ![i].settled = FALSE]
       /\ adding' = {Cardinality({k \in Slots : acc'[k].valid})}
  /\ UNCHANGED <<heap, regc, pc>>
Add ==
  /\ Call
  /\ \E i \in Slots :
       /\ ~acc[i].valid
       /\ \A k \in Slots : k < i => acc[k].valid
       /\ acc' = [acc EXCEPT ![i].valid = TRUE, ![i].gen = calls + 1,
                             ![i].settled = FALSE]
       /\ adding' = {i}
  /\ UNCHANGED <<heap, regc, pc>>

FinishAdd ==
  /\ \E i \in adding : Register(i, TRUE)
  /\ adding' = {}
  /\ UNCHANGED <<pc, calls>>

SetReg(i, renew) ==
  /\ Call
  /\ acc[i].valid
  /\ Register(i, renew)
  /\ UNCHANGED <<pc, adding>>

(* pjsua_acc_del *)
Delete(i) ==
  LET v == CancelRetry(Now, i)
      left == IF acc[i].regc = NoSession THEN {v}
              ELSE {out.st : out \in SetRegistration(v, i, FALSE)} IN
  /\ Call
  /\ acc[i].valid
  /\ \E u \in left :
       Becomes([DropSession(u, i) EXCEPT !.acc[i].valid = FALSE])
  /\ UNCHANGED <<pc, adding>>

-----------------------------------------------------------------------------
Worker(w) ==
  \/ \E r \in Sessions : PopRefresh(w, r)
  \/ \E r \in Sessions, code \in Answers : TakeAnswer(w, r, code)
  \/ \E i \in Slots : PopRetry(w, i)
  \/ RunAnswer(w) \/ RunMark(w) \/ RunRetry(w) \/ RunRefresh(w)

Next ==
  \/ \E w \in Workers : Worker(w)
  \/ \E lost \in SUBSET {i \in Slots : acc[i].valid /\ acc[i].regc # NoSession} :
       lost # {} /\ Disconnected(lost)
  \/ Add \/ FinishAdd
  \/ \E i \in Slots : Delete(i) \/ \E renew \in BOOLEAN : SetReg(i, renew)

Spec == Init /\ [][Next]_vars

(* A worker that waits for the lock gets it; timers are polled; every      *)
(* request ends (its transaction times out); of the retries made again and *)
(* again one is sent, and of those sent one is accepted; neither a refresh *)
(* (due seconds later) that overtakes the accepted answer while that waits *)
(* for the lock, nor a NAT rewrite that cannot be sent, happens every time.*)
Ends(i, codes) == \E w \in Workers, r \in Sessions, code \in codes :
                    r = acc[i].regc /\ TakeAnswer(w, r, code)
Sends(i) == \E w \in Workers : /\ RunRetry(w) /\ pc[w].slot = i
                               /\ \E r \in Sessions : /\ regc[r].state # "asked"
                                                      /\ regc'[r].state = "asked"
Accepts(i) == \E w \in Workers : /\ RunAnswer(w) /\ pc[w].slot = i
                                 /\ pc[w].code = "ok" /\ ~acc'[i].active
Fairness ==
  /\ \A w \in Workers : WF_vars(RunAnswer(w) \/ RunMark(w) \/ RunRetry(w)
                               \/ RunRefresh(w))
  /\ \A i \in Slots :
       /\ SF_vars(\E w \in Workers : PopRetry(w, i))
       /\ SF_vars(Ends(i, Answers)) /\ SF_vars(Ends(i, {"ok"}))
       /\ SF_vars(Sends(i)) /\ SF_vars(Accepts(i))
  /\ WF_vars(FinishAdd)

FairSpec == Spec /\ Fairness

-----------------------------------------------------------------------------
(* Every variable keeps its type. *)
TypeOK ==
  /\ acc \in [Slots -> Account]
  /\ heap \subseteq Slots
  /\ regc \in [Sessions -> Session]
  /\ pc \in [Workers -> Job]
  /\ adding \subseteq Slots
  /\ calls \in 0 .. MaxCalls

(* No session outlives its account: one that is idle, asked or armed       *)
(* belongs to exactly the account that points to it, or it would go on     *)
(* registering a deleted account.  A retry timer in the heap is one its    *)
(* slot knows of (timer.id), so that the next cancel finds it; that the    *)
(* slot's account still exists is not said (RetryOfAccount).               *)
NoOrphan ==
  /\ \A r \in Sessions :
       regc[r].state # "free" =>
         /\ acc[regc[r].slot].regc = r
         /\ acc[regc[r].slot].valid
         /\ acc[regc[r].slot].gen = regc[r].gen
  /\ \A i \in heap : acc[i].timer

(* "Cancel any re-registration timer", says pjsua_acc_del: none is left of *)
(* an account that was deleted.                                            *)
RetryOfAccount == \A i \in heap : acc[i].valid

(* A slot and the address of a session are both used again, and an answer  *)
(* waits for the lock meanwhile: what regc_cb stores and tells (they go    *)
(* together) is still an answer to that very account's own request, and    *)
(* nothing is told of a deleted account.                                   *)
ToldOfOwn ==
  [][\A i \in Slots :
       acc'[i].codeOf # acc[i].codeOf =>
         acc[i].valid /\ acc'[i].codeOf = acc[i].gen]_vars

(* While an account retries, something is left that will go on: its timer, *)
(* a worker in the timer's callback, a request, or an answer that waits    *)
(* for the lock -- or the application knows (its own call failed, or it    *)
(* was told of a failure that is not retried).  Calls, timers,             *)
(* disconnections and answers may come in any order.                       *)
RetryAlive ==
  \A i \in Slots :
    acc[i].valid /\ acc[i].active /\ ~acc[i].settled /\ i \notin adding =>
      \/ Working(Now, i)
      \/ \E w \in Workers :
           \/ pc[w].do = "retry" /\ pc[w].slot = i
           \/ pc[w].do = "answer" /\ pc[w].regc = acc[i].regc

(* Once the application leaves it alone, an account that retries is        *)
(* registered again, unless it is refused for good, or its session is      *)
(* stuck (see Regc, a send that fails without a callback).                 *)
Retrying(i) ==
  /\ acc[i].valid /\ acc[i].active /\ ~acc[i].settled
  /\ \A r \in Sessions : r = acc[i].regc => regc[r].state # "stuck"
RetriesSucceed == \A i \in Slots : Retrying(i) ~> ~Retrying(i)

(* What pjsua.h says of pjsua_acc_info.status: the status code of this     *)
(* account's registration, or zero.                                        *)
StatusIsOwn ==
  \A i \in Slots : acc[i].valid => acc[i].codeOf \in {0, acc[i].gen}
=============================================================================
