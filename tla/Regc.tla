-------------------------------- MODULE Regc --------------------------------
(***************************************************************************)
(* The life of one SIP client registration (pjsip_regc, sip_reg.c) and of  *)
(* the pjsua account that drives it (pjsua_acc.c), from pjsip_regc_create  *)
(* to the release of its pool.                                             *)
(*                                                                         *)
(* A thread runs at most three nested calls: its own job (an account       *)
(* operation, a refresh timer or a transaction callback), a                *)
(* pjsip_regc_send made by that job, and a regc_tsx_callback that the      *)
(* transport runs inside that send when it fails at once.  Each nested     *)
(* call is a frame with a program counter; a step is the code between two  *)
(* points where another thread can interleave.                             *)
(*                                                                         *)
(* A recursive mutex is the set of frames holding it, and busy_ctr is the  *)
(* set of frames that incremented it.                                      *)
(*                                                                         *)
(* A definition named D_error is D with a mistake a maintainer could make; *)
(* no specification uses it, it shows which property notices the mistake.  *)
(***************************************************************************)
EXTENDS Naturals, FiniteSets

CONSTANTS
  Apps,      \* threads that call the pjsua API
  Workers,   \* threads that poll the endpoint: timers and transactions
  MaxSend,   \* bound of this model: requests sent in one life
  Failures   \* the ways a send may fail at once: a subset of FailureKinds

FailureKinds == {"create", "callback", "silent"}

ASSUME ThreadsAssumption == Apps \cap Workers = {}
ASSUME BoundAssumption == MaxSend \in Nat \ {0}
ASSUME FailuresAssumption == Failures \subseteq FailureKinds

Threads == Apps \cup Workers
Frames == Threads \X {"root", "send", "nested"}
Root(t) == <<t, "root">>
Send(t) == <<t, "send">>
Nested(t) == <<t, "nested">>

VARIABLES
  freed,     \* the pool was released: the structure is gone
  hasTsx,    \* regc->has_tsx
  del,       \* regc->_delete_flag
  cb,        \* regc->cb is not NULL
  op,        \* regc->current_op
  autoReg,   \* regc->auto_reg
  timerId,   \* regc->timer.id is not 0
  cseq,      \* regc->cseq_hdr->cseq
  busy,      \* the frames counted in regc->busy_ctr
  rlock,     \* the frames holding regc->lock
  plock,     \* the frames holding PJSUA_LOCK
  handle,    \* acc->regc still points to this structure
  rewritten, \* acc->contact_rewritten
  armed,     \* the refresh timer is in the timer heap
  pend,      \* the requests at the transaction layer: <<CSeq, kind>>
  pc,        \* where each frame is
  req,       \* the kind of the request each thread sends or has answered
  ret,       \* what the last pjsip_regc_send of each thread returned
  code,      \* the status code class a transaction callback handles
  out,       \* what regc_cb will do: "keep" the regc or "drop" it; "refused" is
             \* the drop after a refresh that could not be sent
  deleting,  \* the thread is in pjsua_acc_del
  fault      \* undefined behaviour met so far

regcVars == <<freed, hasTsx, del, cb, op, autoReg, timerId, cseq>>
lockVars == <<busy, rlock, plock>>
accVars == <<handle, rewritten>>
envVars == <<armed, pend>>
localVars == <<req, ret, code, out, deleting>>
vars == <<regcVars, lockVars, accVars, envVars, pc, localVars, fault>>

Ops == {"idle", "reg", "unreg"}
Kinds == {"reg", "unreg"}
Codes == {"ok", "fail", "auth", "brief"}
Faults == {"check", "timer", "null"}

PCs == {"idle",
        "setreg", "op_sent",                              \* account operations
        "tm_popped", "tm_reg", "tm_sent",                 \* regc_refresh_timer_cb
        "s_enter", "s_lock", "s_busy", "s_send", "s_nest", "s_relock",
        "t_enter", "t_lock", "t_user", "t_relock", "t_handle", "t_sent",
        "cb_check", "cb_call", "cb_in", "cb_body", "cb_sent", "cb_out", "cb_back",
        "dec", "chk"}

(* The points at which a frame is counted in busy_ctr. *)
Counted == {"tm_reg", "tm_sent",
            "s_lock", "s_busy", "s_send", "s_nest", "s_relock",
            "t_lock", "t_user", "t_relock", "t_handle", "t_sent",
            "cb_check", "cb_call", "cb_in", "cb_body", "cb_sent", "cb_out", "cb_back",
            "dec"}

Free(lock, t) == \A f \in lock : f[1] = t
RegcFree(t) == Free(rlock, t)
PjsuaFree_unlocked(t) == TRUE
PjsuaFree(t) == Free(plock, t)

(* Undefined behaviour that ends the process: a refresh timer on a released *)
(* structure takes a NULL lock, and a NULL callback is called.              *)
Crashed == fault \cap {"timer", "null"} # {}

Init ==
  /\ freed = FALSE /\ hasTsx = FALSE /\ del = FALSE /\ cb = TRUE
  /\ op = "idle" /\ autoReg = FALSE /\ timerId = FALSE /\ cseq = 0
  /\ busy = {} /\ rlock = {} /\ plock = {}
  /\ handle = TRUE /\ rewritten = FALSE
  /\ armed = FALSE /\ pend = {}
  /\ pc = [f \in Frames |-> "idle"]
  /\ req = [t \in Threads |-> "reg"]
  /\ ret = [t \in Threads |-> "ok"]
  /\ code = [f \in Frames |-> "ok"]
  /\ out = [f \in Frames |-> "keep"]
  /\ deleting = [t \in Threads |-> FALSE]
  /\ fault = {}

Goto(f, where) == pc' = [pc EXCEPT ![f] = where]
Call(f, where, g, entry) == pc' = [pc EXCEPT ![f] = where, ![g] = entry]

-----------------------------------------------------------------------------
CancelTimer_idOnly == timerId' = FALSE /\ UNCHANGED armed

(* Cancelling the refresh timer: the heap entry goes only if the id is set. *)
CancelTimer ==
  /\ IF timerId THEN armed' = FALSE ELSE UNCHANGED armed
  /\ timerId' = FALSE

Register_currentOp(t, auto) ==
  /\ RegcFree(t)
  /\ req' = [req EXCEPT ![t] = op]
  /\ CancelTimer
  /\ autoReg' = auto

(* pjsip_regc_register: under the lock, with the request created the refresh *)
(* timer is cancelled; a failure to create the request leaves it armed.      *)
Register(t, auto) ==
  /\ RegcFree(t)
  /\ req' = [req EXCEPT ![t] = "reg"]
  /\ CancelTimer
  /\ autoReg' = auto

RegisterFails(t) ==
  /\ "create" \in Failures
  /\ RegcFree(t)
  /\ UNCHANGED <<req, armed, timerId, autoReg>>

(* pjsip_regc_unregister: the timer is cancelled first. *)
Unregister(t) ==
  /\ RegcFree(t)
  /\ CancelTimer
  /\ req' = [req EXCEPT ![t] = "unreg"]
  /\ UNCHANGED autoReg

UnregisterFails(t) ==
  /\ "create" \in Failures
  /\ RegcFree(t)
  /\ CancelTimer
  /\ UNCHANGED <<req, autoReg>>

(* pjsip_regc_destroy: mark the structure if somebody uses it, else cancel *)
(* its timer and release it.                                               *)
InUse_noTsx == busy # {}
InUse == hasTsx \/ busy # {}

Destroy(t) ==
  /\ RegcFree(t)
  /\ \/ /\ InUse
        /\ del' = TRUE
        /\ cb' = FALSE
        /\ UNCHANGED <<freed, armed, timerId>>
     \/ /\ ~InUse
        /\ freed' = TRUE
        /\ CancelTimer
        /\ UNCHANGED <<del, cb>>

(* The caller of a finished frame continues: a send goes on after the       *)
(* transaction callback nested in it.                                       *)
Return(f) ==
  IF f[2] = "nested" THEN [pc EXCEPT ![f] = "idle", ![Send(f[1])] = "s_relock"]
                     ELSE [pc EXCEPT ![f] = "idle"]

-----------------------------------------------------------------------------
(* pjsua_acc_set_registration and pjsua_acc_del, under PJSUA_LOCK.  A worker *)
(* calls the first to re-register after the transport was lost.              *)
BeginSetRegistration(t, renew) ==
  /\ pc[Root(t)] = "idle"
  /\ PjsuaFree(t)
  /\ handle
  /\ cseq < MaxSend
  /\ t \in Workers => renew
  /\ plock' = plock \cup {Root(t)}
  /\ req' = [req EXCEPT ![t] = IF renew THEN "reg" ELSE "unreg"]
  /\ Goto(Root(t), "setreg")
  /\ UNCHANGED <<regcVars, busy, rlock, accVars, envVars, ret, code, out, deleting, fault>>

BeginAccDel(t) ==
  /\ t \in Apps
  /\ pc[Root(t)] = "idle"
  /\ PjsuaFree(t)
  /\ handle
  /\ cseq < MaxSend
  /\ plock' = plock \cup {Root(t)}
  /\ req' = [req EXCEPT ![t] = "unreg"]
  /\ deleting' = [deleting EXCEPT ![t] = TRUE]
  /\ Goto(Root(t), "setreg")
  /\ UNCHANGED <<regcVars, busy, rlock, accVars, envVars, ret, code, out, fault>>

MakeRequest(t) ==
  LET f == Root(t) IN
  /\ pc[f] = "setreg"
  /\ \/ /\ IF req[t] = "reg" THEN Register(t, TRUE) ELSE Unregister(t)
        /\ Call(f, "op_sent", Send(t), "s_enter")
     \/ /\ IF req[t] = "reg" THEN RegisterFails(t) ELSE UnregisterFails(t)
        /\ Goto(f, "op_sent")
  /\ UNCHANGED <<freed, hasTsx, del, cb, op, cseq, lockVars, accVars, pend,
                 ret, code, out, deleting, fault>>

(* on_return of set_registration; pjsua_acc_del then destroys the regc,     *)
(* unless a callback nested in the send did, and clears acc->regc.          *)
EndOperation(t) ==
  LET f == Root(t) IN
  /\ pc[f] = "op_sent"
  /\ pc[Send(t)] = "idle"
  /\ IF deleting[t] /\ handle THEN Destroy(t)
                              ELSE UNCHANGED <<freed, del, cb, armed, timerId>>
  /\ handle' = IF deleting[t] THEN FALSE ELSE handle
  /\ deleting' = [deleting EXCEPT ![t] = FALSE]
  /\ plock' = plock \ {f}
  /\ Goto(f, "idle")
  /\ UNCHANGED <<hasTsx, op, autoReg, cseq, busy, rlock, rewritten, pend,
                 req, ret, code, out, fault>>

-----------------------------------------------------------------------------
(* pjsip_regc_send.  A request is outstanding while has_tsx is set. *)
Outstanding_afterSend == pend # {}
Outstanding == hasTsx

SendEnter(t) ==
  LET f == Send(t) IN
  /\ pc[f] = "s_enter"
  /\ busy' = busy \cup {f}
  /\ Goto(f, "s_lock")
  /\ UNCHANGED <<regcVars, rlock, plock, accVars, envVars, localVars, fault>>

SendBusy(t) ==
  LET f == Send(t) IN
  /\ pc[f] = "s_lock"
  /\ RegcFree(t)
  /\ Outstanding
  /\ Goto(f, "s_busy")
  /\ UNCHANGED <<regcVars, lockVars, accVars, envVars, localVars, fault>>

SendBusyReturn(t) ==
  LET f == Send(t) IN
  /\ pc[f] = "s_busy"
  /\ busy' = busy \ {f}
  /\ ret' = [ret EXCEPT ![t] = "err"]
  /\ Goto(f, "idle")
  /\ UNCHANGED <<regcVars, rlock, plock, accVars, envVars, req, code, out, deleting, fault>>

SendClaim(t) ==
  LET f == Send(t) IN
  /\ pc[f] = "s_lock"
  /\ RegcFree(t)
  /\ ~Outstanding
  /\ hasTsx' = TRUE
  /\ op' = req[t]
  /\ cseq' = cseq + 1
  /\ Goto(f, "s_send")
  /\ UNCHANGED <<freed, del, cb, autoReg, timerId, lockVars, accVars, envVars, localVars, fault>>

(* pjsip_endpt_send_request, without the lock of this frame: the request    *)
(* goes out; or the transport fails and the transaction callback runs       *)
(* inside the call; or no transaction is created and nobody is told.        *)
SendOut(t) ==
  LET f == Send(t) IN
  /\ pc[f] = "s_send"
  /\ \/ /\ pend' = pend \cup {<<cseq, req[t]>>}
        /\ ret' = [ret EXCEPT ![t] = "ok"]
        /\ Goto(f, "s_relock")
        /\ UNCHANGED code
     \/ /\ "callback" \in Failures
        /\ ret' = [ret EXCEPT ![t] = "err"]
        /\ code' = [code EXCEPT ![Nested(t)] = "fail"]
        /\ Call(f, "s_nest", Nested(t), "t_enter")
        /\ UNCHANGED pend
     \/ /\ "silent" \in Failures
        /\ ret' = [ret EXCEPT ![t] = "err"]
        /\ Goto(f, "s_relock")
        /\ UNCHANGED <<pend, code>>
  /\ UNCHANGED <<regcVars, lockVars, accVars, armed, req, out, deleting, fault>>

SendRelock(t) ==
  LET f == Send(t) IN
  /\ pc[f] = "s_relock"
  /\ RegcFree(t)
  /\ Goto(f, "dec")
  /\ UNCHANGED <<regcVars, lockVars, accVars, envVars, localVars, fault>>

(* The common epilogue: drop the reference, and the last one out destroys a *)
(* marked structure.  _delete_flag is read after the counter reached 0.     *)
Drop(f) ==
  /\ pc[f] = "dec"
  /\ busy' = busy \ {f}
  /\ pc' = IF busy = {f} THEN [pc EXCEPT ![f] = "chk"] ELSE Return(f)
  /\ UNCHANGED <<regcVars, rlock, plock, accVars, envVars, localVars, fault>>

DestroyIfMarked_never(t) == UNCHANGED <<freed, del, cb, armed, timerId>>
DestroyIfMarked(t) ==
  IF del THEN Destroy(t) ELSE UNCHANGED <<freed, del, cb, armed, timerId>>

LastOut(f) ==
  /\ pc[f] = "chk"
  /\ IF freed
     THEN /\ fault' = fault \cup {"check"}
          /\ UNCHANGED <<freed, del, cb, armed, timerId>>
     ELSE /\ DestroyIfMarked(f[1])
          /\ UNCHANGED fault
  /\ pc' = Return(f)
  /\ UNCHANGED <<hasTsx, op, autoReg, cseq, lockVars, accVars, pend, localVars>>

-----------------------------------------------------------------------------
(* regc_refresh_timer_cb: the worker first removes the entry from the heap. *)
TimerPop(t) ==
  LET f == Root(t) IN
  /\ t \in Workers
  /\ pc[f] = "idle"
  /\ armed
  /\ cseq < MaxSend
  /\ armed' = FALSE
  /\ Goto(f, "tm_popped")
  /\ UNCHANGED <<regcVars, lockVars, accVars, pend, localVars, fault>>

TimerEnter(t) ==
  LET f == Root(t) IN
  /\ pc[f] = "tm_popped"
  /\ IF freed
     THEN /\ fault' = fault \cup {"timer"}
          /\ Goto(f, "idle")
          /\ UNCHANGED <<busy, timerId>>
     ELSE /\ busy' = busy \cup {f}
          /\ timerId' = FALSE
          /\ Goto(f, "tm_reg")
          /\ UNCHANGED fault
  /\ UNCHANGED <<freed, hasTsx, del, cb, op, autoReg, cseq, rlock, plock,
                 accVars, envVars, localVars>>

TimerRegister(t) ==
  LET f == Root(t) IN
  /\ pc[f] = "tm_reg"
  /\ \/ /\ Register(t, TRUE)
        /\ Call(f, "tm_sent", Send(t), "s_enter")
        /\ UNCHANGED ret
     \/ /\ RegisterFails(t)
        /\ ret' = [ret EXCEPT ![t] = "err"]
        /\ Goto(f, "tm_sent")
  /\ UNCHANGED <<freed, hasTsx, del, cb, op, cseq, lockVars, accVars, pend,
                 code, out, deleting, fault>>

TimerSent(t) ==
  LET f == Root(t) IN
  /\ pc[f] = "tm_sent"
  /\ pc[Send(t)] = "idle"
  /\ IF ret[t] = "ok" THEN Goto(f, "dec") /\ UNCHANGED out
                      ELSE Goto(f, "cb_check") /\ out' = [out EXCEPT ![f] = "refused"]
  /\ UNCHANGED <<regcVars, lockVars, accVars, envVars, req, ret, code, deleting, fault>>

-----------------------------------------------------------------------------
(* regc_tsx_callback.  The transaction layer reports the final response, or *)
(* a timeout, of a request once.                                            *)
Answer(t, p, c) ==
  LET f == Root(t) IN
  /\ t \in Workers
  /\ pc[f] = "idle"
  /\ p \in pend
  /\ c \in {"auth", "brief"} => cseq < MaxSend
  /\ pend' = pend \ {p}
  /\ code' = [code EXCEPT ![f] = c]
  /\ req' = [req EXCEPT ![t] = p[2]]
  /\ Goto(f, "t_enter")
  /\ UNCHANGED <<regcVars, lockVars, accVars, armed, ret, out, deleting, fault>>

TsxEnter(f) ==
  /\ pc[f] = "t_enter"
  /\ busy' = busy \cup {f}
  /\ Goto(f, "t_lock")
  /\ UNCHANGED <<regcVars, rlock, plock, accVars, envVars, localVars, fault>>

TsxLock(f) ==
  /\ pc[f] = "t_lock"
  /\ RegcFree(f[1])
  /\ hasTsx' = FALSE
  /\ IF ~del /\ op = "reg"
     THEN Goto(f, "t_user") /\ UNCHANGED rlock
     ELSE Goto(f, "t_handle") /\ rlock' = rlock \cup {f}
  /\ UNCHANGED <<freed, del, cb, op, autoReg, timerId, cseq, busy, plock,
                 accVars, envVars, localVars, fault>>

(* The account's regc_tsx_cb takes and leaves PJSUA_LOCK. *)
TsxUser(f) ==
  /\ pc[f] = "t_user"
  /\ PjsuaFree(f[1])
  /\ Goto(f, "t_relock")
  /\ UNCHANGED <<regcVars, lockVars, accVars, envVars, localVars, fault>>

TsxRelock(f) ==
  /\ pc[f] = "t_relock"
  /\ RegcFree(f[1])
  /\ rlock' = rlock \cup {f}
  /\ Goto(f, "t_handle")
  /\ UNCHANGED <<regcVars, busy, plock, accVars, envVars, localVars, fault>>

(* The outcomes handed to regc_cb, with the lock released. *)
Notify_locked(f, result) ==
  /\ out' = [out EXCEPT ![f] = result]
  /\ UNCHANGED rlock
  /\ Goto(f, "cb_check")

Notify(f, result) ==
  /\ out' = [out EXCEPT ![f] = result]
  /\ rlock' = rlock \ {f}
  /\ Goto(f, "cb_check")

(* 401/407: send the request again with credentials, the lock of this frame *)
(* still held, even when the structure is marked for deletion.              *)
HandleAuth(f) ==
  LET t == f[1] IN
  /\ pc[f] = "t_handle" /\ code[f] = "auth"
  /\ op' = "idle"
  /\ \/ /\ Call(f, "t_sent", Send(t), "s_enter")
        /\ UNCHANGED <<rlock, out, ret>>
     \/ /\ ret' = [ret EXCEPT ![t] = "err"]      \* no usable credentials
        /\ Goto(f, "t_sent")
        /\ UNCHANGED <<rlock, out>>
  /\ UNCHANGED <<freed, hasTsx, del, cb, autoReg, timerId, cseq, busy, plock,
                 accVars, envVars, req, code, deleting, fault>>

HandleDeleted(f) ==
  /\ pc[f] = "t_handle" /\ code[f] # "auth"
  /\ del
  /\ op' = "idle"
  /\ rlock' = rlock \ {f}
  /\ Goto(f, "dec")
  /\ UNCHANGED <<freed, hasTsx, del, cb, autoReg, timerId, cseq, busy, plock,
                 accVars, envVars, localVars, fault>>

(* 423 to a registration: register again with the server's minimum. *)
HandleBrief(f) ==
  LET t == f[1] IN
  /\ pc[f] = "t_handle" /\ code[f] = "brief"
  /\ ~del /\ op = "reg"
  /\ op' = "idle"
  /\ \/ /\ Register(t, autoReg)
        /\ Call(f, "t_sent", Send(t), "s_enter")
        /\ UNCHANGED ret
     \/ /\ RegisterFails(t)
        /\ ret' = [ret EXCEPT ![t] = "err"]
        /\ Goto(f, "t_sent")
  /\ UNCHANGED <<freed, hasTsx, del, cb, cseq, lockVars, accVars, pend,
                 code, out, deleting, fault>>

TsxSent(f) ==
  /\ pc[f] = "t_sent"
  /\ pc[Send(f[1])] = "idle"
  /\ IF ret[f[1]] = "err" /\ ~del
     THEN Notify(f, "drop")
     ELSE /\ rlock' = rlock \ {f}
          /\ Goto(f, "dec")
          /\ UNCHANGED out
  /\ UNCHANGED <<regcVars, busy, plock, accVars, envVars, req, ret, code, deleting, fault>>

(* calculate_response_expiration: positive only for a registration. *)
Granted(f, expires) == code[f] = "ok" /\ expires > 0 /\ op = "reg"

(* schedule_registration *)
Schedule_offByOne(f, expires) ==
  IF code[f] = "ok" /\ expires > 1 /\ op = "reg" /\ autoReg
  THEN armed' = TRUE /\ timerId' = TRUE
  ELSE UNCHANGED <<armed, timerId>>
Schedule(f, expires) ==
  IF Granted(f, expires) /\ autoReg
  THEN armed' = TRUE /\ timerId' = TRUE
  ELSE UNCHANGED <<armed, timerId>>

(* The final part (label handle_err): arm the refresh timer, notify.  A 423 *)
(* comes here when the server's minimum is not above what was asked.        *)
HandleFinal(f, expires) ==
  /\ pc[f] = "t_handle" /\ code[f] # "auth"
  /\ ~del
  /\ Schedule(f, expires)
  /\ op' = "idle"
  /\ Notify(f, IF Granted(f, expires) THEN "keep" ELSE "drop")
  /\ UNCHANGED <<freed, hasTsx, del, cb, autoReg, cseq, busy, plock, accVars,
                 pend, req, ret, code, deleting, fault>>

-----------------------------------------------------------------------------
(* call_callback reads regc->cb twice without the lock: the second value is *)
(* NULL when pjsip_regc_destroy ran in between, unless the compiler kept    *)
(* the first one.                                                           *)
CallbackCheck(f) ==
  /\ pc[f] = "cb_check"
  /\ Goto(f, IF cb THEN "cb_call" ELSE "cb_back")
  /\ UNCHANGED <<regcVars, lockVars, accVars, envVars, localVars, fault>>

CallbackCall(f) ==
  /\ pc[f] = "cb_call"
  /\ \/ Goto(f, "cb_in") /\ UNCHANGED fault
     \/ ~cb /\ fault' = fault \cup {"null"} /\ Goto(f, "cb_back")
  /\ UNCHANGED <<regcVars, lockVars, accVars, envVars, localVars>>

(* regc_cb of pjsua_acc.c *)
CallbackIn(f) ==
  /\ pc[f] = "cb_in"
  /\ PjsuaFree(f[1])
  /\ plock' = IF handle THEN plock \cup {f} ELSE plock
  /\ Goto(f, IF handle THEN "cb_body" ELSE "cb_back")
  /\ UNCHANGED <<regcVars, busy, rlock, accVars, envVars, localVars, fault>>

CallbackDrop(f) ==
  /\ pc[f] = "cb_body" /\ out[f] \in {"drop", "refused"}
  /\ Destroy(f[1])
  /\ handle' = FALSE
  /\ rewritten' = FALSE
  /\ Goto(f, "cb_out")
  /\ UNCHANGED <<hasTsx, op, autoReg, cseq, lockVars, pend, localVars, fault>>

CallbackKeep(f) ==
  /\ pc[f] = "cb_body" /\ out[f] = "keep"
  /\ rewritten' = FALSE
  /\ Goto(f, "cb_out")
  /\ UNCHANGED <<regcVars, lockVars, handle, envVars, localVars, fault>>

(* acc_check_nat_addr found another address: it registers the new Contact   *)
(* with pjsua_acc_set_registration from inside the callback.                *)
CallbackRewrite(f) ==
  LET t == f[1] IN
  /\ pc[f] = "cb_body" /\ out[f] = "keep"
  /\ ~rewritten
  /\ cseq < MaxSend
  /\ \/ /\ Register(t, TRUE)
        /\ Call(f, "cb_sent", Send(t), "s_enter")
     \/ /\ RegisterFails(t)
        /\ Goto(f, "cb_sent")
  /\ UNCHANGED <<freed, hasTsx, del, cb, op, cseq, lockVars, accVars, pend,
                 ret, code, out, deleting, fault>>

CallbackRewritten(f) ==
  /\ pc[f] = "cb_sent"
  /\ pc[Send(f[1])] = "idle"
  /\ rewritten' = TRUE
  /\ plock' = plock \ {f}
  /\ Goto(f, "cb_back")
  /\ UNCHANGED <<regcVars, busy, rlock, handle, envVars, localVars, fault>>

CallbackOut(f) ==
  /\ pc[f] = "cb_out"
  /\ plock' = plock \ {f}
  /\ Goto(f, "cb_back")
  /\ UNCHANGED <<regcVars, busy, rlock, accVars, envVars, localVars, fault>>

(* Back in sip_reg.c: a transaction callback takes its lock once more, the  *)
(* refresh timer does not.                                                  *)
CallbackBack(f) ==
  /\ pc[f] = "cb_back"
  /\ out[f] # "refused" => RegcFree(f[1])
  /\ Goto(f, "dec")
  /\ UNCHANGED <<regcVars, lockVars, accVars, envVars, localVars, fault>>

-----------------------------------------------------------------------------
AccountStep(t) ==
  \/ MakeRequest(t) \/ EndOperation(t)

SendStep(t) ==
  \/ SendEnter(t) \/ SendBusy(t) \/ SendBusyReturn(t) \/ SendClaim(t)
  \/ SendOut(t) \/ SendRelock(t)

TimerStep(t) == TimerEnter(t) \/ TimerRegister(t) \/ TimerSent(t)

TsxStep(f) ==
  \/ TsxEnter(f) \/ TsxLock(f) \/ TsxUser(f) \/ TsxRelock(f)
  \/ HandleAuth(f) \/ HandleDeleted(f) \/ HandleBrief(f) \/ TsxSent(f)
  \/ \E expires \in {0, 1} : HandleFinal(f, expires)

CallbackStep(f) ==
  \/ CallbackCheck(f) \/ CallbackCall(f) \/ CallbackIn(f) \/ CallbackDrop(f)
  \/ CallbackKeep(f) \/ CallbackRewrite(f) \/ CallbackRewritten(f)
  \/ CallbackOut(f) \/ CallbackBack(f)

(* What a thread does once it is in a call. *)
Continue(t) ==
  /\ ~Crashed
  /\ \/ AccountStep(t)
     \/ SendStep(t)
     \/ TimerStep(t)
     \/ \E f \in {Root(t), Send(t), Nested(t)} :
          TsxStep(f) \/ CallbackStep(f) \/ Drop(f) \/ LastOut(f)

Operation(t) ==
  /\ ~Crashed
  /\ \/ \E renew \in BOOLEAN : BeginSetRegistration(t, renew)
     \/ BeginAccDel(t)

Event(t) ==
  /\ ~Crashed
  /\ \/ TimerPop(t)
     \/ \E p \in pend, c \in Codes : Answer(t, p, c)

Next == \E t \in Threads : Continue(t) \/ Operation(t) \/ Event(t)

(* A thread that can run does; the poll loop of a worker delivers what is   *)
(* due, and a transaction always ends (its own timer ends it at last).      *)
Fairness ==
  /\ \A t \in Threads : WF_vars(Continue(t))
  /\ \A t \in Workers : WF_vars(~Crashed /\ \E p \in pend, c \in Codes : Answer(t, p, c))

Spec == Init /\ [][Next]_vars
FairSpec == Spec /\ Fairness

-----------------------------------------------------------------------------
RegcType ==
  /\ freed \in BOOLEAN /\ hasTsx \in BOOLEAN /\ del \in BOOLEAN /\ cb \in BOOLEAN
  /\ op \in Ops /\ autoReg \in BOOLEAN /\ timerId \in BOOLEAN /\ cseq \in Nat
  /\ handle \in BOOLEAN /\ rewritten \in BOOLEAN
  /\ armed \in BOOLEAN /\ pend \subseteq Nat \X Kinds

HoldersType ==
  busy \subseteq Frames /\ rlock \subseteq Frames /\ plock \subseteq Frames

LocalType ==
  /\ pc \in [Frames -> PCs]
  /\ req \in [Threads -> Kinds]
  /\ ret \in [Threads -> {"ok", "err"}]
  /\ code \in [Frames -> Codes]
  /\ out \in [Frames -> {"keep", "drop", "refused"}]
  /\ deleting \in [Threads -> BOOLEAN]

(* The type invariant: every field of pjsip_regc and every local of the     *)
(* calls under way stays in its range.                                      *)
TypeOK == RegcType /\ HoldersType /\ LocalType /\ fault \subseteq Faults

(* Once the pool is released nobody may use the structure: the account does *)
(* not point to it, no request can call it back, and every call that        *)
(* counted itself in busy_ctr has left.  What may remain is a timer already *)
(* taken from the heap, an operation that only has to return, and a thread  *)
(* between its decrement and its look at _delete_flag.                      *)
ReleasedUnused ==
  freed => /\ ~handle
           /\ pend = {}
           /\ \A f \in Frames : pc[f] \in {"idle", "chk", "tm_popped", "op_sent"}

(* The calls that own the outstanding request: the sender until it went     *)
(* out, the transaction callback until it clears has_tsx.                   *)
Claims == {f \in Frames : pc[f] \in {"s_send", "t_enter", "t_lock"}}

(* regc->has_tsx tells exactly whether a request is outstanding, and there  *)
(* is never a second one, whatever account operations, timers and responses *)
(* do (as long as a failing send is reported to the callback).              *)
OneRequest ==
  Cardinality(pend) + Cardinality(Claims) = IF hasTsx THEN 1 ELSE 0

(* No thread holding PJSUA_LOCK waits for a regc lock whose owner waits for *)
(* PJSUA_LOCK.                                                              *)
WantsRegc(t) ==
  \/ pc[Root(t)] = "setreg"
  \/ \E f \in {Root(t), Send(t), Nested(t)} :
       \/ pc[f] \in {"s_lock", "s_relock", "t_lock", "t_relock", "cb_body"}
       \/ pc[f] = "cb_back" /\ out[f] # "refused"
WantsPjsua(t) ==
  \E f \in {Root(t), Send(t), Nested(t)} : pc[f] \in {"t_user", "cb_in"}

NoCircularWait ==
  \A t, u \in Threads :
    ~ /\ ~PjsuaFree(u) /\ plock # {} /\ PjsuaFree(t) /\ WantsRegc(t)
      /\ ~RegcFree(t) /\ rlock # {} /\ RegcFree(u) /\ WantsPjsua(u)

(* Between calls, a client that still has its registration and has asked    *)
(* for something has either a request outstanding or a refresh to come: no  *)
(* order of operations, answers and callbacks leaves a registration that    *)
(* silently lapses at the registrar.                                        *)
Quiet == \A f \in Frames : pc[f] = "idle"
RefreshKept == Quiet /\ handle /\ cseq > 0 /\ pend = {} => armed

(* The timer of a released structure is not in the heap, and none that was  *)
(* popped earlier runs on it.                                               *)
NoTimerAfterRelease == ~(freed /\ armed) /\ "timer" \notin fault

(* regc_cb works on the structure the account owns while it holds           *)
(* PJSUA_LOCK: nobody destroys it under the callback's feet.                *)
CallbackOwnsAccount ==
  \A f \in Frames : pc[f] = "cb_body" => handle /\ ~del /\ ~freed /\ f \in plock

(* The last user out looks at _delete_flag of a structure that is still     *)
(* there: no other thread released it after the counter reached 0.          *)
NoReadAfterRelease == "check" \notin fault

(* The operation recorded in current_op is the one whose answer is awaited. *)
OpMatchesRequest == \A p \in pend : op = p[2]

(* pjsip_regc_destroy clears the callback before the structure goes, and a  *)
(* registration that is destroyed during a request does not call it any     *)
(* more: call_callback never calls through the pointer that was cleared.    *)
NoNullCall == "null" \notin fault

(* The structure is released once, by whoever finds it unused after the     *)
(* account let go of it, and nobody uses it afterwards: a call counted in   *)
(* busy_ctr uses it, and so does the request that has_tsx stands for.       *)
Request == <<"request", "outstanding">>
UsersNow == busy \cup (IF hasTsx THEN {Request} ELSE {})
RC == INSTANCE Refcount WITH Users <- Frames \cup {Request}, users <- UsersNow,
                             owner <- handle, released <- freed
ImplementsRefcount == RC!Spec

(* A structure the account let go of is released in the end.                *)
ReleasedEventually == ~handle ~> (freed \/ Crashed)

(* An account operation returns to its caller: neither lock, nor a callback *)
(* nested in the send, nor the workers can hold it for ever.                *)
OperationsReturn ==
  \A t \in Apps : pc[Root(t)] # "idle" ~> (pc[Root(t)] = "idle" \/ Crashed)
=============================================================================
