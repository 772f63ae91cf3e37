------------------------- MODULE RegcReliable_proofs -------------------------
(***************************************************************************)
(* Theorems about Regc that need something of the transport or of the      *)
(* threads: the ways of failing at once that are ruled out, and that there *)
(* is one worker thread, are hypotheses of each of them.  Nothing bounds   *)
(* the threads of the application or the requests.                         *)
(***************************************************************************)
EXTENDS Regc_proofs, FiniteSetTheorems

-----------------------------------------------------------------------------
(* No failure is silent: one request at a time.                            *)

(* has_tsx is set for a request at the transaction layer, on its way to it *)
(* or on its way back.                                                     *)
RequestOwned == hasTsx => pend # {} \/ \E f \in Frames : Claiming(f)

(* A send, an answer and its callback hand the request on; only a send     *)
(* that fails without telling would lose it.                               *)
LEMMA RequestOwnedStep ==
  ASSUME IInv, RequestOwned, [Next]_vars, "silent" \notin Failures
  PROVE  RequestOwned'
<1>a. Shape /\ NestedFails /\ OneOwner /\ pc \in [Frames -> PCs]
  BY DEF IInv, Protocol, TypeOK, LocalType
<1>b. "silent" \notin Failures
  OBVIOUS
<1> USE <1>a, FrameFacts
    DEF regcVars, lockVars, accVars, envVars, localVars,
        RequestOwned, OneOwner, Claiming, Shape, RootPCs, SendPCs, NestedPCs, NestedFails
<1>1. ASSUME NEW t \in Threads, BeginAccDel(t) PROVE RequestOwned'
  BY <1>1 DEF BeginAccDel, Goto
<1>2. ASSUME NEW t \in Threads, MakeRequest(t) PROVE RequestOwned'
  BY <1>2 DEF MakeRequest, Goto, Call, Register, RegisterFails, CancelTimer,
     Unregister, UnregisterFails
<1>3. ASSUME NEW t \in Threads, EndOperation(t) PROVE RequestOwned'
  BY <1>3 DEF EndOperation, Goto, Destroy, CancelTimer, InUse
<1>4. ASSUME NEW t \in Threads, SendEnter(t) PROVE RequestOwned'
  BY <1>4 DEF SendEnter, Goto
<1>5. ASSUME NEW t \in Threads, SendBusy(t) PROVE RequestOwned'
  BY <1>5 DEF SendBusy, Goto, Outstanding
<1>6. ASSUME NEW t \in Threads, SendBusyReturn(t) PROVE RequestOwned'
  BY <1>6 DEF SendBusyReturn, Goto
<1>7. ASSUME NEW t \in Threads, SendClaim(t) PROVE RequestOwned'
  BY <1>7 DEF SendClaim, Goto, Outstanding
<1>8. ASSUME NEW t \in Threads, SendOut(t) PROVE RequestOwned'
  <2>1. \/ pend' = pend \cup {<<cseq, req[t]>>}
        \/ pc' = [pc EXCEPT ![Send(t)] = "s_nest", ![Nested(t)] = "t_enter"]
    BY <1>8, <1>b DEF SendOut, Goto, Call
  <2>2. CASE pend' = pend \cup {<<cseq, req[t]>>}
    BY <2>2
  <2>3. CASE pc' = [pc EXCEPT ![Send(t)] = "s_nest", ![Nested(t)] = "t_enter"]
    <3>1. Claiming(Nested(t))' /\ Nested(t) \in Frames
      BY <2>3
    <3> QED
      BY <3>1
  <2> QED
    BY <2>1, <2>2, <2>3
<1>9. ASSUME NEW t \in Threads, SendRelock(t) PROVE RequestOwned'
  BY <1>9 DEF SendRelock, Goto
<1>10. ASSUME NEW t \in Threads, TimerPop(t) PROVE RequestOwned'
  BY <1>10 DEF TimerPop, Goto
<1>11. ASSUME NEW t \in Threads, TimerEnter(t) PROVE RequestOwned'
  BY <1>11 DEF TimerEnter, Goto
<1>12. ASSUME NEW t \in Threads, TimerRegister(t) PROVE RequestOwned'
  BY <1>12 DEF TimerRegister, Goto, Call, Register, RegisterFails, CancelTimer
<1>13. ASSUME NEW t \in Threads, TimerSent(t) PROVE RequestOwned'
  BY <1>13 DEF TimerSent, Goto
<1>14. ASSUME NEW t \in Threads, NEW renew \in BOOLEAN, BeginSetRegistration(t, renew) PROVE RequestOwned'
  BY <1>14 DEF BeginSetRegistration, Goto
<1>15. ASSUME NEW t \in Threads, NEW p \in pend, NEW c \in Codes, Answer(t, p, c) PROVE RequestOwned'
  BY <1>15 DEF Answer, Goto
<1>16. ASSUME NEW f \in Frames, TsxEnter(f) PROVE RequestOwned'
  BY <1>16 DEF TsxEnter, Goto
<1>17. ASSUME NEW f \in Frames, TsxLock(f) PROVE RequestOwned'
  BY <1>17 DEF TsxLock, Goto
<1>18. ASSUME NEW f \in Frames, TsxUser(f) PROVE RequestOwned'
  BY <1>18 DEF TsxUser, Goto
<1>19. ASSUME NEW f \in Frames, TsxRelock(f) PROVE RequestOwned'
  BY <1>19 DEF TsxRelock, Goto
<1>20. ASSUME NEW f \in Frames, HandleAuth(f) PROVE RequestOwned'
  BY <1>20 DEF HandleAuth, Goto, Call
<1>21. ASSUME NEW f \in Frames, HandleDeleted(f) PROVE RequestOwned'
  BY <1>21 DEF HandleDeleted, Goto
<1>22. ASSUME NEW f \in Frames, HandleBrief(f) PROVE RequestOwned'
  BY <1>22 DEF HandleBrief, Goto, Call, Register, RegisterFails, CancelTimer
<1>23. ASSUME NEW f \in Frames, TsxSent(f) PROVE RequestOwned'
  BY <1>23 DEF TsxSent, Goto, Notify
<1>24. ASSUME NEW f \in Frames, CallbackCheck(f) PROVE RequestOwned'
  BY <1>24 DEF CallbackCheck, Goto
<1>25. ASSUME NEW f \in Frames, CallbackCall(f) PROVE RequestOwned'
  BY <1>25 DEF CallbackCall, Goto
<1>26. ASSUME NEW f \in Frames, CallbackIn(f) PROVE RequestOwned'
  BY <1>26 DEF CallbackIn, Goto
<1>27. ASSUME NEW f \in Frames, CallbackDrop(f) PROVE RequestOwned'
  BY <1>27 DEF CallbackDrop, Goto, Destroy, CancelTimer, InUse
<1>28. ASSUME NEW f \in Frames, CallbackKeep(f) PROVE RequestOwned'
  BY <1>28 DEF CallbackKeep, Goto
<1>29. ASSUME NEW f \in Frames, CallbackRewrite(f) PROVE RequestOwned'
  BY <1>29 DEF CallbackRewrite, Goto, Call, Register, RegisterFails, CancelTimer
<1>30. ASSUME NEW f \in Frames, CallbackRewritten(f) PROVE RequestOwned'
  BY <1>30 DEF CallbackRewritten, Goto
<1>31. ASSUME NEW f \in Frames, CallbackOut(f) PROVE RequestOwned'
  BY <1>31 DEF CallbackOut, Goto
<1>32. ASSUME NEW f \in Frames, CallbackBack(f) PROVE RequestOwned'
  BY <1>32 DEF CallbackBack, Goto
<1>33. ASSUME NEW f \in Frames, Drop(f) PROVE RequestOwned'
  BY <1>33 DEF Drop, Return
<1>34. ASSUME NEW f \in Frames, LastOut(f) PROVE RequestOwned'
  BY <1>34 DEF LastOut, Return, DestroyIfMarked, Destroy, CancelTimer, InUse
<1>35. ASSUME NEW f \in Frames, NEW expires \in {0, 1}, HandleFinal(f, expires) PROVE RequestOwned'
  BY <1>35 DEF HandleFinal, Goto, Notify, Schedule, Granted
<1>36. CASE UNCHANGED vars
  BY <1>36 DEF vars
<1> HIDE <1>a
    DEF regcVars, lockVars, accVars, envVars, localVars,
        RequestOwned, OneOwner, Claiming, Shape, RootPCs, SendPCs, NestedPCs, NestedFails
<1> QED
  BY <1>1, <1>2, <1>3, <1>4, <1>5, <1>6, <1>7, <1>8, <1>9, <1>10, <1>11, <1>12, <1>13,
  <1>14, <1>15, <1>16, <1>17, <1>18, <1>19, <1>20, <1>21, <1>22, <1>23, <1>24, <1>25,
  <1>26, <1>27, <1>28, <1>29, <1>30, <1>31, <1>32, <1>33, <1>34, <1>35, <1>36 DEF
  Next, Continue, Operation, Event, AccountStep, SendStep, TimerStep, TsxStep,
  CallbackStep

(* One owner, counted. *)
LEMMA OneRequestCounted ==
  ASSUME IInv, RequestOwned
  PROVE  OneRequest
<1>1. OneOwner
  BY DEF IInv, Protocol
<1>2. Claims = {f \in Frames : Claiming(f)}
  BY DEF Claims, Claiming
<1>3. CASE ~hasTsx
  <2>1. pend = {} /\ Claims = {}
    BY <1>1, <1>2, <1>3 DEF OneOwner
  <2> QED
    BY <1>3, <2>1, FS_EmptySet DEF OneRequest
<1>4. CASE hasTsx /\ pend # {}
  <2>1. PICK p \in pend : pend = {p}
    BY <1>1, <1>4 DEF OneOwner
  <2>2. Claims = {}
    BY <1>1, <1>2, <1>4 DEF OneOwner
  <2>3. Cardinality(pend) = 1 /\ Cardinality(Claims) = 0
    BY <2>1, <2>2, FS_EmptySet, FS_Singleton
  <2> QED
    BY <1>4, <2>3 DEF OneRequest
<1>5. CASE hasTsx /\ pend = {}
  <2>1. PICK f \in Frames : Claiming(f)
    BY <1>5 DEF RequestOwned
  <2>2. Claims = {f}
    BY <1>1, <1>2, <2>1 DEF OneOwner
  <2>3. Cardinality(pend) = 0 /\ Cardinality(Claims) = 1
    BY <1>5, <2>2, FS_EmptySet, FS_Singleton
  <2> QED
    BY <1>5, <2>3 DEF OneRequest
<1> QED
  BY <1>3, <1>4, <1>5

(* The request keeps an owner, with any number of threads. *)
LEMMA RequestInvariance ==
  ASSUME "silent" \notin Failures
  PROVE  Spec => []RequestOwned
<1>1. Init => RequestOwned
  BY DEF Init, RequestOwned
<1>2. IInv /\ RequestOwned /\ [Next]_vars => RequestOwned'
  BY RequestOwnedStep
<1> QED
  BY <1>1, <1>2, Invariance, PTL DEF Spec

(* regc->has_tsx tells exactly whether a request is outstanding, and there  *)
(* is never a second one, if a failing send is told to the callback.        *)
THEOREM OneRequestAtATime ==
  ASSUME "silent" \notin Failures
  PROVE  Spec => []OneRequest
<1>1. IInv /\ RequestOwned => OneRequest
  BY OneRequestCounted
<1> QED
  BY <1>1, RequestInvariance, Invariance, PTL

-----------------------------------------------------------------------------
(* No callback nested in a send: no deadlock.                              *)

(* No callback runs inside pjsip_regc_send, and only the handling of a     *)
(* response keeps regc->lock while others run.                             *)
NoNested == \A t \in Threads : pc[Nested(t)] = "idle"
LockHeld == \A f \in rlock : pc[f] \in {"t_handle", "t_sent"}

(* A handler takes the lock on reaching t_handle and leaves it on leaving. *)
LEMMA LockHeldStep ==
  ASSUME IInv, NoNested, LockHeld, [Next]_vars, "callback" \notin Failures
  PROVE  (NoNested /\ LockHeld)'
<1>a. Shape /\ NoNested /\ LockHeld /\ pc \in [Frames -> PCs] /\ rlock \subseteq Frames
  BY DEF IInv, Protocol, TypeOK, LocalType, HoldersType
<1>b. "callback" \notin Failures
  OBVIOUS
<1> USE <1>a, FrameFacts
    DEF regcVars, lockVars, accVars, envVars, localVars,
        NoNested, LockHeld, Shape, RootPCs, SendPCs
<1>1. ASSUME NEW t \in Threads, BeginAccDel(t) PROVE (NoNested /\ LockHeld)'
  BY <1>1 DEF BeginAccDel, Goto
<1>2. ASSUME NEW t \in Threads, MakeRequest(t) PROVE (NoNested /\ LockHeld)'
  BY <1>2 DEF MakeRequest, Goto, Call, Register, RegisterFails, CancelTimer,
     Unregister, UnregisterFails
<1>3. ASSUME NEW t \in Threads, EndOperation(t) PROVE (NoNested /\ LockHeld)'
  BY <1>3 DEF EndOperation, Goto, Destroy, CancelTimer, InUse
<1>4. ASSUME NEW t \in Threads, SendEnter(t) PROVE (NoNested /\ LockHeld)'
  BY <1>4 DEF SendEnter, Goto
<1>5. ASSUME NEW t \in Threads, SendBusy(t) PROVE (NoNested /\ LockHeld)'
  BY <1>5 DEF SendBusy, Goto, Outstanding
<1>6. ASSUME NEW t \in Threads, SendBusyReturn(t) PROVE (NoNested /\ LockHeld)'
  BY <1>6 DEF SendBusyReturn, Goto
<1>7. ASSUME NEW t \in Threads, SendClaim(t) PROVE (NoNested /\ LockHeld)'
  BY <1>7 DEF SendClaim, Goto, Outstanding
<1>8. ASSUME NEW t \in Threads, SendOut(t) PROVE (NoNested /\ LockHeld)'
  BY <1>8, <1>b DEF SendOut, Goto, Call
<1>9. ASSUME NEW t \in Threads, SendRelock(t) PROVE (NoNested /\ LockHeld)'
  BY <1>9 DEF SendRelock, Goto
<1>10. ASSUME NEW t \in Threads, TimerPop(t) PROVE (NoNested /\ LockHeld)'
  BY <1>10 DEF TimerPop, Goto
<1>11. ASSUME NEW t \in Threads, TimerEnter(t) PROVE (NoNested /\ LockHeld)'
  BY <1>11 DEF TimerEnter, Goto
<1>12. ASSUME NEW t \in Threads, TimerRegister(t) PROVE (NoNested /\ LockHeld)'
  BY <1>12 DEF TimerRegister, Goto, Call, Register, RegisterFails, CancelTimer
<1>13. ASSUME NEW t \in Threads, TimerSent(t) PROVE (NoNested /\ LockHeld)'
  BY <1>13 DEF TimerSent, Goto
<1>14. ASSUME NEW t \in Threads, NEW renew \in BOOLEAN, BeginSetRegistration(t, renew) PROVE (NoNested /\ LockHeld)'
  BY <1>14 DEF BeginSetRegistration, Goto
<1>15. ASSUME NEW t \in Threads, NEW p \in pend, NEW c \in Codes, Answer(t, p, c) PROVE (NoNested /\ LockHeld)'
  BY <1>15 DEF Answer, Goto
<1>16. ASSUME NEW f \in Frames, TsxEnter(f) PROVE (NoNested /\ LockHeld)'
  BY <1>16 DEF TsxEnter, Goto
<1>17. ASSUME NEW f \in Frames, TsxLock(f) PROVE (NoNested /\ LockHeld)'
  BY <1>17 DEF TsxLock, Goto
<1>18. ASSUME NEW f \in Frames, TsxUser(f) PROVE (NoNested /\ LockHeld)'
  BY <1>18 DEF TsxUser, Goto
<1>19. ASSUME NEW f \in Frames, TsxRelock(f) PROVE (NoNested /\ LockHeld)'
  BY <1>19 DEF TsxRelock, Goto
<1>20. ASSUME NEW f \in Frames, HandleAuth(f) PROVE (NoNested /\ LockHeld)'
  BY <1>20 DEF HandleAuth, Goto, Call
<1>21. ASSUME NEW f \in Frames, HandleDeleted(f) PROVE (NoNested /\ LockHeld)'
  BY <1>21 DEF HandleDeleted, Goto
<1>22. ASSUME NEW f \in Frames, HandleBrief(f) PROVE (NoNested /\ LockHeld)'
  BY <1>22 DEF HandleBrief, Goto, Call, Register, RegisterFails, CancelTimer
<1>23. ASSUME NEW f \in Frames, TsxSent(f) PROVE (NoNested /\ LockHeld)'
  BY <1>23 DEF TsxSent, Goto, Notify
<1>24. ASSUME NEW f \in Frames, CallbackCheck(f) PROVE (NoNested /\ LockHeld)'
  BY <1>24 DEF CallbackCheck, Goto
<1>25. ASSUME NEW f \in Frames, CallbackCall(f) PROVE (NoNested /\ LockHeld)'
  BY <1>25 DEF CallbackCall, Goto
<1>26. ASSUME NEW f \in Frames, CallbackIn(f) PROVE (NoNested /\ LockHeld)'
  BY <1>26 DEF CallbackIn, Goto
<1>27. ASSUME NEW f \in Frames, CallbackDrop(f) PROVE (NoNested /\ LockHeld)'
  BY <1>27 DEF CallbackDrop, Goto, Destroy, CancelTimer, InUse
<1>28. ASSUME NEW f \in Frames, CallbackKeep(f) PROVE (NoNested /\ LockHeld)'
  BY <1>28 DEF CallbackKeep, Goto
<1>29. ASSUME NEW f \in Frames, CallbackRewrite(f) PROVE (NoNested /\ LockHeld)'
  BY <1>29 DEF CallbackRewrite, Goto, Call, Register, RegisterFails, CancelTimer
<1>30. ASSUME NEW f \in Frames, CallbackRewritten(f) PROVE (NoNested /\ LockHeld)'
  BY <1>30 DEF CallbackRewritten, Goto
<1>31. ASSUME NEW f \in Frames, CallbackOut(f) PROVE (NoNested /\ LockHeld)'
  BY <1>31 DEF CallbackOut, Goto
<1>32. ASSUME NEW f \in Frames, CallbackBack(f) PROVE (NoNested /\ LockHeld)'
  BY <1>32 DEF CallbackBack, Goto
<1>33. ASSUME NEW f \in Frames, Drop(f) PROVE (NoNested /\ LockHeld)'
  BY <1>33 DEF Drop, Return
<1>34. ASSUME NEW f \in Frames, LastOut(f) PROVE (NoNested /\ LockHeld)'
  BY <1>34 DEF LastOut, Return, DestroyIfMarked, Destroy, CancelTimer, InUse
<1>35. ASSUME NEW f \in Frames, NEW expires \in {0, 1}, HandleFinal(f, expires) PROVE (NoNested /\ LockHeld)'
  BY <1>35 DEF HandleFinal, Goto, Notify, Schedule, Granted
<1>36. CASE UNCHANGED vars
  BY <1>36 DEF vars
<1> HIDE <1>a
    DEF regcVars, lockVars, accVars, envVars, localVars,
        NoNested, LockHeld, Shape, RootPCs, SendPCs
<1> QED
  BY <1>1, <1>2, <1>3, <1>4, <1>5, <1>6, <1>7, <1>8, <1>9, <1>10, <1>11, <1>12, <1>13,
  <1>14, <1>15, <1>16, <1>17, <1>18, <1>19, <1>20, <1>21, <1>22, <1>23, <1>24, <1>25,
  <1>26, <1>27, <1>28, <1>29, <1>30, <1>31, <1>32, <1>33, <1>34, <1>35, <1>36 DEF
  Next, Continue, Operation, Event, AccountStep, SendStep, TimerStep, TsxStep,
  CallbackStep

(* Both hold with any number of threads. *)
LEMMA LockInvariance ==
  ASSUME "callback" \notin Failures
  PROVE  Spec => [](NoNested /\ LockHeld)
<1>1. Init => NoNested /\ LockHeld
  BY FrameFacts DEF Init, NoNested, LockHeld
<1>2. IInv /\ (NoNested /\ LockHeld) /\ [Next]_vars => (NoNested /\ LockHeld)'
  BY LockHeldStep
<1> QED
  BY <1>1, <1>2, Invariance, PTL DEF Spec

(* No thread that holds PJSUA_LOCK waits for a regc lock whose owner waits  *)
(* for PJSUA_LOCK, if no callback runs inside a send.                       *)
THEOREM LocksAreOrdered ==
  ASSUME "callback" \notin Failures
  PROVE  Spec => []NoCircularWait
<1>1. ASSUME IInv, NoNested, LockHeld PROVE NoCircularWait
  <2> SUFFICES ASSUME NEW u \in Threads, rlock # {}, RegcFree(u), WantsPjsua(u)
               PROVE  FALSE
    BY DEF NoCircularWait
  <2>1. PICK f \in rlock : f[1] = u /\ f \in Frames
    BY <1>1 DEF RegcFree, Free, IInv, TypeOK, HoldersType
  <2>2. pc[f] \in {"t_handle", "t_sent"}
    BY <1>1 DEF LockHeld
  <2>3. Shape /\ pc[Nested(u)] = "idle"
    BY <1>1 DEF NoNested, IInv, Protocol
  <2>4. f = Root(u)
    BY <2>1, <2>2, <2>3, FrameFacts DEF Shape, SendPCs
  <2> QED
    BY <2>2, <2>3, <2>4 DEF WantsPjsua, Shape, SendPCs
<1>2. IInv /\ (NoNested /\ LockHeld) => NoCircularWait
  BY <1>1
<1> QED
  BY <1>2, LockInvariance, Invariance, PTL

-----------------------------------------------------------------------------
(* One worker, and no failure that pjsip_regc_send or its caller sees.     *)

(* A worker is the only one, as with the default thread_cnt of pjsua. *)
OneWorker == \A v, w \in Workers : v = w

(* The application's threads only operate accounts, and only they delete. *)
AppsOperate ==
  /\ \A t \in Threads \ Workers : pc[Root(t)] \in {"idle", "setreg", "op_sent"}
  /\ \A t \in Workers : ~deleting[t]

(* A timer in the heap has its id, so that cancelling finds it; none is put *)
(* there while the worker holds the one it popped.                          *)
TimerKnown ==
  /\ armed => timerId
  /\ \A w \in Workers : pc[Root(w)] = "tm_popped" => ~armed

(* acc->regc stays while an operation or the callback works with it. *)
HandleKept ==
  /\ ~del => cb
  /\ \A t \in Threads :
       pc[Root(t)] \in {"setreg", "op_sent", "cb_body", "cb_sent"} => handle

(* A send of the worker, the only one to take responses, finds a request    *)
(* outstanding or leaves one.                                               *)
SendsClaim ==
  \A w \in Workers :
    /\ pc[Send(w)] \in {"s_busy", "s_send", "s_relock", "dec", "chk"} => hasTsx
    /\ pc[Root(w)] \in {"t_sent", "tm_sent", "cb_sent"} /\ pc[Send(w)] = "idle"
         => hasTsx \/ (pc[Root(w)] = "t_sent" /\ ret[w] = "err")

(* While an operation holds PJSUA_LOCK after its send, the request is       *)
(* outstanding or the worker handles its answer, and gets no further than   *)
(* the callback that wants that lock.                                       *)
Answering == {"t_user", "t_relock", "t_handle", "t_sent", "cb_check", "cb_call", "cb_in"}
OperationAnswered ==
  \A t \in Threads \ Workers :
    pc[Root(t)] = "op_sent" /\ pc[Send(t)] \notin {"s_enter", "s_lock"}
      => hasTsx \/ \E w \in Workers : pc[Root(w)] \in Answering

(* Hence only the worker that leaves last releases the structure, and then  *)
(* no call is under way and no timer in the heap.                           *)
FreedQuiet == freed => ~armed /\ Quiet
NoFault == fault \cap {"timer", "check"} = {}

Tame == NoNested /\ AppsOperate /\ TimerKnown /\ HandleKept /\ SendsClaim
        /\ OperationAnswered /\ FreedQuiet /\ NoFault

Reliable == OneWorker /\ "callback" \notin Failures /\ "create" \notin Failures

(* The last call out of a marked structure is the worker's own: every other *)
(* that could be there is counted in busy_ctr, or needs acc->regc.          *)
LEMMA FreedByWorker ==
  ASSUME IInv, Tame, Reliable, NEW f \in Frames, LastOut(f)
  PROVE  FreedQuiet'
<1>a. Protocol /\ pc \in [Frames -> PCs]
  BY DEF IInv, TypeOK, LocalType
<1> SUFFICES ASSUME freed' PROVE ~armed' /\ Quiet'
  BY DEF FreedQuiet
<1>1. ~freed
  BY DEF LastOut, Tame, FreedQuiet, Quiet
<1>2. del /\ ~InUse /\ CancelTimer
  BY <1>1 DEF LastOut, DestroyIfMarked, Destroy
<1>3. ~armed'
  BY <1>2 DEF CancelTimer, Tame, TimerKnown
<1>4. ~handle /\ busy = {} /\ ~hasTsx
  BY <1>2, <1>a DEF Protocol, HandleLive, InUse
<1>5. \A g \in Frames : pc[g] \notin Counted
  BY <1>4, <1>a DEF Protocol, BusyCounts
<1>6. \A t \in Threads : pc[Root(t)] \in {"idle", "tm_popped", "chk"}
  BY <1>4, <1>5, <1>a, FrameFacts
     DEF Protocol, Shape, RootPCs, Counted, OneOwner, Claiming, Tame, HandleKept
<1>7. \A t \in Threads : pc[Send(t)] = "idle" /\ pc[Nested(t)] = "idle"
  BY <1>6, <1>a DEF Protocol, Shape
<1>8. PICK w \in Threads : f = Root(w)
  BY <1>7, FrameFacts DEF LastOut
<1>9. \A t \in Threads : pc[Root(t)] # "idle" => t = w
  BY <1>6, <1>8 DEF LastOut, Tame, AppsOperate, Reliable, OneWorker
<1>10. pc' = [pc EXCEPT ![f] = "idle"]
  BY <1>8, FrameFacts DEF LastOut, Return
<1>11. Quiet'
  BY <1>7, <1>8, <1>9, <1>10, <1>a, FrameFacts DEF Quiet
<1> QED
  BY <1>3, <1>11

(* Every step of one worker and any number of application threads. *)
LEMMA TameStep ==
  ASSUME IInv, IInv', Reliable, Tame, [Next]_vars
  PROVE  Tame'
<1>a. /\ Protocol /\ Protocol' /\ Reliable /\ Tame
      /\ pc \in [Frames -> PCs] /\ busy \subseteq Frames /\ plock \subseteq Frames
      /\ ret \in [Threads -> {"ok", "err"}] /\ deleting \in [Threads -> BOOLEAN]
      /\ out \in [Frames -> {"keep", "drop", "refused"}]
  BY DEF IInv, TypeOK, LocalType, HoldersType
<1> USE <1>a, FrameFacts, ThreadsAssumption
    DEF regcVars, lockVars, accVars, envVars, localVars, Threads, Quiet,
        Reliable, OneWorker, Tame, NoNested, AppsOperate, TimerKnown, HandleKept,
        SendsClaim, OperationAnswered, Answering, FreedQuiet, NoFault,
        RegcFree, PjsuaFree, Free, Protocol, Shape, NestedFails, BusyCounts,
        PjsuaHolders, PjsuaMutex, OneOwner, HandleLive, OperationHasHandle,
        FreedUnused, Claiming, RootPCs, SendPCs, NestedPCs, Counted, PjsuaPCs
<1>1. ASSUME NEW t \in Threads, BeginAccDel(t) PROVE Tame'
  BY <1>1 DEF BeginAccDel, Goto
<1>2. ASSUME NEW t \in Threads, MakeRequest(t) PROVE Tame'
  BY <1>2 DEF MakeRequest, Goto, Call, Register, RegisterFails, CancelTimer,
     Unregister, UnregisterFails
<1>3. ASSUME NEW t \in Threads, EndOperation(t) PROVE Tame'
  BY <1>3 DEF EndOperation, Goto, Destroy, CancelTimer, InUse
<1>4. ASSUME NEW t \in Threads, SendEnter(t) PROVE Tame'
  BY <1>4 DEF SendEnter, Goto
<1>5. ASSUME NEW t \in Threads, SendBusy(t) PROVE Tame'
  BY <1>5 DEF SendBusy, Goto, Outstanding
<1>6. ASSUME NEW t \in Threads, SendBusyReturn(t) PROVE Tame'
  BY <1>6 DEF SendBusyReturn, Goto
<1>7. ASSUME NEW t \in Threads, SendClaim(t) PROVE Tame'
  BY <1>7 DEF SendClaim, Goto, Outstanding
<1>8. ASSUME NEW t \in Threads, SendOut(t) PROVE Tame'
  BY <1>8 DEF SendOut, Goto, Call
<1>9. ASSUME NEW t \in Threads, SendRelock(t) PROVE Tame'
  BY <1>9 DEF SendRelock, Goto
<1>10. ASSUME NEW t \in Threads, TimerPop(t) PROVE Tame'
  BY <1>10 DEF TimerPop, Goto
<1>11. ASSUME NEW t \in Threads, TimerEnter(t) PROVE Tame'
  BY <1>11 DEF TimerEnter, Goto
<1>12. ASSUME NEW t \in Threads, TimerRegister(t) PROVE Tame'
  BY <1>12 DEF TimerRegister, Goto, Call, Register, RegisterFails, CancelTimer
<1>13. ASSUME NEW t \in Threads, TimerSent(t) PROVE Tame'
  BY <1>13 DEF TimerSent, Goto
<1>14. ASSUME NEW t \in Threads, NEW renew \in BOOLEAN, BeginSetRegistration(t, renew) PROVE Tame'
  BY <1>14 DEF BeginSetRegistration, Goto
<1>15. ASSUME NEW t \in Threads, NEW p \in pend, NEW c \in Codes, Answer(t, p, c) PROVE Tame'
  BY <1>15 DEF Answer, Goto
<1>16. ASSUME NEW f \in Frames, TsxEnter(f) PROVE Tame'
  BY <1>16 DEF TsxEnter, Goto
<1>17. ASSUME NEW f \in Frames, TsxLock(f) PROVE Tame'
  BY <1>17 DEF TsxLock, Goto
<1>18. ASSUME NEW f \in Frames, TsxUser(f) PROVE Tame'
  BY <1>18 DEF TsxUser, Goto
<1>19. ASSUME NEW f \in Frames, TsxRelock(f) PROVE Tame'
  BY <1>19 DEF TsxRelock, Goto
<1>20. ASSUME NEW f \in Frames, HandleAuth(f) PROVE Tame'
  BY <1>20 DEF HandleAuth, Goto, Call
<1>21. ASSUME NEW f \in Frames, HandleDeleted(f) PROVE Tame'
  BY <1>21 DEF HandleDeleted, Goto
<1>22. ASSUME NEW f \in Frames, HandleBrief(f) PROVE Tame'
  BY <1>22 DEF HandleBrief, Goto, Call, Register, RegisterFails, CancelTimer
<1>23. ASSUME NEW f \in Frames, TsxSent(f) PROVE Tame'
  BY <1>23 DEF TsxSent, Goto, Notify
<1>24. ASSUME NEW f \in Frames, CallbackCheck(f) PROVE Tame'
  BY <1>24 DEF CallbackCheck, Goto
<1>25. ASSUME NEW f \in Frames, CallbackCall(f) PROVE Tame'
  BY <1>25 DEF CallbackCall, Goto
<1>26. ASSUME NEW f \in Frames, CallbackIn(f) PROVE Tame'
  BY <1>26 DEF CallbackIn, Goto
<1>27. ASSUME NEW f \in Frames, CallbackDrop(f) PROVE Tame'
  BY <1>27 DEF CallbackDrop, Goto, Destroy, CancelTimer, InUse
<1>28. ASSUME NEW f \in Frames, CallbackKeep(f) PROVE Tame'
  BY <1>28 DEF CallbackKeep, Goto
<1>29. ASSUME NEW f \in Frames, CallbackRewrite(f) PROVE Tame'
  BY <1>29 DEF CallbackRewrite, Goto, Call, Register, RegisterFails, CancelTimer
<1>30. ASSUME NEW f \in Frames, CallbackRewritten(f) PROVE Tame'
  BY <1>30 DEF CallbackRewritten, Goto
<1>31. ASSUME NEW f \in Frames, CallbackOut(f) PROVE Tame'
  BY <1>31 DEF CallbackOut, Goto
<1>32. ASSUME NEW f \in Frames, CallbackBack(f) PROVE Tame'
  BY <1>32 DEF CallbackBack, Goto
<1>33. ASSUME NEW f \in Frames, Drop(f) PROVE Tame'
  BY <1>33 DEF Drop, Return
<1>34. ASSUME NEW f \in Frames, LastOut(f) PROVE Tame'
  BY <1>34 DEF LastOut, Return, DestroyIfMarked, Destroy, CancelTimer, InUse
<1>35. ASSUME NEW f \in Frames, NEW expires \in {0, 1}, HandleFinal(f, expires) PROVE Tame'
  BY <1>35 DEF HandleFinal, Goto, Notify, Schedule, Granted
<1>36. CASE UNCHANGED vars
  BY <1>36 DEF vars
<1> HIDE <1>a
    DEF regcVars, lockVars, accVars, envVars, localVars, Threads, Quiet,
        Reliable, OneWorker, Tame, NoNested, AppsOperate, TimerKnown, HandleKept,
        SendsClaim, OperationAnswered, Answering, FreedQuiet, NoFault,
        RegcFree, PjsuaFree, Free, Protocol, Shape, NestedFails, BusyCounts,
        PjsuaHolders, PjsuaMutex, OneOwner, HandleLive, OperationHasHandle,
        FreedUnused, Claiming, RootPCs, SendPCs, NestedPCs, Counted, PjsuaPCs
<1> QED
  BY <1>1, <1>2, <1>3, <1>4, <1>5, <1>6, <1>7, <1>8, <1>9, <1>10, <1>11, <1>12, <1>13,
  <1>14, <1>15, <1>16, <1>17, <1>18, <1>19, <1>20, <1>21, <1>22, <1>23, <1>24, <1>25,
  <1>26, <1>27, <1>28, <1>29, <1>30, <1>31, <1>32, <1>33, <1>34, <1>35, <1>36 DEF
  Next, Continue, Operation, Event, AccountStep, SendStep, TimerStep, TsxStep,
  CallbackStep

(* It holds of one worker with any number of application threads. *)
LEMMA TameInvariance ==
  ASSUME Reliable
  PROVE  Spec => []Tame
<1>1. Init => Tame
  BY FrameFacts DEF Init, Tame, NoNested, AppsOperate, TimerKnown, HandleKept, SendsClaim,
     OperationAnswered, FreedQuiet, NoFault, Threads
<1>2. IInv /\ IInv' /\ Tame /\ [Next]_vars => Tame'
  BY TameStep
<1> QED
  BY <1>1, <1>2, Invariance, PTL DEF Spec

(* The timer of a released structure is not in the heap, and none that was  *)
(* popped before runs on it.                                                *)
THEOREM TimerDiesFirst ==
  ASSUME Reliable
  PROVE  Spec => []NoTimerAfterRelease
<1>1. Tame => NoTimerAfterRelease
  BY DEF Tame, FreedQuiet, NoFault, NoTimerAfterRelease
<1> QED
  BY <1>1, TameInvariance, PTL

(* The last user out reads _delete_flag of a structure that is still there. *)
THEOREM LastOutReadsIt ==
  ASSUME Reliable
  PROVE  Spec => []NoReadAfterRelease
<1>1. Tame => NoReadAfterRelease
  BY DEF Tame, NoFault, NoReadAfterRelease
<1> QED
  BY <1>1, TameInvariance, PTL

-----------------------------------------------------------------------------
(* The refresh.                                                            *)

(* Whoever registers asks for the refresh timer: current_op says "register" *)
(* only of requests made with auto_reg set.                                 *)
AutoKept ==
  /\ op = "reg" => autoReg
  /\ \A p \in pend : p[2] = "reg" => autoReg
  /\ \A t \in Threads : req[t] = "reg" /\ pc[Send(t)] # "idle" => autoReg
  /\ \A w \in Workers :
       /\ pc[Root(w)] \in {"t_enter", "t_lock", "t_handle", "t_user", "t_relock"}
       /\ req[w] = "reg"
       => autoReg

(* The thread will send a request, or tell the account to let go. *)
Trying(t) ==
  \/ pc[Send(t)] \in {"s_enter", "s_lock"}
  \/ pc[Root(t)] \in {"tm_popped", "tm_reg", "tm_sent",
                      "t_user", "t_relock", "t_handle", "t_sent"}
  \/ pc[Root(t)] \in {"cb_check", "cb_call", "cb_in", "cb_body"} /\ out[Root(t)] # "keep"

(* A registration that was asked for is refreshed, awaits an answer or has  *)
(* somebody at work.                                                        *)
Kept == handle /\ cseq > 0 => armed \/ hasTsx \/ \E t \in Threads : Trying(t)

(* Every step keeps the refresh coming. *)
LEMMA KeptStep ==
  ASSUME IInv, IInv', Reliable, Tame, AutoKept, Kept, [Next]_vars
  PROVE  (AutoKept /\ Kept)'
<1>a. /\ Protocol /\ Protocol' /\ Reliable /\ Tame /\ AutoKept /\ Kept
      /\ pc \in [Frames -> PCs] /\ busy \subseteq Frames /\ plock \subseteq Frames
      /\ ret \in [Threads -> {"ok", "err"}] /\ deleting \in [Threads -> BOOLEAN]
      /\ out \in [Frames -> {"keep", "drop", "refused"}] /\ req \in [Threads -> Kinds]
  BY DEF IInv, TypeOK, LocalType, HoldersType
<1> USE <1>a, FrameFacts, ThreadsAssumption
    DEF regcVars, lockVars, accVars, envVars, localVars, Threads, Quiet,
        Reliable, OneWorker, AutoKept, Trying, Kept, Kinds,
        Tame, NoNested, AppsOperate, TimerKnown, HandleKept,
        SendsClaim, OperationAnswered, Answering, FreedQuiet, NoFault,
        RegcFree, PjsuaFree, Free, Protocol, Shape, NestedFails, BusyCounts,
        PjsuaHolders, PjsuaMutex, OneOwner, HandleLive, OperationHasHandle,
        FreedUnused, Claiming, RootPCs, SendPCs, NestedPCs, Counted, PjsuaPCs
<1>1. ASSUME NEW t \in Threads, BeginAccDel(t) PROVE (AutoKept /\ Kept)'
  BY <1>1 DEF BeginAccDel, Goto
<1>2. ASSUME NEW t \in Threads, MakeRequest(t) PROVE (AutoKept /\ Kept)'
  BY <1>2 DEF MakeRequest, Goto, Call, Register, RegisterFails, CancelTimer,
     Unregister, UnregisterFails
<1>3. ASSUME NEW t \in Threads, EndOperation(t) PROVE (AutoKept /\ Kept)'
  BY <1>3 DEF EndOperation, Goto, Destroy, CancelTimer, InUse
<1>4. ASSUME NEW t \in Threads, SendEnter(t) PROVE (AutoKept /\ Kept)'
  BY <1>4 DEF SendEnter, Goto
<1>5. ASSUME NEW t \in Threads, SendBusy(t) PROVE (AutoKept /\ Kept)'
  BY <1>5 DEF SendBusy, Goto, Outstanding
<1>6. ASSUME NEW t \in Threads, SendBusyReturn(t) PROVE (AutoKept /\ Kept)'
  BY <1>6 DEF SendBusyReturn, Goto
<1>7. ASSUME NEW t \in Threads, SendClaim(t) PROVE (AutoKept /\ Kept)'
  BY <1>7 DEF SendClaim, Goto, Outstanding
<1>8. ASSUME NEW t \in Threads, SendOut(t) PROVE (AutoKept /\ Kept)'
  BY <1>8 DEF SendOut, Goto, Call
<1>9. ASSUME NEW t \in Threads, SendRelock(t) PROVE (AutoKept /\ Kept)'
  BY <1>9 DEF SendRelock, Goto
<1>10. ASSUME NEW t \in Threads, TimerPop(t) PROVE (AutoKept /\ Kept)'
  BY <1>10 DEF TimerPop, Goto
<1>11. ASSUME NEW t \in Threads, TimerEnter(t) PROVE (AutoKept /\ Kept)'
  BY <1>11 DEF TimerEnter, Goto
<1>12. ASSUME NEW t \in Threads, TimerRegister(t) PROVE (AutoKept /\ Kept)'
  BY <1>12 DEF TimerRegister, Goto, Call, Register, RegisterFails, CancelTimer
<1>13. ASSUME NEW t \in Threads, TimerSent(t) PROVE (AutoKept /\ Kept)'
  BY <1>13 DEF TimerSent, Goto
<1>14. ASSUME NEW t \in Threads, NEW renew \in BOOLEAN, BeginSetRegistration(t, renew) PROVE (AutoKept /\ Kept)'
  BY <1>14 DEF BeginSetRegistration, Goto
<1>15. ASSUME NEW t \in Threads, NEW p \in pend, NEW c \in Codes, Answer(t, p, c) PROVE (AutoKept /\ Kept)'
  BY <1>15 DEF Answer, Goto
<1>16. ASSUME NEW f \in Frames, TsxEnter(f) PROVE (AutoKept /\ Kept)'
  BY <1>16 DEF TsxEnter, Goto
<1>17. ASSUME NEW f \in Frames, TsxLock(f) PROVE (AutoKept /\ Kept)'
  BY <1>17 DEF TsxLock, Goto
<1>18. ASSUME NEW f \in Frames, TsxUser(f) PROVE (AutoKept /\ Kept)'
  BY <1>18 DEF TsxUser, Goto
<1>19. ASSUME NEW f \in Frames, TsxRelock(f) PROVE (AutoKept /\ Kept)'
  BY <1>19 DEF TsxRelock, Goto
<1>20. ASSUME NEW f \in Frames, HandleAuth(f) PROVE (AutoKept /\ Kept)'
  BY <1>20 DEF HandleAuth, Goto, Call
<1>21. ASSUME NEW f \in Frames, HandleDeleted(f) PROVE (AutoKept /\ Kept)'
  BY <1>21 DEF HandleDeleted, Goto
<1>22. ASSUME NEW f \in Frames, HandleBrief(f) PROVE (AutoKept /\ Kept)'
  <2>1. PICK t \in Threads : f = Root(t)
    BY <1>22 DEF HandleBrief
  <2>2. autoReg /\ op' = "idle" /\ pend' = pend
    BY <1>22 DEF HandleBrief
  <2>3. autoReg' = autoReg
    BY <1>22 DEF HandleBrief, Register, RegisterFails
  <2>4. pc' \in {[pc EXCEPT ![f] = "t_sent", ![Send(f[1])] = "s_enter"],
               [pc EXCEPT ![f] = "t_sent"]}
    BY <1>22 DEF HandleBrief, Goto, Call
  <2>5. pc'[Root(t)] = "t_sent"
    BY <2>1, <2>4
  <2>6. Trying(t)'
    BY <2>5
  <2> QED
    BY <2>1, <2>2, <2>3, <2>6
<1>23. ASSUME NEW f \in Frames, TsxSent(f) PROVE (AutoKept /\ Kept)'
  BY <1>23 DEF TsxSent, Goto, Notify
<1>24. ASSUME NEW f \in Frames, CallbackCheck(f) PROVE (AutoKept /\ Kept)'
  BY <1>24 DEF CallbackCheck, Goto
<1>25. ASSUME NEW f \in Frames, CallbackCall(f) PROVE (AutoKept /\ Kept)'
  BY <1>25 DEF CallbackCall, Goto
<1>26. ASSUME NEW f \in Frames, CallbackIn(f) PROVE (AutoKept /\ Kept)'
  BY <1>26 DEF CallbackIn, Goto
<1>27. ASSUME NEW f \in Frames, CallbackDrop(f) PROVE (AutoKept /\ Kept)'
  BY <1>27 DEF CallbackDrop, Goto, Destroy, CancelTimer, InUse
<1>28. ASSUME NEW f \in Frames, CallbackKeep(f) PROVE (AutoKept /\ Kept)'
  BY <1>28 DEF CallbackKeep, Goto
<1>29. ASSUME NEW f \in Frames, CallbackRewrite(f) PROVE (AutoKept /\ Kept)'
  BY <1>29 DEF CallbackRewrite, Goto, Call, Register, RegisterFails, CancelTimer
<1>30. ASSUME NEW f \in Frames, CallbackRewritten(f) PROVE (AutoKept /\ Kept)'
  BY <1>30 DEF CallbackRewritten, Goto
<1>31. ASSUME NEW f \in Frames, CallbackOut(f) PROVE (AutoKept /\ Kept)'
  BY <1>31 DEF CallbackOut, Goto
<1>32. ASSUME NEW f \in Frames, CallbackBack(f) PROVE (AutoKept /\ Kept)'
  BY <1>32 DEF CallbackBack, Goto
<1>33. ASSUME NEW f \in Frames, Drop(f) PROVE (AutoKept /\ Kept)'
  BY <1>33 DEF Drop, Return
<1>34. ASSUME NEW f \in Frames, LastOut(f) PROVE (AutoKept /\ Kept)'
  BY <1>34 DEF LastOut, Return, DestroyIfMarked, Destroy, CancelTimer, InUse
<1>35. ASSUME NEW f \in Frames, NEW expires \in {0, 1}, HandleFinal(f, expires) PROVE (AutoKept /\ Kept)'
  BY <1>35 DEF HandleFinal, Goto, Notify, Schedule, Granted
<1>36. CASE UNCHANGED vars
  BY <1>36 DEF vars
<1> HIDE <1>a
    DEF regcVars, lockVars, accVars, envVars, localVars, Threads, Quiet,
        Reliable, OneWorker, AutoKept, Trying, Kept, Kinds,
        Tame, NoNested, AppsOperate, TimerKnown, HandleKept,
        SendsClaim, OperationAnswered, Answering, FreedQuiet, NoFault,
        RegcFree, PjsuaFree, Free, Protocol, Shape, NestedFails, BusyCounts,
        PjsuaHolders, PjsuaMutex, OneOwner, HandleLive, OperationHasHandle,
        FreedUnused, Claiming, RootPCs, SendPCs, NestedPCs, Counted, PjsuaPCs
<1> QED
  BY <1>1, <1>2, <1>3, <1>4, <1>5, <1>6, <1>7, <1>8, <1>9, <1>10, <1>11, <1>12, <1>13,
  <1>14, <1>15, <1>16, <1>17, <1>18, <1>19, <1>20, <1>21, <1>22, <1>23, <1>24, <1>25,
  <1>26, <1>27, <1>28, <1>29, <1>30, <1>31, <1>32, <1>33, <1>34, <1>35, <1>36 DEF
  Next, Continue, Operation, Event, AccountStep, SendStep, TimerStep, TsxStep,
  CallbackStep

(* And so it stays. *)
LEMMA KeptInvariance ==
  ASSUME Reliable
  PROVE  Spec => [](AutoKept /\ Kept)
<1>1. Init => AutoKept /\ Kept
  BY FrameFacts DEF Init, AutoKept, Kept, Threads
<1>2. IInv /\ IInv' /\ Tame /\ (AutoKept /\ Kept) /\ [Next]_vars => (AutoKept /\ Kept)'
  BY KeptStep
<1> QED
  BY <1>1, <1>2, TameInvariance, Invariance, PTL DEF Spec

(* A client that keeps its registration and rests has its refresh timer in  *)
(* the heap: no order of operations, answers and callbacks of one worker    *)
(* lets the registration lapse.                                             *)
THEOREM RefreshComes ==
  ASSUME Reliable, "silent" \notin Failures
  PROVE  Spec => []RefreshKept
<1>1. ASSUME RequestOwned, Kept PROVE RefreshKept
  <2> SUFFICES ASSUME Quiet, handle, cseq > 0, pend = {} PROVE armed
    BY DEF RefreshKept
  <2>1. ~hasTsx
    BY <1>1 DEF RequestOwned, Quiet, Claiming
  <2>2. \A t \in Threads : ~Trying(t)
    BY FrameFacts DEF Quiet, Trying
  <2> QED
    BY <1>1, <2>1, <2>2 DEF Kept
<1>2. RequestOwned /\ (AutoKept /\ Kept) => RefreshKept
  BY <1>1
<1> QED
  BY <1>2, RequestInvariance, KeptInvariance, PTL
=============================================================================
