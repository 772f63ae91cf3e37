----------------------------- MODULE Regc_proofs -----------------------------
(***************************************************************************)
(* Theorems about Regc for any number of application and worker threads,   *)
(* any way of failing, and any bound on the requests sent.                 *)
(***************************************************************************)
EXTENDS Regc, TLAPS

RootPCs == {"idle", "setreg", "op_sent", "tm_popped", "tm_reg", "tm_sent",
            "t_enter", "t_lock", "t_user", "t_relock", "t_handle", "t_sent",
            "cb_check", "cb_call", "cb_in", "cb_body", "cb_sent", "cb_out", "cb_back",
            "dec", "chk"}
SendPCs == {"idle", "s_enter", "s_lock", "s_busy", "s_send", "s_nest", "s_relock",
            "dec", "chk"}
NestedPCs == RootPCs \ {"setreg", "op_sent", "tm_popped", "tm_reg", "tm_sent"}

(* A frame is where its level can be; a send runs only while its caller     *)
(* waits for it, a nested callback only while the send waits for it.        *)
Shape ==
  \A t \in Threads :
    /\ pc[Root(t)] \in RootPCs
    /\ pc[Send(t)] \in SendPCs
    /\ pc[Nested(t)] \in NestedPCs
    /\ pc[Send(t)] # "idle" =>
         pc[Root(t)] \in {"op_sent", "tm_sent", "t_sent", "cb_sent"}
    /\ pc[Nested(t)] # "idle" => pc[Send(t)] = "s_nest"

(* Callbacks nested in a failing send only ever fail.                       *)
NestedFails ==
  \A t \in Threads :
    pc[Nested(t)] # "idle" => /\ code[Nested(t)] = "fail"
                              /\ pc[Nested(t)] # "cb_sent"
                              /\ pc[Nested(t)] # "t_sent"
                              /\ pc[Nested(t)] \in {"cb_check", "cb_call", "cb_in", "cb_body"}
                                   => out[Nested(t)] = "drop"

(* busy_ctr counts exactly the calls under way.                             *)
BusyCounts == \A f \in Frames : f \in busy <=> pc[f] \in Counted

PjsuaPCs == {"setreg", "op_sent", "cb_body", "cb_sent", "cb_out"}
PjsuaHolders == \A f \in Frames : f \in plock <=> pc[f] \in PjsuaPCs
PjsuaMutex == \A f, g \in plock : f[1] = g[1]

(* The outstanding request has one owner, and has_tsx is set while it has.  *)
Claiming(f) == pc[f] \in {"s_send", "t_enter", "t_lock"}
OneOwner ==
  /\ \A f, g \in Frames : Claiming(f) /\ Claiming(g) => f = g
  /\ \A p, q \in pend : p = q
  /\ pend = {} \/ \A f \in Frames : ~Claiming(f)
  /\ pend # {} => hasTsx
  /\ \A f \in Frames : Claiming(f) => hasTsx

HandleLive == handle => ~del /\ ~freed

OperationHasHandle ==
  \A t \in Threads :
    \/ pc[Root(t)] = "setreg"
    \/ pc[Root(t)] = "op_sent" /\ pc[Send(t)] = "s_enter"
    \/ pc[Root(t)] = "cb_body"
    \/ pc[Nested(t)] = "cb_body"
    => handle

FreedUnused ==
  freed => /\ ~hasTsx
           /\ busy = {}
           /\ \A t \in Threads : pc[Send(t)] # "s_enter"

(* The inductive invariant, without the types. *)
Protocol ==
  /\ Shape /\ NestedFails /\ BusyCounts /\ PjsuaHolders /\ PjsuaMutex
  /\ OneOwner /\ HandleLive /\ OperationHasHandle /\ FreedUnused

IInv == TypeOK /\ Protocol

-----------------------------------------------------------------------------
(* The three frames of a thread are distinct, and there are no others.      *)
LEMMA FrameFacts ==
  /\ \A t \in Threads : Root(t) \in Frames /\ Send(t) \in Frames /\ Nested(t) \in Frames
  /\ \A t : Root(t)[1] = t /\ Send(t)[1] = t /\ Nested(t)[1] = t
  /\ \A t : Root(t)[2] = "root" /\ Send(t)[2] = "send" /\ Nested(t)[2] = "nested"
  /\ \A t, u : Root(t) # Send(u) /\ Root(t) # Nested(u) /\ Send(t) # Nested(u)
  /\ \A f \in Frames : /\ f[1] \in Threads
                       /\ f = Root(f[1]) \/ f = Send(f[1]) \/ f = Nested(f[1])
BY DEF Frames, Root, Send, Nested

-----------------------------------------------------------------------------
(* Types. *)

(* Recording a fault keeps the set of faults in its range. *)
LEMMA FaultsGrow ==
  \A x \in Faults : fault \subseteq Faults => fault \cup {x} \subseteq Faults
OBVIOUS

(* The initial state is in range. *)
LEMMA InitType == Init => TypeOK
<1>1. Init => RegcType
  <2>1. Init => pend \subseteq Nat \X Kinds
    BY DEF Init
  <2>2. Init => op \in Ops /\ cseq \in Nat
    BY DEF Init, Ops
  <2>3. Init => /\ freed \in BOOLEAN /\ hasTsx \in BOOLEAN /\ del \in BOOLEAN /\ cb \in BOOLEAN
                /\ autoReg \in BOOLEAN /\ timerId \in BOOLEAN /\ armed \in BOOLEAN
                /\ handle \in BOOLEAN /\ rewritten \in BOOLEAN
    BY DEF Init
  <2> QED
    BY <2>1, <2>2, <2>3 DEF RegcType
<1>2. Init => LocalType
  BY DEF Init, LocalType, PCs, Kinds, Codes
<1> QED
  BY <1>1, <1>2 DEF Init, TypeOK, HoldersType

(* Every step keeps every variable in its range. *)
LEMMA TypeStep == TypeOK /\ [Next]_vars => TypeOK'
<1> SUFFICES ASSUME TypeOK, [Next]_vars PROVE TypeOK'
  OBVIOUS
<1> USE DEF TypeOK, regcVars, lockVars, accVars, envVars, localVars
<1>1. ASSUME NEW t \in Threads, BeginAccDel(t) PROVE TypeOK'
  BY <1>1, FrameFacts DEF BeginAccDel, Goto, RegcType, HoldersType, LocalType, Ops, Kinds, PCs, Codes
<1>2. ASSUME NEW t \in Threads, MakeRequest(t) PROVE TypeOK'
  <2> USE <1>2, FrameFacts DEF MakeRequest, Goto, Call, Register, RegisterFails, Unregister, UnregisterFails, CancelTimer
  <2>1. RegcType'
    <3>1. autoReg' \in BOOLEAN /\ timerId' \in BOOLEAN /\ armed' \in BOOLEAN
      BY DEF RegcType
    <3> QED
      BY <3>1 DEF RegcType, Ops, Kinds
  <2>2. HoldersType'
    BY DEF HoldersType
  <2>3. LocalType'
    <3>1. pc' \in [Frames -> PCs]
      BY DEF LocalType, PCs
    <3>2. req' \in [Threads -> Kinds]
      BY DEF LocalType, Kinds
    <3>3. ret' \in [Threads -> {"ok", "err"}]
      BY DEF LocalType
    <3>4. out' \in [Frames -> {"keep", "drop", "refused"}]
      BY DEF LocalType
    <3> QED
      BY <3>1, <3>2, <3>3, <3>4 DEF LocalType, Codes
  <2>4. fault' \subseteq Faults
    BY DEF Faults
  <2> QED
    BY <2>1, <2>2, <2>3, <2>4
<1>3. ASSUME NEW t \in Threads, EndOperation(t) PROVE TypeOK'
  <2> USE <1>3, FrameFacts DEF EndOperation, Goto, Destroy, CancelTimer
  <2>1. RegcType'
    BY DEF RegcType, LocalType, Ops, Kinds
  <2>2. HoldersType'
    BY DEF HoldersType
  <2>3. LocalType'
    BY DEF LocalType, PCs, Codes, Kinds
  <2>4. fault' \subseteq Faults
    BY DEF Faults
  <2> QED
    BY <2>1, <2>2, <2>3, <2>4
<1>4. ASSUME NEW t \in Threads, SendEnter(t) PROVE TypeOK'
  BY <1>4, FrameFacts DEF SendEnter, Goto, RegcType, HoldersType, LocalType, Ops, Kinds, PCs, Codes
<1>5. ASSUME NEW t \in Threads, SendBusy(t) PROVE TypeOK'
  BY <1>5, FrameFacts DEF SendBusy, Goto, Outstanding, RegcType, HoldersType, LocalType, Ops, Kinds, PCs, Codes
<1>6. ASSUME NEW t \in Threads, SendBusyReturn(t) PROVE TypeOK'
  BY <1>6, FrameFacts DEF SendBusyReturn, Goto, RegcType, HoldersType, LocalType, Ops, Kinds, PCs, Codes
<1>7. ASSUME NEW t \in Threads, SendClaim(t) PROVE TypeOK'
  BY <1>7, FrameFacts DEF SendClaim, Goto, Outstanding, RegcType, HoldersType, LocalType, Ops, Kinds, PCs, Codes
<1>8. ASSUME NEW t \in Threads, SendOut(t) PROVE TypeOK'
  <2> USE <1>8, FrameFacts DEF SendOut, Goto, Call
  <2>1. RegcType'
    BY DEF RegcType, LocalType, Ops, Kinds
  <2>2. HoldersType'
    BY DEF HoldersType
  <2>3. LocalType'
    <3>1. pc' \in [Frames -> PCs]
      BY DEF LocalType, PCs
    <3>2. req' \in [Threads -> Kinds]
      BY DEF LocalType, Kinds
    <3>3. ret' \in [Threads -> {"ok", "err"}]
      BY DEF LocalType
    <3>4. out' \in [Frames -> {"keep", "drop", "refused"}]
      BY DEF LocalType
    <3> QED
      BY <3>1, <3>2, <3>3, <3>4 DEF LocalType, Codes
  <2>4. fault' \subseteq Faults
    BY DEF Faults
  <2> QED
    BY <2>1, <2>2, <2>3, <2>4
<1>9. ASSUME NEW t \in Threads, SendRelock(t) PROVE TypeOK'
  BY <1>9, FrameFacts DEF SendRelock, Goto, RegcType, HoldersType, LocalType, Ops, Kinds, PCs, Codes
<1>10. ASSUME NEW t \in Threads, TimerPop(t) PROVE TypeOK'
  <2> USE <1>10, FrameFacts DEF TimerPop, Goto
  <2>1. RegcType'
    BY DEF RegcType, LocalType, Ops, Kinds
  <2>2. HoldersType'
    BY DEF HoldersType
  <2>3. LocalType'
    BY DEF LocalType, PCs, Codes, Kinds
  <2>4. fault' \subseteq Faults
    BY DEF Faults
  <2> QED
    BY <2>1, <2>2, <2>3, <2>4
<1>11. ASSUME NEW t \in Threads, TimerEnter(t) PROVE TypeOK'
  <2> DEFINE f == Root(t)
  <2>1. f \in Frames
    BY FrameFacts
  <2>2. /\ pc' = [pc EXCEPT ![f] = "idle"] \/ pc' = [pc EXCEPT ![f] = "tm_reg"]
        /\ busy' = busy \cup {f} \/ busy' = busy
        /\ timerId' = FALSE \/ timerId' = timerId
        /\ fault' = fault \cup {"timer"} \/ fault' = fault
        /\ UNCHANGED <<freed, hasTsx, del, cb, op, autoReg, cseq, rlock, plock,
                       handle, rewritten, armed, pend, req, ret, code, out, deleting>>
    BY <1>11 DEF TimerEnter, Goto
  <2> HIDE DEF f
  <2>3. RegcType'
    BY <2>2 DEF RegcType
  <2>4. HoldersType'
    BY <2>1, <2>2 DEF HoldersType
  <2>5. pc' \in [Frames -> PCs]
    BY <2>1, <2>2 DEF LocalType, PCs
  <2>6. LocalType'
    BY <2>2, <2>5 DEF LocalType
  <2>7. fault' \subseteq Faults
    BY <2>2, FaultsGrow DEF Faults
  <2> QED
    BY <2>3, <2>4, <2>6, <2>7
<1>12. ASSUME NEW t \in Threads, TimerRegister(t) PROVE TypeOK'
  <2> USE <1>12, FrameFacts DEF TimerRegister, Goto, Call, Register, RegisterFails, CancelTimer
  <2>1. RegcType'
    <3>1. autoReg' \in BOOLEAN /\ timerId' \in BOOLEAN /\ armed' \in BOOLEAN
      BY DEF RegcType
    <3> QED
      BY <3>1 DEF RegcType, Ops, Kinds
  <2>2. HoldersType'
    BY DEF HoldersType
  <2>3. LocalType'
    <3>1. pc' \in [Frames -> PCs]
      BY DEF LocalType, PCs
    <3>2. req' \in [Threads -> Kinds]
      BY DEF LocalType, Kinds
    <3>3. ret' \in [Threads -> {"ok", "err"}]
      BY DEF LocalType
    <3>4. out' \in [Frames -> {"keep", "drop", "refused"}]
      BY DEF LocalType
    <3> QED
      BY <3>1, <3>2, <3>3, <3>4 DEF LocalType, Codes
  <2>4. fault' \subseteq Faults
    BY DEF Faults
  <2> QED
    BY <2>1, <2>2, <2>3, <2>4
<1>13. ASSUME NEW t \in Threads, TimerSent(t) PROVE TypeOK'
  <2> USE <1>13, FrameFacts DEF TimerSent, Goto
  <2>1. RegcType'
    BY DEF RegcType, LocalType, Ops, Kinds
  <2>2. HoldersType'
    BY DEF HoldersType
  <2>3. LocalType'
    <3>1. pc' \in [Frames -> PCs]
      BY DEF LocalType, PCs
    <3>2. req' \in [Threads -> Kinds]
      BY DEF LocalType, Kinds
    <3>3. ret' \in [Threads -> {"ok", "err"}]
      BY DEF LocalType
    <3>4. out' \in [Frames -> {"keep", "drop", "refused"}]
      BY DEF LocalType
    <3> QED
      BY <3>1, <3>2, <3>3, <3>4 DEF LocalType, Codes
  <2>4. fault' \subseteq Faults
    BY DEF Faults
  <2> QED
    BY <2>1, <2>2, <2>3, <2>4
<1>14. ASSUME NEW t \in Threads, NEW renew \in BOOLEAN, BeginSetRegistration(t, renew) PROVE TypeOK'
  BY <1>14, FrameFacts DEF BeginSetRegistration, Goto, RegcType, HoldersType, LocalType, Ops, Kinds, PCs, Codes
<1>15. ASSUME NEW t \in Threads, NEW p \in pend, NEW c \in Codes, Answer(t, p, c) PROVE TypeOK'
  BY <1>15, FrameFacts DEF Answer, Goto, RegcType, HoldersType, LocalType, Ops, Kinds, PCs, Codes
<1>16. ASSUME NEW f \in Frames, TsxEnter(f) PROVE TypeOK'
  BY <1>16, FrameFacts DEF TsxEnter, Goto, RegcType, HoldersType, LocalType, Ops, Kinds, PCs, Codes
<1>17. ASSUME NEW f \in Frames, TsxLock(f) PROVE TypeOK'
  <2> USE <1>17, FrameFacts DEF TsxLock, Goto
  <2>1. RegcType'
    BY DEF RegcType, LocalType, Ops, Kinds
  <2>2. HoldersType'
    BY DEF HoldersType
  <2>3. LocalType'
    <3>1. pc' \in [Frames -> PCs]
      BY DEF LocalType, PCs
    <3>2. req' \in [Threads -> Kinds]
      BY DEF LocalType, Kinds
    <3>3. ret' \in [Threads -> {"ok", "err"}]
      BY DEF LocalType
    <3>4. out' \in [Frames -> {"keep", "drop", "refused"}]
      BY DEF LocalType
    <3> QED
      BY <3>1, <3>2, <3>3, <3>4 DEF LocalType, Codes
  <2>4. fault' \subseteq Faults
    BY DEF Faults
  <2> QED
    BY <2>1, <2>2, <2>3, <2>4
<1>18. ASSUME NEW f \in Frames, TsxUser(f) PROVE TypeOK'
  BY <1>18, FrameFacts DEF TsxUser, Goto, RegcType, HoldersType, LocalType, Ops, Kinds, PCs, Codes
<1>19. ASSUME NEW f \in Frames, TsxRelock(f) PROVE TypeOK'
  BY <1>19, FrameFacts DEF TsxRelock, Goto, RegcType, HoldersType, LocalType, Ops, Kinds, PCs, Codes
<1>20. ASSUME NEW f \in Frames, HandleAuth(f) PROVE TypeOK'
  <2> USE <1>20, FrameFacts DEF HandleAuth, Goto, Call
  <2>1. RegcType'
    BY DEF RegcType, LocalType, Ops, Kinds
  <2>2. HoldersType'
    BY DEF HoldersType
  <2>3. LocalType'
    <3>1. pc' \in [Frames -> PCs]
      BY DEF LocalType, PCs
    <3>2. req' \in [Threads -> Kinds]
      BY DEF LocalType, Kinds
    <3>3. ret' \in [Threads -> {"ok", "err"}]
      BY DEF LocalType
    <3>4. out' \in [Frames -> {"keep", "drop", "refused"}]
      BY DEF LocalType
    <3> QED
      BY <3>1, <3>2, <3>3, <3>4 DEF LocalType, Codes
  <2>4. fault' \subseteq Faults
    BY DEF Faults
  <2> QED
    BY <2>1, <2>2, <2>3, <2>4
<1>21. ASSUME NEW f \in Frames, HandleDeleted(f) PROVE TypeOK'
  BY <1>21, FrameFacts DEF HandleDeleted, Goto, RegcType, HoldersType, LocalType, Ops, Kinds, PCs, Codes
<1>22. ASSUME NEW f \in Frames, HandleBrief(f) PROVE TypeOK'
  <2> USE <1>22, FrameFacts DEF HandleBrief, Goto, Call, Register, RegisterFails, CancelTimer
  <2>1. RegcType'
    BY DEF RegcType, LocalType, Ops, Kinds
  <2>2. HoldersType'
    BY DEF HoldersType
  <2>3. LocalType'
    <3>1. pc' \in [Frames -> PCs]
      BY DEF LocalType, PCs
    <3>2. req' \in [Threads -> Kinds]
      BY DEF LocalType, Kinds
    <3>3. ret' \in [Threads -> {"ok", "err"}]
      BY DEF LocalType
    <3>4. out' \in [Frames -> {"keep", "drop", "refused"}]
      BY DEF LocalType
    <3> QED
      BY <3>1, <3>2, <3>3, <3>4 DEF LocalType, Codes
  <2>4. fault' \subseteq Faults
    BY DEF Faults
  <2> QED
    BY <2>1, <2>2, <2>3, <2>4
<1>23. ASSUME NEW f \in Frames, TsxSent(f) PROVE TypeOK'
  <2> USE <1>23, FrameFacts DEF TsxSent, Goto, Notify
  <2>1. RegcType'
    BY DEF RegcType, LocalType, Ops, Kinds
  <2>2. HoldersType'
    BY DEF HoldersType
  <2>3. LocalType'
    <3>1. pc' \in [Frames -> PCs]
      BY DEF LocalType, PCs
    <3>2. req' \in [Threads -> Kinds]
      BY DEF LocalType, Kinds
    <3>3. ret' \in [Threads -> {"ok", "err"}]
      BY DEF LocalType
    <3>4. out' \in [Frames -> {"keep", "drop", "refused"}]
      BY DEF LocalType
    <3> QED
      BY <3>1, <3>2, <3>3, <3>4 DEF LocalType, Codes
  <2>4. fault' \subseteq Faults
    BY DEF Faults
  <2> QED
    BY <2>1, <2>2, <2>3, <2>4
<1>24. ASSUME NEW f \in Frames, CallbackCheck(f) PROVE TypeOK'
  BY <1>24, FrameFacts DEF CallbackCheck, Goto, RegcType, HoldersType, LocalType, Ops, Kinds, PCs, Codes
<1>25. ASSUME NEW f \in Frames, CallbackCall(f) PROVE TypeOK'
  <2> USE <1>25, FrameFacts DEF CallbackCall, Goto
  <2>1. RegcType'
    BY DEF RegcType, LocalType, Ops, Kinds
  <2>2. HoldersType'
    BY DEF HoldersType
  <2>3. LocalType'
    BY DEF LocalType, PCs, Codes, Kinds
  <2> HIDE <1>25 DEF CallbackCall
  <2>4. fault' \subseteq Faults
    BY <1>25, FaultsGrow DEF CallbackCall, Faults
  <2> QED
    BY <2>1, <2>2, <2>3, <2>4
<1>26. ASSUME NEW f \in Frames, CallbackIn(f) PROVE TypeOK'
  BY <1>26, FrameFacts DEF CallbackIn, Goto, RegcType, HoldersType, LocalType, Ops, Kinds, PCs, Codes
<1>27. ASSUME NEW f \in Frames, CallbackDrop(f) PROVE TypeOK'
  <2> USE <1>27, FrameFacts DEF CallbackDrop, Goto, Destroy, CancelTimer
  <2>1. RegcType'
    BY DEF RegcType, LocalType, Ops, Kinds
  <2>2. HoldersType'
    BY DEF HoldersType
  <2>3. LocalType'
    BY DEF LocalType, PCs, Codes, Kinds
  <2>4. fault' \subseteq Faults
    BY DEF Faults
  <2> QED
    BY <2>1, <2>2, <2>3, <2>4
<1>28. ASSUME NEW f \in Frames, CallbackKeep(f) PROVE TypeOK'
  <2> USE <1>28, FrameFacts DEF CallbackKeep, Goto
  <2>1. RegcType'
    BY DEF RegcType, LocalType, Ops, Kinds
  <2>2. HoldersType'
    BY DEF HoldersType
  <2>3. LocalType'
    BY DEF LocalType, PCs, Codes, Kinds
  <2>4. fault' \subseteq Faults
    BY DEF Faults
  <2> QED
    BY <2>1, <2>2, <2>3, <2>4
<1>29. ASSUME NEW f \in Frames, CallbackRewrite(f) PROVE TypeOK'
  <2> USE <1>29, FrameFacts DEF CallbackRewrite, Goto, Call, Register, RegisterFails, CancelTimer
  <2>1. RegcType'
    BY DEF RegcType, LocalType, Ops, Kinds
  <2>2. HoldersType'
    BY DEF HoldersType
  <2>3. LocalType'
    <3>1. pc' \in [Frames -> PCs]
      BY DEF LocalType, PCs
    <3>2. req' \in [Threads -> Kinds]
      BY DEF LocalType, Kinds
    <3>3. ret' \in [Threads -> {"ok", "err"}]
      BY DEF LocalType
    <3>4. out' \in [Frames -> {"keep", "drop", "refused"}]
      BY DEF LocalType
    <3> QED
      BY <3>1, <3>2, <3>3, <3>4 DEF LocalType, Codes
  <2>4. fault' \subseteq Faults
    BY DEF Faults
  <2> QED
    BY <2>1, <2>2, <2>3, <2>4
<1>30. ASSUME NEW f \in Frames, CallbackRewritten(f) PROVE TypeOK'
  BY <1>30, FrameFacts DEF CallbackRewritten, Goto, RegcType, HoldersType, LocalType, Ops, Kinds, PCs, Codes
<1>31. ASSUME NEW f \in Frames, CallbackOut(f) PROVE TypeOK'
  BY <1>31, FrameFacts DEF CallbackOut, Goto, RegcType, HoldersType, LocalType, Ops, Kinds, PCs, Codes
<1>32. ASSUME NEW f \in Frames, CallbackBack(f) PROVE TypeOK'
  BY <1>32, FrameFacts DEF CallbackBack, Goto, RegcType, HoldersType, LocalType, Ops, Kinds, PCs, Codes
<1>33. ASSUME NEW f \in Frames, Drop(f) PROVE TypeOK'
  <2> USE <1>33, FrameFacts DEF Drop, Return
  <2>1. RegcType'
    BY DEF RegcType, LocalType, Ops, Kinds
  <2>2. HoldersType'
    BY DEF HoldersType
  <2>3. LocalType'
    BY DEF LocalType, PCs, Codes, Kinds
  <2>4. fault' \subseteq Faults
    BY DEF Faults
  <2> QED
    BY <2>1, <2>2, <2>3, <2>4
<1>34. ASSUME NEW f \in Frames, LastOut(f) PROVE TypeOK'
  <2> USE <1>34, FrameFacts DEF LastOut, Return, DestroyIfMarked, Destroy, CancelTimer
  <2>1. RegcType'
    BY DEF RegcType, LocalType, Ops, Kinds
  <2>2. HoldersType'
    BY DEF HoldersType
  <2>3. LocalType'
    BY DEF LocalType, PCs, Codes, Kinds
  <2>4. fault' \subseteq Faults
    BY DEF Faults
  <2> QED
    BY <2>1, <2>2, <2>3, <2>4
<1>35. ASSUME NEW f \in Frames, NEW expires \in {0, 1}, HandleFinal(f, expires) PROVE TypeOK'
  BY <1>35, FrameFacts DEF HandleFinal, Goto, Notify, Schedule, Granted, RegcType, HoldersType, LocalType, Ops, Kinds, PCs, Codes
<1>36. CASE UNCHANGED vars
  BY <1>36 DEF vars, RegcType, HoldersType, LocalType
<1> QED
  BY <1>1, <1>2, <1>3, <1>4, <1>5, <1>6, <1>7, <1>8, <1>9, <1>10, <1>11, <1>12, <1>13, <1>14, <1>15, <1>16, <1>17, <1>18, <1>19, <1>20, <1>21, <1>22, <1>23, <1>24, <1>25, <1>26, <1>27, <1>28, <1>29, <1>30, <1>31, <1>32, <1>33, <1>34, <1>35, <1>36, FrameFacts
  DEF Next, Continue, Operation, Event, AccountStep,
  SendStep, TimerStep, TsxStep, CallbackStep

(* The types hold in every state of every behaviour. *)
THEOREM TypeCorrect == Spec => []TypeOK
<1>1. Init => TypeOK
  BY InitType
<1>2. TypeOK /\ [Next]_vars => TypeOK'
  BY TypeStep
<1> QED
  BY <1>1, <1>2, PTL DEF Spec

-----------------------------------------------------------------------------
(* The protocol of references, locks and the outstanding request. *)

(* The new registration is used by nobody. *)
LEMMA InitProtocol == Init => Protocol
BY FrameFacts DEF Init, Protocol, Shape, NestedFails, BusyCounts, PjsuaHolders, PjsuaMutex,
  OneOwner, HandleLive, OperationHasHandle, FreedUnused, Claiming,
  RootPCs, SendPCs, NestedPCs, Counted, PjsuaPCs

(* Every step keeps the protocol. *)
LEMMA ProtocolStep == IInv /\ TypeOK' /\ [Next]_vars => Protocol'
<1> SUFFICES ASSUME IInv, TypeOK', [Next]_vars PROVE Protocol'
  OBVIOUS
<1> USE FrameFacts DEF regcVars, lockVars, accVars, envVars, localVars
<1>a. /\ pc \in [Frames -> PCs] /\ code \in [Frames -> Codes]
      /\ out \in [Frames -> {"keep", "drop", "refused"}]
      /\ ret \in [Threads -> {"ok", "err"}] /\ busy \subseteq Frames /\ plock \subseteq Frames
  BY DEF IInv, TypeOK, LocalType, HoldersType
<1>b. Protocol
  BY DEF IInv
<1>1. ASSUME NEW t \in Threads, MakeRequest(t) PROVE Protocol'
  <2> USE <1>1 DEF MakeRequest, Goto, Call, Register, RegisterFails, Unregister, UnregisterFails, CancelTimer
  <2>1. Shape'
    BY <1>a, <1>b DEF Protocol, Shape, RootPCs, SendPCs, NestedPCs
  <2>2. NestedFails'
    BY <1>a, <1>b DEF Protocol, NestedFails
  <2>3. BusyCounts'
    BY <1>a, <1>b DEF Protocol, BusyCounts, Counted, Shape, RootPCs, SendPCs,
        NestedPCs
  <2>4. PjsuaHolders'
    BY <1>a, <1>b DEF Protocol, PjsuaHolders, PjsuaPCs, Shape, RootPCs,
        SendPCs, NestedPCs
  <2>5. PjsuaMutex'
    BY <1>a, <1>b DEF Protocol, PjsuaMutex
  <2>6. OneOwner'
    BY <1>a, <1>b DEF Protocol, OneOwner, Claiming
  <2>7. HandleLive'
    BY <1>a, <1>b DEF Protocol, HandleLive
  <2>8. OperationHasHandle'
    BY <1>a, <1>b DEF Protocol, OperationHasHandle
  <2>9. FreedUnused'
    BY <1>a, <1>b DEF Protocol, FreedUnused, Shape, RootPCs, SendPCs,
        NestedPCs, HandleLive, OperationHasHandle, PjsuaHolders, PjsuaPCs,
        PjsuaMutex, BusyCounts, Counted
  <2> QED
    BY <2>1, <2>2, <2>3, <2>4, <2>5, <2>6, <2>7, <2>8, <2>9 DEF Protocol
<1>2. ASSUME NEW t \in Threads, SendOut(t) PROVE Protocol'
  <2> USE <1>2 DEF SendOut, Goto, Call
  <2>1. Shape'
    BY <1>a, <1>b DEF Protocol, Shape, RootPCs, SendPCs, NestedPCs
  <2>2. NestedFails'
    BY <1>a, <1>b DEF Protocol, NestedFails
  <2>3. BusyCounts'
    BY <1>a, <1>b DEF Protocol, BusyCounts, Counted, Shape, RootPCs, SendPCs,
        NestedPCs
  <2>4. PjsuaHolders'
    BY <1>a, <1>b DEF Protocol, PjsuaHolders, PjsuaPCs, Shape, RootPCs,
        SendPCs, NestedPCs
  <2>5. PjsuaMutex'
    BY <1>a, <1>b DEF Protocol, PjsuaMutex
  <2>6. OneOwner'
    BY <1>a, <1>b DEF Protocol, OneOwner, Claiming
  <2>7. HandleLive'
    BY <1>a, <1>b DEF Protocol, HandleLive
  <2>8. OperationHasHandle'
    BY <1>a, <1>b DEF Protocol, OperationHasHandle
  <2>9. FreedUnused'
    BY <1>a, <1>b DEF Protocol, FreedUnused
  <2> QED
    BY <2>1, <2>2, <2>3, <2>4, <2>5, <2>6, <2>7, <2>8, <2>9 DEF Protocol
<1>3. ASSUME NEW t \in Threads, TimerEnter(t) PROVE Protocol'
  <2> USE <1>3 DEF TimerEnter, Goto
  <2>1. Shape'
    BY <1>a, <1>b DEF Protocol, Shape, RootPCs, SendPCs, NestedPCs
  <2>2. NestedFails'
    BY <1>a, <1>b DEF Protocol, NestedFails
  <2>3. BusyCounts'
    BY <1>a, <1>b DEF Protocol, BusyCounts, Counted
  <2>4. PjsuaHolders'
    BY <1>a, <1>b DEF Protocol, PjsuaHolders, PjsuaPCs
  <2>5. PjsuaMutex'
    BY <1>a, <1>b DEF Protocol, PjsuaMutex
  <2>6. OneOwner'
    BY <1>a, <1>b DEF Protocol, OneOwner, Claiming
  <2>7. HandleLive'
    BY <1>a, <1>b DEF Protocol, HandleLive
  <2>8. OperationHasHandle'
    BY <1>a, <1>b DEF Protocol, OperationHasHandle
  <2>9. FreedUnused'
    BY <1>a, <1>b DEF Protocol, FreedUnused
  <2> QED
    BY <2>1, <2>2, <2>3, <2>4, <2>5, <2>6, <2>7, <2>8, <2>9 DEF Protocol
<1>4. ASSUME NEW t \in Threads, TimerRegister(t) PROVE Protocol'
  <2> USE <1>4 DEF TimerRegister, Goto, Call, Register, RegisterFails, CancelTimer
  <2>1. Shape'
    BY <1>a, <1>b DEF Protocol, Shape, RootPCs, SendPCs, NestedPCs
  <2>2. NestedFails'
    BY <1>a, <1>b DEF Protocol, NestedFails
  <2>3. BusyCounts'
    BY <1>a, <1>b DEF Protocol, BusyCounts, Counted, Shape, RootPCs, SendPCs,
        NestedPCs
  <2>4. PjsuaHolders'
    BY <1>a, <1>b DEF Protocol, PjsuaHolders, PjsuaPCs, Shape, RootPCs,
        SendPCs, NestedPCs
  <2>5. PjsuaMutex'
    BY <1>a, <1>b DEF Protocol, PjsuaMutex
  <2>6. OneOwner'
    BY <1>a, <1>b DEF Protocol, OneOwner, Claiming
  <2>7. HandleLive'
    BY <1>a, <1>b DEF Protocol, HandleLive
  <2>8. OperationHasHandle'
    BY <1>a, <1>b DEF Protocol, OperationHasHandle
  <2>9. FreedUnused'
    BY <1>a, <1>b DEF Protocol, FreedUnused, Shape, RootPCs, SendPCs,
        NestedPCs, BusyCounts, Counted, OneOwner, Claiming
  <2> QED
    BY <2>1, <2>2, <2>3, <2>4, <2>5, <2>6, <2>7, <2>8, <2>9 DEF Protocol
<1>5. ASSUME NEW t \in Threads, TimerSent(t) PROVE Protocol'
  <2> USE <1>5 DEF TimerSent, Goto
  <2>1. Shape'
    BY <1>a, <1>b DEF Protocol, Shape, RootPCs, SendPCs, NestedPCs
  <2>2. NestedFails'
    BY <1>a, <1>b DEF Protocol, NestedFails
  <2>3. BusyCounts'
    BY <1>a, <1>b DEF Protocol, BusyCounts, Counted
  <2>4. PjsuaHolders'
    BY <1>a, <1>b DEF Protocol, PjsuaHolders, PjsuaPCs
  <2>5. PjsuaMutex'
    BY <1>a, <1>b DEF Protocol, PjsuaMutex
  <2>6. OneOwner'
    BY <1>a, <1>b DEF Protocol, OneOwner, Claiming
  <2>7. HandleLive'
    BY <1>a, <1>b DEF Protocol, HandleLive
  <2>8. OperationHasHandle'
    BY <1>a, <1>b DEF Protocol, OperationHasHandle
  <2>9. FreedUnused'
    BY <1>a, <1>b DEF Protocol, FreedUnused
  <2> QED
    BY <2>1, <2>2, <2>3, <2>4, <2>5, <2>6, <2>7, <2>8, <2>9 DEF Protocol
<1>6. ASSUME NEW f \in Frames, TsxLock(f) PROVE Protocol'
  <2> USE <1>6 DEF TsxLock, Goto
  <2>1. Shape'
    BY <1>a, <1>b DEF Protocol, Shape, RootPCs, SendPCs, NestedPCs
  <2>2. NestedFails'
    BY <1>a, <1>b DEF Protocol, NestedFails
  <2>3. BusyCounts'
    BY <1>a, <1>b DEF Protocol, BusyCounts, Counted
  <2>4. PjsuaHolders'
    BY <1>a, <1>b DEF Protocol, PjsuaHolders, PjsuaPCs
  <2>5. PjsuaMutex'
    BY <1>a, <1>b DEF Protocol, PjsuaMutex
  <2>6. OneOwner'
    BY <1>a, <1>b DEF Protocol, OneOwner, Claiming
  <2>7. HandleLive'
    BY <1>a, <1>b DEF Protocol, HandleLive
  <2>8. OperationHasHandle'
    BY <1>a, <1>b DEF Protocol, OperationHasHandle
  <2>9. FreedUnused'
    BY <1>a, <1>b DEF Protocol, FreedUnused
  <2> QED
    BY <2>1, <2>2, <2>3, <2>4, <2>5, <2>6, <2>7, <2>8, <2>9 DEF Protocol
<1>7. ASSUME NEW f \in Frames, HandleAuth(f) PROVE Protocol'
  <2> USE <1>7 DEF HandleAuth, Goto, Call
  <2>1. Shape'
    BY <1>a, <1>b DEF Protocol, Shape, RootPCs, SendPCs, NestedPCs,
        NestedFails
  <2>2. NestedFails'
    BY <1>a, <1>b DEF Protocol, NestedFails
  <2>3. BusyCounts'
    BY <1>a, <1>b DEF Protocol, BusyCounts, Counted, Shape, RootPCs, SendPCs,
        NestedPCs, NestedFails
  <2>4. PjsuaHolders'
    BY <1>a, <1>b DEF Protocol, PjsuaHolders, PjsuaPCs, Shape, RootPCs,
        SendPCs, NestedPCs, PjsuaMutex
  <2>5. PjsuaMutex'
    BY <1>a, <1>b DEF Protocol, PjsuaMutex
  <2>6. OneOwner'
    BY <1>a, <1>b DEF Protocol, OneOwner, Claiming
  <2>7. HandleLive'
    BY <1>a, <1>b DEF Protocol, HandleLive
  <2>8. OperationHasHandle'
    BY <1>a, <1>b DEF Protocol, OperationHasHandle, Shape, RootPCs, SendPCs,
        NestedPCs, NestedFails
  <2>9. FreedUnused'
    BY <1>a, <1>b DEF Protocol, FreedUnused, Shape, RootPCs, SendPCs,
        NestedPCs, BusyCounts, Counted, OneOwner, Claiming
  <2> QED
    BY <2>1, <2>2, <2>3, <2>4, <2>5, <2>6, <2>7, <2>8, <2>9 DEF Protocol
<1>8. ASSUME NEW f \in Frames, HandleBrief(f) PROVE Protocol'
  <2> USE <1>8 DEF HandleBrief, Goto, Call, Register, RegisterFails, CancelTimer
  <2>1. Shape'
    BY <1>a, <1>b DEF Protocol, Shape, RootPCs, SendPCs, NestedPCs,
        NestedFails
  <2>2. NestedFails'
    BY <1>a, <1>b DEF Protocol, NestedFails
  <2>3. BusyCounts'
    BY <1>a, <1>b DEF Protocol, BusyCounts, Counted, Shape, RootPCs, SendPCs,
        NestedPCs, NestedFails
  <2>4. PjsuaHolders'
    BY <1>a, <1>b DEF Protocol, PjsuaHolders, PjsuaPCs, Shape, RootPCs,
        SendPCs, NestedPCs
  <2>5. PjsuaMutex'
    BY <1>a, <1>b DEF Protocol, PjsuaMutex
  <2>6. OneOwner'
    BY <1>a, <1>b DEF Protocol, OneOwner, Claiming
  <2>7. HandleLive'
    BY <1>a, <1>b DEF Protocol, HandleLive
  <2>8. OperationHasHandle'
    BY <1>a, <1>b DEF Protocol, OperationHasHandle, Shape, RootPCs, SendPCs,
        NestedPCs, NestedFails
  <2>9. FreedUnused'
    BY <1>a, <1>b DEF Protocol, FreedUnused, Shape, RootPCs, SendPCs,
        NestedPCs, BusyCounts, Counted, OneOwner, Claiming
  <2> QED
    BY <2>1, <2>2, <2>3, <2>4, <2>5, <2>6, <2>7, <2>8, <2>9 DEF Protocol
<1>9. ASSUME NEW f \in Frames, CallbackCall(f) PROVE Protocol'
  <2> USE <1>9 DEF CallbackCall, Goto
  <2>1. Shape'
    BY <1>a, <1>b DEF Protocol, Shape, RootPCs, SendPCs, NestedPCs
  <2>2. NestedFails'
    BY <1>a, <1>b DEF Protocol, NestedFails
  <2>3. BusyCounts'
    BY <1>a, <1>b DEF Protocol, BusyCounts, Counted
  <2>4. PjsuaHolders'
    BY <1>a, <1>b DEF Protocol, PjsuaHolders, PjsuaPCs
  <2>5. PjsuaMutex'
    BY <1>a, <1>b DEF Protocol, PjsuaMutex
  <2>6. OneOwner'
    BY <1>a, <1>b DEF Protocol, OneOwner, Claiming
  <2>7. HandleLive'
    BY <1>a, <1>b DEF Protocol, HandleLive
  <2>8. OperationHasHandle'
    BY <1>a, <1>b DEF Protocol, OperationHasHandle
  <2>9. FreedUnused'
    BY <1>a, <1>b DEF Protocol, FreedUnused
  <2> QED
    BY <2>1, <2>2, <2>3, <2>4, <2>5, <2>6, <2>7, <2>8, <2>9 DEF Protocol
<1>10. ASSUME NEW f \in Frames, CallbackRewrite(f) PROVE Protocol'
  <2> USE <1>10 DEF CallbackRewrite, Goto, Call, Register, RegisterFails, CancelTimer
  <2>1. Shape'
    BY <1>a, <1>b DEF Protocol, Shape, RootPCs, SendPCs, NestedPCs,
        NestedFails
  <2>2. NestedFails'
    BY <1>a, <1>b DEF Protocol, NestedFails
  <2>3. BusyCounts'
    BY <1>a, <1>b DEF Protocol, BusyCounts, Counted, Shape, RootPCs, SendPCs,
        NestedPCs, NestedFails
  <2>4. PjsuaHolders'
    BY <1>a, <1>b DEF Protocol, PjsuaHolders, PjsuaPCs, Shape, RootPCs,
        SendPCs, NestedPCs
  <2>5. PjsuaMutex'
    BY <1>a, <1>b DEF Protocol, PjsuaMutex
  <2>6. OneOwner'
    BY <1>a, <1>b DEF Protocol, OneOwner, Claiming, Shape, RootPCs, SendPCs,
        NestedPCs, PjsuaHolders, PjsuaPCs, PjsuaMutex
  <2>7. HandleLive'
    BY <1>a, <1>b DEF Protocol, HandleLive
  <2>8. OperationHasHandle'
    BY <1>a, <1>b DEF Protocol, OperationHasHandle
  <2>9. FreedUnused'
    BY <1>a, <1>b DEF Protocol, FreedUnused, Shape, RootPCs, SendPCs,
        NestedPCs, BusyCounts, Counted, OneOwner, Claiming
  <2> QED
    BY <2>1, <2>2, <2>3, <2>4, <2>5, <2>6, <2>7, <2>8, <2>9 DEF Protocol
<1>11. ASSUME NEW f \in Frames, TsxSent(f) PROVE Protocol'
  <2> USE <1>11 DEF TsxSent, Goto, Notify
  <2>1. Shape'
    BY <1>a, <1>b DEF Protocol, Shape, RootPCs, SendPCs, NestedPCs
  <2>2. NestedFails'
    BY <1>a, <1>b DEF Protocol, NestedFails
  <2>3. BusyCounts'
    BY <1>a, <1>b DEF Protocol, BusyCounts, Counted
  <2>4. PjsuaHolders'
    BY <1>a, <1>b DEF Protocol, PjsuaHolders, PjsuaPCs
  <2>5. PjsuaMutex'
    BY <1>a, <1>b DEF Protocol, PjsuaMutex
  <2>6. OneOwner'
    BY <1>a, <1>b DEF Protocol, OneOwner, Claiming
  <2>7. HandleLive'
    BY <1>a, <1>b DEF Protocol, HandleLive
  <2>8. OperationHasHandle'
    BY <1>a, <1>b DEF Protocol, OperationHasHandle
  <2>9. FreedUnused'
    BY <1>a, <1>b DEF Protocol, FreedUnused
  <2> QED
    BY <2>1, <2>2, <2>3, <2>4, <2>5, <2>6, <2>7, <2>8, <2>9 DEF Protocol
<1>12. ASSUME NEW t \in Threads, EndOperation(t) PROVE Protocol'
  <2> USE <1>12 DEF EndOperation, Goto, Destroy, CancelTimer
  <2>1. Shape'
    BY <1>a, <1>b DEF Protocol, Shape, RootPCs, SendPCs, NestedPCs, RegcFree,
        PjsuaFree, Free, InUse
  <2>2. NestedFails'
    BY <1>a, <1>b DEF Protocol, NestedFails, RegcFree, PjsuaFree, Free, InUse
  <2>3. BusyCounts'
    BY <1>a, <1>b DEF Protocol, BusyCounts, Counted, RegcFree, PjsuaFree,
        Free, InUse
  <2>4. PjsuaHolders'
    BY <1>a, <1>b DEF Protocol, PjsuaHolders, PjsuaPCs, RegcFree, PjsuaFree,
        Free, InUse
  <2>5. PjsuaMutex'
    BY <1>a, <1>b DEF Protocol, PjsuaMutex, RegcFree, PjsuaFree, Free, InUse
  <2>6. OneOwner'
    BY <1>a, <1>b DEF Protocol, OneOwner, Claiming, RegcFree, PjsuaFree, Free,
        InUse
  <2>7. HandleLive'
    BY <1>a, <1>b DEF Protocol, HandleLive, RegcFree, PjsuaFree, Free, InUse
  <2>8. OperationHasHandle'
    BY <1>a, <1>b DEF Protocol, OperationHasHandle, Shape, RootPCs, SendPCs,
        NestedPCs, PjsuaHolders, PjsuaPCs, PjsuaMutex, RegcFree, PjsuaFree,
        Free, InUse
  <2>9. FreedUnused'
    <3> USE <1>a, <1>b DEF Protocol, FreedUnused, InUse
    <3>1. CASE freed' = freed
      BY <3>1
    <3>2. CASE freed' # freed
      <4>1. ~hasTsx /\ busy = {} /\ Root(t) \in plock
        BY <3>2 DEF PjsuaHolders, PjsuaPCs
      <4>2. ASSUME NEW u \in Threads, pc[Send(u)] = "s_enter" PROVE FALSE
        <5>1. pc[Root(u)] \in {"op_sent", "tm_sent", "t_sent", "cb_sent"}
          BY <4>2 DEF Shape
        <5>2. pc[Root(u)] = "op_sent"      \* the others are counted in busy_ctr
          BY <4>1, <5>1 DEF BusyCounts, Counted
        <5>3. u = t                        \* both hold PJSUA_LOCK
          BY <4>1, <5>2 DEF PjsuaHolders, PjsuaMutex, PjsuaPCs
        <5> QED
          BY <4>2, <5>3
      <4> QED
        BY <4>1, <4>2
    <3> QED
      BY <3>1, <3>2
  <2> QED
    BY <2>1, <2>2, <2>3, <2>4, <2>5, <2>6, <2>7, <2>8, <2>9 DEF Protocol
<1> USE <1>a, <1>b DEF InUse, RegcFree, PjsuaFree, Free,
  Protocol, Shape, NestedFails, BusyCounts, PjsuaHolders, PjsuaMutex,
  OneOwner, HandleLive, OperationHasHandle, FreedUnused, Claiming,
  RootPCs, SendPCs, NestedPCs, Counted, PjsuaPCs
<1>13. ASSUME NEW t \in Threads, BeginAccDel(t) PROVE Protocol'
  BY <1>13 DEF BeginAccDel, Goto
<1>14. ASSUME NEW t \in Threads, SendEnter(t) PROVE Protocol'
  BY <1>14 DEF SendEnter, Goto
<1>15. ASSUME NEW t \in Threads, SendBusy(t) PROVE Protocol'
  BY <1>15 DEF SendBusy, Goto, Outstanding
<1>16. ASSUME NEW t \in Threads, SendBusyReturn(t) PROVE Protocol'
  BY <1>16 DEF SendBusyReturn, Goto
<1>17. ASSUME NEW t \in Threads, SendClaim(t) PROVE Protocol'
  BY <1>17 DEF SendClaim, Goto, Outstanding
<1>18. ASSUME NEW t \in Threads, SendRelock(t) PROVE Protocol'
  BY <1>18 DEF SendRelock, Goto
<1>19. ASSUME NEW t \in Threads, TimerPop(t) PROVE Protocol'
  BY <1>19 DEF TimerPop, Goto
<1>20. ASSUME NEW f \in Frames, TsxEnter(f) PROVE Protocol'
  BY <1>20 DEF TsxEnter, Goto
<1>21. ASSUME NEW f \in Frames, TsxUser(f) PROVE Protocol'
  BY <1>21 DEF TsxUser, Goto
<1>22. ASSUME NEW f \in Frames, TsxRelock(f) PROVE Protocol'
  BY <1>22 DEF TsxRelock, Goto
<1>23. ASSUME NEW f \in Frames, HandleDeleted(f) PROVE Protocol'
  BY <1>23 DEF HandleDeleted, Goto
<1>24. ASSUME NEW f \in Frames, CallbackCheck(f) PROVE Protocol'
  BY <1>24 DEF CallbackCheck, Goto
<1>25. ASSUME NEW f \in Frames, CallbackIn(f) PROVE Protocol'
  BY <1>25 DEF CallbackIn, Goto
<1>26. ASSUME NEW f \in Frames, CallbackDrop(f) PROVE Protocol'
  BY <1>26 DEF CallbackDrop, Goto, Destroy, CancelTimer
<1>27. ASSUME NEW f \in Frames, CallbackKeep(f) PROVE Protocol'
  BY <1>27 DEF CallbackKeep, Goto
<1>28. ASSUME NEW f \in Frames, CallbackRewritten(f) PROVE Protocol'
  BY <1>28 DEF CallbackRewritten, Goto
<1>29. ASSUME NEW f \in Frames, CallbackOut(f) PROVE Protocol'
  BY <1>29 DEF CallbackOut, Goto
<1>30. ASSUME NEW f \in Frames, CallbackBack(f) PROVE Protocol'
  BY <1>30 DEF CallbackBack, Goto
<1>31. ASSUME NEW f \in Frames, Drop(f) PROVE Protocol'
  BY <1>31 DEF Drop, Return
<1>32. ASSUME NEW f \in Frames, LastOut(f) PROVE Protocol'
  BY <1>32 DEF LastOut, Return, DestroyIfMarked, Destroy, CancelTimer
<1>33. ASSUME NEW t \in Threads, NEW renew \in BOOLEAN, BeginSetRegistration(t, renew) PROVE Protocol'
  BY <1>33 DEF BeginSetRegistration, Goto
<1>34. ASSUME NEW t \in Threads, NEW p \in pend, NEW c \in Codes, Answer(t, p, c) PROVE Protocol'
  BY <1>34 DEF Answer, Goto
<1>35. ASSUME NEW f \in Frames, NEW expires \in {0, 1}, HandleFinal(f, expires) PROVE Protocol'
  BY <1>35 DEF HandleFinal, Goto, Notify, Schedule, Granted
<1>36. CASE UNCHANGED vars
  BY <1>36 DEF vars
<1> HIDE <1>a, <1>b DEF regcVars, lockVars, accVars, envVars, localVars,
  Protocol, Shape, NestedFails, BusyCounts, PjsuaHolders, PjsuaMutex,
  OneOwner, HandleLive, OperationHasHandle, FreedUnused, Claiming,
  RootPCs, SendPCs, NestedPCs, Counted, PjsuaPCs,
  InUse, RegcFree, PjsuaFree, Free
<1> QED
  BY <1>1, <1>2, <1>3, <1>4, <1>5, <1>6, <1>7, <1>8, <1>9, <1>10, <1>11,
        <1>12, <1>13, <1>14, <1>15, <1>16, <1>17, <1>18, <1>19, <1>20, <1>21,
        <1>22, <1>23, <1>24, <1>25, <1>26, <1>27, <1>28, <1>29, <1>30, <1>31,
        <1>32, <1>33, <1>34, <1>35, <1>36
  DEF Next, Continue, Operation, Event, AccountStep,
  SendStep, TimerStep, TsxStep, CallbackStep

(* The inductive invariant holds in every state. *)
THEOREM Invariance == Spec => []IInv
<1>1. Init => IInv
  BY InitType, InitProtocol DEF IInv
<1>2. IInv /\ [Next]_vars => IInv'
  BY TypeStep, ProtocolStep DEF IInv
<1> QED
  BY <1>1, <1>2, PTL DEF Spec

(* A released structure is used by nobody: with any number of threads, any  *)
(* way of failing and any number of requests, what regc->busy_ctr, has_tsx  *)
(* and acc->regc protect is protected.                                      *)
THEOREM ReleaseIsSafe == Spec => []ReleasedUnused
<1>1. IInv => ReleasedUnused
  BY FrameFacts DEF IInv, ReleasedUnused, TypeOK, HoldersType, LocalType, 
  Protocol, Shape, NestedFails, BusyCounts, PjsuaHolders, PjsuaMutex,
  OneOwner, HandleLive, OperationHasHandle, FreedUnused, Claiming,
  RootPCs, SendPCs, NestedPCs, Counted, PjsuaPCs
<1> QED
  BY <1>1, Invariance, PTL

(* The callback of the account works on the structure the account owns.     *)
THEOREM CallbackIsOwned == Spec => []CallbackOwnsAccount
<1>1. IInv => CallbackOwnsAccount
  BY FrameFacts DEF IInv, CallbackOwnsAccount, 
  Protocol, Shape, NestedFails, BusyCounts, PjsuaHolders, PjsuaMutex,
  OneOwner, HandleLive, OperationHasHandle, FreedUnused, Claiming,
  RootPCs, SendPCs, NestedPCs, Counted, PjsuaPCs
<1> QED
  BY <1>1, Invariance, PTL

-----------------------------------------------------------------------------
(* Refcount. *)

(* The steps that neither count nor uncount a use, release the structure    *)
(* nor take it from the account are invisible at the abstract level.        *)
LEMMA SilentStep ==
  UNCHANGED <<freed, hasTsx, busy, handle>> => UNCHANGED RC!rcVars
BY DEF RC!rcVars, UsersNow

(* A step of the registration is a step of the abstract reference count, or *)
(* is not seen there.                                                       *)
LEMMA RefcountStep == IInv /\ [Next]_vars => [RC!Next]_(RC!rcVars)
<1> SUFFICES ASSUME IInv, [Next]_vars PROVE [RC!Next]_(RC!rcVars)
  OBVIOUS
<1> USE FrameFacts DEF regcVars, lockVars, accVars, envVars, localVars
<1>a. Request \notin Frames
  BY DEF Request, Frames
<1>b. busy \subseteq Frames
  BY DEF IInv, TypeOK, HoldersType
<1>c. Protocol
  BY DEF IInv
<1>d. hasTsx \in BOOLEAN /\ freed \in BOOLEAN /\ handle \in BOOLEAN
  BY DEF IInv, TypeOK, RegcType
<1>e. InUse <=> UsersNow # {}
  BY DEF InUse, UsersNow
<1>1. ASSUME NEW f \in Frames, ~freed, busy' = busy \cup {f},
             UNCHANGED <<freed, hasTsx, handle>>
      PROVE RC!Next
  <2>1. UsersNow' = UsersNow \cup {f}
    BY <1>1 DEF UsersNow
  <2>2. RC!Join(f)
    BY <1>1, <2>1 DEF RC!Join
  <2> QED
    BY <2>2 DEF RC!Next
<1>2. ASSUME NEW f \in Frames, busy' = busy \ {f}, UNCHANGED <<freed, hasTsx, handle>>
      PROVE RC!Next
  <2>1. UsersNow' = UsersNow \ {f}
    BY <1>2, <1>a DEF UsersNow
  <2>2. RC!Leave(f)
    BY <1>2, <2>1 DEF RC!Leave
  <2> QED
    BY <2>2 DEF RC!Next
<1>3. ASSUME NEW t \in Threads, SendEnter(t) PROVE RC!Next
  <2>1. ~freed
    BY <1>3, <1>c DEF SendEnter, Protocol, FreedUnused
  <2> QED
    BY <1>1, <1>3, <2>1 DEF SendEnter
<1>4. ASSUME NEW t \in Threads, SendBusyReturn(t) PROVE RC!Next
  BY <1>2, <1>4 DEF SendBusyReturn
<1>5. ASSUME NEW t \in Threads, SendClaim(t) PROVE RC!Next
  <2>1. Send(t) \in busy
    BY <1>5, <1>c DEF SendClaim, Protocol, BusyCounts, Counted
  <2>2. ~freed
    BY <2>1, <1>c DEF Protocol, FreedUnused
  <2>3. UsersNow' = UsersNow \cup {Request}
    BY <1>5 DEF SendClaim, UsersNow, Outstanding
  <2>4. RC!Join(Request)
    BY <1>5, <2>2, <2>3 DEF SendClaim, RC!Join
  <2> QED
    BY <2>4 DEF RC!Next
<1>6. ASSUME NEW t \in Threads, TimerEnter(t) PROVE [RC!Next]_(RC!rcVars)
  <2>1. CASE freed
    BY <1>6, <2>1, SilentStep DEF TimerEnter
  <2>2. CASE ~freed
    BY <1>6, <2>2, <1>1 DEF TimerEnter
  <2> QED
    BY <2>1, <2>2
<1>7. ASSUME NEW f \in Frames, TsxEnter(f) PROVE RC!Next
  <2>1. hasTsx
    BY <1>7, <1>c DEF TsxEnter, Protocol, OneOwner, Claiming
  <2>2. ~freed
    BY <2>1, <1>c DEF Protocol, FreedUnused
  <2> QED
    BY <1>1, <1>7, <2>2 DEF TsxEnter
<1>8. ASSUME NEW f \in Frames, TsxLock(f) PROVE RC!Next
  <2>1. UsersNow' = UsersNow \ {Request}
    BY <1>8, <1>a, <1>b DEF TsxLock, UsersNow
  <2>2. UNCHANGED <<freed, handle>>
    BY <1>8 DEF TsxLock
  <2>3. RC!Leave(Request)
    BY <2>1, <2>2 DEF RC!Leave
  <2> QED
    BY <2>3 DEF RC!Next
<1>9. ASSUME NEW f \in Frames, Drop(f) PROVE RC!Next
  BY <1>2, <1>9 DEF Drop
<1>10. ASSUME handle, handle' = FALSE, UNCHANGED <<hasTsx, busy>>, NEW t \in Threads, Destroy(t)
       PROVE RC!Next
  <2>1. ~freed /\ UNCHANGED UsersNow
    BY <1>10, <1>c DEF Protocol, HandleLive, UsersNow
  <2>2. freed' \in {FALSE, UsersNow = {}}
    <3>1. CASE InUse
      BY <1>10, <1>d, <2>1, <3>1 DEF Destroy
    <3>2. CASE ~InUse
      BY <1>10, <3>2, <1>e DEF Destroy
    <3> QED
      BY <3>1, <3>2
  <2>3. RC!LetGo
    BY <1>10, <2>1, <2>2 DEF RC!LetGo
  <2> QED
    BY <2>3 DEF RC!Next
<1>11. ASSUME NEW t \in Threads, EndOperation(t) PROVE [RC!Next]_(RC!rcVars)
  <2>1. CASE deleting[t] /\ handle
    BY <1>10, <1>11, <2>1 DEF EndOperation
  <2>2. CASE ~(deleting[t] /\ handle)
    BY <1>11, <2>2, <1>d, SilentStep DEF EndOperation
  <2> QED
    BY <2>1, <2>2
<1>12. ASSUME NEW f \in Frames, CallbackDrop(f) PROVE RC!Next
  <2>1. handle
    BY <1>12, <1>c DEF CallbackDrop, Protocol, Shape, SendPCs, OperationHasHandle
  <2> QED
    BY <1>10, <1>12, <2>1 DEF CallbackDrop
<1>13. ASSUME NEW f \in Frames, LastOut(f) PROVE [RC!Next]_(RC!rcVars)
  <2>1. UNCHANGED <<hasTsx, busy, handle, UsersNow>>
    BY <1>13 DEF LastOut, UsersNow
  <2>2. CASE freed \/ ~del \/ InUse
    BY <1>13, <2>1, <2>2, SilentStep DEF LastOut, DestroyIfMarked, Destroy
  <2>3. CASE ~freed /\ del /\ ~InUse
    <3>1. ~handle
      BY <2>3, <1>c DEF Protocol, HandleLive
    <3>2. freed'
      BY <1>13, <2>3 DEF LastOut, DestroyIfMarked, Destroy
    <3>3. RC!Release
      BY <2>1, <2>3, <3>1, <3>2, <1>e DEF RC!Release
    <3> QED
      BY <3>3 DEF RC!Next
  <2> QED
    BY <2>2, <2>3
<1>14. ASSUME NEW t \in Threads,
              \/ \E renew \in BOOLEAN : BeginSetRegistration(t, renew)
              \/ BeginAccDel(t) \/ MakeRequest(t) \/ SendBusy(t) \/ SendOut(t) \/ SendRelock(t)
              \/ TimerPop(t) \/ TimerRegister(t) \/ TimerSent(t)
              \/ \E p \in pend, c \in Codes : Answer(t, p, c)
       PROVE UNCHANGED RC!rcVars
  BY <1>14, SilentStep DEF BeginSetRegistration, BeginAccDel, MakeRequest, SendBusy, SendOut,
     SendRelock, TimerPop, TimerRegister, TimerSent, Answer
<1>15. ASSUME NEW f \in Frames,
              \/ TsxUser(f) \/ TsxRelock(f) \/ HandleAuth(f) \/ HandleDeleted(f)
              \/ HandleBrief(f) \/ TsxSent(f)
              \/ \E expires \in {0, 1} : HandleFinal(f, expires)
       PROVE UNCHANGED RC!rcVars
  BY <1>15, SilentStep DEF TsxUser, TsxRelock, HandleAuth, HandleDeleted, HandleBrief, TsxSent,
     HandleFinal
<1>16. ASSUME NEW f \in Frames,
              \/ CallbackCheck(f) \/ CallbackCall(f) \/ CallbackIn(f) \/ CallbackKeep(f)
              \/ CallbackRewrite(f) \/ CallbackRewritten(f) \/ CallbackOut(f) \/ CallbackBack(f)
       PROVE UNCHANGED RC!rcVars
  BY <1>16, SilentStep DEF CallbackCheck, CallbackCall, CallbackIn, CallbackKeep,
     CallbackRewrite, CallbackRewritten, CallbackOut, CallbackBack
<1>17. CASE UNCHANGED vars
  BY <1>17, SilentStep DEF vars
<1> QED
  BY <1>3, <1>4, <1>5, <1>6, <1>7, <1>8, <1>9, <1>11, <1>12, <1>13, <1>14, <1>15, <1>16, <1>17
  DEF Next, Continue, Operation, Event, AccountStep, SendStep, TimerStep, TsxStep, CallbackStep

(* busy_ctr, _delete_flag and has_tsx implement the abstract reference       *)
(* count: released once, after the account let go, never used afterwards.   *)
THEOREM RefcountImplemented == Spec => ImplementsRefcount
<1>1. Init => RC!Init
  BY DEF Init, RC!Init, UsersNow
<1> QED
  BY <1>1, RefcountStep, Invariance, PTL DEF Spec, ImplementsRefcount, RC!Spec
=============================================================================
