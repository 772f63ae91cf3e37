---------------------------- MODULE TisipDispatch ----------------------------
(***************************************************************************)
(* How the threads of the module meet: the thread that calls the           *)
(* JavaScript API and the thread that polls PJSIP share PJSUA_LOCK, the    *)
(* lock of each dialog, and the serial queue on which PjSIPDispatch runs   *)
(* every PJSIP callback synchronously.  The observers of the module ask    *)
(* PJSIP, from that queue, for the state they report to JavaScript.        *)
(*                                                                         *)
(* What a C or Objective-C function does to these three is a sequence of   *)
(* steps; the sequence of a function is made of the sequences of the       *)
(* functions it calls, in the order it calls them.                         *)
(*                                                                         *)
(* A definition named D_error is D with a mistake a maintainer could make; *)
(* no specification uses it, it shows which property notices the mistake.  *)
(***************************************************************************)
EXTENDS Naturals, SequencesExt

CONSTANTS
  Apps,      \* threads that call the API of the module
  Workers,   \* threads that poll PJSIP
  Slots,     \* pjsua_var.calls, one per call id
  Dialogs,   \* bound of this model: the calls of one run, each with its dialog
  MaxJobs,   \* bound of this model: the jobs of one run
  Jobs       \* what threads do in this run: a subset of JobKinds

JobKinds == {"register", "refresh", "unregister", "regState", "pager",
             "placeCall", "answerCall", "hangUpCall", "incoming", "event"}

ASSUME ThreadsAssumption == Apps \cap Workers = {}
ASSUME JobsAssumption == MaxJobs \in Nat /\ Jobs \subseteq JobKinds
ASSUME NamesAssumption == {"pjsua", "queue", "none"} \cap Dialogs = {}

Threads == Apps \cup Workers
Locks == {"pjsua", "queue"} \cup Dialogs

VARIABLES
  depth,   \* depth[t][l]: how often thread t holds lock l
  todo,    \* what each thread still does in its job
  slot,    \* the dialog of calls[id].inv, or "none"
  inv,     \* inv->state of each dialog
  uas,     \* the dialogs of incoming calls
  told,    \* CALL events fired: <<state that caused it, state it reported>>
  jobs     \* jobs begun

vars == <<depth, todo, slot, inv, uas, told, jobs>>
callVars == <<slot, inv, uas, told>>

InvStates == {"new", "calling", "incoming", "early", "connecting",
              "confirmed", "disconnected"}

(* A thread can take a lock nobody else holds: the mutexes are recursive    *)
(* for their owner, and no block ever dispatches to the queue again.        *)
Free(t, l) == \A u \in Threads \ {t} : depth[u][l] = 0
DialogFree_always(t, d) == TRUE
DialogFree(t, d) == Free(t, d)

-----------------------------------------------------------------------------
(* The steps of the functions. *)
Take(l) == << <<"take", l>> >>
Give(l) == << <<"give", l>> >>
Pjsua(body) == Take("pjsua") \o body \o Give("pjsua")

(* dispatch(): dispatch_sync of a block on _queue. *)
Dispatch(block) == Take("queue") \o block \o Give("queue")

(* pjsua_call_get_info and pjsua_acc_get_info read under PJSUA_LOCK. *)
GetInfo_unbalanced(body) == body \o Give("pjsua")
GetInfo(body) == Pjsua(body)

(* callStateDidChange asks for the state and fires the CALL event. *)
CallStateDidChange(id, d, st) == GetInfo(<< <<"report", id, d, st>> >>)

(* dispatchCallMediaState: look at the media, connect both directions. *)
OnCallMediaState(id) == Dispatch(GetInfo(<<>>) \o Pjsua(<<>>) \o Pjsua(<<>>))

FreeCall_noReset(id) == <<>>
FreeCall(id) == Pjsua(<< <<"free", id>> >>)

OnStateChanged_freeFirst(id, d, st) ==
  << <<"set", d, st>> >>
  \o (IF st = "disconnected" THEN FreeCall(id) ELSE <<>>)
  \o Dispatch(CallStateDidChange(id, d, st))

(* inv_set_state and pjsua_call_on_state_changed: on_call_state first, then *)
(* a disconnected call gives its slot back.                                 *)
OnStateChanged(id, d, st) ==
  << <<"set", d, st>> >>
  \o Dispatch(CallStateDidChange(id, d, st))
  \o (IF st = "disconnected" THEN FreeCall(id) ELSE <<>>)

(* pjsua_acc_set_registration: on_reg_started is called under PJSUA_LOCK.   *)
(* refresh: calls it alone, register: after the part of pjsua_acc_add that  *)
(* holds the lock, unregister: inside that of pjsua_acc_del.                *)
SetRegistration == Pjsua(Dispatch(<<>>))
Register == Pjsua(<<>>) \o SetRegistration
Unregister == Pjsua(SetRegistration)

(* regc_cb: on_reg_state, whose observer asks for the account. *)
RegCb == Pjsua(Dispatch(GetInfo(<<>>)))

(* pjsua_im_on_rx_request: on_pager, without a lock. *)
OnPager_accountInfo == Dispatch(GetInfo(<<>>))
OnPager == Dispatch(<<>>)

(* hangUpCall: muteCall looks the call up first. *)
HangUpCall(id) == GetInfo(<<>>) \o << <<"acquire", id, "hangup">> >>
AnswerCall(id) == << <<"acquire", id, "200">> >>

(* pjsua_call_make_call and pjsua_call_on_incoming allocate under the lock. *)
PlaceCall == Take("pjsua") \o << <<"alloc", "calling">> >>
Incoming == Take("pjsua") \o << <<"alloc", "incoming">> >>

PlaceCallRest(id, d) ==
  Take(d) \o OnStateChanged(id, d, "calling") \o Give(d) \o Give("pjsua")

(* onIncomingCall answers with 180 before it dispatches CALL.INCOMING. *)
IncomingRest(id, d) ==
  Take(d) \o << <<"acquire", id, "180">> >> \o Dispatch(GetInfo(<<>>))
  \o Give(d) \o Give("pjsua")

AppScripts(id) ==
  [register |-> Register, refresh |-> SetRegistration, unregister |-> Unregister,
   placeCall |-> PlaceCall, answerCall |-> AnswerCall(id), hangUpCall |-> HangUpCall(id)]
WorkerScripts(id) ==
  [refresh |-> SetRegistration, regState |-> RegCb, pager |-> OnPager,
   incoming |-> Incoming, event |-> << <<"event", id, slot[id]>> >>]

-----------------------------------------------------------------------------
(* What a SIP event makes of a call, by the states of sip_inv.c.  An        *)
(* outgoing call is confirmed as soon as it is accepted, an incoming one    *)
(* when the ACK arrives.                                                    *)
Accepted(id, d) ==
  OnStateChanged(id, d, "connecting") \o OnCallMediaState(id) \o OnStateChanged(id, d, "confirmed")

EventChanges(id, d) ==
  LET to(st) == OnStateChanged(id, d, st) IN
  CASE inv[d] \in {"calling", "early"} /\ d \notin uas ->
         {to("early"), Accepted(id, d), to("disconnected")}
    [] inv[d] \in {"incoming", "early"} /\ d \in uas -> {to("disconnected")}
    [] inv[d] = "connecting" -> {to("confirmed"), to("disconnected")}
    [] inv[d] = "confirmed" -> {OnCallMediaState(id), to("disconnected")}
    [] OTHER -> {<<>>}

(* pjsip_inv_end_session: a final response ends an incoming call at once, a *)
(* CANCEL or BYE only asks the peer, unless the BYE cannot be sent.         *)
HangupChanges(id, d) ==
  CASE inv[d] \in {"incoming", "early"} /\ d \in uas -> {OnStateChanged(id, d, "disconnected")}
    [] inv[d] = "confirmed" -> {<<>>, OnStateChanged(id, d, "disconnected")}
    [] OTHER -> {<<>>}

AnswerChanges(id, d, code) ==
  IF inv[d] \in {"incoming", "early"} /\ d \in uas
  THEN {IF code = "180" THEN OnStateChanged(id, d, "early")
        ELSE OnCallMediaState(id) \o OnStateChanged(id, d, "connecting")}
  ELSE {<<>>}

(* What the caller of acquire_call does with the call. *)
Operate(id, d, what) ==
  IF what = "hangup"
  THEN HangupChanges(id, d)
  ELSE {Pjsua(<<>>) \o steps : steps \in AnswerChanges(id, d, what)}

-----------------------------------------------------------------------------
Init ==
  /\ depth = [t \in Threads |-> [l \in Locks |-> 0]]
  /\ todo = [t \in Threads |-> <<>>]
  /\ slot = [id \in Slots |-> "none"]
  /\ inv = [d \in Dialogs |-> "new"]
  /\ uas = {}
  /\ told = [d \in Dialogs |-> <<>>]
  /\ jobs = 0

Begin(t) ==
  /\ todo[t] = <<>>
  /\ jobs < MaxJobs
  /\ \E id \in Slots :
       LET scripts == IF t \in Apps THEN AppScripts(id) ELSE WorkerScripts(id) IN
       \E job \in Jobs \cap DOMAIN scripts :
         /\ job = "event" => slot[id] # "none"
         /\ todo' = [todo EXCEPT ![t] = scripts[job]]
  /\ jobs' = jobs + 1
  /\ UNCHANGED <<depth, callVars>>

AtStep(t, kind) == todo[t] # <<>> /\ Head(todo[t])[1] = kind
Arg(t, i) == Head(todo[t])[i + 1]
Done(t) == todo' = [todo EXCEPT ![t] = Tail(@)]
Run(t, steps) == todo' = [todo EXCEPT ![t] = steps \o Tail(@)]

TakeLock(t) ==
  /\ AtStep(t, "take")
  /\ Free(t, Arg(t, 1))
  /\ depth' = [depth EXCEPT ![t][Arg(t, 1)] = @ + 1]
  /\ Done(t)
  /\ UNCHANGED <<callVars, jobs>>

GiveLock(t) ==
  /\ AtStep(t, "give")
  /\ depth' = [depth EXCEPT ![t][Arg(t, 1)] = @ - 1]
  /\ Done(t)
  /\ UNCHANGED <<callVars, jobs>>

SetState(t) ==
  /\ AtStep(t, "set")
  /\ inv' = [inv EXCEPT ![Arg(t, 1)] = Arg(t, 2)]
  /\ Done(t)
  /\ UNCHANGED <<depth, slot, uas, told, jobs>>

(* The state read is that of the call now in the slot. *)
Report(t) ==
  /\ AtStep(t, "report")
  /\ LET d == Arg(t, 2)
         now == slot[Arg(t, 1)]
     IN told' = [told EXCEPT ![d] =
                   Append(@, <<Arg(t, 3), IF now = "none" THEN "new" ELSE inv[now]>>)]
  /\ Done(t)
  /\ UNCHANGED <<depth, slot, inv, uas, jobs>>

ResetCall(t) ==
  /\ AtStep(t, "free")
  /\ slot' = [slot EXCEPT ![Arg(t, 1)] = "none"]
  /\ Done(t)
  /\ UNCHANGED <<depth, inv, uas, told, jobs>>

(* alloc_call_id *)
AllocCall(t) ==
  /\ AtStep(t, "alloc")
  /\ \E id \in Slots, d \in Dialogs :
       /\ slot[id] = "none"
       /\ inv[d] = "new"
       /\ slot' = [slot EXCEPT ![id] = d]
       /\ IF Arg(t, 1) = "incoming"
          THEN /\ inv' = [inv EXCEPT ![d] = "incoming"]
               /\ uas' = uas \cup {d}
               /\ Run(t, IncomingRest(id, d))
          ELSE /\ UNCHANGED <<inv, uas>>
               /\ Run(t, PlaceCallRest(id, d))
  /\ UNCHANGED <<depth, told, jobs>>

(* No slot, or an invalid account, address or offer: 4xx or an error. *)
AllocFails(t) ==
  /\ AtStep(t, "alloc")
  /\ Run(t, Give("pjsua"))
  /\ UNCHANGED <<depth, callVars, jobs>>

(* acquire_call tries PJSUA_LOCK and the dialog, and keeps the second only. *)
AcquireCall(t) ==
  /\ AtStep(t, "acquire")
  /\ Free(t, "pjsua")
  /\ LET id == Arg(t, 1)
         d == slot[id]
     IN /\ d # "none"
        /\ DialogFree(t, d)
        /\ depth' = [depth EXCEPT ![t][d] = @ + 1]
        /\ \E steps \in Operate(id, d, Arg(t, 2)) : Run(t, steps \o Give(d))
  /\ UNCHANGED <<callVars, jobs>>

(* There is no call, or a lock stays taken until the time is over. *)
AcquireFails(t) ==
  /\ AtStep(t, "acquire")
  /\ LET d == slot[Arg(t, 1)]
     IN d # "none" => ~Free(t, "pjsua") \/ ~Free(t, d)
  /\ Done(t)
  /\ UNCHANGED <<depth, callVars, jobs>>

(* A message or timer of a dialog is handled under the lock of the dialog. *)
DialogEvent(t) ==
  /\ AtStep(t, "event")
  /\ LET id == Arg(t, 1)
         d == Arg(t, 2)
     IN /\ Free(t, d)
        /\ depth' = [depth EXCEPT ![t][d] = @ + 1]
        /\ \E steps \in EventChanges(id, d) : Run(t, steps \o Give(d))
  /\ UNCHANGED <<callVars, jobs>>

Continue(t) ==
  \/ TakeLock(t) \/ GiveLock(t) \/ SetState(t) \/ Report(t) \/ ResetCall(t)
  \/ AllocCall(t) \/ AllocFails(t) \/ AcquireCall(t) \/ AcquireFails(t) \/ DialogEvent(t)

Next == \E t \in Threads : Begin(t) \/ Continue(t)

(* A thread that can go on with its job does. *)
Spec == Init /\ [][Next]_vars
FairSpec == Spec /\ \A t \in Threads : WF_vars(Continue(t))

-----------------------------------------------------------------------------
(* Locks are held a natural number of times, slots hold dialogs, calls have *)
(* a state, and an event reports one.                                       *)
TypeOK ==
  /\ depth \in [Threads -> [Locks -> Nat]]
  /\ \A t \in Threads : todo[t] = <<>> => \A l \in Locks : depth[t][l] = 0
  /\ slot \in [Slots -> Dialogs \cup {"none"}]
  /\ inv \in [Dialogs -> InvStates]
  /\ uas \subseteq Dialogs
  /\ \A d \in Dialogs : told[d] \in Seq(InvStates \X InvStates)
  /\ jobs \in 0..MaxJobs

(* Every CALL event reports the state whose change it announces, although   *)
(* the observer asks for the state by call id, later and on the queue: the  *)
(* call has neither moved on nor left its slot to another one.              *)
EventTellsCause ==
  \A d \in Dialogs : \A i \in DOMAIN told[d] : told[d][i][1] = told[d][i][2]

(* The events of one call never go back, and nothing follows the            *)
(* disconnection, whichever threads cause them.                             *)
Rank(st) ==
  CASE st = "new" -> 0 [] st = "calling" -> 1 [] st = "incoming" -> 1 [] st = "early" -> 2
    [] st = "connecting" -> 3 [] st = "confirmed" -> 4 [] st = "disconnected" -> 5

EventsInOrder ==
  \A d \in Dialogs : \A i \in 1..(Len(told[d]) - 1) :
    /\ Rank(told[d][i][1]) <= Rank(told[d][i + 1][1])
    /\ told[d][i][1] # "disconnected"

(* A call that was disconnected is reported so and gives its slot back. *)
DisconnectReported ==
  \A d \in Dialogs :
    inv[d] = "disconnected" ~>
      /\ told[d] # <<>> /\ Last(told[d])[2] = "disconnected"
      /\ \A id \in Slots : slot[id] # d

(* Every callback handed to the queue is processed, and every call of the   *)
(* API returns.  Holds with one call in existence, and of account           *)
(* operations alone: two calls block each other, and so do a call and an    *)
(* account.                                                                 *)
JobsEnd == \A t \in Threads : todo[t] # <<>> ~> todo[t] = <<>>
=============================================================================
