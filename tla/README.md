# A TLA+ model of TiSIP

TiSIP is a Titanium module for iOS: a small Objective-C layer (`src/iphone/Classes`) gives
JavaScript a SIP phone and rests on a vendored PJSIP 2.x (`src/iphone/pjsip`). The layer is
nearly stateless. What can go wrong happens where its threads meet PJSIP: in the client
registration, in the calls, and on the dispatch queue that carries every PJSIP callback to
JavaScript; and in what these rest on, the transactions, the timer heap and the negotiation of
offers. This directory models those parts, checks them with TLC on small instances and
proves the main results with TLAPS for every value of the constants.

Paths below are relative to `src/iphone/pjsip/src/pjsip/src/` for C files and to
`src/iphone/Classes/` for Objective-C files.

## 1. The system

### Threads

| thread | runs |
| --- | --- |
| application | the JavaScript API: `PjSIPProxy.m` calls `pjsua_*` |
| worker | polls the endpoint: timers, incoming messages, transaction callbacks |
| queue | the serial queue of `PjSIPDispatch.m`; `dispatch_sync` makes the caller wait for its block |

### Components

Each entry: the state it keeps, its operations, its partners, what is hard about it and what
makes it correct.

**Client registration** (`pjsip-ua/sip_reg.c`, `pjsip_regc`).
State: `has_tsx`, `busy_ctr`, `_delete_flag`, `cb`, `current_op`, `auto_reg`, the refresh
timer, `expires_hdr`, `expires`, `delay_before_refresh`, all nominally under `regc->lock`.
Operations: create, init, register, unregister, send, the refresh timer, the transaction
callback (401/407, 423, 2xx, other finals), update of expiry and margin, destroy.
Partners: called by pjsua accounts, sends through the stateful request helper, calls back
`regc_cb`. Hard: the lock is released around callbacks and sends; a send can fail inside the
call and run the callback nested; destruction is deferred to the last user; the refresh is
unsigned arithmetic. Correct when nobody uses a released structure, one request is outstanding
at a time, a refresh is always to come and comes in time, and no lock order is reversed.

**pjsua accounts** (`pjsua-lib/pjsua_acc.c`).
State: the account table, `acc->regc`, `contact_rewritten`, `reg_timeout`, the automatic
re-registration (`auto_rereg`: active, timer). Operations: add, modify, delete, set_registration,
`regc_cb`, the retry timer, the loss of a transport. Partners: owns one `pjsip_regc` per account, calls
TiSIP's `on_reg_started` and `on_reg_state2` under `PJSUA_LOCK`. Hard: `regc_cb` destroys the
structure it was called for; slots and addresses are used again while callbacks of the earlier
account wait for the lock. Correct when no session outlives its account and no retry timer is lost to its slot, no answer reaches another
account, and a lost registration is retried until it succeeds or the application knows.

**pjsua calls** (`pjsua-lib/pjsua_call.c`) and **INVITE sessions** (`pjsip-ua/sip_inv.c`).
State: `pjsua_var.calls[]` (slot, `inv`), `inv->state`. Operations: make, incoming, answer,
hang up, state callback, acquire_call. Hard: two locks (`PJSUA_LOCK`, dialog) taken in either
order, `acquire_call` gives up instead of waiting; slots are reused. Correct when every state
change is reported in order, a disconnected call frees its slot, and nothing blocks.

**Callback dispatch** (`PjSIPDispatch.m`, `ComCrissmoldovanTisipModule.m`).
State: the queue. Operations: one C callback per PJSIP event, which runs its observers on the
queue while the PJSIP thread waits. Hard: the waiting thread holds whatever PJSIP held. Correct
when every callback is processed and every event tells the state whose change caused it.

**API** (`PjSIPProxy.m`).
State: account and call ids. Operations: start, stop, register, unregister, refresh, placeCall,
answerCall, hangUpCall, muteCall, unmuteCall, sendText, sendDTMF.

**Offers and answers** (`pjmedia/sdp_neg.c`, the confirmed part of `pjsip-ua/sip_inv.c`, `sip_timer.c`,
the CSeq of `pjsip/sip_dialog.c`).
State: one negotiator per call (state, active, offered and received SDP), `inv->invite_tsx`, CSeq in both
directions. Operations: re-INVITE with or without an offer, UPDATE, refresh of the session timer, and what
receives them, their responses and ACKs. Hard: both ends offer at once, messages overtake each
other, and every way in which a request can end has to put the negotiator back. Correct when both ends
describe the same session once all is quiet, and no negotiator waits for an answer that cannot come.

**SIP transactions** (`pjsip/sip_transaction.c`, `sip_util_statefull.c`).
State: `state`, `status_code`, the retransmit and timeout timers, `transport_flag`, `last_tx`.
Operations: the handlers of the eight states, sends that wait for a name to be resolved or a connection
to open, timer callbacks, transport errors, `pjsip_tsx_terminate`. Hard: a callback reads which
timer it is before it takes the lock; three sources (response, timeout, transport) end the same transaction;
the application is told and the memory released in separate steps. Correct when the sender of a request hears
one final answer and no second one, and no transaction waits without a timer.

**Timer heap** (`pjlib/src/pj/timer.c`).
State: the array of entries, the array of their ids with the free list in the same numbers, a group-lock
reference per entry. Operations: schedule, cancel, poll. Hard: growth while ids are in use; callbacks outside
the lock, which schedule the same entry again. Correct when it behaves as the set of timers it promises.

**Not part of the models**: transports and the endpoint, group locks, subscriptions and presence,
media, NAT traversal, VoIP push, string helpers (section 8; `PROJECT.json` gives the reason for each).

### Interactions that are hard

- *Callbacks with a lock released.* `regc_tsx_callback` unlocks for `regc_tsx_cb` and for
  `regc_cb`; what it read before may have changed.
- *Callbacks inside a call.* `pjsip_regc_send` can fail in `pjsip_endpt_send_request`, which
  runs the transaction callback on the same thread before it returns.
- *Deferred destruction.* `busy_ctr` and `_delete_flag` decide who releases the pool; the
  counter is atomic, the flag is not, and the two are read in separate steps.
- *A timer that fired but has not run.* The heap drops the entry before the callback counts
  itself.
- *Synchronous dispatch under locks.* The queue is a lock like any other, taken last by
  callbacks and first by the blocks that ask PJSIP for details.
- *Reuse.* An account slot, the address of a session and a timer entry are all used again while a
  callback of their earlier use is under way.
- *Crossing offers.* Each end may offer by two methods at once; only the negotiator's state tells a
  stale ACK or answer from the one that is awaited.
- *Unsigned seconds.* Expiry, margin and least delay are subtracted and compared in three types.

The hazards, each at its line with the properties that cover it, are in `PROJECT.json`.

## 2. Modules

| module | models | proofs |
| --- | --- | --- |
| `Regc` | one client registration and its account: locks, reference count, timer, callbacks | `Regc_proofs`, `RegcReliable_proofs` |
| `Refcount` | what the deferred destruction promises; `Regc` implements it | `Regc_proofs` |
| `RegcExpires` | the seconds of the same registration: asked, granted, scheduled | `RegcExpires_proofs` |
| `PjsuaAcc` | the account table: slots, sessions, retries, answers of earlier accounts | `PjsuaAcc_proofs` |
| `TisipDispatch` | API, calls, PJSIP callbacks and the queue, as threads that take locks | `TisipDispatch_proofs` |
| `SipTsx` | one transaction, client or server, INVITE or not, with its timers and transport | `SipTsx_proofs` |
| `OneAnswer` | what a sender of a request is promised; `SipTsx` implements it | `SipTsx_proofs` |
| `OfferAnswer` | the SDP negotiators of both ends of a confirmed call and the messages between them | `OfferAnswer_proofs` |
| `TimerHeap` | the arrays of the timer heap, its callers and its pollers | `TimerHeap_proofs` |
| `Timers` | the set of timers a heap promises to be; `TimerHeap` implements it | `TimerHeap_proofs` |

How they fit: `Regc` and `RegcExpires` are two views of `sip_reg.c`. `Regc` has every interleaving and no
numbers; `RegcExpires` has the numbers, with each call one step. `PjsuaAcc` takes a session as the
few states `Regc` establishes (free, idle, asked, leaving, stuck) and has several of them,
with the accounts that own them. Both rely on a request that is answered once: at most once is `OneAnswer`, which a
transaction keeps while one worker polls (`tsx_oneWorker`; with two it does not, section 4), and at least once is
`AskedIsAnswered`. All of them use timers as `Timers` describes them: an entry
leaves the set before its callback runs. `TisipDispatch` uses the
account operations by the locks they take. There are no separate MC modules: constants are
model values or small sets, given by the `.cfg` files.

In every module a definition `D_error` is `D` with a mistake a maintainer could make. No
specification uses it; it records which property notices the mistake.

### Regc

A thread is a stack of at most three calls: `Root` (an account operation, a refresh timer, a
transaction callback), `Send` (the `pjsip_regc_send` it makes) and `Nested` (the callback run
inside a send that fails). Each has a program counter; an action is the code between two
points where another thread can run, that is, where a lock is taken or released or an atomic is
touched. A mutex is the set of frames that hold it, so that recursive acquisition is a second
member; `busy_ctr` is the set of frames that counted themselves.

| code | actions |
| --- | --- |
| `pjsua_acc_set_registration`, `pjsua_acc_del` | `BeginSetRegistration`, `BeginAccDel`, `MakeRequest`, `EndOperation` |
| `pjsip_regc_send` | `SendEnter`, `SendBusy`, `SendBusyReturn`, `SendClaim`, `SendOut`, `SendRelock`, `LastOut` |
| `regc_refresh_timer_cb` | `TimerPop`, `TimerEnter`, `TimerRegister`, `TimerSent` |
| `regc_tsx_callback` | `Answer`, `TsxEnter`, `TsxLock`, `TsxUser`, `TsxRelock`, `Handle*`, `TsxSent` |
| `call_callback`, `regc_cb` | `CallbackCheck`, `CallbackCall`, `CallbackIn`, `CallbackDrop`, `CallbackKeep`, `CallbackRewrite`, `CallbackRewritten`, `CallbackOut`, `CallbackBack` |
| `pjsip_regc_destroy` | `Destroy` |

`Failures` says how a send may fail at once: `"create"` (the request cannot be made),
`"callback"` (reported by a nested callback), `"silent"` (an error with no callback, because no
transaction could be created). Abstractions: one structure, from creation to release; a step
that is undefined behaviour (a lock of a released structure, a call through NULL) is recorded in
`fault` and the process stops; a read of released memory is recorded and goes on;
`contact_rewritten` is written before the unlock rather than after; at most `MaxSend` requests.

### RegcExpires

The variables are the fields (`header` is `regc->expires_hdr`, `expires`, `before` is
`delay_before_refresh`), the request outstanding, the refresh timer as seconds left, and the
registrar's binding as seconds left. `Word` is 2^32; the difference in `schedule_registration` is
taken in `pj_uint32_t` and stored in a `long`, whose width is `WideLong` (the manifest builds for
armv7 and i386 as well as arm64 and x86_64). The registrar grants between its minimum and what was
asked, and with `Quirks` leaves out what it grants or what it insists on. Authentication, unregistration
and account deletion change none of these numbers and belong to `Regc`.

### TisipDispatch

A function is a sequence of steps (`take`, `give`, `set`, `report`, `free`, `alloc`, `acquire`,
`event`) built from the sequences of the functions it calls, in their order. The queue is one of
the locks. `told` keeps for each call the pairs (state that caused the event, state the observer
read). What the pairs leave out: CALL.INCOMING, which follows CALL.CONNECTING, because 180 is
answered first (`PjSIPDispatch.m:252`). A rewritten contact makes `regc_cb` call
`pjsua_acc_set_registration` in the same lock order as `RegCb`, and is not repeated here.

### Refcount

Users join and leave while the structure is not released; the owner lets go once; whoever finds no user and no
owner releases it. In `Regc`, the users are the frames in `busy_ctr` and the outstanding request, the
owner is `acc->regc`, and released is the release of the pool.

### PjsuaAcc

A worker that entered a callback waits for `PJSUA_LOCK` (`pc`), and what it brought (session, code) may be
stale when it gets it; everything done under the lock is one step. A session records the slot and the
*generation* of the account that created it, which the code does not have: the properties compare
them. `settled` records that the application knows (its own call failed, or a failure that is not
retried was reported).

| code | actions |
| --- | --- |
| `pjsua_acc_add`, which registers after its unlock | `Add`, `FinishAdd` |
| `pjsua_acc_set_registration`, `pjsua_acc_del` | `SetReg`, `Delete` |
| `regc_tsx_callback` up to the lock, `regc_cb`, its write after the unlock | `TakeAnswer`, `RunAnswer`, `RunMark` |
| `auto_rereg_timer_cb` | `PopRetry`, `RunRetry` |
| `regc_refresh_timer_cb` | `PopRefresh`, `RunRefresh` |
| `pjsua_acc_on_tp_state_changed` | `Disconnected` |

What the code does and the model keeps: `contact_rewritten`, `auto_rereg.active` and `reg_last_code` of the
earlier account survive in the slot; an unregistration that fails for a moment is retried as a registration;
a nested failure inside `pjsua_acc_del` arms the retry timer before the account becomes invalid; a refresh that
fails locally is reported and not retried; `pjsua_acc_add` ignores that its registration failed.

### SipTsx

One transaction; `role` and `invite` pick the state machine. `to` and `rt` say that the two timers are in the
heap, `id` is the timeout timer's (`timeout` or `error`), `op` the send under way (a name lookup,
a transport), `orphan` a lookup that the transaction no longer waits for. A handler runs under the
transaction's lock and is one step; a worker's callback is split where it runs without the lock:
`ReadId`, then, after the locked `OnError`, `NotifyError` (`tsx_timer_callback` tells its user, and `mod_util_on_tsx_state` looks
whether the sender is still to be told), `CallBack` (it clears `mod_data` and calls) and `ScheduleDestroy`. Under the lock the
same test and call are one step (`Notify`). `answer` is what the sender of the request was told, `"twice"` if it was told again.
Left out: retransmission stopped or sent by the application (100rel), `PENDING_DESTROY`, which
no path reaches, and messages' contents.

### OfferAnswer

Two parties run the same code. A handler runs under the dialog lock and is one step; the refresh of the session
timer gives the lock up between offer and send (`sip_timer.c:445`) and is two, which matters when the
call has two workers. An SDP is a body, a number never used before, and the version of its origin. Messages
overtake each other, are neither lost nor duplicated (that is the transaction layer), except that a transport
can fail under a request and the ACKs of a 2xx can all be lost. `may` is the kind of call, chosen
at the start: which operations are used, how offers are taken, what fails. Codec matching is whether there is an
answer. Left out: the first offer and answer, early media, 100rel, the end of the call, a refresh by UPDATE.

### TimerHeap

The heap and the ids are functions from 0 as the arrays are. `Schedule` is split from the test
`_timer_id < 1`, which is made before the lock; a poller has the time it read once, the count of entries
it took and the entry whose callback it runs. A callback is not modelled further: whatever it schedules or
cancels, a caller may do at that moment. A reheap, up or down, is the course of slots it takes (`Course`, a recursive
function): every entry on it moves one place and the new entry goes where it ends.

## 3. Runs that pass

| run | instance | shows |
| --- | --- | --- |
| `regc_reliable` | 1 application thread, 1 worker, 3 requests, no failures; fairness | reference counting, one request at a time, lock order, refresh, late timers and late reads; a structure let go of is released; operations return |
| `regc_failing` | the same threads, every failure | `Regc` implements `Refcount`; `regc_cb` works on the account's own structure |
| `dispatch_oneCall` | 1 application thread, 1 worker, 1 slot, 2 calls one after the other, 7 jobs; fairness | with one call in existence: CALL events true, ordered, complete; nobody blocks |
| `dispatch_registration` | 1 application thread, 2 workers, 6 jobs; fairness | registrations and messages take locks and queue in one order: every job ends |
| `expires_steady` | registrar that says what it grants, with or without Min-Expires; timeout changed at will; 64-bit long; fairness | refresh in time, retry accepted, every attempt ends |
| `expires_changes` | every quirk, every setting changed at will, grants shorter than the margin; 32-bit long | a refresh is always to come |
| `tsx` | every kind of transaction, reliable or not, 2 workers; fairness | a timer for every wait; silence after the answer; every request answered, every completed transaction over |
| `tsx_oneWorker` | the same, 1 worker | `SipTsx` implements `OneAnswer`: at most one final answer, none that was not asked for |
| `acc` | 1 slot, 2 workers, 3 sessions, 3 calls of the application; fairness | no session outlives its account and each slot knows of its retry timer, answers reach their own account, retries stay alive and succeed |
| `timers_grows` | 3 entries, 2 times, a heap made for 1, 1 caller, 2 pollers of at most 2 entries a turn | arrays consistent through two growths, references balanced, `Timers` implemented |
| `offer_calls` | 2 parties, 5 requests, 6 kinds of call | agreement of both ends; no negotiator waits in vain |

The bounds:

- *Threads.* One application thread and one worker already give every pair of calls that race
  in `sip_reg.c`, and a worker that fails inside a send gives the third level of nesting. The
  theorems of section 6 remove this bound, some of them for one worker only.
- `MaxSend = 3` lets a registration be made, refreshed and either removed or repeated
  after a 401 or 423, each while another thread is in a callback. The third request is the one made
  while the second is being answered.
- *Calls.* Two calls in one slot are the least that show an event of one call read from its
  successor. What they show of blocking is about one call in existence: with
  a second slot two calls block each other, within four jobs (section 4).
- *Accounts.* One slot and three calls (add, delete, add) make a second account in the slot of the first; with two
  workers the answer of the first can wait while the second is under way. Of the three sessions at most one
  is live (`NoOrphan`): a new session gets the address of the old one or another.
- *Transactions.* Two workers make every pair of callbacks of the two timers. `OneAnswer` is checked with one, since two break
  it (section 4). One is pjsua's default (`thread_cnt`, `pjsua_core.c`), which the module does not change. No counter is bounded.
- *Timers.* A heap made for one entry grows at the second and again; three entries are the least
  with two children under one parent. Removal of an inner entry that has to move *up* needs six: `DrainSpec` with six
  entries, every heap of them, and every order of cancels keeps `HeapSound` (about 20 seconds; not a run,
  since its question is the same). There is one caller because of the test before the lock (section 4).
- *Offers.* Five requests let each end send one that fails or crosses, one that repeats it and one more. The
  kinds of call leave out the combinations in which the code does something else, each named in section 4.
  They are chosen so that each operation meets each reply, each fault and a crossing of its own kind, and re-INVITE meets
  refresh and UPDATE.
- *Seconds.* `MinDelay = 2`, grants up to 6 or 7 and `Word = 32` keep the order of all the
  quantities that the code compares: least delay, margin, minimum, timeout, guess, wrap.
- `CHECK_DEADLOCK FALSE` where the system really stops: a released registration, jobs that are done, an
  application that calls no more, a destroyed transaction, a call whose requests are used up. Circular waits are checked by
  `NoCircularWait`, and threads that never return by `OperationsReturn` and `JobsEnd`.

## 4. Disagreements

The run checks one property that a comment promises, and TLC finds the behaviour in which the
code does something else. The quoted line is in `PROJECT.json`.

| run | at | what happens |
| --- | --- | --- |
| `dispatch_freeze` | `PjSIPDispatch.m:238` | a registration callback waits for the queue with `PJSUA_LOCK` held; the block on the queue waits for `PJSUA_LOCK` |

Further disagreements are reachable in the same models and kept out of the runs. Each is one variation of a run
named here.

`Regc`, from `regc_reliable`:

- `NoCircularWait` with `Failures = {"callback"}`: the retry after a 401 sends with the outer
  `regc->lock` held; if it fails at once, `regc_cb` waits for `PJSUA_LOCK` in the reverse order (`sip_reg.c:1193`;
  1424-1428 says that the lock is released against just this).
- `NoTimerAfterRelease` with `Failures = {"callback"}`: a timer that left the heap runs on a released structure
  (`sip_reg.c:793`).
- `NoReadAfterRelease` with `Failures = {"callback"}`: `_delete_flag` is read after the decrement that
  made another thread the last user (`sip_reg.c:808`, `1354`, `1462`).
- `OpMatchesRequest`: `current_op` is reset although another thread has a request outstanding
  (`sip_reg.c:1336`).
- `ReleasedEventually` with `Failures = {"silent"}`: an error without callback leaves `has_tsx` set for ever
  (`sip_reg.c:1435`).
- `NoNullCall`: the callback pointer is tested and then called without the lock, and an account deletion clears it in
  between (`sip_reg.c:773`), although after a destruction "the callback won't be called" (`sip_regc.h:148`).

`TisipDispatch`, from `dispatch_oneCall`:

- `JobsEnd` with a second slot (`Slots = {c1, c2}`, `MaxJobs = 4`, `Jobs = {"placeCall", "incoming", "event"}`): two calls are enough
  for the block, without any account operation. A call that is being placed, or comes in, waits for the queue with `PJSUA_LOCK` held
  (`pjsua_call.c:666`, `1134`); the block of the other call's event is on the queue and waits for `PJSUA_LOCK` in
  `pjsua_call_get_info` (`1787`). pjsua's default allows four calls.

`RegcExpires`, from `expires_steady`:

- `RefreshNotLost` with `WideLong = TRUE`, `Timeouts = {3, 6}`, `Delays = {2}`, `Minimums = {1}`, `MaxGrant = 6`,
  no `Quirks` and no `Modify`: a grant shorter than the margin wraps, and the refresh is 136 years away
  (`sip_reg.c:821`).
- `RefreshInTime` with `Minimums = {1}`: the least delay exceeds a short grant (`sip_reg.c:827`).
- `RefreshInTime` with `"delay"` in `Modify`: a new margin restarts the whole expiry
  (`sip_reg.c:887`).
- `RefreshInTime` with `"silent"` in `Quirks` and `"timeout"` in `Modify`: the answer is read with the
  header of the next request (`sip_reg.c:1013`).
- `waiting => asked # NoHeader`: an expiry equal to the last grant is not sent
  (`sip_reg.c:249`).

`PjsuaAcc`, from `acc`:

- `StatusIsOwn`: a slot that is used again shows the last status of the account it held before
  (`pjsua_acc_add` does not reset `reg_last_code`).
- `RetryOfAccount`: `pjsua_acc_del` cancels the retry timer ("Cancel any re-registration timer", `pjsua_acc.c:635`) and then unregisters.
  The unregistration can fail inside the call; `regc_cb`, nested, arms the timer again (`3651`), and the account becomes
  invalid (`666`) with the timer in the heap. Its callback looks whether the account is valid, so that it does harm only if the slot
  is used again.

`SipTsx`, from `tsx`:

- `ImplementsOneAnswer`, which holds with one worker (`tsx_oneWorker`): a worker reports a transport error without the lock
  (`sip_transaction.c:1140`). After its test of `mod_data` and before its call a late retransmission, popped by the other
  worker, destroys the transaction and tells the sender, who is then told again. `sip_util_statefull.c:75` means to
  "prevent the callback to be called again".
- `ToldInOrder`, which holds with one worker: the same steps, with the destruction before the report. A retransmit
  timer popped before its cancel destroys a terminated transaction (`sip_transaction.c:3336`), and the user hears of the
  destruction before another worker reports the termination (`1140`).
- `TerminatedIsDestroyed`: a connection lost while the zero timer of the destruction is pending replaces it by
  the error timer, whose callback does nothing for a terminated transaction (`sip_transaction.c:1104`): it is never
  destroyed.

`TimerHeap`, from `timers_grows`:

- `HeapSound` with two `Callers`: whether the entry is scheduled is asked before the lock is taken (`timer.c:504`), and
  the same entry gets into the heap twice.

`OfferAnswer`, from `offer_calls`, with `Calls` a single kind:

- `Agreement` with re-INVITE, UPDATE and answers: the ACK of a re-INVITE that crosses an UPDATE of the answerer cancels
  the UPDATE's offer (`sip_inv.c:537`, `4985`; only responses to UPDATE are guarded, at `3589`, against "cancelling
  different offer"); its answer is then ignored at one end and used at the other. The same kind also re-sends an
  offer that is outstanding ("already have an offer, new offer is ignored", about `2890`) and takes the second
  answer for a new offer; and an ACK sets the received CSeq back (`sip_dialog.c:1631`).
- `VersionsTell` with re-INVITE, refresh and refusals: a cancelled offer raises the active version
  (`sdp_neg.c:1417`), so that the refresh repeats the refused version with another body.
- `OfferIsPending` with `Calls = {{"reinvite", "answer", "transport"}}`: a re-INVITE whose connection is lost is taken out of the
  path that cancels its offer (`sip_inv.c:3947`, before `5075`). The peer's offers are answered 491 from then on, and a
  further re-INVITE of ours sends the old offer again; `sdp_neg.h:192` says that "it is necessary to reset the negotiator state".
- `OfferIsPending` with `"noCredentials"` and re-INVITE: a 401 that cannot be answered leaves the offer
  (`sip_inv.c:3912`).
- `OfferIsPending` with `"delayed"` and `"ackLost"`: the offer of the 2xx waits for ever.
- `OfferIsPending` with `"delayed"` and `"none"`: the offer in the 2xx stays unanswered.
- `OfferIsPending` with `"refresh"`, `"reinvite"` and `"twoWorkers"`: the refresh gives the dialog up between offer and
  send (`sip_timer.c:445`), a re-INVITE arrives, and the send is refused.
- `OfferIsPending` with `"delayed"` and `"update"`: the offer of the 2xx and an UPDATE cross.
- `OfferIsPending` with `"reinvite"`, `"update"`, `"answer"` and `"none"` (or `"refresh"` for `"reinvite"`): an INVITE that is
  accepted without an answer leaves the offer, which another method then finds.

`dispatch_freeze` and the variation with two slots are the reason why the passing dispatch runs have one call in existence, or account operations
and messages alone: a call blocks with an account operation, and it blocks with another call. What blocks in both is the same
pair, `PJSUA_LOCK` and then the queue against the queue and then `PJSUA_LOCK`.

## 5. Fairness

- `Regc`: weak fairness of `Continue(t)` for each thread (a thread that can run does), and of
  the answer to an outstanding request: `AskedIsAnswered` of `SipTsx`. New operations are never forced.
- `TisipDispatch`: weak fairness of `Continue(t)`. Nothing says that a job ever starts.
- `RegcExpires`: weak fairness of the registrar's answer and of a timer that is due.
- `SipTsx`: weak fairness of a callback that started, and strong fairness of the timeout timer's pop: an entry may be
  cancelled and scheduled again for ever, but one that is due again and again is at some time the earliest and polled.
  No message need ever arrive.
- `PjsuaAcc`: a worker that waits for the lock gets it (weak); the retry timer is polled and every
  request ends (strong, since either may be cancelled and made again); and, for `RetriesSucceed` alone, a
  registrar that comes back: of the retries made again and again one is sent, and one is accepted. The last
  condition also excludes that every acceptance is overtaken by a refresh or followed by a contact that is rewritten and cannot be
  sent, which a delay of minutes between retries makes a matter of the address and not of timing.

The other specifications have safety properties only and state no fairness.

## 6. Proofs

`Regc_proofs`, for any `Apps`, `Workers`, `MaxSend` and `Failures` that meet
`ThreadsAssumption`, `BoundAssumption` and `FailuresAssumption`:

- `TypeCorrect`: `Spec => []TypeOK`.
- `ReleaseIsSafe`: `Spec => []ReleasedUnused`.
- `CallbackIsOwned`: `Spec => []CallbackOwnsAccount`.
- `RefcountImplemented`: `Spec => ImplementsRefcount`. Every step of the registration is a step of `Refcount` or is
  not seen there (`RefcountStep`).

`ReleasedUnused` is not inductive: it says nothing of the threads that could still release or enter.
`IInv` (theorem `Invariance`) is `TypeOK` with these parts:

- `Shape`, `NestedFails`: which call can be inside which, so that a step of one frame is known
  to leave the others where they are;
- `BusyCounts`: the frames in `busy_ctr` are those between increment and decrement;
- `PjsuaHolders`, `PjsuaMutex`: who holds `PJSUA_LOCK`, and that it is one thread;
- `OneOwner`: the outstanding request has one owner, for whom `has_tsx` is set: a release needs
  `has_tsx` clear, so no answer can be on its way;
- `HandleLive`, `OperationHasHandle`: the account points to a live structure whenever an operation
  or `regc_cb` uses it;
- `FreedUnused`: what is left after the release.

The proof goes action by action, one step per conjunct that the action can disturb. The refinement
follows the same list: `SendEnter`, `SendClaim`, `TimerEnter` and `TsxEnter` join, and it is `BusyCounts`
and `OneOwner` that show the structure is still there; `LastOut` releases, and only with the owner gone and nobody
counted. Steps that touch neither count, request, owner nor memory are not seen (`SilentStep`).

`RegcExpires_proofs`, for any timeouts, delays, minimums and widths that meet `ValuesAssumption`
and `WordAssumption` (every quantity is below 2^31):

- `TypeCorrect`: `Spec => []TypeOK`, strengthened by "only a live structure has a request
  outstanding".
- `RefreshIsInTime`: `Roomy => (Spec => []RefreshInTime)`. `Roomy` says that the registrar insists on
  more than the least delay and every margin, that it says what it grants, and that the application
  leaves the margin alone. Each of the three is needed: the variations in section 4 drop
  one each. The invariant adds where margin and last expiry come from.
- `RetryIsAccepted`: `Spec => RetryAccepted`, the action property, with no further assumption.
- `RefreshIsKept`: `~WideLong => (Spec => []RefreshNotLost)`. The assumption is needed:
  the first variation of `RegcExpires` in section 4 drops it. The invariant adds that header and expiry are below 2^31.

`RegcReliable_proofs` proves what `Regc_reliable` checks and `Regc_failing` violates, each under the
failures that have to be absent, and no more:

- `OneRequestAtATime`: no failure is `"silent"` `=> (Spec => []OneRequest)`. The invariant is `RequestOwned`: while
  `has_tsx` is set, some request is outstanding or some frame is carrying one.
- `LocksAreOrdered`: no failure runs a nested `"callback"` `=> (Spec => []NoCircularWait)`. Then only the handling of an
  answer keeps `regc->lock` while others run (`LockHeld`), and it does not want `PJSUA_LOCK` meanwhile.
- `TimerDiesFirst` and `LastOutReadsIt`: `Reliable => (Spec => []NoTimerAfterRelease)` and `[]NoReadAfterRelease`.
  `Reliable` is one worker, the `thread_cnt` of pjsua's default configuration, which the module does not change,
  and no `"callback"` and no `"create"` failure; silent failures may happen. `Tame` has seven
  parts; the one that carries the argument is `FreedQuiet`: only the
  worker releases the structure, on leaving it last, and no call is under way then.
- `RefreshComes`: `Reliable` and no `"silent"` failure `=> (Spec => []RefreshKept)`. A quiet registration is one where
  nobody is `Trying` any more; `Kept` says that the timer is armed, a request is out or somebody is trying.

`SipTsx_proofs`, for any number of workers, role and kind of request:

- `TypeCorrect`, `NeverForgotten`, `LastMessageIsThere`, `StaysQuiet`: the type invariant, `NotForgotten`,
  `LastMessageKept` and `QuietAfterAnswer`.
- `HearsOneAnswer`: `OneWorker => (Spec => ImplementsOneAnswer)`, the refinement of what a sender of a request is promised: at most one
  final answer, for any role and kind. `OneWorker` is needed (section 4). That an answer comes is left to TLC (`AskedIsAnswered`).

Each helper (`Notify`, `Schedule`, `Restart`, `SetState`, `SendMsg`, ...) has a lemma that says which
parts of the transaction it leaves alone (`SameUser`, `SameLink`, `SameResend`, `SameTimeout`), and the actions follow
from these. `NotForgotten` is not inductive: a worker between its unlock and its
call must not find the transaction open again. `IInv` adds what holds between handlers (`Safe`), that a worker at one of the
`Reporting` points means a transaction that is over, and that one about to call back has a final code to tell (`Answered`), which no
handler changes any more (`StaysFinal`). With one worker `Unheard` is invariant besides: while it is about to call
back, nothing was told, because nobody else reports meanwhile (`HandlersWait`).

`PjsuaAcc_proofs`, for any finite `Slots`, any workers and `MaxCalls`, with at least as many sessions as slots and workers
together (`SessionsAssumption`: memory does not run out):

- `TypeCorrect`, `NoneIsOrphaned`, `RetryGoesOn`: `TypeOK`, `NoOrphan`, `RetryAlive`. `NoOrphan` says of sessions that their account
  exists and points to them, and of retry timers only that their slot knows of them; that their account exists is not true
  (section 4, `RetryOfAccount`).
- `AnswersAreOwn`: `Spec => ToldOfOwn`, the action property: no account is told of a registration of the
  one that had its slot before.

The comparison in `regc_cb` is of addresses, so `ToldOfOwn` needs that a session that exists has an owner:
`Sound` says that sessions and accounts point at each other, and `Addressed` that an answer waiting for the lock names
the slot and account of its session while the session exists. Every locked
function called for slot `i` is shown to leave the other slots, and sessions
that a worker still holds, as they were (`Serves`, `OnlyFor`); that relation is transitive, so a handler that calls several of
them inherits it. That a session can always be made is a pigeonhole argument (`SomeFree`). TLC checked this
invariant on two slots, two workers and four sessions before it was proved.

`TisipDispatch_proofs`, for any threads, slots, calls, number of jobs and kinds of jobs, that meet `ThreadsAssumption`,
`JobsAssumption` and `NamesAssumption`:

- `TypeCorrect`: `TypeOK`, in particular that locks are given back as often as they are taken.
- `EventsTellTheirCause`, `EventsComeInOrder`: `EventTellsCause` and `EventsInOrder`.

What a thread does is a sequence of steps it carries with it, so the invariant has to speak of sequences. It does so as
a proof outline: `Outline(s, a, b)` says that assertions can be written between the steps of `s`, from `a` to `b`, such that each step
keeps to its `Rule`. An assertion is how often each lock is held and what is known of a call (`Facts`): its slot,
its state, and whether that state's event is still to be fired. `Outline` composes (`OutlineConcat`), so each function of the
model has a lemma of its own, which follows from those of the functions it calls, as the code does. The
invariant `IInv` says that every thread is on an outline that ends with nothing held (`OnTrack`), that its facts hold now, that
a lock has one holder (`Mutex`), and that the last event of a call is not ahead of its state (`ToldBehind`). Facts survive the
steps of others because the lock of the dialog guards `inv->state` and the slot of its call; for
a call that was allocated and has no state yet, and so no dialog anybody could lock, `PJSUA_LOCK` does. An event that waits for
the dialog knows less: the call is in its slot, or it is over.

`OfferAnswer_proofs`, for any two parties, any `MaxSent` and any `Calls`:

- `TypeCorrect`: `Spec => []TypeOK`, for every kind of call.
- `OffersArePending`: `Orderly => (Spec => []OfferIsPending)`. `Orderly` forbids four combinations of what a kind of call has in it;
  the last entries of section 4 violate the property, one for each clause that is dropped.
- `EndsAgree`: `Orderly` and `Separate` `=> (Spec => []Agreement)`. `Separate` says that a call whose offers are answered does not
  use UPDATE together with INVITE; the first entry for `OfferAnswer` in section 4 is what happens if it does.

The kinds of call of `offer_calls` are orderly and separate, so the theorems cover the run and remove its bound. `Basic` is what holds of every call:
`Types`; `Wired`, a transaction has one message on its way, whose sender still has it; and `Linked`, a party works
on its own INVITE until that is answered, or on one of its peer that was answered as the messages say. `Pend` adds,
for each negotiator with an offer, the request or the 2xx that carries it (`Attended`), and what a request on its way says of
the negotiator of its sender (`Fits`). `Agreement` speaks of quiet calls alone and is not inductive: `Together` says what each
end uses while an answer is on its way (`Halfway`), that there is at most one such answer, and that the negotiator keeps the offer
its party has out (`Outstanding`). Most handlers neither open nor close an exchange, and one lemma (`QuietStep`) serves them all.

`TimerHeap_proofs`, for any `Size`, `MaxPerPoll`, entries, times, callers and finite set of pollers:

- `ArraysSound`: `Spec /\ []Serialised => []HeapSound`.
- `ReferencesBalance`: `Spec /\ []Serialised => []RefsBalance`.
- `HeapIsTimers`: `Spec /\ []Serialised => ImplementsTimers`, the refinement of the set of timers.
- `OneCallerIsEnough`: with one caller `Serialised` always holds, so `Spec => []HeapSound /\ []RefsBalance`.

`Serialised` says that no two threads have found the same entry not scheduled. The heap does not see to it (section 4,
with two callers); it is left to the owner of an entry. What a poller's callbacks schedule is a caller's step as well, so one
caller is not one thread but one scheduling at a time.

`HeapSound` says by a walk over the arrays what is in them; the proof needs the same of the heap in the middle of an operation,
and the length of the free list. `Sound(h, n, M)` speaks of a heap of `n` entries and room for `M`: ids of different entries
differ and the free list is a chain of the `M - 1 - n` others (`Fits`), every entry and its slot point at each other (`AllPoint`), and no parent
is later than its children (`InOrder`). `Remove` and `Insert` break the order at one slot and a reheap moves the break along its
course. The lemmas `UpOrders` and `DownOrders` state what the entries are afterwards in terms of the course alone, and
`CourseIsWay` that such a course is a chain that never branches and ends. The provers have no induction over slots; here each is a proof
that the set of slots a claim fails for has no least element (`LeastElement`, from the library's theorem that the subsets
of a finite set are well-founded). `RootIsFirst`, that the root is due no later than any entry, is one of them, and what
`HeapIsTimers` needs of a poll.

Only model-checked: every liveness property (`ReleasedEventually`, `OperationsReturn`, `AttemptEnds`, `RetriesSucceed`, `AskedIsAnswered`, `CompletedEnds`,
`DisconnectReported`, `JobsEnd`): liveness under fairness and `ENABLED` are outside the prover. Every safety property and every
refinement that a passing run checks is a theorem, under hypotheses that its run meets.

## 7. Plan

Done: `Regc`, `Refcount` and `RegcExpires` with their proofs, `TisipDispatch`, `PjsuaAcc`, `SipTsx` with `OneAnswer`,
`OfferAnswer`, `TimerHeap` with `Timers`, each with its proofs.

Modules that could follow: several calls at once with the conference ports (mute and unmute), and start and stop of
the module while callbacks are on the queue.

## 8. Not modelled

- *Transports, endpoint, resolver.* Input and output; what they can do to their users is an action of `SipTsx`,
  `PjsuaAcc` and `OfferAnswer`.
- *Group locks.* Taken as recursive mutual exclusion with a reference count. `TimerHeap` checks the references it
  takes.
- *Presence, message waiting.* Switched off by the module. *Instant messages* keep no state.
- *Media, codecs, conference bridge, STUN, ICE, TURN.* Signal processing and protocol engines below what the module
  drives.
- *The rest of the tree.* About 408,000 lines of C are vendored, of which most are codecs and their tables (one of 4,200
  lines), Python bindings and applications, generated wrappers, headers that declare and do not act, and
  ports to other systems. None of that has states that a model could check, and a definition that claimed such lines would
  translate nothing. The models cover the control of the files that the module's threads run through; that is a few
  thousand lines, and the share of the whole stays small however complete they become.

## 9. Checking it

    tlc -config Regc_reliable.cfg Regc
    tlapm Regc_proofs.tla

and so on for each `.cfg` and each `*_proofs.tla`.

The runs take from a second to about two minutes each; the larger ones are `timers_grows`, `offer_calls` and `acc`.
