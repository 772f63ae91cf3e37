--------------------------- MODULE PjsuaAcc_proofs ---------------------------
(***************************************************************************)
(* Theorems about PjsuaAcc for any number of slots, workers and calls.     *)
(***************************************************************************)
EXTENDS PjsuaAcc, FiniteSetTheorems, TLAPS

(* What PJSUA_LOCK protects, as the record the locked functions work on. *)
State == [acc : [Slots -> Account],
          heap : SUBSET Slots,
          regc : [Sessions -> Session]]

(* Sessions and accounts point to each other: a session that is not free    *)
(* belongs to the valid account that points to it, and an account points to *)
(* a session that was made for its slot. The timer of a slot in the heap is *)
(* known to the account.                                                    *)
Owned(u) ==
  /\ \A r \in Sessions :
       u.regc[r].state # "free" =>
         /\ u.acc[u.regc[r].slot].regc = r
         /\ u.acc[u.regc[r].slot].valid
         /\ u.acc[u.regc[r].slot].gen = u.regc[r].gen
  /\ \A i \in Slots :
       u.acc[i].regc # NoSession =>
         /\ u.regc[u.acc[i].regc].state # "free"
         /\ u.regc[u.acc[i].regc].slot = i
  /\ \A i \in u.heap : u.acc[i].timer

(* A well-typed state in which sessions and accounts agree. *)
Sound(u) == u \in State /\ Owned(u)

(* A worker waits for the lock with a pointer to session r in its hands (a  *)
(* structure that is not reused meanwhile).                                 *)
Held(r) == \E w \in Workers :
             pc[w].do \in {"answer", "refresh"} /\ pc[w].regc = r

(* An answer that waits for the lock names the slot and the account its     *)
(* session was made for, as long as the session exists: this is why regc_cb *)
(* may compare the addresses only.                                          *)
Addressed ==
  \A w \in Workers :
    pc[w].do = "answer" =>
      LET r == pc[w].regc IN
      regc[r].state # "free" => /\ regc[r].slot = pc[w].slot
                                /\ regc[r].gen = pc[w].gen

(* pjsua_acc_add registers one slot at a time. *)
AddsOne == \A i, k \in adding : i = k

(* The inductive invariant. *)
IInv == TypeOK /\ Sound(Now) /\ Addressed /\ AddsOne /\ RetryAlive

(* What a locked function called for slot i may do: it leaves every other   *)
(* account, timer and session alone, stores as answered only the account    *)
(* that holds the slot, and gives no session that a worker still holds to   *)
(* another account.                                                         *)
OnlyFor(u, v, i) ==
  /\ \A k \in Slots : k # i => /\ v.acc[k] = u.acc[k]
                               /\ k \in v.heap <=> k \in u.heap
  /\ \A r \in Sessions :
       u.regc[r].state # "free" /\ u.regc[r].slot # i => v.regc[r] = u.regc[r]
  /\ v.acc[i].codeOf # u.acc[i].codeOf =>
       u.acc[i].valid /\ v.acc[i].codeOf = u.acc[i].gen
  /\ \A r \in Sessions :
       Held(r) /\ v.regc[r].state # "free" =>
         /\ u.regc[r].state # "free"
         /\ v.regc[r].slot = u.regc[r].slot
         /\ v.regc[r].gen = u.regc[r].gen

(* A locked function called for slot i that also leaves the slot to the     *)
(* account it had.                                                          *)
Serves(u, v, i) ==
  /\ Sound(v)
  /\ OnlyFor(u, v, i)
  /\ v.acc[i].valid = u.acc[i].valid
  /\ v.acc[i].gen = u.acc[i].gen

(* Locked functions for one slot may follow each other in one step. *)
LEMMA ServesTransitive ==
  ASSUME NEW i \in Slots, NEW t, NEW u, NEW v, Serves(t, u, i), Serves(u, v, i)
  PROVE  Serves(t, v, i)
BY DEF Serves, Sound, OnlyFor

(* Doing nothing serves every slot. *)
LEMMA ServesReflexive ==
  ASSUME NEW i \in Slots, NEW u, Sound(u)
  PROVE  Serves(u, u, i)
BY DEF Serves, OnlyFor

(* Writing one account, and the heap, keeps the types. *)
LEMMA AccUpdate ==
  ASSUME NEW i \in Slots, NEW u \in State, NEW b \in Account,
         NEW h \in SUBSET Slots
  PROVE  [u EXCEPT !.acc[i] = b, !.heap = h] \in State
<1> DEFINE a == [u.acc EXCEPT ![i] = b]
<1>1. a \in [Slots -> Account]
  BY DEF State
<1>2. [u EXCEPT !.acc = a, !.heap = h] \in State
  <2> HIDE DEF a
  <2> QED BY <1>1 DEF State
<1> QED
  BY <1>2

(* Writing one session keeps the types. *)
LEMMA RegcUpdate ==
  ASSUME NEW r \in Sessions, NEW u \in State, NEW s \in Session
  PROVE  [u EXCEPT !.regc[r] = s] \in State
<1> DEFINE g == [u.regc EXCEPT ![r] = s]
<1>1. g \in [Sessions -> Session]
  BY DEF State
<1>2. [u EXCEPT !.regc = g] \in State
  <2> HIDE DEF g
  <2> QED BY <1>1 DEF State
<1> QED
  BY <1>2

(* Cancelling the retry takes the slot out of the heap; the account goes on *)
(* as it was.                                                               *)
LEMMA CancelFacts ==
  ASSUME NEW i \in Slots, NEW u, Sound(u)
  PROVE  /\ Serves(u, CancelRetry(u, i), i)
         /\ CancelRetry(u, i).acc[i].active = u.acc[i].active
         /\ CancelRetry(u, i).acc[i].regc = u.acc[i].regc
         /\ CancelRetry(u, i).regc = u.regc
         /\ i \notin CancelRetry(u, i).heap
<1> DEFINE v == CancelRetry(u, i)
<1>1. CASE ~u.acc[i].timer
  <2>1. v = u
    BY <1>1 DEF CancelRetry
  <2>2. i \notin u.heap
    BY <1>1 DEF Sound, Owned
  <2> QED
    BY <2>1, <2>2, ServesReflexive
<1>2. CASE u.acc[i].timer
  <2>1. v = [u EXCEPT !.acc[i].timer = FALSE, !.heap = @ \ {i}]
    BY <1>2 DEF CancelRetry
  <2>2. v \in State
    <3> DEFINE b == [u.acc[i] EXCEPT !.timer = FALSE]
    <3>1. b \in Account
      BY DEF Sound, State, Account
    <3>2. v = [u EXCEPT !.acc[i] = b, !.heap = u.heap \ {i}]
      BY <2>1
    <3> HIDE DEF b, v
    <3>3. u.heap \ {i} \in SUBSET Slots
      BY DEF Sound, State
    <3> QED
      BY <3>1, <3>2, <3>3, AccUpdate DEF Sound
  <2>3. /\ v.regc = u.regc
        /\ v.heap = u.heap \ {i}
        /\ \A k \in Slots : k # i => v.acc[k] = u.acc[k]
    BY <2>1 DEF Sound, State, Account
  <2>4. /\ v.acc[i].valid = u.acc[i].valid
        /\ v.acc[i].gen = u.acc[i].gen
        /\ v.acc[i].codeOf = u.acc[i].codeOf
        /\ v.acc[i].active = u.acc[i].active
        /\ v.acc[i].regc = u.acc[i].regc
    BY <2>1 DEF Sound, State, Account
  <2> HIDE DEF v
  <2>5. Owned(v)
    BY <2>2, <2>3, <2>4 DEF Owned, Sound, State, Session
  <2>6. OnlyFor(u, v, i)
    BY <2>3, <2>4 DEF OnlyFor
  <2> QED
    BY <2>2, <2>3, <2>4, <2>5, <2>6 DEF Serves, Sound, v
<1> QED
  BY <1>1, <1>2

(* schedule_reregistration leaves the timer of a valid account in the heap. *)
LEMMA ScheduleFacts ==
  ASSUME NEW i \in Slots, NEW u, Sound(u)
  PROVE  /\ Serves(u, ScheduleRetry(u, i), i)
         /\ u.acc[i].valid => i \in ScheduleRetry(u, i).heap
         /\ ScheduleRetry(u, i).acc[i].regc = u.acc[i].regc
         /\ ScheduleRetry(u, i).regc = u.regc
<1> DEFINE v == CancelRetry(u, i)
           s == ScheduleRetry(u, i)
<1>1. CASE ~u.acc[i].valid
  <2>1. s = u
    BY <1>1 DEF ScheduleRetry
  <2> HIDE DEF s
  <2>2. Serves(u, u, i)
    BY ServesReflexive
  <2> QED
    BY <1>1, <2>1, <2>2 DEF s
<1>2. CASE u.acc[i].valid
  <2>1. /\ Serves(u, v, i) /\ v.acc[i].regc = u.acc[i].regc
        /\ v.regc = u.regc /\ i \notin v.heap
    BY CancelFacts
  <2>2. s = [v EXCEPT !.acc[i].active = TRUE, !.acc[i].timer = TRUE,
                      !.acc[i].settled = FALSE, !.heap = @ \cup {i}]
    <3>1. (i \notin v.heap) = TRUE
      BY <2>1
    <3> QED
      BY <1>2, <3>1, Zenon DEF ScheduleRetry
  <2> HIDE DEF v, s
  <2>3. v \in State /\ Owned(v)
    BY <2>1 DEF Serves, Sound
  <2>4. s \in State
    <3> DEFINE b == [v.acc[i] EXCEPT !.active = TRUE, !.timer = TRUE,
                                     !.settled = FALSE]
    <3>1. b \in Account
      BY <2>3 DEF State, Account
    <3>2. s = [v EXCEPT !.acc[i] = b, !.heap = v.heap \cup {i}]
      BY <2>2, <2>3 DEF State
    <3> HIDE DEF b
    <3>3. v.heap \cup {i} \in SUBSET Slots
      BY <2>3 DEF State
    <3> QED
      BY <2>3, <3>1, <3>2, <3>3, AccUpdate
  <2>5. /\ s.regc = v.regc
        /\ s.heap = v.heap \cup {i}
        /\ \A k \in Slots : k # i => s.acc[k] = v.acc[k]
    BY <2>2, <2>3 DEF State, Account
  <2>6. /\ s.acc[i].valid = v.acc[i].valid
        /\ s.acc[i].gen = v.acc[i].gen
        /\ s.acc[i].codeOf = v.acc[i].codeOf
        /\ s.acc[i].regc = v.acc[i].regc
        /\ s.acc[i].timer
    BY <2>1, <2>2, <2>3 DEF State, Account
  <2>7. Owned(s)
    BY <2>3, <2>4, <2>5, <2>6 DEF Owned, State, Session
  <2>8. Serves(v, s, i)
    BY <2>4, <2>5, <2>6, <2>7 DEF OnlyFor, Serves, Sound
  <2>9. Serves(u, s, i)
    BY <2>1, <2>8, ServesTransitive
  <2> QED
    BY <2>1, <2>5, <2>6, <2>9 DEF s
<1> QED
  BY <1>1, <1>2

(* A free session is well typed. *)
LEMMA UnusedType == Unused \in Session
<1>1. (CHOOSE i \in Slots : TRUE) \in Slots
  BY SlotsAssumption
<1>2. 0 \in Generation
  BY MaxCallsAssumption DEF Generation
<1> QED
  BY <1>1, <1>2 DEF Unused, Session

(* Destroying the session of an account frees it and nothing else. *)
LEMMA DropFacts ==
  ASSUME NEW i \in Slots, NEW u, Sound(u)
  PROVE  /\ Serves(u, DropSession(u, i), i)
         /\ DropSession(u, i).acc[i].regc = NoSession
         /\ DropSession(u, i).acc[i].active = u.acc[i].active
         /\ DropSession(u, i).heap = u.heap
<1> DEFINE r == u.acc[i].regc
           v == DropSession(u, i)
<1>0. u \in State /\ Owned(u)
  BY DEF Sound
<1>1. CASE r = NoSession
  <2>1. v = u
    BY <1>1 DEF DropSession
  <2> HIDE DEF v
  <2>2. Serves(u, u, i)
    BY ServesReflexive
  <2> QED
    BY <1>1, <2>1, <2>2 DEF v
<1>2. CASE r # NoSession
  <2>1. v = [u EXCEPT !.regc[r] = Unused, !.acc[i].regc = NoSession]
    BY <1>2 DEF DropSession
  <2>2. /\ r \in Sessions /\ u.regc[r].slot = i
    BY <1>0, <1>2 DEF State, Account, Owned
  <2> HIDE DEF v, r
  <2>3. v \in State
    <3> DEFINE b == [u.acc[i] EXCEPT !.regc = NoSession]
               t == [u EXCEPT !.regc[r] = Unused]
    <3>1. b \in Account
      BY <1>0 DEF State, Account
    <3>2. t \in State
      BY <1>0, <2>2, UnusedType, RegcUpdate
    <3>3. v = [t EXCEPT !.acc[i] = b, !.heap = t.heap]
      BY <1>0, <2>1 DEF State
    <3> HIDE DEF b, t
    <3>4. t.heap \in SUBSET Slots
      BY <3>2 DEF State
    <3> QED
      BY <3>1, <3>2, <3>3, <3>4, AccUpdate
  <2>4. /\ v.heap = u.heap
        /\ \A k \in Slots : k # i => v.acc[k] = u.acc[k]
        /\ \A x \in Sessions : x # r => v.regc[x] = u.regc[x]
        /\ v.regc[r] = Unused
    BY <1>0, <2>1, <2>2 DEF State
  <2>5. /\ v.acc[i].valid = u.acc[i].valid
        /\ v.acc[i].gen = u.acc[i].gen
        /\ v.acc[i].codeOf = u.acc[i].codeOf
        /\ v.acc[i].active = u.acc[i].active
        /\ v.acc[i].timer = u.acc[i].timer
        /\ v.acc[i].regc = NoSession
    BY <1>0, <2>1 DEF State, Account
  <2>6. Unused.state = "free"
    BY DEF Unused
  <2>7. /\ \A x \in Sessions : v.regc[x].state # "free" =>
             x # r /\ v.regc[x] = u.regc[x] /\ u.regc[x].slot \in Slots
        /\ \A k \in Slots : k # i /\ u.acc[k].regc # NoSession =>
             u.acc[k].regc \in Sessions /\ u.acc[k].regc # r
        /\ \A x \in Sessions : u.regc[x].state # "free" /\ u.regc[x].slot = i => x = r
    BY <1>0, <2>2, <2>4, <2>6 DEF State, Session, Account, Owned, r
  <2>8. Owned(v)
    <3>1. ASSUME NEW x \in Sessions, v.regc[x].state # "free"
          PROVE  /\ v.acc[v.regc[x].slot].regc = x
                 /\ v.acc[v.regc[x].slot].valid
                 /\ v.acc[v.regc[x].slot].gen = v.regc[x].gen
      <4>1. v.regc[x] = u.regc[x] /\ x # r /\ u.regc[x].slot \in Slots
        BY <2>7, <3>1
      <4>2. u.regc[x].slot # i
        BY <2>7, <3>1, <4>1
      <4> QED
        BY <1>0, <2>4, <3>1, <4>1, <4>2 DEF Owned
    <3>2. ASSUME NEW k \in Slots, v.acc[k].regc # NoSession
          PROVE  /\ v.regc[v.acc[k].regc].state # "free"
                 /\ v.regc[v.acc[k].regc].slot = k
      BY <1>0, <2>4, <2>5, <2>7, <3>2 DEF Owned
    <3>3. ASSUME NEW k \in v.heap
          PROVE  v.acc[k].timer
      BY <1>0, <2>4, <2>5, <3>3 DEF Owned, State
    <3> QED
      BY <3>1, <3>2, <3>3 DEF Owned
  <2>9. OnlyFor(u, v, i)
    BY <2>2, <2>4, <2>5, <2>7 DEF OnlyFor
  <2> QED
    BY <2>3, <2>4, <2>5, <2>8, <2>9 DEF Serves, Sound, v
<1> QED
  BY <1>1, <1>2

(* The account does not retry, or the application knows, or something is    *)
(* left in the session or the heap that will go on.                         *)
Alive(u, i) == u.acc[i].active /\ ~u.acc[i].settled => Working(u, i)

(* Whatever leaves the fields Owned speaks of as they were keeps it. *)
LEMMA OwnedKept ==
  ASSUME NEW i \in Slots, NEW u, Sound(u), NEW v \in State,
         v.heap = u.heap,
         \A k \in Slots : k # i => v.acc[k] = u.acc[k],
         v.acc[i].valid = u.acc[i].valid,
         v.acc[i].gen = u.acc[i].gen,
         v.acc[i].regc = u.acc[i].regc,
         v.acc[i].timer = u.acc[i].timer,
         \A r \in Sessions : /\ v.regc[r].state # "free" <=> u.regc[r].state # "free"
                             /\ v.regc[r].slot = u.regc[r].slot
                             /\ v.regc[r].gen = u.regc[r].gen
  PROVE  Owned(v)
<1>0. u \in State /\ Owned(u)
  BY DEF Sound
<1>1. ASSUME NEW r \in Sessions, v.regc[r].state # "free"
      PROVE  /\ v.acc[v.regc[r].slot].regc = r
             /\ v.acc[v.regc[r].slot].valid
             /\ v.acc[v.regc[r].slot].gen = v.regc[r].gen
  <2>1. u.regc[r].slot \in Slots
    BY <1>0 DEF State, Session
  <2> QED
    BY <1>0, <1>1, <2>1 DEF Owned
<1>2. ASSUME NEW k \in Slots, v.acc[k].regc # NoSession
      PROVE  /\ v.regc[v.acc[k].regc].state # "free"
             /\ v.regc[v.acc[k].regc].slot = k
  <2>1. v.acc[k].regc = u.acc[k].regc
    OBVIOUS
  <2>2. u.acc[k].regc \in Sessions
    BY <1>0, <1>2, <2>1 DEF State, Account
  <2> QED
    BY <1>0, <1>2, <2>1, <2>2 DEF Owned
<1>3. ASSUME NEW k \in v.heap
      PROVE  v.acc[k].timer
  BY <1>0, <1>3 DEF Owned, State
<1> QED
  BY <1>1, <1>2, <1>3 DEF Owned

(* regc_cb for the account's own answer: it leaves an account that retries  *)
(* with its timer in the heap, or tells of a failure that is not retried.   *)
LEMMA AnsweredFacts ==
  ASSUME NEW i \in Slots, NEW u, Sound(u), NEW code \in Answers,
         u.acc[i].valid
  PROVE  LET v == Answered(u, i, u.acc[i].gen, code) IN
         Serves(u, v, i) /\ Alive(v, i)
<1> DEFINE v == IF code = "ok" THEN u ELSE DropSession(u, i)
           g == u.acc[i].gen
           s == [v EXCEPT !.acc[i] = Noted(@, g, code)]
           a == Answered(u, i, g, code)
<1>1. Serves(u, v, i)
  <2>1. CASE code = "ok"
    BY <2>1, ServesReflexive
  <2>2. CASE code # "ok"
    <3>1. v = DropSession(u, i)
      BY <2>2
    <3> QED
      BY <3>1, DropFacts
  <2> QED
    BY <2>1, <2>2
<1>2. a = IF code = "temp" THEN ScheduleRetry(s, i) ELSE s
  BY DEF Answered
<1>3. g \in Generation
  BY DEF Sound, State, Account
<1> HIDE DEF v, a
<1>4. v \in State /\ Owned(v) /\ v.acc[i].valid /\ v.acc[i].gen = g
  BY <1>1 DEF Serves, Sound
<1> HIDE DEF g
<1>5. v.acc[i] \in Account
  BY <1>4 DEF State
<1> DEFINE b == Noted(v.acc[i], g, code)
<1>6. /\ b \in Account
      /\ b.valid = v.acc[i].valid
      /\ b.gen = v.acc[i].gen
      /\ b.regc = v.acc[i].regc
      /\ b.timer = v.acc[i].timer
      /\ b.codeOf = g
      /\ b.active => code \notin {"ok", "gone"}
      /\ code = "perm" => b.settled
  BY <1>3, <1>5 DEF Noted, Account
<1>7. s = [v EXCEPT !.acc[i] = b, !.heap = v.heap]
  <2>1. s = [v EXCEPT !.acc[i] = b]
    OBVIOUS
  <2> HIDE DEF b, s
  <2> QED
    BY <1>4, <2>1 DEF State
<1> HIDE DEF b, s
<1>8. /\ s \in State
      /\ s.heap = v.heap
      /\ s.regc = v.regc
      /\ \A k \in Slots : k # i => s.acc[k] = v.acc[k]
      /\ s.acc[i].valid = v.acc[i].valid
      /\ s.acc[i].gen = v.acc[i].gen
      /\ s.acc[i].regc = v.acc[i].regc
      /\ s.acc[i].timer = v.acc[i].timer
      /\ s.acc[i].codeOf = g
      /\ s.acc[i].active => code \notin {"ok", "gone"}
      /\ code = "perm" => s.acc[i].settled
  <2>1. v.heap \in SUBSET Slots
    BY <1>4 DEF State
  <2>2. s \in State
    BY <1>4, <1>6, <1>7, <2>1, AccUpdate
  <2>3. /\ s.heap = v.heap
        /\ s.regc = v.regc
        /\ \A k \in Slots : k # i => s.acc[k] = v.acc[k]
        /\ s.acc[i] = b
    BY <1>4, <1>7 DEF State
  <2> QED
    BY <1>6, <2>2, <2>3
<1>9. Owned(s)
  BY <1>4, <1>8, OwnedKept DEF Sound
<1>10. Serves(v, s, i)
  BY <1>4, <1>8, <1>9 DEF Serves, Sound, OnlyFor
<1>11. Serves(u, s, i)
  BY <1>1, <1>10, ServesTransitive
<1>12. Serves(u, a, i) /\ Alive(a, i)
  <2>1. CASE code = "temp"
    <3>1. a = ScheduleRetry(s, i) /\ Sound(s)
      BY <1>2, <1>11, <2>1 DEF Serves
    <3>2. Serves(s, a, i) /\ i \in a.heap
      BY <1>4, <1>8, <3>1, ScheduleFacts
    <3> QED
      BY <1>11, <3>2, ServesTransitive DEF Alive, Working
  <2>2. CASE code # "temp"
    <3>1. a = s
      BY <1>2, <2>2
    <3>2. ~s.acc[i].active \/ s.acc[i].settled
      BY <1>8, <2>2 DEF Answers
    <3> QED
      BY <1>11, <3>1, <3>2 DEF Alive
  <2> QED
    BY <2>1, <2>2
<1> QED
  BY <1>12 DEF a, g

(* Session r becomes s. *)
Put(u, r, s) == [u EXCEPT !.regc[r] = s]

(* A change of an account's session that keeps its owner. *)
LEMMA PutFacts ==
  ASSUME NEW i \in Slots, NEW u, Sound(u), u.acc[i].regc # NoSession,
         NEW s \in Session, s.state # "free",
         s.slot = u.regc[u.acc[i].regc].slot,
         s.gen = u.regc[u.acc[i].regc].gen
  PROVE  LET r == u.acc[i].regc
             v == Put(u, r, s)
         IN  Serves(u, v, i) /\ v.acc = u.acc /\ v.heap = u.heap /\ v.regc[r] = s
<1> DEFINE r == u.acc[i].regc
           v == Put(u, r, s)
<1>0. u \in State /\ Owned(u)
  BY DEF Sound
<1>1. r \in Sessions /\ u.regc[r].slot = i /\ u.regc[r].state # "free"
  BY <1>0 DEF State, Account, Owned
<1>2. s.slot = u.regc[r].slot /\ s.gen = u.regc[r].gen
  OBVIOUS
<1>3. v = [u EXCEPT !.regc[r] = s]
  BY DEF Put
<1> HIDE DEF r, v
<1>4. v \in State
  BY <1>0, <1>1, <1>3, RegcUpdate
<1>5. /\ v.acc = u.acc
      /\ v.heap = u.heap
      /\ v.regc[r] = s
      /\ \A x \in Sessions : x # r => v.regc[x] = u.regc[x]
  BY <1>0, <1>1, <1>3 DEF State
<1>6. Owned(v)
  <2>1. \A x \in Sessions : /\ v.regc[x].state # "free" <=> u.regc[x].state # "free"
                            /\ v.regc[x].slot = u.regc[x].slot
                            /\ v.regc[x].gen = u.regc[x].gen
    BY <1>1, <1>2, <1>5
  <2> QED
    BY <1>0, <1>4, <1>5, <2>1, OwnedKept
<1>7. OnlyFor(u, v, i)
  BY <1>0, <1>1, <1>2, <1>5 DEF OnlyFor
<1> QED
  BY <1>4, <1>5, <1>6, <1>7 DEF Serves, Sound, r, v

(* A request for an account with a session: if it went out, the session is  *)
(* asked; and an account that did not retry retries only with its timer in  *)
(* the heap.                                                                *)
LEMMA AskFacts ==
  ASSUME NEW i \in Slots, NEW u, Sound(u), u.acc[i].regc # NoSession,
         u.acc[i].valid, NEW renew \in BOOLEAN, NEW out \in Ask(u, i, renew)
  PROVE  /\ Serves(u, out.st, i)
         /\ out.ok /\ renew => Working(out.st, i)
         /\ ~u.acc[i].active => Alive(out.st, i)
<1> DEFINE r == u.acc[i].regc
           s == [u.regc[r] EXCEPT !.armed = FALSE]
           v == Put(u, r, s)
<1>0. u \in State /\ Owned(u)
  BY DEF Sound
<1>1. r \in Sessions /\ u.regc[r].state # "free"
  BY <1>0 DEF State, Account, Owned
<1>2. u.regc[r] \in Session
  BY <1>0, <1>1 DEF State
<1>3. v = [u EXCEPT !.regc[r].armed = FALSE]
  BY DEF Put
<1>4. s \in Session /\ s.state = u.regc[r].state /\ s.slot = u.regc[r].slot
      /\ s.gen = u.regc[r].gen
  <2> HIDE DEF r
  <2> QED
    BY <1>2 DEF Session
<1> HIDE DEF s
<1>5. Serves(u, v, i) /\ v.acc = u.acc /\ v.heap = u.heap /\ v.regc[r] = s
  BY <1>1, <1>4, PutFacts
<1>6. Sound(v)
  BY <1>5 DEF Serves
<1>7. ASSUME NEW state \in {"asked", "leaving", "stuck"}, NEW t,
             t = [v EXCEPT !.regc[r].state = state]
      PROVE  Serves(u, t, i) /\ t.acc = u.acc /\ t.regc[r].state = state
  <2> DEFINE n == [v.regc[r] EXCEPT !.state = state]
  <2>1. n \in Session /\ n.state = state /\ n.slot = v.regc[r].slot /\ n.gen = v.regc[r].gen
    <3> HIDE DEF r, v
    <3> QED
      BY <1>4, <1>5 DEF Session
  <2>2. t = Put(v, r, n)
    BY <1>7 DEF Put
  <2>3. r = v.acc[i].regc /\ r # NoSession
    BY <1>5
  <2> HIDE DEF n, r, v
  <2>4. Serves(v, t, i) /\ t.acc = v.acc /\ t.regc[r] = n
    BY <1>6, <2>1, <2>2, <2>3, PutFacts
  <2> QED
    BY <1>5, <2>1, <2>4, ServesTransitive
<1>8. CASE out = [st |-> v, ok |-> FALSE]
  BY <1>5, <1>8 DEF Alive
<1>9. CASE out = [st |-> [v EXCEPT !.regc[r].state = IF renew THEN "asked" ELSE "leaving"],
                  ok |-> TRUE]
  <2>1. Serves(u, out.st, i) /\ out.st.acc = u.acc
        /\ out.st.regc[r].state \in {"asked", "leaving"}
    BY <1>7, <1>9
  <2>2. Working(out.st, i)
    BY <2>1 DEF Working
  <2> QED
    BY <2>1, <2>2 DEF Alive
<1>10. CASE out = [st |-> u, ok |-> FALSE]
  BY <1>10, ServesReflexive DEF Alive
<1>11. CASE out = [st |-> Answered(v, i, u.acc[i].gen, "temp"), ok |-> FALSE]
  <2>1. v.acc[i].valid /\ v.acc[i].gen = u.acc[i].gen
    BY <1>5
  <2> HIDE DEF v
  <2>2. Serves(v, out.st, i) /\ Alive(out.st, i)
    BY <1>6, <1>11, <2>1, AnsweredFacts DEF Answers
  <2> QED
    BY <1>5, <1>11, <2>2, ServesTransitive
<1>12. CASE out = [st |-> [v EXCEPT !.regc[r].state = "stuck"], ok |-> FALSE]
  BY <1>7, <1>12 DEF Alive
<1> QED
  BY <1>3, <1>8, <1>9, <1>10, <1>11, <1>12 DEF Ask

(* A session is free whenever an account without one asks for it: each of   *)
(* the others is owned by another slot or held by a worker, and there are   *)
(* more sessions than those (the pool gives memory to every                 *)
(* pjsip_regc_create).                                                      *)
LEMMA SomeFree ==
  ASSUME TypeOK, NEW i \in Slots, NEW u, Sound(u), u.acc[i].regc = NoSession
  PROVE  Free(u) # {}
<1> DEFINE A == {r \in Sessions : u.regc[r].state # "free"}
           B == {r \in Sessions : Held(r)}
           owner == [r \in A |-> u.regc[r].slot]
           holder == [r \in B |-> CHOOSE w \in Workers :
                                    /\ pc[w].do \in {"answer", "refresh"}
                                    /\ pc[w].regc = r]
<1>1. IsFiniteSet(A) /\ IsFiniteSet(B) /\ Cardinality(A) \in Nat /\ Cardinality(B) \in Nat
  BY SessionsAssumption, FS_Subset, FS_CardinalityType
<1>2. /\ IsFiniteSet(Slots \ {i}) /\ Cardinality(Slots \ {i}) = Cardinality(Slots) - 1
      /\ Cardinality(Slots) \in Nat /\ Cardinality(Workers) \in Nat
      /\ Cardinality(Sessions) \in Nat
  BY SlotsAssumption, SessionsAssumption, FS_RemoveElement, FS_CardinalityType
<1>3. Cardinality(A) <= Cardinality(Slots \ {i})
  <2>1. owner \in [A -> Slots \ {i}]
    <3>1. ASSUME NEW r \in A
          PROVE  u.regc[r].slot \in Slots /\ u.regc[r].slot # i
      <4>1. r \in Sessions /\ r # NoSession
        BY SessionsAssumption DEF NoSession
      <4> QED
        BY <4>1 DEF Sound, State, Session, Owned
    <3> QED
      BY <3>1
  <2>2. \A x, y \in A : owner[x] = owner[y] => x = y
    BY DEF Sound, Owned
  <2> HIDE DEF A, owner
  <2>3. ~(Cardinality(Slots \ {i}) < Cardinality(A))
    BY <1>1, <1>2, <2>1, <2>2, FS_PigeonHole
  <2> QED
    BY <1>1, <1>2, <2>3
<1>4. Cardinality(B) <= Cardinality(Workers)
  <2>1. \A r \in B : /\ holder[r] \in Workers
                     /\ pc[holder[r]].regc = r
    BY DEF Held
  <2>2. holder \in [B -> Workers]
    BY <2>1
  <2> HIDE DEF B, holder
  <2>3. \A x, y \in B : holder[x] = holder[y] => x = y
    BY <2>1
  <2>4. ~(Cardinality(Workers) < Cardinality(B))
    BY <1>1, <1>2, SessionsAssumption, <2>2, <2>3, FS_PigeonHole
  <2> QED
    BY <1>1, <1>2, <2>4
<1>5. SUFFICES ASSUME Free(u) = {}
               PROVE  FALSE
  OBVIOUS
<1>6. Sessions = A \cup B
  BY <1>5 DEF Free, Held
<1> HIDE DEF A, B
<1>7. Cardinality(Sessions) = Cardinality(A) + Cardinality(B) - Cardinality(A \cap B)
  BY <1>1, <1>6, FS_Union
<1>8. Cardinality(A \cap B) \in Nat
  <2>1. IsFiniteSet(A \cap B)
    BY <1>1, FS_Subset
  <2> QED
    BY <2>1, FS_CardinalityType
<1> QED
  BY <1>1, <1>2, <1>3, <1>4, <1>7, <1>8, SessionsAssumption

(* pjsua_regc_init gives the account a session of its own that no worker    *)
(* holds.                                                                   *)
LEMMA NewFacts ==
  ASSUME TypeOK, NEW i \in Slots, NEW u, Sound(u), u.acc[i].regc = NoSession,
         u.acc[i].valid
  PROVE  LET v == NewSession(u, i) IN
         /\ Serves(u, v, i)
         /\ v.acc[i].regc # NoSession
         /\ v.acc[i].active = u.acc[i].active
<1> DEFINE v == NewSession(u, i)
           s == [state |-> "idle", armed |-> FALSE, slot |-> i, gen |-> u.acc[i].gen]
           r == CHOOSE x \in Free(u) : TRUE
           b == [u.acc[i] EXCEPT !.regc = r]
           t == [u EXCEPT !.acc[i] = b]
<1>0. u \in State /\ Owned(u)
  BY DEF Sound
<1>1. r \in Free(u)
  BY SomeFree
<1>2. v = [u EXCEPT !.acc[i].regc = r, !.regc[r] = s]
  BY DEF NewSession
<1> HIDE DEF r
<1>3. r \in Sessions /\ r # NoSession /\ u.regc[r].state = "free" /\ ~Held(r)
  BY <1>1, SessionsAssumption DEF Free, Held, NoSession
<1>4. u.acc[i] \in Account
  BY <1>0 DEF State
<1>5. s \in Session /\ s.state = "idle" /\ s.slot = i /\ s.gen = u.acc[i].gen
  BY <1>4 DEF Session, Account
<1>6. /\ b \in Account
      /\ b.valid = u.acc[i].valid
      /\ b.gen = u.acc[i].gen
      /\ b.regc = r
      /\ b.timer = u.acc[i].timer
      /\ b.codeOf = u.acc[i].codeOf
      /\ b.active = u.acc[i].active
  BY <1>3, <1>4 DEF Account
<1>7. v = [t EXCEPT !.regc[r] = s]
  BY <1>2
<1> HIDE DEF b, s, v
<1>8. t = [u EXCEPT !.acc[i] = b, !.heap = u.heap]
  BY <1>0 DEF State
<1> HIDE DEF t
<1>9. t \in State
  <2>1. u.heap \in SUBSET Slots
    BY <1>0 DEF State
  <2> QED
    BY <1>0, <1>6, <1>8, <2>1, AccUpdate
<1>10. v \in State
  BY <1>3, <1>5, <1>7, <1>9, RegcUpdate
<1>11. /\ v.heap = u.heap
       /\ \A k \in Slots : k # i => v.acc[k] = u.acc[k]
       /\ v.acc[i] = b
       /\ \A x \in Sessions : x # r => v.regc[x] = u.regc[x]
       /\ v.regc[r] = s
  <2>1. /\ t.heap = u.heap
        /\ t.regc = u.regc
        /\ \A k \in Slots : k # i => t.acc[k] = u.acc[k]
        /\ t.acc[i] = b
    BY <1>0, <1>8 DEF State
  <2> QED
    BY <1>3, <1>7, <1>9, <2>1 DEF State
<1>12. Owned(v)
  <2>1. ASSUME NEW x \in Sessions, v.regc[x].state # "free"
        PROVE  /\ v.acc[v.regc[x].slot].regc = x
               /\ v.acc[v.regc[x].slot].valid
               /\ v.acc[v.regc[x].slot].gen = v.regc[x].gen
    <3>1. CASE x = r
      BY <1>5, <1>6, <1>11, <3>1
    <3>2. CASE x # r
      <4>1. u.regc[x].slot \in Slots /\ x # NoSession
        BY <1>0, SessionsAssumption DEF State, Session, NoSession
      <4>2. u.regc[x].slot # i
        BY <1>0, <1>11, <2>1, <3>2, <4>1 DEF Owned
      <4> QED
        BY <1>0, <1>11, <2>1, <3>2, <4>1, <4>2 DEF Owned
    <3> QED
      BY <3>1, <3>2
  <2>2. ASSUME NEW k \in Slots, v.acc[k].regc # NoSession
        PROVE  /\ v.regc[v.acc[k].regc].state # "free"
               /\ v.regc[v.acc[k].regc].slot = k
    <3>1. CASE k = i
      BY <1>5, <1>6, <1>11, <3>1
    <3>2. CASE k # i
      <4>1. v.acc[k].regc = u.acc[k].regc /\ u.acc[k].regc \in Sessions
        BY <1>0, <1>11, <2>2, <3>2 DEF State, Account
      <4>2. u.acc[k].regc # r
        BY <1>0, <1>3, <2>2, <4>1 DEF Owned
      <4> QED
        BY <1>0, <1>11, <2>2, <4>1, <4>2 DEF Owned
    <3> QED
      BY <3>1, <3>2
  <2>3. ASSUME NEW k \in v.heap
        PROVE  v.acc[k].timer
    BY <1>0, <1>6, <1>11, <2>3 DEF Owned, State
  <2> QED
    BY <2>1, <2>2, <2>3 DEF Owned
<1>13. OnlyFor(u, v, i)
  BY <1>3, <1>6, <1>11 DEF OnlyFor
<1> QED
  BY <1>3, <1>6, <1>10, <1>11, <1>12, <1>13 DEF Serves, Sound, v

(* pjsua_acc_set_registration, with each of its outcomes. *)
LEMMA SetRegistrationFacts ==
  ASSUME TypeOK, NEW i \in Slots, NEW u, Sound(u), NEW renew \in BOOLEAN,
         NEW out \in SetRegistration(u, i, renew)
  PROVE  /\ Serves(u, out.st, i)
         /\ out.ok /\ renew => Working(out.st, i)
         /\ ~u.acc[i].active => Alive(out.st, i)
<1> DEFINE v == CancelRetry(u, i)
<1>1. /\ Serves(u, v, i)
      /\ v.acc[i].active = u.acc[i].active
      /\ v.acc[i].regc = u.acc[i].regc
  BY CancelFacts
<1>2. Sound(v) /\ v.acc[i].valid = u.acc[i].valid
  BY <1>1 DEF Serves
<1> HIDE DEF v
<1>3. CASE out = [st |-> u, ok |-> FALSE]
  BY <1>3, ServesReflexive DEF Alive
<1>4. CASE out = [st |-> v, ok |-> FALSE]
  BY <1>1, <1>4 DEF Alive
<1>5. CASE u.acc[i].valid /\ v.acc[i].regc # NoSession /\ out \in Ask(v, i, renew)
  <2>1. /\ Serves(v, out.st, i)
        /\ out.ok /\ renew => Working(out.st, i)
        /\ ~v.acc[i].active => Alive(out.st, i)
    BY <1>2, <1>5, AskFacts
  <2> QED
    BY <1>1, <2>1, ServesTransitive
<1>6. CASE /\ u.acc[i].valid /\ v.acc[i].regc = NoSession
           /\ out \in Ask(NewSession(v, i), i, TRUE)
  <2> DEFINE n == NewSession(v, i)
  <2>1. Serves(v, n, i) /\ n.acc[i].regc # NoSession /\ n.acc[i].active = v.acc[i].active
    BY <1>2, <1>6, NewFacts
  <2>2. Sound(n) /\ n.acc[i].valid
    BY <1>2, <1>6, <2>1 DEF Serves
  <2> HIDE DEF n
  <2>3. /\ Serves(n, out.st, i)
        /\ out.ok => Working(out.st, i)
        /\ ~n.acc[i].active => Alive(out.st, i)
    BY <1>6, <2>1, <2>2, AskFacts DEF n
  <2>4. Serves(u, n, i)
    BY <1>1, <2>1, ServesTransitive
  <2> QED
    BY <1>1, <2>1, <2>3, <2>4, ServesTransitive
<1> QED
  BY <1>2, <1>3, <1>4, <1>5, <1>6 DEF SetRegistration, v

(* The application is told whether a retry follows. *)
Settled(u, i, x) == [u EXCEPT !.acc[i].settled = x]

(* Being told changes nothing in the account. *)
LEMMA SettledFacts ==
  ASSUME NEW i \in Slots, NEW u, Sound(u), NEW x \in BOOLEAN
  PROVE  LET v == Settled(u, i, x) IN
         /\ Serves(u, v, i)
         /\ v.heap = u.heap /\ v.regc = u.regc
         /\ v.acc[i].regc = u.acc[i].regc
         /\ v.acc[i].settled = x
<1> DEFINE v == Settled(u, i, x)
           b == [u.acc[i] EXCEPT !.settled = x]
<1>1. u \in State /\ u.acc[i] \in Account
  BY DEF Sound, State
<1>2. v = [u EXCEPT !.acc[i] = b]
  BY DEF Settled
<1>3. /\ b \in Account
      /\ b.valid = u.acc[i].valid
      /\ b.gen = u.acc[i].gen
      /\ b.regc = u.acc[i].regc
      /\ b.timer = u.acc[i].timer
      /\ b.codeOf = u.acc[i].codeOf
      /\ b.settled = x
  BY <1>1 DEF Account
<1> HIDE DEF b, v
<1>4. v = [u EXCEPT !.acc[i] = b, !.heap = u.heap]
  BY <1>1, <1>2 DEF State
<1>5. u.heap \in SUBSET Slots
  BY <1>1 DEF State
<1>6. v \in State
  BY <1>1, <1>3, <1>4, <1>5, AccUpdate
<1>7. /\ v.heap = u.heap
      /\ v.regc = u.regc
      /\ \A k \in Slots : k # i => v.acc[k] = u.acc[k]
      /\ v.acc[i] = b
  BY <1>1, <1>4 DEF State
<1>8. Owned(v)
  BY <1>3, <1>6, <1>7, OwnedKept
<1> QED
  BY <1>3, <1>6, <1>7, <1>8 DEF Serves, Sound, OnlyFor, v

(* auto_rereg.active is cleared. *)
Inactive(u, i) == [u EXCEPT !.acc[i].active = FALSE]

(* regc_cb clears it before a NAT rewrite registers again. *)
LEMMA InactiveFacts ==
  ASSUME NEW i \in Slots, NEW u, Sound(u)
  PROVE  Serves(u, Inactive(u, i), i) /\ ~Inactive(u, i).acc[i].active
<1> DEFINE v == Inactive(u, i)
           b == [u.acc[i] EXCEPT !.active = FALSE]
<1>1. u \in State /\ u.acc[i] \in Account
  BY DEF Sound, State
<1>2. v = [u EXCEPT !.acc[i] = b]
  BY DEF Inactive
<1>3. /\ b \in Account
      /\ b.valid = u.acc[i].valid
      /\ b.gen = u.acc[i].gen
      /\ b.regc = u.acc[i].regc
      /\ b.timer = u.acc[i].timer
      /\ b.codeOf = u.acc[i].codeOf
      /\ ~b.active
  BY <1>1 DEF Account
<1> HIDE DEF b, v
<1>4. v = [u EXCEPT !.acc[i] = b, !.heap = u.heap]
  BY <1>1, <1>2 DEF State
<1>5. u.heap \in SUBSET Slots
  BY <1>1 DEF State
<1>6. v \in State
  BY <1>1, <1>3, <1>4, <1>5, AccUpdate
<1>7. /\ v.heap = u.heap
      /\ v.regc = u.regc
      /\ \A k \in Slots : k # i => v.acc[k] = u.acc[k]
      /\ v.acc[i] = b
  BY <1>1, <1>4 DEF State
<1>8. Owned(v)
  BY <1>3, <1>6, <1>7, OwnedKept
<1> QED
  BY <1>3, <1>6, <1>7, <1>8 DEF Serves, Sound, OnlyFor, v

(* The slot is no longer valid. *)
Deleted(u, i) == [u EXCEPT !.acc[i].valid = FALSE]

(* pjsua_acc_del gives a slot back only when its session is gone. *)
LEMMA DeletedFacts ==
  ASSUME NEW i \in Slots, NEW t, NEW u, Serves(t, u, i), u.acc[i].regc = NoSession
  PROVE  LET v == Deleted(u, i) IN
         Sound(v) /\ OnlyFor(t, v, i) /\ ~v.acc[i].valid
<1> DEFINE v == Deleted(u, i)
           b == [u.acc[i] EXCEPT !.valid = FALSE]
<1>1. u \in State /\ Owned(u) /\ u.acc[i] \in Account
  BY DEF Serves, Sound, State
<1>2. v = [u EXCEPT !.acc[i] = b]
  BY DEF Deleted
<1>3. /\ b \in Account
      /\ ~b.valid
      /\ b.gen = u.acc[i].gen
      /\ b.regc = u.acc[i].regc
      /\ b.timer = u.acc[i].timer
      /\ b.codeOf = u.acc[i].codeOf
  BY <1>1 DEF Account
<1> HIDE DEF b, v
<1>4. v = [u EXCEPT !.acc[i] = b, !.heap = u.heap]
  BY <1>1, <1>2 DEF State
<1>5. u.heap \in SUBSET Slots
  BY <1>1 DEF State
<1>6. v \in State
  BY <1>1, <1>3, <1>4, <1>5, AccUpdate
<1>7. /\ v.heap = u.heap
      /\ v.regc = u.regc
      /\ \A k \in Slots : k # i => v.acc[k] = u.acc[k]
      /\ v.acc[i] = b
  BY <1>1, <1>4 DEF State
<1>8. Owned(v)
  <2>1. ASSUME NEW r \in Sessions, v.regc[r].state # "free"
        PROVE  /\ v.acc[v.regc[r].slot].regc = r
               /\ v.acc[v.regc[r].slot].valid
               /\ v.acc[v.regc[r].slot].gen = v.regc[r].gen
    <3>1. u.regc[r].slot \in Slots /\ r # NoSession
      BY <1>1, SessionsAssumption DEF State, Session, NoSession
    <3>2. u.regc[r].slot # i
      BY <1>1, <1>7, <2>1, <3>1 DEF Owned
    <3> QED
      BY <1>1, <1>7, <2>1, <3>1, <3>2 DEF Owned
  <2> QED
    BY <1>1, <1>3, <1>6, <1>7, <2>1 DEF Owned, State
<1>9. OnlyFor(t, v, i)
  BY <1>3, <1>7 DEF Serves, OnlyFor
<1> QED
  BY <1>3, <1>6, <1>7, <1>8, <1>9 DEF Sound, v

(* The state a step commits is sound. *)
LEMMA NowSound ==
  ASSUME NEW u, Sound(u), Becomes(u)
  PROVE  /\ acc' \in [Slots -> Account]
         /\ heap' \subseteq Slots
         /\ regc' \in [Sessions -> Session]
         /\ Sound(Now)'
<1>1. u \in State /\ acc' = u.acc /\ heap' = u.heap /\ regc' = u.regc
  BY DEF Sound, Becomes
<1>2. /\ acc' \in [Slots -> Account]
      /\ heap' \in SUBSET Slots
      /\ regc' \in [Sessions -> Session]
  BY <1>1 DEF State
<1>3. Now' \in State
  BY <1>2 DEF State, Now
<1>4. Now'.acc = acc' /\ Now'.heap = heap' /\ Now'.regc = regc'
  BY DEF Now
<1>5. Owned(Now')
  BY <1>1, <1>4 DEF Owned, Sound
<1> QED
  BY <1>2, <1>3, <1>5 DEF Sound

(* The action of ToldOfOwn. *)
ToldStep == \A i \in Slots : acc'[i].codeOf # acc[i].codeOf =>
                               acc[i].valid /\ acc'[i].codeOf = acc[i].gen

(* A step that runs one locked function for slot i keeps what the invariant *)
(* says, if the account it leaves is alive, invalid or still being added,   *)
(* and if the worker that ran it held a job of that slot only.              *)
LEMMA Locked ==
  ASSUME IInv, NEW i \in Slots, NEW u, Sound(u), OnlyFor(Now, u, i), Becomes(u),
         pc' \in [Workers -> Job],
         \A w \in Workers : pc'[w].do \in {"answer", "refresh"} => pc'[w] = pc[w],
         \A w \in Workers :
           \/ pc'[w] = pc[w]
           \/ pc[w].do = "retry" /\ pc[w].slot = i
           \/ pc[w].do = "answer" /\ pc[w].regc = acc[i].regc
           \/ pc[w].do \notin {"retry", "answer"},
         \A k \in adding : k = i \/ k \in adding',
         \/ ~u.acc[i].valid
         \/ i \in adding'
         \/ Alive(u, i)
  PROVE  Sound(Now)' /\ Addressed' /\ RetryAlive' /\ ToldStep
<1>1. /\ Sound(Now)'
      /\ acc' = u.acc /\ heap' = u.heap /\ regc' = u.regc
  BY NowSound DEF Becomes
<1>2. /\ Now.acc = acc /\ Now.heap = heap /\ Now.regc = regc
      /\ Now'.acc = acc' /\ Now'.heap = heap' /\ Now'.regc = regc'
  BY DEF Now
<1>3. /\ \A k \in Slots : k # i => acc'[k] = acc[k] /\ (k \in heap' <=> k \in heap)
      /\ \A r \in Sessions : regc[r].state # "free" /\ regc[r].slot # i => regc'[r] = regc[r]
      /\ acc'[i].codeOf # acc[i].codeOf => acc[i].valid /\ acc'[i].codeOf = acc[i].gen
      /\ \A r \in Sessions :
           Held(r) /\ regc'[r].state # "free" =>
             /\ regc[r].state # "free"
             /\ regc'[r].slot = regc[r].slot
             /\ regc'[r].gen = regc[r].gen
  BY <1>1, <1>2 DEF OnlyFor
<1>4. /\ \A k \in Slots : acc[k].regc # NoSession =>
           /\ acc[k].regc \in Sessions
           /\ regc[acc[k].regc].state # "free"
           /\ regc[acc[k].regc].slot = k
      /\ acc \in [Slots -> Account]
      /\ pc \in [Workers -> Job]
  BY <1>2 DEF IInv, Sound, Owned, TypeOK, Account
<1>5. Addressed'
  <2> SUFFICES ASSUME NEW w \in Workers, pc'[w].do = "answer",
                      regc'[pc'[w].regc].state # "free"
               PROVE  /\ regc'[pc'[w].regc].slot = pc'[w].slot
                      /\ regc'[pc'[w].regc].gen = pc'[w].gen
    BY DEF Addressed
  <2>1. pc'[w] = pc[w] /\ pc[w].do = "answer"
    OBVIOUS
  <2>2. pc[w].regc \in Sessions
    BY <1>4, <2>1 DEF Job
  <2>3. Held(pc[w].regc)
    BY <2>1 DEF Held
  <2> QED
    BY <1>3, <2>1, <2>2, <2>3 DEF IInv, Addressed
<1>6. RetryAlive'
  <2> SUFFICES ASSUME NEW k \in Slots, acc'[k].valid, acc'[k].active,
                      ~acc'[k].settled, k \notin adding'
               PROVE  \/ Working(Now, k)'
                      \/ \E w \in Workers :
                           \/ pc'[w].do = "retry" /\ pc'[w].slot = k
                           \/ pc'[w].do = "answer" /\ pc'[w].regc = acc'[k].regc
    BY DEF RetryAlive
  <2>1. CASE k = i
    <3>1. Working(u, i)
      BY <1>1, <2>1 DEF Alive
    <3> QED
      BY <1>1, <1>2, <2>1, <3>1 DEF Working
  <2>2. CASE k # i
    <3>1. acc'[k] = acc[k] /\ k \notin adding
      BY <1>3, <2>2
    <3>2. \/ Working(Now, k)
          \/ \E w \in Workers :
               \/ pc[w].do = "retry" /\ pc[w].slot = k
               \/ pc[w].do = "answer" /\ pc[w].regc = acc[k].regc
      BY <3>1 DEF IInv, RetryAlive
    <3>3. ASSUME Working(Now, k)
          PROVE  Working(Now, k)'
      <4>1. CASE k \in heap
        BY <1>2, <1>3, <2>2, <4>1 DEF Working
      <4>2. CASE acc[k].regc # NoSession /\ regc[acc[k].regc].state \in {"asked", "leaving"}
        <5>1. regc'[acc[k].regc] = regc[acc[k].regc]
          BY <1>3, <1>4, <2>2, <4>2
        <5> QED
          BY <1>2, <3>1, <4>2, <5>1 DEF Working
      <4> QED
        BY <1>2, <3>3, <4>1, <4>2 DEF Working
    <3>4. ASSUME NEW w \in Workers, pc[w].do = "retry", pc[w].slot = k
          PROVE  pc'[w].do = "retry" /\ pc'[w].slot = k
      BY <2>2, <3>4
    <3>5. ASSUME NEW w \in Workers, pc[w].do = "answer", pc[w].regc = acc[k].regc
          PROVE  pc'[w].do = "answer" /\ pc'[w].regc = acc'[k].regc
      <4>1. acc[k].regc # acc[i].regc
        <5>1. pc[w].regc \in Sessions
          BY <1>4, <3>5 DEF Job
        <5>2. pc[w].regc # NoSession
          BY <5>1, SessionsAssumption DEF NoSession
        <5> QED
          BY <1>4, <2>2, <3>5, <5>2
      <4> QED
        BY <3>1, <3>5, <4>1
    <3> QED
      BY <3>2, <3>3, <3>4, <3>5
  <2> QED
    BY <2>1, <2>2
<1>7. ToldStep
  BY <1>3 DEF ToldStep
<1> QED
  BY <1>1, <1>5, <1>6, <1>7

(* What the invariant says of the variables, spelled out. *)
LEMMA StateFacts ==
  ASSUME IInv
  PROVE  /\ Now.acc = acc /\ Now.heap = heap /\ Now.regc = regc
         /\ Sound(Now)
         /\ acc \in [Slots -> Account] /\ heap \subseteq Slots
         /\ regc \in [Sessions -> Session] /\ pc \in [Workers -> Job]
         /\ \A r \in Sessions :
              regc[r].state # "free" =>
                /\ acc[regc[r].slot].regc = r
                /\ acc[regc[r].slot].valid
                /\ acc[regc[r].slot].gen = regc[r].gen
         /\ \A i \in Slots :
              acc[i].regc # NoSession =>
                /\ acc[i].regc \in Sessions
                /\ regc[acc[i].regc].state # "free"
                /\ regc[acc[i].regc].slot = i
         /\ \A i \in heap : acc[i].timer
         /\ \A r \in Sessions : r # NoSession
BY SessionsAssumption DEF IInv, TypeOK, Sound, Owned, Now, Account, NoSession

(* pjsua_acc_del. *)
LEMMA DeleteStep ==
  ASSUME IInv, NEW i \in Slots, Delete(i)
  PROVE  IInv' /\ ToldStep
<1> DEFINE v == CancelRetry(Now, i)
<1>1. /\ Serves(Now, v, i) /\ v.acc[i].regc = acc[i].regc
  BY StateFacts, CancelFacts
<1>2. Sound(v)
  BY <1>1 DEF Serves
<1> HIDE DEF v
<1>3. PICK u : /\ u \in (IF acc[i].regc = NoSession THEN {v}
                         ELSE {out.st : out \in SetRegistration(v, i, FALSE)})
               /\ Becomes(Deleted(DropSession(u, i), i))
  BY DEF Delete, Deleted, v
<1>4. Serves(v, u, i)
  <2>1. CASE acc[i].regc = NoSession
    BY <1>2, <1>3, <2>1, ServesReflexive
  <2>2. CASE acc[i].regc # NoSession
    <3>1. PICK out \in SetRegistration(v, i, FALSE) : u = out.st
      BY <1>3, <2>2
    <3> QED
      BY <1>2, <3>1, SetRegistrationFacts DEF IInv
  <2> QED
    BY <2>1, <2>2
<1>5. Serves(u, DropSession(u, i), i) /\ DropSession(u, i).acc[i].regc = NoSession
  BY <1>4, DropFacts DEF Serves
<1>6. Serves(Now, DropSession(u, i), i)
  BY <1>1, <1>4, <1>5, ServesTransitive
<1> DEFINE d == Deleted(DropSession(u, i), i)
<1>7. Sound(d) /\ OnlyFor(Now, d, i) /\ ~d.acc[i].valid
  BY <1>5, <1>6, DeletedFacts
<1> HIDE DEF d
<1>8. Becomes(d) /\ pc' = pc /\ adding' = adding /\ calls' = calls + 1 /\ calls < MaxCalls
  BY <1>3 DEF d, Delete, Call
<1>9. Sound(Now)' /\ Addressed' /\ RetryAlive' /\ ToldStep
  <2>1. pc' \in [Workers -> Job]
    BY <1>8, StateFacts
  <2> QED
    BY <1>7, <1>8, <2>1, Locked
<1>10. TypeOK'
  BY <1>7, <1>8, NowSound, MaxCallsAssumption DEF IInv, TypeOK
<1>11. AddsOne'
  BY <1>8 DEF IInv, AddsOne
<1> QED
  BY <1>9, <1>10, <1>11 DEF IInv

(* pjsua_acc_set_registration called for the application. *)
LEMMA RegisterStep ==
  ASSUME IInv, NEW i \in Slots, NEW renew \in BOOLEAN, Register(i, renew),
         pc' = pc, \A k \in adding : k = i \/ k \in adding'
  PROVE  /\ Sound(Now)' /\ Addressed' /\ RetryAlive' /\ ToldStep
         /\ acc' \in [Slots -> Account] /\ heap' \subseteq Slots
         /\ regc' \in [Sessions -> Session]
<1>1. PICK out \in SetRegistration(Now, i, renew) :
        Becomes(Settled(out.st, i, IF out.ok THEN ~renew ELSE ~Working(out.st, i)))
  BY DEF Register, Settled
<1>2. PICK x \in BOOLEAN : x = IF out.ok THEN ~renew ELSE ~Working(out.st, i)
  BY DEF Working
<1> DEFINE u == Settled(out.st, i, x)
<1>3. Becomes(u)
  BY <1>1, <1>2
<1>4. Serves(Now, out.st, i) /\ (out.ok /\ renew => Working(out.st, i))
  BY StateFacts, SetRegistrationFacts DEF IInv
<1>5. /\ Serves(out.st, u, i) /\ u.heap = out.st.heap /\ u.regc = out.st.regc
      /\ u.acc[i].regc = out.st.acc[i].regc /\ u.acc[i].settled = x
  BY <1>4, SettledFacts DEF Serves
<1> HIDE DEF u
<1>6. Serves(Now, u, i)
  BY <1>4, <1>5, ServesTransitive
<1>7. Alive(u, i)
  BY <1>2, <1>4, <1>5 DEF Alive, Working
<1>8. Sound(u) /\ OnlyFor(Now, u, i)
  BY <1>6 DEF Serves
<1>9. pc' \in [Workers -> Job]
  BY StateFacts
<1>10. Sound(Now)' /\ Addressed' /\ RetryAlive' /\ ToldStep
  BY <1>3, <1>7, <1>8, <1>9, Locked
<1> QED
  BY <1>3, <1>8, <1>10, NowSound

(* The same as a call of its own. *)
LEMMA SetRegStep ==
  ASSUME IInv, NEW i \in Slots, NEW renew \in BOOLEAN, SetReg(i, renew)
  PROVE  IInv' /\ ToldStep
<1>1. /\ Register(i, renew) /\ pc' = pc /\ adding' = adding
      /\ calls' = calls + 1 /\ calls < MaxCalls
  BY DEF SetReg, Call
<1>2. /\ Sound(Now)' /\ Addressed' /\ RetryAlive' /\ ToldStep
      /\ acc' \in [Slots -> Account] /\ heap' \subseteq Slots
      /\ regc' \in [Sessions -> Session]
  BY <1>1, RegisterStep
<1>3. TypeOK' /\ AddsOne'
  BY <1>1, <1>2, MaxCallsAssumption DEF IInv, TypeOK, AddsOne
<1> QED
  BY <1>2, <1>3 DEF IInv

(* pjsua_acc_add, the registration after its unlock. *)
LEMMA FinishAddStep ==
  ASSUME IInv, FinishAdd
  PROVE  IInv' /\ ToldStep
<1>1. PICK i \in adding : Register(i, TRUE)
  BY DEF FinishAdd
<1>2. adding' = {} /\ pc' = pc /\ calls' = calls /\ i \in Slots
      /\ \A k \in adding : k = i
  BY <1>1 DEF FinishAdd, IInv, TypeOK, AddsOne
<1>3. /\ Sound(Now)' /\ Addressed' /\ RetryAlive' /\ ToldStep
      /\ acc' \in [Slots -> Account] /\ heap' \subseteq Slots
      /\ regc' \in [Sessions -> Session]
  BY <1>1, <1>2, RegisterStep
<1>4. TypeOK' /\ AddsOne'
  BY <1>2, <1>3 DEF IInv, TypeOK, AddsOne
<1> QED
  BY <1>3, <1>4 DEF IInv

(* auto_rereg_timer_cb. *)
LEMMA RunRetryStep ==
  ASSUME IInv, NEW w \in Workers, RunRetry(w)
  PROVE  IInv' /\ ToldStep
<1> DEFINE i == pc[w].slot
<1>1. /\ pc[w].do = "retry" /\ i \in Slots
      /\ pc' = [pc EXCEPT ![w] = Idle] /\ UNCHANGED <<adding, calls>>
  BY StateFacts DEF RunRetry, Job, Done
<1>2. /\ pc' \in [Workers -> Job]
      /\ \A v \in Workers : pc'[v] = IF v = w THEN Idle ELSE pc[v]
      /\ Idle.do = "idle"
  BY <1>1, StateFacts DEF Job, Idle
<1>3. PICK u : /\ Becomes(u) /\ Sound(u) /\ OnlyFor(Now, u, i)
               /\ ~u.acc[i].valid \/ Alive(u, i)
  <2>1. CASE ~(acc[i].valid /\ acc[i].active) /\ UNCHANGED sys
    <3>1. Becomes(Now) /\ Serves(Now, Now, i)
      BY <1>1, <2>1, StateFacts, ServesReflexive DEF Becomes, sys
    <3>2. ~Now.acc[i].valid \/ Alive(Now, i)
      BY <2>1, StateFacts DEF Alive
    <3> QED
      BY <3>1, <3>2 DEF Serves
  <2>2. ASSUME acc[i].valid,
               NEW out \in SetRegistration(Now, i, TRUE),
               Becomes(IF out.ok THEN out.st ELSE ScheduleRetry(out.st, i))
        PROVE  \E u : /\ Becomes(u) /\ Sound(u) /\ OnlyFor(Now, u, i)
                      /\ ~u.acc[i].valid \/ Alive(u, i)
    <3> HIDE DEF i
    <3>1. Serves(Now, out.st, i) /\ (out.ok => Working(out.st, i))
      BY <1>1, StateFacts, SetRegistrationFacts DEF IInv
    <3>2. CASE out.ok
      BY <2>2, <3>1, <3>2 DEF Serves, Alive
    <3>3. CASE ~out.ok
      <4> DEFINE s == ScheduleRetry(out.st, i)
      <4>1. out.st.acc[i].valid
        BY <2>2, <3>1, StateFacts DEF Serves
      <4>2. Serves(out.st, s, i) /\ i \in s.heap
        BY <1>1, <3>1, <4>1, ScheduleFacts DEF Serves
      <4> HIDE DEF s
      <4>3. Serves(Now, s, i)
        BY <1>1, <3>1, <4>2, ServesTransitive
      <4>4. Becomes(s)
        BY <2>2, <3>3 DEF s
      <4> QED
        BY <4>2, <4>3, <4>4 DEF Serves, Alive, Working
    <3> QED
      BY <3>2, <3>3
  <2> QED
    BY <2>1, <2>2 DEF RunRetry
<1>4. Sound(Now)' /\ Addressed' /\ RetryAlive' /\ ToldStep
  <2> HIDE DEF i
  <2>1. pc'[w].do = "idle" /\ pc[w].do = "retry" /\ pc[w].slot = i
    BY <1>1, <1>2 DEF i
  <2>3. \A v \in Workers : pc'[v].do \in {"answer", "refresh"} => pc'[v] = pc[v]
    BY <1>2, <2>1
  <2>4. \A v \in Workers : \/ pc'[v] = pc[v]
                           \/ pc[v].do = "retry" /\ pc[v].slot = i
    BY <1>2, <2>1
  <2>2. \A k \in adding : k = i \/ k \in adding'
    BY <1>1
  <2> QED
    BY <1>1, <1>2, <1>3, <2>2, <2>3, <2>4, Locked
<1>5. TypeOK' /\ AddsOne'
  BY <1>1, <1>2, <1>3, NowSound DEF IInv, TypeOK, AddsOne
<1> QED
  BY <1>4, <1>5 DEF IInv

(* regc_cb: an answer to a session the account no longer has changes nothing*)
(* that anybody waits for; any other is the account's own.                  *)
LEMMA RunAnswerStep ==
  ASSUME IInv, NEW w \in Workers, RunAnswer(w)
  PROVE  IInv' /\ ToldStep
<1> DEFINE j == pc[w]
           i == j.slot
<1>1. /\ j.do = "answer" /\ i \in Slots /\ j.regc \in Sessions /\ j.regc # NoSession
      /\ j.code \in Answers /\ adding' = adding /\ calls' = calls
  BY StateFacts DEF RunAnswer, Job
<1>2. CASE acc[i].regc # j.regc /\ UNCHANGED sys /\ Done(w)
  <2>1. /\ acc' = acc /\ heap' = heap /\ regc' = regc
        /\ pc' \in [Workers -> Job]
        /\ \A v \in Workers : pc'[v] = IF v = w THEN Idle ELSE pc[v]
        /\ Idle.do = "idle"
    BY <1>2, StateFacts DEF sys, Done, Job, Idle
  <2>2. TypeOK' /\ AddsOne' /\ Sound(Now)'
    BY <1>1, <2>1 DEF IInv, TypeOK, AddsOne, Now
  <2>3. Addressed'
    BY <2>1 DEF IInv, Addressed
  <2>4. RetryAlive'
    <3> SUFFICES ASSUME NEW k \in Slots, acc'[k].valid, acc'[k].active,
                        ~acc'[k].settled, k \notin adding'
                 PROVE  \/ Working(Now, k)'
                        \/ \E v \in Workers :
                             \/ pc'[v].do = "retry" /\ pc'[v].slot = k
                             \/ pc'[v].do = "answer" /\ pc'[v].regc = acc'[k].regc
      BY DEF RetryAlive
    <3>1. CASE Working(Now, k)
      BY <2>1, <3>1 DEF Working, Now
    <3>2. ASSUME NEW v \in Workers, pc[v].do = "retry", pc[v].slot = k
          PROVE  pc'[v].do = "retry" /\ pc'[v].slot = k
      BY <1>1, <2>1, <3>2
    <3>3. ASSUME NEW v \in Workers, pc[v].do = "answer", pc[v].regc = acc[k].regc
          PROVE  pc'[v].do = "answer" /\ pc'[v].regc = acc'[k].regc
      <4>1. v # w
        <5> SUFFICES ASSUME v = w
                     PROVE  FALSE
          OBVIOUS
        <5>1. regc[j.regc].state # "free" /\ regc[j.regc].slot = k
          BY <1>1, <3>3, StateFacts
        <5>2. k = i
          BY <1>1, <5>1 DEF IInv, Addressed
        <5> QED
          BY <1>2, <3>3, <5>2
      <4> QED
        BY <2>1, <3>3, <4>1
    <3> QED
      BY <1>1, <2>1, <3>1, <3>2, <3>3 DEF IInv, RetryAlive
  <2>5. ToldStep
    BY <2>1 DEF ToldStep
  <2> QED
    BY <2>2, <2>3, <2>4, <2>5 DEF IInv
<1>3. CASE acc[i].regc = j.regc
  <2>1. acc[i].valid /\ acc[i].gen = j.gen
    <3>1. regc[j.regc].state # "free" /\ regc[j.regc].slot = i
      BY <1>1, <1>3, StateFacts
    <3> QED
      BY <1>1, <3>1, StateFacts DEF IInv, Addressed
  <2>2. PICK u : /\ Becomes(u) /\ Serves(Now, u, i) /\ Alive(u, i)
                 /\ \/ pc' = [pc EXCEPT ![w] = Idle]
                    \/ pc' = [pc EXCEPT ![w] = [do |-> "mark", slot |-> i]]
    <3> HIDE DEF i
    <3>1. CASE Becomes(Answered(Now, i, j.gen, j.code)) /\ Done(w)
      <4> DEFINE a == Answered(Now, i, acc[i].gen, j.code)
      <4>1. Serves(Now, a, i) /\ Alive(a, i)
        BY <1>1, <2>1, StateFacts, AnsweredFacts
      <4>2. Becomes(a)
        BY <2>1, <3>1
      <4> QED
        BY <3>1, <4>1, <4>2 DEF Done
    <3>2. ASSUME NEW out \in SetRegistration(Inactive(Now, i), i, TRUE),
                 Becomes(out.st), pc' = [pc EXCEPT ![w] = [do |-> "mark", slot |-> i]]
          PROVE  \E u : /\ Becomes(u) /\ Serves(Now, u, i) /\ Alive(u, i)
                        /\ \/ pc' = [pc EXCEPT ![w] = Idle]
                           \/ pc' = [pc EXCEPT ![w] = [do |-> "mark", slot |-> i]]
      <4>1. Serves(Now, Inactive(Now, i), i) /\ ~Inactive(Now, i).acc[i].active
        BY <1>1, StateFacts, InactiveFacts
      <4>2. Serves(Inactive(Now, i), out.st, i) /\ Alive(out.st, i)
        <5>1. Sound(Inactive(Now, i))
          BY <4>1 DEF Serves
        <5> QED
          BY <1>1, <4>1, <5>1, SetRegistrationFacts DEF IInv
      <4>3. Serves(Now, out.st, i)
        BY <1>1, <4>1, <4>2, ServesTransitive
      <4> QED
        BY <3>2, <4>2, <4>3
    <3> QED
      BY <1>3, <3>1, <3>2 DEF RunAnswer, Inactive, i
  <2>3. /\ pc' \in [Workers -> Job]
        /\ \A v \in Workers : v # w => pc'[v] = pc[v]
        /\ pc'[w].do \in {"idle", "mark"}
    <3>1. Idle \in Job /\ [do |-> "mark", slot |-> i] \in Job /\ Idle.do = "idle"
      BY <1>1 DEF Job, Idle
    <3> HIDE DEF i
    <3> QED
      BY <2>2, <3>1, StateFacts
  <2>4. Sound(Now)' /\ Addressed' /\ RetryAlive' /\ ToldStep
    <3>1. \A v \in Workers : pc'[v].do \in {"answer", "refresh"} => pc'[v] = pc[v]
      BY <2>3
    <3>2. \A v \in Workers :
            \/ pc'[v] = pc[v]
            \/ pc[v].do = "retry" /\ pc[v].slot = i
            \/ pc[v].do = "answer" /\ pc[v].regc = acc[i].regc
            \/ pc[v].do \notin {"retry", "answer"}
      BY <1>1, <1>3, <2>3
    <3>3. \A k \in adding : k = i \/ k \in adding'
      BY <1>1
    <3>4. Sound(u) /\ OnlyFor(Now, u, i)
      BY <2>2 DEF Serves
    <3> HIDE DEF i
    <3> QED
      BY <1>1, <2>2, <2>3, <3>1, <3>2, <3>3, <3>4, Locked
  <2>5. TypeOK' /\ AddsOne'
    <3>1. Sound(u)
      BY <2>2 DEF Serves
    <3> QED
      BY <1>1, <2>2, <2>3, <3>1, NowSound DEF IInv, TypeOK, AddsOne
  <2> QED
    BY <2>4, <2>5 DEF IInv
<1> QED
  BY <1>2, <1>3 DEF RunAnswer

(* regc_cb after a NAT rewrite marks the account unlocked. *)
LEMMA RunMarkStep ==
  ASSUME IInv, NEW w \in Workers, RunMark(w)
  PROVE  IInv' /\ ToldStep
<1> DEFINE i == pc[w].slot
<1>1. /\ pc[w].do = "mark" /\ i \in Slots
      /\ acc' = [acc EXCEPT ![i].rewritten = TRUE]
      /\ heap' = heap /\ regc' = regc /\ adding' = adding /\ calls' = calls
      /\ pc' = [pc EXCEPT ![w] = Idle]
  BY StateFacts DEF RunMark, Job, Done
<1> HIDE DEF i
<1>2. /\ acc' \in [Slots -> Account]
      /\ \A k \in Slots : k # i => acc'[k] = acc[k]
      /\ acc'[i].valid = acc[i].valid /\ acc'[i].gen = acc[i].gen
      /\ acc'[i].regc = acc[i].regc /\ acc'[i].codeOf = acc[i].codeOf
      /\ acc'[i].timer = acc[i].timer /\ acc'[i].active = acc[i].active
      /\ acc'[i].settled = acc[i].settled
  <2>1. acc[i] \in Account
    BY <1>1, StateFacts
  <2> DEFINE b == [acc[i] EXCEPT !.rewritten = TRUE]
  <2>2. /\ b \in Account
        /\ b.valid = acc[i].valid /\ b.gen = acc[i].gen /\ b.regc = acc[i].regc
        /\ b.codeOf = acc[i].codeOf /\ b.timer = acc[i].timer
        /\ b.active = acc[i].active /\ b.settled = acc[i].settled
    BY <2>1 DEF Account
  <2>3. acc' = [acc EXCEPT ![i] = b]
    BY <1>1
  <2> HIDE DEF b
  <2>4. i \in Slots /\ acc \in [Slots -> Account]
    BY <1>1, StateFacts
  <2>5. acc' \in [Slots -> Account] /\ acc'[i] = b /\ \A k \in Slots : k # i => acc'[k] = acc[k]
    BY <2>2, <2>3, <2>4
  <2> QED
    BY <2>2, <2>5
<1>3. /\ pc' \in [Workers -> Job]
      /\ \A v \in Workers : pc'[v] = IF v = w THEN Idle ELSE pc[v]
      /\ Idle.do = "idle"
  BY <1>1, StateFacts DEF Job, Idle
<1>4. TypeOK' /\ AddsOne' /\ ToldStep
  <2>1. ToldStep
    BY <1>2 DEF ToldStep
  <2> QED
    BY <1>1, <1>2, <1>3, <2>1 DEF IInv, TypeOK, AddsOne
<1>5. Sound(Now)'
  <2>1. Now' \in State
    BY <1>4 DEF TypeOK, State, Now
  <2>2. /\ Now'.acc = acc' /\ Now'.heap = heap /\ Now'.regc = regc
    BY <1>1 DEF Now
  <2>3. Sound(Now) /\ Now.acc = acc /\ Now.heap = heap /\ Now.regc = regc /\ i \in Slots
    BY <1>1, StateFacts
  <2>4. Owned(Now')
    BY <1>2, <2>1, <2>2, <2>3, OwnedKept
  <2> QED
    BY <2>1, <2>4 DEF Sound
<1>6. Addressed'
  BY <1>1, <1>3 DEF IInv, Addressed
<1>7. RetryAlive'
  <2>1. \A k \in Slots : acc'[k].valid = acc[k].valid /\ acc'[k].active = acc[k].active
                         /\ acc'[k].settled = acc[k].settled /\ acc'[k].regc = acc[k].regc
    BY <1>2
  <2> QED
    BY <1>1, <1>3, <2>1 DEF IInv, RetryAlive, Working, Now
<1> QED
  BY <1>4, <1>5, <1>6, <1>7 DEF IInv

(* The retry timer leaves the heap and the worker goes on for it. *)
LEMMA PopRetryStep ==
  ASSUME IInv, NEW w \in Workers, NEW i \in Slots, PopRetry(w, i)
  PROVE  IInv' /\ ToldStep
<1> DEFINE job == [do |-> "retry", slot |-> i]
<1>1. /\ i \in heap /\ heap' = heap \ {i} /\ pc[w] = Idle
      /\ pc' = [pc EXCEPT ![w] = job]
      /\ acc' = acc /\ regc' = regc /\ adding' = adding /\ calls' = calls
  BY DEF PopRetry, Waits
<1>2. job \in Job /\ job.do = "retry" /\ job.slot = i /\ Idle.do = "idle"
  BY DEF Job, Idle
<1> HIDE DEF job
<1>3. /\ pc' \in [Workers -> Job]
      /\ \A v \in Workers : pc'[v] = IF v = w THEN job ELSE pc[v]
  BY <1>1, <1>2, StateFacts
<1>4. TypeOK' /\ AddsOne' /\ ToldStep
  BY <1>1, <1>3 DEF IInv, TypeOK, AddsOne, ToldStep
<1>5. Sound(Now)'
  <2>1. Now' \in State
    BY <1>4 DEF TypeOK, State, Now
  <2>2. Now'.acc = acc /\ Now'.heap = heap' /\ Now'.regc = regc
    BY <1>1 DEF Now
  <2> QED
    BY <1>1, <2>1, <2>2, StateFacts DEF Sound, Owned
<1>6. Addressed'
  BY <1>1, <1>2, <1>3 DEF IInv, Addressed
<1>7. RetryAlive'
  <2> SUFFICES ASSUME NEW k \in Slots, acc'[k].valid, acc'[k].active,
                      ~acc'[k].settled, k \notin adding'
               PROVE  \/ Working(Now, k)'
                      \/ \E v \in Workers :
                           \/ pc'[v].do = "retry" /\ pc'[v].slot = k
                           \/ pc'[v].do = "answer" /\ pc'[v].regc = acc'[k].regc
    BY DEF RetryAlive
  <2>1. CASE k = i
    BY <1>2, <1>3, <2>1
  <2>2. CASE Working(Now, k) /\ k # i
    BY <1>1, <2>2 DEF Working, Now
  <2>3. ASSUME NEW v \in Workers, \/ pc[v].do = "retry" /\ pc[v].slot = k
                                  \/ pc[v].do = "answer" /\ pc[v].regc = acc[k].regc
        PROVE  \/ pc'[v].do = "retry" /\ pc'[v].slot = k
               \/ pc'[v].do = "answer" /\ pc'[v].regc = acc'[k].regc
    <3>1. v # w
      BY <1>1, <1>2, <2>3
    <3> QED
      BY <1>1, <1>3, <2>3, <3>1
  <2> QED
    BY <1>1, <2>1, <2>2, <2>3 DEF IInv, RetryAlive
<1> QED
  BY <1>4, <1>5, <1>6, <1>7 DEF IInv

(* pjsua_acc_add takes a slot that has no session left. *)
LEMMA AddStep ==
  ASSUME IInv, Add
  PROVE  IInv' /\ ToldStep
<1>1. PICK i \in Slots :
        /\ ~acc[i].valid
        /\ acc' = [acc EXCEPT ![i].valid = TRUE, ![i].gen = calls + 1,
                              ![i].settled = FALSE]
        /\ adding' = {i}
  BY DEF Add
<1>2. /\ adding = {} /\ calls < MaxCalls /\ calls' = calls + 1
      /\ heap' = heap /\ regc' = regc /\ pc' = pc
  BY DEF Add, Call
<1> DEFINE b == [acc[i] EXCEPT !.valid = TRUE, !.gen = calls + 1, !.settled = FALSE]
<1>3. calls + 1 \in Generation /\ calls' \in 0 .. MaxCalls
  BY <1>2, MaxCallsAssumption DEF IInv, TypeOK, Generation
<1>4. /\ b \in Account
      /\ b.regc = acc[i].regc /\ b.codeOf = acc[i].codeOf /\ b.timer = acc[i].timer
  <2>1. acc[i] \in Account
    BY StateFacts
  <2> QED
    BY <1>3, <2>1 DEF Account
<1>5. acc' = [acc EXCEPT ![i] = b]
  BY <1>1, StateFacts
<1> HIDE DEF b
<1>6. /\ acc' \in [Slots -> Account]
      /\ acc'[i] = b
      /\ \A k \in Slots : k # i => acc'[k] = acc[k]
  BY <1>4, <1>5, StateFacts
<1>7. TypeOK' /\ AddsOne'
  BY <1>1, <1>2, <1>3, <1>6 DEF IInv, TypeOK, AddsOne
<1>8. Sound(Now)'
  <2>1. Now' \in State
    BY <1>7 DEF TypeOK, State, Now
  <2>2. Now'.acc = acc' /\ Now'.heap = heap /\ Now'.regc = regc
    BY <1>2 DEF Now
  <2>3. \A r \in Sessions : regc[r].state # "free" =>
          regc[r].slot \in Slots /\ regc[r].slot # i
    BY <1>1, StateFacts DEF Session
  <2>4. Owned(Now')
    BY <1>4, <1>6, <2>2, <2>3, StateFacts DEF Owned
  <2> QED
    BY <2>1, <2>4 DEF Sound
<1>9. Addressed'
  BY <1>2 DEF IInv, Addressed
<1>10. RetryAlive'
  <2>1. ASSUME NEW k \in Slots, k # i
        PROVE  acc'[k] = acc[k] /\ (Working(Now, k)' <=> Working(Now, k))
    BY <1>2, <1>6, <2>1 DEF Working, Now
  <2>2. i \in adding' /\ adding = {}
    BY <1>1, <1>2
  <2>3. ASSUME NEW k \in Slots, acc'[k].valid, acc'[k].active, ~acc'[k].settled,
               k \notin adding'
        PROVE  \/ Working(Now, k)'
               \/ \E w \in Workers :
                    \/ pc'[w].do = "retry" /\ pc'[w].slot = k
                    \/ pc'[w].do = "answer" /\ pc'[w].regc = acc'[k].regc
    <3>1. k # i /\ k \notin adding
      BY <2>2, <2>3
    <3>2. acc'[k] = acc[k] /\ (Working(Now, k)' <=> Working(Now, k))
      BY <2>1, <3>1
    <3>3. \/ Working(Now, k)
          \/ \E w \in Workers :
               \/ pc[w].do = "retry" /\ pc[w].slot = k
               \/ pc[w].do = "answer" /\ pc[w].regc = acc[k].regc
      BY <2>3, <3>1, <3>2 DEF IInv, RetryAlive
    <3> QED
      BY <1>2, <3>2, <3>3
  <2> QED
    BY <2>3 DEF RetryAlive
<1>11. ToldStep
  BY <1>4, <1>6 DEF ToldStep
<1> QED
  BY <1>7, <1>8, <1>9, <1>10, <1>11 DEF IInv

(* A step that changes no account, no timer and no session's owner. *)
SessionsSame ==
  /\ acc' = acc /\ heap' = heap
  /\ \A x \in Sessions : /\ regc'[x].state # "free" <=> regc[x].state # "free"
                         /\ regc'[x].slot = regc[x].slot
                         /\ regc'[x].gen = regc[x].gen

(* Such a step keeps sessions and accounts in agreement. *)
LEMMA SameSound ==
  ASSUME IInv, TypeOK', SessionsSame
  PROVE  Sound(Now)'
<1>1. Now' \in State
  BY DEF TypeOK, State, Now
<1>2. Now'.acc = acc /\ Now'.heap = heap /\ Now'.regc = regc'
  BY DEF SessionsSame, Now
<1>3. Sound(Now) /\ Now.acc = acc /\ Now.heap = heap /\ Now.regc = regc
  BY StateFacts
<1>4. PICK i \in Slots : TRUE
  BY SlotsAssumption
<1>5. Owned(Now')
  BY <1>1, <1>2, <1>3, <1>4, OwnedKept DEF SessionsSame
<1> QED
  BY <1>1, <1>5 DEF Sound

(* A step that takes a job, or works on a session, keeps retries alive if   *)
(* what went on in the session becomes a worker's answer.                   *)
LEMMA RetryKept ==
  ASSUME IInv, acc' = acc, adding' = adding,
         \A k \in Slots :
           Working(Now, k) =>
             \/ Working(Now, k)'
             \/ \E v \in Workers : pc'[v].do = "answer" /\ pc'[v].regc = acc[k].regc,
         \A v \in Workers :
           pc[v].do \in {"retry", "answer"} =>
             /\ pc'[v].do = pc[v].do
             /\ pc[v].do = "retry" => pc'[v].slot = pc[v].slot
             /\ pc[v].do = "answer" => pc'[v].regc = pc[v].regc
  PROVE  RetryAlive'
<1> SUFFICES ASSUME NEW k \in Slots, acc'[k].valid, acc'[k].active,
                    ~acc'[k].settled, k \notin adding'
             PROVE  \/ Working(Now, k)'
                    \/ \E v \in Workers :
                         \/ pc'[v].do = "retry" /\ pc'[v].slot = k
                         \/ pc'[v].do = "answer" /\ pc'[v].regc = acc'[k].regc
  BY DEF RetryAlive
<1>1. \/ Working(Now, k)
      \/ \E v \in Workers :
           \/ pc[v].do = "retry" /\ pc[v].slot = k
           \/ pc[v].do = "answer" /\ pc[v].regc = acc[k].regc
  BY DEF IInv, RetryAlive
<1> QED
  BY <1>1

(* The refresh timer fires. *)
LEMMA PopRefreshStep ==
  ASSUME IInv, NEW w \in Workers, NEW r \in Sessions, PopRefresh(w, r)
  PROVE  IInv' /\ ToldStep
<1> DEFINE job == [do |-> "refresh", regc |-> r]
<1>1. /\ regc' = [regc EXCEPT ![r].armed = FALSE]
      /\ pc[w] = Idle /\ pc' = [pc EXCEPT ![w] = job]
      /\ acc' = acc /\ heap' = heap /\ adding' = adding /\ calls' = calls
  BY DEF PopRefresh, Waits
<1>2. job \in Job /\ job.do = "refresh" /\ Idle.do = "idle"
  BY DEF Job, Idle
<1> HIDE DEF job
<1>3. /\ pc' \in [Workers -> Job]
      /\ \A v \in Workers : pc'[v] = IF v = w THEN job ELSE pc[v]
  BY <1>1, <1>2, StateFacts
<1>4. /\ regc' \in [Sessions -> Session]
      /\ \A x \in Sessions : /\ regc'[x].state = regc[x].state
                             /\ regc'[x].slot = regc[x].slot
                             /\ regc'[x].gen = regc[x].gen
  <2> DEFINE b == [regc[r] EXCEPT !.armed = FALSE]
  <2>1. b \in Session /\ b.state = regc[r].state /\ b.slot = regc[r].slot /\ b.gen = regc[r].gen
    <3>1. regc[r] \in Session
      BY StateFacts
    <3> QED
      BY <3>1 DEF Session
  <2>2. regc' = [regc EXCEPT ![r] = b]
    BY <1>1
  <2> HIDE DEF b
  <2>3. regc' \in [Sessions -> Session] /\ regc'[r] = b
        /\ \A x \in Sessions : x # r => regc'[x] = regc[x]
    BY <2>1, <2>2, StateFacts
  <2> QED
    BY <2>1, <2>3
<1>5. SessionsSame
  BY <1>1, <1>4 DEF SessionsSame
<1>6. TypeOK'
  BY <1>1, <1>3, <1>4 DEF IInv, TypeOK
<1>7. Sound(Now)' /\ ToldStep /\ AddsOne'
  BY <1>1, <1>5, <1>6, SameSound DEF IInv, ToldStep, AddsOne
<1>8. Addressed'
  <2>1. \A v \in Workers : pc'[v].do = "answer" => pc'[v] = pc[v] /\ pc[v].regc \in Sessions
    BY <1>2, <1>3, StateFacts DEF Job
  <2> QED
    BY <1>4, <2>1 DEF IInv, Addressed
<1>9. RetryAlive'
  <2>1. \A k \in Slots : Working(Now, k) => Working(Now, k)'
    BY <1>1, <1>4, StateFacts DEF Working, Now
  <2>2. \A v \in Workers : pc[v].do \in {"retry", "answer"} => pc'[v] = pc[v]
    BY <1>1, <1>2, <1>3
  <2> QED
    BY <1>1, <2>1, <2>2, RetryKept
<1> QED
  BY <1>6, <1>7, <1>8, <1>9 DEF IInv

(* A final response: the session is idle and the worker has the answer. *)
LEMMA TakeAnswerStep ==
  ASSUME IInv, NEW w \in Workers, NEW r \in Sessions, NEW code \in Answers,
         TakeAnswer(w, r, code)
  PROVE  IInv' /\ ToldStep
<1> DEFINE job == [do |-> "answer", regc |-> r, code |-> code,
                   slot |-> regc[r].slot, gen |-> regc[r].gen]
<1>1. /\ regc[r].state \in {"asked", "leaving"}
      /\ regc' = [regc EXCEPT ![r].state = "idle", ![r].armed = (code = "ok")]
      /\ pc[w] = Idle /\ pc' = [pc EXCEPT ![w] = job]
      /\ acc' = acc /\ heap' = heap /\ adding' = adding /\ calls' = calls
  BY DEF TakeAnswer, Waits
<1>2. /\ job \in Job /\ job.do = "answer" /\ job.regc = r
      /\ job.slot = regc[r].slot /\ job.gen = regc[r].gen /\ Idle.do = "idle"
  <2>1. regc[r].slot \in Slots /\ regc[r].gen \in Generation
    BY StateFacts DEF Session
  <2> QED
    BY <2>1 DEF Job, Idle
<1> HIDE DEF job
<1>3. /\ pc' \in [Workers -> Job]
      /\ \A v \in Workers : pc'[v] = IF v = w THEN job ELSE pc[v]
  BY <1>1, <1>2, StateFacts
<1>4. /\ regc' \in [Sessions -> Session]
      /\ regc'[r].state = "idle"
      /\ \A x \in Sessions : /\ x # r => regc'[x] = regc[x]
                             /\ regc'[x].slot = regc[x].slot
                             /\ regc'[x].gen = regc[x].gen
  <2> DEFINE b == [regc[r] EXCEPT !.state = "idle", !.armed = (code = "ok")]
  <2>1. b \in Session /\ b.state = "idle" /\ b.slot = regc[r].slot /\ b.gen = regc[r].gen
    <3>1. regc[r] \in Session
      BY StateFacts
    <3> QED
      BY <3>1 DEF Session
  <2>2. regc' = [regc EXCEPT ![r] = b]
    BY <1>1, StateFacts
  <2> HIDE DEF b
  <2>3. regc' \in [Sessions -> Session] /\ regc'[r] = b
        /\ \A x \in Sessions : x # r => regc'[x] = regc[x]
    BY <2>1, <2>2, StateFacts
  <2> QED
    BY <2>1, <2>3
<1>5. SessionsSame
  BY <1>1, <1>4 DEF SessionsSame
<1>6. TypeOK'
  BY <1>1, <1>3, <1>4 DEF IInv, TypeOK
<1>7. Sound(Now)' /\ ToldStep /\ AddsOne'
  BY <1>1, <1>5, <1>6, SameSound DEF IInv, ToldStep, AddsOne
<1>8. Addressed'
  <2> SUFFICES ASSUME NEW v \in Workers, pc'[v].do = "answer",
                      regc'[pc'[v].regc].state # "free"
               PROVE  /\ regc'[pc'[v].regc].slot = pc'[v].slot
                      /\ regc'[pc'[v].regc].gen = pc'[v].gen
    BY DEF Addressed
  <2>1. CASE v = w
    BY <1>2, <1>3, <1>4, <2>1
  <2>2. CASE v # w
    <3>1. pc'[v] = pc[v] /\ pc[v].regc \in Sessions
      BY <1>3, <2>2, StateFacts DEF Job
    <3>2. regc[pc[v].regc].state # "free"
      BY <1>1, <1>4, <3>1
    <3> QED
      BY <1>4, <3>1, <3>2 DEF IInv, Addressed
  <2> QED
    BY <2>1, <2>2
<1>9. RetryAlive'
  <2>1. ASSUME NEW k \in Slots, Working(Now, k)
        PROVE  \/ Working(Now, k)'
               \/ \E v \in Workers : pc'[v].do = "answer" /\ pc'[v].regc = acc[k].regc
    <3>1. CASE acc[k].regc = r
      BY <1>2, <1>3, <3>1
    <3>2. CASE acc[k].regc # r
      BY <1>1, <1>4, <2>1, <3>2, StateFacts DEF Working, Now
    <3> QED
      BY <3>1, <3>2
  <2>2. \A v \in Workers : pc[v].do \in {"retry", "answer"} => pc'[v] = pc[v]
    BY <1>1, <1>2, <1>3
  <2> QED
    BY <1>1, <2>1, <2>2, RetryKept
<1> QED
  BY <1>6, <1>7, <1>8, <1>9 DEF IInv

(* regc_refresh_timer_cb. *)
LEMMA RunRefreshStep ==
  ASSUME IInv, NEW w \in Workers, RunRefresh(w)
  PROVE  IInv' /\ ToldStep
<1> DEFINE r == pc[w].regc
           told(code) == [do |-> "answer", regc |-> r, code |-> code,
                          slot |-> regc[r].slot, gen |-> regc[r].gen]
<1>1. /\ pc[w].do = "refresh" /\ r \in Sessions
      /\ acc' = acc /\ heap' = heap /\ adding' = adding /\ calls' = calls
  BY StateFacts DEF RunRefresh, Job
<1>2. PICK job \in Job :
        /\ pc' = [pc EXCEPT ![w] = job]
        /\ \/ job.do = "idle"
           \/ /\ job.do = "answer" /\ job.regc = r
              /\ job.slot = regc[r].slot /\ job.gen = regc[r].gen
  <2>1. Idle \in Job /\ Idle.do = "idle"
    BY DEF Idle, Job
  <2>2. ASSUME NEW code \in {"temp", "perm"}
        PROVE  /\ told(code) \in Job /\ told(code).do = "answer"
               /\ told(code).regc = r /\ told(code).slot = regc[r].slot
               /\ told(code).gen = regc[r].gen
    <3>1. regc[r].slot \in Slots /\ regc[r].gen \in Generation
      BY <1>1, StateFacts DEF Session
    <3> HIDE DEF r
    <3> QED
      BY <1>1, <2>2, <3>1 DEF Job, Answers
  <2>3. \/ pc' = [pc EXCEPT ![w] = Idle]
        \/ pc' = [pc EXCEPT ![w] = told("temp")]
        \/ pc' = [pc EXCEPT ![w] = told("perm")]
    BY DEF RunRefresh, Done
  <2> HIDE DEF told, r
  <2> QED
    BY <2>1, <2>2, <2>3
<1>3. PICK state : /\ \/ regc' = regc /\ state = regc[r].state
                      \/ regc' = [regc EXCEPT ![r].state = state]
                   /\ \/ state \in {"asked", "stuck"} /\ regc[r].state = "idle"
                      \/ state = regc[r].state
  BY DEF RunRefresh
<1> HIDE DEF r, told
<1>4. /\ pc' \in [Workers -> Job]
      /\ \A v \in Workers : pc'[v] = IF v = w THEN job ELSE pc[v]
  BY <1>2, StateFacts
<1>5. /\ regc' \in [Sessions -> Session]
      /\ regc'[r].state = state
      /\ \A x \in Sessions : /\ x # r => regc'[x] = regc[x]
                             /\ regc'[x].slot = regc[x].slot
                             /\ regc'[x].gen = regc[x].gen
  <2>1. CASE regc' = regc /\ state = regc[r].state
    BY <1>1, <2>1, StateFacts
  <2>2. CASE regc' = [regc EXCEPT ![r].state = state]
    <3> DEFINE b == [regc[r] EXCEPT !.state = state]
    <3>1. b \in Session /\ b.state = state /\ b.slot = regc[r].slot /\ b.gen = regc[r].gen
      BY <1>1, <1>3, StateFacts DEF Session
    <3>2. regc' = [regc EXCEPT ![r] = b]
      BY <2>2
    <3> HIDE DEF b
    <3>3. regc' \in [Sessions -> Session] /\ regc'[r] = b
          /\ \A x \in Sessions : x # r => regc'[x] = regc[x]
      BY <1>1, <3>1, <3>2, StateFacts
    <3> QED
      BY <3>1, <3>3
  <2> QED
    BY <1>3, <2>1, <2>2
<1>6. SessionsSame
  BY <1>1, <1>3, <1>5 DEF SessionsSame
<1>7. TypeOK'
  BY <1>1, <1>4, <1>5 DEF IInv, TypeOK
<1>8. Sound(Now)' /\ ToldStep /\ AddsOne'
  BY <1>1, <1>6, <1>7, SameSound DEF IInv, ToldStep, AddsOne
<1>9. Addressed'
  <2> SUFFICES ASSUME NEW v \in Workers, pc'[v].do = "answer",
                      regc'[pc'[v].regc].state # "free"
               PROVE  /\ regc'[pc'[v].regc].slot = pc'[v].slot
                      /\ regc'[pc'[v].regc].gen = pc'[v].gen
    BY DEF Addressed
  <2>1. CASE v = w
    BY <1>1, <1>2, <1>4, <1>5, <2>1
  <2>2. CASE v # w
    <3>1. pc'[v] = pc[v] /\ pc[v].regc \in Sessions
      BY <1>4, <2>2, StateFacts DEF Job
    <3>2. regc[pc[v].regc].state # "free"
      BY <1>6, <3>1 DEF SessionsSame
    <3> QED
      BY <1>5, <3>1, <3>2 DEF IInv, Addressed
  <2> QED
    BY <2>1, <2>2
<1>10. RetryAlive'
  <2>1. ASSUME NEW k \in Slots, Working(Now, k)
        PROVE  Working(Now, k)'
    <3>1. regc[r].state \in {"asked", "leaving"} => state = regc[r].state
      BY <1>3
    <3> QED
      BY <1>1, <1>5, <2>1, <3>1, StateFacts DEF Working, Now
  <2>2. \A v \in Workers : pc[v].do \in {"retry", "answer"} => pc'[v] = pc[v]
    BY <1>1, <1>4
  <2> QED
    BY <1>1, <2>1, <2>2, RetryKept
<1> QED
  BY <1>7, <1>8, <1>9, <1>10 DEF IInv

(* pjsua_acc_on_tp_state_changed: every account that lost its transport     *)
(* retries.                                                                 *)
LEMMA DisconnectedStep ==
  ASSUME IInv, NEW lost, lost \subseteq {i \in Slots : acc[i].valid /\ acc[i].regc # NoSession},
         Disconnected(lost)
  PROVE  IInv' /\ ToldStep
<1>1. /\ acc' = [i \in Slots |-> IF i \in lost THEN ScheduleRetry(Now, i).acc[i] ELSE acc[i]]
      /\ heap' = heap \cup lost
      /\ regc' = regc /\ pc' = pc /\ adding' = adding /\ calls' = calls
  BY DEF Disconnected
<1>2. ASSUME NEW i \in lost
      PROVE  /\ acc'[i] \in Account
             /\ acc'[i].valid = acc[i].valid
             /\ acc'[i].gen = acc[i].gen
             /\ acc'[i].regc = acc[i].regc
             /\ acc'[i].timer
             /\ acc'[i].codeOf # acc[i].codeOf => acc[i].valid /\ acc'[i].codeOf = acc[i].gen
  <2> DEFINE s == ScheduleRetry(Now, i)
  <2>1. i \in Slots /\ acc[i].valid
    BY <1>2
  <2>2. /\ Serves(Now, s, i) /\ i \in s.heap /\ s.acc[i].regc = acc[i].regc
    BY <2>1, StateFacts, ScheduleFacts
  <2>3. acc'[i] = s.acc[i]
    BY <1>1, <1>2, <2>1
  <2> HIDE DEF s
  <2> QED
    BY <2>1, <2>2, <2>3, StateFacts DEF Serves, Sound, Owned, OnlyFor, State
<1>3. \A i \in Slots : i \notin lost => acc'[i] = acc[i]
  BY <1>1
<1>4. acc' \in [Slots -> Account]
  <2>1. ASSUME NEW i \in Slots
        PROVE  (IF i \in lost THEN ScheduleRetry(Now, i).acc[i] ELSE acc[i]) \in Account
    <3>1. CASE i \in lost
      <4>1. acc'[i] = ScheduleRetry(Now, i).acc[i]
        BY <1>1, <3>1
      <4> QED
        BY <1>2, <3>1, <4>1
    <3>2. CASE i \notin lost
      BY <3>2, StateFacts
    <3> QED
      BY <3>1, <3>2
  <2> QED
    BY <1>1, <2>1
<1>5. TypeOK' /\ AddsOne'
  BY <1>1, <1>4 DEF IInv, TypeOK, AddsOne
<1>6. \A i \in Slots : /\ acc'[i].valid = acc[i].valid
                       /\ acc'[i].gen = acc[i].gen
                       /\ acc'[i].regc = acc[i].regc
  BY <1>2, <1>3
<1>7. Sound(Now)'
  <2>1. Now' \in State
    BY <1>5 DEF TypeOK, State, Now
  <2>2. Now'.acc = acc' /\ Now'.heap = heap' /\ Now'.regc = regc
    BY <1>1 DEF Now
  <2>3. \A i \in heap' : acc'[i].timer
    BY <1>1, <1>2, <1>3, StateFacts
  <2>4. \A r \in Sessions : regc[r].slot \in Slots
    BY StateFacts DEF Session
  <2>5. Owned(Now')
    BY <1>6, <2>2, <2>3, <2>4, StateFacts DEF Owned
  <2> QED
    BY <2>1, <2>5 DEF Sound
<1>8. Addressed'
  BY <1>1 DEF IInv, Addressed
<1>9. RetryAlive'
  <2> SUFFICES ASSUME NEW k \in Slots, acc'[k].valid, acc'[k].active,
                      ~acc'[k].settled, k \notin adding'
               PROVE  \/ Working(Now, k)'
                      \/ \E v \in Workers :
                           \/ pc'[v].do = "retry" /\ pc'[v].slot = k
                           \/ pc'[v].do = "answer" /\ pc'[v].regc = acc'[k].regc
    BY DEF RetryAlive
  <2>1. CASE k \in lost
    BY <1>1, <2>1 DEF Working, Now
  <2>2. CASE k \notin lost
    <3>1. acc'[k] = acc[k] /\ (Working(Now, k) => Working(Now, k)')
      BY <1>1, <1>3, <2>2 DEF Working, Now
    <3>2. \/ Working(Now, k)
          \/ \E v \in Workers :
               \/ pc[v].do = "retry" /\ pc[v].slot = k
               \/ pc[v].do = "answer" /\ pc[v].regc = acc[k].regc
      BY <1>1, <3>1 DEF IInv, RetryAlive
    <3> QED
      BY <1>1, <3>1, <3>2
  <2> QED
    BY <2>1, <2>2
<1>10. ToldStep
  BY <1>2, <1>3 DEF ToldStep
<1> QED
  BY <1>5, <1>7, <1>8, <1>9, <1>10 DEF IInv

(* No account, no session, no timer. *)
LEMMA InitIInv == Init => IInv
<1> SUFFICES ASSUME Init
             PROVE  IInv
  OBVIOUS
<1>1. 0 \in Generation /\ Unused \in Session /\ Unused.state = "free"
  BY MaxCallsAssumption, UnusedType DEF Generation, Unused
<1>2. \A i \in Slots : acc[i].regc = NoSession /\ ~acc[i].valid
  BY DEF Init
<1>3. \A r \in Sessions : regc[r].state = "free"
  BY <1>1 DEF Init
<1>4. acc \in [Slots -> Account]
  BY <1>1 DEF Init, Account
<1>5. pc \in [Workers -> Job] /\ \A w \in Workers : pc[w].do = "idle"
  BY DEF Init, Idle, Job
<1>6. TypeOK
  <2>1. calls \in 0 .. MaxCalls
    BY MaxCallsAssumption DEF Init
  <2>2. regc \in [Sessions -> Session]
    BY <1>1 DEF Init
  <2>3. heap \subseteq Slots /\ adding \subseteq Slots
    BY DEF Init
  <2> QED
    BY <1>4, <1>5, <2>1, <2>2, <2>3 DEF TypeOK
<1>7. Sound(Now)
  BY <1>2, <1>3, <1>6 DEF Init, TypeOK, Sound, State, Owned, Now
<1>8. Addressed /\ AddsOne /\ RetryAlive
  BY <1>2, <1>5 DEF Init, Addressed, AddsOne, RetryAlive
<1> QED
  BY <1>6, <1>7, <1>8 DEF IInv

(* Every step keeps the invariant, and tells of own answers only. *)
LEMMA Step == ASSUME IInv, [Next]_vars PROVE IInv' /\ (ToldStep \/ UNCHANGED vars)
<1>1. ASSUME NEW w \in Workers, Worker(w)
      PROVE  IInv' /\ ToldStep
  BY <1>1, PopRefreshStep, TakeAnswerStep, PopRetryStep, RunAnswerStep, RunMarkStep,
     RunRetryStep, RunRefreshStep DEF Worker
<1>2. ASSUME NEW lost \in SUBSET {i \in Slots : acc[i].valid /\ acc[i].regc # NoSession},
             Disconnected(lost)
      PROVE  IInv' /\ ToldStep
  BY <1>2, DisconnectedStep
<1>3. CASE Add
  BY <1>3, AddStep
<1>4. CASE FinishAdd
  BY <1>4, FinishAddStep
<1>5. ASSUME NEW i \in Slots, Delete(i)
      PROVE  IInv' /\ ToldStep
  BY <1>5, DeleteStep
<1>6. ASSUME NEW i \in Slots, NEW renew \in BOOLEAN, SetReg(i, renew)
      PROVE  IInv' /\ ToldStep
  BY <1>6, SetRegStep
<1>7. CASE UNCHANGED vars
  <2>1. /\ acc' = acc /\ heap' = heap /\ regc' = regc /\ pc' = pc
        /\ adding' = adding /\ calls' = calls
    BY <1>7 DEF vars
  <2> QED
    BY <1>7, <2>1 DEF IInv, TypeOK, Sound, State, Owned, Addressed, AddsOne, RetryAlive,
                      Working, Now
<1> QED
  BY <1>1, <1>2, <1>3, <1>4, <1>5, <1>6, <1>7 DEF Next

(* The inductive invariant holds in every state, for any slots, workers and *)
(* number of calls.                                                         *)
THEOREM Invariance == Spec => []IInv
<1>1. IInv /\ [Next]_vars => IInv'
  BY Step
<1> QED
  BY InitIInv, <1>1, PTL DEF Spec

(* Every variable keeps its type; in particular an account never lacks a    *)
(* free session structure.                                                  *)
THEOREM TypeCorrect == Spec => []TypeOK
<1>1. IInv => TypeOK
  BY DEF IInv
<1> QED
  BY Invariance, <1>1, PTL

(* No session outlives its account, whatever the order of additions,        *)
(* deletions, registrations, answers, timers and lost transports; and each  *)
(* slot knows of the retry timer it has in the heap, which need not be its  *)
(* account's: pjsua_acc_del can leave one behind (RetryOfAccount).          *)
THEOREM NoneIsOrphaned == Spec => []NoOrphan
<1>1. IInv => NoOrphan
  BY DEF IInv, Sound, Owned, Now, NoOrphan
<1> QED
  BY Invariance, <1>1, PTL

(* While an account retries, its timer, a worker, a request or an answer is *)
(* left that will go on, or the application knows: auto_rereg.active is     *)
(* never left set with nothing behind it.                                   *)
THEOREM RetryGoesOn == Spec => []RetryAlive
<1>1. IInv => RetryAlive
  BY DEF IInv
<1> QED
  BY Invariance, <1>1, PTL

(* What regc_cb stores for an account is an answer to that very account's   *)
(* own request, though slots and session addresses are used again while     *)
(* answers wait for the lock.                                               *)
THEOREM AnswersAreOwn == Spec => ToldOfOwn
<1>1. IInv /\ [Next]_vars =>
        [\A i \in Slots : acc'[i].codeOf # acc[i].codeOf =>
           acc[i].valid /\ acc'[i].codeOf = acc[i].gen]_vars
  BY Step DEF ToldStep
<1> QED
  BY Invariance, <1>1, PTL DEF Spec, ToldOfOwn
==============================================================================
