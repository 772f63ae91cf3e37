------------------------- MODULE TisipDispatch_proofs -------------------------
(***************************************************************************)
(* Theorems about TisipDispatch for any number of threads, call ids, calls *)
(* and jobs.                                                               *)
(*                                                                         *)
(* The functions of TisipDispatch are sequences of steps, put together     *)
(* from the sequences of the functions they call; the proofs are put       *)
(* together the same way.  An outline says, between any two steps of a     *)
(* sequence, which locks its thread holds and what it may rely on; every   *)
(* operator of the module that makes a sequence has a lemma about its      *)
(* outline.                                                                *)
(***************************************************************************)
EXTENDS TisipDispatch, SequenceTheorems, TLAPS

Steps ==
  ({"take", "give"} \X Locks) \cup ({"set"} \X Dialogs \X InvStates)
  \cup ({"report"} \X Slots \X Dialogs \X InvStates) \cup ({"free"} \X Slots)
  \cup ({"alloc"} \X {"calling", "incoming"})
  \cup ({"acquire"} \X Slots \X {"hangup", "180", "200"})
  \cup ({"event"} \X Slots \X Dialogs)

(* What a thread relies on about a call: its slot, its state, and whether   *)
(* the event of that state is still to be fired.  Of a call whose event     *)
(* waits for the lock it knows less ("any").                                *)
Facts == [id : Slots, call : Dialogs, st : InvStates \cup {"any"},
          owes : {"event", "nothing"}]
Fact(id, d, st, owes) == [id |-> id, call |-> d, st |-> st, owes |-> owes]

Depths == [Locks -> Nat]
Up(f, l) == [f EXCEPT ![l] = @ + 1]

(* An assertion between two steps: the locks held and the facts. *)
Assertions == [depth : Depths, know : SUBSET Facts]
At(f, know) == [depth |-> f, know |-> know]
Rest == At([l \in Locks |-> 0], {})

(* No fact is about a call that was allocated and has no state yet. *)
NoneNew(know) == \A k \in know : k.st # "new"

(* What each step needs before it, and leaves after it. *)
TakeRule(a, x, b) ==
  \E l \in Locks :
    x = <<"take", l>> /\ b.depth = Up(a.depth, l) /\ b.know = a.know
GiveRule(a, x, b) ==
  \E l \in Locks :
    /\ x = <<"give", l>> /\ a.depth = Up(b.depth, l)
    /\ b.know \subseteq a.know
    /\ l \in Dialogs => b.know = {}
    /\ l = "pjsua" => NoneNew(b.know)
SetRule(a, x, b) ==
  \E k \in a.know, st \in InvStates \ {"new"} :
    /\ x = <<"set", k.call, st>>
    /\ k.st \in InvStates \ {"disconnected"} /\ Rank(k.st) <= Rank(st)
    /\ a.depth[k.call] > 0
    /\ b.depth = a.depth /\ b.know = {Fact(k.id, k.call, st, "event")}
ReportRule(a, x, b) ==
  \E k \in a.know :
    /\ x = <<"report", k.id, k.call, k.st>>
    /\ k.st \in InvStates \ {"new"} /\ k.owes = "event"
    /\ b.depth = a.depth /\ b.know = {Fact(k.id, k.call, k.st, "nothing")}
FreeRule(a, x, b) ==
  \E k \in a.know :
    x = <<"free", k.id>> /\ k.st = "disconnected" /\ b.depth = a.depth /\ b.know = {}
AllocRule(a, x, b) ==
  \E kind \in {"calling", "incoming"} :
    x = <<"alloc", kind>> /\ a.depth = Up(b.depth, "pjsua") /\ b.know = {}
AcquireRule(a, x, b) ==
  \E id \in Slots, what \in {"hangup", "180", "200"} :
    x = <<"acquire", id, what>> /\ b.depth = a.depth /\ b.know = {}
EventRule(a, x, b) ==
  \E k \in a.know :
    x = <<"event", k.id, k.call>> /\ k.st = "any" /\ b.depth = a.depth /\ b.know = {}

Rule(a, x, b) ==
  \/ TakeRule(a, x, b) \/ GiveRule(a, x, b) \/ SetRule(a, x, b) \/ ReportRule(a, x, b)
  \/ FreeRule(a, x, b) \/ AllocRule(a, x, b) \/ AcquireRule(a, x, b) \/ EventRule(a, x, b)

(* The steps s lead from the assertion a to the assertion b. *)
Outlines(s, a, b) ==
  {tr \in [0 .. Len(s) -> Assertions] :
     /\ tr[0] = a /\ tr[Len(s)] = b
     /\ \A i \in 1 .. Len(s) : Rule(tr[i - 1], s[i], tr[i])}
Outline(s, a, b) == s \in Seq(Steps) /\ Outlines(s, a, b) # {}

-----------------------------------------------------------------------------
(* Outlines of sequences. *)

(* A function that does nothing. *)
LEMMA OutlineEmpty ==
  ASSUME NEW a \in Assertions
  PROVE  Outline(<<>>, a, a)
<1> DEFINE tr == [i \in 0 .. 0 |-> a]
<1>1. <<>> \in Seq(Steps) /\ Len(<<>>) = 0
  BY EmptySeq
<1>2. tr \in [0 .. Len(<<>>) -> Assertions] /\ tr[0] = a /\ tr[Len(<<>>)] = a
  BY <1>1
<1>3. \A i \in 1 .. Len(<<>>) : Rule(tr[i - 1], <<>>[i], tr[i])
  BY <1>1
<1> QED
  BY <1>1, <1>2, <1>3 DEF Outline, Outlines

(* A function of one step. *)
LEMMA OutlineStep ==
  ASSUME NEW a \in Assertions, NEW b \in Assertions, NEW x \in Steps, Rule(a, x, b)
  PROVE  Outline(<<x>>, a, b)
<1> DEFINE tr == [i \in 0 .. 1 |-> IF i = 0 THEN a ELSE b]
<1>1. <<x>> \in Seq(Steps) /\ Len(<<x>>) = 1 /\ <<x>>[1] = x
  OBVIOUS
<1>2. tr \in [0 .. Len(<<x>>) -> Assertions] /\ tr[0] = a /\ tr[Len(<<x>>)] = b
  BY <1>1
<1>3. \A i \in 1 .. Len(<<x>>) : Rule(tr[i - 1], <<x>>[i], tr[i])
  <2>1. ASSUME NEW i \in 1 .. Len(<<x>>) PROVE i = 1
    BY <1>1
  <2>2. Rule(tr[1 - 1], <<x>>[1], tr[1])
    <3>1. tr[1 - 1] = a /\ tr[1] = b
      OBVIOUS
    <3> QED BY <3>1, <1>1
  <2> QED BY <2>1, <2>2
<1> QED
  BY <1>1, <1>2, <1>3 DEF Outline, Outlines

(* One function after another. *)
LEMMA OutlineConcat ==
  ASSUME NEW a, NEW b, NEW c, NEW s, NEW u, Outline(s, a, b), Outline(u, b, c)
  PROVE  Outline(s \o u, a, c)
<1>1. PICK f \in [0 .. Len(s) -> Assertions] :
        /\ f[0] = a /\ f[Len(s)] = b
        /\ \A i \in 1 .. Len(s) : Rule(f[i - 1], s[i], f[i])
  BY DEF Outline, Outlines
<1>2. PICK g \in [0 .. Len(u) -> Assertions] :
        /\ g[0] = b /\ g[Len(u)] = c
        /\ \A i \in 1 .. Len(u) : Rule(g[i - 1], u[i], g[i])
  BY DEF Outline, Outlines
<1> DEFINE m == Len(s)
           n == Len(u)
           tr == [i \in 0 .. m + n |-> IF i <= m THEN f[i] ELSE g[i - m]]
<1>3. /\ m \in Nat /\ n \in Nat
      /\ s \o u \in Seq(Steps) /\ Len(s \o u) = m + n
      /\ \A i \in 1 .. m + n : (s \o u)[i] = IF i <= m THEN s[i] ELSE u[i - m]
  BY ConcatProperties, LenProperties DEF Outline
<1> HIDE DEF m, n
<1>4. tr \in [0 .. m + n -> Assertions]
  BY <1>1, <1>2, <1>3 DEF m, n
<1>5. tr[0] = a /\ tr[m + n] = c
  <2>1. tr[0] = f[0]
    BY <1>3
  <2>2. CASE n = 0
    BY <2>2, <1>1, <1>2, <1>3 DEF m, n
  <2>3. CASE n # 0
    <3>1. tr[m + n] = g[n]
      BY <2>3, <1>3
    <3> QED BY <3>1, <2>1, <1>1, <1>2 DEF n
  <2> QED
    BY <1>1, <2>1, <2>2, <2>3
<1>6. ASSUME NEW i \in 1 .. m + n PROVE Rule(tr[i - 1], (s \o u)[i], tr[i])
  <2>1. CASE i <= m
    <3>1. tr[i - 1] = f[i - 1] /\ tr[i] = f[i] /\ (s \o u)[i] = s[i] /\ i \in 1 .. m
      BY <2>1, <1>3
    <3> QED BY <3>1, <1>1 DEF m
  <2>2. CASE i > m
    <3>1. i - m \in 1 .. n /\ (s \o u)[i] = u[i - m] /\ tr[i] = g[i - m]
      BY <2>2, <1>3
    <3>2. tr[i - 1] = g[(i - m) - 1]
      <4>1. CASE i - 1 = m
        BY <4>1, <1>1, <1>2, <1>3 DEF m
      <4>2. CASE i - 1 > m
        <5>1. tr[i - 1] = g[(i - 1) - m]
          BY <4>2, <1>3
        <5>2. (i - 1) - m = (i - m) - 1
          BY <1>3
        <5> QED BY <5>1, <5>2
      <4> QED BY <2>2, <4>1, <4>2, <1>3
    <3> QED BY <3>1, <3>2, <1>2 DEF n
  <2> QED BY <2>1, <2>2, <1>3
<1>7. tr \in Outlines(s \o u, a, c)
  BY <1>3, <1>4, <1>5, <1>6 DEF Outlines
<1> QED
  BY <1>3, <1>7 DEF Outline

(* The first step done, the outline goes on from what it leaves. *)
LEMMA OutlineNext ==
  ASSUME NEW a, NEW c, NEW s, Outline(s, a, c), s # <<>>
  PROVE  \E b \in Assertions : Rule(a, Head(s), b) /\ Outline(Tail(s), b, c)
<1>1. PICK f \in [0 .. Len(s) -> Assertions] :
        /\ f[0] = a /\ f[Len(s)] = c
        /\ \A i \in 1 .. Len(s) : Rule(f[i - 1], s[i], f[i])
  BY DEF Outline, Outlines
<1> DEFINE u == Tail(s)
           n == Len(u)
           tr == [i \in 0 .. n |-> f[i + 1]]
<1>2. /\ s \in Seq(Steps) /\ u \in Seq(Steps)
      /\ Len(s) \in Nat /\ Len(s) # 0 /\ n = Len(s) - 1
      /\ \A i \in 1 .. n : u[i] = s[i + 1]
  BY HeadTailProperties, EmptySeq, LenProperties DEF Outline
<1>3. Head(s) = s[1]
  BY <1>2
<1> HIDE DEF u, n
<1>4. n \in Nat /\ Len(s) = n + 1
  BY <1>2
<1>5. tr \in [0 .. n -> Assertions]
  BY <1>1, <1>4
<1>6. tr[0] = f[1] /\ tr[n] = c /\ f[1] \in Assertions /\ Rule(a, s[1], f[1])
  <2>1. tr[0] = f[0 + 1] /\ tr[n] = f[n + 1] /\ f[1] \in Assertions
    BY <1>1, <1>4
  <2>2. Rule(f[1 - 1], s[1], f[1])
    BY <1>1, <1>4
  <2> QED BY <1>1, <1>4, <2>1, <2>2
<1>7. ASSUME NEW i \in 1 .. n PROVE Rule(tr[i - 1], u[i], tr[i])
  <2>1. Rule(f[(i + 1) - 1], s[i + 1], f[i + 1])
    BY <1>1, <1>4
  <2>2. tr[i - 1] = f[(i + 1) - 1] /\ tr[i] = f[i + 1]
    <3>1. (i - 1) + 1 = (i + 1) - 1 /\ i - 1 \in 0 .. n
      BY <1>4
    <3> QED BY <3>1, <1>4
  <2> QED BY <2>1, <2>2, <1>2
<1>8. tr \in Outlines(u, f[1], c)
  BY <1>5, <1>6, <1>7 DEF Outlines, n
<1> QED
  BY <1>2, <1>3, <1>6, <1>8 DEF Outline, u

(* The end of a job. *)
LEMMA OutlineEnd ==
  ASSUME NEW a, NEW c, Outline(<<>>, a, c)
  PROVE  a = c
BY EmptySeq DEF Outline, Outlines

-----------------------------------------------------------------------------
(* Outlines of the functions of the module. *)

LEMMA AtFacts ==
  ASSUME NEW f \in Depths, NEW know \in SUBSET Facts
  PROVE  At(f, know) \in Assertions /\ At(f, know).depth = f /\ At(f, know).know = know
BY DEF At, Assertions

LEMMA UpFacts ==
  ASSUME NEW f \in Depths, NEW l \in Locks
  PROVE  /\ Up(f, l) \in Depths
         /\ Up(f, l)[l] = f[l] + 1
         /\ \A k \in Locks : k # l => Up(f, l)[k] = f[k]
BY DEF Up, Depths

LEMMA FactFacts ==
  ASSUME NEW id \in Slots, NEW d \in Dialogs, NEW st \in InvStates \cup {"any"},
         NEW owes \in {"event", "nothing"}
  PROVE  /\ Fact(id, d, st, owes) \in Facts
         /\ Fact(id, d, st, owes).id = id /\ Fact(id, d, st, owes).call = d
         /\ Fact(id, d, st, owes).st = st /\ Fact(id, d, st, owes).owes = owes
BY DEF Fact, Facts

(* PJSUA_LOCK(), PJSUA_UNLOCK() and the like *)
LEMMA TakeOutline ==
  ASSUME NEW f \in Depths, NEW know \in SUBSET Facts, NEW l \in Locks
  PROVE  Outline(Take(l), At(f, know), At(Up(f, l), know))
<1> DEFINE a == At(f, know)
           b == At(Up(f, l), know)
<1>1. a \in Assertions /\ b \in Assertions /\ b.depth = Up(a.depth, l) /\ b.know = a.know
  BY AtFacts, UpFacts
<1>2. <<"take", l>> \in Steps
  BY DEF Steps
<1> HIDE DEF a, b
<1>3. Rule(a, <<"take", l>>, b)
  BY <1>1 DEF Rule, TakeRule
<1> QED
  BY <1>1, <1>2, <1>3, OutlineStep DEF Take, a, b

LEMMA GiveOutline ==
  ASSUME NEW f \in Depths, NEW l \in Locks,
         NEW know \in SUBSET Facts, NEW left \in SUBSET know,
         l \in Dialogs => left = {},
         l = "pjsua" => NoneNew(left)
  PROVE  Outline(Give(l), At(Up(f, l), know), At(f, left))
<1> DEFINE a == At(Up(f, l), know)
           b == At(f, left)
<1>1. /\ a \in Assertions /\ b \in Assertions
      /\ a.depth = Up(b.depth, l) /\ b.know = left /\ a.know = know
  BY AtFacts, UpFacts
<1>2. <<"give", l>> \in Steps
  BY DEF Steps
<1> HIDE DEF a, b
<1>3. Rule(a, <<"give", l>>, b)
  BY <1>1 DEF Rule, GiveRule
<1> QED
  BY <1>1, <1>2, <1>3, OutlineStep DEF Give, a, b

(* What is done under PJSUA_LOCK. *)
LEMMA PjsuaOutline ==
  ASSUME NEW f \in Depths, NEW know \in SUBSET Facts, NEW left \in SUBSET Facts,
         NEW body,
         Outline(body, At(Up(f, "pjsua"), know), At(Up(f, "pjsua"), left)),
         NoneNew(left)
  PROVE  Outline(Pjsua(body), At(f, know), At(f, left))
<1>1. "pjsua" \in Locks /\ "pjsua" \notin Dialogs
  BY NamesAssumption DEF Locks
<1>2. Outline(Take("pjsua"), At(f, know), At(Up(f, "pjsua"), know))
  BY <1>1, TakeOutline
<1>3. Outline(Give("pjsua"), At(Up(f, "pjsua"), left), At(f, left))
  BY <1>1, GiveOutline
<1> QED
  BY <1>2, <1>3, OutlineConcat DEF Pjsua

(* What is done on the queue. *)
LEMMA DispatchOutline ==
  ASSUME NEW f \in Depths, NEW know \in SUBSET Facts, NEW left \in SUBSET Facts,
         NEW block,
         Outline(block, At(Up(f, "queue"), know), At(Up(f, "queue"), left))
  PROVE  Outline(Dispatch(block), At(f, know), At(f, left))
<1>1. "queue" \in Locks /\ "queue" \notin Dialogs /\ "queue" # "pjsua"
  BY NamesAssumption DEF Locks
<1>2. Outline(Take("queue"), At(f, know), At(Up(f, "queue"), know))
  BY <1>1, TakeOutline
<1>3. Outline(Give("queue"), At(Up(f, "queue"), left), At(f, left))
  BY <1>1, GiveOutline
<1> QED
  BY <1>2, <1>3, OutlineConcat DEF Dispatch

(* A lock taken and given back. *)
LEMMA LockOutline ==
  ASSUME NEW f \in Depths, NEW know \in SUBSET Facts, NoneNew(know)
  PROVE  Outline(Pjsua(<<>>), At(f, know), At(f, know))
<1>1. "pjsua" \in Locks
  BY DEF Locks
<1>2. At(Up(f, "pjsua"), know) \in Assertions
  BY <1>1, UpFacts, AtFacts
<1> QED
  BY <1>2, OutlineEmpty, PjsuaOutline

(* The observer of a callback asks for some information. *)
LEMMA ObserverOutline ==
  ASSUME NEW f \in Depths, NEW know \in SUBSET Facts, NoneNew(know)
  PROVE  Outline(Dispatch(GetInfo(<<>>)), At(f, know), At(f, know))
<1>1. "queue" \in Locks
  BY DEF Locks
<1>2. Outline(GetInfo(<<>>), At(Up(f, "queue"), know), At(Up(f, "queue"), know))
  BY <1>1, UpFacts, LockOutline DEF GetInfo
<1> QED
  BY <1>2, DispatchOutline

(* callStateDidChange fires the event that is owed. *)
LEMMA CallStateOutline ==
  ASSUME NEW f \in Depths, NEW id \in Slots, NEW d \in Dialogs, NEW st \in InvStates \ {"new"}
  PROVE  Outline(CallStateDidChange(id, d, st),
                 At(f, {Fact(id, d, st, "event")}), At(f, {Fact(id, d, st, "nothing")}))
<1> DEFINE g == Up(f, "pjsua")
           k == Fact(id, d, st, "event")
           n == Fact(id, d, st, "nothing")
           x == <<"report", id, d, st>>
<1>1. g \in Depths
  BY UpFacts DEF Locks
<1>2. /\ k \in Facts /\ k.id = id /\ k.call = d /\ k.st = st /\ k.owes = "event"
      /\ n \in Facts /\ n.st = st
  BY FactFacts
<1>3. x \in Steps
  BY DEF Steps
<1>4. Outline(<<x>>, At(g, {k}), At(g, {n}))
  <2> DEFINE a == At(g, {k})
             b == At(g, {n})
  <2>1. /\ a \in Assertions /\ b \in Assertions /\ a.know = {k}
        /\ b.depth = a.depth /\ b.know = {n}
    BY <1>1, <1>2, AtFacts
  <2> HIDE DEF a, b
  <2>2. n = Fact(k.id, k.call, k.st, "nothing") /\ x = <<"report", k.id, k.call, k.st>>
    BY <1>2
  <2> HIDE DEF n, k, x
  <2>3. ReportRule(a, x, b)
    BY <2>1, <2>2, <1>2 DEF ReportRule
  <2>4. Rule(a, x, b)
    BY <2>3 DEF Rule
  <2> QED
    BY <2>1, <2>4, <1>3, OutlineStep DEF a, b
<1>5. NoneNew({n})
  BY <1>2 DEF NoneNew
<1>6. Outline(Pjsua(<<x>>), At(f, {k}), At(f, {n}))
  <2> HIDE DEF k, n, x
  <2> QED BY <1>2, <1>4, <1>5, PjsuaOutline DEF g
<1> QED
  BY <1>6 DEF CallStateDidChange, GetInfo

(* dispatchCallMediaState changes nothing that is known. *)
LEMMA MediaOutline ==
  ASSUME NEW f \in Depths, NEW know \in SUBSET Facts, NoneNew(know), NEW id
  PROVE  Outline(OnCallMediaState(id), At(f, know), At(f, know))
<1> DEFINE g == Up(f, "queue")
<1>1. g \in Depths
  BY UpFacts DEF Locks
<1>2. Outline(Pjsua(<<>>), At(g, know), At(g, know))
  BY <1>1, LockOutline
<1>3. Outline(Pjsua(<<>>) \o Pjsua(<<>>), At(g, know), At(g, know))
  BY <1>2, OutlineConcat
<1>4. Outline(Pjsua(<<>>) \o Pjsua(<<>>) \o Pjsua(<<>>), At(g, know), At(g, know))
  BY <1>2, <1>3, OutlineConcat
<1> QED
  BY <1>4, DispatchOutline DEF OnCallMediaState, GetInfo

(* A disconnected call gives its slot back, and nothing is known after. *)
LEMMA FreeOutline ==
  ASSUME NEW f \in Depths, NEW id \in Slots, NEW d \in Dialogs
  PROVE  Outline(FreeCall(id), At(f, {Fact(id, d, "disconnected", "nothing")}), At(f, {}))
<1> DEFINE g == Up(f, "pjsua")
           k == Fact(id, d, "disconnected", "nothing")
           x == <<"free", id>>
<1>1. g \in Depths
  BY UpFacts DEF Locks
<1>2. k \in Facts /\ k.id = id /\ k.st = "disconnected"
  BY FactFacts DEF InvStates
<1>3. x \in Steps
  BY DEF Steps
<1>4. Outline(<<x>>, At(g, {k}), At(g, {}))
  <2> DEFINE a == At(g, {k})
             b == At(g, {})
  <2>1. /\ a \in Assertions /\ b \in Assertions /\ a.know = {k}
        /\ b.depth = a.depth /\ b.know = {}
    BY <1>1, <1>2, AtFacts
  <2> HIDE DEF a, b, k
  <2>2. Rule(a, x, b)
    BY <2>1, <1>2 DEF Rule, FreeRule
  <2> QED
    BY <2>1, <2>2, <1>3, OutlineStep DEF a, b
<1>5. NoneNew({})
  BY DEF NoneNew
<1> HIDE DEF k, x
<1>6. Outline(Pjsua(<<x>>), At(f, {k}), At(f, {}))
  BY <1>2, <1>4, <1>5, PjsuaOutline DEF g
<1> QED
  BY <1>6 DEF FreeCall, k, x

(* What is known after inv_set_state. *)
After(id, d, st) == IF st = "disconnected" THEN {} ELSE {Fact(id, d, st, "nothing")}

(* inv_set_state and its callback, from any state that may precede: the     *)
(* event is fired before the slot is given back.                            *)
LEMMA StateOutline ==
  ASSUME NEW f \in Depths, NEW id \in Slots, NEW d \in Dialogs,
         NEW from \in InvStates \ {"disconnected"}, NEW st \in InvStates \ {"new"},
         Rank(from) <= Rank(st), f[d] > 0
  PROVE  Outline(OnStateChanged(id, d, st),
                 At(f, {Fact(id, d, from, "nothing")}), At(f, After(id, d, st)))
<1> DEFINE o == Fact(id, d, from, "nothing")
           k == Fact(id, d, st, "event")
           n == Fact(id, d, st, "nothing")
           x == <<"set", d, st>>
           g == Up(f, "queue")
<1>1. /\ o \in Facts /\ o.id = id /\ o.call = d /\ o.st = from
      /\ k \in Facts /\ n \in Facts
  BY FactFacts
<1>2. x \in Steps
  BY DEF Steps
<1>3. Outline(<<x>>, At(f, {o}), At(f, {k}))
  <2> DEFINE a == At(f, {o})
             b == At(f, {k})
  <2>1. /\ a \in Assertions /\ b \in Assertions /\ a.know = {o} /\ a.depth = f
        /\ b.depth = a.depth /\ b.know = {k}
    BY <1>1, AtFacts
  <2> HIDE DEF a, b
  <2>2. k = Fact(o.id, o.call, st, "event") /\ x = <<"set", o.call, st>>
    BY <1>1
  <2> HIDE DEF o, k, x
  <2>3. SetRule(a, x, b)
    BY <2>1, <2>2, <1>1 DEF SetRule
  <2>4. Rule(a, x, b)
    BY <2>3 DEF Rule
  <2> QED
    BY <2>1, <2>4, <1>2, OutlineStep DEF a, b
<1>4. g \in Depths
  BY UpFacts DEF Locks
<1>5. Outline(CallStateDidChange(id, d, st), At(g, {k}), At(g, {n}))
  BY <1>4, CallStateOutline
<1> HIDE DEF o, k, n, x
<1>6. Outline(Dispatch(CallStateDidChange(id, d, st)), At(f, {k}), At(f, {n}))
  BY <1>1, <1>5, DispatchOutline DEF g
<1>7. Outline(<<x>> \o Dispatch(CallStateDidChange(id, d, st)), At(f, {o}), At(f, {n}))
  BY <1>3, <1>6, OutlineConcat
<1>8. Outline(IF st = "disconnected" THEN FreeCall(id) ELSE <<>>,
              At(f, {n}), At(f, After(id, d, st)))
  <2>1. CASE st = "disconnected"
    BY <2>1, FreeOutline DEF After, n
  <2>2. CASE st # "disconnected"
    BY <2>2, <1>1, AtFacts, OutlineEmpty DEF After, n
  <2> QED BY <2>1, <2>2
<1> QED
  BY <1>7, <1>8, OutlineConcat DEF OnStateChanged, o, x

-----------------------------------------------------------------------------
(* Outlines of what happens to a call whose dialog is locked. *)

(* What a thread knows once it has the dialog: the state of the call.  Of a *)
(* call without a state nothing happens.                                    *)
Known(id, d) == IF inv[d] = "new" THEN {} ELSE {Fact(id, d, inv[d], "nothing")}

(* steps may follow in the current state of the call, with d locked. *)
Follows(steps, f, id, d) ==
  \E left \in SUBSET Facts :
    NoneNew(left) /\ Outline(steps, At(f, Known(id, d)), At(f, left))

LEMMA KnownFacts ==
  ASSUME NEW id \in Slots, NEW d \in Dialogs, inv[d] \in InvStates
  PROVE  Known(id, d) \in SUBSET Facts /\ NoneNew(Known(id, d))
<1>1. Fact(id, d, inv[d], "nothing") \in Facts /\ Fact(id, d, inv[d], "nothing").st = inv[d]
  BY FactFacts
<1> QED
  BY <1>1 DEF Known, NoneNew

LEMMA AfterFacts ==
  ASSUME NEW id \in Slots, NEW d \in Dialogs, NEW st \in InvStates \ {"new"}
  PROVE  After(id, d, st) \in SUBSET Facts /\ NoneNew(After(id, d, st))
<1>1. Fact(id, d, st, "nothing") \in Facts /\ Fact(id, d, st, "nothing").st = st
  BY FactFacts
<1> QED
  BY <1>1 DEF After, NoneNew

(* Nothing may always follow. *)
LEMMA NothingFollows ==
  ASSUME NEW f \in Depths, NEW id \in Slots, NEW d \in Dialogs, inv[d] \in InvStates
  PROVE  Follows(<<>>, f, id, d)
BY KnownFacts, AtFacts, OutlineEmpty DEF Follows

(* A look at the media may always follow. *)
LEMMA MediaFollows ==
  ASSUME NEW f \in Depths, NEW id \in Slots, NEW d \in Dialogs, inv[d] \in InvStates
  PROVE  Follows(OnCallMediaState(id), f, id, d)
BY KnownFacts, MediaOutline DEF Follows

(* A change of state may follow an earlier state. *)
LEMMA StateFollows ==
  ASSUME NEW f \in Depths, NEW id \in Slots, NEW d \in Dialogs, f[d] > 0,
         inv[d] \in InvStates \ {"new", "disconnected"},
         NEW st \in InvStates \ {"new"}, Rank(inv[d]) <= Rank(st)
  PROVE  Follows(OnStateChanged(id, d, st), f, id, d)
<1>1. Known(id, d) = {Fact(id, d, inv[d], "nothing")}
  BY DEF Known
<1>2. Outline(OnStateChanged(id, d, st), At(f, Known(id, d)), At(f, After(id, d, st)))
  BY <1>1, StateOutline
<1> QED
  BY <1>2, AfterFacts DEF Follows

(* The 2xx to an outgoing call. *)
LEMMA AcceptedFollows ==
  ASSUME NEW f \in Depths, NEW id \in Slots, NEW d \in Dialogs, f[d] > 0,
         inv[d] \in {"calling", "early"}
  PROVE  Follows(Accepted(id, d), f, id, d)
<1> DEFINE c == After(id, d, "connecting")
           g == After(id, d, "confirmed")
<1>1. Known(id, d) = {Fact(id, d, inv[d], "nothing")}
  BY DEF Known
<1>2. /\ Rank(inv[d]) <= Rank("connecting") /\ Rank("connecting") <= Rank("confirmed")
      /\ inv[d] \in InvStates /\ inv[d] # "disconnected"
      /\ "connecting" \in InvStates /\ "confirmed" \in InvStates
  BY DEF Rank, InvStates
<1>3. Outline(OnStateChanged(id, d, "connecting"), At(f, Known(id, d)), At(f, c))
  BY <1>1, <1>2, StateOutline
<1>4. c \in SUBSET Facts /\ NoneNew(c) /\ g \in SUBSET Facts /\ NoneNew(g)
  BY <1>2, AfterFacts
<1>5. Outline(OnCallMediaState(id), At(f, c), At(f, c))
  BY <1>4, MediaOutline
<1>6. Outline(OnStateChanged(id, d, "confirmed"), At(f, c), At(f, g))
  BY <1>2, StateOutline DEF After
<1>7. Outline(OnStateChanged(id, d, "connecting") \o OnCallMediaState(id),
              At(f, Known(id, d)), At(f, c))
  BY <1>3, <1>5, OutlineConcat
<1>8. Outline(Accepted(id, d), At(f, Known(id, d)), At(f, g))
  BY <1>6, <1>7, OutlineConcat DEF Accepted
<1> QED
  BY <1>4, <1>8 DEF Follows

(* A SIP event (the state handlers of sip_inv.c). *)
LEMMA EventFollows ==
  ASSUME NEW f \in Depths, NEW id \in Slots, NEW d \in Dialogs, f[d] > 0,
         inv[d] \in InvStates, NEW steps \in EventChanges(id, d)
  PROVE  Follows(steps, f, id, d)
<1> USE NothingFollows, MediaFollows, StateFollows, AcceptedFollows DEF Rank, InvStates
<1>1. CASE inv[d] \in {"calling", "early"} /\ d \notin uas
  BY <1>1 DEF EventChanges
<1>2. CASE inv[d] \in {"incoming", "early"} /\ d \in uas
  BY <1>2 DEF EventChanges
<1>3. CASE inv[d] = "connecting"
  BY <1>3 DEF EventChanges
<1>4. CASE inv[d] = "confirmed"
  BY <1>4 DEF EventChanges
<1>5. CASE /\ ~(inv[d] \in {"calling", "early"} /\ d \notin uas)
           /\ ~(inv[d] \in {"incoming", "early"} /\ d \in uas)
           /\ inv[d] # "connecting" /\ inv[d] # "confirmed"
  BY <1>5 DEF EventChanges
<1> QED
  BY <1>1, <1>2, <1>3, <1>4, <1>5

(* pjsip_inv_end_session *)
LEMMA HangupFollows ==
  ASSUME NEW f \in Depths, NEW id \in Slots, NEW d \in Dialogs, f[d] > 0,
         inv[d] \in InvStates, NEW steps \in HangupChanges(id, d)
  PROVE  Follows(steps, f, id, d)
<1> USE NothingFollows, StateFollows DEF Rank, InvStates
<1>1. CASE inv[d] \in {"incoming", "early"} /\ d \in uas
  BY <1>1 DEF HangupChanges
<1>2. CASE inv[d] = "confirmed"
  BY <1>2 DEF HangupChanges
<1>3. CASE ~(inv[d] \in {"incoming", "early"} /\ d \in uas) /\ inv[d] # "confirmed"
  BY <1>3 DEF HangupChanges
<1> QED
  BY <1>1, <1>2, <1>3

(* pjsua_call_answer2 *)
LEMMA AnswerFollows ==
  ASSUME NEW f \in Depths, NEW id \in Slots, NEW d \in Dialogs, f[d] > 0,
         inv[d] \in InvStates, NEW code \in {"180", "200"},
         NEW steps \in AnswerChanges(id, d, code)
  PROVE  Follows(steps, f, id, d)
<1>1. CASE inv[d] \in {"incoming", "early"} /\ d \in uas /\ code = "180"
  BY <1>1, StateFollows DEF AnswerChanges, Rank, InvStates
<1>2. CASE inv[d] \in {"incoming", "early"} /\ d \in uas /\ code # "180"
  <2>1. steps = OnCallMediaState(id) \o OnStateChanged(id, d, "connecting")
    BY <1>2 DEF AnswerChanges
  <2>2. Outline(OnCallMediaState(id), At(f, Known(id, d)), At(f, Known(id, d)))
    BY KnownFacts, MediaOutline
  <2>3. PICK left \in SUBSET Facts :
          /\ NoneNew(left)
          /\ Outline(OnStateChanged(id, d, "connecting"), At(f, Known(id, d)), At(f, left))
    <3>1. Rank(inv[d]) <= Rank("connecting") /\ "connecting" \in InvStates
      BY <1>2 DEF Rank, InvStates
    <3>2. inv[d] # "new" /\ inv[d] # "disconnected"
      BY <1>2
    <3> QED BY <3>1, <3>2, StateFollows DEF Follows
  <2> QED
    BY <2>1, <2>2, <2>3, OutlineConcat DEF Follows
<1>3. CASE ~(inv[d] \in {"incoming", "early"} /\ d \in uas)
  BY <1>3, NothingFollows DEF AnswerChanges
<1> QED
  BY <1>1, <1>2, <1>3

(* The caller of acquire_call. *)
LEMMA OperateFollows ==
  ASSUME NEW f \in Depths, NEW id \in Slots, NEW d \in Dialogs, f[d] > 0,
         inv[d] \in InvStates, NEW what \in {"hangup", "180", "200"},
         NEW steps \in Operate(id, d, what)
  PROVE  Follows(steps, f, id, d)
<1>1. CASE what = "hangup"
  BY <1>1, HangupFollows DEF Operate
<1>2. CASE what # "hangup"
  <2>1. PICK rest \in AnswerChanges(id, d, what) : steps = Pjsua(<<>>) \o rest
    BY <1>2 DEF Operate
  <2>2. PICK left \in SUBSET Facts :
          NoneNew(left) /\ Outline(rest, At(f, Known(id, d)), At(f, left))
    BY <1>2, <2>1, AnswerFollows DEF Follows
  <2>3. Outline(Pjsua(<<>>), At(f, Known(id, d)), At(f, Known(id, d)))
    BY KnownFacts, LockOutline
  <2> QED
    BY <2>1, <2>2, <2>3, OutlineConcat DEF Follows
<1> QED
  BY <1>1, <1>2

(* The dialog is given back after what was done with it. *)
LEMMA ReleaseOutline ==
  ASSUME NEW f \in Depths, NEW id \in Slots, NEW d \in Dialogs,
         NEW steps, Follows(steps, Up(f, d), id, d)
  PROVE  Outline(steps \o Give(d), At(Up(f, d), Known(id, d)), At(f, {}))
<1>1. PICK left \in SUBSET Facts :
        Outline(steps, At(Up(f, d), Known(id, d)), At(Up(f, d), left))
  BY DEF Follows
<1>2. d \in Locks /\ d # "pjsua"
  BY NamesAssumption DEF Locks
<1>3. Outline(Give(d), At(Up(f, d), left), At(f, {}))
  BY <1>2, GiveOutline
<1> QED
  BY <1>1, <1>3, OutlineConcat

-----------------------------------------------------------------------------
(* Outlines of the jobs. *)

(* pjsua_call_make_call, once it has a slot *)
LEMMA PlaceCallRestOutline ==
  ASSUME NEW f \in Depths, NEW id \in Slots, NEW d \in Dialogs
  PROVE  Outline(PlaceCallRest(id, d),
                 At(Up(f, "pjsua"), {Fact(id, d, "new", "nothing")}), At(f, {}))
<1> DEFINE g == Up(f, "pjsua")
           h == Up(g, d)
           k == Fact(id, d, "new", "nothing")
           n == Fact(id, d, "calling", "nothing")
<1>1. d \in Locks /\ d # "pjsua" /\ "pjsua" \in Locks /\ "pjsua" \notin Dialogs
  BY NamesAssumption DEF Locks
<1>2. g \in Depths /\ h \in Depths /\ h[d] = g[d] + 1 /\ g[d] \in Nat
  <2>1. g \in Depths
    BY <1>1, UpFacts
  <2> HIDE DEF g
  <2> QED BY <1>1, <2>1, UpFacts DEF Depths
<1>3. k \in Facts /\ n \in Facts
  BY FactFacts DEF InvStates
<1> HIDE DEF g, h
<1>4. Outline(Take(d), At(g, {k}), At(h, {k}))
  BY <1>1, <1>2, <1>3, TakeOutline DEF h
<1>5. Outline(OnStateChanged(id, d, "calling"), At(h, {k}), At(h, {n}))
  <2>1. /\ "new" \in InvStates /\ "calling" \in InvStates
        /\ Rank("new") <= Rank("calling") /\ h[d] > 0
    BY <1>2 DEF InvStates, Rank
  <2>2. After(id, d, "calling") = {n}
    BY DEF After
  <2> QED BY <1>2, <2>1, <2>2, StateOutline
<1>6. Outline(Give(d), At(h, {n}), At(g, {}))
  BY <1>1, <1>2, <1>3, GiveOutline DEF h
<1>7. Outline(Give("pjsua"), At(g, {}), At(f, {}))
  BY <1>1, GiveOutline DEF g, NoneNew
<1> HIDE DEF k, n
<1>8. Outline(Take(d) \o OnStateChanged(id, d, "calling"), At(g, {k}), At(h, {n}))
  BY <1>4, <1>5, OutlineConcat
<1>9. Outline(Take(d) \o OnStateChanged(id, d, "calling") \o Give(d), At(g, {k}), At(g, {}))
  BY <1>6, <1>8, OutlineConcat
<1> QED
  BY <1>7, <1>9, OutlineConcat DEF PlaceCallRest, g, k

(* An operation that starts with acquire_call. *)
LEMMA AcquireOutline ==
  ASSUME NEW f \in Depths, NEW id \in Slots, NEW what \in {"hangup", "180", "200"}
  PROVE  Outline(<< <<"acquire", id, what>> >>, At(f, {}), At(f, {}))
<1> DEFINE a == At(f, {})
           x == <<"acquire", id, what>>
<1>1. a \in Assertions /\ a.know = {}
  BY AtFacts
<1>2. x \in Steps
  BY DEF Steps
<1> HIDE DEF a
<1>3. Rule(a, x, a)
  BY <1>1 DEF Rule, AcquireRule
<1> QED
  BY <1>1, <1>2, <1>3, OutlineStep DEF a

(* pjsua_call_on_incoming, once it has a slot *)
LEMMA IncomingRestOutline ==
  ASSUME NEW f \in Depths, NEW id \in Slots, NEW d \in Dialogs
  PROVE  Outline(IncomingRest(id, d), At(Up(f, "pjsua"), {}), At(f, {}))
<1> DEFINE g == Up(f, "pjsua")
           h == Up(g, d)
           q == << <<"acquire", id, "180">> >>
<1>1. d \in Locks /\ d # "pjsua" /\ "pjsua" \in Locks /\ "pjsua" \notin Dialogs
  BY NamesAssumption DEF Locks
<1>2. g \in Depths
  BY <1>1, UpFacts
<1>3. h \in Depths
  <2> HIDE DEF g
  <2> QED BY <1>1, <1>2, UpFacts
<1>4. NoneNew({})
  BY DEF NoneNew
<1> HIDE DEF g, h
<1>5. Outline(Take(d), At(g, {}), At(h, {}))
  BY <1>1, <1>2, TakeOutline DEF h
<1>6. Outline(q, At(h, {}), At(h, {}))
  BY <1>3, AcquireOutline
<1>7. Outline(Dispatch(GetInfo(<<>>)), At(h, {}), At(h, {}))
  BY <1>3, <1>4, ObserverOutline
<1>8. Outline(Give(d), At(h, {}), At(g, {}))
  BY <1>1, <1>2, GiveOutline DEF h
<1>9. Outline(Give("pjsua"), At(g, {}), At(f, {}))
  BY <1>1, <1>4, GiveOutline DEF g
<1> HIDE DEF q
<1>10. Outline(Take(d) \o q, At(g, {}), At(h, {}))
  BY <1>5, <1>6, OutlineConcat
<1>11. Outline(Take(d) \o q \o Dispatch(GetInfo(<<>>)), At(g, {}), At(h, {}))
  BY <1>7, <1>10, OutlineConcat
<1>12. Outline(Take(d) \o q \o Dispatch(GetInfo(<<>>)) \o Give(d), At(g, {}), At(g, {}))
  BY <1>8, <1>11, OutlineConcat
<1> QED
  BY <1>9, <1>12, OutlineConcat DEF IncomingRest, g, q

(* placeCall and an incoming INVITE, up to the slot: afterwards PJSUA_LOCK  *)
(* is given back.                                                           *)
LEMMA AllocOutline ==
  ASSUME NEW f \in Depths, NEW kind \in {"calling", "incoming"}
  PROVE  Outline(Take("pjsua") \o << <<"alloc", kind>> >>, At(f, {}), At(f, {}))
<1> DEFINE g == Up(f, "pjsua")
           a == At(g, {})
           b == At(f, {})
           x == <<"alloc", kind>>
<1>1. "pjsua" \in Locks /\ g \in Depths
  BY UpFacts DEF Locks
<1>2. Outline(Take("pjsua"), At(f, {}), At(g, {}))
  BY <1>1, TakeOutline
<1>3. a \in Assertions /\ b \in Assertions /\ a.depth = Up(b.depth, "pjsua") /\ b.know = {}
  BY <1>1, AtFacts
<1>4. x \in Steps
  BY DEF Steps
<1>5. Outline(<<x>>, a, b)
  <2> HIDE DEF a, b
  <2>1. Rule(a, x, b)
    BY <1>3 DEF Rule, AllocRule
  <2> QED BY <2>1, <1>3, <1>4, OutlineStep
<1> QED
  BY <1>2, <1>5, OutlineConcat

(* A job that starts without a lock and ends without one. *)
Complete(steps) == Outline(steps, Rest, Rest)

LEMMA RestFacts ==
  /\ [l \in Locks |-> 0] \in Depths
  /\ Rest = At([l \in Locks |-> 0], {})
  /\ Rest \in Assertions
  /\ NoneNew({})
BY AtFacts DEF Rest, Depths, NoneNew

(* Every job of the application's threads is complete. *)
LEMMA AppJobs ==
  ASSUME NEW id \in Slots, NEW job \in DOMAIN AppScripts(id)
  PROVE  Complete(AppScripts(id)[job])
<1> DEFINE f == [l \in Locks |-> 0]
<1>1. f \in Depths /\ Rest = At(f, {}) /\ NoneNew({})
  BY RestFacts
<1> HIDE DEF f
<1>2. \A g \in Depths : Outline(SetRegistration, At(g, {}), At(g, {}))
  <2> TAKE g \in Depths
  <2> DEFINE h == Up(g, "pjsua")
             q == Up(h, "queue")
  <2>1. h \in Depths
    BY UpFacts DEF Locks
  <2> HIDE DEF h
  <2>2. q \in Depths
    BY <2>1, UpFacts DEF Locks
  <2>3. Outline(<<>>, At(q, {}), At(q, {}))
    BY <2>2, AtFacts, OutlineEmpty
  <2>4. Outline(Dispatch(<<>>), At(h, {}), At(h, {}))
    BY <2>1, <2>3, DispatchOutline
  <2> QED
    BY <1>1, <2>4, PjsuaOutline DEF SetRegistration, h
<1>3. Complete(SetRegistration)
  BY <1>1, <1>2 DEF Complete
<1>4. Complete(Register)
  BY <1>1, <1>2, LockOutline, OutlineConcat DEF Complete, Register
<1>5. Complete(Unregister)
  <2>1. Up(f, "pjsua") \in Depths
    BY <1>1, UpFacts DEF Locks
  <2> QED
    BY <1>1, <1>2, <2>1, PjsuaOutline DEF Complete, Unregister
<1>6. Complete(PlaceCall)
  BY <1>1, AllocOutline DEF Complete, PlaceCall
<1>7. Complete(AnswerCall(id))
  BY <1>1, AcquireOutline DEF Complete, AnswerCall
<1>8. Complete(HangUpCall(id))
  BY <1>1, LockOutline, AcquireOutline, OutlineConcat DEF Complete, HangUpCall, GetInfo
<1> QED
  BY <1>3, <1>4, <1>5, <1>6, <1>7, <1>8 DEF AppScripts

(* Every job of a worker is complete, but for an event: its call is the one *)
(* in the slot, and may be over when the event is handled.                  *)
LEMMA WorkerJobs ==
  ASSUME NEW id \in Slots, NEW job \in DOMAIN WorkerScripts(id), job # "event"
  PROVE  Complete(WorkerScripts(id)[job])
<1> DEFINE f == [l \in Locks |-> 0]
<1>1. f \in Depths /\ Rest = At(f, {}) /\ NoneNew({})
  BY RestFacts
<1>2. "refresh" \in DOMAIN AppScripts(id) /\ AppScripts(id)["refresh"] = SetRegistration
  BY DEF AppScripts
<1>3. Complete(SetRegistration)
  BY <1>2, AppJobs
<1> HIDE DEF f
<1>4. Complete(RegCb)
  <2>1. Up(f, "pjsua") \in Depths
    BY <1>1, UpFacts DEF Locks
  <2> QED
    BY <1>1, <2>1, ObserverOutline, PjsuaOutline DEF Complete, RegCb
<1>5. Complete(OnPager)
  <2>1. Up(f, "queue") \in Depths
    BY <1>1, UpFacts DEF Locks
  <2> QED
    BY <1>1, <2>1, AtFacts, OutlineEmpty, DispatchOutline DEF Complete, OnPager
<1>6. Complete(Incoming)
  BY <1>1, AllocOutline DEF Complete, Incoming
<1> QED
  BY <1>3, <1>4, <1>5, <1>6 DEF WorkerScripts

(* The event of the call in a slot. *)
LEMMA EventJob ==
  ASSUME NEW id \in Slots, slot[id] \in Dialogs
  PROVE  Outline(WorkerScripts(id)["event"],
                 At([l \in Locks |-> 0], {Fact(id, slot[id], "any", "nothing")}), Rest)
<1> DEFINE f == [l \in Locks |-> 0]
           k == Fact(id, slot[id], "any", "nothing")
           a == At(f, {k})
           x == <<"event", id, slot[id]>>
<1>1. f \in Depths /\ Rest \in Assertions /\ Rest = At(f, {})
  BY RestFacts
<1>2. k \in Facts /\ k.id = id /\ k.call = slot[id] /\ k.st = "any"
  BY FactFacts
<1> HIDE DEF f
<1>3. /\ a \in Assertions /\ a.know = {k} /\ a.depth = f
      /\ Rest.depth = f /\ Rest.know = {}
  BY <1>1, <1>2, AtFacts
<1>4. x \in Steps
  BY DEF Steps
<1> HIDE DEF a, k
<1>5. Rule(a, x, Rest)
  BY <1>2, <1>3 DEF Rule, EventRule
<1>6. Outline(<<x>>, a, Rest)
  BY <1>1, <1>3, <1>4, <1>5, OutlineStep
<1>7. WorkerScripts(id)["event"] = <<x>>
  BY DEF WorkerScripts
<1> QED
  BY <1>6, <1>7 DEF a, k, f

-----------------------------------------------------------------------------
(* The inductive invariant. *)

(* The end of a call was not told yet. *)
Unfinished(d) == told[d] = <<>> \/ told[d][Len(told[d])][1] # "disconnected"

(* What thread t may rely on when it knows k.  It has the lock of the       *)
(* dialog; for a call that it just allocated, and which has no state yet,   *)
(* PJSUA_LOCK.                                                              *)
Holds(t, k) ==
  IF k.st = "any" THEN slot[k.id] = k.call \/ inv[k.call] = "disconnected"
  ELSE /\ slot[k.id] = k.call /\ inv[k.call] = k.st
       /\ IF k.st = "new" THEN depth[t]["pjsua"] > 0 ELSE depth[t][k.call] > 0
       /\ k.owes = "event" => Unfinished(k.call)

(* What thread t still does has an outline that starts from what holds now  *)
(* and ends with nothing held.                                              *)
OnTrack(t) ==
  \E know \in SUBSET Facts :
    /\ \A k \in know : Holds(t, k)
    /\ Outline(todo[t], At(depth[t], know), Rest)

Types ==
  /\ depth \in [Threads -> Depths]
  /\ todo \in [Threads -> Seq(Steps)]
  /\ slot \in [Slots -> Dialogs \cup {"none"}]
  /\ inv \in [Dialogs -> InvStates]
  /\ uas \subseteq Dialogs
  /\ told \in [Dialogs -> Seq(InvStates \X InvStates)]
  /\ jobs \in 0 .. MaxJobs

Mutex == \A l \in Locks : \A t, u \in Threads : depth[t][l] > 0 /\ depth[u][l] > 0 => t = u

(* The last event of a call is of its state or of an earlier one. *)
ToldBehind ==
  \A d \in Dialogs : told[d] # <<>> => Rank(told[d][Len(told[d])][1]) <= Rank(inv[d])

IInv == Types /\ Mutex /\ (\A t \in Threads : OnTrack(t))
        /\ ToldBehind /\ EventTellsCause /\ EventsInOrder

LEMMA RankFacts ==
  \A st \in InvStates : /\ Rank(st) \in 0 .. 5
                        /\ Rank(st) = 5 <=> st = "disconnected"
                        /\ Rank(st) = 0 <=> st = "new"
BY DEF Rank, InvStates

LEMMA LockFacts ==
  /\ "pjsua" \in Locks /\ "queue" \in Locks /\ Dialogs \subseteq Locks
  /\ "pjsua" \notin Dialogs /\ "queue" \notin Dialogs /\ "none" \notin Dialogs
BY NamesAssumption DEF Locks

(* The first word of a step names its rule. *)
LEMMA RuleFacts ==
  ASSUME NEW a, NEW x, NEW b, Rule(a, x, b)
  PROVE  /\ x[1] = "take" => TakeRule(a, x, b)
         /\ x[1] = "give" => GiveRule(a, x, b)
         /\ x[1] = "set" => SetRule(a, x, b)
         /\ x[1] = "report" => ReportRule(a, x, b)
         /\ x[1] = "free" => FreeRule(a, x, b)
         /\ x[1] = "alloc" => AllocRule(a, x, b)
         /\ x[1] = "acquire" => AcquireRule(a, x, b)
         /\ x[1] = "event" => EventRule(a, x, b)
<1>1. TakeRule(a, x, b) => x[1] = "take"
  BY DEF TakeRule
<1>2. GiveRule(a, x, b) => x[1] = "give"
  BY DEF GiveRule
<1>3. SetRule(a, x, b) => x[1] = "set"
  BY DEF SetRule
<1>4. ReportRule(a, x, b) => x[1] = "report"
  BY DEF ReportRule
<1>5. FreeRule(a, x, b) => x[1] = "free"
  BY DEF FreeRule
<1>6. AllocRule(a, x, b) => x[1] = "alloc"
  BY DEF AllocRule
<1>7. AcquireRule(a, x, b) => x[1] = "acquire"
  BY DEF AcquireRule
<1>8. EventRule(a, x, b) => x[1] = "event"
  BY DEF EventRule
<1> QED
  BY <1>1, <1>2, <1>3, <1>4, <1>5, <1>6, <1>7, <1>8 DEF Rule

(* A thread in a job is at a step whose rule it follows. *)
LEMMA NextStep ==
  ASSUME NEW t \in Threads, OnTrack(t), Types, todo[t] # <<>>
  PROVE  \E know \in SUBSET Facts, b \in Assertions :
           /\ \A k \in know : Holds(t, k)
           /\ Rule(At(depth[t], know), Head(todo[t]), b)
           /\ Outline(Tail(todo[t]), b, Rest)
           /\ At(depth[t], know).depth = depth[t] /\ At(depth[t], know).know = know
           /\ b.depth \in Depths /\ b.know \in SUBSET Facts /\ b = At(b.depth, b.know)
<1>1. PICK know \in SUBSET Facts :
        /\ \A k \in know : Holds(t, k)
        /\ Outline(todo[t], At(depth[t], know), Rest)
  BY DEF OnTrack
<1>2. PICK b \in Assertions :
        Rule(At(depth[t], know), Head(todo[t]), b) /\ Outline(Tail(todo[t]), b, Rest)
  BY <1>1, OutlineNext
<1>3. depth[t] \in Depths
  BY DEF Types
<1>4. b.depth \in Depths /\ b.know \in SUBSET Facts /\ b = At(b.depth, b.know)
  BY DEF Assertions, At
<1> QED
  BY <1>1, <1>2, <1>3, <1>4, AtFacts

(* A step of another thread that leaves this thread's facts true. *)
LEMMA OthersOnTrack ==
  ASSUME NEW u \in Threads, OnTrack(u), depth'[u] = depth[u], todo'[u] = todo[u],
         \A k \in Facts : Holds(u, k) => Holds(u, k)'
  PROVE  OnTrack(u)'
BY DEF OnTrack

(* A thread outside every job holds nothing. *)
LEMMA IdleHoldsNothing ==
  ASSUME NEW t \in Threads, OnTrack(t), Types, todo[t] = <<>>
  PROVE  depth[t] = [l \in Locks |-> 0]
<1>1. PICK know \in SUBSET Facts : Outline(<<>>, At(depth[t], know), Rest)
  BY DEF OnTrack
<1>2. At(depth[t], know) = Rest
  BY <1>1, OutlineEnd
<1>3. At(depth[t], know).depth = depth[t] /\ Rest.depth = [l \in Locks |-> 0]
  BY RestFacts, AtFacts DEF Types
<1> QED
  BY <1>2, <1>3

(* Steps that leave the calls alone leave the facts about them alone. *)
LEMMA FactsStay ==
  ASSUME NEW u \in Threads, NEW k \in Facts, Holds(u, k), UNCHANGED callVars,
         k.st = "new" => depth'[u]["pjsua"] > 0,
         k.st \notin {"new", "any"} => depth'[u][k.call] > 0
  PROVE  Holds(u, k)'
BY DEF Holds, callVars, Unfinished

(* Of the last three conjuncts nothing is lost when calls are left alone. *)
LEMMA CallsStay ==
  ASSUME ToldBehind, EventTellsCause, EventsInOrder, UNCHANGED callVars
  PROVE  (ToldBehind /\ EventTellsCause /\ EventsInOrder)'
BY DEF ToldBehind, EventTellsCause, EventsInOrder, callVars

(* The sequence of a thread that runs something new is made of steps. *)
LEMMA OutlineType ==
  ASSUME NEW s, NEW a, NEW b, Outline(s, a, b)
  PROVE  s \in Seq(Steps)
BY DEF Outline

LEMMA InitIInv == Init => IInv
<1> SUFFICES ASSUME Init PROVE IInv
  OBVIOUS
<1>1. Types
  <2>1. <<>> \in Seq(Steps) /\ <<>> \in Seq(InvStates \X InvStates)
    OBVIOUS
  <2>2. 0 \in 0 .. MaxJobs
    BY JobsAssumption
  <2>3. "new" \in InvStates
    BY DEF InvStates
  <2> QED
    BY <2>1, <2>2, <2>3 DEF Init, Types, Depths
<1>2. Mutex
  BY DEF Init, Mutex
<1>3. ASSUME NEW t \in Threads PROVE OnTrack(t)
  <2>1. todo[t] = <<>> /\ depth[t] = [l \in Locks |-> 0]
    BY DEF Init
  <2>2. Outline(todo[t], At(depth[t], {}), Rest)
    BY <2>1, RestFacts, OutlineEmpty
  <2> QED
    BY <2>2 DEF OnTrack
<1>4. ToldBehind /\ EventTellsCause /\ EventsInOrder
  BY DEF Init, ToldBehind, EventTellsCause, EventsInOrder
<1> QED
  BY <1>1, <1>2, <1>3, <1>4 DEF IInv

(* A job begins with no lock held and nothing known, an event with its call *)
(* in its slot.                                                             *)
LEMMA BeginStep ==
  ASSUME IInv, NEW t \in Threads, Begin(t)
  PROVE  IInv'
<1>1. Types /\ Mutex /\ ToldBehind /\ EventTellsCause /\ EventsInOrder
      /\ \A u \in Threads : OnTrack(u)
  BY DEF IInv
<1>2. /\ todo[t] = <<>> /\ jobs < MaxJobs /\ jobs' = jobs + 1
      /\ UNCHANGED depth /\ UNCHANGED callVars
  BY DEF Begin
<1>3. depth[t] = [l \in Locks |-> 0]
  BY <1>1, <1>2, IdleHoldsNothing
<1>4. PICK script \in Seq(Steps), know \in SUBSET Facts :
        /\ todo' = [todo EXCEPT ![t] = script]
        /\ \A k \in know : Holds(t, k)
        /\ Outline(script, At(depth[t], know), Rest)
  <2>1. PICK id \in Slots :
          \E job \in Jobs \cap DOMAIN (IF t \in Apps THEN AppScripts(id) ELSE WorkerScripts(id)) :
            /\ job = "event" => slot[id] # "none"
            /\ todo' = [todo EXCEPT ![t] =
                 (IF t \in Apps THEN AppScripts(id) ELSE WorkerScripts(id))[job]]
    BY DEF Begin
  <2>2. At(depth[t], {}) = Rest
    BY <1>3 DEF Rest
  <2>3. CASE t \in Apps
    <3>1. PICK job \in DOMAIN AppScripts(id) : todo' = [todo EXCEPT ![t] = AppScripts(id)[job]]
      BY <2>1, <2>3
    <3>2. Outline(AppScripts(id)[job], Rest, Rest)
      BY AppJobs DEF Complete
    <3>3. AppScripts(id)[job] \in Seq(Steps) /\ \A k \in {} : Holds(t, k)
      BY <3>2, OutlineType
    <3> QED BY <2>2, <3>1, <3>2, <3>3
  <2>4. CASE t \notin Apps
    <3>1. PICK job \in DOMAIN WorkerScripts(id) :
            /\ job = "event" => slot[id] # "none"
            /\ todo' = [todo EXCEPT ![t] = WorkerScripts(id)[job]]
      BY <2>1, <2>4
    <3>2. CASE job # "event"
      <4>1. Outline(WorkerScripts(id)[job], Rest, Rest)
        BY <3>2, WorkerJobs DEF Complete
      <4>2. WorkerScripts(id)[job] \in Seq(Steps) /\ \A k \in {} : Holds(t, k)
        BY <4>1, OutlineType
      <4> QED BY <2>2, <3>1, <4>1, <4>2
    <3>3. CASE job = "event"
      <4> DEFINE k == Fact(id, slot[id], "any", "nothing")
      <4>1. slot[id] \in Dialogs
        BY <1>1, <3>1, <3>3 DEF Types
      <4>2. k \in Facts /\ k.id = id /\ k.call = slot[id] /\ k.st = "any"
        BY <4>1, FactFacts
      <4>3. Outline(WorkerScripts(id)["event"], At(depth[t], {k}), Rest)
        BY <4>1, <1>3, EventJob
      <4> HIDE DEF k
      <4>4. Holds(t, k)
        BY <4>2 DEF Holds
      <4>5. WorkerScripts(id)["event"] \in Seq(Steps)
        BY <4>3, OutlineType
      <4> QED BY <3>1, <3>3, <4>2, <4>3, <4>4, <4>5
    <3> QED BY <3>2, <3>3
  <2> QED BY <2>3, <2>4
<1>5. Types'
  <2>1. script \in Seq(Steps)
    OBVIOUS
  <2>2. jobs' \in 0 .. MaxJobs
    BY <1>1, <1>2, JobsAssumption DEF Types
  <2> QED
    BY <1>1, <1>2, <1>4, <2>1, <2>2 DEF Types, callVars
<1>6. Mutex'
  BY <1>1, <1>2 DEF Mutex
<1>7. \A u \in Threads, k \in Facts : Holds(u, k) => Holds(u, k)'
  BY <1>2 DEF Holds, callVars, Unfinished
<1>8. ASSUME NEW u \in Threads PROVE OnTrack(u)'
  <2>1. CASE u = t
    <3>1. todo'[t] = script
      BY <1>1, <1>4 DEF Types
    <3> QED BY <1>2, <1>4, <1>7, <2>1, <3>1 DEF OnTrack
  <2>2. CASE u # t
    <3>1. todo'[u] = todo[u]
      BY <1>1, <1>4, <2>2 DEF Types
    <3> QED BY <1>1, <1>2, <1>7, <3>1, OthersOnTrack
  <2> QED BY <2>1, <2>2
<1>9. (ToldBehind /\ EventTellsCause /\ EventsInOrder)'
  BY <1>1, <1>2, CallsStay
<1> QED
  BY <1>5, <1>6, <1>8, <1>9 DEF IInv

-----------------------------------------------------------------------------
(* Every step keeps the invariant. *)

(* A step that only takes or gives back locks and goes on with its job.     *)
LEMMA LocalStep ==
  ASSUME IInv, NEW t \in Threads, NEW g \in Depths, NEW script, NEW left \in SUBSET Facts,
         depth' = [depth EXCEPT ![t] = g], todo' = [todo EXCEPT ![t] = script],
         UNCHANGED callVars, UNCHANGED jobs,
         \A l \in Locks : g[l] > 0 => depth[t][l] > 0 \/ Free(t, l),
         Outline(script, At(g, left), Rest),
         \A k \in left : Holds(t, k)'
  PROVE  IInv'
<1>1. Types /\ Mutex /\ ToldBehind /\ EventTellsCause /\ EventsInOrder
      /\ \A u \in Threads : OnTrack(u)
  BY DEF IInv
<1>2. /\ depth'[t] = g /\ todo'[t] = script
      /\ \A u \in Threads : u # t => depth'[u] = depth[u] /\ todo'[u] = todo[u]
  BY <1>1 DEF Types
<1>3. Types'
  <2>1. script \in Seq(Steps)
    BY OutlineType
  <2> QED BY <1>1, <2>1 DEF Types, callVars
<1>4. Mutex'
  <2> SUFFICES ASSUME NEW l \in Locks, NEW u \in Threads, NEW v \in Threads, u # v,
                      depth'[u][l] > 0, depth'[v][l] > 0
               PROVE  FALSE
    BY DEF Mutex
  <2>1. depth[u][l] \in Nat /\ depth[v][l] \in Nat
    BY <1>1 DEF Types, Depths
  <2>2. CASE u # t /\ v # t
    BY <2>2, <1>1, <1>2 DEF Mutex
  <2>3. CASE u = t
    <3>1. depth[v][l] > 0
      BY <2>3, <1>2
    <3> QED BY <2>1, <2>3, <3>1, <1>1, <1>2 DEF Mutex, Free
  <2>4. CASE v = t
    <3>1. depth[u][l] > 0
      BY <2>4, <1>2
    <3> QED BY <2>1, <2>4, <3>1, <1>1, <1>2 DEF Mutex, Free
  <2> QED BY <2>2, <2>3, <2>4
<1>5. ASSUME NEW u \in Threads PROVE OnTrack(u)'
  <2>1. CASE u = t
    BY <1>2, <2>1 DEF OnTrack
  <2>2. CASE u # t
    <3>1. \A k \in Facts : Holds(u, k) => Holds(u, k)'
      BY <2>2, <1>2, FactsStay DEF Holds
    <3> QED BY <1>1, <1>2, <2>2, <3>1, OthersOnTrack
  <2> QED BY <2>1, <2>2
<1>6. (ToldBehind /\ EventTellsCause /\ EventsInOrder)'
  BY <1>1, CallsStay
<1> QED
  BY <1>3, <1>4, <1>5, <1>6 DEF IInv

(* PJSUA_LOCK(), dispatch_sync and the lock of a dialog *)
LEMMA TakeLockStep ==
  ASSUME IInv, NEW t \in Threads, TakeLock(t)
  PROVE  IInv'
<1>1. Types /\ \A u \in Threads : OnTrack(u)
  BY DEF IInv
<1>2. todo[t] # <<>> /\ Head(todo[t])[1] = "take"
  BY DEF TakeLock, AtStep
<1>3. PICK know \in SUBSET Facts, b \in Assertions :
        /\ \A k \in know : Holds(t, k)
        /\ Rule(At(depth[t], know), Head(todo[t]), b)
        /\ Outline(Tail(todo[t]), b, Rest)
        /\ At(depth[t], know).depth = depth[t] /\ At(depth[t], know).know = know
        /\ b.depth \in Depths /\ b.know \in SUBSET Facts /\ b = At(b.depth, b.know)
  BY <1>1, <1>2, NextStep
<1>4. PICK l \in Locks : Head(todo[t]) = <<"take", l>> /\ b.depth = Up(depth[t], l) /\ b.know = know
  BY <1>2, <1>3, RuleFacts DEF TakeRule
<1>5. /\ Free(t, l)
      /\ depth' = [depth EXCEPT ![t] = b.depth]
      /\ todo' = [todo EXCEPT ![t] = Tail(todo[t])]
      /\ UNCHANGED callVars /\ UNCHANGED jobs
  <2>1. Arg(t, 1) = l
    BY <1>4 DEF Arg
  <2> QED BY <1>4, <2>1 DEF TakeLock, Done, Up
<1>6. depth'[t] = b.depth
  BY <1>1, <1>5 DEF Types
<1>7. /\ \A m \in Locks : m # l => b.depth[m] = depth[t][m]
      /\ \A m \in Locks : depth[t][m] > 0 => b.depth[m] > 0
  <2>1. depth[t] \in Depths /\ \A m \in Locks : depth[t][m] \in Nat
    BY <1>1 DEF Types, Depths
  <2> QED BY <1>4, <2>1, UpFacts
<1>8. ASSUME NEW k \in b.know PROVE Holds(t, k)'
  <2>1. k \in Facts /\ Holds(t, k) /\ k.call \in Dialogs
    BY <1>3, <1>4 DEF Facts
  <2> QED BY <2>1, <1>5, <1>6, <1>7, FactsStay, LockFacts DEF Holds
<1> QED
  BY <1>3, <1>5, <1>7, <1>8, LocalStep

(* The unlocks *)
LEMMA GiveLockStep ==
  ASSUME IInv, NEW t \in Threads, GiveLock(t)
  PROVE  IInv'
<1>1. Types /\ \A u \in Threads : OnTrack(u)
  BY DEF IInv
<1>2. todo[t] # <<>> /\ Head(todo[t])[1] = "give"
  BY DEF GiveLock, AtStep
<1>3. PICK know \in SUBSET Facts, b \in Assertions :
        /\ \A k \in know : Holds(t, k)
        /\ Rule(At(depth[t], know), Head(todo[t]), b)
        /\ Outline(Tail(todo[t]), b, Rest)
        /\ At(depth[t], know).depth = depth[t] /\ At(depth[t], know).know = know
        /\ b.depth \in Depths /\ b.know \in SUBSET Facts /\ b = At(b.depth, b.know)
  BY <1>1, <1>2, NextStep
<1>4. PICK l \in Locks :
        /\ Head(todo[t]) = <<"give", l>> /\ depth[t] = Up(b.depth, l)
        /\ b.know \subseteq know
        /\ l \in Dialogs => b.know = {}
        /\ l = "pjsua" => NoneNew(b.know)
  BY <1>2, <1>3, RuleFacts DEF GiveRule
<1>5. /\ depth[t] \in Depths
      /\ depth[t][l] = b.depth[l] + 1
      /\ \A m \in Locks : m # l => b.depth[m] = depth[t][m]
      /\ \A m \in Locks : b.depth[m] \in Nat
  BY <1>3, <1>4, UpFacts DEF Depths
<1>6. /\ depth' = [depth EXCEPT ![t] = b.depth]
      /\ todo' = [todo EXCEPT ![t] = Tail(todo[t])]
      /\ UNCHANGED callVars /\ UNCHANGED jobs
  <2>1. Arg(t, 1) = l
    BY <1>4 DEF Arg
  <2>2. [depth[t] EXCEPT ![l] = @ - 1] = b.depth
    BY <1>3, <1>5 DEF Depths
  <2>3. depth' = [depth EXCEPT ![t] = [depth[t] EXCEPT ![l] = @ - 1]]
    BY <2>1 DEF GiveLock
  <2> QED BY <2>2, <2>3 DEF GiveLock, Done
<1>7. depth'[t] = b.depth
  BY <1>1, <1>6 DEF Types
<1>8. ASSUME NEW k \in b.know PROVE Holds(t, k)'
  <2>1. k \in Facts /\ Holds(t, k) /\ k.call \in Dialogs /\ l \notin Dialogs
    BY <1>3, <1>4 DEF Facts
  <2>2. k.st = "new" => l # "pjsua"
    BY <1>4 DEF NoneNew
  <2>3. k.st = "new" => depth'[t]["pjsua"] > 0
    BY <1>5, <1>7, <2>1, <2>2, LockFacts DEF Holds
  <2>4. k.st \notin {"new", "any"} => depth'[t][k.call] > 0
    BY <1>5, <1>7, <2>1, LockFacts DEF Holds
  <2> QED BY <1>6, <2>1, <2>3, <2>4, FactsStay
<1>9. \A m \in Locks : b.depth[m] > 0 => depth[t][m] > 0
  BY <1>5
<1> QED
  BY <1>3, <1>6, <1>8, <1>9, LocalStep

(* inv_set_state: its thread has the dialog, or PJSUA_LOCK while the call   *)
(* has no state, so nobody else knows anything of the call.                 *)
LEMMA SetStateStep ==
  ASSUME IInv, NEW t \in Threads, SetState(t)
  PROVE  IInv'
<1>1. Types /\ Mutex /\ ToldBehind /\ EventTellsCause /\ EventsInOrder
      /\ \A u \in Threads : OnTrack(u)
  BY DEF IInv
<1>2. todo[t] # <<>> /\ Head(todo[t])[1] = "set"
  BY DEF SetState, AtStep
<1>3. PICK know \in SUBSET Facts, b \in Assertions :
        /\ \A k \in know : Holds(t, k)
        /\ Rule(At(depth[t], know), Head(todo[t]), b)
        /\ Outline(Tail(todo[t]), b, Rest)
        /\ At(depth[t], know).depth = depth[t] /\ At(depth[t], know).know = know
        /\ b.depth \in Depths /\ b.know \in SUBSET Facts /\ b = At(b.depth, b.know)
  BY <1>1, <1>2, NextStep
<1>4. PICK k \in know, st \in InvStates \ {"new"} :
        /\ Head(todo[t]) = <<"set", k.call, st>>
        /\ k.st \in InvStates \ {"disconnected"} /\ Rank(k.st) <= Rank(st)
        /\ depth[t][k.call] > 0
        /\ b.depth = depth[t] /\ b.know = {Fact(k.id, k.call, st, "event")}
  <2>1. SetRule(At(depth[t], know), Head(todo[t]), b)
    BY <1>2, <1>3, RuleFacts
  <2> QED BY <1>3, <2>1 DEF SetRule
<1> DEFINE d == k.call
<1>5. k \in Facts /\ Holds(t, k) /\ d \in Dialogs /\ k.id \in Slots /\ k.st # "any"
  <2>1. "any" \notin InvStates
    BY DEF InvStates
  <2> QED BY <1>3, <1>4, <2>1 DEF Facts
<1>6. /\ slot[k.id] = d /\ inv[d] = k.st /\ inv[d] # "disconnected" /\ depth[t][d] > 0
      /\ inv[d] = "new" => depth[t]["pjsua"] > 0
  BY <1>4, <1>5 DEF Holds
<1>7. /\ inv' = [inv EXCEPT ![d] = st]
      /\ todo' = [todo EXCEPT ![t] = Tail(todo[t])]
      /\ UNCHANGED <<depth, slot, uas, told, jobs>>
  <2>1. Arg(t, 1) = d /\ Arg(t, 2) = st
    BY <1>4 DEF Arg
  <2> QED BY <2>1 DEF SetState, Done
<1>8. /\ inv'[d] = st /\ todo'[t] = Tail(todo[t])
      /\ \A e \in Dialogs : e # d => inv'[e] = inv[e]
      /\ \A u \in Threads : u # t => todo'[u] = todo[u]
  BY <1>1, <1>5, <1>7 DEF Types
<1> HIDE DEF d
<1>9. Types'
  <2>1. Tail(todo[t]) \in Seq(Steps)
    BY <1>3, OutlineType
  <2> QED BY <1>1, <1>3, <1>5, <1>7, <2>1 DEF Types
<1>10. Mutex'
  BY <1>1, <1>7 DEF Mutex
<1>11. ASSUME NEW u \in Threads, u # t, NEW m \in Facts, Holds(u, m) PROVE Holds(u, m)'
  <2>1. m.call \in Dialogs
    BY DEF Facts
  <2>2. CASE m.call # d
    BY <2>1, <2>2, <1>7, <1>8, <1>11 DEF Holds, Unfinished
  <2>3. CASE m.call = d /\ m.st = "any"
    BY <2>3, <1>6, <1>7, <1>11 DEF Holds
  <2>4. CASE m.call = d /\ m.st # "any"
    <3>1. inv[d] = m.st
      BY <2>4, <1>11 DEF Holds
    <3>2. CASE inv[d] = "new"
      <4>1. depth[u]["pjsua"] > 0 /\ depth[t]["pjsua"] > 0
        BY <2>4, <3>1, <3>2, <1>6, <1>11 DEF Holds
      <4> QED BY <4>1, <1>1, <1>11, LockFacts DEF Mutex
    <3>3. CASE inv[d] # "new"
      <4>1. depth[u][d] > 0
        BY <2>4, <3>1, <3>3, <1>11 DEF Holds
      <4>2. d \in Locks
        BY <2>1, <2>4, LockFacts
      <4> QED BY <4>1, <4>2, <1>1, <1>6, <1>11 DEF Mutex
    <3> QED BY <3>2, <3>3
  <2> QED BY <2>2, <2>3, <2>4
<1>12. OnTrack(t)'
  <2> DEFINE n == Fact(k.id, d, st, "event")
  <2>1. n \in Facts /\ n.id = k.id /\ n.call = d /\ n.st = st /\ n.owes = "event"
    BY <1>5, FactFacts DEF d
  <2>2. b.know = {n}
    BY <1>4 DEF d
  <2> HIDE DEF n
  <2>3. Unfinished(d)
    <3>1. CASE told[d] = <<>>
      BY <3>1 DEF Unfinished
    <3>2. CASE told[d] # <<>>
      <4>1. Rank(told[d][Len(told[d])][1]) <= Rank(inv[d])
        BY <3>2, <1>1, <1>5 DEF ToldBehind, d
      <4>2. Rank(inv[d]) \in 0 .. 5 /\ Rank(inv[d]) # 5
        BY <1>4, <1>6, RankFacts DEF d
      <4>3. Rank("disconnected") = 5
        BY RankFacts DEF InvStates
      <4> QED BY <4>1, <4>2, <4>3 DEF Unfinished
    <3> QED BY <3>1, <3>2
  <2>4. st # "any"
    BY DEF InvStates
  <2>5. Holds(t, n)'
    BY <1>6, <1>7, <1>8, <2>1, <2>3, <2>4, <1>4 DEF Holds, Unfinished, d
  <2> QED BY <1>3, <1>4, <1>7, <1>8, <2>1, <2>2, <2>5 DEF OnTrack
<1>13. ASSUME NEW u \in Threads PROVE OnTrack(u)'
  <2>1. CASE u = t
    BY <1>12, <2>1
  <2>2. CASE u # t
    BY <1>1, <1>7, <1>8, <1>11, <2>2, OthersOnTrack
  <2> QED BY <2>1, <2>2
<1>14. ToldBehind'
  <2> SUFFICES ASSUME NEW e \in Dialogs, told[e] # <<>>
               PROVE  Rank(told[e][Len(told[e])][1]) <= Rank(inv'[e])
    BY <1>7 DEF ToldBehind
  <2>1. Rank(told[e][Len(told[e])][1]) <= Rank(inv[e])
    BY <1>1 DEF ToldBehind
  <2>2. CASE e = d
    <3>1. told[d][Len(told[d])] \in InvStates \X InvStates
      <4>1. told[d] \in Seq(InvStates \X InvStates)
        BY <1>1, <2>2 DEF Types
      <4>2. Len(told[d]) \in 1 .. Len(told[d])
        BY <4>1, <2>2, EmptySeq, LenProperties
      <4> QED BY <4>1, <4>2, ElementOfSeq
    <3>2. Rank(told[d][Len(told[d])][1]) \in 0 .. 5 /\ Rank(k.st) \in 0 .. 5 /\ Rank(st) \in 0 .. 5
      BY <3>1, <1>4, RankFacts
    <3> QED BY <2>1, <2>2, <3>2, <1>4, <1>6, <1>8
  <2>3. CASE e # d
    BY <2>1, <2>3, <1>8
  <2> QED BY <2>2, <2>3
<1>15. (EventTellsCause /\ EventsInOrder)'
  BY <1>1, <1>7 DEF EventTellsCause, EventsInOrder
<1> QED
  BY <1>9, <1>10, <1>13, <1>14, <1>15 DEF IInv

(* The observer reads the state of the call that caused the event: its      *)
(* thread still has the dialog, and the slot.                               *)
LEMMA ReportStep ==
  ASSUME IInv, NEW t \in Threads, Report(t)
  PROVE  IInv'
<1>1. Types /\ Mutex /\ ToldBehind /\ EventTellsCause /\ EventsInOrder
      /\ \A u \in Threads : OnTrack(u)
  BY DEF IInv
<1>2. todo[t] # <<>> /\ Head(todo[t])[1] = "report"
  BY DEF Report, AtStep
<1>3. PICK know \in SUBSET Facts, b \in Assertions :
        /\ \A k \in know : Holds(t, k)
        /\ Rule(At(depth[t], know), Head(todo[t]), b)
        /\ Outline(Tail(todo[t]), b, Rest)
        /\ At(depth[t], know).depth = depth[t] /\ At(depth[t], know).know = know
        /\ b.depth \in Depths /\ b.know \in SUBSET Facts /\ b = At(b.depth, b.know)
  BY <1>1, <1>2, NextStep
<1>4. PICK k \in know :
        /\ Head(todo[t]) = <<"report", k.id, k.call, k.st>>
        /\ k.st \in InvStates \ {"new"} /\ k.owes = "event"
        /\ b.depth = depth[t] /\ b.know = {Fact(k.id, k.call, k.st, "nothing")}
  <2>1. ReportRule(At(depth[t], know), Head(todo[t]), b)
    BY <1>2, <1>3, RuleFacts
  <2> QED BY <1>3, <2>1 DEF ReportRule
<1> DEFINE d == k.call
           e == <<k.st, k.st>>
<1>5. k \in Facts /\ Holds(t, k) /\ d \in Dialogs /\ k.id \in Slots /\ k.st # "any"
  <2>1. "any" \notin InvStates
    BY DEF InvStates
  <2> QED BY <1>3, <1>4, <2>1 DEF Facts
<1>6. slot[k.id] = d /\ inv[d] = k.st /\ depth[t][d] > 0 /\ Unfinished(d) /\ d # "none"
  BY <1>4, <1>5, LockFacts DEF Holds
<1>7. /\ told' = [told EXCEPT ![d] = Append(told[d], e)]
      /\ todo' = [todo EXCEPT ![t] = Tail(todo[t])]
      /\ UNCHANGED <<depth, slot, inv, uas, jobs>>
  <2>1. Arg(t, 1) = k.id /\ Arg(t, 2) = d /\ Arg(t, 3) = k.st
    BY <1>4 DEF Arg
  <2> QED BY <2>1, <1>6 DEF Report, Done
<1>8. /\ told'[d] = Append(told[d], e) /\ todo'[t] = Tail(todo[t])
      /\ \A c \in Dialogs : c # d => told'[c] = told[c]
      /\ \A u \in Threads : u # t => todo'[u] = todo[u]
  BY <1>1, <1>5, <1>7 DEF Types
<1> DEFINE n == Len(told[d])
           last == told[d][n]
<1>9. /\ told[d] \in Seq(InvStates \X InvStates) /\ e \in InvStates \X InvStates
      /\ n \in Nat /\ Len(told'[d]) = n + 1 /\ told'[d][n + 1] = e
      /\ \A i \in 1 .. n : told'[d][i] = told[d][i]
      /\ told'[d] \in Seq(InvStates \X InvStates)
  <2>1. told[d] \in Seq(InvStates \X InvStates) /\ e \in InvStates \X InvStates
    BY <1>1, <1>4, <1>5 DEF Types
  <2> HIDE DEF e, d
  <2> QED BY <2>1, <1>8
<1> HIDE DEF d, e
<1>10. Types'
  <2>1. Tail(todo[t]) \in Seq(Steps)
    BY <1>3, OutlineType
  <2> QED BY <1>1, <1>3, <1>5, <1>7, <1>8, <1>9, <2>1 DEF Types
<1>11. Mutex'
  BY <1>1, <1>7 DEF Mutex
<1>12. ASSUME NEW u \in Threads, u # t, NEW m \in Facts, Holds(u, m) PROVE Holds(u, m)'
  <2>1. m.call \in Dialogs
    BY DEF Facts
  <2>2. CASE m.call # d \/ m.st = "any"
    BY <2>1, <2>2, <1>7, <1>8, <1>12 DEF Holds, Unfinished
  <2>3. CASE m.call = d /\ m.st # "any"
    <3>1. inv[d] = m.st /\ m.st # "new"
      BY <2>3, <1>4, <1>6, <1>12 DEF Holds
    <3>2. depth[u][d] > 0 /\ d \in Locks
      BY <2>1, <2>3, <3>1, <1>12, LockFacts DEF Holds
    <3> QED BY <3>2, <1>1, <1>6, <1>12 DEF Mutex
  <2> QED BY <2>2, <2>3
<1>13. OnTrack(t)'
  <2> DEFINE m == Fact(k.id, d, k.st, "nothing")
  <2>1. m \in Facts /\ m.id = k.id /\ m.call = d /\ m.st = k.st /\ m.owes = "nothing"
    BY <1>4, <1>5, FactFacts
  <2>2. b.know = {m}
    BY <1>4 DEF d
  <2> HIDE DEF m
  <2>3. Holds(t, m)'
    BY <1>4, <1>5, <1>6, <1>7, <2>1 DEF Holds
  <2> QED BY <1>3, <1>4, <1>7, <1>8, <2>1, <2>2, <2>3 DEF OnTrack
<1>14. ASSUME NEW u \in Threads PROVE OnTrack(u)'
  <2>1. CASE u = t
    BY <1>13, <2>1
  <2>2. CASE u # t
    BY <1>1, <1>7, <1>8, <1>12, <2>2, OthersOnTrack
  <2> QED BY <2>1, <2>2
<1>15. e[1] = k.st /\ e[2] = k.st
  BY DEF e
<1>16. ToldBehind'
  <2> SUFFICES ASSUME NEW c \in Dialogs, told'[c] # <<>>
               PROVE  Rank(told'[c][Len(told'[c])][1]) <= Rank(inv[c])
    BY <1>7 DEF ToldBehind
  <2>1. CASE c = d
    <3>1. told'[c][Len(told'[c])][1] = k.st /\ inv[c] = k.st
      BY <2>1, <1>6, <1>9, <1>15
    <3>2. Rank(k.st) \in 0 .. 5
      BY <1>4, RankFacts
    <3> QED BY <3>1, <3>2
  <2>2. CASE c # d
    BY <2>2, <1>1, <1>8 DEF ToldBehind
  <2> QED BY <2>1, <2>2
<1>17. EventTellsCause'
  <2> SUFFICES ASSUME NEW c \in Dialogs, NEW i \in DOMAIN told'[c]
               PROVE  told'[c][i][1] = told'[c][i][2]
    BY DEF EventTellsCause
  <2>1. CASE c = d
    <3>1. i \in 1 .. n + 1
      BY <2>1, <1>9, LenProperties
    <3>2. CASE i = n + 1
      BY <2>1, <3>2, <1>9, <1>15
    <3>3. CASE i # n + 1
      <4>1. i \in 1 .. n /\ i \in DOMAIN told[d]
        BY <3>1, <3>3, <1>9, LenProperties
      <4>2. told'[c][i] = told[d][i]
        BY <2>1, <4>1, <1>9
      <4> QED BY <4>1, <4>2, <1>1, <1>5 DEF EventTellsCause, d
    <3> QED BY <3>2, <3>3
  <2>2. CASE c # d
    BY <2>2, <1>1, <1>8 DEF EventTellsCause
  <2> QED BY <2>1, <2>2
<1>18. EventsInOrder'
  <2> SUFFICES ASSUME NEW c \in Dialogs, NEW i \in 1 .. (Len(told'[c]) - 1)
               PROVE  /\ Rank(told'[c][i][1]) <= Rank(told'[c][i + 1][1])
                      /\ told'[c][i][1] # "disconnected"
    BY DEF EventsInOrder
  <2>1. CASE c = d
    <3>1. i \in 1 .. n
      BY <2>1, <1>9
    <3>2. told'[c][i] = told[d][i]
      BY <2>1, <3>1, <1>9
    <3>3. CASE i = n
      <4>1. told'[c][i + 1][1] = k.st
        BY <2>1, <3>3, <1>9, <1>15
      <4>2. told[d] # <<>>
        BY <3>1, <1>9, EmptySeq
      <4>3. Rank(told[d][n][1]) <= Rank(inv[d]) /\ told[d][n][1] # "disconnected"
        BY <4>2, <1>1, <1>5, <1>6 DEF ToldBehind, Unfinished, d
      <4> QED BY <3>2, <3>3, <4>1, <4>3, <1>6
    <3>4. CASE i # n
      <4>1. i \in 1 .. (n - 1) /\ i + 1 \in 1 .. n
        BY <3>1, <3>4, <1>9
      <4>2. told'[c][i + 1] = told[d][i + 1]
        BY <2>1, <4>1, <1>9
      <4> QED BY <3>2, <4>1, <4>2, <1>1, <1>5 DEF EventsInOrder, d
    <3> QED BY <3>3, <3>4
  <2>2. CASE c # d
    BY <2>2, <1>1, <1>8 DEF EventsInOrder
  <2> QED BY <2>1, <2>2
<1> QED
  BY <1>10, <1>11, <1>14, <1>16, <1>17, <1>18 DEF IInv

(* reset_call: the call that had the slot is over, so that only its own     *)
(* thread knew where it was.                                                *)
LEMMA ResetCallStep ==
  ASSUME IInv, NEW t \in Threads, ResetCall(t)
  PROVE  IInv'
<1>1. Types /\ Mutex /\ ToldBehind /\ EventTellsCause /\ EventsInOrder
      /\ \A u \in Threads : OnTrack(u)
  BY DEF IInv
<1>2. todo[t] # <<>> /\ Head(todo[t])[1] = "free"
  BY DEF ResetCall, AtStep
<1>3. PICK know \in SUBSET Facts, b \in Assertions :
        /\ \A k \in know : Holds(t, k)
        /\ Rule(At(depth[t], know), Head(todo[t]), b)
        /\ Outline(Tail(todo[t]), b, Rest)
        /\ At(depth[t], know).depth = depth[t] /\ At(depth[t], know).know = know
        /\ b.depth \in Depths /\ b.know \in SUBSET Facts /\ b = At(b.depth, b.know)
  BY <1>1, <1>2, NextStep
<1>4. PICK k \in know :
        /\ Head(todo[t]) = <<"free", k.id>> /\ k.st = "disconnected"
        /\ b.depth = depth[t] /\ b.know = {}
  <2>1. FreeRule(At(depth[t], know), Head(todo[t]), b)
    BY <1>2, <1>3, RuleFacts
  <2> QED BY <1>3, <2>1 DEF FreeRule
<1> DEFINE d == k.call
<1>5. k \in Facts /\ Holds(t, k) /\ d \in Dialogs /\ k.id \in Slots
  BY <1>3, <1>4 DEF Facts
<1>6. slot[k.id] = d /\ inv[d] = "disconnected" /\ depth[t][d] > 0
  BY <1>4, <1>5 DEF Holds
<1>7. /\ slot' = [slot EXCEPT ![k.id] = "none"]
      /\ todo' = [todo EXCEPT ![t] = Tail(todo[t])]
      /\ UNCHANGED <<depth, inv, uas, told, jobs>>
  <2>1. Arg(t, 1) = k.id
    BY <1>4 DEF Arg
  <2> QED BY <2>1 DEF ResetCall, Done
<1>8. /\ todo'[t] = Tail(todo[t])
      /\ \A i \in Slots : i # k.id => slot'[i] = slot[i]
      /\ \A u \in Threads : u # t => todo'[u] = todo[u]
  BY <1>1, <1>5, <1>7 DEF Types
<1> HIDE DEF d
<1>9. Types'
  <2>1. Tail(todo[t]) \in Seq(Steps)
    BY <1>3, OutlineType
  <2> QED BY <1>1, <1>3, <1>5, <1>7, <2>1 DEF Types
<1>10. Mutex'
  BY <1>1, <1>7 DEF Mutex
<1>11. ASSUME NEW u \in Threads, u # t, NEW m \in Facts, Holds(u, m) PROVE Holds(u, m)'
  <2>1. m.call \in Dialogs /\ m.id \in Slots
    BY DEF Facts
  <2>2. CASE m.id # k.id
    BY <2>1, <2>2, <1>7, <1>8, <1>11 DEF Holds, Unfinished
  <2>3. CASE m.id = k.id /\ m.st = "any"
    <3>1. inv[m.call] = "disconnected"
      BY <2>3, <1>6, <1>11 DEF Holds
    <3> QED BY <2>3, <3>1, <1>7 DEF Holds
  <2>4. CASE m.id = k.id /\ m.st # "any"
    <3>1. m.call = d /\ m.st = "disconnected"
      BY <2>4, <1>6, <1>11 DEF Holds
    <3>2. depth[u][d] > 0 /\ d \in Locks
      BY <2>1, <2>4, <3>1, <1>11, LockFacts DEF Holds
    <3> QED BY <3>2, <1>1, <1>6, <1>11 DEF Mutex
  <2> QED BY <2>2, <2>3, <2>4
<1>12. ASSUME NEW u \in Threads PROVE OnTrack(u)'
  <2>1. CASE u = t
    <3>1. \A m \in {} : Holds(t, m)'
      OBVIOUS
    <3> QED BY <1>3, <1>4, <1>7, <1>8, <2>1, <3>1 DEF OnTrack
  <2>2. CASE u # t
    BY <1>1, <1>7, <1>8, <1>11, <2>2, OthersOnTrack
  <2> QED BY <2>1, <2>2
<1>13. (ToldBehind /\ EventTellsCause /\ EventsInOrder)'
  BY <1>1, <1>7 DEF ToldBehind, EventTellsCause, EventsInOrder
<1> QED
  BY <1>9, <1>10, <1>12, <1>13 DEF IInv

(* alloc_call_id under PJSUA_LOCK: the slot was free, and nobody else knows *)
(* of a call that has no state.                                             *)
LEMMA AllocCallStep ==
  ASSUME IInv, NEW t \in Threads, AllocCall(t)
  PROVE  IInv'
<1>1. Types /\ Mutex /\ ToldBehind /\ EventTellsCause /\ EventsInOrder
      /\ \A u \in Threads : OnTrack(u)
  BY DEF IInv
<1>2. todo[t] # <<>> /\ Head(todo[t])[1] = "alloc"
  BY DEF AllocCall, AtStep
<1>3. PICK know \in SUBSET Facts, b \in Assertions :
        /\ \A k \in know : Holds(t, k)
        /\ Rule(At(depth[t], know), Head(todo[t]), b)
        /\ Outline(Tail(todo[t]), b, Rest)
        /\ At(depth[t], know).depth = depth[t] /\ At(depth[t], know).know = know
        /\ b.depth \in Depths /\ b.know \in SUBSET Facts /\ b = At(b.depth, b.know)
  BY <1>1, <1>2, NextStep
<1>4. depth[t] = Up(b.depth, "pjsua") /\ b.know = {}
  BY <1>2, <1>3, RuleFacts DEF AllocRule
<1>5. depth[t]["pjsua"] > 0
  BY <1>3, <1>4, UpFacts, LockFacts DEF Depths
<1>6. PICK id \in Slots, d \in Dialogs :
        /\ slot[id] = "none" /\ inv[d] = "new"
        /\ slot' = [slot EXCEPT ![id] = d]
        /\ \/ /\ inv' = [inv EXCEPT ![d] = "incoming"] /\ uas' = uas \cup {d}
              /\ todo' = [todo EXCEPT ![t] = IncomingRest(id, d) \o Tail(todo[t])]
           \/ /\ UNCHANGED <<inv, uas>>
              /\ todo' = [todo EXCEPT ![t] = PlaceCallRest(id, d) \o Tail(todo[t])]
  BY DEF AllocCall, Run
<1>7. UNCHANGED <<depth, told, jobs>>
  BY DEF AllocCall
<1>8. PICK left \in SUBSET Facts, script \in Seq(Steps) :
        /\ \A k \in left : Holds(t, k)'
        /\ todo' = [todo EXCEPT ![t] = script]
        /\ Outline(script, At(depth[t], left), Rest)
  <2>1. CASE todo' = [todo EXCEPT ![t] = IncomingRest(id, d) \o Tail(todo[t])]
    <3>1. Outline(IncomingRest(id, d), At(depth[t], {}), b)
      BY <1>3, <1>4, IncomingRestOutline
    <3>2. Outline(IncomingRest(id, d) \o Tail(todo[t]), At(depth[t], {}), Rest)
      BY <3>1, <1>3, OutlineConcat
    <3>3. IncomingRest(id, d) \o Tail(todo[t]) \in Seq(Steps) /\ \A k \in {} : Holds(t, k)'
      BY <3>2, OutlineType
    <3> QED BY <2>1, <3>2, <3>3
  <2>2. CASE /\ UNCHANGED <<inv, uas>>
             /\ todo' = [todo EXCEPT ![t] = PlaceCallRest(id, d) \o Tail(todo[t])]
    <3> DEFINE k == Fact(id, d, "new", "nothing")
    <3>1. k \in Facts /\ k.id = id /\ k.call = d /\ k.st = "new" /\ k.owes = "nothing"
      BY FactFacts DEF InvStates
    <3>2. Outline(PlaceCallRest(id, d), At(depth[t], {k}), b)
      BY <1>3, <1>4, PlaceCallRestOutline
    <3>3. Outline(PlaceCallRest(id, d) \o Tail(todo[t]), At(depth[t], {k}), Rest)
      BY <3>2, <1>3, OutlineConcat
    <3>4. PlaceCallRest(id, d) \o Tail(todo[t]) \in Seq(Steps)
      BY <3>3, OutlineType
    <3> HIDE DEF k
    <3>5. slot'[id] = d
      BY <1>1, <1>6 DEF Types
    <3>6. Holds(t, k)'
      BY <2>2, <3>1, <3>5, <1>5, <1>6, <1>7 DEF Holds
    <3> QED BY <2>2, <3>1, <3>3, <3>4, <3>6
  <2> QED BY <1>6, <2>1, <2>2
<1>9. /\ slot'[id] = d /\ inv'[d] \in {"new", "incoming"} /\ todo'[t] = script
      /\ \A i \in Slots : i # id => slot'[i] = slot[i]
      /\ \A e \in Dialogs : e # d => inv'[e] = inv[e]
      /\ \A u \in Threads : u # t => todo'[u] = todo[u]
  BY <1>1, <1>6, <1>8 DEF Types
<1>10. Types'
  <2>1. inv' \in [Dialogs -> InvStates] /\ uas' \subseteq Dialogs
    BY <1>1, <1>6 DEF Types, InvStates
  <2> QED BY <1>1, <1>6, <1>7, <1>8, <2>1 DEF Types
<1>11. Mutex'
  BY <1>1, <1>7 DEF Mutex
<1>12. ASSUME NEW u \in Threads, u # t, NEW m \in Facts, Holds(u, m) PROVE Holds(u, m)'
  <2>1. m.call \in Dialogs /\ m.id \in Slots /\ m.call # "none"
    BY LockFacts DEF Facts
  <2>2. slot[m.id] = m.call => slot'[m.id] = m.call
    BY <2>1, <1>6, <1>9
  <2>3. CASE m.st = "any"
    <3>1. inv[m.call] = "disconnected" => inv'[m.call] = "disconnected"
      BY <2>1, <1>6, <1>9
    <3> QED BY <2>2, <2>3, <3>1, <1>12 DEF Holds
  <2>4. CASE m.st # "any"
    <3>1. slot[m.id] = m.call /\ inv[m.call] = m.st
      BY <2>4, <1>12 DEF Holds
    <3>2. m.call # d
      <4> SUFFICES ASSUME m.call = d PROVE FALSE
        OBVIOUS
      <4>1. depth[u]["pjsua"] > 0
        BY <3>1, <1>6, <1>12, <2>4 DEF Holds
      <4> QED BY <4>1, <1>1, <1>5, <1>12, LockFacts DEF Mutex
    <3>3. inv'[m.call] = inv[m.call]
      BY <2>1, <3>2, <1>9
    <3> QED BY <2>2, <2>4, <3>1, <3>3, <1>7, <1>12 DEF Holds, Unfinished
  <2> QED BY <2>3, <2>4
<1>13. ASSUME NEW u \in Threads PROVE OnTrack(u)'
  <2>1. CASE u = t
    BY <1>7, <1>8, <1>9, <2>1 DEF OnTrack
  <2>2. CASE u # t
    BY <1>1, <1>7, <1>9, <1>12, <2>2, OthersOnTrack
  <2> QED BY <2>1, <2>2
<1>14. ToldBehind'
  <2> SUFFICES ASSUME NEW e \in Dialogs, told[e] # <<>>
               PROVE  Rank(told[e][Len(told[e])][1]) <= Rank(inv'[e])
    BY <1>7 DEF ToldBehind
  <2>1. Rank(told[e][Len(told[e])][1]) <= Rank(inv[e])
    BY <1>1 DEF ToldBehind
  <2>2. CASE e = d
    <3>1. told[d][Len(told[d])] \in InvStates \X InvStates
      <4>1. told[d] \in Seq(InvStates \X InvStates)
        BY <1>1, <2>2 DEF Types
      <4>2. Len(told[d]) \in 1 .. Len(told[d])
        BY <4>1, <2>2, EmptySeq, LenProperties
      <4> QED BY <4>1, <4>2, ElementOfSeq
    <3>2. Rank(told[d][Len(told[d])][1]) \in 0 .. 5 /\ Rank("new") = 0 /\ Rank("incoming") = 1
      BY <3>1, RankFacts DEF Rank
    <3> QED BY <2>1, <2>2, <3>2, <1>6, <1>9
  <2>3. CASE e # d
    BY <2>1, <2>3, <1>9
  <2> QED BY <2>2, <2>3
<1>15. (EventTellsCause /\ EventsInOrder)'
  BY <1>1, <1>7 DEF EventTellsCause, EventsInOrder
<1> QED
  BY <1>10, <1>11, <1>13, <1>14, <1>15 DEF IInv

(* The call is refused: PJSUA_LOCK is given back, and the job is done. *)
LEMMA AllocFailsStep ==
  ASSUME IInv, NEW t \in Threads, AllocFails(t)
  PROVE  IInv'
<1>1. Types /\ \A u \in Threads : OnTrack(u)
  BY DEF IInv
<1>2. todo[t] # <<>> /\ Head(todo[t])[1] = "alloc"
  BY DEF AllocFails, AtStep
<1>3. PICK know \in SUBSET Facts, b \in Assertions :
        /\ \A k \in know : Holds(t, k)
        /\ Rule(At(depth[t], know), Head(todo[t]), b)
        /\ Outline(Tail(todo[t]), b, Rest)
        /\ At(depth[t], know).depth = depth[t] /\ At(depth[t], know).know = know
        /\ b.depth \in Depths /\ b.know \in SUBSET Facts /\ b = At(b.depth, b.know)
  BY <1>1, <1>2, NextStep
<1>4. depth[t] = Up(b.depth, "pjsua") /\ b.know = {}
  BY <1>2, <1>3, RuleFacts DEF AllocRule
<1>5. Outline(Give("pjsua") \o Tail(todo[t]), At(depth[t], {}), Rest)
  <2>1. Outline(Give("pjsua"), At(depth[t], {}), b)
    BY <1>3, <1>4, LockFacts, GiveOutline DEF NoneNew
  <2> QED BY <2>1, <1>3, OutlineConcat
<1>6. /\ depth[t] \in Depths /\ depth' = [depth EXCEPT ![t] = depth[t]]
      /\ todo' = [todo EXCEPT ![t] = Give("pjsua") \o Tail(todo[t])]
      /\ UNCHANGED callVars /\ UNCHANGED jobs
  BY <1>1 DEF AllocFails, Run, Types
<1>7. \A k \in {} : Holds(t, k)'
  OBVIOUS
<1> DEFINE script == Give("pjsua") \o Tail(todo[t])
           g == depth[t]
<1>8. /\ Outline(script, At(g, {}), Rest) /\ todo' = [todo EXCEPT ![t] = script]
      /\ g \in Depths /\ depth' = [depth EXCEPT ![t] = g]
  BY <1>5, <1>6
<1>9. \A l \in Locks : g[l] > 0 => depth[t][l] > 0 \/ Free(t, l)
  OBVIOUS
<1>10. {} \in SUBSET Facts
  OBVIOUS
<1>11. UNCHANGED callVars /\ UNCHANGED jobs
  BY <1>6
<1> HIDE DEF script, g
<1> QED
  BY <1>7, <1>8, <1>9, <1>10, <1>11, LocalStep

(* acquire_call gives up and has taken nothing. *)
LEMMA AcquireFailsStep ==
  ASSUME IInv, NEW t \in Threads, AcquireFails(t)
  PROVE  IInv'
<1>1. Types /\ \A u \in Threads : OnTrack(u)
  BY DEF IInv
<1>2. todo[t] # <<>> /\ Head(todo[t])[1] = "acquire"
  BY DEF AcquireFails, AtStep
<1>3. PICK know \in SUBSET Facts, b \in Assertions :
        /\ \A k \in know : Holds(t, k)
        /\ Rule(At(depth[t], know), Head(todo[t]), b)
        /\ Outline(Tail(todo[t]), b, Rest)
        /\ At(depth[t], know).depth = depth[t] /\ At(depth[t], know).know = know
        /\ b.depth \in Depths /\ b.know \in SUBSET Facts /\ b = At(b.depth, b.know)
  BY <1>1, <1>2, NextStep
<1>4. b.depth = depth[t] /\ b.know = {}
  BY <1>2, <1>3, RuleFacts DEF AcquireRule
<1>5. /\ depth[t] \in Depths /\ depth' = [depth EXCEPT ![t] = depth[t]]
      /\ todo' = [todo EXCEPT ![t] = Tail(todo[t])]
      /\ UNCHANGED callVars /\ UNCHANGED jobs
  BY <1>1 DEF AcquireFails, Done, Types
<1>6. \A k \in {} : Holds(t, k)'
  OBVIOUS
<1> QED
  BY <1>3, <1>4, <1>5, <1>6, LocalStep

(* acquire_call: with the dialog comes the knowledge of the state and the  *)
(* slot of the call.                                                        *)
LEMMA AcquireCallStep ==
  ASSUME IInv, NEW t \in Threads, AcquireCall(t)
  PROVE  IInv'
<1>1. Types /\ \A u \in Threads : OnTrack(u)
  BY DEF IInv
<1>2. todo[t] # <<>> /\ Head(todo[t])[1] = "acquire"
  BY DEF AcquireCall, AtStep
<1>3. PICK know \in SUBSET Facts, b \in Assertions :
        /\ \A k \in know : Holds(t, k)
        /\ Rule(At(depth[t], know), Head(todo[t]), b)
        /\ Outline(Tail(todo[t]), b, Rest)
        /\ At(depth[t], know).depth = depth[t] /\ At(depth[t], know).know = know
        /\ b.depth \in Depths /\ b.know \in SUBSET Facts /\ b = At(b.depth, b.know)
  BY <1>1, <1>2, NextStep
<1>4. b = At(depth[t], {}) /\ depth[t] \in Depths
  <2>1. b.depth = depth[t] /\ b.know = {}
    BY <1>2, <1>3, RuleFacts DEF AcquireRule
  <2> QED BY <1>1, <1>3, <2>1 DEF Types
<1>5. PICK id \in Slots, what \in {"hangup", "180", "200"} : Head(todo[t]) = <<"acquire", id, what>>
  BY <1>2, <1>3, RuleFacts DEF AcquireRule
<1> DEFINE d == slot[id]
           g == Up(depth[t], d)
<1>6. d \in Dialogs /\ Free(t, d)
  <2>1. Arg(t, 1) = id
    BY <1>5 DEF Arg
  <2>2. d # "none" /\ Free(t, d)
    BY <2>1 DEF AcquireCall, DialogFree
  <2> QED BY <1>1, <2>2 DEF Types
<1>7. PICK steps \in Operate(id, d, what) : todo' = [todo EXCEPT ![t] = steps \o Give(d) \o Tail(todo[t])]
  <2>1. Arg(t, 1) = id /\ Arg(t, 2) = what
    BY <1>5 DEF Arg
  <2> QED BY <2>1 DEF AcquireCall, Run
<1>8. depth' = [depth EXCEPT ![t] = g] /\ UNCHANGED callVars /\ UNCHANGED jobs
  <2>1. Arg(t, 1) = id
    BY <1>5 DEF Arg
  <2> QED BY <2>1 DEF AcquireCall, Up
<1>9. /\ g \in Depths /\ g[d] > 0 /\ inv[d] \in InvStates
      /\ \A m \in Locks : m # d => g[m] = depth[t][m]
  <2>1. depth[t] \in Depths /\ d \in Locks /\ depth[t][d] \in Nat
    BY <1>4, <1>6, LockFacts DEF Depths
  <2>2. /\ g \in Depths /\ g[d] = depth[t][d] + 1
        /\ \A m \in Locks : m # d => g[m] = depth[t][m]
    BY <2>1, UpFacts
  <2>3. inv[d] \in InvStates
    BY <1>1, <1>6 DEF Types
  <2> QED BY <2>1, <2>2, <2>3
<1>10. depth'[t] = g
  BY <1>1, <1>8 DEF Types
<1> HIDE DEF g, d
<1>11. Outline(steps \o Give(d) \o Tail(todo[t]), At(g, Known(id, d)), Rest)
  <2>1. Outline(steps \o Give(d), At(g, Known(id, d)), b)
    BY <1>4, <1>6, <1>9, OperateFollows, ReleaseOutline DEF g
  <2> QED BY <2>1, <1>3, OutlineConcat
<1>12. Known(id, d) \in SUBSET Facts
  BY <1>6, <1>9, KnownFacts
<1>13. ASSUME NEW k \in Known(id, d) PROVE Holds(t, k)'
  <2>1. k = Fact(id, d, inv[d], "nothing") /\ inv[d] # "new"
    BY DEF Known
  <2>2. k.id = id /\ k.call = d /\ k.st = inv[d] /\ k.owes = "nothing"
    BY <2>1, <1>6, <1>9, FactFacts
  <2>3. inv[d] # "any"
    BY <1>9 DEF InvStates
  <2> QED BY <2>1, <2>2, <2>3, <1>8, <1>9, <1>10 DEF Holds, callVars, d
<1>14. \A m \in Locks : g[m] > 0 => depth[t][m] > 0 \/ Free(t, m)
  BY <1>6, <1>9
<1> QED
  BY <1>7, <1>8, <1>9, <1>11, <1>12, <1>13, <1>14, LocalStep

(* The event of a call: once the dialog is locked, the call is still in its *)
(* slot or it is over, and nothing happens.                                 *)
LEMMA DialogEventStep ==
  ASSUME IInv, NEW t \in Threads, DialogEvent(t)
  PROVE  IInv'
<1>1. Types /\ \A u \in Threads : OnTrack(u)
  BY DEF IInv
<1>2. todo[t] # <<>> /\ Head(todo[t])[1] = "event"
  BY DEF DialogEvent, AtStep
<1>3. PICK know \in SUBSET Facts, b \in Assertions :
        /\ \A k \in know : Holds(t, k)
        /\ Rule(At(depth[t], know), Head(todo[t]), b)
        /\ Outline(Tail(todo[t]), b, Rest)
        /\ At(depth[t], know).depth = depth[t] /\ At(depth[t], know).know = know
        /\ b.depth \in Depths /\ b.know \in SUBSET Facts /\ b = At(b.depth, b.know)
  BY <1>1, <1>2, NextStep
<1>4. PICK k \in know :
        /\ Head(todo[t]) = <<"event", k.id, k.call>> /\ k.st = "any"
        /\ b = At(depth[t], {}) /\ depth[t] \in Depths
  <2>1. EventRule(At(depth[t], know), Head(todo[t]), b)
    BY <1>2, <1>3, RuleFacts
  <2> QED BY <1>1, <1>3, <2>1 DEF EventRule, Types
<1> DEFINE id == k.id
           d == k.call
           g == Up(depth[t], d)
<1>5. /\ id \in Slots /\ d \in Dialogs
      /\ slot[id] = d \/ inv[d] = "disconnected"
  BY <1>3, <1>4 DEF Facts, Holds
<1>6. /\ Free(t, d)
      /\ depth' = [depth EXCEPT ![t] = g] /\ UNCHANGED callVars /\ UNCHANGED jobs
  <2>1. Arg(t, 2) = d
    BY <1>4 DEF Arg
  <2> QED BY <2>1 DEF DialogEvent, Up
<1>7. PICK steps \in EventChanges(id, d) : todo' = [todo EXCEPT ![t] = steps \o Give(d) \o Tail(todo[t])]
  <2>1. Arg(t, 1) = id /\ Arg(t, 2) = d
    BY <1>4 DEF Arg
  <2> QED BY <2>1 DEF DialogEvent, Run
<1>8. /\ g \in Depths /\ g[d] > 0 /\ inv[d] \in InvStates
      /\ \A m \in Locks : m # d => g[m] = depth[t][m]
  <2>1. depth[t] \in Depths /\ d \in Locks /\ depth[t][d] \in Nat
    BY <1>4, <1>5, LockFacts DEF Depths
  <2>2. /\ g \in Depths /\ g[d] = depth[t][d] + 1
        /\ \A m \in Locks : m # d => g[m] = depth[t][m]
    BY <2>1, UpFacts
  <2>3. inv[d] \in InvStates
    BY <1>1, <1>5 DEF Types
  <2> QED BY <2>1, <2>2, <2>3
<1>9. depth'[t] = g
  BY <1>1, <1>6 DEF Types
<1> HIDE DEF g, d, id
<1>10. \A m \in Locks : g[m] > 0 => depth[t][m] > 0 \/ Free(t, m)
  BY <1>6, <1>8
<1>11. CASE inv[d] = "disconnected"
  <2>1. steps = <<>>
    BY <1>11 DEF EventChanges
  <2>2. Outline(<<>>, At(g, {}), At(g, {}))
    BY <1>8, AtFacts, OutlineEmpty
  <2>3. Outline(Give(d), At(g, {}), b)
    BY <1>4, <1>5, LockFacts, GiveOutline DEF g
  <2>4. Outline(steps \o Give(d), At(g, {}), b)
    BY <2>1, <2>2, <2>3, OutlineConcat
  <2>5. Outline(steps \o Give(d) \o Tail(todo[t]), At(g, {}), Rest)
    BY <2>4, <1>3, OutlineConcat
  <2>6. (\A m \in {} : Holds(t, m)') /\ {} \in SUBSET Facts
    OBVIOUS
  <2> DEFINE script == steps \o Give(d) \o Tail(todo[t])
  <2>7. Outline(script, At(g, {}), Rest) /\ todo' = [todo EXCEPT ![t] = script]
    BY <1>7, <2>5
  <2> HIDE DEF script
  <2> QED BY <1>6, <1>8, <1>10, <2>6, <2>7, LocalStep
<1>12. CASE inv[d] # "disconnected"
  <2>1. Outline(steps \o Give(d), At(g, Known(id, d)), b)
    BY <1>4, <1>5, <1>8, EventFollows, ReleaseOutline DEF g
  <2>2. Outline(steps \o Give(d) \o Tail(todo[t]), At(g, Known(id, d)), Rest)
    BY <2>1, <1>3, OutlineConcat
  <2>3. Known(id, d) \in SUBSET Facts
    BY <1>5, <1>8, KnownFacts
  <2>4. ASSUME NEW m \in Known(id, d) PROVE Holds(t, m)'
    <3>1. m = Fact(id, d, inv[d], "nothing") /\ inv[d] # "new"
      BY DEF Known
    <3>2. m.id = id /\ m.call = d /\ m.st = inv[d] /\ m.owes = "nothing"
      BY <3>1, <1>5, <1>8, FactFacts
    <3>3. inv[d] # "any"
      BY <1>8 DEF InvStates
    <3> QED BY <3>1, <3>2, <3>3, <1>5, <1>6, <1>8, <1>9, <1>12 DEF Holds, callVars
  <2> QED BY <1>6, <1>7, <1>8, <1>10, <2>2, <2>3, <2>4, LocalStep
<1> QED
  BY <1>11, <1>12

-----------------------------------------------------------------------------
(* Every thread keeps to the outline of its job, and the facts it relies on *)
(* stay true whatever the others do.                                        *)
THEOREM Invariance == Spec => []IInv
<1>1. Init => IInv
  BY InitIInv
<1>2. IInv /\ [Next]_vars => IInv'
  <2>1. ASSUME IInv, NEW t \in Threads, Begin(t) \/ Continue(t) PROVE IInv'
    BY <2>1, BeginStep, TakeLockStep, GiveLockStep, SetStateStep, ReportStep, ResetCallStep,
       AllocCallStep, AllocFailsStep, AcquireCallStep, AcquireFailsStep, DialogEventStep
       DEF Continue
  <2>2. ASSUME IInv, UNCHANGED vars PROVE IInv'
    <3>1. Types' /\ Mutex'
      BY <2>2 DEF IInv, Types, Mutex, vars
    <3>2. ASSUME NEW t \in Threads PROVE OnTrack(t)'
      <4>1. \A k \in Facts : Holds(t, k) => Holds(t, k)'
        BY <2>2 DEF vars, Holds, Unfinished
      <4> QED BY <2>2, <4>1, OthersOnTrack DEF IInv, vars
    <3>3. (ToldBehind /\ EventTellsCause /\ EventsInOrder)'
      BY <2>2 DEF IInv, vars, ToldBehind, EventTellsCause, EventsInOrder
    <3> QED BY <3>1, <3>2, <3>3 DEF IInv
  <2> QED BY <2>1, <2>2 DEF Next
<1> QED
  BY <1>1, <1>2, PTL DEF Spec

(* Locks are taken and given back in pairs, whatever a job does: a thread   *)
(* without a job holds none. The rest of TypeOK is types.                   *)
THEOREM TypeCorrect == Spec => []TypeOK
<1>1. IInv => TypeOK
  <2> SUFFICES ASSUME IInv PROVE TypeOK
    OBVIOUS
  <2>1. Types /\ \A t \in Threads : OnTrack(t)
    BY DEF IInv
  <2>2. ASSUME NEW t \in Threads, todo[t] = <<>>, NEW l \in Locks PROVE depth[t][l] = 0
    BY <2>1, <2>2, IdleHoldsNothing
  <2> QED BY <2>1, <2>2 DEF Types, TypeOK, Depths
<1> QED
  BY <1>1, Invariance, PTL

(* Every CALL event reports the state whose change it announces, although   *)
(* the observer asks for it by call id, later and on the queue              *)
(* (callStateDidChange after pjsua_call_on_state_changed).                  *)
THEOREM EventsTellTheirCause == Spec => []EventTellsCause
<1>1. IInv => EventTellsCause
  BY DEF IInv
<1> QED
  BY <1>1, Invariance, PTL

(* The events of a call never go back and end with its disconnection,       *)
(* whichever threads cause them (inv_set_state under the dialog's lock).    *)
THEOREM EventsComeInOrder == Spec => []EventsInOrder
<1>1. IInv => EventsInOrder
  BY DEF IInv
<1> QED
  BY <1>1, Invariance, PTL

=============================================================================
