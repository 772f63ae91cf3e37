------------------------- MODULE TimerHeap_proofs --------------------------
(***************************************************************************)
(* The timer heap of any size, with any number of entries and pollers: its *)
(* arrays are consistent and in order, the references on the group locks   *)
(* balance, and it is the set of timers of module Timers.                  *)
(*                                                                         *)
(* The provers know no induction.  An induction over slots is a proof that *)
(* a set of numbers, those the claim fails for, has no least element.      *)
(***************************************************************************)
EXTENDS TimerHeap, FiniteSetTheorems, TLAPS

-----------------------------------------------------------------------------
(* Numbers. *)

LEMMA LeastElement ==
  ASSUME NEW T \in SUBSET Nat, T # {}
  PROVE  \E m \in T : \A n \in T : m <= n
<1> DEFINE Below == {0 .. n : n \in T}
           R == StrictSubsetOrdering(Nat)
<1>1. Below \subseteq FiniteSubsetsOf(Nat) /\ Below # {}
  <2>1. \A n \in T : 0 .. n \in SUBSET Nat /\ IsFiniteSet(0 .. n)
    BY FS_Interval
  <2> QED BY <2>1 DEF FiniteSubsetsOf
<1>2. IsWellFoundedOn(R, FiniteSubsetsOf(Nat))
  BY FS_StrictSubsetOrderingWellFounded
<1> HIDE DEF R, Below
<1>3. PICK x \in Below : \A y \in Below : ~ (<<y, x>> \in R)
  BY <1>1, <1>2, WFMin
<1>4. PICK m \in T : x = 0 .. m
  BY DEF Below
<1>5. ASSUME NEW n \in T, n < m PROVE FALSE
  <2>1. 0 .. n \in Below
    BY DEF Below
  <2>2. 0 .. n \subseteq 0 .. m /\ m \in 0 .. m /\ m \notin 0 .. n
    BY <1>5
  <2>3. 0 .. n \in SUBSET Nat /\ 0 .. m \in SUBSET Nat
    OBVIOUS
  <2>4. <<0 .. n, x>> \in R
    BY <1>4, <2>2, <2>3 DEF R, StrictSubsetOrdering
  <2> QED BY <1>3, <2>1, <2>4
<1> QED BY <1>5

LEMMA TreeFacts ==
  /\ Parent(0) = 0
  /\ \A s \in Nat : s # 0 => /\ Parent(s) \in Nat /\ Parent(s) < s
                             /\ s \in {Left(Parent(s)), Left(Parent(s)) + 1}
  /\ \A s \in Nat : /\ Left(s) \in Nat /\ Left(s) > s
                    /\ Parent(Left(s)) = s /\ Parent(Left(s) + 1) = s
BY DEF Parent, Left

-----------------------------------------------------------------------------
(* The course that a reheap takes: next descends, by the measure m, from    *)
(* every slot that is moving.                                               *)
Descends(next, moving, m, N) ==
  /\ moving \subseteq DOMAIN next
  /\ m \in [DOMAIN next -> 0 .. N]
  /\ \A s \in moving : next[s] \in DOMAIN next /\ m[next[s]] < m[s]

LEMMA CourseExists ==
  ASSUME NEW next, NEW moving, NEW m, NEW N \in Nat, Descends(next, moving, m, N)
  PROVE  LET course == Course(moving, next) IN
         course = [s \in DOMAIN next |->
                     IF s \in moving THEN {s} \cup course[next[s]] ELSE {s}]
<1> DEFINE S == DOMAIN next
           At(f, s) == IF s \in moving THEN {s} \cup f[next[s]] ELSE {s}
           Good(k) == \E f : /\ f = [s \in S |-> f[s]]
                             /\ \A s \in S : m[s] <= k => f[s] = At(f, s)
           T == {k \in 0 .. N : ~Good(k)}
<1>1. /\ moving \subseteq S /\ m \in [S -> 0 .. N]
      /\ \A s \in moving : next[s] \in S /\ m[next[s]] < m[s]
  BY DEF Descends
<1>2. T = {}
  <2>1. SUFFICES ASSUME T # {} PROVE FALSE
    OBVIOUS
  <2>2. PICK k \in T : \A n \in T : k <= n
    <3>1. T \in SUBSET Nat
      OBVIOUS
    <3> QED BY <2>1, <3>1, LeastElement
  <2>3. PICK f : \A s \in S : m[s] < k => f[s] = At(f, s)
    <3>1. CASE k = 0
      <4>1. \A s \in S : m[s] < k => next[s] = At(next, s)
        BY <1>1, <3>1
      <4> QED BY <4>1
    <3>2. CASE k # 0
      <4>1. k - 1 \in 0 .. N /\ Good(k - 1)
        <5> HIDE DEF Good
        <5> QED BY <2>2, <3>2
      <4>2. PICK f : \A s \in S : m[s] <= k - 1 => f[s] = At(f, s)
        BY <4>1
      <4>3. k \in 0 .. N /\ \A s \in S : m[s] < k => m[s] <= k - 1
        BY <1>1, <2>2
      <4> QED BY <4>2, <4>3
    <3> QED BY <3>1, <3>2
  <2> DEFINE g == [s \in S |-> IF m[s] < k THEN f[s] ELSE At(f, s)]
  <2>4. ASSUME NEW s \in S, m[s] <= k PROVE g[s] = At(g, s)
    <3>1. s \in moving => g[next[s]] = f[next[s]]
      <4>1. k \in 0 .. N /\ m[s] \in 0 .. N
        BY <1>1, <2>2
      <4>2. s \in moving => next[s] \in S /\ m[next[s]] < k /\ m[next[s]] \in 0 .. N
        BY <1>1, <2>4, <4>1
      <4> QED BY <4>2
    <3>2. g[s] = At(f, s)
      BY <2>3
    <3> QED BY <3>1, <3>2
  <2>5. g = [s \in S |-> g[s]]
    OBVIOUS
  <2> HIDE DEF g
  <2>6. Good(k)
    BY <2>4, <2>5
  <2> HIDE DEF Good
  <2> QED BY <2>2, <2>6
<1>3. PICK f : f = [s \in S |-> f[s]] /\ \A s \in S : m[s] <= N => f[s] = At(f, s)
  <2>1. N \in 0 .. N
    OBVIOUS
  <2>2. Good(N)
    <3> HIDE DEF Good
    <3> QED BY <1>2, <2>1
  <2> QED BY <2>2
<1>4. \A s \in S : f[s] = At(f, s)
  <2>1. \A s \in S : m[s] <= N
    BY <1>1
  <2> QED BY <1>3, <2>1
<1>5. f = [s \in DOMAIN next |-> IF s \in moving THEN {s} \cup f[next[s]] ELSE {s}]
  BY <1>3, <1>4
<1> QED BY <1>5 DEF Course

(* C is a way from slot: next leads from each moving slot of C to another   *)
(* and meets all but the first; one slot of C is not moving, and is lowest. *)
IsWay(C, slot, next, moving, m) ==
  /\ slot \in C /\ C \subseteq DOMAIN next
  /\ \A s \in C \cap moving : next[s] \in C /\ next[s] # slot
  /\ \A d \in C : d # slot => \E s \in C \cap moving : next[s] = d
  /\ \A s, t \in C \cap moving : next[s] = next[t] => s = t
  /\ \E d \in C : /\ d \notin moving
                  /\ \A s \in C : m[d] <= m[s] /\ m[s] <= m[slot] /\ (s \notin moving => s = d)

LEMMA CourseIsWay ==
  ASSUME NEW next, NEW moving, NEW m, NEW N \in Nat, Descends(next, moving, m, N),
         NEW slot \in DOMAIN next
  PROVE  IsWay(Course(moving, next)[slot], slot, next, moving, m)
<1> DEFINE S == DOMAIN next
           course == Course(moving, next)
           T == {k \in 0 .. N : \E s \in S : m[s] = k /\ ~IsWay(course[s], s, next, moving, m)}
<1>1. /\ moving \subseteq S /\ m \in [S -> 0 .. N]
      /\ \A s \in moving : next[s] \in S /\ m[next[s]] < m[s]
  BY DEF Descends
<1>2. \A s \in S : course[s] = IF s \in moving THEN {s} \cup course[next[s]] ELSE {s}
  <2>1. course = [s \in S |-> IF s \in moving THEN {s} \cup course[next[s]] ELSE {s}]
    BY CourseExists
  <2> HIDE DEF course
  <2> QED BY <2>1
<1> HIDE DEF course
<1>3. SUFFICES ASSUME T # {} PROVE FALSE
  <2>1. ASSUME T = {} PROVE IsWay(course[slot], slot, next, moving, m)
    <3>1. m[slot] \in 0 .. N /\ m[slot] \notin T
      BY <1>1, <2>1
    <3> QED BY <3>1
  <2> QED BY <2>1 DEF course
<1>4. PICK k \in T : \A n \in T : k <= n
  <2>1. T \in SUBSET Nat
    OBVIOUS
  <2> QED BY <1>3, <2>1, LeastElement
<1>5. PICK s \in S : m[s] = k /\ ~IsWay(course[s], s, next, moving, m)
  BY <1>4
<1>6. CASE s \notin moving
  <2>1. course[s] = {s}
    BY <1>2, <1>6
  <2>2. m[s] <= m[s]
    BY <1>1
  <2> QED BY <1>5, <1>6, <2>1, <2>2 DEF IsWay
<1>7. CASE s \in moving
  <2> DEFINE r == next[s]
             C == course[s]
             D == course[r]
  <2>1. C = {s} \cup D
    BY <1>2, <1>7
  <2>2. r \in S /\ m[r] < m[s] /\ m[r] \in 0 .. N /\ m[s] \in 0 .. N
    BY <1>1, <1>7
  <2>3. IsWay(D, r, next, moving, m)
    <3>1. m[r] \notin T
      BY <1>4, <1>5, <2>2
    <3> QED BY <2>2, <3>1
  <2> HIDE DEF C, D, r
  <2>4. PICK d \in D : /\ d \notin moving
                       /\ \A t \in D : m[d] <= m[t] /\ m[t] <= m[r] /\ (t \notin moving => t = d)
    BY <2>3 DEF IsWay
  <2>5. D \subseteq S /\ r \in D /\ s \notin D /\ s \in C /\ C \subseteq S
    <3>1. D \subseteq S /\ r \in D
      BY <2>3 DEF IsWay
    <3>2. s \notin D
      BY <2>2, <2>4
    <3> QED BY <2>1, <3>1, <3>2
  <2>6. \A t \in C \cap moving : next[t] \in D
    BY <2>1, <2>3, <2>5 DEF IsWay, r
  <2>7. \A c \in C : c # s => \E t \in C \cap moving : next[t] = c
    <3>1. ASSUME NEW c \in C, c # s PROVE \E t \in C \cap moving : next[t] = c
      <4>1. c \in D
        BY <2>1, <3>1
      <4>2. c = r => \E t \in C \cap moving : next[t] = c
        BY <1>7, <2>5 DEF r
      <4>3. c # r => \E t \in D \cap moving : next[t] = c
        BY <2>3, <4>1 DEF IsWay
      <4> QED BY <2>1, <4>2, <4>3
    <3> QED BY <3>1
  <2>8. \A t, u \in C \cap moving : next[t] = next[u] => t = u
    <3>1. \A t \in D \cap moving : next[t] # r
      BY <2>3 DEF IsWay
    <3>2. \A t, u \in D \cap moving : next[t] = next[u] => t = u
      BY <2>3 DEF IsWay
    <3> QED BY <2>1, <3>1, <3>2 DEF r
  <2>9. \A t \in C : m[d] <= m[t] /\ m[t] <= m[s] /\ (t \notin moving => t = d)
    <3>1. \A t \in D : m[t] \in 0 .. N
      BY <1>1, <2>5
    <3>2. m[d] <= m[s] /\ m[s] <= m[s]
      BY <2>2, <2>4, <2>5, <3>1
    <3>3. \A t \in D : m[t] <= m[s]
      BY <2>2, <2>4, <3>1
    <3> QED BY <1>7, <2>1, <2>4, <3>2, <3>3
  <2>10. IsWay(C, s, next, moving, m)
    <3>1. \A t \in C \cap moving : next[t] \in C /\ next[t] # s
      BY <2>1, <2>5, <2>6
    <3>2. d \in C
      BY <2>1
    <3> QED BY <2>4, <2>5, <2>7, <2>8, <2>9, <3>1, <3>2 DEF IsWay
  <2> QED BY <1>5, <2>10 DEF C
<1> QED BY <1>6, <1>7

-----------------------------------------------------------------------------
(* The arrays of a heap with n entries and M places. *)

IsHeap(h, n, M) ==
  /\ h = [heap |-> h.heap, ids |-> h.ids, free |-> h.free, entry |-> h.entry]
  /\ h.heap \in [0 .. n - 1 -> Entries] /\ h.ids \in [0 .. M - 1 -> Int] /\ h.free \in Int
  /\ h.entry \in [Entries -> [id : Int, value : Nat, lock : BOOLEAN]]

(* The entries of a tree G have ids that differ.                            *)
Apart(G, n, M, entries) ==
  /\ G \in [0 .. n - 1 -> Entries]
  /\ \A s \in 0 .. n - 1 : entries[G[s]].id \in 1 .. M - 1
  /\ \A s, t \in 0 .. n - 1 : entries[G[s]].id = entries[G[t]].id => s = t

(* The id of the entry in slot s is the place that points back to s. *)
Points(h, s) == h.ids[h.entry[h.heap[s]].id] = s
AllPoint(h, n) == \A s \in 0 .. n - 1 : Points(h, s)

(* Places that are no entry's of the tree G are the same in r. *)
KeepsOthers(h, r, G, n, M) ==
  \A i \in 0 .. M - 1 : (\A s \in 0 .. n - 1 : h.entry[G[s]].id # i) => r.ids[i] = h.ids[i]

(* Every entry of the tree G is in R. *)
Covers(R, G, n) == \A t \in 0 .. n - 1 : \E s \in 0 .. n - 1 : R[s] = G[t]

LEMMA Sizes ==
  ASSUME NEW n \in Nat, NEW M \in Nat, NEW h, IsHeap(h, n, M)
  PROVE  CurSize(h) = n /\ MaxSize(h) = M /\ Slots(h) = 0 .. n - 1
<1>1. DOMAIN h.heap = 0 .. n - 1 /\ DOMAIN h.ids = 0 .. M - 1
  BY DEF IsHeap
<1>2. \A i \in Nat : Cardinality(0 .. i - 1) = i
  <2>1. ASSUME NEW i \in Nat PROVE Cardinality(0 .. i - 1) = i
    <3>1. 0 \in Int /\ i - 1 \in Int
      OBVIOUS
    <3>2. Cardinality(0 .. i - 1) = IF 0 > i - 1 THEN 0 ELSE i - 1 - 0 + 1
      BY <3>1, FS_Interval
    <3> QED BY <3>2
  <2> QED BY <2>1
<1> QED BY <1>1, <1>2 DEF CurSize, MaxSize, Slots

(* The tree R is that of h with the entries moved to the slots of C. *)
Overlaid(R, n, h, k, C, moved) ==
  /\ C \subseteq 0 .. n - 1 /\ (0 .. k - 1) \cup C = 0 .. n - 1 /\ moved \in [C -> Entries]
  /\ \A s \in 0 .. n - 1 : R[s] = IF s \in C THEN moved[s] ELSE h.heap[s]
  /\ \A s \in (0 .. n - 1) \ C : Points(h, s)

LEMMA CopyFacts ==
  ASSUME NEW n \in Nat, NEW M \in Nat, NEW k \in Nat, NEW h, NEW C, NEW moved, NEW R,
         IsHeap(h, k, M), Overlaid(R, n, h, k, C, moved), Apart(R, n, M, h.entry)
  PROVE  /\ IsHeap(Copy(h, moved), n, M)
         /\ Copy(h, moved).entry = h.entry /\ Copy(h, moved).free = h.free
         /\ Copy(h, moved).heap = R
         /\ AllPoint(Copy(h, moved), n)
         /\ KeepsOthers(h, Copy(h, moved), R, n, M)
<1> DEFINE r == Copy(h, moved)
           G == [s \in 0 .. n - 1 |-> IF s \in C THEN moved[s] ELSE h.heap[s]]
           slotOf(id) == {s \in C : h.entry[moved[s]].id = id}
           ids2 == [i \in 0 .. M - 1 |-> IF slotOf(i) = {} THEN h.ids[i]
                                       ELSE CHOOSE s \in slotOf(i) : TRUE]
<1>0. /\ C \subseteq 0 .. n - 1 /\ (0 .. k - 1) \cup C = 0 .. n - 1 /\ moved \in [C -> Entries]
      /\ \A s \in 0 .. n - 1 : R[s] = IF s \in C THEN moved[s] ELSE h.heap[s]
      /\ \A s \in (0 .. n - 1) \ C : Points(h, s)
  BY DEF Overlaid
<1> USE <1>0
<1>1. /\ h = [heap |-> h.heap, ids |-> h.ids, free |-> h.free, entry |-> h.entry]
      /\ DOMAIN h.heap = 0 .. k - 1 /\ DOMAIN h.ids = 0 .. M - 1 /\ DOMAIN moved = C
      /\ h.ids \in [0 .. M - 1 -> Int] /\ h.free \in Int
      /\ h.entry \in [Entries -> [id : Int, value : Nat, lock : BOOLEAN]]
  BY DEF IsHeap
<1>2. r = [h EXCEPT !.heap = G, !.ids = ids2]
  <2>1. DOMAIN h.heap \cup DOMAIN moved = 0 .. n - 1
    BY <1>1
  <2>2. r = [h EXCEPT !.heap = [s \in DOMAIN h.heap \cup DOMAIN moved |->
                                  IF s \in DOMAIN moved THEN moved[s] ELSE h.heap[s]],
                      !.ids = [i \in DOMAIN h.ids |->
                                 IF {s \in DOMAIN moved : h.entry[moved[s]].id = i} = {} THEN h.ids[i]
                                 ELSE CHOOSE s \in {s \in DOMAIN moved : h.entry[moved[s]].id = i} : TRUE]]
    BY <1>1 DEF Copy
  <2>3. [s \in DOMAIN h.heap \cup DOMAIN moved |->
          IF s \in DOMAIN moved THEN moved[s] ELSE h.heap[s]] = G
    BY <1>1, <2>1
  <2>4. [i \in DOMAIN h.ids |->
           IF {s \in DOMAIN moved : h.entry[moved[s]].id = i} = {} THEN h.ids[i]
           ELSE CHOOSE s \in {s \in DOMAIN moved : h.entry[moved[s]].id = i} : TRUE] = ids2
    <3> DEFINE F(X, Y) == [i \in Y |->
                 IF {s \in X : h.entry[moved[s]].id = i} = {} THEN h.ids[i]
                 ELSE CHOOSE s \in {s \in X : h.entry[moved[s]].id = i} : TRUE]
    <3>1. F(DOMAIN moved, DOMAIN h.ids) = F(C, 0 .. M - 1)
      <4>1. DOMAIN moved = C /\ DOMAIN h.ids = 0 .. M - 1
        BY <1>1
      <4> HIDE DEF F
      <4> QED BY <4>1
    <3> QED BY <3>1
  <2> HIDE DEF G, ids2, r
  <2> QED BY <2>2, <2>3, <2>4
<1>3. r = [heap |-> G, ids |-> ids2, free |-> h.free, entry |-> h.entry]
  <2> HIDE DEF G, ids2, r
  <2> QED BY <1>1, <1>2
<1>4. ids2 \in [0 .. M - 1 -> Int]
  <2>1. ASSUME NEW i \in 0 .. M - 1, slotOf(i) # {} PROVE (CHOOSE s \in slotOf(i) : TRUE) \in Int
    BY <2>1
  <2> QED BY <1>1, <2>1
<1>5. G = R /\ Apart(G, n, M, h.entry)
  <2>1. R \in [0 .. n - 1 -> Entries]
    BY DEF Apart
  <2>2. G = R
    BY <2>1
  <2> QED BY <2>2
<1>6. \A s \in C : ids2[h.entry[moved[s]].id] = s
  <2>1. ASSUME NEW s \in C PROVE ids2[h.entry[moved[s]].id] = s
    <3>1. h.entry[moved[s]].id \in 1 .. M - 1
      BY <1>5 DEF Apart
    <3>2. slotOf(h.entry[moved[s]].id) = {s}
      <4>1. \A t \in C : h.entry[moved[t]].id = h.entry[moved[s]].id => t = s
        BY <1>5 DEF Apart
      <4> QED BY <4>1
    <3> HIDE DEF slotOf
    <3> QED BY <3>1, <3>2
  <2> QED BY <2>1
<1>7. \A s \in (0 .. n - 1) \ C : ids2[h.entry[h.heap[s]].id] = s
  <2>1. ASSUME NEW s \in (0 .. n - 1) \ C PROVE ids2[h.entry[h.heap[s]].id] = s
    <3>1. h.entry[h.heap[s]].id \in 1 .. M - 1 /\ G[s] = h.heap[s]
      BY <1>5 DEF Apart
    <3>2. slotOf(h.entry[h.heap[s]].id) = {}
      <4>1. ASSUME NEW t \in C, h.entry[moved[t]].id = h.entry[h.heap[s]].id PROVE FALSE
        <5>1. t # s /\ R[t] = moved[t] /\ R[s] = h.heap[s] /\ t \in 0 .. n - 1 /\ s \in 0 .. n - 1
          OBVIOUS
        <5>2. h.entry[R[t]].id = h.entry[R[s]].id => t = s
          BY <5>1 DEF Apart
        <5> QED BY <4>1, <5>1, <5>2
      <4> QED BY <4>1
    <3> HIDE DEF slotOf
    <3> QED BY <3>1, <3>2 DEF Points
  <2> QED BY <2>1
<1>8. \A i \in 0 .. M - 1 : (\A s \in 0 .. n - 1 : h.entry[G[s]].id # i) => ids2[i] = h.ids[i]
  <2>1. ASSUME NEW i \in 0 .. M - 1, \A s \in 0 .. n - 1 : h.entry[G[s]].id # i PROVE slotOf(i) = {}
    <3>1. \A s \in C : s \in 0 .. n - 1 /\ G[s] = moved[s]
      OBVIOUS
    <3> HIDE DEF G
    <3> QED BY <2>1, <3>1
  <2> HIDE DEF slotOf, G
  <2> QED BY <2>1
<1>9. /\ IsHeap(r, n, M) /\ r.entry = h.entry /\ r.free = h.free /\ r.heap = G
      /\ AllPoint(r, n)
  <2>1. G \in [0 .. n - 1 -> Entries]
    BY <1>5 DEF Apart
  <2>2. \A s \in 0 .. n - 1 : G[s] = IF s \in C THEN moved[s] ELSE h.heap[s]
    OBVIOUS
  <2> HIDE DEF G, ids2, r
  <2> QED BY <1>1, <1>3, <1>4, <1>6, <1>7, <2>1, <2>2 DEF IsHeap, Points, AllPoint
<1>10. r.ids = ids2
  <2> HIDE DEF G, ids2, r
  <2> QED BY <1>3
<1> HIDE DEF ids2, G
<1>11. KeepsOthers(h, r, G, n, M)
  BY <1>8, <1>10 DEF KeepsOthers
<1> QED BY <1>5, <1>9, <1>11

(* What becomes of a tree G when the entries on the way C move, and that of *)
(* slot goes to the end.                                                    *)
Shifted(G, C, slot, next, moving) ==
  [s \in DOMAIN G |-> IF s \notin C THEN G[s]
                      ELSE IF s \in moving THEN G[next[s]] ELSE G[slot]]

LEMMA ShiftFacts ==
  ASSUME NEW n \in Nat, NEW M \in Nat, NEW entries, NEW G, NEW C, NEW slot, NEW next, NEW moving,
         NEW m, C \subseteq 0 .. n - 1, Apart(G, n, M, entries), IsWay(C, slot, next, moving, m)
  PROVE  /\ Apart(Shifted(G, C, slot, next, moving), n, M, entries)
         /\ Covers(Shifted(G, C, slot, next, moving), G, n)
<1> DEFINE S == 0 .. n - 1
           to(s) == IF s \notin C THEN s ELSE IF s \in moving THEN next[s] ELSE slot
           R == Shifted(G, C, slot, next, moving)
<1>1. DOMAIN G = S /\ G \in [S -> Entries]
  BY DEF Apart
<1>2. \A s \in S : to(s) \in S
  BY DEF IsWay
<1>3. \A s \in S : R[s] = G[to(s)]
  BY <1>1 DEF Shifted
<1>4. R \in [S -> Entries]
  <2>1. R = [s \in S |-> G[to(s)]]
    BY <1>1 DEF Shifted
  <2> HIDE DEF to, R
  <2> QED BY <1>1, <1>2, <2>1
<1>5. \A s, t \in S : to(s) = to(t) => s = t
  <2>1. \A s \in C \cap moving : next[s] \in C /\ next[s] # slot
    BY DEF IsWay
  <2>2. slot \in C
    BY DEF IsWay
  <2>3. \A s, t \in C \cap moving : next[s] = next[t] => s = t
    BY DEF IsWay
  <2>4. \A s, t \in C : s \notin moving /\ t \notin moving => s = t
    BY DEF IsWay
  <2> QED BY <2>1, <2>2, <2>3, <2>4
<1>6. \A t \in S : \E s \in S : to(s) = t
  <2>1. ASSUME NEW t \in S PROVE \E s \in S : to(s) = t
    <3>1. CASE t \notin C
      BY <3>1
    <3>2. CASE t = slot
      <4>1. PICK d \in C : d \notin moving
        BY DEF IsWay
      <4> QED BY <3>2, <4>1
    <3>3. CASE t \in C /\ t # slot
      <4>1. PICK s \in C \cap moving : next[s] = t
        BY <3>3 DEF IsWay
      <4> QED BY <4>1
    <3> QED BY <3>1, <3>2, <3>3
  <2> QED BY <2>1
<1> HIDE DEF to, R
<1>7. \A s \in S : entries[R[s]].id \in 1 .. M - 1
  BY <1>2, <1>3 DEF Apart
<1>8. \A s, t \in S : entries[R[s]].id = entries[R[t]].id => s = t
  <2>1. ASSUME NEW s \in S, NEW t \in S, entries[R[s]].id = entries[R[t]].id PROVE s = t
    <3>1. to(s) \in S /\ to(t) \in S /\ entries[G[to(s)]].id = entries[G[to(t)]].id
      BY <1>2, <1>3, <2>1
    <3>2. to(s) = to(t)
      BY <3>1 DEF Apart
    <3> QED BY <1>5, <3>2
  <2> QED BY <2>1
<1>9. Covers(R, G, n)
  BY <1>3, <1>6 DEF Covers
<1>10. Apart(R, n, M, entries)
  BY <1>4, <1>7, <1>8 DEF Apart
<1> QED BY <1>9, <1>10 DEF R

(* The tree of h with e in slot, where there may be nothing yet. *)
With(h, n, slot, e) == [s \in 0 .. n - 1 |-> IF s = slot THEN e ELSE h.heap[s]]

(* h has k entries; G is its tree with e in slot, and n entries. *)
Ready(h, k, M, n, slot, e, G) ==
  /\ k \in Nat /\ IsHeap(h, k, M) /\ slot \in 0 .. n - 1 /\ e \in Entries
  /\ (0 .. k - 1) \cup {slot} = 0 .. n - 1 /\ G = With(h, n, slot, e)
  /\ \A s \in 0 .. n - 1 : s # slot => Points(h, s)

Route(next, moving, m, n, slot) ==
  /\ slot \in DOMAIN next /\ DOMAIN next \subseteq 0 .. n - 1
  /\ \E N \in Nat : Descends(next, moving, m, N)

(* r is h after the reheap, whose course is C. *)
Reheaped(r, C, h, e, slot, next, moving) ==
  C = Course(moving, next)[slot] /\ r = Reheap(h, e, slot, moving, next)

Gives(r, C, h, G, n, M, slot, next, moving, m) ==
  /\ IsHeap(r, n, M) /\ r.entry = h.entry /\ r.free = h.free
  /\ IsWay(C, slot, next, moving, m) /\ C \subseteq 0 .. n - 1
  /\ r.heap = Shifted(G, C, slot, next, moving) /\ Apart(r.heap, n, M, h.entry)
  /\ AllPoint(r, n) /\ Covers(r.heap, G, n) /\ KeepsOthers(h, r, G, n, M)

LEMMA ReheapFacts ==
  ASSUME NEW n \in Nat, NEW M \in Nat, NEW k, NEW slot, NEW e, NEW h, NEW next, NEW moving, NEW m,
         NEW r, NEW C, NEW G, Ready(h, k, M, n, slot, e, G), Route(next, moving, m, n, slot),
         Reheaped(r, C, h, e, slot, next, moving), Apart(G, n, M, h.entry)
  PROVE  Gives(r, C, h, G, n, M, slot, next, moving, m)
<1> DEFINE S == 0 .. n - 1
           R == Shifted(G, C, slot, next, moving)
           moved == [s \in C |-> IF s \in moving THEN h.heap[next[s]] ELSE e]
<1>0. /\ k \in Nat /\ IsHeap(h, k, M) /\ slot \in 0 .. n - 1 /\ e \in Entries
      /\ (0 .. k - 1) \cup {slot} = 0 .. n - 1 /\ G = With(h, n, slot, e)
      /\ \A s \in 0 .. n - 1 : s # slot => Points(h, s)
      /\ slot \in DOMAIN next /\ DOMAIN next \subseteq 0 .. n - 1
  BY DEF Ready, Route
<1> USE <1>0
<1>10. r = Copy(h, moved)
  BY DEF Reheap, Reheaped
<1>1. IsWay(C, slot, next, moving, m)
  <2>1. C = Course(moving, next)[slot]
    BY DEF Reheaped
  <2> QED BY <2>1, CourseIsWay DEF Route
<1>2. C \subseteq S /\ slot \in C
  BY <1>1 DEF IsWay
<1>3. Apart(G, n, M, h.entry) /\ DOMAIN G = S /\ G \in [S -> Entries] /\ G[slot] = e
      /\ \A s \in S : s # slot => G[s] = h.heap[s]
  BY DEF With, Apart
<1>4. Apart(R, n, M, h.entry) /\ Covers(R, G, n)
  BY <1>1, <1>2, <1>3, ShiftFacts DEF R
<1>5. \A s \in C : moved[s] = R[s]
  <2>1. ASSUME NEW s \in C PROVE moved[s] = R[s]
    <3>1. s \in S /\ R[s] = IF s \in moving THEN G[next[s]] ELSE G[slot]
      BY <1>2, <1>3 DEF Shifted
    <3>2. s \in moving => next[s] \in S /\ next[s] # slot
      BY <1>1, <1>2 DEF IsWay
    <3> QED BY <1>3, <3>1, <3>2
  <2> QED BY <2>1
<1>6. \A s \in S \ C : R[s] = h.heap[s]
  BY <1>2, <1>3 DEF Shifted
<1>7. R \in [S -> Entries]
  BY <1>4 DEF Apart
<1> HIDE DEF R
<1>8. moved \in [C -> Entries]
  BY <1>2, <1>5, <1>7
<1>9. [s \in S |-> IF s \in C THEN moved[s] ELSE h.heap[s]] = R
  BY <1>5, <1>6, <1>7
<1> HIDE DEF moved
<1>11. (0 .. k - 1) \cup C = S /\ \A s \in S \ C : Points(h, s)
  BY <1>2
<1>12. /\ IsHeap(r, n, M) /\ r.entry = h.entry /\ r.free = h.free /\ r.heap = R
       /\ AllPoint(r, n) /\ KeepsOthers(h, r, R, n, M)
  <2>2. Overlaid(R, n, h, k, C, moved)
    BY <1>2, <1>8, <1>9, <1>11 DEF Overlaid
  <2>3. /\ IsHeap(Copy(h, moved), n, M) /\ Copy(h, moved).entry = h.entry /\ Copy(h, moved).free = h.free
        /\ Copy(h, moved).heap = R
        /\ AllPoint(Copy(h, moved), n) /\ KeepsOthers(h, Copy(h, moved), R, n, M)
    BY <1>4, <2>2, CopyFacts
  <2> QED BY <1>9, <1>10, <2>3
<1>13. KeepsOthers(h, r, G, n, M)
  <2>1. \A s \in S : \E t \in S : R[s] = G[t]
    <3>1. ASSUME NEW s \in S PROVE \E t \in S : R[s] = G[t]
      <4>1. R[s] = IF s \notin C THEN G[s] ELSE IF s \in moving THEN G[next[s]] ELSE G[slot]
        BY <1>3 DEF R, Shifted
      <4>2. s \in C /\ s \in moving => next[s] \in S
        BY <1>1, <1>2 DEF IsWay
      <4> QED BY <4>1, <4>2
    <3> QED BY <3>1
  <2> QED BY <1>12, <2>1 DEF KeepsOthers
<1> QED BY <1>1, <1>2, <1>4, <1>12, <1>13 DEF R, Gives

-----------------------------------------------------------------------------
(* The order.  Of the entry in slot, InOrderBut says nothing. *)
Due0(G, entries, s) == entries[G[s]].value

InOrder(G, n, entries) ==
  \A s \in 0 .. n - 1 : Due0(G, entries, Parent(s)) <= Due0(G, entries, s)

InOrderBut(G, n, entries, slot) ==
  \A s \in 0 .. n - 1 : s # slot =>
    /\ Parent(s) # slot => Due0(G, entries, Parent(s)) <= Due0(G, entries, s)
    /\ Parent(s) = slot /\ slot # 0 => Due0(G, entries, Parent(slot)) <= Due0(G, entries, s)

Dated(entries) == entries \in [Entries -> [id : Int, value : Nat, lock : BOOLEAN]]

LEMMA DueFacts ==
  ASSUME NEW n \in Nat, NEW M, NEW G, NEW entries, Apart(G, n, M, entries), Dated(entries)
  PROVE  /\ \A s \in 0 .. n - 1 : Due0(G, entries, s) \in Nat
         /\ \A s \in 0 .. n - 1 : Parent(s) \in 0 .. n - 1
<1>1. ASSUME NEW s \in 0 .. n - 1 PROVE Due0(G, entries, s) \in Nat
  <2>1. G[s] \in Entries
    BY DEF Apart
  <2> QED BY <2>1 DEF Dated, Due0
<1>2. ASSUME NEW s \in 0 .. n - 1 PROVE Parent(s) \in 0 .. n - 1
  BY TreeFacts
<1> QED BY <1>1, <1>2

LEMMA ShiftedDue ==
  ASSUME NEW n \in Nat, NEW M, NEW G, NEW entries, Apart(G, n, M, entries),
         NEW C, NEW slot, NEW next, NEW moving, NEW s \in 0 .. n - 1
  PROVE  Due0(Shifted(G, C, slot, next, moving), entries, s) =
           IF s \notin C THEN Due0(G, entries, s)
           ELSE IF s \in moving THEN Due0(G, entries, next[s]) ELSE Due0(G, entries, slot)
<1>1. DOMAIN G = 0 .. n - 1
  BY DEF Apart
<1> QED BY <1>1 DEF Shifted, Due0

LEMMA ParentIsLower ==
  ASSUME NEW slot \in Nat, NEW p \in 0 .. slot, p # slot
  PROVE  p \in Nat /\ p < slot /\ Parent(p) # slot /\ Parent(p) < slot
<1>1. p \in Nat /\ p < slot
  OBVIOUS
<1>2. CASE p = 0
  BY <1>1, <1>2, TreeFacts
<1>3. CASE p # 0
  <2>1. Parent(p) \in Nat /\ Parent(p) < p
    BY <1>1, <1>3, TreeFacts
  <2> QED BY <1>1, <2>1
<1> QED BY <1>2, <1>3

(* The slots that an entry in slot rises through. *)
Rising(G, entries, slot) ==
  {s \in 1 .. slot : Due0(G, entries, slot) < Due0(G, entries, Parent(s))}

LEMMA UpOrders ==
  ASSUME NEW n \in Nat, NEW M, NEW G, NEW entries, NEW slot \in 0 .. n - 1, NEW C,
         Apart(G, n, M, entries), Dated(entries), InOrderBut(G, n, entries, slot),
         \A s \in 0 .. n - 1 : s # slot /\ Parent(s) = slot =>
           Due0(G, entries, slot) <= Due0(G, entries, s),
         IsWay(C, slot, [s \in 0 .. slot |-> Parent(s)], Rising(G, entries, slot),
               [s \in 0 .. slot |-> s])
  PROVE  InOrder(Shifted(G, C, slot, [s \in 0 .. slot |-> Parent(s)], Rising(G, entries, slot)),
                 n, entries)
<1> DEFINE next == [s \in 0 .. slot |-> Parent(s)]
           m == [s \in 0 .. slot |-> s]
           moving == Rising(G, entries, slot)
           v(s) == Due0(G, entries, s)
           w(s) == Due0(Shifted(G, C, slot, next, moving), entries, s)
<1>1. /\ slot \in C /\ C \subseteq 0 .. slot
      /\ \A s \in C \cap moving : next[s] \in C /\ next[s] # slot
      /\ \A d \in C : d # slot => \E s \in C \cap moving : next[s] = d
      /\ \E d \in C : /\ d \notin moving
                      /\ \A s \in C : m[d] <= m[s] /\ m[s] <= m[slot] /\ (s \notin moving => s = d)
  BY DEF IsWay
<1>2. \A s \in 0 .. slot : next[s] = Parent(s) /\ m[s] = s
  OBVIOUS
<1>3. \A s \in 0 .. n - 1 : w(s) = IF s \notin C THEN v(s)
                                 ELSE IF s \in moving THEN v(next[s]) ELSE v(slot)
  BY ShiftedDue
<1>4. \A s \in 0 .. slot : s \in moving <=> s # 0 /\ v(slot) < v(Parent(s))
  BY DEF Rising
<1>5. \A s \in 0 .. n - 1 : v(s) \in Nat /\ Parent(s) \in 0 .. n - 1
  BY DueFacts
<1>6. 0 .. slot \subseteq 0 .. n - 1
  OBVIOUS
<1> HIDE DEF next, m, moving, v, w
<1>7. PICK d \in C : /\ d \notin moving
                     /\ \A s \in C : d <= s /\ (s \notin moving => s = d)
  BY <1>1, <1>2
<1>8. \A s \in 0 .. n - 1 : s # slot => /\ Parent(s) # slot => v(Parent(s)) <= v(s)
                                        /\ Parent(s) = slot /\ slot # 0 => v(Parent(slot)) <= v(s)
  BY DEF InOrderBut, v
<1>9. ASSUME NEW s \in 0 .. n - 1 PROVE w(Parent(s)) <= w(s)
  <2> DEFINE p == Parent(s)
  <2>1. p \in 0 .. n - 1 /\ v(s) \in Nat /\ v(p) \in Nat /\ v(slot) \in Nat /\ v(Parent(p)) \in Nat
        /\ v(Parent(slot)) \in Nat
    BY <1>5
  <2>2. /\ w(p) = IF p \notin C THEN v(p) ELSE IF p \in moving THEN v(Parent(p)) ELSE v(slot)
        /\ w(s) = IF s \notin C THEN v(s) ELSE IF s \in moving THEN v(p) ELSE v(slot)
    BY <1>1, <1>2, <1>3, <2>1
  <2>3. CASE s = 0
    <3>1. p = 0
      BY <2>3, TreeFacts
    <3>2. w(p) = w(s) /\ w(s) \in Nat
      BY <2>1, <2>2, <2>3, <3>1
    <3> QED BY <3>2
  <2>4. CASE s # 0 /\ s \in C /\ s \in moving
    <3>1. p \in C /\ p # slot /\ v(slot) < v(p)
      BY <1>1, <1>2, <1>4, <2>4
    <3>2. p \in moving => v(Parent(p)) <= v(p)
      <4>1. p \in 0 .. slot /\ slot \in Nat
        <5>1. C \subseteq 0 .. slot /\ slot \in Nat
          BY <1>1
        <5> QED BY <3>1, <5>1
      <4>2. Parent(p) # slot
        BY <3>1, <4>1, ParentIsLower
      <4> QED BY <1>8, <2>1, <3>1, <4>2
    <3> QED BY <2>1, <2>2, <2>4, <3>1, <3>2
  <2>5. CASE s # 0 /\ s \in C /\ s \notin moving
    <3>1. s = d /\ p < s /\ p \in Nat /\ s \in Nat
      BY <1>7, <2>5, TreeFacts
    <3>2. p \notin C
      BY <1>1, <1>7, <3>1
    <3>3. ~(v(slot) < v(p))
      BY <1>1, <1>4, <2>5
    <3> QED BY <2>1, <2>2, <2>5, <3>2, <3>3
  <2>6. CASE s # 0 /\ s \notin C
    <3>1. s # slot
      BY <1>1, <2>6
    <3>2. CASE p \notin C
      <4>1. p # slot
        BY <1>1, <3>2
      <4> QED BY <1>8, <2>2, <2>6, <3>1, <3>2, <4>1
    <3>3. CASE p \in C /\ p \in moving
      <4>1. p # 0 /\ p \in 0 .. slot
        BY <1>1, <1>4, <3>3
      <4>2. CASE p = slot
        BY <1>8, <2>1, <2>2, <2>6, <3>1, <3>3, <4>1, <4>2
      <4>3. CASE p # slot
        <5>1. Parent(p) # slot
          <6>1. slot \in Nat
            OBVIOUS
          <6> QED BY <4>1, <4>3, <6>1, ParentIsLower
        <5>2. v(Parent(p)) <= v(p) /\ v(p) <= v(s)
          BY <1>8, <2>1, <3>1, <4>3, <5>1
        <5> QED BY <2>1, <2>2, <2>6, <3>3, <5>2
      <4> QED BY <4>2, <4>3
    <3>4. CASE p \in C /\ p \notin moving
      <4>1. CASE p = slot
        <5>1. v(slot) <= v(s)
          BY <3>1, <4>1 DEF v
        <5> QED BY <2>2, <2>6, <3>4, <5>1
      <4>2. CASE p # slot
        <5>1. PICK t \in C \cap moving : next[t] = p
          BY <1>1, <3>4, <4>2
        <5>2. v(slot) < v(p)
          BY <1>1, <1>2, <1>4, <5>1
        <5>3. v(p) <= v(s)
          BY <1>8, <3>1, <4>2
        <5> QED BY <2>1, <2>2, <2>6, <3>4, <5>2, <5>3
      <4> QED BY <4>1, <4>2
    <3> QED BY <3>2, <3>3, <3>4
  <2> QED BY <2>3, <2>4, <2>5, <2>6
<1> QED BY <1>9 DEF InOrder, w, next, moving

(* The slots that an entry in slot sinks through, if small is the lesser    *)
(* child of each.                                                           *)
Sinking(G, n, entries, slot, small) ==
  {s \in 0 .. n - 1 : Left(s) < n /\ Due0(G, entries, small[s]) < Due0(G, entries, slot)}

IsLesser(small, G, n, entries) ==
  /\ DOMAIN small = 0 .. n - 1
  /\ \A s \in 0 .. n - 1 : Left(s) < n =>
       /\ small[s] \in 0 .. n - 1 /\ small[s] # 0 /\ Parent(small[s]) = s
       /\ \A c \in 0 .. n - 1 : c # 0 /\ Parent(c) = s =>
            Due0(G, entries, small[s]) <= Due0(G, entries, c)

LEMMA DownOrders ==
  ASSUME NEW n \in Nat, NEW M, NEW G, NEW entries, NEW slot \in 0 .. n - 1, NEW C, NEW small,
         Apart(G, n, M, entries), Dated(entries), InOrderBut(G, n, entries, slot),
         Due0(G, entries, Parent(slot)) <= Due0(G, entries, slot),
         IsLesser(small, G, n, entries),
         IsWay(C, slot, small, Sinking(G, n, entries, slot, small), [s \in 0 .. n - 1 |-> n - 1 - s])
  PROVE  InOrder(Shifted(G, C, slot, small, Sinking(G, n, entries, slot, small)), n, entries)
<1> DEFINE S == 0 .. n - 1
           m == [s \in S |-> n - 1 - s]
           moving == Sinking(G, n, entries, slot, small)
           v(s) == Due0(G, entries, s)
           w(s) == Due0(Shifted(G, C, slot, small, moving), entries, s)
<1>1. /\ slot \in C /\ C \subseteq S
      /\ \A s \in C \cap moving : small[s] \in C /\ small[s] # slot
      /\ \A d \in C : d # slot => \E s \in C \cap moving : small[s] = d
      /\ \E d \in C : /\ d \notin moving
                      /\ \A s \in C : m[d] <= m[s] /\ m[s] <= m[slot] /\ (s \notin moving => s = d)
  BY DEF IsWay, IsLesser
<1>2. \A s \in S : w(s) = IF s \notin C THEN v(s)
                         ELSE IF s \in moving THEN v(small[s]) ELSE v(slot)
  BY ShiftedDue
<1>3. \A s \in S : s \in moving <=> Left(s) < n /\ v(small[s]) < v(slot)
  BY DEF Sinking
<1>4. \A s \in S : v(s) \in Nat /\ Parent(s) \in S
  BY DueFacts
<1>5. \A s \in S : Left(s) < n =>
        /\ small[s] \in S /\ small[s] # 0 /\ Parent(small[s]) = s
        /\ \A c \in S : c # 0 /\ Parent(c) = s => v(small[s]) <= v(c)
  BY DEF IsLesser
<1>6. \A s \in S : m[s] = n - 1 - s
  OBVIOUS
<1>7. \A s \in S : s # slot =>
        /\ Parent(s) # slot => v(Parent(s)) <= v(s)
        /\ Parent(s) = slot /\ slot # 0 => v(Parent(slot)) <= v(s)
  BY DEF InOrderBut
<1>8. v(Parent(slot)) <= v(slot) /\ slot \in S
  OBVIOUS
<1> HIDE DEF m, moving, v, w
<1>9. \A s \in C : slot <= s
  BY <1>1, <1>6, <1>8
(* A slot of the way but the first is the lesser child of another. *)
<1>10. \A s \in C : s # slot => s # 0 /\ Parent(s) \in C /\ Parent(s) \in moving /\ small[Parent(s)] = s
  <2>1. ASSUME NEW s \in C, s # slot
        PROVE  s # 0 /\ Parent(s) \in C /\ Parent(s) \in moving /\ small[Parent(s)] = s
    <3>1. PICK t \in C \cap moving : small[t] = s
      BY <1>1, <2>1
    <3>2. t \in S /\ Left(t) < n
      BY <1>1, <1>3, <3>1
    <3> QED BY <1>5, <3>1, <3>2
  <2> QED BY <2>1
<1>11. ASSUME NEW s \in S PROVE w(Parent(s)) <= w(s)
  <2> DEFINE p == Parent(s)
  <2>1. p \in S /\ v(s) \in Nat /\ v(p) \in Nat /\ v(slot) \in Nat /\ v(Parent(slot)) \in Nat
    BY <1>4, <1>8
  <2>2. /\ w(p) = IF p \notin C THEN v(p) ELSE IF p \in moving THEN v(small[p]) ELSE v(slot)
        /\ w(s) = IF s \notin C THEN v(s) ELSE IF s \in moving THEN v(small[s]) ELSE v(slot)
    BY <1>2, <2>1
  <2>3. s \in moving => small[s] \in S /\ v(small[s]) \in Nat /\ v(small[s]) < v(slot)
                        /\ small[s] # 0 /\ Parent(small[s]) = s
    BY <1>3, <1>4, <1>5
  <2>4. p \in moving => v(small[p]) \in Nat /\ v(small[p]) < v(slot)
    BY <1>3, <1>4, <1>5, <2>1
  <2>5. s # 0 => p \in Nat /\ p < s /\ s \in {Left(p), Left(p) + 1} /\ Left(p) \in Nat /\ Left(p) < n
    <3>1. s \in Nat /\ s <= n - 1
      OBVIOUS
    <3>2. s # 0 => p \in Nat /\ p < s /\ s \in {Left(p), Left(p) + 1}
      BY <3>1, TreeFacts
    <3>3. s # 0 => Left(p) \in Nat
      BY <3>2, TreeFacts
    <3> QED BY <3>1, <3>2, <3>3
  <2>6. CASE s = 0
    <3>1. p = 0
      BY <2>6, TreeFacts
    <3>2. w(s) \in Nat
      BY <2>1, <2>2, <2>3
    <3> QED BY <2>6, <3>1, <3>2
  <2>7. CASE s # 0 /\ p \in C /\ p \in moving
    <3>1. w(p) = v(small[p])
      BY <2>2, <2>7
    <3>2. CASE s = small[p]
      <4>1. s \in C /\ s # slot
        BY <1>1, <2>7, <3>2
      <4>2. CASE s \in moving
        <5>1. v(s) <= v(small[s])
          <6>1. small[s] # slot
            BY <1>1, <4>1, <4>2
          <6> QED BY <1>7, <2>3, <4>1, <4>2, <6>1
        <5> QED BY <2>2, <3>1, <3>2, <4>1, <4>2, <5>1
      <4>3. CASE s \notin moving
        BY <2>1, <2>2, <2>4, <2>7, <3>1, <4>1, <4>3
      <4> QED BY <4>2, <4>3
    <3>3. CASE s # small[p]
      <4>1. s # slot
        BY <1>9, <1>8, <2>1, <2>5, <2>7
      <4>2. s \notin C
        BY <1>10, <3>3, <4>1
      <4>3. v(small[p]) <= v(s)
        BY <1>5, <2>1, <2>5, <2>7
      <4> QED BY <2>2, <3>1, <4>2, <4>3
    <3> QED BY <3>2, <3>3
  <2>8. CASE s # 0 /\ p \in C /\ p \notin moving
    <3>1. w(p) = v(slot)
      BY <2>2, <2>8
    <3>2. s # slot
      BY <1>9, <1>8, <2>1, <2>5, <2>8
    <3>3. s \notin C
      BY <1>10, <2>8, <3>2
    <3>4. ~(v(small[p]) < v(slot)) /\ v(small[p]) <= v(s) /\ v(small[p]) \in Nat
      <4>1. small[p] \in S
        BY <1>5, <2>1, <2>5, <2>8
      <4> QED BY <1>3, <1>4, <1>5, <2>1, <2>5, <2>8, <4>1
    <3> QED BY <2>1, <2>2, <3>1, <3>3, <3>4
  <2>9. CASE s # 0 /\ p \notin C
    <3>1. p # slot
      BY <1>1, <2>9
    <3>2. CASE s \notin C
      <4>1. s # slot
        BY <1>1, <3>2
      <4> QED BY <1>7, <2>2, <2>9, <3>1, <3>2, <4>1
    <3>3. CASE s \in C
      <4>1. s = slot
        BY <1>10, <2>9, <3>3
      <4>2. CASE s \in moving
        <5>1. small[s] # slot
          BY <1>1, <3>3, <4>2
        <5>2. v(Parent(slot)) <= v(small[s])
          BY <1>7, <2>3, <2>9, <4>1, <4>2, <5>1
        <5> QED BY <2>2, <2>9, <3>3, <4>1, <4>2, <5>2
      <4>3. CASE s \notin moving
        BY <1>8, <2>2, <2>9, <3>3, <4>1, <4>3
      <4> QED BY <4>2, <4>3
    <3> QED BY <3>2, <3>3
  <2> QED BY <2>6, <2>7, <2>8, <2>9
<1> QED BY <1>11 DEF InOrder, w, moving

-----------------------------------------------------------------------------
(* The free list f of k places: each but the last, which is one past the    *)
(* array, is linked to the next, and no other place is free but those of    *)
(* the tree G, which may be about to be used.                               *)
FreeList0(f, k, h, M, G, n) ==
  /\ f \in [0 .. k -> 1 .. M] /\ f[0] = h.free /\ f[k] = M
  /\ \A i, j \in 0 .. k : f[i] = f[j] => i = j
  /\ \A j \in 0 .. k - 1 : h.ids[f[j]] = -f[j + 1]
  /\ \A j \in 0 .. k - 1, s \in 0 .. n - 1 : h.entry[G[s]].id # f[j]
  /\ \A i \in 1 .. M - 1 : h.ids[i] < 0 =>
       (\E j \in 0 .. k - 1 : f[j] = i) \/ (\E s \in 0 .. n - 1 : h.entry[G[s]].id = i)

(* A tree G, which an operation is about to give to h. *)
Fits(h, n, M, G) ==
  /\ Apart(G, n, M, h.entry) /\ n + 2 <= M /\ h.ids[0] < 0
  /\ \A e \in Entries : h.entry[e].id >= 1 => \E s \in 0 .. n - 1 : G[s] = e
  /\ \E f : FreeList0(f, M - 1 - n, h, M, G, n)

(* The heap between two operations. *)
Sound(h, n, M) ==
  /\ IsHeap(h, n, M) /\ Fits(h, n, M, h.heap)
  /\ AllPoint(h, n) /\ InOrder(h.heap, n, h.entry)

LEMMA FitsKept ==
  ASSUME NEW n \in Nat, NEW M \in Nat, NEW h, NEW r, NEW G, Fits(h, n, M, G),
         r.entry = h.entry, r.free = h.free, AllPoint(r, n), KeepsOthers(h, r, G, n, M),
         Apart(r.heap, n, M, h.entry), Covers(r.heap, G, n), Covers(G, r.heap, n)
  PROVE  Fits(r, n, M, r.heap)
<1> DEFINE S == 0 .. n - 1
           id(e) == h.entry[e].id
<1>1. /\ Apart(G, n, M, h.entry) /\ n + 2 <= M /\ h.ids[0] < 0
      /\ \A e \in Entries : id(e) >= 1 => \E s \in S : G[s] = e
  BY DEF Fits
<1>2. PICK f : FreeList0(f, M - 1 - n, h, M, G, n)
  BY DEF Fits
<1> DEFINE k == M - 1 - n
<1>3. /\ f \in [0 .. k -> 1 .. M] /\ f[0] = h.free /\ f[k] = M
      /\ \A i, j \in 0 .. k : f[i] = f[j] => i = j
      /\ \A j \in 0 .. k - 1 : h.ids[f[j]] = -f[j + 1]
      /\ \A j \in 0 .. k - 1, s \in S : id(G[s]) # f[j]
      /\ \A i \in 1 .. M - 1 : h.ids[i] < 0 =>
           (\E j \in 0 .. k - 1 : f[j] = i) \/ (\E s \in S : id(G[s]) = i)
  BY <1>2 DEF FreeList0
<1>4. \A i \in 0 .. M - 1 : (\A s \in S : id(G[s]) # i) => r.ids[i] = h.ids[i]
  BY DEF KeepsOthers
<1>5. /\ \A t \in S : \E s \in S : r.heap[s] = G[t]
      /\ \A t \in S : \E s \in S : G[s] = r.heap[t]
  BY DEF Covers
<1>6. \A s \in S : r.ids[id(r.heap[s])] = s
  BY DEF AllPoint, Points
<1>7. \A s \in S : id(G[s]) \in 1 .. M - 1
  BY <1>1 DEF Apart
<1>8. k \in Nat
  BY <1>1
<1> HIDE DEF k, id
<1>9. \A j \in 0 .. k - 1 : f[j] \in 1 .. M - 1
  <2>1. ASSUME NEW j \in 0 .. k - 1 PROVE f[j] \in 1 .. M - 1
    <3>1. j \in 0 .. k /\ k \in 0 .. k /\ j # k
      BY <1>8
    <3>2. f[j] \in 1 .. M /\ f[j] # M
      BY <1>3, <3>1
    <3> QED BY <3>2
  <2> QED BY <2>1
<1>10. \A j \in 0 .. k - 1 : r.ids[f[j]] = -f[j + 1]
  <2>1. ASSUME NEW j \in 0 .. k - 1 PROVE r.ids[f[j]] = -f[j + 1]
    <3>1. f[j] \in 0 .. M - 1 /\ \A s \in S : id(G[s]) # f[j]
      BY <1>3, <1>9
    <3> QED BY <1>3, <1>4, <3>1
  <2> QED BY <2>1
<1>11. \A j \in 0 .. k - 1, s \in S : id(r.heap[s]) # f[j]
  BY <1>3, <1>5
<1>12. ASSUME NEW i \in 1 .. M - 1, r.ids[i] < 0 PROVE \E j \in 0 .. k - 1 : f[j] = i
  <2>1. \A s \in S : id(r.heap[s]) # i
    <3>1. ASSUME NEW s \in S, id(r.heap[s]) = i PROVE FALSE
      <4>1. r.ids[i] = s
        BY <1>6, <3>1
      <4> QED BY <1>12, <4>1
    <3> QED BY <3>1
  <2>2. \A s \in S : id(G[s]) # i
    BY <1>5, <2>1
  <2>3. i \in 0 .. M - 1
    OBVIOUS
  <2>4. h.ids[i] < 0
    BY <1>4, <1>12, <2>2, <2>3
  <2> QED BY <1>3, <2>2, <2>4
<1>13. r.ids[0] < 0
  <2>1. 0 \in 0 .. M - 1 /\ \A s \in S : id(G[s]) # 0
    BY <1>1, <1>7
  <2> QED BY <1>1, <1>4, <2>1
<1>14. \A e \in Entries : id(e) >= 1 => \E s \in S : r.heap[s] = e
  BY <1>1, <1>5
<1>15. FreeList0(f, M - 1 - n, r, M, r.heap, n)
  BY <1>3, <1>10, <1>11, <1>12 DEF FreeList0, k, id
<1> QED BY <1>1, <1>13, <1>14, <1>15 DEF Fits, id

(* A shifted tree has the same entries. *)
LEMMA ShiftedCovered ==
  ASSUME NEW n \in Nat, NEW G, NEW C, NEW slot, NEW next, NEW moving, NEW m,
         DOMAIN G = 0 .. n - 1, C \subseteq 0 .. n - 1, IsWay(C, slot, next, moving, m)
  PROVE  Covers(G, Shifted(G, C, slot, next, moving), n)
<1> DEFINE R == Shifted(G, C, slot, next, moving)
<1>1. ASSUME NEW s \in 0 .. n - 1 PROVE \E t \in 0 .. n - 1 : G[t] = R[s]
  <2>1. R[s] = IF s \notin C THEN G[s] ELSE IF s \in moving THEN G[next[s]] ELSE G[slot]
    BY DEF Shifted
  <2>2. slot \in 0 .. n - 1 /\ (s \in C /\ s \in moving => next[s] \in 0 .. n - 1)
    BY DEF IsWay
  <2> HIDE DEF R
  <2> QED BY <2>1, <2>2
<1> QED BY <1>1 DEF Covers

LEMMA ReheapFits ==
  ASSUME NEW n \in Nat, NEW M \in Nat, NEW k, NEW slot, NEW e, NEW h, NEW next, NEW moving, NEW m,
         NEW r, NEW C, NEW G, Ready(h, k, M, n, slot, e, G), Route(next, moving, m, n, slot),
         Reheaped(r, C, h, e, slot, next, moving), Fits(h, n, M, G)
  PROVE  /\ IsHeap(r, n, M) /\ r.entry = h.entry /\ Fits(r, n, M, r.heap) /\ AllPoint(r, n)
         /\ IsWay(C, slot, next, moving, m) /\ r.heap = Shifted(G, C, slot, next, moving)
<1>1. Apart(G, n, M, h.entry)
  BY DEF Fits
<1>2. /\ IsHeap(r, n, M) /\ r.entry = h.entry /\ r.free = h.free
      /\ IsWay(C, slot, next, moving, m) /\ C \subseteq 0 .. n - 1
      /\ r.heap = Shifted(G, C, slot, next, moving) /\ Apart(r.heap, n, M, h.entry)
      /\ AllPoint(r, n) /\ Covers(r.heap, G, n) /\ KeepsOthers(h, r, G, n, M)
  <2>1. Gives(r, C, h, G, n, M, slot, next, moving, m)
    BY <1>1, ReheapFacts
  <2> QED BY <2>1 DEF Gives
<1>3. Covers(G, r.heap, n)
  <2>1. DOMAIN G = 0 .. n - 1
    BY DEF With, Ready
  <2> QED BY <1>2, <2>1, ShiftedCovered
<1>4. Fits(r, n, M, r.heap)
  BY <1>2, <1>3, FitsKept
<1> QED BY <1>2, <1>4

LEMMA WithFacts ==
  ASSUME NEW n \in Nat, NEW M \in Nat, NEW k, NEW slot, NEW e, NEW h, NEW G,
         Ready(h, k, M, n, slot, e, G), Fits(h, n, M, G)
  PROVE  /\ slot \in 0 .. n - 1 /\ e \in Entries /\ G[slot] = e /\ DOMAIN G = 0 .. n - 1
         /\ \A s \in 0 .. n - 1 : s # slot => G[s] = h.heap[s]
         /\ Apart(G, n, M, h.entry) /\ Dated(h.entry)
BY DEF Ready, With, Fits, IsHeap, Dated

(* reheap_up: what is above slot is in order, and so is what is below. *)
LEMMA ReheapUpSound ==
  ASSUME NEW n \in Nat, NEW M \in Nat, NEW k, NEW slot, NEW e, NEW h, NEW G,
         Ready(h, k, M, n, slot, e, G), Fits(h, n, M, G), InOrderBut(G, n, h.entry, slot),
         \A s \in 0 .. n - 1 : s # slot /\ Parent(s) = slot =>
           Due0(G, h.entry, slot) <= Due0(G, h.entry, s)
  PROVE  Sound(ReheapUp(h, e, slot), n, M) /\ ReheapUp(h, e, slot).entry = h.entry
<1> DEFINE next == [s \in 0 .. slot |-> Parent(s)]
           m == [s \in 0 .. slot |-> s]
           moving == Rising(G, h.entry, slot)
           C == Course(moving, next)[slot]
           r == Reheap(h, e, slot, moving, next)
<1>1. /\ slot \in 0 .. n - 1 /\ e \in Entries /\ G[slot] = e /\ DOMAIN G = 0 .. n - 1
      /\ \A s \in 0 .. n - 1 : s # slot => G[s] = h.heap[s]
      /\ Apart(G, n, M, h.entry) /\ Dated(h.entry)
  BY WithFacts
<1>2. \A s \in 1 .. slot : Parent(s) \in 0 .. slot /\ Parent(s) < s /\ Parent(s) \in 0 .. n - 1
                           /\ Parent(s) # slot
  <2>1. ASSUME NEW s \in 1 .. slot
        PROVE  Parent(s) \in 0 .. slot /\ Parent(s) < s /\ Parent(s) \in 0 .. n - 1 /\ Parent(s) # slot
    <3>1. s \in Nat /\ s # 0 /\ s <= slot /\ slot \in Nat /\ slot <= n - 1
      BY <1>1
    <3>2. Parent(s) \in Nat /\ Parent(s) < s
      BY <3>1, TreeFacts
    <3> QED BY <3>1, <3>2
  <2> QED BY <2>1
<1>3. ReheapUp(h, e, slot) = r
  <2>1. {s \in 1 .. slot : h.entry[e].value < Value(h, Parent(s))} = moving
    BY <1>1, <1>2 DEF Rising, Due0, Value
  <2> QED BY <2>1 DEF ReheapUp
<1>4. Route(next, moving, m, n, slot)
  <2>1. slot \in DOMAIN next /\ DOMAIN next \subseteq 0 .. n - 1
    BY <1>1
  <2>2. Descends(next, moving, m, slot)
    <3>1. moving \subseteq 1 .. slot /\ 1 .. slot \subseteq 0 .. slot
      BY <1>1 DEF Rising
    <3>2. \A s \in 1 .. slot : next[s] \in 0 .. slot /\ m[next[s]] < m[s]
      BY <1>2
    <3>3. m \in [0 .. slot -> 0 .. slot]
      OBVIOUS
    <3> QED BY <3>1, <3>2, <3>3 DEF Descends
  <2>3. slot \in Nat
    BY <1>1
  <2> QED BY <2>1, <2>2, <2>3 DEF Route
<1>5. /\ IsHeap(r, n, M) /\ r.entry = h.entry /\ Fits(r, n, M, r.heap) /\ AllPoint(r, n)
      /\ IsWay(C, slot, next, moving, m) /\ r.heap = Shifted(G, C, slot, next, moving)
  <2>1. Reheaped(r, C, h, e, slot, next, moving)
    BY DEF Reheaped
  <2> HIDE DEF next, m, moving, r, C
  <2> QED BY <1>4, <2>1, ReheapFits
<1>6. InOrder(Shifted(G, C, slot, next, moving), n, h.entry)
  BY <1>1, <1>5, UpOrders
<1> HIDE DEF r
<1>7. Sound(r, n, M)
  BY <1>5, <1>6 DEF Sound
<1> QED BY <1>3, <1>5, <1>7


(* reheap_down: what is above slot is due before it, and the rest in order. *)
LEMMA ReheapDownSound ==
  ASSUME NEW n \in Nat, NEW M \in Nat, NEW slot, NEW e, NEW h, NEW G,
         Ready(h, n, M, n, slot, e, G), Fits(h, n, M, G), \A s : G[s] = h.heap[s],
         InOrderBut(G, n, h.entry, slot),
         Due0(G, h.entry, Parent(slot)) <= Due0(G, h.entry, slot)
  PROVE  Sound(ReheapDown(h, e, slot), n, M) /\ ReheapDown(h, e, slot).entry = h.entry
<1> DEFINE S == 0 .. n - 1
           small == [s \in S |-> Smaller(h, s)]
           m == [s \in S |-> n - 1 - s]
           moving == Sinking(G, n, h.entry, slot, small)
           C == Course(moving, small)[slot]
           r == Reheap(h, e, slot, moving, small)
           v(s) == Due0(G, h.entry, s)
<1>1. /\ slot \in S /\ e \in Entries /\ G[slot] = e /\ DOMAIN G = S
      /\ Apart(G, n, M, h.entry) /\ Dated(h.entry)
  BY DEF Ready, With, Fits, IsHeap, Dated
<1>2. CurSize(h) = n /\ Slots(h) = S
  <2>1. IsHeap(h, n, M)
    BY DEF Ready
  <2> QED BY <2>1, Sizes
<1>3. \A s \in S : v(s) \in Nat
  BY <1>1, DueFacts
<1>4. \A s : Value(h, s) = v(s)
  BY DEF Value, Due0
<1> HIDE DEF v
<1>5. ASSUME NEW s \in S, Left(s) < n
      PROVE  /\ Smaller(h, s) \in S /\ Smaller(h, s) # 0 /\ Parent(Smaller(h, s)) = s
             /\ s < Smaller(h, s)
             /\ \A c \in S : c # 0 /\ Parent(c) = s => v(Smaller(h, s)) <= v(c)
  <2>1. /\ s \in Nat /\ Left(s) \in Nat /\ Left(s) > s
        /\ Parent(Left(s)) = s /\ Parent(Left(s) + 1) = s
    BY TreeFacts
  <2>2. \A c \in S : c # 0 /\ Parent(c) = s => c = Left(s) \/ c = Left(s) + 1
    BY TreeFacts
  <2>3. Smaller(h, s) = IF Left(s) + 1 < n /\ v(Left(s) + 1) < v(Left(s))
                        THEN Left(s) + 1 ELSE Left(s)
    BY <1>2, <1>4 DEF Smaller
  <2>4. Left(s) \in S /\ (Left(s) + 1 < n => Left(s) + 1 \in S)
    BY <1>5, <2>1
  <2>5. v(Left(s)) \in Nat /\ (Left(s) + 1 < n => v(Left(s) + 1) \in Nat)
    BY <1>3, <2>4
  <2>6. \A c \in S : c # 0 /\ Parent(c) = s => v(Smaller(h, s)) <= v(c)
    <3>1. CASE Smaller(h, s) = Left(s) + 1
      <4>1. v(Left(s) + 1) < v(Left(s)) /\ Left(s) + 1 < n
        BY <2>1, <2>3, <3>1
      <4> QED BY <2>2, <2>5, <3>1, <4>1
    <3>2. CASE Smaller(h, s) = Left(s)
      <4>1. Left(s) + 1 < n => v(Left(s)) <= v(Left(s) + 1)
        BY <2>1, <2>3, <2>5, <3>2
      <4>2. ASSUME NEW c \in S, c # 0, Parent(c) = s PROVE v(Left(s)) <= v(c)
        <5>1. CASE c = Left(s)
          BY <2>5, <5>1
        <5>2. CASE c = Left(s) + 1
          <6>1. Left(s) + 1 < n
            BY <5>2
          <6> QED BY <4>1, <5>2, <6>1
        <5> QED BY <2>2, <4>2, <5>1, <5>2
      <4> QED BY <3>2, <4>2
    <3> QED BY <2>3, <3>1, <3>2
  <2> QED BY <2>1, <2>3, <2>4, <2>6
<1>6. IsLesser(small, G, n, h.entry)
  BY <1>5 DEF IsLesser, v
<1>7. ReheapDown(h, e, slot) = r
  <2>1. {s \in S : Left(s) < n /\ Value(h, Smaller(h, s)) < h.entry[e].value} = moving
    BY <1>1, <1>4 DEF Sinking, Due0, v
  <2>2. ReheapDown(h, e, slot) =
          Reheap(h, e, slot,
                 {s \in Slots(h) : Left(s) < CurSize(h) /\ Value(h, Smaller(h, s)) < h.entry[e].value},
                 [s \in Slots(h) |-> Smaller(h, s)])
    BY DEF ReheapDown
  <2> DEFINE F(N, T) == Reheap(h, e, slot,
                 {s \in T : Left(s) < N /\ Value(h, Smaller(h, s)) < h.entry[e].value},
                 [s \in T |-> Smaller(h, s)])
  <2>3. F(CurSize(h), Slots(h)) = F(n, S)
    <3> HIDE DEF F
    <3> QED BY <1>2
  <2>4. ReheapDown(h, e, slot) = F(CurSize(h), Slots(h))
    BY <2>2
  <2>5. F(n, S) = r
    BY <2>1
  <2> HIDE DEF F, r
  <2> QED BY <2>3, <2>4, <2>5
<1>8. Route(small, moving, m, n, slot)
  <2>1. slot \in DOMAIN small /\ DOMAIN small \subseteq 0 .. n - 1
    BY <1>1
  <2>2. Descends(small, moving, m, n)
    <3>1. \A s \in moving : s \in S /\ Left(s) < n
      BY DEF Sinking
    <3>2. \A s \in moving : small[s] \in S /\ s < small[s]
      BY <1>5, <3>1
    <3>3. m \in [S -> 0 .. n]
      OBVIOUS
    <3>4. \A s \in S : m[s] = n - 1 - s
      OBVIOUS
    <3>5. moving \subseteq S /\ DOMAIN small = S
      BY <3>1
    <3> HIDE DEF moving, small, m
    <3>6. \A s \in moving : m[small[s]] < m[s]
      BY <3>1, <3>2, <3>4
    <3> QED BY <3>2, <3>3, <3>5, <3>6 DEF Descends
  <2> QED BY <2>1, <2>2 DEF Route
<1>9. /\ IsHeap(r, n, M) /\ r.entry = h.entry /\ Fits(r, n, M, r.heap) /\ AllPoint(r, n)
      /\ IsWay(C, slot, small, moving, m) /\ r.heap = Shifted(G, C, slot, small, moving)
  <2>1. Reheaped(r, C, h, e, slot, small, moving)
    BY DEF Reheaped
  <2> HIDE DEF small, m, moving, r, C
  <2> QED BY <1>8, <2>1, ReheapFits
<1>10. InOrder(Shifted(G, C, slot, small, moving), n, h.entry)
  <2> HIDE DEF small, C
  <2> QED BY <1>1, <1>6, <1>9, DownOrders
<1> HIDE DEF r
<1>11. Sound(r, n, M)
  BY <1>9, <1>10 DEF Sound
<1> QED BY <1>7, <1>9, <1>11

-----------------------------------------------------------------------------
(* remove_node *)

(* h without the entry in slot, which leaves its place of the tree empty.   *)
Freed(h, n, slot) ==
  [heap |-> [s \in 0 .. n - 2 |-> h.heap[s]],
   ids |-> [h.ids EXCEPT ![h.entry[h.heap[slot]].id] = -h.free],
   free |-> h.entry[h.heap[slot]].id,
   entry |-> [h.entry EXCEPT ![h.heap[slot]] = [@ EXCEPT !.id = -1]]]

(* The tree of h with the last entry in the place of that in slot. *)
Closed(h, n, slot) ==
  [s \in 0 .. n - 2 |-> IF s = slot THEN h.heap[n - 1] ELSE h.heap[s]]

Filled(h, n, slot) == Copy(Freed(h, n, slot), [s \in {slot} |-> h.heap[n - 1]])

LEMMA RemoveIs ==
  ASSUME NEW n \in Nat, NEW M \in Nat, NEW h, IsHeap(h, n, M), NEW slot
  PROVE  /\ slot = n - 1 => Remove(h, slot) = Freed(h, n, slot)
         /\ slot # n - 1 =>
              IF h.entry[h.heap[n - 1]].value >= Value(Filled(h, n, slot), Parent(slot))
              THEN Remove(h, slot) = ReheapDown(Filled(h, n, slot), h.heap[n - 1], slot)
              ELSE Remove(h, slot) = ReheapUp(Filled(h, n, slot), h.heap[n - 1], slot)
<1> DEFINE G(k) == [h EXCEPT !.ids[h.entry[h.heap[slot]].id] = -h.free,
                             !.free = h.entry[h.heap[slot]].id,
                             !.heap = Restrict(@, 0 .. (k - 1) - 1),
                             !.entry[h.heap[slot]].id = -1]
           F(k) == IF slot = k - 1 THEN G(k)
                   ELSE IF h.entry[h.heap[k - 1]].value
                             >= Value(Copy(G(k), [s \in {slot} |-> h.heap[k - 1]]), Parent(slot))
                   THEN ReheapDown(Copy(G(k), [s \in {slot} |-> h.heap[k - 1]]), h.heap[k - 1], slot)
                   ELSE ReheapUp(Copy(G(k), [s \in {slot} |-> h.heap[k - 1]]), h.heap[k - 1], slot)
<1>1. Remove(h, slot) = F(CurSize(h))
  BY DEF Remove
<1>2. CurSize(h) = n
  BY Sizes
<1>3. G(n) = Freed(h, n, slot)
  <2>1. h = [heap |-> h.heap, ids |-> h.ids, free |-> h.free, entry |-> h.entry]
    BY DEF IsHeap
  <2>2. Restrict(h.heap, 0 .. (n - 1) - 1) = [s \in 0 .. n - 2 |-> h.heap[s]]
    BY DEF Restrict
  <2>3. G(n) = [heap |-> Restrict(h.heap, 0 .. (n - 1) - 1),
                ids |-> [h.ids EXCEPT ![h.entry[h.heap[slot]].id] = -h.free],
                free |-> h.entry[h.heap[slot]].id,
                entry |-> [h.entry EXCEPT ![h.heap[slot]].id = -1]]
    <3> DEFINE i == [h.ids EXCEPT ![h.entry[h.heap[slot]].id] = -h.free]
               f == h.entry[h.heap[slot]].id
               t == Restrict(h.heap, 0 .. (n - 1) - 1)
               x == [h.entry EXCEPT ![h.heap[slot]].id = -1]
    <3>1. G(n) = [h EXCEPT !.ids = i, !.free = f, !.heap = t, !.entry = x]
      OBVIOUS
    <3> DEFINE g == G(n)
    <3>2. g = [h EXCEPT !.ids = i, !.free = f, !.heap = t, !.entry = x]
      BY <3>1
    <3>3. g = [heap |-> t, ids |-> i, free |-> f, entry |-> x]
      <4> HIDE DEF i, f, t, x, g
      <4> QED BY <2>1, <3>2
    <3> QED BY <3>3
  <2> QED BY <2>2, <2>3 DEF Freed
<1> HIDE DEF G
<1>4. Remove(h, slot) = F(n)
  <2> HIDE DEF F
  <2> QED BY <1>1, <1>2
<1> QED BY <1>3, <1>4 DEF Filled

(* What is left fits the tree that the last entry closes: the id freed is   *)
(* the first of the free list.                                              *)
LEMMA FreedFacts ==
  ASSUME NEW n \in Nat, NEW M \in Nat, NEW h, NEW slot \in 0 .. n - 1, Sound(h, n, M),
         NEW p \in Nat, p = n - 1
  PROVE  /\ IsHeap(Freed(h, n, slot), p, M)
         /\ Fits(Freed(h, n, slot), p, M, Closed(h, n, slot))
         /\ \A s \in 0 .. p - 1 : s # slot => Points(Freed(h, n, slot), s)
<1> DEFINE S == 0 .. n - 1
           P == 0 .. p - 1
           e == h.heap[slot]
           id(x) == h.entry[x].id
           g == Freed(h, n, slot)
           R == Closed(h, n, slot)
           to(s) == IF s = slot THEN p ELSE s
<1>1. /\ h.heap \in [S -> Entries] /\ h.ids \in [0 .. M - 1 -> Int] /\ h.free \in Int
      /\ h.entry \in [Entries -> [id : Int, value : Nat, lock : BOOLEAN]]
  BY DEF Sound, IsHeap
<1>2. /\ \A s \in S : id(h.heap[s]) \in 1 .. M - 1
      /\ \A s, t \in S : id(h.heap[s]) = id(h.heap[t]) => s = t
  BY DEF Sound, Fits, Apart
<1>3. /\ n + 2 <= M /\ h.ids[0] < 0
      /\ \A x \in Entries : id(x) >= 1 => \E s \in S : h.heap[s] = x
  BY DEF Sound, Fits
<1>4. \A s \in S : h.ids[id(h.heap[s])] = s
  BY DEF Sound, AllPoint, Points
<1>5. PICK f : FreeList0(f, M - 1 - n, h, M, h.heap, n)
  BY DEF Sound, Fits
<1>6. slot \in S /\ p \in S /\ P \subseteq S /\ p \notin P /\ n - 2 = p - 1
  OBVIOUS
<1>7. e \in Entries /\ id(e) \in 1 .. M - 1 /\ id(e) \in 0 .. M - 1
  BY <1>1, <1>2
<1>8. /\ g.heap = [s \in P |-> h.heap[s]] /\ g.ids = [h.ids EXCEPT ![id(e)] = -h.free]
      /\ g.free = id(e) /\ g.entry = [h.entry EXCEPT ![e] = [@ EXCEPT !.id = -1]]
      /\ g = [heap |-> g.heap, ids |-> g.ids, free |-> g.free, entry |-> g.entry]
  BY <1>6 DEF Freed
<1>9. R = [s \in P |-> h.heap[to(s)]]
  <2>1. [s \in 0 .. n - 2 |-> IF s = slot THEN h.heap[n - 1] ELSE h.heap[s]] = [s \in P |-> h.heap[to(s)]]
    BY <1>6
  <2> HIDE DEF to
  <2> QED BY <2>1 DEF Closed
<1> HIDE DEF g, R
<1>10. g.entry \in [Entries -> [id : Int, value : Nat, lock : BOOLEAN]]
  <2>1. h.entry[e] \in [id : Int, value : Nat, lock : BOOLEAN]
    BY <1>1, <1>7
  <2>2. [h.entry[e] EXCEPT !.id = -1] \in [id : Int, value : Nat, lock : BOOLEAN]
    BY <2>1
  <2> HIDE DEF e
  <2> QED BY <1>1, <1>7, <1>8, <2>2
<1>11. g.entry[e].id = -1 /\ \A x \in Entries : x # e => g.entry[x] = h.entry[x]
  BY <1>1, <1>7, <1>8
<1>12. g.ids \in [0 .. M - 1 -> Int]
  <2> DEFINE v == -h.free
             i == id(e)
  <2>1. v \in Int /\ g.ids = [h.ids EXCEPT ![i] = v]
    BY <1>1, <1>8
  <2> HIDE DEF v, i
  <2> QED BY <1>1, <2>1
<1>13. IsHeap(g, p, M)
  <2>1. g.heap \in [P -> Entries]
    BY <1>1, <1>6, <1>8
  <2>2. g.free \in Int
    BY <1>7, <1>8
  <2> QED BY <1>8, <1>10, <1>12, <2>1, <2>2 DEF IsHeap
<1>14. \A s \in P : to(s) \in S /\ to(s) # slot
  BY <1>6
<1>15. \A s, t \in P : to(s) = to(t) => s = t
  BY <1>6
<1>16. \A s \in S : s # slot => \E t \in P : to(t) = s
  <2>1. ASSUME NEW s \in S, s # slot PROVE \E t \in P : to(t) = s
    <3>1. CASE s = p
      <4>1. slot \in P /\ to(slot) = s
        BY <2>1, <3>1
      <4> QED BY <4>1
    <3>2. CASE s # p
      <4>1. s \in P /\ to(s) = s
        BY <2>1, <3>2
      <4> QED BY <4>1
    <3> QED BY <3>1, <3>2
  <2> QED BY <2>1
<1> HIDE DEF to, id, e
<1>17. \A s \in S : s # slot => /\ h.heap[s] \in Entries /\ h.heap[s] # e
                              /\ g.entry[h.heap[s]] = h.entry[h.heap[s]]
                              /\ g.entry[h.heap[s]].id = id(h.heap[s])
                              /\ id(h.heap[s]) # id(e)
  BY <1>1, <1>2, <1>11 DEF e, id
<1>18. \A s \in P : R[s] = h.heap[to(s)] /\ R[s] \in Entries /\ g.entry[R[s]].id = id(h.heap[to(s)])
  BY <1>9, <1>14, <1>17
<1>19. Apart(R, p, M, g.entry)
  <2>1. R \in [P -> Entries]
    BY <1>1, <1>9, <1>14
  <2>2. \A s \in P : g.entry[R[s]].id \in 1 .. M - 1
    BY <1>2, <1>14, <1>18
  <2>3. \A s, t \in P : g.entry[R[s]].id = g.entry[R[t]].id => s = t
    BY <1>2, <1>14, <1>15, <1>18
  <2> QED BY <2>1, <2>2, <2>3 DEF Apart
<1>20. \A i \in 0 .. M - 1 : g.ids[i] = IF i = id(e) THEN -h.free ELSE h.ids[i]
  BY <1>1, <1>8
<1>21. \A x \in Entries : g.entry[x].id >= 1 => \E s \in P : R[s] = x
  <2>1. ASSUME NEW x \in Entries, g.entry[x].id >= 1 PROVE \E s \in P : R[s] = x
    <3>1. x # e /\ id(x) >= 1
      BY <1>11, <2>1 DEF id
    <3>2. PICK s \in S : h.heap[s] = x
      BY <1>3, <3>1
    <3>3. PICK t \in P : to(t) = s
      BY <1>16, <3>1, <3>2 DEF e
    <3> QED BY <1>18, <3>2, <3>3
  <2> QED BY <2>1
<1>22. g.ids[0] < 0
  BY <1>3, <1>7, <1>20
<1>23. \E d : FreeList0(d, M - 1 - p, g, M, R, p)
  <2> DEFINE k == M - 1 - n
             l == M - 1 - p
             d == [j \in 0 .. l |-> IF j = 0 THEN id(e) ELSE f[j - 1]]
  <2>1. /\ f \in [0 .. k -> 1 .. M] /\ f[0] = h.free /\ f[k] = M
        /\ \A i, j \in 0 .. k : f[i] = f[j] => i = j
        /\ \A j \in 0 .. k - 1 : h.ids[f[j]] = -f[j + 1]
        /\ \A j \in 0 .. k - 1, s \in S : id(h.heap[s]) # f[j]
        /\ \A i \in 1 .. M - 1 : h.ids[i] < 0 =>
             (\E j \in 0 .. k - 1 : f[j] = i) \/ (\E s \in S : id(h.heap[s]) = i)
    BY <1>5 DEF FreeList0, id
  <2>2. k \in Nat /\ l = k + 1 /\ k >= 1
    BY <1>3
  <2> HIDE DEF k, l
  <2>3. \A j \in 0 .. k : j + 1 \in 0 .. l /\ d[j + 1] = f[j]
    BY <2>2
  <2>4. d[0] = id(e) /\ 0 \in 0 .. l /\ DOMAIN d = 0 .. l
    BY <2>2
  <2>5. \A j \in 0 .. l : j = 0 \/ (j - 1 \in 0 .. k /\ d[j] = f[j - 1])
    BY <2>2
  <2>6. d \in [0 .. l -> 1 .. M]
    <3>1. \A j \in 0 .. l : d[j] \in 1 .. M
      BY <1>7, <2>1, <2>4, <2>5
    <3>2. d = [j \in 0 .. l |-> d[j]]
      OBVIOUS
    <3> HIDE DEF d
    <3> QED BY <3>1, <3>2
  <2>7. \A j \in 0 .. k : id(e) # f[j]
    <3>1. \A j \in 0 .. k - 1 : id(e) # f[j]
      BY <1>6, <2>1 DEF e
    <3>2. id(e) # f[k]
      BY <1>7, <2>1
    <3>3. \A j \in 0 .. k : j = k \/ j \in 0 .. k - 1
      BY <2>2
    <3> QED BY <3>1, <3>2, <3>3
  <2> HIDE DEF d
  <2>8. d[l] = M /\ d[0] = g.free
    BY <1>8, <2>1, <2>2, <2>3, <2>4
  <2>9. \A i, j \in 0 .. l : d[i] = d[j] => i = j
    <3>1. ASSUME NEW i \in 0 .. l, NEW j \in 0 .. l, d[i] = d[j] PROVE i = j
      <4>1. CASE i = 0
        BY <2>4, <2>5, <2>7, <3>1, <4>1
      <4>2. CASE j = 0
        BY <2>4, <2>5, <2>7, <3>1, <4>2
      <4>3. CASE i # 0 /\ j # 0
        <5>1. i - 1 \in 0 .. k /\ j - 1 \in 0 .. k /\ f[i - 1] = f[j - 1]
          BY <2>5, <3>1, <4>3
        <5>2. i - 1 = j - 1
          BY <2>1, <5>1
        <5> QED BY <5>2
      <4> QED BY <4>1, <4>2, <4>3
    <3> QED BY <3>1
  <2>10. \A j \in 0 .. l - 1 : g.ids[d[j]] = -d[j + 1]
    <3>1. ASSUME NEW j \in 0 .. l - 1 PROVE g.ids[d[j]] = -d[j + 1]
      <4>1. CASE j = 0
        <5>1. 0 \in 0 .. k /\ d[0 + 1] = f[0]
          BY <2>2, <2>3
        <5> QED BY <1>7, <1>20, <2>1, <2>4, <4>1, <5>1
      <4>2. CASE j # 0
        <5>1. j - 1 \in 0 .. k - 1 /\ j - 1 \in 0 .. k /\ j \in 0 .. k /\ (j - 1) + 1 = j /\ j \in 0 .. l
          BY <2>2, <4>2
        <5>2. d[j] = f[j - 1] /\ d[j + 1] = f[j]
          BY <2>3, <2>5, <4>2, <5>1
        <5>3. f[j - 1] \in 1 .. M /\ f[j - 1] # M
          <6>1. k \in 0 .. k /\ j - 1 # k
            BY <2>2, <5>1
          <6> QED BY <2>1, <5>1, <6>1
        <5>4. f[j - 1] \in 0 .. M - 1 /\ f[j - 1] # id(e)
          BY <2>7, <5>1, <5>3
        <5>5. h.ids[f[j - 1]] = -f[j]
          BY <2>1, <5>1
        <5> QED BY <1>20, <5>2, <5>4, <5>5
      <4> QED BY <4>1, <4>2
    <3> QED BY <3>1
  <2>11. \A j \in 0 .. l - 1, s \in P : g.entry[R[s]].id # d[j]
    <3>1. ASSUME NEW j \in 0 .. l - 1, NEW s \in P PROVE g.entry[R[s]].id # d[j]
      <4>1. to(s) \in S /\ to(s) # slot /\ g.entry[R[s]].id = id(h.heap[to(s)])
        BY <1>14, <1>18
      <4>2. CASE j = 0
        BY <1>17, <2>4, <4>1, <4>2
      <4>3. CASE j # 0
        <5>1. j - 1 \in 0 .. k - 1 /\ j \in 0 .. l
          BY <2>2, <4>3
        <5> QED BY <2>1, <2>5, <4>1, <4>3, <5>1
      <4> QED BY <4>2, <4>3
    <3> QED BY <3>1
  <2>12. ASSUME NEW i \in 1 .. M - 1, g.ids[i] < 0 PROVE \E j \in 0 .. l - 1 : d[j] = i
    <3>1. CASE i = id(e)
      <4>1. 0 \in 0 .. l - 1
        BY <2>2
      <4> QED BY <2>4, <3>1, <4>1
    <3>2. CASE i # id(e)
      <4>1. h.ids[i] < 0
        BY <1>20, <2>12, <3>2
      <4>2. \A s \in S : id(h.heap[s]) # i
        <5>1. ASSUME NEW s \in S, id(h.heap[s]) = i PROVE FALSE
          <6>1. h.ids[i] = s
            BY <1>4, <5>1 DEF id
          <6> QED BY <4>1, <6>1
        <5> QED BY <5>1
      <4>3. PICK j \in 0 .. k - 1 : f[j] = i
        BY <2>1, <4>1, <4>2
      <4>4. j \in 0 .. k /\ j + 1 \in 0 .. l - 1
        BY <2>2
      <4>5. d[j + 1] = i
        BY <2>3, <4>3, <4>4
      <4> QED BY <4>4, <4>5
    <3> QED BY <3>1, <3>2
  <2>13. FreeList0(d, l, g, M, R, p)
    BY <2>6, <2>8, <2>9, <2>10, <2>11, <2>12 DEF FreeList0
  <2> QED BY <2>13 DEF l
<1>24. Fits(g, p, M, R)
  <2>1. p + 2 <= M
    BY <1>3
  <2> QED BY <1>19, <1>21, <1>22, <1>23, <2>1 DEF Fits
<1>25. \A s \in P : s # slot => Points(g, s)
  <2>1. ASSUME NEW s \in P, s # slot PROVE Points(g, s)
    <3>1. s \in S /\ g.heap[s] = h.heap[s]
      BY <1>6, <1>8
    <3>2. id(h.heap[s]) \in 0 .. M - 1 /\ h.ids[id(h.heap[s])] = s
      BY <1>2, <1>4, <3>1
    <3> QED BY <1>17, <1>20, <2>1, <3>1, <3>2 DEF Points
  <2> QED BY <2>1
<1> QED BY <1>13, <1>24, <1>25 DEF g, R

(* The tree that the last entry closes is in order but for this entry.      *)
LEMMA ClosedOrder ==
  ASSUME NEW n \in Nat, NEW M \in Nat, NEW h, NEW slot \in 0 .. n - 1, Sound(h, n, M),
         NEW p \in Nat, p = n - 1, NEW entries, entries = Freed(h, n, slot).entry
  PROVE  /\ slot = p => InOrder(Closed(h, n, slot), p, entries)
         /\ slot # p => InOrderBut(Closed(h, n, slot), p, entries, slot)
         /\ \A s \in 0 .. p - 1 : s # slot /\ Parent(s) = slot =>
              Due0(h.heap, h.entry, slot) <= Due0(Closed(h, n, slot), entries, s)
         /\ slot # 0 /\ slot # p =>
              Due0(Closed(h, n, slot), entries, Parent(slot)) <= Due0(h.heap, h.entry, slot)
         /\ \A s \in 0 .. p - 1 : Due0(Closed(h, n, slot), entries, s) \in Nat
         /\ Due0(h.heap, h.entry, slot) \in Nat
         /\ slot # p => Due0(Closed(h, n, slot), entries, slot) = h.entry[h.heap[n - 1]].value
<1> DEFINE S == 0 .. n - 1
           P == 0 .. p - 1
           R == Closed(h, n, slot)
           v(s) == Due0(h.heap, h.entry, s)
           w(s) == Due0(R, entries, s)
<1>1. /\ h.heap \in [S -> Entries]
      /\ h.entry \in [Entries -> [id : Int, value : Nat, lock : BOOLEAN]]
  BY DEF Sound, IsHeap
<1>2. slot \in S /\ p \in S /\ P \subseteq S /\ p \notin P /\ n - 2 = p - 1 /\ slot \in Nat
      /\ (slot # p => slot \in P)
  OBVIOUS
<1>3. \A x \in Entries : entries[x].value = h.entry[x].value
  <2>1. entries = [h.entry EXCEPT ![h.heap[slot]] = [@ EXCEPT !.id = -1]]
    BY DEF Freed
  <2>2. h.heap[slot] \in Entries /\ h.entry[h.heap[slot]] \in [id : Int, value : Nat, lock : BOOLEAN]
    BY <1>1
  <2>3. [h.entry[h.heap[slot]] EXCEPT !.id = -1].value = h.entry[h.heap[slot]].value
    BY <2>2
  <2> DEFINE y == [h.entry[h.heap[slot]] EXCEPT !.id = -1]
  <2>4. entries = [h.entry EXCEPT ![h.heap[slot]] = y]
    BY <2>1
  <2> HIDE DEF y
  <2>5. \A x \in Entries : entries[x] = IF x = h.heap[slot] THEN y ELSE h.entry[x]
    BY <1>1, <2>4
  <2> QED BY <2>3, <2>5 DEF y
<1>4. \A s \in P : R[s] = IF s = slot THEN h.heap[p] ELSE h.heap[s]
  <2>1. R = [s \in 0 .. n - 2 |-> IF s = slot THEN h.heap[n - 1] ELSE h.heap[s]]
    BY DEF Closed
  <2>2. n - 1 = p /\ 0 .. n - 2 = P
    BY <1>2
  <2> HIDE DEF R
  <2> QED BY <2>1, <2>2
<1>5. \A s \in P : w(s) = IF s = slot THEN v(p) ELSE v(s)
  BY <1>1, <1>2, <1>3, <1>4 DEF Due0
<1>6. \A s \in S : v(s) \in Nat
  BY <1>1 DEF Due0
<1>7. \A s \in S : Parent(s) \in S /\ v(Parent(s)) <= v(s)
  <2>1. \A s \in S : v(Parent(s)) <= v(s)
    BY DEF Sound, InOrder
  <2>2. \A s \in S : Parent(s) \in S
    BY TreeFacts
  <2> QED BY <2>1, <2>2
<1>8. \A s \in P : Parent(s) \in P
  BY TreeFacts
<1>9. slot # 0 => Parent(slot) \in S /\ Parent(slot) < slot
  BY <1>2, TreeFacts
<1> HIDE DEF R, v, w
<1>10. slot = p => \A s \in P : w(Parent(s)) <= w(s)
  BY <1>2, <1>5, <1>7, <1>8
<1>11. ASSUME slot # p, NEW s \in P, s # slot
       PROVE  /\ Parent(s) # slot => w(Parent(s)) <= w(s)
              /\ Parent(s) = slot /\ slot # 0 => w(Parent(slot)) <= w(s)
  <2>1. w(s) = v(s) /\ s \in S
    BY <1>2, <1>5, <1>11
  <2>2. ASSUME Parent(s) # slot PROVE w(Parent(s)) <= w(s)
    BY <1>5, <1>7, <1>8, <2>1, <2>2
  <2>3. ASSUME Parent(s) = slot, slot # 0 PROVE w(Parent(slot)) <= w(s)
    <3>1. w(Parent(slot)) = v(Parent(slot))
      <4>1. Parent(slot) \in P /\ Parent(slot) # slot
        BY <1>2, <1>8, <1>9, <1>11, <2>3
      <4> QED BY <1>5, <4>1
    <3>2. v(Parent(slot)) <= v(slot) /\ v(slot) <= v(s)
      BY <1>2, <1>7, <2>1, <2>3
    <3>3. v(Parent(slot)) \in Nat /\ v(slot) \in Nat /\ v(s) \in Nat
      BY <1>2, <1>6, <1>9, <2>1, <2>3
    <3> QED BY <2>1, <3>1, <3>2, <3>3
  <2> QED BY <2>2, <2>3
<1>12. \A s \in P : s # slot /\ Parent(s) = slot => v(slot) <= w(s)
  BY <1>2, <1>5, <1>7
<1>13. slot # 0 /\ slot # p => w(Parent(slot)) <= v(slot)
  BY <1>2, <1>5, <1>7, <1>8, <1>9
<1>14. \A s \in P : w(s) \in Nat
  BY <1>2, <1>5, <1>6
<1>15. slot # p => w(slot) = h.entry[h.heap[n - 1]].value
  BY <1>2, <1>5 DEF v, Due0
<1>16. slot = p => InOrder(R, p, entries)
  BY <1>10 DEF InOrder, w
<1>17. slot # p => InOrderBut(R, p, entries, slot)
  BY <1>11 DEF InOrderBut, w
<1> QED BY <1>2, <1>6, <1>12, <1>13, <1>14, <1>15, <1>16, <1>17 DEF R, v, w

LEMMA RemoveSound ==
  ASSUME NEW n \in Nat, NEW M \in Nat, NEW h, NEW slot \in 0 .. n - 1, Sound(h, n, M)
  PROVE  /\ Sound(Remove(h, slot), n - 1, M)
         /\ Remove(h, slot).entry = Freed(h, n, slot).entry
<1> DEFINE p == n - 1
           P == 0 .. p - 1
           g == Freed(h, n, slot)
           R == Closed(h, n, slot)
           moved == h.heap[n - 1]
<1>1. p \in Nat /\ p = n - 1 /\ (slot # p => slot \in P)
  OBVIOUS
<1> HIDE DEF p
<1>2. IsHeap(g, p, M) /\ Fits(g, p, M, R) /\ \A s \in P : s # slot => Points(g, s)
  BY <1>1, FreedFacts
<1>3. /\ slot = p => InOrder(R, p, g.entry)
      /\ slot # p => InOrderBut(R, p, g.entry, slot)
      /\ \A s \in P : s # slot /\ Parent(s) = slot =>
           Due0(h.heap, h.entry, slot) <= Due0(R, g.entry, s)
      /\ slot # 0 /\ slot # p => Due0(R, g.entry, Parent(slot)) <= Due0(h.heap, h.entry, slot)
      /\ \A s \in P : Due0(R, g.entry, s) \in Nat
      /\ Due0(h.heap, h.entry, slot) \in Nat
      /\ slot # p => Due0(R, g.entry, slot) = h.entry[h.heap[n - 1]].value
  BY <1>1, ClosedOrder
<1>4. IsHeap(h, n, M)
  BY DEF Sound
<1>5. Apart(R, p, M, g.entry)
  BY <1>2 DEF Fits
<1> HIDE DEF g, R
<1>6. CASE slot = p
  <2>1. Remove(h, slot) = g
    BY <1>1, <1>4, <1>6, RemoveIs DEF g
  <2>2. g.heap = R
    <3>1. g.heap = [s \in 0 .. n - 2 |-> h.heap[s]]
      BY DEF g, Freed
    <3>2. R = [s \in 0 .. n - 2 |-> IF s = slot THEN h.heap[n - 1] ELSE h.heap[s]]
      BY DEF R, Closed
    <3>3. \A s \in 0 .. n - 2 : s # slot
      BY <1>1, <1>6
    <3> QED BY <3>1, <3>2, <3>3
  <2>3. AllPoint(g, p)
    BY <1>1, <1>2, <1>6 DEF AllPoint
  <2>4. Sound(g, p, M)
    BY <1>2, <1>3, <1>6, <2>2, <2>3 DEF Sound
  <2> QED BY <2>1, <2>4 DEF p, g
<1>7. CASE slot # p
  <2> DEFINE c == [s \in {slot} |-> moved]
             f == Filled(h, n, slot)
  <2>1. slot \in P /\ P = 0 .. p - 1 /\ slot # n - 1 /\ moved \in Entries
    <3>1. n - 1 \in 0 .. n - 1
      OBVIOUS
    <3>2. moved \in Entries
      BY <1>4, <3>1 DEF IsHeap
    <3> QED BY <1>1, <1>7, <3>2
  <2>2. \A s \in P : R[s] = IF s = slot THEN moved ELSE h.heap[s]
    <3>1. P = 0 .. n - 2
      BY <1>1
    <3> QED BY <3>1 DEF R, Closed
  <2>3. \A s \in P : g.heap[s] = h.heap[s]
    <3>1. P = 0 .. n - 2
      BY <1>1
    <3> QED BY <3>1 DEF g, Freed
  <2> HIDE DEF moved
  <2>4. Overlaid(R, p, g, p, {slot}, c)
    <3>1. c \in [{slot} -> Entries] /\ c[slot] = moved
      BY <2>1
    <3>2. (0 .. p - 1) \cup {slot} = 0 .. p - 1 /\ {slot} \subseteq 0 .. p - 1
      BY <2>1
    <3> HIDE DEF c
    <3>3. \A s \in 0 .. p - 1 : R[s] = IF s \in {slot} THEN c[s] ELSE g.heap[s]
      BY <2>2, <2>3, <3>1
    <3>4. \A s \in (0 .. p - 1) \ {slot} : Points(g, s)
      BY <1>2
    <3> QED BY <3>1, <3>2, <3>3, <3>4 DEF Overlaid
  <2>5. /\ IsHeap(f, p, M) /\ f.entry = g.entry /\ f.free = g.free /\ f.heap = R
        /\ AllPoint(f, p) /\ KeepsOthers(g, f, R, p, M)
    <3>1. f = Copy(g, c)
      BY DEF Filled, g, moved
    <3> HIDE DEF c, f
    <3>2. /\ IsHeap(Copy(g, c), p, M) /\ Copy(g, c).entry = g.entry /\ Copy(g, c).free = g.free
          /\ Copy(g, c).heap = R /\ AllPoint(Copy(g, c), p) /\ KeepsOthers(g, Copy(g, c), R, p, M)
      BY <1>1, <1>2, <1>5, <2>4, CopyFacts
    <3> QED BY <3>1, <3>2
  <2> HIDE DEF f, c
  <2>6. Fits(f, p, M, R)
    <3>1. Covers(R, R, p)
      BY DEF Covers
    <3>2. Fits(f, p, M, f.heap)
      BY <1>1, <1>2, <1>5, <2>5, <3>1, FitsKept
    <3> QED BY <2>5, <3>2
  <2>7. Ready(f, p, M, p, slot, moved, R)
    <3>1. R = With(f, p, slot, moved)
      <4>1. DOMAIN R = P /\ R = [s \in P |-> R[s]]
        BY <1>5 DEF Apart
      <4>2. \A s \in P : s # slot => R[s] = f.heap[s]
        BY <2>5
      <4>3. R[slot] = moved
        BY <2>1, <2>2
      <4> QED BY <4>1, <4>2, <4>3 DEF With
    <3>2. (0 .. p - 1) \cup {slot} = 0 .. p - 1
      BY <2>1
    <3>3. \A s \in 0 .. p - 1 : s # slot => Points(f, s)
      BY <2>5 DEF AllPoint
    <3> QED BY <1>1, <2>1, <2>5, <3>1, <3>2, <3>3 DEF Ready
  <2>8. InOrderBut(R, p, f.entry, slot)
    BY <1>3, <1>7, <2>5
  <2>9. /\ Due0(R, f.entry, slot) = h.entry[moved].value /\ Due0(R, f.entry, slot) \in Nat
        /\ Value(f, Parent(slot)) = Due0(R, f.entry, Parent(slot))
        /\ Due0(R, f.entry, Parent(slot)) \in Nat
    <3>1. Parent(slot) \in P
      BY <1>1, <1>7, TreeFacts
    <3>2. Value(f, Parent(slot)) = Due0(R, f.entry, Parent(slot))
      BY <2>5 DEF Value, Due0
    <3> QED BY <1>3, <1>7, <2>1, <2>5, <3>1, <3>2 DEF moved
  <2>10. CASE h.entry[moved].value >= Value(f, Parent(slot))
    <3>1. Remove(h, slot) = ReheapDown(f, moved, slot)
      BY <1>1, <1>4, <2>1, <2>10, RemoveIs DEF f, moved
    <3>2. \A s : R[s] = f.heap[s]
      BY <2>5
    <3>3. Due0(R, f.entry, Parent(slot)) <= Due0(R, f.entry, slot)
      BY <2>9, <2>10
    <3>4. Sound(ReheapDown(f, moved, slot), p, M) /\ ReheapDown(f, moved, slot).entry = f.entry
      BY <1>1, <2>6, <2>7, <2>8, <3>2, <3>3, ReheapDownSound
    <3> QED BY <2>5, <3>1, <3>4 DEF p, g
  <2>11. CASE ~(h.entry[moved].value >= Value(f, Parent(slot)))
    <3>1. Remove(h, slot) = ReheapUp(f, moved, slot)
      BY <1>1, <1>4, <2>1, <2>11, RemoveIs DEF f, moved
    <3>2. Due0(R, f.entry, slot) < Due0(R, f.entry, Parent(slot))
      BY <2>9, <2>11
    <3>3. slot # 0
      BY <2>9, <3>2, TreeFacts
    <3>4. \A s \in 0 .. p - 1 : s # slot /\ Parent(s) = slot =>
            Due0(R, f.entry, slot) <= Due0(R, f.entry, s)
      BY <1>3, <1>7, <2>5, <2>9, <3>2, <3>3
    <3>5. Sound(ReheapUp(f, moved, slot), p, M) /\ ReheapUp(f, moved, slot).entry = f.entry
      BY <1>1, <2>6, <2>7, <2>8, <3>4, ReheapUpSound
    <3> QED BY <2>5, <3>1, <3>5 DEF p, g
  <2> QED BY <2>10, <2>11
<1> QED BY <1>6, <1>7

-----------------------------------------------------------------------------
(* schedule_entry *)

(* h when e has the first free id, and no place in the tree. *)
Taken(h, e, t, lock) ==
  [heap |-> h.heap, ids |-> h.ids, free |-> -h.ids[h.free],
   entry |-> [h.entry EXCEPT ![e] = [id |-> h.free, value |-> t, lock |-> lock]]]

Grown(h, M) ==
  [heap |-> h.heap,
   ids |-> [i \in 0 .. 2 * M - 1 |-> IF i \in 0 .. M - 1 THEN h.ids[i] ELSE -(i + 1)],
   free |-> h.free, entry |-> h.entry]

LEMMA ScheduleIs ==
  ASSUME NEW n \in Nat, NEW M \in Nat, NEW h, IsHeap(h, n, M), n + 2 <= M,
         NEW e \in Entries, NEW t \in Nat, NEW lock \in BOOLEAN, h.free \in 0 .. M - 1
  PROVE  /\ IsHeap(Taken(h, e, t, lock), n, M)
         /\ IsHeap(Grown(Taken(h, e, t, lock), M), n, 2 * M)
         /\ n + 2 < M => ScheduleEntry(h, e, t, lock) = ReheapUp(Taken(h, e, t, lock), e, n)
         /\ n + 2 = M => ScheduleEntry(h, e, t, lock) = ReheapUp(Grown(Taken(h, e, t, lock), M), e, n)
<1> DEFINE x == [id |-> h.free, value |-> t, lock |-> lock]
           y == [h.entry EXCEPT ![e] = x]
           f == -h.ids[h.free]
           g == Taken(h, e, t, lock)
           b == Grown(g, M)
<1>1. /\ h = [heap |-> h.heap, ids |-> h.ids, free |-> h.free, entry |-> h.entry]
      /\ h.heap \in [0 .. n - 1 -> Entries] /\ h.ids \in [0 .. M - 1 -> Int] /\ h.free \in Int
      /\ h.entry \in [Entries -> [id : Int, value : Nat, lock : BOOLEAN]]
  BY DEF IsHeap
<1>2. f \in Int
  BY <1>1
<1>3. x \in [id : Int, value : Nat, lock : BOOLEAN]
  BY <1>1
<1> HIDE DEF x
<1>4. y \in [Entries -> [id : Int, value : Nat, lock : BOOLEAN]]
  BY <1>1, <1>3
<1>5. g = [heap |-> h.heap, ids |-> h.ids, free |-> f, entry |-> y]
  BY DEF Taken, x
<1> HIDE DEF y, f, g
<1>6. g.heap = h.heap /\ g.ids = h.ids /\ g.free = f /\ g.entry = y
  BY <1>5
<1>7. IsHeap(g, n, M)
  BY <1>1, <1>2, <1>4, <1>5, <1>6 DEF IsHeap
<1>8. CurSize(g) = n /\ MaxSize(g) = M /\ DOMAIN g.ids = 0 .. M - 1
  BY <1>1, <1>6, <1>7, Sizes
<1> DEFINE i == [j \in 0 .. 2 * M - 1 |-> IF j \in 0 .. M - 1 THEN g.ids[j] ELSE -(j + 1)]
<1>9. i \in [0 .. 2 * M - 1 -> Int]
  BY <1>1, <1>6
<1>10. b = [heap |-> g.heap, ids |-> i, free |-> g.free, entry |-> g.entry]
  BY DEF Grown
<1>11. Grow(g) = b
  <2> DEFINE F(N, D) == [g EXCEPT !.ids = [j \in 0 .. 2 * N - 1 |-> IF j \in D THEN @[j] ELSE -(j + 1)]]
             r == F(M, 0 .. M - 1)
  <2>1. Grow(g) = F(MaxSize(g), DOMAIN g.ids)
    BY DEF Grow
  <2>2. F(MaxSize(g), DOMAIN g.ids) = r
    <3> HIDE DEF F
    <3> QED BY <1>8 DEF r
  <2>3. r = [g EXCEPT !.ids = i]
    OBVIOUS
  <2>4. r = [heap |-> g.heap, ids |-> i, free |-> g.free, entry |-> g.entry]
    <3>1. g = [heap |-> g.heap, ids |-> g.ids, free |-> g.free, entry |-> g.entry]
      BY <1>5, <1>6
    <3> HIDE DEF i, r
    <3> QED BY <2>3, <3>1
  <2> HIDE DEF F, r, b, i
  <2> QED BY <1>10, <2>1, <2>2, <2>4
<1> HIDE DEF b
<1>12. IsHeap(b, n, 2 * M)
  <2> HIDE DEF i
  <2>1. b.heap = g.heap /\ b.ids = i /\ b.free = g.free /\ b.entry = g.entry
    BY <1>10
  <2> QED BY <1>1, <1>2, <1>4, <1>6, <1>9, <1>10, <2>1 DEF IsHeap
<1>13. ScheduleEntry(h, e, t, lock) = Insert(g, e)
  <2> DEFINE a == [h EXCEPT !.free = f, !.entry = y]
  <2>1. ScheduleEntry(h, e, t, lock) = Insert(a, e)
    BY DEF ScheduleEntry, y, f, x
  <2>2. a = [h EXCEPT !.free = f, !.entry = y]
    OBVIOUS
  <2> HIDE DEF a
  <2>3. a = [heap |-> h.heap, ids |-> h.ids, free |-> f, entry |-> y]
    BY <1>1, <2>2
  <2> QED BY <1>5, <2>1, <2>3
<1>14. Insert(g, e) = IF n + 2 >= M THEN ReheapUp(b, e, n) ELSE ReheapUp(g, e, n)
  <2>1. Insert(g, e) = ReheapUp(IF CurSize(g) + 2 >= MaxSize(g) THEN Grow(g) ELSE g, e, CurSize(g))
    BY DEF Insert
  <2> QED BY <1>8, <1>11, <2>1
<1> QED BY <1>7, <1>12, <1>13, <1>14 DEF b, g

(* e may go to the end of the tree: its id is new there, and what is below  *)
(* the end is in order.                                                     *)
LEMMA TakenFacts ==
  ASSUME NEW n \in Nat, NEW M \in Nat, NEW h, Sound(h, n, M), NEW q \in Nat, q = n + 1,
         NEW e \in Entries, NEW t \in Nat, NEW lock \in BOOLEAN, h.entry[e].id < 1, NEW G,
         G = With(h, q, n, e), NEW g, g = Taken(h, e, t, lock)
  PROVE  /\ h.free \in 1 .. M - 1 /\ Apart(G, q, M, g.entry)
         /\ \A x \in Entries : g.entry[x].id >= 1 => \E s \in 0 .. q - 1 : G[s] = x
         /\ \A s \in 0 .. n - 1 : Points(g, s) /\ G[s] = h.heap[s]
                                  /\ g.entry[G[s]] = h.entry[h.heap[s]]
         /\ G[n] = e /\ g.entry[e].id = h.free
         /\ InOrderBut(G, q, g.entry, n)
<1> DEFINE S == 0 .. n - 1
           Q == 0 .. q - 1
           id(x) == h.entry[x].id
<1>1. /\ h.heap \in [S -> Entries] /\ h.ids \in [0 .. M - 1 -> Int] /\ h.free \in Int
      /\ h.entry \in [Entries -> [id : Int, value : Nat, lock : BOOLEAN]]
  BY DEF Sound, IsHeap
<1>2. /\ \A s \in S : id(h.heap[s]) \in 1 .. M - 1
      /\ \A s, u \in S : id(h.heap[s]) = id(h.heap[u]) => s = u
  BY DEF Sound, Fits, Apart
<1>3. /\ n + 2 <= M
      /\ \A x \in Entries : id(x) >= 1 => \E s \in S : h.heap[s] = x
  BY DEF Sound, Fits
<1>4. \A s \in S : h.ids[id(h.heap[s])] = s
  BY DEF Sound, AllPoint, Points
<1>5. PICK f : FreeList0(f, M - 1 - n, h, M, h.heap, n)
  BY DEF Sound, Fits
<1>6. h.free \in 1 .. M - 1 /\ \A s \in S : id(h.heap[s]) # h.free
  <2> DEFINE k == M - 1 - n
  <2>1. /\ f \in [0 .. k -> 1 .. M] /\ f[0] = h.free /\ f[k] = M
        /\ \A i, j \in 0 .. k : f[i] = f[j] => i = j
        /\ \A j \in 0 .. k - 1, s \in S : id(h.heap[s]) # f[j]
    BY <1>5 DEF FreeList0
  <2>2. k \in Nat /\ k >= 1 /\ 0 \in 0 .. k /\ k \in 0 .. k /\ 0 \in 0 .. k - 1 /\ k # 0
    BY <1>3
  <2> HIDE DEF k
  <2>3. f[0] \in 1 .. M /\ f[0] # M
    BY <2>1, <2>2
  <2>4. \A s \in S : id(h.heap[s]) # h.free
    BY <2>1, <2>2
  <2> QED BY <2>1, <2>3, <2>4
<1>7. Q = S \cup {n} /\ n \in Q /\ n \notin S
  OBVIOUS
<1>8. G[n] = e /\ \A s \in S : G[s] = h.heap[s] /\ G[s] \in Entries
  BY <1>1, <1>7 DEF With
<1>9. G \in [Q -> Entries]
  <2>1. G = [s \in Q |-> IF s = n THEN e ELSE h.heap[s]]
    BY DEF With
  <2> QED BY <1>1, <1>7, <2>1
<1>10. \A x \in Entries : IF x = e THEN g.entry[x].id = h.free ELSE g.entry[x] = h.entry[x]
  <2> DEFINE y == [id |-> h.free, value |-> t, lock |-> lock]
  <2>1. g.entry = [h.entry EXCEPT ![e] = y]
    BY DEF Taken
  <2>2. y.id = h.free
    OBVIOUS
  <2> HIDE DEF y
  <2> QED BY <1>1, <2>1, <2>2
<1>11. g.heap = h.heap /\ g.ids = h.ids
  BY DEF Taken
<1>12. \A s \in S : h.heap[s] # e
  BY <1>2 DEF id
<1> HIDE DEF id
<1>13. \A s \in S : g.entry[G[s]] = h.entry[h.heap[s]] /\ g.entry[G[s]].id = id(h.heap[s])
  BY <1>8, <1>10, <1>12 DEF id
<1>14. g.entry[G[n]].id = h.free
  BY <1>8, <1>10
<1>15. Apart(G, q, M, g.entry)
  <2>1. \A s \in Q : g.entry[G[s]].id \in 1 .. M - 1
    BY <1>2, <1>6, <1>7, <1>13, <1>14
  <2>2. \A s, u \in Q : g.entry[G[s]].id = g.entry[G[u]].id => s = u
    BY <1>2, <1>6, <1>7, <1>13, <1>14
  <2> QED BY <1>9, <2>1, <2>2 DEF Apart
<1>16. \A x \in Entries : g.entry[x].id >= 1 => \E s \in Q : G[s] = x
  <2>1. ASSUME NEW x \in Entries, g.entry[x].id >= 1, x # e PROVE \E s \in Q : G[s] = x
    <3>1. id(x) >= 1
      BY <1>10, <2>1 DEF id
    <3>2. PICK s \in S : h.heap[s] = x
      BY <1>3, <3>1
    <3> QED BY <1>7, <1>8, <3>2
  <2> QED BY <1>7, <1>8, <2>1
<1>17. \A s \in S : Points(g, s)
  BY <1>4, <1>8, <1>11, <1>13 DEF Points
<1>18. InOrderBut(G, q, g.entry, n)
  <2>1. ASSUME NEW s \in Q, s # n
        PROVE  Parent(s) # n /\ Due0(G, g.entry, Parent(s)) <= Due0(G, g.entry, s)
    <3>1. s \in S
      BY <1>7, <2>1
    <3>2. Parent(s) \in S /\ Parent(s) # n
      BY <3>1, TreeFacts
    <3>3. h.entry[h.heap[Parent(s)]].value <= h.entry[h.heap[s]].value
      BY <3>1 DEF Sound, InOrder, Due0
    <3> QED BY <1>13, <3>1, <3>2, <3>3 DEF Due0
  <2> QED BY <2>1 DEF InOrderBut
<1> QED BY <1>6, <1>8, <1>10, <1>13, <1>15, <1>16, <1>17, <1>18

(* The free list goes on without its first id. *)
LEMMA TakenFits ==
  ASSUME NEW n \in Nat, NEW M \in Nat, NEW h, Sound(h, n, M), NEW q \in Nat, q = n + 1, n + 2 < M,
         NEW e \in Entries, NEW t \in Nat, NEW lock \in BOOLEAN, h.entry[e].id < 1, NEW G,
         G = With(h, q, n, e), NEW g, g = Taken(h, e, t, lock)
  PROVE  Fits(g, q, M, G)
<1> DEFINE S == 0 .. n - 1
           Q == 0 .. q - 1
           k == M - 1 - n
           l == M - 1 - q
<1>1. /\ h.free \in 1 .. M - 1 /\ Apart(G, q, M, g.entry)
      /\ \A x \in Entries : g.entry[x].id >= 1 => \E s \in Q : G[s] = x
      /\ \A s \in S : g.entry[G[s]] = h.entry[h.heap[s]]
      /\ G[n] = e /\ g.entry[e].id = h.free
  BY TakenFacts
<1>2. g.ids = h.ids /\ g.free = -h.ids[h.free]
  BY DEF Taken
<1>3. h.ids[0] < 0
  BY DEF Sound, Fits
<1>4. PICK f : FreeList0(f, k, h, M, h.heap, n)
  BY DEF Sound, Fits
<1>5. /\ f \in [0 .. k -> 1 .. M] /\ f[0] = h.free /\ f[k] = M
      /\ \A i, j \in 0 .. k : f[i] = f[j] => i = j
      /\ \A j \in 0 .. k - 1 : h.ids[f[j]] = -f[j + 1]
      /\ \A j \in 0 .. k - 1, s \in S : h.entry[h.heap[s]].id # f[j]
      /\ \A i \in 1 .. M - 1 : h.ids[i] < 0 =>
           (\E j \in 0 .. k - 1 : f[j] = i) \/ (\E s \in S : h.entry[h.heap[s]].id = i)
  BY <1>4 DEF FreeList0
<1>6. k = l + 1 /\ l \in Nat /\ l >= 1 /\ n \in Q /\ S \subseteq Q /\ (\A s \in Q : s = n \/ s \in S)
  OBVIOUS
<1> HIDE DEF k, l
<1> DEFINE d == [j \in 0 .. l |-> f[j + 1]]
<1>7. \A j \in 0 .. l : j + 1 \in 0 .. k /\ d[j] = f[j + 1]
  BY <1>6
<1>8. d \in [0 .. l -> 1 .. M]
  BY <1>5, <1>7
<1> HIDE DEF d
<1>9. d[0] = g.free /\ d[l] = M
  <2>1. 0 \in 0 .. l /\ l \in 0 .. l /\ 0 \in 0 .. k - 1
    BY <1>6
  <2>2. f[0 + 1] \in 1 .. M
    BY <1>5, <1>7, <2>1
  <2>3. d[0] = f[0 + 1] /\ d[l] = f[k]
    BY <1>6, <1>7, <2>1
  <2>4. h.ids[f[0]] = -f[0 + 1]
    BY <1>5, <2>1
  <2>5. g.free = -h.ids[f[0]]
    BY <1>2, <1>5
  <2>6. g.free = f[0 + 1]
    BY <2>2, <2>4, <2>5
  <2> QED BY <1>5, <2>3, <2>6
<1>10. \A i, j \in 0 .. l : d[i] = d[j] => i = j
  <2>1. ASSUME NEW i \in 0 .. l, NEW j \in 0 .. l, d[i] = d[j] PROVE i = j
    <3>1. i + 1 = j + 1
      BY <1>5, <1>7, <2>1
    <3> QED BY <3>1
  <2> QED BY <2>1
<1>11. \A j \in 0 .. l - 1 : g.ids[d[j]] = -d[j + 1]
  <2>1. ASSUME NEW j \in 0 .. l - 1 PROVE g.ids[d[j]] = -d[j + 1]
    <3>1. j \in 0 .. l /\ j + 1 \in 0 .. l /\ j + 1 \in 0 .. k - 1
      BY <1>6
    <3> QED BY <1>2, <1>5, <1>7, <3>1
  <2> QED BY <2>1
<1>12. \A j \in 0 .. l - 1, s \in Q : g.entry[G[s]].id # d[j]
  <2>1. ASSUME NEW j \in 0 .. l - 1, NEW s \in Q PROVE g.entry[G[s]].id # d[j]
    <3>1. j \in 0 .. l /\ j + 1 \in 0 .. k - 1 /\ j + 1 \in 0 .. k /\ 0 \in 0 .. k /\ j + 1 # 0
      BY <1>6
    <3>2. CASE s = n
      <4>1. f[j + 1] # f[0]
        BY <1>5, <3>1
      <4>2. g.entry[G[s]].id = f[0]
        BY <1>1, <1>5, <3>2
      <4>3. d[j] = f[j + 1]
        BY <1>7, <3>1
      <4> QED BY <4>1, <4>2, <4>3
    <3>3. CASE s \in S
      <4>1. g.entry[G[s]].id = h.entry[h.heap[s]].id
        BY <1>1, <3>3
      <4>2. h.entry[h.heap[s]].id # f[j + 1]
        BY <1>5, <3>1, <3>3
      <4>3. d[j] = f[j + 1]
        BY <1>7, <3>1
      <4> QED BY <4>1, <4>2, <4>3
    <3> QED BY <1>6, <3>2, <3>3
  <2> QED BY <2>1
<1>13. ASSUME NEW i \in 1 .. M - 1, g.ids[i] < 0
       PROVE  (\E j \in 0 .. l - 1 : d[j] = i) \/ (\E s \in Q : g.entry[G[s]].id = i)
  <2>1. CASE \E s \in S : h.entry[h.heap[s]].id = i
    BY <1>1, <1>6, <2>1
  <2>2. CASE \E j \in 0 .. k - 1 : f[j] = i
    <3>1. PICK j \in 0 .. k - 1 : f[j] = i
      BY <2>2
    <3>2. CASE j = 0
      BY <1>1, <1>5, <1>6, <3>1, <3>2
    <3>3. CASE j # 0
      <4>1. j - 1 \in 0 .. l - 1 /\ j - 1 \in 0 .. l /\ (j - 1) + 1 = j
        BY <1>6, <3>3
      <4>2. d[j - 1] = i
        BY <1>7, <3>1, <4>1
      <4> QED BY <4>1, <4>2
    <3> QED BY <3>2, <3>3
  <2> QED BY <1>2, <1>5, <1>13, <2>1, <2>2
<1>14. FreeList0(d, M - 1 - q, g, M, G, q)
  BY <1>8, <1>9, <1>10, <1>11, <1>12, <1>13 DEF FreeList0, l
<1>15. q + 2 <= M /\ g.ids[0] < 0
  BY <1>2, <1>3
<1> QED BY <1>1, <1>14, <1>15 DEF Fits

(* It had no other id: it goes on where the array grows. *)
LEMMA GrownFits ==
  ASSUME NEW n \in Nat, NEW M \in Nat, NEW h, Sound(h, n, M), NEW q \in Nat, q = n + 1, n + 2 = M,
         NEW e \in Entries, NEW t \in Nat, NEW lock \in BOOLEAN, h.entry[e].id < 1, NEW G,
         G = With(h, q, n, e), NEW g, g = Taken(h, e, t, lock), NEW b, b = Grown(g, M),
         NEW D \in Nat, D = 2 * M
  PROVE  Fits(b, q, D, G)
<1> DEFINE S == 0 .. n - 1
           Q == 0 .. q - 1
<1>1. /\ h.free \in 1 .. M - 1 /\ Apart(G, q, M, g.entry)
      /\ \A x \in Entries : g.entry[x].id >= 1 => \E s \in Q : G[s] = x
      /\ \A s \in S : g.entry[G[s]] = h.entry[h.heap[s]]
      /\ G[n] = e /\ g.entry[e].id = h.free
  BY TakenFacts
<1>2. g.ids = h.ids /\ g.free = -h.ids[h.free]
  BY DEF Taken
<1>3. /\ b.entry = g.entry /\ b.free = g.free
      /\ \A i \in 0 .. D - 1 : b.ids[i] = IF i \in 0 .. M - 1 THEN h.ids[i] ELSE -(i + 1)
  BY <1>2 DEF Grown
<1>4. h.ids[0] < 0
  BY DEF Sound, Fits
<1>5. PICK f : FreeList0(f, M - 1 - n, h, M, h.heap, n)
  BY DEF Sound, Fits
<1>6. /\ f[0] = h.free /\ f[1] = M /\ h.ids[f[0]] = -f[0 + 1]
      /\ \A i \in 1 .. M - 1 : h.ids[i] < 0 => f[0] = i \/ (\E s \in S : h.entry[h.heap[s]].id = i)
  <2>1. M - 1 - n = 1
    OBVIOUS
  <2>2. FreeList0(f, 1, h, M, h.heap, n)
    BY <1>5, <2>1
  <2>3. 0 \in 0 .. 1 - 1 /\ \A j \in 0 .. 1 - 1 : j = 0
    OBVIOUS
  <2> QED BY <2>2, <2>3 DEF FreeList0
<1>7. b.free = M
  BY <1>2, <1>3, <1>6
<1> DEFINE d == [j \in 0 .. M |-> M + j]
<1>8. \A j \in 0 .. M : d[j] = M + j
  OBVIOUS
<1>9. d \in [0 .. M -> 1 .. D]
  OBVIOUS
<1> HIDE DEF d
<1>10. d[0] = b.free /\ d[M] = D /\ \A i, j \in 0 .. M : d[i] = d[j] => i = j
  BY <1>7, <1>8
<1>11. \A j \in 0 .. M - 1 : b.ids[d[j]] = -d[j + 1]
  <2>1. ASSUME NEW j \in 0 .. M - 1 PROVE b.ids[d[j]] = -d[j + 1]
    <3>1. d[j] = M + j /\ d[j + 1] = M + j + 1 /\ d[j] \in 0 .. D - 1 /\ d[j] \notin 0 .. M - 1
      BY <1>8
    <3> QED BY <1>3, <3>1
  <2> QED BY <2>1
<1>12. \A j \in 0 .. M - 1, s \in Q : b.entry[G[s]].id # d[j]
  <2>1. ASSUME NEW j \in 0 .. M - 1, NEW s \in Q PROVE b.entry[G[s]].id # d[j]
    <3>1. g.entry[G[s]].id \in 1 .. M - 1
      BY <1>1 DEF Apart
    <3> QED BY <1>3, <1>8, <3>1
  <2> QED BY <2>1
<1>13. ASSUME NEW i \in 1 .. D - 1, b.ids[i] < 0
       PROVE  (\E j \in 0 .. M - 1 : d[j] = i) \/ (\E s \in Q : b.entry[G[s]].id = i)
  <2>1. CASE i \in 0 .. M - 1
    <3>1. i \in 1 .. M - 1 /\ h.ids[i] < 0
      BY <1>3, <1>13, <2>1
    <3>2. n \in Q /\ S \subseteq Q
      OBVIOUS
    <3> QED BY <1>1, <1>3, <1>6, <3>1, <3>2
  <2>2. CASE i \notin 0 .. M - 1
    <3>1. i - M \in 0 .. M - 1 /\ i - M \in 0 .. M /\ M + (i - M) = i
      BY <2>2
    <3>2. d[i - M] = i
      BY <1>8, <3>1
    <3> QED BY <3>1, <3>2
  <2> QED BY <2>1, <2>2
<1>14. FreeList0(d, D - 1 - q, b, D, G, q)
  <2>1. D - 1 - q = M
    OBVIOUS
  <2>2. FreeList0(d, M, b, D, G, q)
    BY <1>9, <1>10, <1>11, <1>12, <1>13 DEF FreeList0
  <2> QED BY <2>1, <2>2
<1>15. q + 2 <= D /\ b.ids[0] < 0
  BY <1>3, <1>4
<1>16. Apart(G, q, D, b.entry)
  <2>1. \A i \in 1 .. M - 1 : i \in 1 .. D - 1
    OBVIOUS
  <2> QED BY <1>1, <1>3, <2>1 DEF Apart
<1> QED BY <1>1, <1>3, <1>14, <1>15, <1>16 DEF Fits

LEMMA ScheduleSound ==
  ASSUME NEW n \in Nat, NEW M \in Nat, NEW h, Sound(h, n, M),
         NEW e \in Entries, NEW t \in Nat, NEW lock \in BOOLEAN, h.entry[e].id < 1
  PROVE  /\ \E D \in Nat : Sound(ScheduleEntry(h, e, t, lock), n + 1, D)
         /\ ScheduleEntry(h, e, t, lock).entry = Taken(h, e, t, lock).entry
         /\ h.free >= 1
<1> DEFINE q == n + 1
           G == With(h, q, n, e)
           g == Taken(h, e, t, lock)
           b == Grown(g, M)
           D == 2 * M
           r == ScheduleEntry(h, e, t, lock)
<1>1. q \in Nat /\ q = n + 1 /\ D \in Nat /\ D = 2 * M
  OBVIOUS
<1>2. IsHeap(h, n, M) /\ n + 2 <= M
  BY DEF Sound, Fits
<1> HIDE DEF q, D
<1>3. /\ h.free \in 1 .. M - 1 /\ Apart(G, q, M, g.entry)
      /\ \A s \in 0 .. n - 1 : Points(g, s)
      /\ InOrderBut(G, q, g.entry, n)
  BY <1>1, TakenFacts
<1>4. h.free \in 0 .. M - 1
  BY <1>3
<1>5. /\ IsHeap(g, n, M) /\ IsHeap(b, n, D)
      /\ n + 2 < M => r = ReheapUp(g, e, n)
      /\ n + 2 = M => r = ReheapUp(b, e, n)
  BY <1>1, <1>2, <1>4, ScheduleIs
<1>6. g.heap = h.heap /\ b.heap = h.heap /\ b.entry = g.entry
  BY DEF Taken, Grown
<1>7. G = With(g, q, n, e) /\ G = With(b, q, n, e)
  BY <1>6 DEF With
<1>8. n \in 0 .. q - 1 /\ (0 .. n - 1) \cup {n} = 0 .. q - 1
  BY <1>1
<1>9. \A s \in 0 .. q - 1 : s # n => Points(g, s)
  BY <1>3, <1>8
<1>10. Ready(g, n, M, q, n, e, G)
  <2> HIDE DEF g, G
  <2> QED BY <1>5, <1>7, <1>8, <1>9 DEF Ready
<1>11. \A s \in 0 .. q - 1 : s # n /\ Parent(s) = n => Due0(G, g.entry, n) <= Due0(G, g.entry, s)
  <2>1. ASSUME NEW s \in 0 .. q - 1, s # n PROVE Parent(s) # n
    <3>1. s \in Nat /\ s < n
      BY <1>1, <2>1
    <3>2. Parent(s) < n
      BY <3>1, TreeFacts
    <3> QED BY <3>2
  <2> QED BY <2>1
<1>12. CASE n + 2 < M
  <2>1. Fits(g, q, M, G)
    BY <1>1, <1>12, TakenFits
  <2>2. Sound(ReheapUp(g, e, n), q, M) /\ ReheapUp(g, e, n).entry = g.entry
    <3> HIDE DEF g, G
    <3> QED BY <1>1, <1>3, <1>10, <1>11, <2>1, ReheapUpSound
  <2> HIDE DEF r, g
  <2>3. \E N \in Nat : Sound(r, q, N)
    BY <1>5, <1>12, <2>2
  <2> QED BY <1>3, <1>5, <1>12, <2>2, <2>3 DEF q, r, g
<1>13. CASE n + 2 = M
  <2>1. Fits(b, q, D, G)
    BY <1>1, <1>13, GrownFits
  <2>2. \A s \in 0 .. q - 1 : s # n => Points(b, s)
    <3>1. ASSUME NEW s \in 0 .. n - 1 PROVE Points(b, s)
      <4>1. g.entry[G[s]].id \in 1 .. M - 1 /\ G[s] = g.heap[s]
        <5>1. s \in 0 .. q - 1 /\ s # n
          BY <1>1
        <5> QED BY <1>3, <1>6, <5>1 DEF Apart, With
      <4>2. \A i \in 1 .. M - 1 : b.ids[i] = g.ids[i]
        <5>1. \A i \in 1 .. M - 1 : i \in 0 .. 2 * M - 1 /\ i \in 0 .. M - 1
          OBVIOUS
        <5>2. b.ids = [i \in 0 .. 2 * M - 1 |-> IF i \in 0 .. M - 1 THEN g.ids[i] ELSE -(i + 1)]
          BY DEF Grown
        <5> HIDE DEF b, g
        <5> QED BY <5>1, <5>2
      <4>3. Points(g, s)
        BY <1>3
      <4> HIDE DEF b, g, G
      <4> QED BY <1>6, <4>1, <4>2, <4>3 DEF Points
    <3> QED BY <1>8, <3>1
  <2>3. Ready(b, n, D, q, n, e, G)
    <3> HIDE DEF b, G
    <3> QED BY <1>5, <1>7, <1>8, <2>2 DEF Ready
  <2>4. Sound(ReheapUp(b, e, n), q, D) /\ ReheapUp(b, e, n).entry = b.entry
    <3>1. InOrderBut(G, q, b.entry, n)
      BY <1>3, <1>6
    <3>2. \A s \in 0 .. q - 1 : s # n /\ Parent(s) = n => Due0(G, b.entry, n) <= Due0(G, b.entry, s)
      BY <1>6, <1>11
    <3> HIDE DEF b, G
    <3> QED BY <1>1, <2>1, <2>3, <3>1, <3>2, ReheapUpSound
  <2> HIDE DEF r, b, g
  <2>5. \E N \in Nat : Sound(r, q, N)
    BY <1>1, <1>5, <1>13, <2>4
  <2> QED BY <1>3, <1>5, <1>6, <1>13, <2>4, <2>5 DEF q, r, g
<1> QED BY <1>2, <1>12, <1>13

-----------------------------------------------------------------------------
(* The entries: x is entries, but for e, which now has these fields. *)
Changed(x, entries, e, id, value, lock) ==
  /\ x \in [Entries -> [id : Int, value : Nat, lock : BOOLEAN]]
  /\ \A y \in Entries : y # e => x[y] = entries[y]
  /\ x[e].id = id /\ x[e].value = value /\ x[e].lock = lock

(* What is no entry of the tree, and has no id, and the locks of the        *)
(* entries, are of no account to the heap.                                  *)
LEMMA Unnoticed ==
  ASSUME NEW n \in Nat, NEW M \in Nat, NEW h, Sound(h, n, M), NEW x,
         x \in [Entries -> [id : Int, value : Nat, lock : BOOLEAN]],
         \A y \in Entries : x[y].value = h.entry[y].value
                            /\ (x[y].id = h.entry[y].id \/ (x[y].id < 1 /\ h.entry[y].id < 1)),
         NEW r, r = [heap |-> h.heap, ids |-> h.ids, free |-> h.free, entry |-> x]
  PROVE  Sound(r, n, M)
<1> DEFINE S == 0 .. n - 1
<1>1. /\ h.heap \in [S -> Entries] /\ h.ids \in [0 .. M - 1 -> Int] /\ h.free \in Int
  BY DEF Sound, IsHeap
<1>2. /\ Apart(h.heap, n, M, h.entry) /\ n + 2 <= M /\ h.ids[0] < 0
      /\ \A e \in Entries : h.entry[e].id >= 1 => \E s \in S : h.heap[s] = e
  BY DEF Sound, Fits
<1>3. r.heap = h.heap /\ r.ids = h.ids /\ r.free = h.free /\ r.entry = x
  OBVIOUS
<1>4. \A s \in S : h.heap[s] \in Entries /\ h.entry[h.heap[s]].id \in 1 .. M - 1
  BY <1>1, <1>2 DEF Apart
<1>5. \A s \in S : x[h.heap[s]].id = h.entry[h.heap[s]].id
  BY <1>4
<1>6. IsHeap(r, n, M)
  BY <1>1, <1>3 DEF IsHeap
<1>7. Apart(r.heap, n, M, r.entry)
  BY <1>1, <1>2, <1>3, <1>5 DEF Apart
<1>8. \A e \in Entries : r.entry[e].id >= 1 => \E s \in S : r.heap[s] = e
  <2>1. ASSUME NEW e \in Entries, r.entry[e].id >= 1 PROVE h.entry[e].id >= 1
    BY <1>3, <2>1
  <2> QED BY <1>2, <1>3, <2>1
<1>9. \E f : FreeList0(f, M - 1 - n, r, M, r.heap, n)
  <2>1. PICK f : FreeList0(f, M - 1 - n, h, M, h.heap, n)
    BY DEF Sound, Fits
  <2> DEFINE k == M - 1 - n
  <2>2. \A s \in S : r.entry[r.heap[s]].id = h.entry[h.heap[s]].id
    BY <1>3, <1>5
  <2>3. /\ f \in [0 .. k -> 1 .. M] /\ f[0] = r.free /\ f[k] = M
        /\ \A i, j \in 0 .. k : f[i] = f[j] => i = j
        /\ \A j \in 0 .. k - 1 : r.ids[f[j]] = -f[j + 1]
    BY <1>3, <2>1 DEF FreeList0
  <2>4. \A j \in 0 .. k - 1, s \in S : r.entry[r.heap[s]].id # f[j]
    BY <2>1, <2>2 DEF FreeList0
  <2>5. \A i \in 1 .. M - 1 : r.ids[i] < 0 =>
          (\E j \in 0 .. k - 1 : f[j] = i) \/ (\E s \in S : r.entry[r.heap[s]].id = i)
    <3>1. \A i \in 1 .. M - 1 : h.ids[i] < 0 =>
            (\E j \in 0 .. k - 1 : f[j] = i) \/ (\E s \in S : h.entry[h.heap[s]].id = i)
      BY <2>1 DEF FreeList0
    <3> HIDE DEF k
    <3> QED BY <1>3, <2>2, <3>1
  <2>6. FreeList0(f, M - 1 - n, r, M, r.heap, n)
    BY <2>3, <2>4, <2>5 DEF FreeList0
  <2> QED BY <2>6
<1>10. AllPoint(r, n)
  BY <1>3, <1>5 DEF Sound, AllPoint, Points
<1>11. InOrder(r.heap, n, r.entry)
  <2>1. ASSUME NEW s \in S PROVE Due0(r.heap, r.entry, Parent(s)) <= Due0(r.heap, r.entry, s)
    <3>1. Parent(s) \in S
      BY TreeFacts
    <3>2. Due0(h.heap, h.entry, Parent(s)) <= Due0(h.heap, h.entry, s)
      BY DEF Sound, InOrder
    <3> QED BY <1>3, <1>4, <3>1, <3>2 DEF Due0
  <2> QED BY <2>1 DEF InOrder
<1> QED BY <1>2, <1>3, <1>6, <1>7, <1>8, <1>9, <1>10, <1>11 DEF Sound, Fits

(* The heap without an entry's lock. *)
Unlocked(h, e) == [h EXCEPT !.entry[e].lock = FALSE]

LEMMA UnlockedSound ==
  ASSUME NEW n \in Nat, NEW M \in Nat, NEW h, Sound(h, n, M), NEW e \in Entries, NEW old, NEW value,
         NEW lock, Changed(h.entry, old, e, -1, value, lock)
  PROVE  Sound(Unlocked(h, e), n, M) /\ Changed(Unlocked(h, e).entry, old, e, -1, value, FALSE)
<1> DEFINE y == [h.entry[e] EXCEPT !.lock = FALSE]
           x == [h.entry EXCEPT ![e] = y]
           r == Unlocked(h, e)
<1>1. /\ h = [heap |-> h.heap, ids |-> h.ids, free |-> h.free, entry |-> h.entry]
      /\ h.entry \in [Entries -> [id : Int, value : Nat, lock : BOOLEAN]]
  BY DEF Sound, IsHeap
<1>2. y \in [id : Int, value : Nat, lock : BOOLEAN] /\ y.id = h.entry[e].id
      /\ y.value = h.entry[e].value /\ y.lock = FALSE
  BY <1>1
<1>3. r = [h EXCEPT !.entry = x]
  BY DEF Unlocked
<1> HIDE DEF y
<1>4. x \in [Entries -> [id : Int, value : Nat, lock : BOOLEAN]]
      /\ \A z \in Entries : x[z] = IF z = e THEN y ELSE h.entry[z]
  BY <1>1, <1>2
<1> HIDE DEF x, r
<1>5. r = [heap |-> h.heap, ids |-> h.ids, free |-> h.free, entry |-> x]
  BY <1>1, <1>3
<1>6. Sound(r, n, M)
  <2>1. \A z \in Entries : x[z].value = h.entry[z].value
                           /\ (x[z].id = h.entry[z].id \/ (x[z].id < 1 /\ h.entry[z].id < 1))
    BY <1>2, <1>4
  <2> QED BY <1>4, <1>5, <2>1, Unnoticed
<1>7. Changed(r.entry, old, e, -1, value, FALSE)
  BY <1>2, <1>4, <1>5 DEF Changed
<1> QED BY <1>6, <1>7 DEF r

LEMMA RemovedChanged ==
  ASSUME NEW n \in Nat, NEW M \in Nat, NEW h, Sound(h, n, M), NEW slot \in 0 .. n - 1,
         NEW e, e = h.heap[slot]
  PROVE  /\ e \in Entries
         /\ Changed(Remove(h, slot).entry, h.entry, e, -1, h.entry[e].value, h.entry[e].lock)
<1> DEFINE y == [h.entry[e] EXCEPT !.id = -1]
           x == [h.entry EXCEPT ![e] = y]
<1>1. /\ h.heap \in [0 .. n - 1 -> Entries]
      /\ h.entry \in [Entries -> [id : Int, value : Nat, lock : BOOLEAN]]
  BY DEF Sound, IsHeap
<1>2. e \in Entries
  BY <1>1
<1>3. Remove(h, slot).entry = x
  BY RemoveSound DEF Freed
<1>4. /\ y \in [id : Int, value : Nat, lock : BOOLEAN] /\ y.id = -1
      /\ y.value = h.entry[e].value /\ y.lock = h.entry[e].lock
  BY <1>1, <1>2
<1> HIDE DEF y
<1>5. x \in [Entries -> [id : Int, value : Nat, lock : BOOLEAN]]
      /\ \A z \in Entries : x[z] = IF z = e THEN y ELSE h.entry[z]
  BY <1>1, <1>2, <1>4
<1> HIDE DEF x
<1>6. Changed(x, h.entry, e, -1, h.entry[e].value, h.entry[e].lock)
  BY <1>2, <1>4, <1>5 DEF Changed
<1> QED BY <1>2, <1>3, <1>6

(* What a poll leaves of the heap. *)
LEMMA FireSound ==
  ASSUME NEW n \in Nat, NEW M \in Nat, NEW h, Sound(h, n, M), n > 0, NEW e, e = h.heap[0]
  PROVE  /\ e \in Entries /\ Sound(Unlocked(Remove(h, 0), e), n - 1, M)
         /\ Changed(Unlocked(Remove(h, 0), e).entry, h.entry, e, -1, h.entry[e].value, FALSE)
<1> DEFINE r == Remove(h, 0)
           p == n - 1
           lock == h.entry[e].lock
           value == h.entry[e].value
<1>1. 0 \in 0 .. n - 1 /\ p \in Nat
  OBVIOUS
<1>2. Sound(r, p, M)
  BY <1>1, RemoveSound
<1>3. e \in Entries /\ Changed(r.entry, h.entry, e, -1, value, lock)
  BY <1>1, RemovedChanged
<1> HIDE DEF r, p, lock, value
<1>4. Sound(Unlocked(r, e), p, M) /\ Changed(Unlocked(r, e).entry, h.entry, e, -1, value, FALSE)
  BY <1>1, <1>2, <1>3, UnlockedSound
<1> QED BY <1>3, <1>4 DEF r, p, lock, value

(* What a cancel leaves of the heap. *)
Missing(h, e) == [h EXCEPT !.entry[e].id = -1]

Cancelled(h, e) ==
  IF h.entry[e].id < 0 \/ h.entry[e].id > MaxSize(h) THEN Missing(h, e)
  ELSE IF h.ids[h.entry[e].id] < 0 THEN Missing(h, e)
  ELSE IF h.heap[h.ids[h.entry[e].id]] # e THEN Missing(h, e)
  ELSE Remove(h, h.ids[h.entry[e].id])

LEMMA CancelledSound ==
  ASSUME NEW n \in Nat, NEW M \in Nat, NEW h, Sound(h, n, M), NEW e \in Entries
  PROVE  /\ \E k \in Nat : Sound(Unlocked(Cancelled(h, e), e), k, M)
         /\ Changed(Unlocked(Cancelled(h, e), e).entry, h.entry, e, -1, h.entry[e].value, FALSE)
<1> DEFINE r == Cancelled(h, e)
           id == h.entry[e].id
           value == h.entry[e].value
           lock == h.entry[e].lock
<1>1. /\ h = [heap |-> h.heap, ids |-> h.ids, free |-> h.free, entry |-> h.entry]
      /\ h.entry \in [Entries -> [id : Int, value : Nat, lock : BOOLEAN]]
  BY DEF Sound, IsHeap
<1>2. id \in Int /\ value \in Nat /\ lock \in BOOLEAN
  BY <1>1
<1>3. MaxSize(h) = M /\ M >= 2 /\ h.ids[0] < 0
  <2>1. IsHeap(h, n, M) /\ n + 2 <= M /\ h.ids[0] < 0
    BY DEF Sound, Fits
  <2> QED BY <2>1, Sizes
<1>4. CASE id < 1
  <2> DEFINE y == [h.entry[e] EXCEPT !.id = -1]
             x == [h.entry EXCEPT ![e] = y]
             m == Missing(h, e)
  <2>1. r = m
    <3>1. id < 0 \/ id = 0
      BY <1>2, <1>4
    <3>2. CASE id < 0
      BY <3>2 DEF Cancelled
    <3>3. CASE id = 0
      BY <1>3, <3>3 DEF Cancelled
    <3> QED BY <3>1, <3>2, <3>3
  <2>2. y \in [id : Int, value : Nat, lock : BOOLEAN] /\ y.id = -1 /\ y.value = value /\ y.lock = lock
    BY <1>1
  <2>3. m = [h EXCEPT !.entry = x]
    BY DEF Missing
  <2> HIDE DEF y
  <2>4. x \in [Entries -> [id : Int, value : Nat, lock : BOOLEAN]]
        /\ \A z \in Entries : x[z] = IF z = e THEN y ELSE h.entry[z]
    BY <1>1, <2>2
  <2> HIDE DEF x, m
  <2>5. m = [heap |-> h.heap, ids |-> h.ids, free |-> h.free, entry |-> x]
    BY <1>1, <2>3
  <2>6. Sound(m, n, M)
    <3>1. \A z \in Entries : x[z].value = h.entry[z].value
                             /\ (x[z].id = h.entry[z].id \/ (x[z].id < 1 /\ h.entry[z].id < 1))
      BY <1>4, <2>2, <2>4
    <3> QED BY <2>4, <2>5, <3>1, Unnoticed
  <2>7. Changed(m.entry, h.entry, e, -1, value, lock)
    BY <2>2, <2>4, <2>5 DEF Changed
  <2> HIDE DEF r, value, lock
  <2>8. Sound(Unlocked(m, e), n, M) /\ Changed(Unlocked(m, e).entry, h.entry, e, -1, value, FALSE)
    BY <2>6, <2>7, UnlockedSound
  <2> QED BY <2>1, <2>8 DEF r, value
<1>5. CASE id >= 1
  <2>1. PICK s \in 0 .. n - 1 : h.heap[s] = e
    BY <1>5 DEF Sound, Fits
  <2>2. id \in 1 .. M - 1 /\ h.ids[id] = s
    BY <2>1 DEF Sound, Fits, Apart, AllPoint, Points
  <2>3. r = Remove(h, s)
    BY <1>3, <2>1, <2>2 DEF Cancelled
  <2> DEFINE p == n - 1
  <2>4. p \in Nat
    OBVIOUS
  <2>5. Sound(r, p, M)
    BY <2>3, RemoveSound
  <2>6. Changed(r.entry, h.entry, e, -1, value, lock)
    BY <2>1, <2>3, RemovedChanged
  <2> HIDE DEF r, p, value, lock
  <2>7. Sound(Unlocked(r, e), p, M) /\ Changed(Unlocked(r, e).entry, h.entry, e, -1, value, FALSE)
    BY <2>4, <2>5, <2>6, UnlockedSound
  <2> QED BY <2>4, <2>7 DEF r, value
<1>6. id < 1 \/ id >= 1
  BY <1>2
<1> HIDE DEF id, r, value
<1>7. /\ \E k \in Nat : Sound(Unlocked(r, e), k, M)
      /\ Changed(Unlocked(r, e).entry, h.entry, e, -1, value, FALSE)
  BY <1>4, <1>5, <1>6 DEF r, value
<1> QED BY <1>7 DEF r, value

-----------------------------------------------------------------------------
(* The heap between two operations is sound in the words of the model.      *)

(* The first n ids of the free list, and the one after them. *)
Follows(from, M) ==
  from = [j \in 0 .. M |->
            IF j = 0 THEN <<{}, free>>
            ELSE LET r == from[j - 1] IN
                 IF r[2] \in DOMAIN ids THEN <<r[1] \cup {r[2]}, -ids[r[2]]>> ELSE r]

LEMMA FollowsOnce ==
  ASSUME NEW M \in Nat, NEW f, NEW g, Follows(f, M), Follows(g, M)
  PROVE  \A j \in 0 .. M : f[j] = g[j]
<1> DEFINE T == {j \in 0 .. M : f[j] # g[j]}
           After(r) == IF r[2] \in DOMAIN ids THEN <<r[1] \cup {r[2]}, -ids[r[2]]>> ELSE r
<1>1. SUFFICES ASSUME T # {} PROVE FALSE
  OBVIOUS
<1>2. PICK j \in T : \A i \in T : j <= i
  <2>1. T \in SUBSET Nat
    OBVIOUS
  <2> QED BY <1>1, <2>1, LeastElement
<1>3. /\ \A i \in 0 .. M : f[i] = IF i = 0 THEN <<{}, free>> ELSE After(f[i - 1])
      /\ \A i \in 0 .. M : g[i] = IF i = 0 THEN <<{}, free>> ELSE After(g[i - 1])
  BY DEF Follows
<1> HIDE DEF After
<1>4. CASE j = 0
  BY <1>2, <1>3, <1>4
<1>5. CASE j # 0
  <2>1. j - 1 \in 0 .. M /\ ~(j <= j - 1) /\ j \in 0 .. M
    BY <1>2, <1>5
  <2>2. f[j - 1] = g[j - 1]
    BY <1>2, <2>1
  <2> QED BY <1>2, <1>3, <1>5, <2>1, <2>2
<1> QED BY <1>4, <1>5

LEMMA SoundFreeList ==
  ASSUME NEW n \in Nat, NEW M \in Nat, Sound(Now, n, M)
  PROVE  FreeList
<1> DEFINE S == 0 .. n - 1
           k == M - 1 - n
           R == {i \in 1 .. M - 1 : ids[i] < 0}
<1>1. Now.ids = ids /\ Now.free = free /\ Now.heap = heap /\ Now.entry = entry
  BY DEF Now
<1>2. IsHeap(Now, n, M) /\ DOMAIN ids = 0 .. M - 1 /\ n + 2 <= M
  BY <1>1 DEF Sound, IsHeap, Fits
<1>3. MaxSize(Now) = M
  BY <1>2, Sizes
<1>4. PICK f : FreeList0(f, k, Now, M, heap, n)
  BY <1>1 DEF Sound, Fits
<1>5. /\ f \in [0 .. k -> 1 .. M] /\ f[0] = free /\ f[k] = M
      /\ \A i, j \in 0 .. k : f[i] = f[j] => i = j
      /\ \A j \in 0 .. k - 1 : ids[f[j]] = -f[j + 1]
      /\ \A j \in 0 .. k - 1, s \in S : entry[heap[s]].id # f[j]
      /\ \A i \in 1 .. M - 1 : ids[i] < 0 =>
           (\E j \in 0 .. k - 1 : f[j] = i) \/ (\E s \in S : entry[heap[s]].id = i)
  BY <1>1, <1>4 DEF FreeList0
<1>6. k \in Nat /\ k <= M
  BY <1>2
<1>7. \A j \in 0 .. k - 1 : f[j] \in 1 .. M - 1
  <2>1. ASSUME NEW j \in 0 .. k - 1 PROVE f[j] \in 1 .. M - 1
    <3>1. j \in 0 .. k /\ k \in 0 .. k /\ j # k
      BY <1>6
    <3>2. f[j] \in 1 .. M /\ f[j] # M
      BY <1>5, <3>1
    <3> QED BY <3>2
  <2> QED BY <2>1
<1> HIDE DEF k
<1>8. R = {f[i] : i \in 0 .. k - 1}
  <2>1. \A i \in 0 .. k - 1 : f[i] \in R
    <3>1. ASSUME NEW i \in 0 .. k - 1 PROVE f[i] \in R
      <4>1. i + 1 \in 0 .. k
        BY <1>6
      <4>2. f[i + 1] \in 1 .. M /\ ids[f[i]] = -f[i + 1]
        BY <1>5, <4>1
      <4>3. -f[i + 1] < 0
        BY <4>2
      <4> QED BY <1>7, <4>2, <4>3
    <3> QED BY <3>1
  <2>2. \A i \in R : \E j \in 0 .. k - 1 : f[j] = i
    <3>1. ASSUME NEW i \in R PROVE \E j \in 0 .. k - 1 : f[j] = i
      <4>1. \A s \in S : entry[heap[s]].id # i
        <5>1. ASSUME NEW s \in S, entry[heap[s]].id = i PROVE FALSE
          <6>1. ids[i] = s
            BY <1>1, <5>1 DEF Sound, AllPoint, Points
          <6> QED BY <6>1
        <5> QED BY <5>1
      <4> QED BY <1>5, <4>1
    <3> QED BY <3>1
  <2> HIDE DEF R
  <2> QED BY <2>1, <2>2
<1> HIDE DEF R
<1> DEFINE P(j) == {f[i] : i \in 0 .. j - 1}
           g == [j \in 0 .. M |-> IF j <= k THEN <<P(j), f[j]>> ELSE <<P(k), f[k]>>]
           After(r) == IF r[2] \in DOMAIN ids THEN <<r[1] \cup {r[2]}, -ids[r[2]]>> ELSE r
<1>9. ASSUME NEW j \in 0 .. M PROVE g[j] = IF j = 0 THEN <<{}, free>> ELSE After(g[j - 1])
  <2>1. CASE j = 0
    <3>1. P(j) = {} /\ j <= k
      BY <1>6, <2>1
    <3>2. g[j] = <<P(j), f[j]>>
      BY <3>1
    <3> QED BY <1>5, <2>1, <3>1, <3>2
  <2>2. CASE j # 0 /\ j <= k
    <3>1. j - 1 \in 0 .. M /\ j - 1 <= k /\ j - 1 \in 0 .. k - 1 /\ (j - 1) + 1 = j
      BY <1>6, <2>2
    <3>2. g[j] = <<P(j), f[j]>> /\ g[j - 1] = <<P(j - 1), f[j - 1]>>
      BY <2>2, <3>1
    <3>3. P(j) = P(j - 1) \cup {f[j - 1]}
      <4>1. 0 .. j - 1 = (0 .. (j - 1) - 1) \cup {j - 1}
        BY <2>2
      <4> QED BY <4>1
    <3>4. f[j - 1] \in 1 .. M - 1 /\ ids[f[j - 1]] = -f[j] /\ f[j] \in 1 .. M
      <4>1. j \in 0 .. k
        BY <1>6, <2>2
      <4> QED BY <1>5, <1>7, <3>1, <4>1
    <3>5. f[j - 1] \in DOMAIN ids /\ -ids[f[j - 1]] = f[j]
      BY <1>2, <3>4
    <3> HIDE DEF P, g
    <3>6. After(<<P(j - 1), f[j - 1]>>) = <<P(j - 1) \cup {f[j - 1]}, f[j]>>
      BY <3>5
    <3> HIDE DEF After
    <3> QED BY <2>2, <3>2, <3>3, <3>6
  <2>3. CASE j # 0 /\ ~(j <= k)
    <3>1. j - 1 \in 0 .. M /\ (j - 1 <= k => j - 1 = k)
      BY <1>6, <2>3
    <3>2. g[j] = <<P(k), f[k]>>
      BY <2>3
    <3>3. g[j - 1] = IF j - 1 <= k THEN <<P(j - 1), f[j - 1]>> ELSE <<P(k), f[k]>>
      BY <3>1
    <3> HIDE DEF g, P
    <3>4. g[j - 1] = <<P(k), f[k]>>
      BY <3>1, <3>3
    <3>5. f[k] \notin DOMAIN ids
      BY <1>2, <1>5
    <3>6. After(<<P(k), f[k]>>) = <<P(k), f[k]>>
      BY <3>5
    <3> HIDE DEF After
    <3> QED BY <2>3, <3>2, <3>4, <3>6
  <2> QED BY <2>1, <2>2, <2>3
<1>10. Follows(g, M)
  <2>1. g = [j \in 0 .. M |-> g[j]]
    OBVIOUS
  <2> HIDE DEF g
  <2>2. g = [j \in 0 .. M |-> IF j = 0 THEN <<{}, free>> ELSE After(g[j - 1])]
    BY <1>9, <2>1
  <2> QED BY <2>2 DEF Follows
<1>11. g[M] = <<R, M>>
  <2>1. M \in 0 .. M /\ (M <= k => M = k)
    BY <1>6
  <2>2. g[M] = IF M <= k THEN <<P(M), f[M]>> ELSE <<P(k), f[k]>>
    BY <2>1
  <2>3. P(k) = R
    BY <1>8
  <2> HIDE DEF g, P
  <2> QED BY <1>5, <2>1, <2>2, <2>3
<1> HIDE DEF g
<1> DEFINE from == CHOOSE h : Follows(h, M)
<1>12. Follows(from, M)
  BY <1>10
<1>13. from[M] = <<R, M>>
  <2> HIDE DEF from
  <2>1. M \in 0 .. M
    OBVIOUS
  <2> QED BY <1>10, <1>11, <1>12, <2>1, FollowsOnce
<1> QED BY <1>3, <1>13 DEF FreeList, R, Follows

LEMMA SoundHeap ==
  ASSUME NEW n \in Nat, NEW M \in Nat, Sound(Now, n, M)
  PROVE  HeapSound
<1> DEFINE S == 0 .. n - 1
<1>1. Now.ids = ids /\ Now.free = free /\ Now.heap = heap /\ Now.entry = entry
  BY DEF Now
<1>2. IsHeap(Now, n, M)
  BY DEF Sound
<1>3. CurSize(Now) = n /\ MaxSize(Now) = M
  BY <1>2, Sizes
<1>4. heap \in [S -> Entries] /\ DOMAIN heap = S /\ DOMAIN ids = 0 .. M - 1
  BY <1>1, <1>2 DEF IsHeap
<1>5. /\ n + 2 <= M /\ ids[0] < 0
      /\ \A e \in Entries : entry[e].id >= 1 => \E s \in S : heap[s] = e
      /\ \A s \in S : entry[heap[s]].id \in 1 .. M - 1
  BY <1>1 DEF Sound, Fits, Apart
<1>6. Range(heap) = Scheduled
  BY <1>4, <1>5 DEF Range, Scheduled
<1>7. \A s \in S : ids[entry[heap[s]].id] = s
  BY <1>1 DEF Sound, AllPoint, Points
<1>8. Located
  BY <1>4, <1>6, <1>7 DEF Located
<1>9. Ordered
  BY <1>1, <1>4 DEF Sound, InOrder, Due0, Value, Ordered
<1>10. FreeList
  BY SoundFreeList
<1> QED BY <1>3, <1>4, <1>5, <1>8, <1>9, <1>10 DEF HeapSound

(* No other is due before the entry in slot 0. *)
LEMMA RootIsFirst ==
  ASSUME NEW n \in Nat, NEW M \in Nat, Sound(Now, n, M), NEW s \in 0 .. n - 1
  PROVE  entry[heap[0]].value <= entry[heap[s]].value
<1> DEFINE v(t) == entry[heap[t]].value
           T == {t \in 0 .. n - 1 : ~(v(0) <= v(t))}
<1>1. \A t \in 0 .. n - 1 : v(t) \in Nat /\ v(Parent(t)) <= v(t)
  BY DEF Sound, IsHeap, InOrder, Due0, Now
<1> HIDE DEF v
<1>2. T = {}
  <2>1. SUFFICES ASSUME T # {} PROVE FALSE
    OBVIOUS
  <2>2. PICK t \in T : \A u \in T : t <= u
    <3>1. T \in SUBSET Nat
      OBVIOUS
    <3> QED BY <2>1, <3>1, LeastElement
  <2>3. t # 0 /\ 0 \in 0 .. n - 1 /\ t \in 0 .. n - 1
    BY <1>1, <2>2
  <2>4. Parent(t) \in 0 .. n - 1 /\ ~(t <= Parent(t))
    BY <2>3, TreeFacts
  <2>5. v(0) <= v(Parent(t))
    BY <2>2, <2>4
  <2> QED BY <1>1, <2>2, <2>3, <2>4, <2>5
<1> QED BY <1>2 DEF v

LEMMA InitSound ==
  ASSUME Init
  PROVE  Sound(Now, 0, Size + 2)
<1> DEFINE M == Size + 2
           f == [j \in 0 .. M - 1 |-> j + 1]
<1>1. /\ heap = [s \in {} |-> 0] /\ ids = [i \in 0 .. Size + 1 |-> -(i + 1)] /\ free = 1
  BY DEF Init
<1>2. PICK id \in {-1, 0} : entry = [e \in Entries |-> [id |-> id, value |-> 0, lock |-> FALSE]]
  BY DEF Init
<1>3. Now.ids = ids /\ Now.free = free /\ Now.heap = heap /\ Now.entry = entry
      /\ Now = [heap |-> heap, ids |-> ids, free |-> free, entry |-> entry]
  BY DEF Now
<1>4. M \in Nat /\ M >= 3 /\ M - 1 = Size + 1 /\ 0 .. -1 = {}
  BY SizeAssumption
<1>5. heap \in [0 .. 0 - 1 -> Entries]
  <2>1. 0 .. 0 - 1 = {}
    OBVIOUS
  <2> QED BY <1>1, <2>1
<1>6. ids \in [0 .. M - 1 -> Int] /\ \A i \in 0 .. M - 1 : ids[i] = -(i + 1)
  BY <1>1, <1>4
<1>7. entry \in [Entries -> [id : Int, value : Nat, lock : BOOLEAN]] /\ \A e \in Entries : entry[e].id < 1
  BY <1>2
<1> HIDE DEF M
<1>8. IsHeap(Now, 0, M)
  BY <1>1, <1>3, <1>5, <1>6, <1>7 DEF IsHeap
<1>9. Apart(heap, 0, M, entry)
  BY <1>5 DEF Apart
<1>10. FreeList0(f, M - 1 - 0, Now, M, heap, 0)
  <2> DEFINE k == M - 1
  <2>1. \A j \in 0 .. k : f[j] = j + 1
    OBVIOUS
  <2>2. f \in [0 .. k -> 1 .. M]
    BY <1>4
  <2> HIDE DEF f
  <2>3. f[0] = free /\ f[k] = M /\ \A i, j \in 0 .. k : f[i] = f[j] => i = j
    BY <1>1, <1>4, <2>1
  <2>4. \A j \in 0 .. k - 1 : ids[f[j]] = -f[j + 1]
    <3>1. ASSUME NEW j \in 0 .. k - 1 PROVE ids[f[j]] = -f[j + 1]
      <4>1. f[j] = j + 1 /\ f[j + 1] = (j + 1) + 1 /\ j + 1 \in 0 .. M - 1
        BY <1>4, <2>1
      <4> QED BY <1>6, <4>1
    <3> QED BY <3>1
  <2>5. \A i \in 1 .. M - 1 : \E j \in 0 .. k - 1 : f[j] = i
    <3>1. ASSUME NEW i \in 1 .. M - 1 PROVE \E j \in 0 .. k - 1 : f[j] = i
      <4>1. i - 1 \in 0 .. k - 1 /\ f[i - 1] = i
        BY <1>4, <2>1
      <4> QED BY <4>1
    <3> QED BY <3>1
  <2>6. FreeList0(f, k, Now, M, heap, 0)
    BY <1>3, <2>2, <2>3, <2>4, <2>5 DEF FreeList0
  <2>7. M - 1 - 0 = k
    BY <1>4
  <2> QED BY <2>6, <2>7
<1>11. ids[0] < 0 /\ 0 + 2 <= M
  BY <1>4, <1>6
<1>12. Fits(Now, 0, M, heap)
  BY <1>3, <1>7, <1>9, <1>10, <1>11 DEF Fits
<1>13. AllPoint(Now, 0) /\ InOrder(heap, 0, entry)
  BY DEF AllPoint, InOrder
<1>14. Sound(Now, 0, M)
  BY <1>3, <1>8, <1>12, <1>13 DEF Sound
<1> QED BY <1>14 DEF M

-----------------------------------------------------------------------------
(* The steps. *)

HeapKept == \E n, M \in Nat : Sound(Now, n, M)

LEMMA BecomesSound ==
  ASSUME NEW h, NEW n \in Nat, NEW M \in Nat, Sound(h, n, M), Becomes(h)
  PROVE  HeapKept' /\ entry' = h.entry
<1>1. h = [heap |-> h.heap, ids |-> h.ids, free |-> h.free, entry |-> h.entry]
  BY DEF Sound, IsHeap
<1>2. Now' = h
  BY <1>1 DEF Now, Becomes
<1>3. Sound(Now', n, M)
  BY <1>2
<1> QED BY <1>3 DEF HeapKept, Becomes

LEMMA ScheduleStep ==
  ASSUME HeapKept, NEW e \in Entries, NEW t \in Times, NEW lock \in BOOLEAN,
         entry[e].id < 1, Becomes(ScheduleEntry(Now, e, t, lock))
  PROVE  /\ HeapKept'
         /\ \E id \in Nat \ {0} : Changed(entry', entry, e, id, t, lock)
<1>1. PICK n \in Nat, M \in Nat : Sound(Now, n, M)
  BY DEF HeapKept
<1> DEFINE r == ScheduleEntry(Now, e, t, lock)
           q == n + 1
<1>2. Now.entry = entry /\ Now.free = free /\ t \in Nat /\ q \in Nat
  BY TimesAssumption DEF Now
<1>3. /\ \E D \in Nat : Sound(r, q, D)
      /\ r.entry = Taken(Now, e, t, lock).entry /\ free >= 1
  BY <1>1, <1>2, ScheduleSound
<1>4. free \in Int /\ entry \in [Entries -> [id : Int, value : Nat, lock : BOOLEAN]]
  BY <1>1, <1>2 DEF Sound, IsHeap
<1> HIDE DEF r, q
<1>5. HeapKept' /\ entry' = r.entry
  BY <1>2, <1>3, BecomesSound DEF r
<1> DEFINE y == [id |-> free, value |-> t, lock |-> lock]
<1>6. r.entry = [entry EXCEPT ![e] = y]
  BY <1>2, <1>3 DEF Taken
<1>7. y \in [id : Int, value : Nat, lock : BOOLEAN] /\ y.id = free /\ y.value = t /\ y.lock = lock
  BY <1>2, <1>4
<1> HIDE DEF y
<1>8. /\ entry' \in [Entries -> [id : Int, value : Nat, lock : BOOLEAN]]
      /\ \A z \in Entries : entry'[z] = IF z = e THEN y ELSE entry[z]
  BY <1>4, <1>5, <1>6, <1>7
<1>9. Changed(entry', entry, e, free, t, lock)
  BY <1>7, <1>8 DEF Changed
<1>10. free \in Nat \ {0}
  BY <1>3, <1>4
<1> QED BY <1>5, <1>9, <1>10

LEMMA CancelStep ==
  ASSUME HeapKept, NEW e \in Entries, Cancel(e)
  PROVE  HeapKept' /\ Changed(entry', entry, e, -1, entry[e].value, FALSE)
<1>1. PICK n \in Nat, M \in Nat : Sound(Now, n, M)
  BY DEF HeapKept
<1>2. Now.entry = entry /\ Now.ids = ids /\ Now.heap = heap
  BY DEF Now
<1>3. Becomes(Unlocked(Cancelled(Now, e), e))
  BY <1>2 DEF Cancel, Unlocked, Cancelled, Missing
<1>4. /\ \E k \in Nat : Sound(Unlocked(Cancelled(Now, e), e), k, M)
      /\ Changed(Unlocked(Cancelled(Now, e), e).entry, entry, e, -1, entry[e].value, FALSE)
  BY <1>1, <1>2, CancelledSound
<1>5. HeapKept' /\ entry' = Unlocked(Cancelled(Now, e), e).entry
  BY <1>1, <1>3, <1>4, BecomesSound
<1> QED BY <1>4, <1>5

(* The entry that a poll takes out is the first of the scheduled ones.      *)
LEMMA FireStep ==
  ASSUME HeapKept, NEW p \in Pollers, PollFire(p)
  PROVE  /\ HeapKept' /\ heap[0] \in Entries /\ entry[heap[0]].id >= 1
         /\ Changed(entry', entry, heap[0], -1, entry[heap[0]].value, FALSE)
         /\ \A f \in Entries : entry[f].id >= 1 => entry[heap[0]].value <= entry[f].value
<1>1. PICK n \in Nat, M \in Nat : Sound(Now, n, M)
  BY DEF HeapKept
<1>2. Now.entry = entry /\ Now.heap = heap
  BY DEF Now
<1>3. n > 0
  <2>1. IsHeap(Now, n, M)
    BY <1>1 DEF Sound
  <2>2. CurSize(Now) = n
    BY <2>1, Sizes
  <2> QED BY <2>2 DEF PollFire, Due
<1> DEFINE e == heap[0]
           r == Unlocked(Remove(Now, 0), e)
           q == n - 1
<1>4. Becomes(r)
  BY DEF PollFire, Unlocked
<1>5. e \in Entries /\ Sound(r, q, M) /\ Changed(r.entry, entry, e, -1, entry[e].value, FALSE)
  BY <1>1, <1>2, <1>3, FireSound
<1>6. q \in Nat
  BY <1>3
<1> HIDE DEF r, q
<1>7. HeapKept' /\ entry' = r.entry
  BY <1>1, <1>4, <1>5, <1>6, BecomesSound
<1>8. entry[e].id >= 1
  <2>1. 0 \in 0 .. n - 1
    BY <1>3
  <2>2. entry[e].id \in 1 .. M - 1
    BY <1>1, <1>2, <2>1 DEF Sound, Fits, Apart
  <2> QED BY <2>2
<1>9. ASSUME NEW f \in Entries, entry[f].id >= 1 PROVE entry[e].value <= entry[f].value
  <2>1. PICK s \in 0 .. n - 1 : heap[s] = f
    BY <1>1, <1>2, <1>9 DEF Sound, Fits
  <2>2. entry[heap[0]].value <= entry[heap[s]].value
    BY <1>1, RootIsFirst
  <2> QED BY <2>1, <2>2
<1> QED BY <1>5, <1>7, <1>8, <1>9

-----------------------------------------------------------------------------
(* The invariant: the heap is sound; a caller's entry is not scheduled, and *)
(* one with a lock is; the references balance.                              *)

Polls == [now : Int, count : Nat, run : SUBSET Entries, lock : BOOLEAN]

Typed ==
  /\ refs \in [Entries -> Int]
  /\ calling \in [Callers -> SUBSET Entries]
  /\ poll \in [Pollers -> Polls]

RunsOne ==
  /\ \A c \in Callers : \A x, y \in calling[c] : x = y
  /\ \A p \in Pollers : \A x, y \in poll[p].run : x = y

Checked == \A c \in Callers : \A e \in calling[c] : entry[e].id < 1

LockMeans == \A e \in Entries : entry[e].lock => entry[e].id >= 1

Holders(e) == {p \in Pollers : e \in poll[p].run /\ poll[p].lock}

Balanced ==
  \A e \in Entries : refs[e] = Cardinality(Holders(e)) + (IF entry[e].lock THEN 1 ELSE 0)

IInv == HeapKept /\ Typed /\ RunsOne /\ Checked /\ LockMeans /\ Balanced

(* No two threads have found the same entry not scheduled: the owners of an *)
(* entry schedule it one at a time.                                         *)
Serialised == \A c, d \in Callers : c # d => calling[c] \cap calling[d] = {}

LEMMA Dates ==
  ASSUME HeapKept
  PROVE  entry \in [Entries -> [id : Int, value : Nat, lock : BOOLEAN]]
BY DEF HeapKept, Sound, IsHeap, Now

LEMMA HoldersFinite ==
  ASSUME NEW e
  PROVE  IsFiniteSet(Holders(e)) /\ Cardinality(Holders(e)) \in Nat
<1>1. Holders(e) \subseteq Pollers
  BY DEF Holders
<1>2. IsFiniteSet(Holders(e))
  BY <1>1, PollersAssumption, FS_Subset
<1> QED BY <1>2, FS_CardinalityType

LEMMA InitInv == Init => IInv
<1> SUFFICES ASSUME Init PROVE IInv
  OBVIOUS
<1>1. Sound(Now, 0, Size + 2)
  BY InitSound
<1>2. HeapKept
  <2>1. 0 \in Nat /\ Size + 2 \in Nat
    BY SizeAssumption
  <2> QED BY <1>1, <2>1 DEF HeapKept
<1>3. /\ refs = [e \in Entries |-> 0] /\ calling = [c \in Callers |-> {}]
      /\ poll = [p \in Pollers |-> [now |-> -1, count |-> 0, run |-> {}, lock |-> FALSE]]
  BY DEF Init
<1>4. \A e \in Entries : ~entry[e].lock
  BY DEF Init
<1>5. Typed
  BY <1>3 DEF Typed, Polls
<1>6. RunsOne /\ Checked /\ LockMeans
  BY <1>3, <1>4 DEF RunsOne, Checked, LockMeans
<1>7. Balanced
  <2>1. ASSUME NEW e \in Entries PROVE Cardinality(Holders(e)) = 0
    <3>1. Holders(e) = {}
      BY <1>3 DEF Holders
    <3> QED BY <3>1, FS_EmptySet
  <2>2. \A e \in Entries : refs[e] = 0
    BY <1>3
  <2> QED BY <1>4, <2>1, <2>2 DEF Balanced
<1> QED BY <1>2, <1>5, <1>6, <1>7 DEF IInv

LEMMA CheckInv ==
  ASSUME IInv, NEW c \in Callers, NEW e \in Entries, CheckScheduled(c, e)
  PROVE  IInv'
<1> USE DEF IInv
<1>1. /\ calling[c] = {} /\ entry[e].id < 1 /\ calling' = [calling EXCEPT ![c] = {e}]
      /\ UNCHANGED <<heap, ids, free, entry, refs, poll>>
  BY DEF CheckScheduled, ht
<1>2. calling \in [Callers -> SUBSET Entries]
  BY DEF Typed
<1>3. \A d \in Callers : calling'[d] = IF d = c THEN {e} ELSE calling[d]
  BY <1>1, <1>2
<1>4. HeapKept'
  <2>1. Now' = Now
    BY <1>1 DEF Now
  <2> QED BY <2>1 DEF HeapKept
<1>5. Typed'
  BY <1>1, <1>2 DEF Typed
<1>6. RunsOne' /\ Checked' /\ LockMeans'
  BY <1>1, <1>3 DEF RunsOne, Checked, LockMeans
<1>7. Balanced'
  BY <1>1 DEF Balanced, Holders
<1> QED BY <1>4, <1>5, <1>6, <1>7

LEMMA ScheduleInv ==
  ASSUME IInv, Serialised, NEW c \in Callers, NEW t \in Times, NEW lock \in BOOLEAN, Schedule(c, t, lock)
  PROVE  IInv'
<1> USE DEF IInv
<1>1. PICK e \in calling[c] :
        /\ Becomes(ScheduleEntry(Now, e, t, lock))
        /\ refs' = IF lock THEN [refs EXCEPT ![e] = @ + 1] ELSE refs
  BY DEF Schedule
<1>2. calling' = [calling EXCEPT ![c] = {}] /\ poll' = poll
  BY DEF Schedule
<1>3. refs \in [Entries -> Int] /\ calling \in [Callers -> SUBSET Entries] /\ e \in Entries
  BY DEF Typed
<1>4. entry[e].id < 1
  BY DEF Checked
<1>5. HeapKept' /\ \E id \in Nat \ {0} : Changed(entry', entry, e, id, t, lock)
  BY <1>1, <1>3, <1>4, ScheduleStep
<1>6. PICK id \in Nat \ {0} : Changed(entry', entry, e, id, t, lock)
  BY <1>5
<1>7. /\ \A y \in Entries : y # e => entry'[y] = entry[y]
      /\ entry'[e].id = id /\ entry'[e].lock = lock /\ id >= 1
  BY <1>6 DEF Changed
<1>8. \A d \in Callers : calling'[d] = IF d = c THEN {} ELSE calling[d]
  BY <1>2, <1>3
<1>9. \A d \in Callers : e \notin calling'[d]
  BY <1>8 DEF Serialised
<1>10. Typed'
  BY <1>1, <1>2, <1>3 DEF Typed
<1>11. RunsOne'
  BY <1>2, <1>8 DEF RunsOne
<1>12. Checked'
  <2>1. ASSUME NEW d \in Callers, NEW y \in calling'[d] PROVE entry'[y].id < 1
    <3>1. y # e /\ y \in calling[d] /\ y \in Entries
      BY <1>3, <1>8, <1>9
    <3> QED BY <1>7, <3>1 DEF Checked
  <2> QED BY <2>1 DEF Checked
<1>13. LockMeans'
  BY <1>7 DEF LockMeans
<1>14. Balanced'
  <2>1. ASSUME NEW y \in Entries
        PROVE  refs'[y] = Cardinality(Holders(y)') + (IF entry'[y].lock THEN 1 ELSE 0)
    <3>1. Holders(y)' = Holders(y)
      BY <1>2 DEF Holders
    <3>2. refs[y] = Cardinality(Holders(y)) + (IF entry[y].lock THEN 1 ELSE 0)
      BY DEF Balanced
    <3>3. CASE y # e
      <4>1. refs'[y] = refs[y] /\ entry'[y] = entry[y]
        BY <1>1, <1>3, <1>7, <3>3
      <4> QED BY <3>1, <3>2, <4>1
    <3>4. CASE y = e
      <4>1. ~entry[e].lock
        <5>1. entry[e].id \in Int /\ ~(entry[e].id >= 1)
          BY <1>3, <1>4, Dates
        <5> QED BY <1>3, <5>1 DEF LockMeans
      <4>2. refs'[e] = IF lock THEN refs[e] + 1 ELSE refs[e]
        BY <1>1, <1>3
      <4>3. Cardinality(Holders(y)) \in Nat
        BY HoldersFinite
      <4> QED BY <1>7, <3>1, <3>2, <3>4, <4>1, <4>2, <4>3
    <3> QED BY <3>3, <3>4
  <2> QED BY <2>1 DEF Balanced
<1> QED BY <1>5, <1>10, <1>11, <1>12, <1>13, <1>14

LEMMA CancelInv ==
  ASSUME IInv, NEW e \in Entries, Cancel(e)
  PROVE  IInv'
<1> USE DEF IInv
<1>1. /\ refs' = IF entry[e].lock THEN [refs EXCEPT ![e] = @ - 1] ELSE refs
      /\ calling' = calling /\ poll' = poll
  BY DEF Cancel
<1>2. HeapKept' /\ Changed(entry', entry, e, -1, entry[e].value, FALSE)
  BY CancelStep
<1>3. /\ \A y \in Entries : y # e => entry'[y] = entry[y]
      /\ entry'[e].id = -1 /\ ~entry'[e].lock
  BY <1>2 DEF Changed
<1>4. refs \in [Entries -> Int] /\ calling \in [Callers -> SUBSET Entries]
  BY DEF Typed
<1>5. Typed' /\ RunsOne'
  BY <1>1, <1>4 DEF Typed, RunsOne
<1>6. Checked'
  <2>1. ASSUME NEW d \in Callers, NEW y \in calling'[d] PROVE entry'[y].id < 1
    <3>1. y \in calling[d] /\ y \in Entries
      BY <1>1, <1>4
    <3> QED BY <1>3, <3>1 DEF Checked
  <2> QED BY <2>1 DEF Checked
<1>7. LockMeans'
  BY <1>3 DEF LockMeans
<1>8. Balanced'
  <2>1. ASSUME NEW y \in Entries
        PROVE  refs'[y] = Cardinality(Holders(y)') + (IF entry'[y].lock THEN 1 ELSE 0)
    <3>1. Holders(y)' = Holders(y)
      BY <1>1 DEF Holders
    <3>2. refs[y] = Cardinality(Holders(y)) + (IF entry[y].lock THEN 1 ELSE 0)
      BY DEF Balanced
    <3>3. CASE y # e
      <4>1. refs'[y] = refs[y] /\ entry'[y] = entry[y]
        BY <1>1, <1>3, <1>4, <3>3
      <4> QED BY <3>1, <3>2, <4>1
    <3>4. CASE y = e
      <4>1. refs'[e] = IF entry[e].lock THEN refs[e] - 1 ELSE refs[e]
        BY <1>1, <1>4
      <4>2. Cardinality(Holders(y)) \in Nat
        BY HoldersFinite
      <4> QED BY <1>3, <3>1, <3>2, <3>4, <4>1, <4>2
    <3> QED BY <3>3, <3>4
  <2> QED BY <2>1 DEF Balanced
<1> QED BY <1>2, <1>5, <1>6, <1>7, <1>8

(* The reference of the entry goes to the poller that runs its callback.    *)
LEMMA FireInv ==
  ASSUME IInv, NEW p \in Pollers, PollFire(p)
  PROVE  IInv'
<1> USE DEF IInv
<1> DEFINE e == heap[0]
<1>1. /\ poll[p].run = {}
      /\ poll' = [poll EXCEPT ![p].run = {e}, ![p].count = @ + 1, ![p].lock = entry[e].lock]
      /\ refs' = refs /\ calling' = calling
  BY DEF PollFire
<1>2. /\ HeapKept' /\ e \in Entries /\ entry[e].id >= 1
      /\ Changed(entry', entry, e, -1, entry[e].value, FALSE)
  BY FireStep
<1> HIDE DEF e
<1>3. /\ \A y \in Entries : y # e => entry'[y] = entry[y]
      /\ entry'[e].id = -1 /\ ~entry'[e].lock
  BY <1>2 DEF Changed
<1>4. /\ refs \in [Entries -> Int] /\ calling \in [Callers -> SUBSET Entries]
      /\ poll \in [Pollers -> Polls]
  BY DEF Typed
<1>5. entry[e].lock \in BOOLEAN
  BY <1>2, Dates
<1>6. /\ poll'[p].run = {e} /\ poll'[p].lock = entry[e].lock
      /\ \A q \in Pollers : q # p => poll'[q] = poll[q]
  BY <1>1, <1>4
<1>7. Typed'
  <2> DEFINE x == [poll[p] EXCEPT !.run = {e}, !.count = @ + 1, !.lock = entry[e].lock]
  <2>1. poll' = [poll EXCEPT ![p] = x]
    BY <1>1
  <2>2. x \in Polls
    <3>1. poll[p] \in Polls
      BY <1>4
    <3>2. {e} \in SUBSET Entries /\ poll[p].count + 1 \in Nat /\ poll[p].now \in Int
      BY <1>2, <3>1 DEF Polls
    <3> DEFINE y == poll[p]
               c == y.count + 1
               a == {e}
               b == entry[e].lock
    <3>3. y = [now |-> y.now, count |-> y.count, run |-> y.run, lock |-> y.lock]
      BY <3>1 DEF Polls
    <3>4. x = [y EXCEPT !.run = a, !.count = c, !.lock = b]
      OBVIOUS
    <3>5. a \in SUBSET Entries /\ c \in Nat /\ b \in BOOLEAN /\ y.now \in Int
      BY <1>5, <3>2
    <3> HIDE DEF x, y, a, b, c
    <3>6. x = [now |-> y.now, count |-> c, run |-> a, lock |-> b]
      BY <3>3, <3>4
    <3> QED BY <3>5, <3>6 DEF Polls
  <2> HIDE DEF x
  <2>3. poll' \in [Pollers -> Polls]
    BY <1>4, <2>1, <2>2
  <2>4. refs' \in [Entries -> Int] /\ calling' \in [Callers -> SUBSET Entries]
    BY <1>1, <1>4
  <2> QED BY <2>3, <2>4 DEF Typed, Polls
<1>8. RunsOne'
  <2>1. calling' = calling
    BY <1>1
  <2>2. ASSUME NEW q \in Pollers, NEW x \in poll'[q].run, NEW y \in poll'[q].run PROVE x = y
    BY <1>6, <2>2 DEF RunsOne
  <2>3. \A d \in Callers : \A x, y \in calling'[d] : x = y
    BY <2>1 DEF RunsOne
  <2> QED BY <2>2, <2>3 DEF RunsOne
<1>9. Checked'
  <2>1. ASSUME NEW d \in Callers, NEW y \in calling'[d] PROVE entry'[y].id < 1
    <3>1. y \in calling[d] /\ y \in Entries
      BY <1>1, <1>4
    <3> QED BY <1>3, <3>1 DEF Checked
  <2> QED BY <2>1 DEF Checked
<1>10. LockMeans'
  BY <1>3 DEF LockMeans
<1>11. Balanced'
  <2>1. ASSUME NEW y \in Entries
        PROVE  refs'[y] = Cardinality(Holders(y)') + (IF entry'[y].lock THEN 1 ELSE 0)
    <3>1. refs[y] = Cardinality(Holders(y)) + (IF entry[y].lock THEN 1 ELSE 0)
      BY DEF Balanced
    <3>2. Cardinality(Holders(y)) \in Nat /\ IsFiniteSet(Holders(y))
      BY HoldersFinite
    <3>3. p \notin Holders(y)
      BY <1>1 DEF Holders
    <3>4. CASE y # e
      <4>1. Holders(y)' = Holders(y)
        BY <1>6, <3>3, <3>4 DEF Holders
      <4> QED BY <1>1, <1>3, <3>1, <3>4, <4>1
    <3>5. CASE y = e /\ ~entry[e].lock
      <4>1. Holders(y)' = Holders(y)
        BY <1>6, <3>3, <3>5 DEF Holders
      <4> QED BY <1>1, <1>3, <3>1, <3>5, <4>1
    <3>6. CASE y = e /\ entry[e].lock
      <4>1. Holders(y)' = Holders(y) \cup {p}
        BY <1>6, <3>6 DEF Holders
      <4>2. Cardinality(Holders(y) \cup {p}) = Cardinality(Holders(y)) + 1
        BY <3>2, <3>3, FS_AddElement
      <4> QED BY <1>1, <1>3, <3>1, <3>2, <3>6, <4>1, <4>2
    <3> QED BY <3>4, <3>5, <3>6
  <2> QED BY <2>1 DEF Balanced
<1> QED BY <1>2, <1>7, <1>8, <1>9, <1>10, <1>11

LEMMA ReturnInv ==
  ASSUME IInv, NEW p \in Pollers, PollReturn(p)
  PROVE  IInv'
<1> USE DEF IInv
<1>1. PICK e \in poll[p].run :
        refs' = IF poll[p].lock THEN [refs EXCEPT ![e] = @ - 1] ELSE refs
  BY DEF PollReturn
<1>2. /\ poll' = [poll EXCEPT ![p].run = {}, ![p].lock = FALSE]
      /\ calling' = calling /\ UNCHANGED <<heap, ids, free, entry>>
  BY DEF PollReturn, ht
<1>3. /\ refs \in [Entries -> Int] /\ calling \in [Callers -> SUBSET Entries]
      /\ poll \in [Pollers -> Polls]
  BY DEF Typed
<1>4. e \in Entries /\ \A x \in poll[p].run : x = e
  BY <1>3 DEF RunsOne, Polls
<1>5. /\ poll'[p].run = {} /\ ~poll'[p].lock
      /\ \A q \in Pollers : q # p => poll'[q] = poll[q]
  BY <1>2, <1>3 DEF Polls
<1>6. HeapKept'
  <2>1. Now' = Now
    BY <1>2 DEF Now
  <2> QED BY <2>1 DEF HeapKept
<1>7. Typed'
  <2> DEFINE x == [poll[p] EXCEPT !.run = {}, !.lock = FALSE]
  <2>1. poll' = [poll EXCEPT ![p] = x]
    BY <1>2
  <2>2. x \in Polls
    BY <1>3 DEF Polls
  <2> HIDE DEF x
  <2>3. poll' \in [Pollers -> Polls]
    BY <1>3, <2>1, <2>2
  <2>4. refs' \in [Entries -> Int]
    BY <1>1, <1>3, <1>4
  <2>5. calling' \in [Callers -> SUBSET Entries]
    BY <1>2, <1>3
  <2> QED BY <2>3, <2>4, <2>5 DEF Typed, Polls
<1>8. RunsOne'
  <2>1. calling' = calling
    BY <1>2
  <2>2. ASSUME NEW q \in Pollers, NEW x \in poll'[q].run, NEW y \in poll'[q].run PROVE x = y
    BY <1>5, <2>2 DEF RunsOne
  <2>3. \A d \in Callers : \A x, y \in calling'[d] : x = y
    BY <2>1 DEF RunsOne
  <2> QED BY <2>2, <2>3 DEF RunsOne
<1>9. Checked' /\ LockMeans'
  BY <1>2 DEF Checked, LockMeans
<1>10. Balanced'
  <2>1. ASSUME NEW y \in Entries
        PROVE  refs'[y] = Cardinality(Holders(y)') + (IF entry'[y].lock THEN 1 ELSE 0)
    <3>1. refs[y] = Cardinality(Holders(y)) + (IF entry[y].lock THEN 1 ELSE 0)
      BY DEF Balanced
    <3>2. Cardinality(Holders(y)) \in Nat /\ IsFiniteSet(Holders(y))
      BY HoldersFinite
    <3>3. Holders(y)' = Holders(y) \ {p}
      BY <1>5 DEF Holders
    <3>4. CASE y = e /\ poll[p].lock
      <4>1. p \in Holders(y)
        BY <1>1, <3>4 DEF Holders
      <4>2. Cardinality(Holders(y) \ {p}) = Cardinality(Holders(y)) - 1
        BY <3>2, <4>1, FS_RemoveElement
      <4>3. refs'[y] = refs[y] - 1
        BY <1>1, <1>3, <1>4, <3>4
      <4> QED BY <1>2, <3>1, <3>2, <3>3, <4>2, <4>3
    <3>5. CASE ~(y = e /\ poll[p].lock)
      <4>1. Holders(y) \ {p} = Holders(y)
        BY <1>4, <3>5 DEF Holders
      <4>2. refs'[y] = refs[y]
        BY <1>1, <1>3, <1>4, <3>5
      <4> QED BY <1>2, <3>1, <3>3, <4>1, <4>2
    <3> QED BY <3>4, <3>5
  <2> QED BY <2>1 DEF Balanced
<1> QED BY <1>6, <1>7, <1>8, <1>9, <1>10

(* The steps that only begin or end a poll. *)
LEMMA IdleInv ==
  ASSUME IInv, NEW p \in Pollers, NEW x \in Polls,
         poll' = [poll EXCEPT ![p] = x], x.run = poll[p].run, x.lock = poll[p].lock,
         UNCHANGED <<heap, ids, free, entry, refs, calling>>
  PROVE  IInv'
<1> USE DEF IInv
<1>1. /\ refs \in [Entries -> Int] /\ calling \in [Callers -> SUBSET Entries]
      /\ poll \in [Pollers -> Polls]
  BY DEF Typed
<1>2. \A q \in Pollers : poll'[q].run = poll[q].run /\ poll'[q].lock = poll[q].lock
  BY <1>1
<1>3. HeapKept'
  <2>1. Now' = Now
    BY DEF Now
  <2> QED BY <2>1 DEF HeapKept
<1>4. Typed'
  BY <1>1 DEF Typed
<1>5. RunsOne' /\ Checked' /\ LockMeans'
  BY <1>2 DEF RunsOne, Checked, LockMeans
<1>6. Balanced'
  <2>1. \A y : Holders(y)' = Holders(y)
    BY <1>2 DEF Holders
  <2> QED BY <2>1 DEF Balanced
<1> QED BY <1>3, <1>4, <1>5, <1>6

LEMMA StepInv == IInv /\ Serialised /\ [Next]_vars => IInv'
<1> SUFFICES ASSUME IInv, Serialised, [Next]_vars PROVE IInv'
  OBVIOUS
<1>1. ASSUME NEW p \in Pollers PROVE poll[p] \in Polls /\ poll \in [Pollers -> Polls]
  BY DEF IInv, Typed
<1>2. ASSUME NEW p \in Pollers, NEW t \in Times, PollStart(p, t) PROVE IInv'
  <2> DEFINE x == [poll[p] EXCEPT !.now = t, !.count = 0]
  <2>1. x \in Polls /\ x.run = poll[p].run /\ x.lock = poll[p].lock
    <3>1. poll[p] \in Polls /\ t \in Int
      BY <1>1, TimesAssumption
    <3> QED BY <3>1 DEF Polls
  <2>2. poll' = [poll EXCEPT ![p] = x] /\ UNCHANGED <<heap, ids, free, entry, refs, calling>>
    BY <1>2 DEF PollStart, ht
  <2> HIDE DEF x
  <2> QED BY <2>1, <2>2, IdleInv
<1>3. ASSUME NEW p \in Pollers, PollEnd(p) PROVE IInv'
  <2> DEFINE x == [poll[p] EXCEPT !.now = -1]
  <2>1. x \in Polls /\ x.run = poll[p].run /\ x.lock = poll[p].lock
    BY <1>1 DEF Polls
  <2>2. poll' = [poll EXCEPT ![p] = x] /\ UNCHANGED <<heap, ids, free, entry, refs, calling>>
    BY <1>3 DEF PollEnd, ht
  <2> HIDE DEF x
  <2> QED BY <2>1, <2>2, IdleInv
<1>4. CASE UNCHANGED vars
  <2>1. Now' = Now /\ UNCHANGED <<entry, refs, calling, poll>>
    BY <1>4 DEF vars, Now
  <2> QED BY <2>1 DEF IInv, HeapKept, Typed, RunsOne, Checked, LockMeans, Balanced, Holders
<1>5. CASE Next
  BY <1>2, <1>3, <1>5, CheckInv, ScheduleInv, CancelInv, FireInv, ReturnInv DEF Next
<1> QED BY <1>4, <1>5

-----------------------------------------------------------------------------
(* The owners of an entry schedule it one at a time (with one caller they   *)
(* cannot do otherwise): two that found it not scheduled would both give it *)
(* a place.                                                                 *)
LEMMA Invariance == Spec /\ []Serialised => []IInv
BY InitInv, StepInv, PTL DEF Spec

(* However the entries are scheduled, cancelled and fire, and however often *)
(* the arrays grow, they are consistent and the tree is in order.           *)
THEOREM ArraysSound == Spec /\ []Serialised => []HeapSound
<1>1. IInv => HeapSound
  BY SoundHeap DEF IInv, HeapKept
<1> QED BY <1>1, Invariance, PTL

(* No reference on a group lock is lost or given back twice. *)
THEOREM ReferencesBalance == Spec /\ []Serialised => []RefsBalance
<1>1. IInv => RefsBalance
  BY DEF IInv, Balanced, Holders, RefsBalance
<1> QED BY <1>1, Invariance, PTL

(* The hypothesis is no restriction on a single caller: the heap is sound   *)
(* for it whatever it schedules and cancels.                                *)
THEOREM OneCallerIsEnough == (\A c, d \in Callers : c = d) => (Spec => []HeapSound /\ []RefsBalance)
<1> SUFFICES ASSUME \A c, d \in Callers : c = d
             PROVE  Spec => []HeapSound /\ []RefsBalance
  OBVIOUS
<1>1. Serialised
  BY DEF Serialised
<1> QED BY <1>1, ArraysSound, ReferencesBalance, PTL

(* What the heap is to the abstract timers. *)
DueOf == [e \in Entries |-> IF entry[e].id >= 1 THEN entry[e].value ELSE None]
View(run) == IF run = {} THEN None ELSE CHOOSE e \in run : TRUE
RunOf == [p \in Pollers |-> View(poll[p].run)]

LEMMA RefinedInit == Init => Abstract!Init
<1> SUFFICES ASSUME Init PROVE DueOf = [e \in Entries |-> None] /\ RunOf = [p \in Pollers |-> None]
  BY DEF DueOf, RunOf, View, Abstract!Init
<1>1. \A e \in Entries : ~(entry[e].id >= 1)
  BY DEF Init
<1>2. \A p \in Pollers : poll[p].run = {}
  BY DEF Init
<1> QED BY <1>1, <1>2 DEF DueOf, RunOf, View

(* One entry is scheduled or no longer. *)
LEMMA DueChanges ==
  ASSUME HeapKept, NEW e \in Entries, NEW id \in Int, NEW value, NEW lock,
         Changed(entry', entry, e, id, value, lock)
  PROVE  DueOf' = [DueOf EXCEPT ![e] = IF id >= 1 THEN value ELSE None]
<1>1. /\ \A y \in Entries : y # e => entry'[y] = entry[y]
      /\ entry'[e].id = id /\ entry'[e].value = value
  BY DEF Changed
<1> DEFINE new == IF id >= 1 THEN value ELSE None
<1>2. DueOf' = [y \in Entries |-> IF entry'[y].id >= 1 THEN entry'[y].value ELSE None]
  BY DEF DueOf
<1>3. \A y \in Entries : (IF entry'[y].id >= 1 THEN entry'[y].value ELSE None)
                         = IF y = e THEN new ELSE DueOf[y]
  BY <1>1 DEF DueOf
<1>4. DueOf = [y \in Entries |-> DueOf[y]]
  BY DEF DueOf
<1> HIDE DEF new
<1>5. DueOf' = [y \in Entries |-> IF y = e THEN new ELSE DueOf[y]]
  BY <1>2, <1>3
<1>6. DueOf' = [DueOf EXCEPT ![e] = new]
  BY <1>4, <1>5
<1> QED BY <1>6 DEF new

LEMMA DueEnds ==
  ASSUME HeapKept, NEW e \in Entries, NEW value, NEW lock, Changed(entry', entry, e, -1, value, lock)
  PROVE  DueOf' = [DueOf EXCEPT ![e] = None]
<1>1. -1 \in Int /\ ~(-1 >= 1)
  OBVIOUS
<1> DEFINE id == -1
<1> HIDE DEF id
<1>2. DueOf' = [DueOf EXCEPT ![e] = IF id >= 1 THEN value ELSE None]
  BY <1>1, DueChanges DEF id
<1> QED BY <1>1, <1>2 DEF id

LEMMA SameRunners ==
  ASSUME \A p \in Pollers : poll'[p].run = poll[p].run
  PROVE  RunOf' = RunOf
BY DEF RunOf

(* One poller runs another callback, or none. *)
LEMMA RunnerChanges ==
  ASSUME NEW p \in Pollers, NEW run, poll'[p].run = run,
         \A q \in Pollers : q # p => poll'[q].run = poll[q].run
  PROVE  RunOf' = [RunOf EXCEPT ![p] = View(run)]
<1> DEFINE v == View(run)
<1>1. \A q \in Pollers : View(poll'[q].run) = IF q = p THEN v ELSE View(poll[q].run)
  OBVIOUS
<1>2. RunOf' = [q \in Pollers |-> View(poll'[q].run)]
  BY DEF RunOf
<1>3. RunOf = [q \in Pollers |-> View(poll[q].run)]
  BY DEF RunOf
<1> HIDE DEF v
<1>4. RunOf' = [q \in Pollers |-> IF q = p THEN v ELSE RunOf[q]]
  BY <1>1, <1>2, <1>3
<1>5. RunOf = [q \in Pollers |-> RunOf[q]]
  BY <1>3
<1>6. RunOf' = [RunOf EXCEPT ![p] = v]
  BY <1>4, <1>5
<1> QED BY <1>6 DEF v

LEMMA RefinedStep == IInv /\ [Next]_vars => [Abstract!Next]_(Abstract!vars)
<1> DEFINE Step == \/ \E e \in Entries :
                        \/ DueOf' = [DueOf EXCEPT ![e] = None] /\ RunOf' = RunOf
                        \/ \E t \in Times : /\ DueOf[e] = None
                                            /\ DueOf' = [DueOf EXCEPT ![e] = t] /\ RunOf' = RunOf
                   \/ \E p \in Pollers :
                        \/ RunOf' = [RunOf EXCEPT ![p] = None] /\ DueOf' = DueOf
                        \/ \E e \in Entries :
                             /\ RunOf[p] = None /\ DueOf[e] # None
                             /\ \A f \in Entries : DueOf[f] # None => DueOf[e] <= DueOf[f]
                             /\ DueOf' = [DueOf EXCEPT ![e] = None]
                             /\ RunOf' = [RunOf EXCEPT ![p] = e]
                   \/ DueOf' = DueOf /\ RunOf' = RunOf
<1>1. Step => [Abstract!Next]_(Abstract!vars)
  BY DEF Abstract!Next, Abstract!vars, Abstract!Cancel, Abstract!Schedule, Abstract!Return,
         Abstract!Fire, DueOf, RunOf, View
<1> SUFFICES ASSUME IInv, [Next]_vars PROVE Step
  BY <1>1
<1>2. HeapKept /\ Typed /\ Checked /\ RunsOne
  BY DEF IInv
<1>3. ASSUME NEW c \in Callers, NEW e \in Entries, CheckScheduled(c, e) PROVE Step
  BY <1>3 DEF CheckScheduled, ht, DueOf, RunOf
<1>4. ASSUME NEW c \in Callers, NEW t \in Times, NEW lock \in BOOLEAN, Schedule(c, t, lock) PROVE Step
  <2>1. PICK e \in calling[c] : Becomes(ScheduleEntry(Now, e, t, lock))
    BY <1>4 DEF Schedule
  <2>2. e \in Entries /\ entry[e].id < 1 /\ poll' = poll
    BY <1>2, <1>4 DEF Typed, Checked, Schedule
  <2>3. PICK id \in Nat \ {0} : Changed(entry', entry, e, id, t, lock)
    BY <1>2, <2>1, <2>2, ScheduleStep
  <2>4. DueOf' = [DueOf EXCEPT ![e] = IF id >= 1 THEN t ELSE None]
    BY <1>2, <2>2, <2>3, DueChanges
  <2>5. id >= 1
    OBVIOUS
  <2>6. DueOf' = [DueOf EXCEPT ![e] = t]
    BY <2>4, <2>5
  <2>7. DueOf[e] = None
    <3>1. entry[e].id \in Int
      BY <1>2, <2>2, Dates
    <3> QED BY <2>2, <3>1 DEF DueOf
  <2>8. RunOf' = RunOf
    BY <2>2, SameRunners
  <2> QED BY <2>2, <2>6, <2>7, <2>8
<1>5. ASSUME NEW e \in Entries, Cancel(e) PROVE Step
  <2>1. Changed(entry', entry, e, -1, entry[e].value, FALSE)
    BY <1>2, <1>5, CancelStep
  <2>3. DueOf' = [DueOf EXCEPT ![e] = None]
    BY <1>2, <2>1, DueEnds
  <2>4. RunOf' = RunOf
    BY <1>5, SameRunners DEF Cancel
  <2> QED BY <2>3, <2>4
<1>6. ASSUME NEW p \in Pollers, NEW t \in Times, PollStart(p, t) PROVE Step
  <2>1. \A q \in Pollers : poll'[q].run = poll[q].run
    BY <1>2, <1>6 DEF PollStart, Typed, Polls
  <2>2. DueOf' = DueOf
    BY <1>6 DEF PollStart, ht, DueOf
  <2> QED BY <2>1, <2>2, SameRunners
<1>7. ASSUME NEW p \in Pollers, PollEnd(p) PROVE Step
  <2>1. \A q \in Pollers : poll'[q].run = poll[q].run
    BY <1>2, <1>7 DEF PollEnd, Typed, Polls
  <2>2. DueOf' = DueOf
    BY <1>7 DEF PollEnd, ht, DueOf
  <2> QED BY <2>1, <2>2, SameRunners
<1>8. ASSUME NEW p \in Pollers, PollReturn(p) PROVE Step
  <2>1. poll'[p].run = {} /\ \A q \in Pollers : q # p => poll'[q].run = poll[q].run
    BY <1>2, <1>8 DEF PollReturn, Typed, Polls
  <2>2. RunOf' = [RunOf EXCEPT ![p] = View({})]
    BY <2>1, RunnerChanges
  <2>3. View({}) = None
    BY DEF View
  <2>4. DueOf' = DueOf
    BY <1>8 DEF PollReturn, ht, DueOf
  <2> QED BY <2>2, <2>3, <2>4
<1>9. ASSUME NEW p \in Pollers, PollFire(p) PROVE Step
  <2> DEFINE e == heap[0]
  <2>1. /\ e \in Entries /\ entry[e].id >= 1
        /\ Changed(entry', entry, e, -1, entry[e].value, FALSE)
        /\ \A f \in Entries : entry[f].id >= 1 => entry[e].value <= entry[f].value
    BY <1>2, <1>9, FireStep
  <2>2. /\ poll[p].run = {}
        /\ poll' = [poll EXCEPT ![p].run = {e}, ![p].count = @ + 1, ![p].lock = entry[e].lock]
    BY <1>9 DEF PollFire
  <2> HIDE DEF e
  <2>4. DueOf' = [DueOf EXCEPT ![e] = None]
    BY <1>2, <2>1, DueEnds
  <2>5. entry \in [Entries -> [id : Int, value : Nat, lock : BOOLEAN]]
    BY <1>2, Dates
  <2>6. DueOf[e] # None /\ \A f \in Entries : DueOf[f] # None => DueOf[e] <= DueOf[f]
    BY <2>1, <2>5 DEF DueOf, None
  <2>7. RunOf[p] = None
    BY <2>2 DEF RunOf, View
  <2>8. poll'[p].run = {e} /\ \A q \in Pollers : q # p => poll'[q].run = poll[q].run
    BY <1>2, <2>2 DEF Typed, Polls
  <2>9. RunOf' = [RunOf EXCEPT ![p] = e]
    <3>1. View({e}) = e
      BY DEF View
    <3>2. RunOf' = [RunOf EXCEPT ![p] = View({e})]
      BY <2>8, RunnerChanges
    <3> QED BY <3>1, <3>2
  <2> QED BY <2>1, <2>4, <2>6, <2>7, <2>9
<1>10. CASE UNCHANGED vars
  BY <1>10 DEF vars, DueOf, RunOf
<1>11. CASE Next
  <2> HIDE DEF Step
  <2> QED BY <1>3, <1>4, <1>5, <1>6, <1>7, <1>8, <1>9, <1>11 DEF Next
<1> QED BY <1>10, <1>11

(* The heap is the set of timers that module Timers states: what a poll     *)
(* takes out is never later than what it leaves.                            *)
THEOREM HeapIsTimers == Spec /\ []Serialised => ImplementsTimers
<1>1. Spec /\ []Serialised => Abstract!Init /\ [][Abstract!Next]_(Abstract!vars)
  BY Invariance, RefinedInit, RefinedStep, PTL DEF Spec
<1> QED BY <1>1, PTL DEF ImplementsTimers, Abstract!Spec
=============================================================================
