----------------------------- MODULE TimerHeap ------------------------------
(***************************************************************************)
(* pj_timer_heap_t (pjlib/src/pj/timer.c): the binary heap of the timer    *)
(* entries, the ids that locate an entry in it, the free ids linked        *)
(* through the same array with negative values, and the reference that a   *)
(* scheduled entry keeps on its owner's group lock.                        *)
(*                                                                         *)
(* Every function runs under the heap's lock and is one step, except that  *)
(* scheduling reads _timer_id before it takes the lock, and polling runs   *)
(* each callback without it.  A callback may call anything: the calls of   *)
(* the other threads, which may come at any time, stand for its own.       *)
(*                                                                         *)
(* Deadlines are Times; what the clock says is any of them at each poll.   *)
(*                                                                         *)
(* A definition named D_error is D with a mistake a maintainer could make. *)
(***************************************************************************)
EXTENDS Integers, FiniteSets, Functions, TLC

CONSTANTS
  Entries,     \* the pj_timer_entry structures
  Callers,     \* threads that schedule and cancel
  Pollers,     \* threads that call pj_timer_heap_poll
  Times,       \* points in time
  Size,        \* the argument of pj_timer_heap_create
  MaxPerPoll   \* max_entries_per_poll

ASSUME TimesAssumption == Times \subseteq Nat /\ IsFiniteSet(Entries)
ASSUME PollersAssumption == IsFiniteSet(Pollers)
ASSUME SizeAssumption == Size \in Nat \ {0} /\ MaxPerPoll \in Nat \ {0}

VARIABLES
  heap,     \* ht->heap, up to cur_size
  ids,      \* ht->timer_ids
  free,     \* ht->timer_ids_freelist
  entry,    \* the entries: _timer_id, _timer_value, whether _grp_lock is set
  refs,     \* references on the group lock of each entry's owner
  calling,  \* what each caller checked and has not scheduled yet, as a set
  poll      \* each poller: the time it read, its count, and the entry it runs

ht == <<heap, ids, free, entry>>
vars == <<heap, ids, free, entry, refs, calling, poll>>

(* The functions below work on a heap h and its parts. *)
Now == [heap |-> heap, ids |-> ids, free |-> free, entry |-> entry]
Becomes(h) == /\ heap' = h.heap /\ ids' = h.ids
              /\ free' = h.free /\ entry' = h.entry

CurSize(h) == Cardinality(DOMAIN h.heap)
MaxSize(h) == Cardinality(DOMAIN h.ids)
Value(h, slot) == h.entry[h.heap[slot]].value
Parent(slot) == IF slot = 0 THEN 0 ELSE (slot - 1) \div 2
Left(slot) == 2 * slot + 1

Init ==
  /\ heap = [s \in {} |-> 0]
  /\ ids = [i \in 0 .. Size + 1 |-> -(i + 1)]
  /\ free = 1
  /\ \E id \in {-1, 0} :   \* pj_timer_entry_init, or zeroed memory
       entry = [e \in Entries |-> [id |-> id, value |-> 0, lock |-> FALSE]]
  /\ refs = [e \in Entries |-> 0]
  /\ calling = [c \in Callers |-> {}]
  /\ poll = [p \in Pollers |-> [now |-> -1, count |-> 0, run |-> {},
                                lock |-> FALSE]]

-----------------------------------------------------------------------------
(* copy_node, for every slot in the domain of moved. *)
Copy(h, moved) ==
  LET slotOf(id) == {s \in DOMAIN moved : h.entry[moved[s]].id = id} IN
  [h EXCEPT !.heap = [s \in DOMAIN @ \cup DOMAIN moved |->
                        IF s \in DOMAIN moved THEN moved[s] ELSE @[s]],
            !.ids = [i \in DOMAIN @ |->
                       IF slotOf(i) = {} THEN @[i]
                       ELSE CHOOSE s \in slotOf(i) : TRUE]]

(* reheap_up and reheap_down: from slot on, as long as a slot is in moving, *)
(* the entry at its next one takes its place; e goes where this ends.       *)
Course(moving, next) ==
  LET course[s \in DOMAIN next] ==
        IF s \in moving THEN {s} \cup course[next[s]] ELSE {s} IN course
Reheap(h, e, slot, moving, next) ==
  Copy(h, [s \in Course(moving, next)[slot] |->
             IF s \in moving THEN h.heap[next[s]] ELSE e])

ReheapUp(h, e, slot) ==
  Reheap(h, e, slot,
         {s \in 1 .. slot : h.entry[e].value < Value(h, Parent(s))},
         [s \in 0 .. slot |-> Parent(s)])

Slots(h) == 0 .. CurSize(h) - 1
Smaller(h, s) ==
  IF Left(s) + 1 < CurSize(h) /\ Value(h, Left(s) + 1) < Value(h, Left(s))
  THEN Left(s) + 1 ELSE Left(s)
ReheapDown(h, e, slot) ==
  Reheap(h, e, slot,
         {s \in Slots(h) : /\ Left(s) < CurSize(h)
                           /\ Value(h, Smaller(h, s)) < h.entry[e].value},
         [s \in Slots(h) |-> Smaller(h, s)])

(* remove_node.  The last entry takes the place of the one removed. *)
Remove(h, slot) ==
  LET e == h.heap[slot]
      last == CurSize(h) - 1
      moved == h.heap[last]
      g == [h EXCEPT !.ids[h.entry[e].id] = -h.free,
                     !.free = h.entry[e].id,
                     !.heap = Restrict(@, 0 .. last - 1),
                     !.entry[e].id = -1]
      filled == Copy(g, [s \in {slot} |-> moved])
  IN IF slot = last THEN g
     ELSE IF h.entry[moved].value >= Value(filled, Parent(slot))
     THEN ReheapDown(filled, moved, slot)
     ELSE ReheapUp(filled, moved, slot)

(* schedule_entry: pop the free list, grow, insert at the end.             *)
Grow_short(h) ==
  [h EXCEPT !.ids = [i \in 0 .. 2 * MaxSize(h) - 1 |->
                       IF i \in DOMAIN @ THEN @[i] ELSE -i]]
Grow(h) ==
  [h EXCEPT !.ids = [i \in 0 .. 2 * MaxSize(h) - 1 |->
                       IF i \in DOMAIN @ THEN @[i] ELSE -(i + 1)]]
Insert_end(h, e) ==
  LET grown == IF CurSize(h) + 2 >= MaxSize(h) THEN Grow(h) ELSE h
  IN Copy(grown, [s \in {CurSize(h)} |-> e])
Insert(h, e) ==
  LET grown == IF CurSize(h) + 2 >= MaxSize(h) THEN Grow(h) ELSE h
  IN ReheapUp(grown, e, CurSize(h))
ScheduleEntry(h, e, t, lock) ==
  Insert([h EXCEPT !.free = -h.ids[h.free],
                   !.entry[e] = [id |-> h.free, value |-> t, lock |-> lock]], e)

-----------------------------------------------------------------------------
(* schedule_w_grp_lock.  "Prevent same entry from being scheduled more     *)
(* than once" is checked before the lock is taken.                         *)
CheckScheduled(c, e) ==
  /\ calling[c] = {}
  /\ entry[e].id < 1
  /\ calling' = [calling EXCEPT ![c] = {e}]
  /\ UNCHANGED <<ht, refs, poll>>

Schedule(c, t, lock) ==
  /\ \E e \in calling[c] :
       /\ CurSize(Now) < MaxSize(Now)
       /\ Becomes(ScheduleEntry(Now, e, t, lock))
       /\ refs' = IF lock THEN [refs EXCEPT ![e] = @ + 1] ELSE refs
  /\ calling' = [calling EXCEPT ![c] = {}]
  /\ UNCHANGED poll

(* cancel_timer.  Whatever it finds, it gives the entry's reference back.  *)
Cancel(e) ==
  LET id == entry[e].id
      slot == ids[id]
      missing == [Now EXCEPT !.entry[e].id = -1] IN
  /\ Becomes([(IF id < 0 \/ id > MaxSize(Now) THEN missing
               ELSE IF slot < 0 THEN missing
               ELSE IF heap[slot] # e THEN missing
               ELSE Remove(Now, slot)) EXCEPT !.entry[e].lock = FALSE])
  /\ refs' = IF entry[e].lock THEN [refs EXCEPT ![e] = @ - 1] ELSE refs
  /\ UNCHANGED <<calling, poll>>

(* pj_timer_heap_poll: it reads the clock once; each turn of its loop      *)
(* takes an entry out, with the entry's reference, and runs the callback.  *)
PollStart(p, t) ==
  /\ poll[p].now = -1 /\ CurSize(Now) > 0
  /\ poll' = [poll EXCEPT ![p].now = t, ![p].count = 0]
  /\ UNCHANGED <<ht, refs, calling>>

Due(p) == /\ CurSize(Now) > 0 /\ Value(Now, 0) <= poll[p].now
          /\ poll[p].count < MaxPerPoll

PollFire_keepLock(p) ==
  /\ poll[p].now # -1 /\ poll[p].run = {} /\ Due(p)
  /\ Becomes(Remove(Now, 0))
  /\ poll' = [poll EXCEPT ![p].run = {heap[0]}, ![p].count = @ + 1,
                          ![p].lock = entry[heap[0]].lock]
  /\ UNCHANGED <<refs, calling>>
PollFire(p) ==
  /\ poll[p].now # -1 /\ poll[p].run = {} /\ Due(p)
  /\ Becomes([Remove(Now, 0) EXCEPT !.entry[heap[0]].lock = FALSE])
  /\ poll' = [poll EXCEPT ![p].run = {heap[0]}, ![p].count = @ + 1,
                          ![p].lock = entry[heap[0]].lock]
  /\ UNCHANGED <<refs, calling>>

PollReturn(p) ==
  /\ \E e \in poll[p].run :
       refs' = IF poll[p].lock THEN [refs EXCEPT ![e] = @ - 1] ELSE refs
  /\ poll' = [poll EXCEPT ![p].run = {}, ![p].lock = FALSE]
  /\ UNCHANGED <<ht, calling>>

PollEnd(p) ==
  /\ poll[p].now # -1 /\ poll[p].run = {} /\ ~Due(p)
  /\ poll' = [poll EXCEPT ![p].now = -1]
  /\ UNCHANGED <<ht, refs, calling>>

Next ==
  \/ \E c \in Callers :
       \/ \E e \in Entries : CheckScheduled(c, e)
       \/ \E t \in Times, lock \in BOOLEAN : Schedule(c, t, lock)
  \/ \E e \in Entries : Cancel(e)
  \/ \E p \in Pollers : \/ \E t \in Times : PollStart(p, t)
                        \/ PollFire(p) \/ PollReturn(p) \/ PollEnd(p)

Spec == Init /\ [][Next]_vars

(* Every full heap, as scheduling the entries in the order of their slots  *)
(* leaves it, and all the ways to empty it: too many entries for Spec.     *)
FullInit ==
  LET n == Cardinality(Entries)
      e == CHOOSE f \in Bijection(0 .. n - 1, Entries) : TRUE IN
  /\ Size = n
  /\ \E value \in [0 .. n - 1 -> Times] :
       /\ \A s \in 0 .. n - 1 : value[Parent(s)] <= value[s]
       /\ entry = [x \in Entries |->
            LET s == CHOOSE s \in 0 .. n - 1 : e[s] = x IN
            [id |-> s + 1, value |-> value[s], lock |-> FALSE]]
  /\ heap = e
  /\ ids = [i \in 0 .. Size + 1 |-> IF i \in 1 .. n THEN i - 1 ELSE -(i + 1)]
  /\ free = n + 1
  /\ refs = [x \in Entries |-> 0]
  /\ calling = [c \in Callers |-> {}]
  /\ poll = [p \in Pollers |-> [now |-> -1, count |-> 0, run |-> {},
                                lock |-> FALSE]]
DrainSpec == FullInit /\ [][\E x \in Entries : Cancel(x)]_vars

-----------------------------------------------------------------------------
(* The arrays: the ids of the entries in the heap are exactly the ids of   *)
(* the timer_ids array that are not negative, both ways; no entry is due   *)
(* before its parent; and the free list goes through every other id and    *)
(* ends one past the array, where the next growth continues it.            *)
Scheduled == {e \in Entries : entry[e].id >= 1}
Located ==
  /\ Range(heap) = Scheduled
  /\ \A s \in DOMAIN heap : ids[entry[heap[s]].id] = s
Ordered == \A s \in DOMAIN heap : Value(Now, Parent(s)) <= Value(Now, s)
FreeList ==
  LET from[n \in 0 .. MaxSize(Now)] ==   \* the first n ids of the list
        IF n = 0 THEN <<{}, free>>
        ELSE LET r == from[n - 1] IN
             IF r[2] \in DOMAIN ids
             THEN <<r[1] \cup {r[2]}, -ids[r[2]]>> ELSE r
  IN from[MaxSize(Now)] = <<{i \in 1 .. MaxSize(Now) - 1 : ids[i] < 0},
                            MaxSize(Now)>>
HeapSound ==
  /\ DOMAIN heap = 0 .. CurSize(Now) - 1
  /\ DOMAIN ids = 0 .. MaxSize(Now) - 1
  /\ CurSize(Now) < MaxSize(Now)
  /\ Located /\ Ordered /\ FreeList /\ ids[0] < 0

(* The group lock of an entry's owner has one reference for the entry      *)
(* while it is scheduled, and one for each poller that is yet to return    *)
(* from its callback: none is given back twice, and none is lost, in       *)
(* whatever order the entry fires, is cancelled and is scheduled again.    *)
RefsBalance ==
  \A e \in Entries :
    refs[e] = Cardinality({p \in Pollers : e \in poll[p].run /\ poll[p].lock})
              + (IF entry[e].lock THEN 1 ELSE 0)

None == -1
Abstract == INSTANCE Timers WITH
  due <- [e \in Entries |-> IF entry[e].id >= 1 THEN entry[e].value ELSE None],
  running <- [p \in Pollers |-> IF poll[p].run = {} THEN None
                                ELSE CHOOSE e \in poll[p].run : TRUE]

(* The heap is the set of timers it promises to be: poll takes out an      *)
(* entry that no other is due before, cancel takes out that entry and no   *)
(* other, and an entry scheduled stays until one of these.                 *)
ImplementsTimers == Abstract!Spec

Symmetry == Permutations(Entries)
=============================================================================
