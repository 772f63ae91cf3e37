------------------------------- MODULE Timers -------------------------------
(***************************************************************************)
(* What pj_timer_heap_t promises its users (pjlib/include/pj/timer.h): a   *)
(* set of entries, each with the time it is due.  A poll takes out an      *)
(* entry that no other is due before, and runs its callback; while the     *)
(* callback waits or runs, the entry may be scheduled again.               *)
(***************************************************************************)
EXTENDS Naturals

CONSTANTS Entries, Pollers, Times, None

VARIABLES
  due,      \* when each entry is due, None while it is not scheduled
  running   \* the entry each poller runs the callback of, or None

vars == <<due, running>>

Init == due = [e \in Entries |-> None] /\ running = [p \in Pollers |-> None]

Schedule(e, t) ==
  due[e] = None /\ due' = [due EXCEPT ![e] = t] /\ UNCHANGED running

Cancel(e) == due' = [due EXCEPT ![e] = None] /\ UNCHANGED running

Fire(p, e) ==
  /\ running[p] = None /\ due[e] # None
  /\ \A f \in Entries : due[f] # None => due[e] <= due[f]
  /\ due' = [due EXCEPT ![e] = None]
  /\ running' = [running EXCEPT ![p] = e]

Return(p) == running' = [running EXCEPT ![p] = None] /\ UNCHANGED due

Next == \/ \E e \in Entries : Cancel(e) \/ \E t \in Times : Schedule(e, t)
        \/ \E p \in Pollers : Return(p) \/ \E e \in Entries : Fire(p, e)

Spec == Init /\ [][Next]_vars
=============================================================================
