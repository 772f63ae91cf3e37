------------------------------ MODULE Refcount ------------------------------
(***************************************************************************)
(* What the deferred destruction of a shared structure promises: it is     *)
(* released once, after its owner let go of it and when nobody uses it, and *)
(* nobody starts to use it afterwards.  Regc implements this with an atomic *)
(* counter, a flag and has_tsx (sip_reg.c), read and written in separate    *)
(* steps.                                                                   *)
(***************************************************************************)
CONSTANT Users   \* the calls and requests that may use the structure

VARIABLES
  users,     \* those that use it now
  owner,     \* its owner still points to it
  released   \* it is gone

rcVars == <<users, owner, released>>

Init == users = {} /\ owner = TRUE /\ released = FALSE

Join(u) ==
  /\ ~released
  /\ users' = users \cup {u}
  /\ UNCHANGED <<owner, released>>

Leave(u) ==
  /\ users' = users \ {u}
  /\ UNCHANGED <<owner, released>>

(* The owner lets go; it releases the structure itself if nobody uses it. *)
LetGo ==
  /\ owner
  /\ owner' = FALSE
  /\ released' \in {FALSE, users = {}}
  /\ UNCHANGED users

Release ==
  /\ ~owner
  /\ users = {}
  /\ ~released
  /\ released' = TRUE
  /\ UNCHANGED <<users, owner>>

Next == (\E u \in Users : Join(u) \/ Leave(u)) \/ LetGo \/ Release

Spec == Init /\ [][Next]_rcVars
=============================================================================
