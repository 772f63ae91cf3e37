----------------------------- MODULE OneAnswer -----------------------------
(***************************************************************************)
(* What a sender of a SIP request is promised by the stateful helper       *)
(* (sip_util_statefull.c): once it asked, it hears at most one final       *)
(* answer, and none it did not ask for.  The answer may come before the    *)
(* call that asks returns.                                                 *)
(***************************************************************************)
CONSTANTS
  Answers,   \* the final answers, those made up locally included
  NoAnswer   \* none yet

VARIABLES asked, answer

oaVars == <<asked, answer>>

Init == asked = FALSE /\ answer = NoAnswer

Ask ==
  /\ ~asked
  /\ asked' = TRUE
  /\ answer' \in Answers \cup {NoAnswer}

Report ==
  /\ asked
  /\ answer = NoAnswer
  /\ answer' \in Answers
  /\ UNCHANGED asked

Next == Ask \/ Report

Spec == Init /\ [][Next]_oaVars
=============================================================================
