-------------------------- MODULE RegcExpires_proofs --------------------------
(***************************************************************************)
(* What RegcExpires promises for every choice of timeouts, delays and      *)
(* grants: its values stay in their types, and the refresh is in time with *)
(* a registrar that says what it grants and insists on more than the       *)
(* margin of the refresh.                                                  *)
(***************************************************************************)
EXTENDS RegcExpires, TLAPS

(* The inductive strengthening of TypeOK: only a live regc has a request    *)
(* outstanding.                                                             *)
Typed == TypeOK /\ (waiting => live)

(* Everything the assumptions say of the constants, one at a time. *)
LEMMA Numbers ==
  /\ Word \in Nat /\ 2 < Word
  /\ MinDelay \in Nat /\ 0 < MinDelay /\ 2 * MinDelay < Word
  /\ MaxGrant \in Nat /\ 0 < MaxGrant /\ 2 * MaxGrant < Word
  /\ Guess \in Nat /\ 0 < Guess /\ 2 * Guess < Word
  /\ Fallback \in Nat /\ 0 < Fallback /\ 2 * Fallback < Word
  /\ \A v \in Timeouts \cup Delays \cup Minimums : v \in Nat /\ 0 < v /\ 2 * v < Word
<1>1. \A v \in Nat \ {0} : v \in Nat /\ 0 < v
  OBVIOUS
<1>2. MaxGrant \in Nat \ {0} /\ MinDelay \in Nat \ {0} /\ Guess \in Nat \ {0}
      /\ Fallback \in Nat \ {0}
  BY ValuesAssumption
<1>3. 2 * MaxGrant < Word /\ 2 * MinDelay < Word /\ 2 * Guess < Word /\ 2 * Fallback < Word
  BY WordAssumption
<1>4. \A v \in Timeouts \cup Delays \cup Minimums : v \in Nat \ {0} /\ 2 * v < Word
  BY ValuesAssumption, WordAssumption
<1>5. Word \in Nat
  BY WordAssumption
<1>6. 2 < Word
  BY <1>1, <1>2, <1>3, <1>5
<1> QED
  BY <1>1, <1>2, <1>3, <1>4, <1>5, <1>6

(* Every such value fits a header, an expiry, a margin and a timer. *)
LEMMA Fits ==
  /\ \A v \in Timeouts \cup Delays \cup Minimums \cup {MinDelay, Guess, Fallback, MaxGrant} :
       v \in 0..(Word - 1) /\ v \in 1..(Word - 1) /\ v \in Nat
  /\ 0 \in 0..(Word - 1) /\ NotSpecified \in 1..(Word - 1)
  /\ -1 \in (-1)..(Word - 1) /\ 0 \in 0..MaxGrant
<1>1. \A v \in Timeouts \cup Delays \cup Minimums \cup {MinDelay, Guess, Fallback, MaxGrant} :
        v \in Nat /\ 0 < v /\ 2 * v < Word
  BY Numbers
<1>2. \A v : v \in Nat /\ 0 < v /\ 2 * v < Word => v \in 0..(Word - 1) /\ v \in 1..(Word - 1)
  BY Numbers
<1> QED
  BY <1>1, <1>2, Numbers DEF NotSpecified

(* schedule_registration arms the timer within the range of pj_uint32_t. *)
LEMMA DelayInRange ==
  ASSUME NEW expiration \in 1..(Word - 1), NEW margin \in 1..(Word - 1),
         NEW last \in 1..(Word - 1)
  PROVE  Delay(expiration, margin, last) \in MinDelay..(Word - 1)
BY Numbers DEF Delay, Early, Signed, NotSpecified

(* The refresh precedes the expiry it was scheduled for, if that expiry is  *)
(* longer than the margin and than the least delay.                         *)
LEMMA DelayInTime ==
  ASSUME NEW expiration \in 1..MaxGrant, NEW margin \in 1..(Word - 1),
         NEW last \in (1..MaxGrant) \cup {NotSpecified},
         MinDelay < expiration, margin < expiration
  PROVE  Delay(expiration, margin, last) \in MinDelay..(expiration - 1)
<1> DEFINE early == expiration - margin
<1>1. Early(expiration, margin) = early /\ early \in 1..(expiration - 1)
  BY Numbers DEF Early
<1>2. last # NotSpecified => Signed(last) = last
  BY Numbers DEF Signed, NotSpecified
<1> QED
  BY <1>1, <1>2, Numbers DEF Delay

-----------------------------------------------------------------------------
(* The initial values and every step keep the types. *)
LEMMA TypedInit == Init => Typed
BY Fits DEF Init, Typed, TypeOK, NoHeader, Off

LEMMA TypedStep == Typed /\ [Next]_vars => Typed'
<1> SUFFICES ASSUME Typed, [Next]_vars PROVE Typed'
  OBVIOUS
<1> USE DEF Typed, TypeOK, NoHeader, Off
<1>1. CASE SetRegistration
  BY <1>1, Fits DEF SetRegistration, Register, HeaderFor, accVars, regcVars, registrarVars
<1>2. CASE Refresh
  BY <1>2, Fits DEF Refresh, Register, accVars, regcVars, registrarVars
<1>3. ASSUME NEW value \in Timeouts, ModifyTimeout(value) PROVE Typed'
  BY <1>3, Fits DEF ModifyTimeout, Register, HeaderFor, registrarVars
<1>4. ASSUME NEW value \in Delays, ModifyDelay(value) PROVE Typed'
  <2>1. Delay(expires, value, expires) \in MinDelay..(Word - 1)
    BY DelayInRange, Fits
  <2>2. Delay(expires, value, expires) \in Off..(Word - 1)
    BY <2>1, Numbers
  <2> QED
    BY <1>4, <2>2, Fits DEF ModifyDelay, requestVars, registrarVars
<1>5. ASSUME NEW e \in 1..(Word - 1), NEW g \in Grants, Granted(e, g), waiting PROVE Typed'
  <2>1. Delay(e, before, expires) \in MinDelay..(Word - 1)
    BY DelayInRange
  <2>2. Delay(e, before, expires) \in Off..(Word - 1)
    BY <2>1, Numbers
  <2>3. g \in 0..MaxGrant
    BY Numbers DEF Grants
  <2> QED
    BY <1>5, <2>2, <2>3, Fits DEF Granted, accVars, registrarVars
<1>6. CASE Grant
  BY <1>6, <1>5, Numbers DEF Grant, Grants
<1>7. CASE GrantSilently
  <2>1. (IF header = NoHeader THEN Fallback ELSE header) \in 1..(Word - 1)
    BY Numbers
  <2> QED
    BY <1>7, <1>5, <2>1 DEF GrantSilently
<1>8. CASE Fail
  BY <1>8, Fits DEF Fail, Forget, accVars, registrarVars
<1>9. CASE TooBrief
  <2>1. Floor \in 0..(Word - 1)
    BY Fits DEF Floor
  <2> QED
    BY <1>9, <2>1, Fits DEF TooBrief, Forget, HeaderFor, accVars, registrarVars
<1>10. CASE Tick
  BY <1>10, Numbers DEF Tick, accVars, regcVars, registrarVars, requestVars
<1>11. CASE UNCHANGED vars
  BY <1>11 DEF vars, accVars, regcVars, registrarVars, requestVars
<1> QED
  BY <1>1, <1>2, <1>3, <1>4, <1>6, <1>7, <1>8, <1>9, <1>10, <1>11 DEF Next, Answer

(* TypeOK is an invariant: the values of the registration stay in range,    *)
(* whatever the registrar answers and the application changes, and the      *)
(* refresh timer runs only between two requests of a live regc.             *)
THEOREM TypeCorrect == Spec => []TypeOK
<1>1. Spec => []Typed
  BY TypedInit, TypedStep, PTL DEF Spec
<1>2. Typed => TypeOK
  BY DEF Typed
<1> QED
  BY <1>1, <1>2, PTL

(* RetryAccepted: the request that follows a 423 with a Min-Expires asks    *)
(* for the minimum, or leaves it to the registrar; nothing else changes a   *)
(* request that is outstanding, neither a refresh nor the application.      *)
LEMMA RetryStep ==
  Typed /\ [Next]_vars
    => (tells /\ waiting /\ waiting' /\ asked' # asked => asked' = NoHeader \/ asked' >= minimum)
<1> SUFFICES ASSUME Typed, Next, tells, waiting, waiting', asked' # asked
             PROVE  asked' = NoHeader \/ asked' >= minimum
  BY DEF vars, requestVars
<1>1. ASSUME NEW value, Register(value) PROVE FALSE
  BY <1>1 DEF Register
<1>2. \/ TooBrief
      \/ SetRegistration \/ Refresh \/ \E value \in Timeouts : ModifyTimeout(value)
  BY DEF Next, Answer, Grant, GrantSilently, Granted, Fail, Forget, ModifyDelay, Tick, requestVars
<1>3. CASE TooBrief
  <2>1. asked' = HeaderFor(Floor, expires) /\ Floor = minimum
    BY <1>3 DEF TooBrief, Forget, Floor
  <2>2. minimum \in Nat
    BY Numbers DEF Typed, TypeOK
  <2> QED BY <2>1, <2>2 DEF HeaderFor
<1> QED BY <1>1, <1>2, <1>3 DEF SetRegistration, Refresh, ModifyTimeout

THEOREM RetryIsAccepted == Spec => RetryAccepted
<1>1. Spec => []Typed
  BY TypedInit, TypedStep, PTL DEF Spec
<1> QED BY <1>1, RetryStep, PTL DEF Spec, RetryAccepted

-----------------------------------------------------------------------------
(* The registrar says what it grants, and insists on more than any margin   *)
(* of the refresh and than the least delay; the application may change its  *)
(* timeout, and not its margin.                                             *)
Roomy ==
  /\ \A m \in Minimums : MinDelay < m /\ \A d \in Delays : d < m
  /\ "silent" \notin Quirks
  /\ "delay" \notin Modify

(* What the refresh timer is computed from: a margin the application chose  *)
(* and an expiry the registrar granted.                                     *)
Sources ==
  /\ before \in Delays \cup {MinDelay}
  /\ expires \in (1..MaxGrant) \cup {NotSpecified}

InTime == Typed /\ Sources /\ RefreshInTime

LEMMA InTimeInit == Init => InTime
BY TypedInit DEF Init, InTime, Sources, RefreshInTime, Off

LEMMA InTimeStep == Roomy /\ InTime /\ [Next]_vars => InTime'
<1> SUFFICES ASSUME Roomy, InTime, [Next]_vars PROVE Sources' /\ RefreshInTime'
  BY TypedStep DEF InTime
<1> USE DEF InTime, Sources, RefreshInTime
<1>1. CASE SetRegistration
  BY <1>1 DEF SetRegistration, Register, Typed, TypeOK, regcVars, registrarVars
<1>2. CASE Refresh
  BY <1>2 DEF Refresh, Register, regcVars, registrarVars
<1>3. ASSUME NEW value \in Timeouts, ModifyTimeout(value) PROVE Sources' /\ RefreshInTime'
  BY <1>3 DEF ModifyTimeout, Register, Typed, TypeOK
<1>4. ASSUME NEW value \in Delays, ModifyDelay(value) PROVE FALSE
  BY <1>4 DEF ModifyDelay, Roomy
<1>5. CASE Grant
  <2>1. PICK g \in Grants : Granted(g, g)
    BY <1>5 DEF Grant
  <2>2. g \in 1..MaxGrant /\ MinDelay < g /\ before < g
    BY Numbers DEF Grants, Roomy, Typed, TypeOK
  <2>3. Delay(g, before, expires) \in MinDelay..(g - 1)
    BY <2>2, DelayInTime DEF Typed, TypeOK
  <2> QED
    BY <2>1, <2>2, <2>3, Numbers DEF Granted
<1>6. CASE GrantSilently
  BY <1>6 DEF GrantSilently, Roomy
<1>7. CASE Fail
  BY <1>7 DEF Fail, Forget
<1>8. CASE TooBrief
  BY <1>8 DEF TooBrief, Forget
<1>9. CASE Tick
  BY <1>9, Numbers DEF Tick, Typed, TypeOK, Off, regcVars, registrarVars
<1>10. CASE UNCHANGED vars
  BY <1>10 DEF vars, regcVars, registrarVars
<1> QED
  BY <1>1, <1>2, <1>3, <1>4, <1>5, <1>6, <1>7, <1>8, <1>9, <1>10 DEF Next, Answer

(* RefreshInTime: with such a registrar the refresh always comes before the *)
(* registrar forgets the contact, for any timeouts, grants and widths.      *)
THEOREM RefreshIsInTime == Roomy => (Spec => []RefreshInTime)
<1> SUFFICES ASSUME Roomy PROVE Spec => []RefreshInTime
  OBVIOUS
<1>1. InTime /\ [Next]_vars => InTime'
  BY InTimeStep
<1>2. InTime => RefreshInTime
  BY DEF InTime
<1> QED
  BY InTimeInit, <1>1, <1>2, PTL DEF Spec

-----------------------------------------------------------------------------
(* Where a long has 32 bits, no registrar and no setting loses the refresh. *)

(* What is asked for and what is granted are no negative pj_int32_t.        *)
Small ==
  /\ 2 * header < Word
  /\ expires # NotSpecified => 2 * expires < Word

NotLost == Typed /\ Small /\ RefreshNotLost

(* Such a refresh comes no later than the expiry or the least delay.        *)
LEMMA DelayBounded ==
  ASSUME ~WideLong,
         NEW expiration \in 1..(Word - 1), NEW margin \in 1..(Word - 1),
         NEW last \in 1..(Word - 1), last # NotSpecified => 2 * last < Word
  PROVE  Delay(expiration, margin, last)
           \in 0 .. (IF expiration < MinDelay THEN MinDelay ELSE expiration)
<1>1. Early(expiration, margin) \in Int /\ Early(expiration, margin) < expiration
  BY Numbers DEF Early
<1>2. last # NotSpecified => Signed(last) = last
  BY Numbers DEF Signed
<1> QED
  BY <1>1, <1>2, Numbers DEF Delay

LEMMA NotLostInit == Init => NotLost
<1>1. Init => Small /\ RefreshNotLost
  BY Numbers DEF Init, Small, RefreshNotLost, NoHeader
<1> QED
  BY <1>1, TypedInit DEF NotLost

LEMMA NotLostStep == ~WideLong /\ NotLost /\ [Next]_vars => NotLost'
<1> SUFFICES ASSUME ~WideLong, NotLost, [Next]_vars PROVE Small' /\ RefreshNotLost'
  BY TypedStep DEF NotLost
<1> USE DEF NotLost, Small, RefreshNotLost
<1>t. Typed
  OBVIOUS
<1>h. \A v \in Timeouts \cup Minimums \cup {Guess, NoHeader} : 2 * v < Word
  BY Numbers DEF NoHeader
<1>1. CASE SetRegistration
  BY <1>t, <1>1, <1>h DEF SetRegistration, Register, HeaderFor, regcVars, registrarVars, Typed, TypeOK
<1>2. CASE Refresh
  BY <1>2 DEF Refresh, Register, regcVars, registrarVars
<1>3. ASSUME NEW value \in Timeouts, ModifyTimeout(value) PROVE Small' /\ RefreshNotLost'
  BY <1>3, <1>h DEF ModifyTimeout, Register, HeaderFor
<1>4. ASSUME NEW value \in Delays, ModifyDelay(value) PROVE Small' /\ RefreshNotLost'
  <2>1. Delay(expires, value, expires)
          \in 0 .. (IF expires < MinDelay THEN MinDelay ELSE expires)
    BY <1>t, DelayBounded, Fits DEF Typed, TypeOK
  <2> QED
    BY <1>4, <2>1 DEF ModifyDelay, requestVars, registrarVars
<1>5. ASSUME NEW e \in 1..(Word - 1), 2 * e < Word, NEW g, Granted(e, g)
      PROVE  Small' /\ RefreshNotLost'
  <2>1. Delay(e, before, expires) \in 0 .. (IF e < MinDelay THEN MinDelay ELSE e)
    BY <1>t, <1>5, DelayBounded DEF Typed, TypeOK
  <2> QED
    BY <1>5, <2>1 DEF Granted
<1>6. CASE Grant
  <2>1. PICK g \in Grants : Granted(g, g)
    BY <1>6 DEF Grant
  <2>2. g \in 1..(Word - 1) /\ 2 * g < Word
    BY <1>t, Numbers DEF Grants, Typed, TypeOK
  <2> QED
    BY <2>1, <2>2, <1>5
<1>7. CASE GrantSilently
  <2> DEFINE e == IF header = NoHeader THEN Fallback ELSE header
  <2>1. PICK g \in Grants : Granted(e, g)
    BY <1>7 DEF GrantSilently
  <2>2. e \in 1..(Word - 1) /\ 2 * e < Word
    BY <1>t, Numbers, Fits DEF Typed, TypeOK, NoHeader
  <2> QED
    BY <2>1, <2>2, <1>5
<1>8. CASE Fail
  BY <1>8, <1>h DEF Fail, Forget
<1>9. CASE TooBrief
  BY <1>t, <1>9, <1>h DEF TooBrief, Forget, HeaderFor, Floor, Typed, TypeOK
<1>10. CASE Tick
  BY <1>t, <1>10, Numbers DEF Tick, regcVars, registrarVars, requestVars, Typed, TypeOK, Off
<1>11. CASE UNCHANGED vars
  BY <1>11 DEF vars, regcVars, registrarVars, requestVars
<1> QED
  BY <1>1, <1>2, <1>3, <1>4, <1>6, <1>7, <1>8, <1>9, <1>10, <1>11 DEF Next, Answer

(* RefreshNotLost: in such a build a registered client has a refresh to     *)
(* come, no later than its last expiry or the least delay, whatever the     *)
(* registrar grants and leaves out and the application changes.             *)
THEOREM RefreshIsKept == ~WideLong => (Spec => []RefreshNotLost)
<1> SUFFICES ASSUME ~WideLong PROVE Spec => []RefreshNotLost
  OBVIOUS
<1>1. NotLost /\ [Next]_vars => NotLost'
  BY NotLostStep
<1>2. NotLost => RefreshNotLost
  BY DEF NotLost
<1> QED
  BY NotLostInit, <1>1, <1>2, PTL DEF Spec
=============================================================================
