----------------------------- MODULE RegcExpires -----------------------------
(***************************************************************************)
(* The seconds of one account's registration: what a REGISTER request asks *)
(* for, what the registrar grants, and when the refresh timer fires        *)
(* (set_expires, schedule_registration, calculate_response_expiration and  *)
(* the 423 branch of regc_tsx_callback in sip_reg.c; pjsua_regc_init,      *)
(* pjsua_acc_modify and regc_cb in pjsua_acc.c).  Locks and threads are    *)
(* those of Regc; here every call is one step, and time passes.            *)
(*                                                                         *)
(* A definition named D_error is D with a mistake a maintainer could make; *)
(* no specification uses it, it shows which property notices the mistake.  *)
(***************************************************************************)
EXTENDS Integers

CONSTANTS
  Timeouts,   \* the values of cfg.reg_timeout
  Delays,     \* the values of cfg.reg_delay_before_refresh
  Minimums,   \* the shortest expiry the registrar may insist on
  MaxGrant,   \* bound of this model: the longest expiry granted
  MinDelay,   \* DELAY_BEFORE_REFRESH
  Guess,      \* UNSPECIFIED_MIN_EXPIRES
  Fallback,   \* the expiry assumed when nobody mentions one
  Word,       \* 2^32 in the code: the modulus of pj_uint32_t
  WideLong,   \* a long has 64 bits (arm64, x86_64), or else 32 (armv7, i386)
  Quirks,     \* a subset of QuirkKinds
  Modify      \* the settings the application changes: a subset of Settings

(* "silent": a 200 may say nothing of the expiry; "noMinimum": the registrar *)
(* may be one whose 423 has no Min-Expires.                                  *)
QuirkKinds == {"silent", "noMinimum"}
Settings == {"timeout", "delay"}

ASSUME ValuesAssumption ==
  /\ Timeouts \subseteq Nat \ {0} /\ Delays \subseteq Nat \ {0}
  /\ Minimums \subseteq Nat \ {0}
  /\ {MaxGrant, MinDelay, Guess, Fallback} \subseteq Nat \ {0}
ASSUME WordAssumption ==
  /\ Word \in Nat
  /\ \A v \in Timeouts \cup Delays \cup Minimums \cup {MaxGrant, MinDelay, Guess, Fallback} :
       2 * v < Word
ASSUME ChoicesAssumption ==
  WideLong \in BOOLEAN /\ Quirks \subseteq QuirkKinds /\ Modify \subseteq Settings

VARIABLES
  timeout,   \* acc->cfg.reg_timeout
  ahead,     \* acc->cfg.reg_delay_before_refresh
  live,      \* acc->regc is not NULL
  header,    \* the value of regc->expires_hdr, or NoHeader
  expires,   \* regc->expires
  before,    \* regc->delay_before_refresh
  asked,     \* the Expires of the request outstanding, or NoHeader
  waiting,   \* a request is outstanding
  timer,     \* seconds until the refresh timer fires, or Off
  binding,   \* seconds until the registrar forgets the contact
  minimum,   \* the registrar's minimum
  tells      \* whether its 423 has a Min-Expires

accVars == <<timeout, ahead>>
regcVars == <<live, header, expires, before>>
requestVars == <<asked, waiting>>
registrarVars == <<minimum, tells>>
vars == <<accVars, regcVars, requestVars, timer, binding, registrarVars>>

NoHeader == 0          \* pjsip_regc_init refuses an expiry of 0
Off == -1
NotSpecified == Word - 1

(* pj_int32_t of a pj_uint32_t *)
Signed(n) == IF 2 * n >= Word THEN n - Word ELSE n

(* set_expires: no header when the value is the last one granted. *)
HeaderFor(value, granted) == IF value # granted THEN value ELSE NoHeader

(* schedule_registration: a difference of pj_uint32_t, stored in a long.  A  *)
(* negative one keeps its sign only where the long has 32 bits.             *)
Early(expiration, margin) ==
  LET difference == expiration - margin
  IN IF difference < 0 /\ WideLong THEN difference + Word ELSE difference

Delay_noMargin(expiration, margin, last) ==
  IF expiration < MinDelay THEN MinDelay ELSE expiration
Delay(expiration, margin, last) ==
  LET early == Early(expiration, margin)
      capped == IF last # NotSpecified /\ early > Signed(last) THEN last ELSE early
  IN IF capped < MinDelay THEN MinDelay ELSE capped

Init ==
  /\ timeout \in Timeouts /\ ahead \in Delays
  /\ live = FALSE /\ header = NoHeader /\ expires = NotSpecified /\ before = MinDelay
  /\ asked = NoHeader /\ waiting = FALSE
  /\ timer = Off /\ binding = 0
  /\ minimum \in Minimums
  /\ tells \in IF "noMinimum" \in Quirks THEN BOOLEAN ELSE {TRUE}

-----------------------------------------------------------------------------
(* pjsip_regc_register and pjsip_regc_send: the refresh timer is cancelled  *)
(* even when a request is outstanding and the new one is refused.           *)
Register_timerRuns(value) ==
  /\ timer' = IF timer = 0 THEN Off ELSE timer
  /\ waiting' = TRUE
  /\ asked' = IF waiting THEN asked ELSE value
Register(value) ==
  /\ timer' = Off
  /\ waiting' = TRUE
  /\ asked' = IF waiting THEN asked ELSE value

(* pjsua_acc_set_registration; pjsua_regc_init if there is no regc. *)
SetRegistration ==
  /\ IF live THEN UNCHANGED regcVars
             ELSE /\ live' = TRUE
                  /\ expires' = NotSpecified
                  /\ header' = HeaderFor(timeout, NotSpecified)
                  /\ before' = ahead
  /\ Register(header')
  /\ UNCHANGED <<accVars, binding, registrarVars>>

(* pjsua_acc_modify with another reg_timeout: it registers at once. *)
ModifyTimeout(value) ==
  /\ "timeout" \in Modify
  /\ value # timeout
  /\ timeout' = value
  /\ IF live THEN /\ header' = HeaderFor(value, expires)
                  /\ UNCHANGED <<live, expires, before>>
             ELSE /\ live' = TRUE
                  /\ expires' = NotSpecified
                  /\ header' = HeaderFor(value, NotSpecified)
                  /\ before' = ahead
  /\ Register(header')
  /\ UNCHANGED <<ahead, binding, registrarVars>>

(* pjsua_acc_modify with another reg_delay_before_refresh: the timer starts *)
(* anew from the whole of the expiry.  A delay beyond the expiry is refused *)
(* by the regc, and kept by the account.                                    *)
ModifyDelay_cancelOnly(value) ==
  /\ "delay" \in Modify
  /\ value # ahead
  /\ ahead' = value
  /\ IF live /\ value <= expires
     THEN before' = value /\ timer' = IF value = before THEN timer ELSE Off
     ELSE UNCHANGED <<before, timer>>
  /\ UNCHANGED <<timeout, live, header, expires, requestVars, binding, registrarVars>>

ModifyDelay(value) ==
  /\ "delay" \in Modify
  /\ value # ahead
  /\ ahead' = value
  /\ IF live /\ value <= expires
     THEN /\ before' = value
          /\ timer' = IF timer = Off \/ value = before THEN timer
                      ELSE Delay(expires, value, expires)
     ELSE UNCHANGED <<before, timer>>
  /\ UNCHANGED <<timeout, live, header, expires, requestVars, binding, registrarVars>>

(* regc_refresh_timer_cb *)
Refresh ==
  /\ timer = 0
  /\ Register(header)
  /\ UNCHANGED <<accVars, regcVars, binding, registrarVars>>

-----------------------------------------------------------------------------
(* The registrar.  It grants what was asked or less, but no less than its   *)
(* minimum, and what it likes when nothing was asked.                       *)
Grants ==
  {g \in minimum..MaxGrant : asked # NoHeader => g <= asked}

(* A final 2xx: calculate_response_expiration, schedule_registration, and   *)
(* then regc->expires changes.                                              *)
Granted(expiration, g) ==
  /\ binding' = g
  /\ timer' = Delay(expiration, before, expires)
  /\ expires' = expiration
  /\ waiting' = FALSE
  /\ asked' = NoHeader
  /\ UNCHANGED <<accVars, live, header, before, registrarVars>>

Grant ==
  /\ waiting
  /\ \E g \in Grants : Granted(g, g)

GrantSilently ==
  /\ waiting
  /\ "silent" \in Quirks
  /\ \E g \in Grants :
       /\ asked \in {g, NoHeader}
       /\ Granted(IF header = NoHeader THEN Fallback ELSE header, g)

(* Any final failure: regc_cb destroys the regc. *)
Forget ==
  /\ live' = FALSE
  /\ header' = NoHeader
  /\ expires' = NotSpecified
  /\ waiting' = FALSE
  /\ asked' = NoHeader
  /\ UNCHANGED <<before, timer>>

Fail ==
  /\ waiting
  /\ Forget
  /\ UNCHANGED <<accVars, binding, registrarVars>>

(* A 423: ask for the minimum, unless we asked for as much already. *)
Floor_below == IF tells THEN minimum - 1 ELSE Guess
Floor == IF tells THEN minimum ELSE Guess
Hopeless_minimumOnly == header # NoHeader /\ header > Floor
Hopeless == header # NoHeader /\ header >= Floor

TooBrief ==
  /\ waiting
  /\ asked # NoHeader /\ asked < minimum
  /\ IF Hopeless
     THEN Forget
     ELSE /\ header' = HeaderFor(Floor, expires)
          /\ asked' = header'
          /\ waiting' = TRUE
          /\ timer' = Off
          /\ UNCHANGED <<live, expires, before>>
  /\ UNCHANGED <<accVars, binding, registrarVars>>

(* A second passes; a timer that is due fires first. *)
Tick ==
  /\ timer # 0
  /\ timer > 0 \/ binding > 0
  /\ timer' = IF timer > 0 THEN timer - 1 ELSE timer
  /\ binding' = IF binding > 0 THEN binding - 1 ELSE 0
  /\ UNCHANGED <<accVars, regcVars, requestVars, registrarVars>>

Answer == Grant \/ GrantSilently \/ TooBrief

Next ==
  \/ SetRegistration \/ Refresh
  \/ \E value \in Timeouts : ModifyTimeout(value)
  \/ \E value \in Delays : ModifyDelay(value)
  \/ Answer \/ Fail
  \/ Tick

(* The registrar answers, and a timer that is due fires. *)
Spec == Init /\ [][Next]_vars
FairSpec == Spec /\ WF_vars(Answer) /\ WF_vars(Refresh)

-----------------------------------------------------------------------------
(* The values of the registration stay in range; the refresh timer runs     *)
(* only while no request is outstanding, and only of a live regc.           *)
TypeOK ==
  /\ timeout \in Timeouts /\ ahead \in Delays
  /\ live \in BOOLEAN /\ waiting \in BOOLEAN
  /\ header \in 0..(Word - 1) /\ expires \in 1..(Word - 1) /\ before \in 1..(Word - 1)
  /\ asked \in 0..(Word - 1)
  /\ timer \in Off..(Word - 1) /\ binding \in 0..MaxGrant
  /\ minimum \in Minimums /\ tells \in BOOLEAN
  /\ timer # Off => live /\ ~waiting

(* The refresh comes before the registrar forgets the contact, whatever was *)
(* asked, refused and granted before.                                       *)
RefreshInTime == timer # Off => timer < binding

(* A registered client has a refresh to come, within the expiry it was      *)
(* granted last (or the least delay), whatever the registrar left out and   *)
(* the application changed.                                                 *)
RefreshNotLost ==
  live /\ ~waiting => timer \in 0 .. (IF expires < MinDelay THEN MinDelay ELSE expires)

(* After a 423 with a Min-Expires the request repeated asks for enough.     *)
RetryAccepted ==
  [][tells /\ waiting /\ waiting' /\ asked' # asked
       => asked' = NoHeader \/ asked' >= minimum]_vars

(* A registration attempt ends: the registrar cannot keep the client asking *)
(* with one 423 after the other, unless the application changes the timeout *)
(* again and again.                                                         *)
AttemptEnds ==
  (waiting ~> ~waiting) \/ []<><<timeout' # timeout>>_timeout
=============================================================================
