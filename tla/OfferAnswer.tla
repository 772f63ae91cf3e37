----------------------------- MODULE OfferAnswer -----------------------------
(***************************************************************************)
(* Offers and answers inside a confirmed call: the SDP negotiator          *)
(* (sdp_neg.c) and the part of sip_inv.c that drives it, at both ends.     *)
(*                                                                         *)
(* Both parties run the same code.  A handler runs under the dialog lock   *)
(* and is one step; the refresh of a session timer gives the lock up       *)
(* between its offer and its send, and is two.  The transaction layer      *)
(* delivers every message once and answers retransmissions; messages       *)
(* overtake each other.                                                    *)
(*                                                                         *)
(* An SDP is a body and the version of its origin.  Codec matching is      *)
(* whether there is an answer at all.  Not modelled: the first INVITE and  *)
(* early media, 100rel, CANCEL, the end of the call (a refresh that fails  *)
(* ends it, so only other requests fail here), requests without SDP other  *)
(* than re-INVITE.                                                         *)
(*                                                                         *)
(* A definition named D_error is D with a mistake a maintainer could make. *)
(***************************************************************************)
EXTENDS Naturals, FiniteSets

CONSTANTS
  Parties,   \* the two ends of the call
  MaxSent,   \* bound: requests sent in a call
  Calls      \* what may happen in a call: a set of sets of features

Operations == {"reinvite", "delayed", "update", "refresh"}
Replies == {"answer", "none", "mismatch"}   \* how an offer is taken
Faults == {"transport", "challenge", "noCredentials", "ackLost", "twoWorkers"}

ASSUME PartiesAssumption == IsFiniteSet(Parties) /\ Cardinality(Parties) = 2
ASSUME BoundAssumption == MaxSent \in Nat \ {0}
ASSUME CallsAssumption ==
  \A call \in Calls :
    /\ call \subseteq Operations \cup Replies \cup Faults
    /\ ~({"transport", "refresh"} \subseteq call)   \* that ends the call

VARIABLES
  may,         \* what may happen in this call
  neg,         \* each party's negotiator (inv->neg)
  invite,      \* each party's INVITE transaction (inv->invite_tsx)
  client,      \* requests sent and not yet answered, with their SDP
  prepared,    \* the offer of a refresh that is not sent yet
  net,         \* messages on their way
  cseq,        \* the last CSeq each party used (dlg->local.cseq)
  remoteCSeq,  \* the last CSeq each party received (dlg->remote.cseq)
  bodies,      \* how many SDP bodies were made
  sent         \* history: who sent which SDP

vars == <<may, neg, invite, client, prepared, net, cseq, remoteCSeq, bodies, sent>>

Peer(p) == CHOOSE q \in Parties : q # p

NoSdp == [ver |-> 0, body |-> 0]
Sdp(v, b) == [ver |-> v, body |-> b]
Id(p, n) == [from |-> p, cseq |-> n]   \* a transaction
NoInvite == [id |-> [from |-> CHOOSE p \in Parties : TRUE, cseq |-> 0],
             code |-> 0, done |-> FALSE]

-----------------------------------------------------------------------------
(* The negotiator. *)

(* pjmedia_sdp_neg_modify_local_offer2 *)
ModifyLocalOffer(n, b) ==
  [n EXCEPT !.state = "localOffer", !.local = Sdp(n.activeLocal.ver + 1, b)]

(* pjmedia_sdp_neg_send_local_offer *)
SendLocalOffer(n) ==
  IF n.state = "done" THEN [n EXCEPT !.state = "localOffer", !.local = n.activeLocal] ELSE n

SetRemoteAnswer(n, s) ==
  [n EXCEPT !.state = "waitNego", !.remote = s, !.remoteAnswered = TRUE]

SetRemoteOffer(n, s) == [n EXCEPT !.state = "remoteOffer", !.remote = s]

SetLocalAnswer(n, b) == [n EXCEPT !.state = "waitNego", !.local = Sdp(0, b)]

Cleared(n) ==
  [n EXCEPT !.state = "done", !.local = NoSdp, !.remote = NoSdp, !.remoteAnswered = FALSE]

(* pjmedia_sdp_neg_cancel_offer: a version that was offered is not used again. *)
CancelOffer(n) ==
  Cleared(IF n.state = "localOffer" THEN [n EXCEPT !.activeLocal.ver = @ + 1] ELSE n)

(* pjmedia_sdp_neg_negotiate: ok says whether there is a common codec. *)
Negotiate(n, ok) ==
  Cleared(IF ~ok THEN n
          ELSE [n EXCEPT !.activeRemote = n.remote,
                  !.activeLocal = IF n.remoteAnswered THEN n.local
                                  ELSE Sdp(n.activeLocal.ver + 1, n.local.body)])

HasLocalAnswer(n) == n.state = "waitNego" /\ ~n.remoteAnswered

(* pjsua_call_on_rx_offer: the application answers, or does not. *)
OnRxOffer(n, s, reply, b) ==
  LET offered == SetRemoteOffer(n, s)
  IN IF reply = "none" THEN offered ELSE SetLocalAnswer(offered, b)

(* inv_check_sdp_in_incoming_msg: the state of the negotiator, not the     *)
(* message, says whether s is an offer or an answer.                       *)
CheckSdp(n, s, reply, b) ==
  CASE s = NoSdp -> n
    [] s # NoSdp /\ n.state = "done" -> OnRxOffer(n, s, reply, b)
    [] s # NoSdp /\ n.state = "localOffer" -> Negotiate(SetRemoteAnswer(n, s), TRUE)
    [] OTHER -> n

CancelIfOffered(n) == IF n.state = "localOffer" THEN CancelOffer(n) ELSE n

-----------------------------------------------------------------------------
(* Messages. *)

Request(type, id, s) == [type |-> type, id |-> id, code |-> 0, sdp |-> s]
Response(id, code, s) == [type |-> "response", id |-> id, code |-> code, sdp |-> s]
Ack(id, code, s) == [type |-> "ACK", id |-> id, code |-> code, sdp |-> s]

Sending(p, s) == sent' = IF s = NoSdp THEN sent ELSE sent \cup {[by |-> p, sdp |-> s]}

MaySend == cseq[NoInvite.id.from] + cseq[Peer(NoInvite.id.from)] < MaxSent

(* pjsip_inv_send_msg and pjsip_dlg_send_request: clients and messages are  *)
(* what is left of the transactions and messages before this one.          *)
SendRequest(p, type, s, clients, messages) ==
  LET id == Id(p, cseq[p] + 1)
  IN /\ MaySend
     /\ cseq' = [cseq EXCEPT ![p] = @ + 1]
     /\ client' = clients \cup {[type |-> type, id |-> id, sdp |-> s]}
     /\ net' = messages \cup {Request(type, id, s)}
     /\ invite' = IF type = "INVITE" THEN [invite EXCEPT ![p] = [NoInvite EXCEPT !.id = id]]
                  ELSE invite
     /\ Sending(p, s)

(* While one thread polls, nothing arrives before a refresh it prepared is *)
(* sent.                                                                   *)
CanReceive(p) == prepared[p] = NoSdp \/ "twoWorkers" \in may

Init ==
  /\ may \in Calls
  /\ neg = [p \in Parties |->
       LET own == IF p = NoInvite.id.from THEN 1 ELSE 2
       IN [state |-> "done", local |-> NoSdp, remote |-> NoSdp, remoteAnswered |-> FALSE,
           activeLocal |-> Sdp(1, own), activeRemote |-> Sdp(1, 3 - own)]]
  /\ invite = [p \in Parties |-> NoInvite]
  /\ client = {}
  /\ prepared = [p \in Parties |-> NoSdp]
  /\ net = {}
  /\ cseq = [p \in Parties |-> 0]
  /\ remoteCSeq = [p \in Parties |-> 0]
  /\ bodies = 2
  /\ sent = {[by |-> p, sdp |-> neg[p].activeLocal] : p \in Parties}

-----------------------------------------------------------------------------
(* What a party starts. *)

(* pjsip_inv_reinvite: the offer of the application in the negotiator. *)
Offered(n, b) ==
  CASE n.state = "done" -> ModifyLocalOffer(n, b)
    [] n.state = "remoteOffer" -> SetLocalAnswer(n, b)
    [] OTHER -> n   \* it already has an offer; the new one is ignored

(* pjsip_inv_invite: what the request carries. *)
Carried(n) == IF n.state = "localOffer" \/ HasLocalAnswer(n) THEN n.local ELSE NoSdp

(* The number b is used up if n holds the body. *)
NextBody(n, b) == IF b \in {n.local.body, n.activeLocal.body} THEN b ELSE bodies

SendInvite_pending(p, n) ==
  /\ neg' = [neg EXCEPT ![p] = n]
  /\ bodies' = NextBody(n, bodies + 1)
  /\ SendRequest(p, "INVITE", Carried(n), client, net)
  /\ UNCHANGED <<may, prepared, remoteCSeq>>
SendInvite(p, n) ==
  /\ invite[p] = NoInvite
  /\ neg' = [neg EXCEPT ![p] = n]
  /\ bodies' = NextBody(n, bodies + 1)
  /\ SendRequest(p, "INVITE", Carried(n), client, net)
  /\ UNCHANGED <<may, prepared, remoteCSeq>>

(* pjsua_call_reinvite2, with an offer and without (NO_SDP_OFFER) *)
Reinvite(p) == "reinvite" \in may /\ SendInvite(p, Offered(neg[p], bodies + 1))
Delayed(p) == "delayed" \in may /\ SendInvite(p, neg[p])

(* pjsua_call_update2, and process_pending_reinvite where the peer can update *)
Update(p) ==
  /\ "update" \in may
  /\ neg[p].state = "done"
  /\ LET n == ModifyLocalOffer(neg[p], bodies + 1)
     IN /\ neg' = [neg EXCEPT ![p] = n]
        /\ SendRequest(p, "UPDATE", n.local, client, net)
  /\ bodies' = bodies + 1
  /\ UNCHANGED <<may, prepared, remoteCSeq>>

(* timer_cb of sip_timer.c, up to the unlock and after it *)
RefreshPrepare(p) ==
  /\ "refresh" \in may
  /\ prepared[p] = NoSdp
  /\ MaySend
  /\ invite[p] = NoInvite /\ neg[p].state = "done"
  /\ neg' = [neg EXCEPT ![p] = SendLocalOffer(@)]
  /\ prepared' = [prepared EXCEPT ![p] = neg[p].activeLocal]
  /\ UNCHANGED <<may, invite, client, net, cseq, remoteCSeq, bodies, sent>>

RefreshSend(p) ==
  /\ prepared[p] # NoSdp
  /\ prepared' = [prepared EXCEPT ![p] = NoSdp]
  /\ UNCHANGED <<may, neg, remoteCSeq, bodies>>
  /\ \/ /\ invite[p] = NoInvite
        /\ SendRequest(p, "INVITE", prepared[p], client, net)
     \/ /\ invite[p] # NoInvite
        /\ UNCHANGED <<invite, client, net, cseq, sent>>

-----------------------------------------------------------------------------
(* Requests that arrive. *)

Requests(p, type) ==
  {m \in net : m.type = type /\ m.id.from # p /\ m.id.cseq > remoteCSeq[p]}

(* pjsip_dlg_on_rx_request takes the request m; the handler leaves the     *)
(* negotiator n and responds.                                              *)
Respond(p, m, n, code, s) ==
  /\ neg' = [neg EXCEPT ![p] = n]
  /\ remoteCSeq' = [remoteCSeq EXCEPT ![p] = m.id.cseq]
  /\ net' = (net \ {m}) \cup {Response(m.id, code, s)}
  /\ bodies' = NextBody(n, bodies + 1)
  /\ Sending(p, s)
  /\ UNCHANGED <<may, client, prepared, cseq>>

Pending(p, m, code, done) ==
  invite' = [invite EXCEPT ![p] = [id |-> m.id, code |-> code, done |-> done]]

(* A request that another one has overtaken. *)
RxStale(p) ==
  /\ CanReceive(p)
  /\ \E m \in net :
       /\ m.type \in {"INVITE", "UPDATE"} /\ m.id.from # p
       /\ m.id.cseq <= remoteCSeq[p]
       /\ net' = (net \ {m}) \cup {Response(m.id, 500, NoSdp)}
  /\ UNCHANGED <<may, neg, invite, client, prepared, cseq, remoteCSeq, bodies, sent>>

(* A re-INVITE while another is pending: 491 if it is ours. *)
RxInviteBusy(p) ==
  /\ CanReceive(p)
  /\ invite[p] # NoInvite
  /\ \E m \in Requests(p, "INVITE") :
       Respond(p, m, neg[p], IF invite[p].id.from = p THEN 491 ELSE 500, NoSdp)
  /\ UNCHANGED invite

(* A re-INVITE while an offer of ours is not answered. *)
RxInviteGlare(p) ==
  /\ CanReceive(p)
  /\ invite[p] = NoInvite
  /\ neg[p].state # "done"
  /\ \E m \in Requests(p, "INVITE") :
       Respond(p, m, neg[p], 491, NoSdp) /\ Pending(p, m, 491, FALSE)

(* The application answers the offer, does not, or no codec is common. *)
RxInviteOffer(p) ==
  /\ CanReceive(p)
  /\ invite[p] = NoInvite
  /\ neg[p].state = "done"
  /\ \E m \in Requests(p, "INVITE"), reply \in Replies \cap may :
       LET offered == OnRxOffer(neg[p], m.sdp, reply, bodies + 1)
           agreed == Negotiate(offered, reply = "answer")
       IN /\ m.sdp # NoSdp
          /\ CASE reply = "none" ->
                    /\ Respond(p, m, CancelOffer(offered), 488, NoSdp)
                    /\ Pending(p, m, 488, FALSE)
               [] reply = "mismatch" ->
                    /\ Respond(p, m, agreed, 500, NoSdp)
                    /\ Pending(p, m, 500, FALSE)
               [] OTHER ->
                    /\ Respond(p, m, agreed, 200, agreed.activeLocal)
                    /\ Pending(p, m, 200, TRUE)

(* A re-INVITE without an offer gets one, a new one if the application     *)
(* makes it.                                                               *)
RxInviteNoOffer(p) ==
  /\ CanReceive(p)
  /\ invite[p] = NoInvite
  /\ neg[p].state = "done"
  /\ \E m \in Requests(p, "INVITE"),
        n \in {ModifyLocalOffer(neg[p], bodies + 1), SendLocalOffer(neg[p])} :
       /\ m.sdp = NoSdp
       /\ Respond(p, m, n, 200, n.local)
       /\ Pending(p, m, 200, FALSE)

(* inv_respond_incoming_update *)
RxUpdate_glare(p) ==
  /\ CanReceive(p)
  /\ \E m \in Requests(p, "UPDATE"), reply \in Replies \cap may :
       LET offered == OnRxOffer(neg[p], m.sdp, reply, bodies + 1)
           agreed == Negotiate(offered, reply = "answer")
       IN IF reply = "answer" THEN Respond(p, m, agreed, 200, agreed.activeLocal)
          ELSE Respond(p, m, CancelOffer(offered), 488, NoSdp)
  /\ UNCHANGED invite
RxUpdate(p) ==
  /\ CanReceive(p)
  /\ \E m \in Requests(p, "UPDATE"), reply \in Replies \cap may :
       LET offered == OnRxOffer(neg[p], m.sdp, reply, bodies + 1)
           agreed == Negotiate(offered, reply = "answer")
       IN CASE neg[p].state = "localOffer" -> Respond(p, m, neg[p], 491, NoSdp)
            [] neg[p].state \in {"remoteOffer", "waitNego"} -> Respond(p, m, neg[p], 500, NoSdp)
            [] neg[p].state = "done" /\ reply = "none" ->
                 Respond(p, m, CancelOffer(offered), 488, NoSdp)
            [] neg[p].state = "done" /\ reply = "mismatch" ->
                 Respond(p, m, agreed, 488, NoSdp)
            [] OTHER -> Respond(p, m, agreed, 200, agreed.activeLocal)
  /\ UNCHANGED invite

Ended(p, id) ==
  invite' = IF invite[p].id = id THEN [invite EXCEPT ![p] = NoInvite] ELSE invite

(* mod_inv_on_rx_request for the ACK of a 2xx; the dialog takes its CSeq,  *)
(* even if it is behind.                                                   *)
RxAck(p) ==
  /\ CanReceive(p)
  /\ \E m \in net, reply \in Replies \cap may :
       LET awaited == invite[p].id = m.id /\ invite[p].code # 0
           heard == IF invite[p].done THEN neg[p]
                    ELSE CheckSdp(neg[p], m.sdp, reply, bodies + 1)
           n == IF awaited THEN CancelIfOffered(heard) ELSE neg[p]
       IN /\ m.type = "ACK" /\ m.code = 200 /\ m.id.from # p
          /\ neg' = [neg EXCEPT ![p] = n]
          /\ bodies' = NextBody(n, bodies + 1)
          /\ remoteCSeq' = [remoteCSeq EXCEPT ![p] = m.id.cseq]
          /\ net' = net \ {m}
          /\ Ended(p, m.id)
  /\ UNCHANGED <<may, client, prepared, cseq, sent>>

(* The ACK of a failure ends in the transaction. *)
RxFailureAck(p) ==
  /\ CanReceive(p)
  /\ \E m \in net :
       /\ m.type = "ACK" /\ m.code # 200 /\ m.id.from # p
       /\ net' = net \ {m}
       /\ Ended(p, m.id)
  /\ UNCHANGED <<may, neg, client, prepared, cseq, remoteCSeq, bodies, sent>>

-----------------------------------------------------------------------------
(* Responses that arrive. *)

Answered(p, type, codes) ==
  {x \in client \X net :
     /\ x[1].type = type /\ x[1].id.from = p
     /\ x[2].type = "response" /\ x[2].id = x[1].id /\ x[2].code \in codes}

Refusals == {488, 491, 500}

(* A 2xx to a re-INVITE, and its ACK, with the answer if the 2xx had an    *)
(* offer (inv_has_pending_answer).                                         *)
InviteAccepted(p) ==
  /\ CanReceive(p)
  /\ \E x \in Answered(p, "INVITE", {200}), reply \in Replies \cap may :
       LET c == x[1]  m == x[2]
           heard == CancelIfOffered(CheckSdp(neg[p], m.sdp, reply, bodies + 1))
           owes == HasLocalAnswer(heard)
           n == IF owes THEN Negotiate(heard, reply = "answer") ELSE heard
           s == IF owes /\ reply = "answer" THEN n.activeLocal ELSE NoSdp
       IN /\ neg' = [neg EXCEPT ![p] = n]
          /\ bodies' = NextBody(n, bodies + 1)
          /\ net' = (net \ {m}) \cup {Ack(m.id, 200, s)}
          /\ client' = client \ {c}
          /\ Ended(p, c.id)
          /\ Sending(p, s)
  /\ UNCHANGED <<may, prepared, cseq, remoteCSeq>>

(* on_state_confirmed: the re-INVITE failed. *)
InviteRefused_stays(p) ==
  /\ CanReceive(p)
  /\ \E x \in Answered(p, "INVITE", Refusals) :
       /\ client' = client \ {x[1]}
       /\ net' = (net \ {x[2]}) \cup {Ack(x[2].id, x[2].code, NoSdp)}
       /\ Ended(p, x[1].id)
  /\ UNCHANGED <<may, neg, prepared, cseq, remoteCSeq, bodies, sent>>
InviteRefused(p) ==
  /\ CanReceive(p)
  /\ \E x \in Answered(p, "INVITE", Refusals) :
       /\ neg' = [neg EXCEPT ![p] = CancelIfOffered(@)]
       /\ client' = client \ {x[1]}
       /\ net' = (net \ {x[2]}) \cup {Ack(x[2].id, x[2].code, NoSdp)}
       /\ Ended(p, x[1].id)
  /\ UNCHANGED <<may, prepared, cseq, remoteCSeq, bodies, sent>>

(* inv_handle_update_response *)
UpdateAnswered(p) ==
  /\ CanReceive(p)
  /\ \E x \in Answered(p, "UPDATE", {200} \cup Refusals) :
       /\ neg' = [neg EXCEPT ![p] =
            CancelIfOffered(IF x[2].code = 200 /\ @.state = "localOffer"
                            THEN CheckSdp(@, x[2].sdp, "answer", bodies + 1) ELSE @)]
       /\ client' = client \ {x[1]}
       /\ net' = net \ {x[2]}
  /\ UNCHANGED <<may, invite, prepared, cseq, remoteCSeq, bodies, sent>>

(* A proxy challenges: the request is sent again, or cannot be. *)
Challenged(p) ==
  /\ CanReceive(p)
  /\ \E x \in Answered(p, "INVITE", {401}) \cup Answered(p, "UPDATE", {401}) :
       LET c == x[1]  m == x[2]
       IN \/ /\ SendRequest(p, c.type, c.sdp, client \ {c}, net \ {m})
             /\ UNCHANGED neg
          \/ /\ "noCredentials" \in may
             /\ client' = client \ {c}
             /\ net' = net \ {m}
             /\ neg' = IF c.type = "UPDATE" THEN [neg EXCEPT ![p] = CancelIfOffered(@)] ELSE neg
             /\ invite' = IF c.type = "INVITE" THEN [invite EXCEPT ![p] = NoInvite] ELSE invite
             /\ UNCHANGED <<cseq, sent>>
  /\ UNCHANGED <<may, prepared, remoteCSeq, bodies>>

-----------------------------------------------------------------------------
(* What the network does. *)

Challenge ==
  /\ "challenge" \in may
  /\ MaySend
  /\ \E m \in net :
       /\ m.type \in {"INVITE", "UPDATE"}
       /\ net' = (net \ {m}) \cup {Response(m.id, 401, NoSdp)}
  /\ UNCHANGED <<may, neg, invite, client, prepared, cseq, remoteCSeq, bodies, sent>>

(* The transport fails under a request: the transaction ends with 503 and  *)
(* without a message.                                                      *)
TransportFails(p) ==
  /\ "transport" \in may
  /\ \E c \in client, m \in net :
       /\ c.id.from = p /\ m.type = c.type /\ m.id = c.id
       /\ client' = client \ {c}
       /\ net' = net \ {m}
       /\ Ended(p, c.id)
       /\ neg' = IF c.type = "UPDATE" THEN [neg EXCEPT ![p] = CancelIfOffered(@)] ELSE neg
  /\ UNCHANGED <<may, prepared, cseq, remoteCSeq, bodies, sent>>

(* No ACK of a 2xx arrives until the transaction gives up. *)
AckLost(p) ==
  /\ "ackLost" \in may
  /\ \E m \in net :
       /\ m.type = "ACK" /\ m.code = 200 /\ m.id.from # p
       /\ net' = net \ {m}
       /\ Ended(p, m.id)
  /\ UNCHANGED <<may, neg, client, prepared, cseq, remoteCSeq, bodies, sent>>

Step(p) ==
  \/ Reinvite(p) \/ Delayed(p) \/ Update(p) \/ RefreshPrepare(p) \/ RefreshSend(p)
  \/ RxStale(p) \/ RxInviteBusy(p) \/ RxInviteGlare(p) \/ RxInviteOffer(p) \/ RxInviteNoOffer(p)
  \/ RxUpdate(p) \/ RxAck(p) \/ RxFailureAck(p)
  \/ InviteAccepted(p) \/ InviteRefused(p) \/ UpdateAnswered(p) \/ Challenged(p)
  \/ TransportFails(p) \/ AckLost(p)

Next == Challenge \/ \E p \in Parties : Step(p)

Spec == Init /\ [][Next]_vars

-----------------------------------------------------------------------------
States == {"done", "localOffer", "remoteOffer", "waitNego"}

(* Every field is in its range, an SDP that is offered was sent or is about *)
(* to be, and one INVITE of a party is outstanding at a time.               *)
TypeOK ==
  /\ may \in Calls
  /\ \A p \in Parties :
       /\ neg[p].state \in States
       /\ neg[p].remoteAnswered \in BOOLEAN
       /\ cseq[p] \in 0 .. MaxSent /\ remoteCSeq[p] \in 0 .. cseq[Peer(p)]
       /\ Cardinality({c \in client : c.type = "INVITE" /\ c.id.from = p}) <= 1
  /\ \A x \in sent : x.sdp.body \in 1 .. bodies

(* After every exchange both ends describe the same session: what one uses *)
(* is what the other thinks it uses.  About inv_check_sdp_in_incoming_msg  *)
(* and the answers sent after it.                                          *)
Settled ==
  /\ net = {} /\ client = {}
  /\ \A p \in Parties : invite[p] = NoInvite /\ prepared[p] = NoSdp /\ neg[p].state = "done"

Agreement ==
  Settled => \A p \in Parties : neg[p].activeRemote.body = neg[Peer(p)].activeLocal.body

(* A negotiator that waits has something to wait for: the response to a    *)
(* request with its offer, the ACK of a response with its offer, or the    *)
(* send of a refresh.  If not, no party can offer again.                   *)
OfferIsPending ==
  \A p \in Parties : neg[p].state # "done" =>
    \/ prepared[p] # NoSdp
    \/ \E c \in client : c.id.from = p
    \/ invite[p].id.from # p /\ invite[p].code = 200

(* Two SDPs of a party that differ have different versions: the peer can   *)
(* tell a change by the version alone, as RFC 3264 has it                  *)
(* (modify_local_offer2 and cancel_offer).                                 *)
VersionsTell ==
  \A x, y \in sent : x.by = y.by /\ x.sdp.ver = y.sdp.ver => x.sdp.body = y.sdp.body
=============================================================================
