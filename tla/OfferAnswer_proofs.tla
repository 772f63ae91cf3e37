------------------------- MODULE OfferAnswer_proofs -------------------------
(***************************************************************************)
(* The negotiators of both ends, for any number of requests and any kinds  *)
(* of call.  What holds of every call comes first: messages, transactions  *)
(* and the INVITE each party works on belong together.  From that follows, *)
(* for calls that are orderly, that no negotiator waits in vain, and, if   *)
(* UPDATE and INVITE do not mix, that both ends agree when all is quiet.   *)
(***************************************************************************)
EXTENDS OfferAnswer, FiniteSetTheorems, TLAPS

(* SDPs with a body among the first B, and what stands for none. *)
Offers(B) == [ver : Nat, body : 1 .. B]
Descs(B) == Offers(B) \cup {NoSdp}

(* Negotiators between two handlers.  Ours are among the first C bodies,    *)
(* those of the peer among the first B.                                     *)
Negs(B, C) ==
  {n \in [state : States, local : Descs(C), remote : Descs(B), remoteAnswered : {FALSE},
          activeLocal : Offers(C), activeRemote : Descs(B)] :
     n.state \in {"localOffer", "waitNego"} => n.local # NoSdp}

(* What r uses is what n uses; only the version may have gone up. *)
Keeps(n, r) == r.activeLocal.body = n.activeLocal.body /\ r.activeRemote = n.activeRemote

-----------------------------------------------------------------------------
(* The negotiator. *)

LEMMA SdpFacts ==
  ASSUME NEW B \in Nat
  PROVE  /\ \A s \in Offers(B) : s # NoSdp /\ s.ver \in Nat /\ s.body \in 1 .. B
         /\ \A v \in Nat, b \in 1 .. B : Sdp(v, b) \in Offers(B) /\ Sdp(v, b).body = b
         /\ NoSdp \in Descs(B) /\ Offers(B) \subseteq Descs(B)
         /\ \A s \in Descs(B) : s # NoSdp => s \in Offers(B)
         /\ NoSdp.body = 0
BY DEF Offers, Descs, NoSdp, Sdp

LEMMA DescsGrow ==
  ASSUME NEW B \in Nat, NEW C \in Nat, B <= C
  PROVE  Descs(B) \subseteq Descs(C) /\ Offers(B) \subseteq Offers(C)
BY DEF Offers, Descs

LEMMA NegFields ==
  ASSUME NEW B \in Nat, NEW C \in Nat, NEW n \in Negs(B, C)
  PROVE  /\ n.state \in States /\ n.local \in Descs(C) /\ n.remote \in Descs(B)
         /\ n.remoteAnswered = FALSE /\ n.activeLocal \in Offers(C) /\ n.activeRemote \in Descs(B)
         /\ n.activeLocal.ver \in Nat /\ n.activeLocal.body \in 1 .. C
         /\ n.state \in {"localOffer", "waitNego"} => n.local \in Offers(C)
BY DEF Negs, Descs, Offers

(* One more body is a body. *)
LEMMA OneMore ==
  ASSUME NEW B \in Nat
  PROVE  /\ B + 1 \in Nat /\ B <= B + 1 /\ B <= B /\ B + 1 <= B + 1 /\ B + 1 \in 1 .. B + 1
         /\ Descs(B) \subseteq Descs(B + 1) /\ Offers(B) \subseteq Offers(B + 1)
         /\ \A n \in Negs(B, B) : n \in Negs(B, B + 1)
         /\ \A n \in Negs(B, B + 1) : n \in Negs(B + 1, B + 1)
         /\ \A v \in Nat : /\ Sdp(v, B + 1) \in Offers(B + 1) /\ Sdp(v, B + 1).body = B + 1
                          /\ v + 1 \in Nat
<1>1. B + 1 \in Nat /\ B <= B + 1 /\ B <= B /\ B + 1 <= B + 1 /\ B + 1 \in 1 .. B + 1
  OBVIOUS
<1>2. Descs(B) \subseteq Descs(B + 1) /\ Offers(B) \subseteq Offers(B + 1)
  BY <1>1, DescsGrow
<1>3. /\ \A n \in Negs(B, B) : n \in Negs(B, B + 1)
      /\ \A n \in Negs(B, B + 1) : n \in Negs(B + 1, B + 1)
  BY <1>2 DEF Negs
<1>4. \A v \in Nat : Sdp(v, B + 1) \in Offers(B + 1) /\ Sdp(v, B + 1).body = B + 1
  BY <1>1, SdpFacts
<1>5. \A v \in Nat : v + 1 \in Nat
  OBVIOUS
<1> QED
  BY <1>1, <1>2, <1>3, <1>4, <1>5

LEMMA NegsGrow ==
  ASSUME NEW B \in Nat, NEW C \in Nat, NEW D \in Nat, NEW E \in Nat, B <= D, C <= E,
         NEW n \in Negs(B, C)
  PROVE  n \in Negs(D, E)
BY DescsGrow DEF Negs

(* The number of a body that was made and dropped is used again. *)
LEMMA NextBodyFits ==
  ASSUME NEW n \in Negs(bodies, bodies + 1), bodies \in Nat
  PROVE  LET next == NextBody(n, bodies + 1) IN
         /\ next \in Nat /\ bodies <= next
         /\ n \in Negs(next, next)
<1>1. CASE bodies + 1 \in {n.local.body, n.activeLocal.body}
  <2>1. n \in Negs(bodies + 1, bodies + 1) /\ bodies + 1 \in Nat /\ bodies <= bodies + 1
    BY OneMore
  <2> QED BY <1>1, <2>1 DEF NextBody
<1>2. CASE bodies + 1 \notin {n.local.body, n.activeLocal.body}
  <2>1. n.local \in Descs(bodies) /\ n.activeLocal \in Offers(bodies)
    <3>1. ASSUME NEW s \in Offers(bodies + 1), s.body # bodies + 1 PROVE s \in Offers(bodies)
      BY <3>1 DEF Offers
    <3>2. n.activeLocal \in Offers(bodies + 1) /\ n.local \in Descs(bodies + 1)
      BY OneMore DEF Negs
    <3> QED BY <1>2, <3>1, <3>2 DEF Descs
  <2>2. n \in Negs(bodies, bodies)
    BY <2>1 DEF Negs
  <2> QED BY <1>2, <2>2 DEF NextBody
<1> QED BY <1>1, <1>2

LEMMA ModifyFacts ==
  ASSUME NEW B \in Nat, NEW n \in Negs(B, B)
  PROVE  LET r == ModifyLocalOffer(n, B + 1) IN
         /\ r \in Negs(B, B + 1) /\ r.state = "localOffer" /\ r.local \in Offers(B + 1)
         /\ r.local.body = B + 1 /\ Keeps(n, r)
<1> DEFINE s == Sdp(n.activeLocal.ver + 1, B + 1)
<1>1. n.activeLocal.ver \in Nat
  BY NegFields
<1>2. s \in Offers(B + 1) /\ s.body = B + 1
  BY <1>1, OneMore
<1>3. n \in Negs(B, B + 1)
  BY OneMore
<1>4. ModifyLocalOffer(n, B + 1) = [n EXCEPT !.state = "localOffer", !.local = s]
  BY DEF ModifyLocalOffer
<1>5. B + 1 \in Nat
  OBVIOUS
<1> HIDE DEF s
<1>6. s \in Descs(B + 1) /\ s # NoSdp
  BY <1>2, <1>5, SdpFacts
<1>7. [n EXCEPT !.state = "localOffer", !.local = s] \in Negs(B, B + 1)
  BY <1>3, <1>6 DEF Negs, States
<1> QED
  BY <1>2, <1>3, <1>4, <1>7 DEF Negs, Keeps

LEMMA SendLocalFacts ==
  ASSUME NEW B \in Nat, NEW n \in Negs(B, B), n.state = "done"
  PROVE  LET r == SendLocalOffer(n) IN
         /\ r \in Negs(B, B) /\ r.state = "localOffer" /\ r.local = n.activeLocal
         /\ r.local \in Offers(B) /\ Keeps(n, r)
<1>1. SendLocalOffer(n) \in Negs(B, B)
  BY SdpFacts DEF SendLocalOffer, Negs, States
<1> QED
  BY <1>1 DEF SendLocalOffer, Negs, Keeps

LEMMA CancelFacts ==
  ASSUME NEW B \in Nat, NEW C \in Nat, NEW n \in Negs(B, C)
  PROVE  LET r == CancelOffer(n) IN
         r \in Negs(B, C) /\ r.state = "done" /\ Keeps(n, r)
<1> DEFINE a == [n.activeLocal EXCEPT !.ver = @ + 1]
<1>1. a \in Offers(C) /\ a.body = n.activeLocal.body
  <2>1. n.activeLocal \in Offers(C) /\ n.activeLocal.ver + 1 \in Nat
    BY NegFields, OneMore
  <2> QED BY <2>1 DEF Offers
<1>2. CASE n.state = "localOffer"
  <2>1. CancelOffer(n) = Cleared([n EXCEPT !.activeLocal = a])
    BY <1>2 DEF CancelOffer
  <2> HIDE DEF a
  <2>2. Cleared([n EXCEPT !.activeLocal = a]) \in Negs(B, C)
    BY <1>1 DEF Cleared, Negs, States, Descs
  <2> QED BY <1>1, <2>1, <2>2 DEF Cleared, Negs, Keeps
<1>3. CASE n.state # "localOffer"
  <2>1. Cleared(n) \in Negs(B, C)
    BY DEF Cleared, Negs, States, Descs
  <2> QED BY <1>3, <2>1 DEF CancelOffer, Cleared, Negs, Keeps
<1> QED BY <1>2, <1>3

LEMMA CancelIfOfferedFacts ==
  ASSUME NEW B \in Nat, NEW C \in Nat, NEW n \in Negs(B, C)
  PROVE  LET r == CancelIfOffered(n) IN
         /\ r \in Negs(B, C) /\ Keeps(n, r)
         /\ n.state = "localOffer" => r.state = "done"
         /\ n.state # "localOffer" => r = n
BY CancelFacts DEF CancelIfOffered, Keeps

(* What becomes of a negotiator that is asked: it waits for the             *)
(* application, or has its answer.                                          *)
LEMMA OfferedFacts ==
  ASSUME NEW B \in Nat, NEW n \in Negs(B, B), NEW s \in Descs(B), NEW reply
  PROVE  LET r == OnRxOffer(n, s, reply, B + 1) IN
         /\ r \in Negs(B, B + 1) /\ Keeps(n, r)
         /\ reply = "none" => r.state = "remoteOffer"
         /\ reply # "none" => r.state = "waitNego" /\ r.local = Sdp(0, B + 1) /\ r.remote = s
                              /\ HasLocalAnswer(r)
<1> DEFINE a == Sdp(0, B + 1)
<1>1. n \in Negs(B, B + 1) /\ a \in Offers(B + 1)
  BY OneMore
<1>4. B + 1 \in Nat
  OBVIOUS
<1> HIDE DEF a
<1>5. a \in Descs(B + 1) /\ a # NoSdp
  BY <1>1, <1>4, SdpFacts
<1>2. CASE reply = "none"
  <2>1. SetRemoteOffer(n, s) \in Negs(B, B + 1)
    BY <1>1 DEF SetRemoteOffer, Negs, States
  <2> QED BY <1>2, <2>1 DEF OnRxOffer, SetRemoteOffer, Negs, Keeps
<1>3. CASE reply # "none"
  <2> DEFINE r == [[n EXCEPT !.state = "remoteOffer", !.remote = s]
                      EXCEPT !.state = "waitNego", !.local = a]
  <2>1. OnRxOffer(n, s, reply, B + 1) = r
    BY <1>3 DEF OnRxOffer, SetRemoteOffer, SetLocalAnswer, a
  <2>2. r \in Negs(B, B + 1)
    BY <1>1, <1>5 DEF Negs, States
  <2> QED
    BY <1>1, <1>3, <2>1, <2>2 DEF HasLocalAnswer, Negs, Keeps, a
<1> QED BY <1>2, <1>3

(* The negotiation of an offer that was answered here. *)
LEMMA AgreedFacts ==
  ASSUME NEW B \in Nat, NEW n \in Negs(B, B + 1), n.state = "waitNego"
  PROVE  /\ LET r == Negotiate(n, TRUE) IN
              /\ r \in Negs(B, B + 1) /\ r.state = "done"
              /\ r.activeRemote = n.remote /\ r.activeLocal \in Offers(B + 1)
              /\ r.activeLocal.body = n.local.body
         /\ LET r == Negotiate(n, FALSE) IN
              r \in Negs(B, B + 1) /\ r.state = "done" /\ Keeps(n, r)
<1> DEFINE a == Sdp(n.activeLocal.ver + 1, n.local.body)
<1>1. a \in Offers(B + 1) /\ a.body = n.local.body
  <2>1. n.activeLocal.ver \in Nat /\ n.local \in Offers(B + 1)
    BY NegFields, OneMore
  <2>2. n.activeLocal.ver + 1 \in Nat /\ n.local.body \in 1 .. B + 1
    BY <2>1, OneMore DEF Offers
  <2>3. B + 1 \in Nat
    OBVIOUS
  <2> QED BY <2>2, <2>3, SdpFacts
<1>2. Negotiate(n, TRUE) = Cleared([n EXCEPT !.activeRemote = n.remote, !.activeLocal = a])
  BY DEF Negotiate, Negs
<1> HIDE DEF a
<1>3. Cleared([n EXCEPT !.activeRemote = n.remote, !.activeLocal = a]) \in Negs(B, B + 1)
  BY <1>1 DEF Cleared, Negs, States, Descs
<1>4. Negotiate(n, FALSE) = Cleared(n) /\ Cleared(n) \in Negs(B, B + 1)
  BY DEF Negotiate, Cleared, Negs, States, Descs
<1> QED
  BY <1>1, <1>2, <1>3, <1>4 DEF Cleared, Negs, Keeps

(* A request with an offer, by what the application and the codecs say. *)
LEMMA TakenFacts ==
  ASSUME NEW B \in Nat, NEW n \in Negs(B, B), NEW s \in Descs(B), NEW reply
  PROVE  LET offered == OnRxOffer(n, s, reply, B + 1)
             agreed == Negotiate(offered, reply = "answer")
             canceled == CancelOffer(offered)
         IN /\ canceled \in Negs(B, B + 1) /\ canceled.state = "done" /\ Keeps(n, canceled)
            /\ reply # "none" => agreed \in Negs(B, B + 1) /\ agreed.state = "done"
            /\ reply = "answer" => agreed.activeRemote = s /\ agreed.activeLocal \in Offers(B + 1)
            /\ reply \notin {"none", "answer"} => Keeps(n, agreed)
<1> DEFINE offered == OnRxOffer(n, s, reply, B + 1)
<1>1. /\ offered \in Negs(B, B + 1) /\ Keeps(n, offered)
      /\ reply # "none" => offered.state = "waitNego" /\ offered.remote = s
  BY OfferedFacts
<1>2. B + 1 \in Nat
  OBVIOUS
<1> HIDE DEF offered
<1>3. LET r == CancelOffer(offered) IN r \in Negs(B, B + 1) /\ r.state = "done" /\ Keeps(offered, r)
  BY <1>1, <1>2, CancelFacts
<1>4. ASSUME reply = "answer"
      PROVE  LET r == Negotiate(offered, reply = "answer") IN
             /\ r \in Negs(B, B + 1) /\ r.state = "done"
             /\ r.activeRemote = s /\ r.activeLocal \in Offers(B + 1)
  BY <1>1, <1>4, AgreedFacts
<1>5. ASSUME reply \notin {"none", "answer"}
      PROVE  LET r == Negotiate(offered, reply = "answer") IN
             r \in Negs(B, B + 1) /\ r.state = "done" /\ Keeps(offered, r)
  <2>1. (reply = "answer") = FALSE
    BY <1>5
  <2> QED BY <1>1, <1>5, <2>1, AgreedFacts
<1> QED
  BY <1>1, <1>3, <1>4, <1>5 DEF Keeps, offered

(* The answer of the peer to our offer. *)
LEMMA AnsweredFacts ==
  ASSUME NEW B \in Nat, NEW n \in Negs(B, B), NEW s \in Descs(B), n.state = "localOffer"
  PROVE  LET r == Negotiate(SetRemoteAnswer(n, s), TRUE) IN
         /\ r \in Negs(B, B) /\ r.state = "done"
         /\ r.activeRemote = s /\ r.activeLocal = n.local
<1>1. n.local \in Offers(B)
  BY NegFields
<1>2. Negotiate(SetRemoteAnswer(n, s), TRUE) \in Negs(B, B)
  BY <1>1 DEF Negotiate, SetRemoteAnswer, Cleared, Negs, States, Descs
<1> QED
  BY <1>2 DEF Negotiate, SetRemoteAnswer, Cleared, Negs

(* What an incoming SDP does, by the state it meets. *)
LEMMA CheckFacts ==
  ASSUME NEW B \in Nat, NEW n \in Negs(B, B), NEW s \in Descs(B), NEW reply
  PROVE  LET r == CheckSdp(n, s, reply, B + 1) IN
         /\ r \in Negs(B, B + 1)
         /\ s = NoSdp => r = n
         /\ s # NoSdp /\ n.state = "done" => r = OnRxOffer(n, s, reply, B + 1)
         /\ s # NoSdp /\ n.state = "localOffer" =>
              r.state = "done" /\ r.activeRemote = s /\ r.activeLocal = n.local
         /\ n.state \notin {"done", "localOffer"} => r = n
         /\ n.state = "localOffer" => r \in Negs(B, B)
<1>1. n \in Negs(B, B + 1)
  BY OneMore
<1>2. CASE s # NoSdp /\ n.state = "done"
  BY <1>2, OfferedFacts DEF CheckSdp
<1>3. CASE s # NoSdp /\ n.state = "localOffer"
  <2>1. CheckSdp(n, s, reply, B + 1) = Negotiate(SetRemoteAnswer(n, s), TRUE)
    BY <1>3 DEF CheckSdp
  <2>2. Negotiate(SetRemoteAnswer(n, s), TRUE) \in Negs(B, B)
    BY <1>3, AnsweredFacts
  <2>3. Negotiate(SetRemoteAnswer(n, s), TRUE) \in Negs(B, B + 1)
    BY <2>2, OneMore
  <2>4. LET r == Negotiate(SetRemoteAnswer(n, s), TRUE) IN
        r.state = "done" /\ r.activeRemote = s /\ r.activeLocal = n.local
    BY <1>3, AnsweredFacts
  <2> QED BY <1>3, <2>1, <2>2, <2>3, <2>4
<1>4. CASE s = NoSdp \/ n.state \notin {"done", "localOffer"}
  BY <1>1, <1>4 DEF CheckSdp
<1> QED BY <1>2, <1>3, <1>4

-----------------------------------------------------------------------------
(* The two parties. *)

First == NoInvite.id.from

LEMMA PartyFacts ==
  /\ First \in Parties
  /\ \A p \in Parties : Peer(p) \in Parties /\ Peer(p) # p
  /\ \A p, q \in Parties : q # p => q = Peer(p)
<1>1. PICK a \in Parties : TRUE
  BY PartiesAssumption, FS_EmptySet
<1>2. IsFiniteSet(Parties \ {a}) /\ Cardinality(Parties \ {a}) = 1
  BY <1>1, PartiesAssumption, FS_RemoveElement
<1>3. PICK b : Parties \ {a} = {b}
  BY <1>2, FS_Singleton
<1>4. Parties = {a, b} /\ a # b
  BY <1>1, <1>3
<1>5. First \in Parties
  BY <1>1 DEF First, NoInvite
<1>6. \A p \in Parties : \E q \in Parties : q # p
  BY <1>4
<1>7. \A p \in Parties : Peer(p) \in Parties /\ Peer(p) # p
  BY <1>6 DEF Peer
<1> QED
  BY <1>4, <1>5, <1>7

LEMMA BothParties ==
  \A p \in Parties : Peer(Peer(p)) = p /\ (p = First \/ p = Peer(First))
BY PartyFacts

-----------------------------------------------------------------------------
(* What holds of every call. *)

Kinds == {"INVITE", "UPDATE"}
Ids == [from : Parties, cseq : Nat]
Clients(B) == [type : Kinds, id : Ids, sdp : Descs(B)]
Messages(B) == [type : Kinds \cup {"response", "ACK"}, id : Ids, code : Nat, sdp : Descs(B)]

Types ==
  /\ may \in Calls /\ bodies \in Nat
  /\ neg \in [Parties -> Negs(bodies, bodies)]
  /\ invite \in [Parties -> [id : Ids, code : Nat, done : BOOLEAN]]
  /\ client \subseteq Clients(bodies) /\ net \subseteq Messages(bodies)
  /\ prepared \in [Parties -> Descs(bodies)]
  /\ cseq \in [Parties -> Nat] /\ remoteCSeq \in [Parties -> Nat]
  /\ cseq[First] + cseq[Peer(First)] <= MaxSent
  /\ sent \subseteq [by : Parties, sdp : Offers(bodies)]

(* A transaction has one message on its way: the request, then its          *)
(* response, then, when its sender has heard, perhaps an ACK.               *)
Wired ==
  /\ \A m \in net : m.id.cseq \in 1 .. cseq[m.id.from]
  /\ \A c \in client : c.id.cseq \in 1 .. cseq[c.id.from]
  /\ \A c, d \in client : c.id = d.id => c = d
  /\ \A m, l \in net : m.id = l.id => m = l
  /\ \A m \in net : m.type \in Kinds =>
       \E c \in client : c.id = m.id /\ c.type = m.type /\ c.sdp = m.sdp
  /\ \A m \in net : m.type = "response" => \E c \in client : c.id = m.id
  /\ \A m \in net, c \in client : m.type = "ACK" => c.id # m.id

(* A party works on its own INVITE while that is not answered, or on one of *)
(* its peer that was answered as the messages say.                          *)
OwnInvite(p) == invite[p] # NoInvite /\ invite[p].id.from = p
PeerInvite(p) == invite[p] # NoInvite /\ invite[p].id.from # p

Linked ==
  /\ \A p \in Parties : remoteCSeq[p] <= cseq[Peer(p)]
  /\ \A p \in Parties : invite[p] # NoInvite =>
       invite[p].id.cseq \in 1 .. cseq[invite[p].id.from]
  /\ \A c \in client : c.type = "INVITE" => invite[c.id.from].id = c.id
  /\ \A p \in Parties : OwnInvite(p) =>
       invite[p].code = 0 /\ \E c \in client : c.id = invite[p].id /\ c.type = "INVITE"
  /\ \A p \in Parties : PeerInvite(p) =>
       /\ invite[p].code # 0
       /\ \A m \in net : m.id = invite[p].id => m.type \notin Kinds /\ m.code = invite[p].code

Basic == Types /\ Wired /\ Linked

LEMMA NoInviteFacts ==
  /\ NoInvite \in [id : Ids, code : Nat, done : BOOLEAN]
  /\ NoInvite.id.cseq = 0 /\ NoInvite.code = 0 /\ NoInvite.done = FALSE
<1>1. NoInvite.id = [from |-> First, cseq |-> 0]
  BY DEF NoInvite, First
<1> QED
  BY <1>1, PartyFacts DEF NoInvite, Ids, First

(* The types of a message, a client and an INVITE. *)
LEMMA FieldFacts ==
  ASSUME Types
  PROVE  /\ \A m \in net : /\ m.type \in Kinds \cup {"response", "ACK"} /\ m.id \in Ids
                           /\ m.code \in Nat /\ m.sdp \in Descs(bodies)
                           /\ m.id.from \in Parties /\ m.id.cseq \in Nat
         /\ \A c \in client : /\ c.type \in Kinds /\ c.id \in Ids /\ c.sdp \in Descs(bodies)
                              /\ c.id.from \in Parties /\ c.id.cseq \in Nat
         /\ \A p \in Parties : /\ invite[p].id \in Ids /\ invite[p].id.from \in Parties
                               /\ invite[p].id.cseq \in Nat /\ invite[p].code \in Nat
                               /\ cseq[p] \in Nat /\ remoteCSeq[p] \in Nat
                               /\ neg[p] \in Negs(bodies, bodies) /\ prepared[p] \in Descs(bodies)
BY DEF Types, Messages, Clients, Ids

(* A client and the INVITE of its party. *)
LEMMA ClientFacts ==
  ASSUME Basic, NEW c \in client
  PROVE  /\ c.id.cseq # 0 /\ c.id.from \in Parties
         /\ c.type = "INVITE" => OwnInvite(c.id.from) /\ invite[c.id.from].id = c.id
         /\ c.type = "UPDATE" => invite[c.id.from].id # c.id
         /\ \A d \in client : d.type = "INVITE" /\ c.type = "INVITE" /\ d.id.from = c.id.from => d = c
<1>1. c.id.cseq # 0 /\ c.id.from \in Parties /\ c.id.cseq \in 1 .. cseq[c.id.from]
  BY FieldFacts DEF Basic, Wired
<1>2. ASSUME c.type = "INVITE" PROVE OwnInvite(c.id.from) /\ invite[c.id.from].id = c.id
  BY <1>1, <1>2, NoInviteFacts DEF Basic, Linked, OwnInvite
<1>3. ASSUME c.type = "UPDATE", invite[c.id.from].id = c.id PROVE FALSE
  <2>1. OwnInvite(c.id.from)
    BY <1>1, <1>3, NoInviteFacts DEF OwnInvite
  <2>2. PICK d \in client : d.id = c.id /\ d.type = "INVITE"
    BY <1>1, <1>3, <2>1 DEF Basic, Linked
  <2> QED BY <1>3, <2>2 DEF Basic, Wired
<1>4. ASSUME NEW d \in client, d.type = "INVITE", c.type = "INVITE", d.id.from = c.id.from
      PROVE  d = c
  BY <1>4 DEF Basic, Linked, Wired
<1> QED BY <1>1, <1>2, <1>3, <1>4

-----------------------------------------------------------------------------
(* What the four kinds of handler do to messages and transactions. *)

(* More bodies: what was well-typed stays so. *)
LEMMA Grown ==
  ASSUME Types, NEW B \in Nat, bodies <= B
  PROVE  /\ Descs(bodies) \subseteq Descs(B) /\ Offers(bodies) \subseteq Offers(B)
         /\ client \subseteq Clients(B) /\ net \subseteq Messages(B)
         /\ prepared \in [Parties -> Descs(B)] /\ sent \subseteq [by : Parties, sdp : Offers(B)]
         /\ \A p \in Parties : neg[p] \in Negs(B, B)
<1>1. bodies \in Nat
  BY DEF Types
<1>2. Descs(bodies) \subseteq Descs(B) /\ Offers(bodies) \subseteq Offers(B)
  BY <1>1, DescsGrow
<1>3. \A p \in Parties : neg[p] \in Negs(B, B)
  BY <1>1, NegsGrow DEF Types
<1>4. client \subseteq Clients(B) /\ net \subseteq Messages(B)
  BY <1>2 DEF Types, Clients, Messages
<1> QED
  BY <1>2, <1>3, <1>4 DEF Types

(* A handler that leaves the negotiator n, with a new body or without. *)
LEMMA NegStep ==
  ASSUME Types, NEW p \in Parties, NEW n \in Negs(bodies, bodies + 1),
         neg' = [neg EXCEPT ![p] = n], bodies' = NextBody(n, bodies + 1)
  PROVE  /\ bodies' \in Nat /\ bodies <= bodies' /\ n \in Negs(bodies', bodies')
         /\ neg' \in [Parties -> Negs(bodies', bodies')]
<1>1. bodies \in Nat
  BY DEF Types
<1>2. bodies' \in Nat /\ bodies <= bodies' /\ n \in Negs(bodies', bodies')
  BY <1>1, NextBodyFits
<1>3. \A q \in Parties : neg[q] \in Negs(bodies', bodies')
  BY <1>2, Grown
<1> QED
  BY <1>2, <1>3 DEF Types

(* A request is sent, perhaps in place of one that was challenged. *)
LEMMA SendStep ==
  ASSUME Basic, NEW p \in Parties, NEW type \in Kinds, NEW s,
         NEW X \in SUBSET client, NEW Y \in SUBSET net,
         SendRequest(p, type, s, X, Y), remoteCSeq' = remoteCSeq,
         \A c \in client : c \notin X =>
           c.type = type /\ c.id.from = p /\ \A m \in Y : m.id # c.id,
         type = "INVITE" => \A c \in X : c.type = "INVITE" => c.id.from # p
  PROVE  Wired' /\ Linked'
<1> DEFINE id == Id(p, cseq[p] + 1)
           new == [type |-> type, id |-> id, sdp |-> s]
           req == Request(type, id, s)
<1>1. /\ id \in Ids /\ id.from = p /\ id.cseq = cseq[p] + 1 /\ cseq[p] \in Nat
      /\ id.cseq \in Nat \ {0}
  BY FieldFacts DEF Basic, Id, Ids
<1>2. new.type = type /\ new.id = id /\ new.sdp = s
  OBVIOUS
<1>3. req.type = type /\ req.id = id /\ req.sdp = s
  BY DEF Request
<1>4. /\ cseq' = [cseq EXCEPT ![p] = @ + 1] /\ client' = X \cup {new} /\ net' = Y \cup {req}
      /\ invite' = IF type = "INVITE" THEN [invite EXCEPT ![p] = [NoInvite EXCEPT !.id = id]] ELSE invite
  BY DEF SendRequest
<1>5. cseq'[p] = id.cseq /\ \A q \in Parties : q # p => cseq'[q] = cseq[q]
  BY <1>1, <1>4 DEF Basic, Types
<1>6. \A q \in Parties : cseq[q] \in Nat /\ cseq'[q] \in Nat /\ cseq[q] <= cseq'[q]
  BY <1>1, <1>5, FieldFacts DEF Basic
<1>7. /\ \A c \in client : c.id # id /\ c.id.from \in Parties /\ c.id.cseq \in Nat
      /\ \A m \in net : m.id # id /\ m.id.from \in Parties /\ m.id.cseq \in Nat
  BY <1>1, FieldFacts DEF Basic, Wired
<1> HIDE DEF id, new, req
<1>8. Wired'
  <2>1. ASSUME NEW m \in net' PROVE m.id.cseq \in 1 .. cseq'[m.id.from]
    <3>1. CASE m = req
      BY <1>1, <1>3, <1>5, <3>1
    <3>2. CASE m \in net
      <4>1. m.id.cseq \in 1 .. cseq[m.id.from]
        BY <3>2 DEF Basic, Wired
      <4> QED BY <4>1, <1>6, <1>7, <3>2
    <3> QED BY <1>4, <3>1, <3>2
  <2>2. ASSUME NEW c \in client' PROVE c.id.cseq \in 1 .. cseq'[c.id.from]
    <3>1. CASE c = new
      BY <1>1, <1>2, <1>5, <3>1
    <3>2. CASE c \in client
      <4>1. c.id.cseq \in 1 .. cseq[c.id.from]
        BY <3>2 DEF Basic, Wired
      <4> QED BY <4>1, <1>6, <1>7, <3>2
    <3> QED BY <1>4, <3>1, <3>2
  <2>3. \A c, d \in client' : c.id = d.id => c = d
    BY <1>2, <1>4, <1>7 DEF Basic, Wired
  <2>4. \A m, l \in net' : m.id = l.id => m = l
    BY <1>3, <1>4, <1>7 DEF Basic, Wired
  <2>5. ASSUME NEW m \in net', m.type \in Kinds
        PROVE  \E c \in client' : c.id = m.id /\ c.type = m.type /\ c.sdp = m.sdp
    <3>1. CASE m = req
      BY <1>2, <1>3, <1>4, <3>1
    <3>2. CASE m \in Y
      <4>1. PICK c \in client : c.id = m.id /\ c.type = m.type /\ c.sdp = m.sdp
        BY <2>5, <3>2 DEF Basic, Wired
      <4>2. c \in X
        BY <4>1, <3>2
      <4> QED BY <4>1, <4>2, <1>4
    <3> QED BY <1>4, <3>1, <3>2
  <2>6. ASSUME NEW m \in net', m.type = "response" PROVE \E c \in client' : c.id = m.id
    <3>1. m \in Y
      BY <1>3, <1>4, <2>6 DEF Kinds
    <3>2. PICK c \in client : c.id = m.id
      BY <2>6, <3>1 DEF Basic, Wired
    <3> QED BY <3>1, <3>2, <1>4
  <2>7. ASSUME NEW m \in net', NEW c \in client', m.type = "ACK" PROVE c.id # m.id
    <3>1. m \in Y
      BY <1>3, <1>4, <2>7 DEF Kinds
    <3> QED BY <1>2, <1>4, <1>7, <2>7, <3>1 DEF Basic, Wired
  <2> QED BY <2>1, <2>2, <2>3, <2>4, <2>5, <2>6, <2>7 DEF Wired
<1>9. Linked'
  <2>1. \A q \in Parties : remoteCSeq'[q] <= cseq'[Peer(q)]
    <3> SUFFICES ASSUME NEW q \in Parties PROVE remoteCSeq[q] <= cseq'[Peer(q)]
      OBVIOUS
    <3>1. remoteCSeq[q] <= cseq[Peer(q)] /\ Peer(q) \in Parties /\ remoteCSeq[q] \in Nat
      BY PartyFacts, FieldFacts DEF Basic, Linked
    <3> QED BY <3>1, <1>6
  <2>2. CASE type = "INVITE"
    <3> DEFINE own == [NoInvite EXCEPT !.id = id]
    <3>1. own.id = id /\ own.code = 0 /\ own # NoInvite
      BY <1>1, NoInviteFacts
    <3> HIDE DEF own
    <3>2. invite'[p] = own /\ \A q \in Parties : q # p => invite'[q] = invite[q]
      BY <1>4, <2>2 DEF Basic, Types, own
    <3>3. ASSUME NEW q \in Parties, invite'[q] # NoInvite
          PROVE  invite'[q].id.cseq \in 1 .. cseq'[invite'[q].id.from]
      <4>1. CASE q = p
        BY <1>1, <1>5, <3>1, <3>2, <4>1
      <4>2. CASE q # p
        <5>1. /\ invite[q].id.cseq \in 1 .. cseq[invite[q].id.from]
              /\ invite[q].id.from \in Parties /\ invite[q].id.cseq \in Nat
          BY <3>2, <3>3, <4>2, FieldFacts DEF Basic, Linked
        <5> QED BY <5>1, <1>6, <3>2, <4>2
      <4> QED BY <4>1, <4>2
    <3>4. ASSUME NEW c \in client', c.type = "INVITE" PROVE invite'[c.id.from].id = c.id
      <4>1. CASE c = new
        BY <1>1, <1>2, <3>1, <3>2, <4>1
      <4>2. CASE c \in X
        BY <1>7, <2>2, <3>2, <3>4, <4>2 DEF Basic, Linked
      <4> QED BY <1>4, <4>1, <4>2
    <3>5. ASSUME NEW q \in Parties, OwnInvite(q)'
          PROVE  invite'[q].code = 0 /\ \E c \in client' : c.id = invite'[q].id /\ c.type = "INVITE"
      <4>1. CASE q = p
        BY <1>2, <1>4, <2>2, <3>1, <3>2, <4>1
      <4>2. CASE q # p
        <5>1. OwnInvite(q)
          BY <3>2, <3>5, <4>2 DEF OwnInvite
        <5>2. PICK c \in client : c.id = invite[q].id /\ c.type = "INVITE"
          BY <5>1 DEF Basic, Linked
        <5>3. c \in X
          BY <5>1, <5>2, <4>2 DEF OwnInvite
        <5> QED BY <1>4, <3>2, <4>2, <5>1, <5>2, <5>3 DEF Basic, Linked
      <4> QED BY <4>1, <4>2
    <3>6. ASSUME NEW q \in Parties, PeerInvite(q)'
          PROVE  /\ invite'[q].code # 0
                 /\ \A m \in net' : m.id = invite'[q].id => m.type \notin Kinds /\ m.code = invite'[q].code
      <4>1. q # p
        BY <1>1, <3>1, <3>2, <3>6 DEF PeerInvite
      <4>2. PeerInvite(q) /\ invite'[q] = invite[q]
        BY <3>2, <3>6, <4>1 DEF PeerInvite
      <4>3. invite[q].id # id
        <5>1. invite[q].id.cseq \in 1 .. cseq[invite[q].id.from] /\ invite[q].id.from \in Parties
          BY <4>2, FieldFacts DEF Basic, Linked, PeerInvite
        <5> QED BY <5>1, <1>1
      <4>4. ASSUME NEW m \in net', m.id = invite[q].id
            PROVE  m.type \notin Kinds /\ m.code = invite[q].code
        <5>1. m \in net
          BY <1>3, <1>4, <4>3, <4>4
        <5> QED BY <5>1, <4>2, <4>4 DEF Basic, Linked
      <4> QED BY <4>2, <4>4 DEF Basic, Linked
    <3> QED BY <2>1, <3>3, <3>4, <3>5, <3>6 DEF Linked
  <2>3. CASE type = "UPDATE"
    <3>1. invite' = invite
      BY <1>4, <2>3
    <3>2. ASSUME NEW q \in Parties, invite[q] # NoInvite
          PROVE  invite[q].id.cseq \in 1 .. cseq'[invite[q].id.from] /\ invite[q].id # id
      <4>1. /\ invite[q].id.cseq \in 1 .. cseq[invite[q].id.from]
            /\ invite[q].id.from \in Parties /\ invite[q].id.cseq \in Nat
        BY <3>2, FieldFacts DEF Basic, Linked
      <4> QED BY <4>1, <1>1, <1>6
    <3>3. ASSUME NEW c \in client', c.type = "INVITE" PROVE invite[c.id.from].id = c.id
      BY <1>2, <1>4, <2>3, <3>3 DEF Basic, Linked
    <3>4. ASSUME NEW q \in Parties, OwnInvite(q)
          PROVE  invite[q].code = 0 /\ \E c \in client' : c.id = invite[q].id /\ c.type = "INVITE"
      <4>1. PICK c \in client : c.id = invite[q].id /\ c.type = "INVITE"
        BY <3>4 DEF Basic, Linked
      <4>2. c \in X
        BY <4>1, <2>3
      <4> QED BY <1>4, <3>4, <4>1, <4>2 DEF Basic, Linked
    <3>5. ASSUME NEW q \in Parties, PeerInvite(q)
          PROVE  /\ invite[q].code # 0
                 /\ \A m \in net' : m.id = invite[q].id => m.type \notin Kinds /\ m.code = invite[q].code
      <4>1. invite[q].id # id
        BY <3>2, <3>5 DEF PeerInvite
      <4> QED BY <1>3, <1>4, <3>5, <4>1 DEF Basic, Linked
    <3> QED BY <2>1, <3>1, <3>2, <3>3, <3>4, <3>5 DEF Linked, OwnInvite, PeerInvite
  <2> QED BY <2>2, <2>3 DEF Kinds
<1> QED BY <1>8, <1>9

(* A request is answered, and the party may begin to work on it. *)
LEMMA ReplyStep ==
  ASSUME Basic, NEW m \in net, m.type \in Kinds, NEW r, r.type = "response", r.id = m.id,
         net' = (net \ {m}) \cup {r}, client' = client, cseq' = cseq,
         \A q \in Parties : remoteCSeq'[q] <= cseq[Peer(q)],
         \/ invite' = invite
         \/ \E p \in Parties : \E new :
              /\ p # m.id.from /\ invite[p] = NoInvite /\ invite' = [invite EXCEPT ![p] = new]
              /\ new.id = m.id /\ new.code = r.code /\ r.code # 0
  PROVE  Wired' /\ Linked'
<1>1. PICK c \in client : c.id = m.id /\ c.type = m.type
  BY DEF Basic, Wired
<1>2. \A l \in net : l # m => l.id # m.id
  BY DEF Basic, Wired
<1>3. Wired'
  <2>1. \A l \in net' : l.id.cseq \in 1 .. cseq'[l.id.from]
    BY DEF Basic, Wired
  <2>2. \A c1 \in client' : c1.id.cseq \in 1 .. cseq'[c1.id.from]
    BY DEF Basic, Wired
  <2>3. /\ \A c1, d \in client' : c1.id = d.id => c1 = d
        /\ \A l, k \in net' : l.id = k.id => l = k
    BY <1>2 DEF Basic, Wired
  <2>4. \A l \in net' : l.type \in Kinds =>
          \E d \in client' : d.id = l.id /\ d.type = l.type /\ d.sdp = l.sdp
    BY DEF Basic, Wired, Kinds
  <2>5. \A l \in net' : l.type = "response" => \E d \in client' : d.id = l.id
    BY <1>1 DEF Basic, Wired
  <2>6. \A l \in net', d \in client' : l.type = "ACK" => d.id # l.id
    BY DEF Basic, Wired
  <2> QED BY <2>1, <2>2, <2>3, <2>4, <2>5, <2>6 DEF Wired
<1>4. ASSUME NEW q \in Parties, PeerInvite(q)
      PROVE  /\ invite[q].code # 0 /\ invite[q].id # m.id
             /\ \A l \in net' : l.id = invite[q].id => l.type \notin Kinds /\ l.code = invite[q].code
  BY <1>4 DEF Basic, Linked
<1>5. ASSUME invite' = invite PROVE Linked'
  BY <1>4, <1>5 DEF Basic, Linked, OwnInvite, PeerInvite
<1>6. ASSUME NEW p \in Parties, NEW new,
             p # m.id.from, invite[p] = NoInvite, invite' = [invite EXCEPT ![p] = new],
             new.id = m.id, new.code = r.code, r.code # 0
      PROVE  Linked'
  <2>1. invite'[p] = new /\ \A q \in Parties : q # p => invite'[q] = invite[q]
    BY <1>6 DEF Basic, Types
  <2>2. new # NoInvite /\ new.id.cseq \in 1 .. cseq[new.id.from]
    BY <1>6, NoInviteFacts DEF Basic, Wired
  <2>3. ASSUME NEW q \in Parties, invite'[q] # NoInvite
        PROVE  invite'[q].id.cseq \in 1 .. cseq'[invite'[q].id.from]
    BY <2>1, <2>2, <2>3 DEF Basic, Linked
  <2>4. ASSUME NEW d \in client', d.type = "INVITE" PROVE invite'[d.id.from].id = d.id
    <3>1. invite[d.id.from].id = d.id /\ d.id.from \in Parties /\ d.id.cseq # 0
      BY <2>4, ClientFacts DEF Basic, Linked
    <3> QED BY <3>1, <1>6, <2>1, NoInviteFacts
  <2>5. ASSUME NEW q \in Parties, OwnInvite(q)'
        PROVE  invite'[q].code = 0 /\ \E d \in client' : d.id = invite'[q].id /\ d.type = "INVITE"
    <3>1. q # p
      BY <1>6, <2>1, <2>5 DEF OwnInvite
    <3> QED BY <2>1, <2>5, <3>1 DEF Basic, Linked, OwnInvite
  <2>6. ASSUME NEW q \in Parties, PeerInvite(q)'
        PROVE  /\ invite'[q].code # 0
               /\ \A l \in net' : l.id = invite'[q].id => l.type \notin Kinds /\ l.code = invite'[q].code
    <3>1. CASE q = p
      BY <1>2, <1>6, <2>1, <3>1 DEF Kinds
    <3>2. CASE q # p
      BY <1>4, <2>1, <2>6, <3>2 DEF PeerInvite
    <3> QED BY <3>1, <3>2
  <2> QED BY <2>3, <2>4, <2>5, <2>6 DEF Linked
<1>7. ASSUME invite' # invite PROVE Linked'
  <2>1. PICK p \in Parties : \E new :
          /\ p # m.id.from /\ invite[p] = NoInvite /\ invite' = [invite EXCEPT ![p] = new]
          /\ new.id = m.id /\ new.code = r.code /\ r.code # 0
    BY <1>7
  <2> QED BY <2>1, <1>6
<1> QED BY <1>3, <1>5, <1>7

(* An ACK arrives, or is lost for good. *)
LEMMA AckStep ==
  ASSUME Basic, NEW m \in net, m.type = "ACK", NEW p \in Parties, p # m.id.from,
         net' = net \ {m}, client' = client, cseq' = cseq, Ended(p, m.id),
         \A q \in Parties : remoteCSeq'[q] <= cseq[Peer(q)]
  PROVE  Wired' /\ Linked'
<1>1. Wired'
  BY DEF Basic, Wired
<1>2. \A q \in Parties : invite'[q] = invite[q] \/ (q = p /\ invite'[q] = NoInvite /\ invite[p].id = m.id)
  BY DEF Ended, Basic, Types
<1>3. ASSUME NEW c \in client, c.type = "INVITE" PROVE invite'[c.id.from].id = c.id
  <2>1. invite[c.id.from].id = c.id /\ c.id # m.id /\ c.id.from \in Parties
    BY <1>3, ClientFacts DEF Basic, Linked, Wired
  <2> QED BY <1>2, <2>1
<1>4. \A q \in Parties : invite'[q] # NoInvite => invite'[q] = invite[q]
  BY <1>2
<1> QED
  BY <1>1, <1>3, <1>4 DEF Basic, Linked, OwnInvite, PeerInvite

(* A party hears the end of its request, and may acknowledge it. *)
LEMMA EndStep ==
  ASSUME Basic, NEW c \in client, NEW m \in net, m.id = c.id, NEW p \in Parties, p = c.id.from,
         client' = client \ {c}, cseq' = cseq, remoteCSeq' = remoteCSeq,
         c.type = "INVITE" => invite' = [invite EXCEPT ![p] = NoInvite],
         c.type = "UPDATE" => invite' = invite,
         \/ net' = net \ {m}
         \/ \E a : /\ net' = (net \ {m}) \cup {a}
                   /\ a.type = "ACK" /\ a.id = c.id /\ a.code = m.code
  PROVE  Wired' /\ Linked'
<1>1. /\ \A l \in net : l # m => l.id # c.id
      /\ \A d \in client : d # c => d.id # c.id
      /\ m.id.cseq \in 1 .. cseq[m.id.from]
  BY DEF Basic, Wired
<1>2. \A l \in net' : l \in net \/ (l.type = "ACK" /\ l.id = c.id /\ l.code = m.code)
  OBVIOUS
<1>3. Wired'
  <2>1. \A l \in net' : l.id.cseq \in 1 .. cseq'[l.id.from]
    BY <1>1, <1>2 DEF Basic, Wired
  <2>2. \A d \in client' : d.id.cseq \in 1 .. cseq'[d.id.from]
    BY DEF Basic, Wired
  <2>3. \A d, e \in client' : d.id = e.id => d = e
    BY DEF Basic, Wired
  <2>4. \A l, k \in net' : l.id = k.id => l = k
    <3>1. CASE net' = net \ {m}
      BY <3>1 DEF Basic, Wired
    <3>2. ASSUME NEW a, net' = (net \ {m}) \cup {a}, a.id = c.id 
          PROVE  \A l, k \in net' : l.id = k.id => l = k
      BY <3>2, <1>1 DEF Basic, Wired
    <3> QED BY <3>1, <3>2
  <2>5. ASSUME NEW l \in net', l.type \in Kinds
        PROVE  \E d \in client' : d.id = l.id /\ d.type = l.type /\ d.sdp = l.sdp
    <3>1. l \in net /\ l # m
      BY <1>2, <2>5 DEF Kinds
    <3> QED BY <1>1, <2>5, <3>1 DEF Basic, Wired
  <2>6. ASSUME NEW l \in net', l.type = "response" PROVE \E d \in client' : d.id = l.id
    <3>1. l \in net /\ l # m
      BY <1>2, <2>6
    <3> QED BY <1>1, <2>6, <3>1 DEF Basic, Wired
  <2>7. ASSUME NEW l \in net', NEW d \in client', l.type = "ACK" PROVE d.id # l.id
    BY <1>1, <1>2, <2>7 DEF Basic, Wired
  <2> QED BY <2>1, <2>2, <2>3, <2>4, <2>5, <2>6, <2>7 DEF Wired
<1>4. Linked'
  <2>1. c.type \in Kinds /\ (c.type = "INVITE" => OwnInvite(p) /\ invite[p].id = c.id)
    BY FieldFacts, ClientFacts DEF Basic
  <2>2. /\ \A q \in Parties : q # p => invite'[q] = invite[q]
        /\ invite'[p] # NoInvite => c.type = "UPDATE" /\ invite'[p] = invite[p]
    BY <2>1 DEF Basic, Types, Kinds
  <2>3. ASSUME NEW d \in client', d.type = "INVITE" PROVE invite'[d.id.from].id = d.id
    <3>1. invite[d.id.from].id = d.id /\ d.id.from \in Parties /\ d # c
      BY <2>3, ClientFacts DEF Basic, Linked
    <3>2. CASE c.type = "INVITE"
      BY <2>2, <2>3, <3>1, <3>2, ClientFacts
    <3>3. CASE c.type = "UPDATE"
      BY <3>1, <3>3
    <3> QED BY <2>1, <3>2, <3>3 DEF Kinds
  <2>4. ASSUME NEW q \in Parties, OwnInvite(q)'
        PROVE  invite'[q].code = 0 /\ \E d \in client' : d.id = invite'[q].id /\ d.type = "INVITE"
    <3>1. OwnInvite(q) /\ invite'[q] = invite[q] /\ (q = p => c.type = "UPDATE")
      BY <2>2, <2>4 DEF OwnInvite
    <3>2. PICK d \in client : d.id = invite[q].id /\ d.type = "INVITE"
      BY <3>1 DEF Basic, Linked
    <3>3. d # c
      BY <3>1, <3>2 DEF OwnInvite
    <3> QED BY <3>1, <3>2, <3>3 DEF Basic, Linked
  <2>5. ASSUME NEW q \in Parties, PeerInvite(q)'
        PROVE  /\ invite'[q].code # 0
               /\ \A l \in net' : l.id = invite'[q].id => l.type \notin Kinds /\ l.code = invite'[q].code
    <3>1. PeerInvite(q) /\ invite'[q] = invite[q]
      BY <2>2, <2>5 DEF PeerInvite
    <3> QED BY <1>2, <3>1 DEF Basic, Linked, Kinds
  <2>6. \A q \in Parties : remoteCSeq'[q] <= cseq'[Peer(q)]
    BY DEF Basic, Linked
  <2>7. \A q \in Parties : invite'[q] # NoInvite => invite'[q].id.cseq \in 1 .. cseq'[invite'[q].id.from]
    BY <2>2 DEF Basic, Linked
  <2> QED BY <2>3, <2>4, <2>5, <2>6, <2>7 DEF Linked
<1> QED BY <1>3, <1>4

-----------------------------------------------------------------------------
(* Every step keeps what holds of every call. *)

(* Each handler changes one negotiator, if only to itself. *)
NegChange(p, n) ==
  /\ n \in Negs(bodies, bodies + 1)
  /\ neg' = [neg EXCEPT ![p] = n]
  /\ bodies' = NextBody(n, bodies + 1)

LEMMA NoNewBody ==
  ASSUME Types, NEW p \in Parties, NEW n \in Negs(bodies, bodies),
         neg' = [neg EXCEPT ![p] = n], bodies' = bodies
  PROVE  NegChange(p, n)
<1>1. bodies \in Nat /\ n \in Negs(bodies, bodies + 1)
  BY OneMore DEF Types
<1>2. bodies + 1 \notin {n.local.body, n.activeLocal.body}
  <2>1. n.local \in Descs(bodies) /\ n.activeLocal \in Offers(bodies)
    BY <1>1, NegFields
  <2>2. n.local.body \in 0 .. bodies /\ n.activeLocal.body \in 0 .. bodies
    BY <1>1, <2>1, SdpFacts DEF Descs
  <2> QED BY <1>1, <2>2
<1> QED BY <1>1, <1>2 DEF NegChange, NextBody

LEMMA NegSame ==
  ASSUME Types, NEW p \in Parties, neg' = neg, bodies' = bodies
  PROVE  NegChange(p, neg[p])
<1>1. neg[p] \in Negs(bodies, bodies) /\ neg' = [neg EXCEPT ![p] = neg[p]]
  BY DEF Types
<1> QED BY <1>1, NoNewBody

LEMMA TypesStep ==
  ASSUME Types, NEW p \in Parties, NEW n, NegChange(p, n), may' = may,
         bodies <= bodies' /\ bodies' \in Nat =>
           /\ prepared' \in [Parties -> Descs(bodies')]
           /\ client' \subseteq Clients(bodies') /\ net' \subseteq Messages(bodies')
           /\ sent' \subseteq [by : Parties, sdp : Offers(bodies')],
         invite' \in [Parties -> [id : Ids, code : Nat, done : BOOLEAN]],
         cseq' \in [Parties -> Nat], remoteCSeq' \in [Parties -> Nat],
         cseq'[First] + cseq'[Peer(First)] <= MaxSent
  PROVE  Types'
<1>1. /\ bodies' \in Nat /\ bodies <= bodies'
      /\ neg' \in [Parties -> Negs(bodies', bodies')]
  BY NegStep DEF NegChange
<1> QED
  BY <1>1 DEF Types, First

(* A handler that sends nothing with an SDP of its own. *)
LEMMA SentStep ==
  ASSUME Types, NEW p \in Parties, NEW s, bodies' \in Nat, bodies <= bodies',
         s \in Descs(bodies'), Sending(p, s)
  PROVE  sent' \subseteq [by : Parties, sdp : Offers(bodies')]
<1>1. sent \subseteq [by : Parties, sdp : Offers(bodies')]
  BY Grown
<1>2. s # NoSdp => s \in Offers(bodies')
  BY SdpFacts
<1> QED
  BY <1>1, <1>2 DEF Sending

LEMMA SendTypes ==
  ASSUME Basic, NEW p \in Parties, NEW type \in Kinds, NEW s, NEW n, NegChange(p, n),
         NEW X \in SUBSET client, NEW Y \in SUBSET net, SendRequest(p, type, s, X, Y),
         s \in Descs(bodies'), may' = may, remoteCSeq' = remoteCSeq,
         prepared' \in [Parties -> Descs(bodies')]
  PROVE  Types'
<1>1. Types
  BY DEF Basic
<1>2. Id(p, cseq[p] + 1) \in Ids /\ cseq[p] + 1 \in Nat
  BY <1>1, FieldFacts DEF Id, Ids
<1>3. bodies' \in Nat /\ bodies <= bodies'
  BY <1>1, NegStep DEF NegChange
<1>4. /\ client' \subseteq Clients(bodies') /\ net' \subseteq Messages(bodies')
      /\ prepared' \in [Parties -> Descs(bodies')]
  <2>1. /\ client \subseteq Clients(bodies') /\ net \subseteq Messages(bodies')
    BY <1>1, <1>3, Grown
  <2>2. [type |-> type, id |-> Id(p, cseq[p] + 1), sdp |-> s] \in Clients(bodies')
    BY <1>2, <1>3 DEF Clients
  <2>3. Request(type, Id(p, cseq[p] + 1), s) \in Messages(bodies')
    BY <1>2, <1>3 DEF Messages, Request
  <2> QED BY <2>1, <2>2, <2>3 DEF SendRequest
<1>5. sent' \subseteq [by : Parties, sdp : Offers(bodies')]
  BY <1>1, <1>3, SentStep DEF SendRequest
<1>6. invite' \in [Parties -> [id : Ids, code : Nat, done : BOOLEAN]]
  <2>1. [NoInvite EXCEPT !.id = Id(p, cseq[p] + 1)] \in [id : Ids, code : Nat, done : BOOLEAN]
    BY <1>2, NoInviteFacts
  <2> QED BY <1>1, <2>1 DEF SendRequest, Types
<1>7. /\ cseq' \in [Parties -> Nat] /\ remoteCSeq' \in [Parties -> Nat]
      /\ cseq'[First] + cseq'[Peer(First)] <= MaxSent
  <2>1. cseq' = [cseq EXCEPT ![p] = cseq[p] + 1] /\ cseq[First] + cseq[Peer(First)] < MaxSent
    BY DEF SendRequest, MaySend, First
  <2>2. cseq' \in [Parties -> Nat]
    BY <1>1, <1>2, <2>1 DEF Types
  <2>3. /\ First \in Parties /\ Peer(First) \in Parties /\ Peer(First) # First
        /\ (p = First \/ p = Peer(First))
    BY PartyFacts, BothParties
  <2>4. cseq[First] \in Nat /\ cseq[Peer(First)] \in Nat /\ MaxSent \in Nat
    BY <1>1, <2>3, BoundAssumption DEF Types
  <2>5. cseq'[First] + cseq'[Peer(First)] <= MaxSent
    <3>1. CASE p = First
      BY <1>1, <2>1, <2>3, <2>4, <3>1 DEF Types
    <3>2. CASE p = Peer(First)
      BY <1>1, <2>1, <2>3, <2>4, <3>2 DEF Types
    <3> QED BY <2>3, <3>1, <3>2
  <2> QED BY <1>1, <2>2, <2>5 DEF Types
<1> QED
  BY <1>1, <1>4, <1>5, <1>6, <1>7, TypesStep

(* Whether a party that answers an INVITE still waits for the SDP in the ACK *)
(* of a 200, or for the ACK of a failure.                                    *)
Finishes(p, m, code) == invite' = [invite EXCEPT ![p] = [id |-> m.id, code |-> code, done |-> TRUE]]
Waits(p, m, code) == invite' = [invite EXCEPT ![p] = [id |-> m.id, code |-> code, done |-> FALSE]]

(* pjsip_dlg_on_rx_request *)
LEMMA RespondStep ==
  ASSUME Basic, NEW p \in Parties, NEW type \in Kinds, NEW m \in Requests(p, type),
         NEW n \in Negs(bodies, bodies + 1), NEW code \in Nat \ {0},
         NEW s \in {NoSdp, n.local, n.activeLocal}, Respond(p, m, n, code, s),
         invite' = invite \/ (invite[p] = NoInvite /\ (Finishes(p, m, code) \/ Waits(p, m, code)))
  PROVE  Basic'
<1>1. Types /\ NegChange(p, n)
  BY DEF Basic, Respond, NegChange
<1>2. /\ m \in net /\ m.type = type /\ m.id.from # p /\ m.id \in Ids
      /\ m.id.from = Peer(p) /\ m.id.cseq \in 1 .. cseq[Peer(p)] /\ m.id.cseq \in Nat
  <2>1. m \in net /\ m.type = type /\ m.id.from # p
    BY DEF Requests
  <2> QED BY <1>1, <2>1, FieldFacts, PartyFacts DEF Basic, Wired
<1>3. /\ bodies' \in Nat /\ bodies <= bodies' /\ s \in Descs(bodies')
  <2>1. bodies' \in Nat /\ bodies <= bodies' /\ n \in Negs(bodies', bodies')
    BY <1>1, NegStep DEF NegChange
  <2> QED BY <2>1, NegFields, SdpFacts
<1> DEFINE r == Response(m.id, code, s)
<1>4. r.type = "response" /\ r.id = m.id /\ r.code = code /\ r \in Messages(bodies')
  BY <1>2, <1>3 DEF Response, Messages
<1>5. net' = (net \ {m}) \cup {r} /\ remoteCSeq' = [remoteCSeq EXCEPT ![p] = m.id.cseq]
  BY DEF Respond
<1> HIDE DEF r
<1>6. Wired' /\ Linked'
  <2>1. client' = client /\ cseq' = cseq
    BY DEF Respond
  <2>2. \A q \in Parties : remoteCSeq'[q] <= cseq[Peer(q)]
    <3> SUFFICES ASSUME NEW q \in Parties PROVE remoteCSeq'[q] <= cseq[Peer(q)]
      OBVIOUS
    <3>1. CASE q = p
      BY <1>1, <1>2, <1>5, <3>1 DEF Types
    <3>2. CASE q # p
      BY <1>1, <1>5, <3>2 DEF Types, Basic, Linked
    <3> QED BY <3>1, <3>2
  <2>3. invite' # invite =>
          \E u \in Parties : \E new :
            /\ u # m.id.from /\ invite[u] = NoInvite /\ invite' = [invite EXCEPT ![u] = new]
            /\ new.id = m.id /\ new.code = r.code /\ r.code # 0
    <3>1. ASSUME NEW new, new.id = m.id, new.code = code, invite[p] = NoInvite,
                 invite' = [invite EXCEPT ![p] = new]
          PROVE  \E u \in Parties : \E x :
                   /\ u # m.id.from /\ invite[u] = NoInvite /\ invite' = [invite EXCEPT ![u] = x]
                   /\ x.id = m.id /\ x.code = r.code /\ r.code # 0
      BY <3>1, <1>2, <1>4
    <3>2. CASE Finishes(p, m, code) /\ invite[p] = NoInvite
      <4> DEFINE new == [id |-> m.id, code |-> code, done |-> TRUE]
      <4>1. new.id = m.id /\ new.code = code /\ invite' = [invite EXCEPT ![p] = new]
        BY <3>2 DEF Finishes
      <4> HIDE DEF new
      <4> QED BY <3>1, <3>2, <4>1
    <3>3. CASE Waits(p, m, code) /\ invite[p] = NoInvite
      <4> DEFINE new == [id |-> m.id, code |-> code, done |-> FALSE]
      <4>1. new.id = m.id /\ new.code = code /\ invite' = [invite EXCEPT ![p] = new]
        BY <3>3 DEF Waits
      <4> HIDE DEF new
      <4> QED BY <3>1, <3>3, <4>1
    <3> QED BY <3>2, <3>3
  <2> QED BY <1>2, <1>4, <1>5, <2>1, <2>2, <2>3, ReplyStep
<1>7. Types'
  <2>1. /\ client \subseteq Clients(bodies') /\ net \subseteq Messages(bodies')
        /\ prepared \in [Parties -> Descs(bodies')]
    BY <1>1, <1>3, Grown
  <2>2. sent' \subseteq [by : Parties, sdp : Offers(bodies')]
    BY <1>1, <1>3, SentStep DEF Respond
  <2>3. net' \subseteq Messages(bodies')
    BY <1>4, <1>5, <2>1
  <2>4. invite' \in [Parties -> [id : Ids, code : Nat, done : BOOLEAN]]
    <3>1. /\ [id |-> m.id, code |-> code, done |-> TRUE] \in [id : Ids, code : Nat, done : BOOLEAN]
          /\ [id |-> m.id, code |-> code, done |-> FALSE] \in [id : Ids, code : Nat, done : BOOLEAN]
      BY <1>2
    <3> QED BY <1>1, <3>1 DEF Finishes, Waits, Types
  <2>5. remoteCSeq' \in [Parties -> Nat]
    BY <1>1, <1>2, <1>5 DEF Types
  <2>6. may' = may /\ prepared' = prepared /\ client' = client /\ cseq' = cseq
    BY DEF Respond
  <2>7. cseq' \in [Parties -> Nat] /\ cseq'[First] + cseq'[Peer(First)] <= MaxSent
    BY <1>1, <2>6 DEF Types
  <2> QED BY <1>1, <2>1, <2>2, <2>3, <2>4, <2>5, <2>6, <2>7, TypesStep
<1> QED BY <1>6, <1>7 DEF Basic


(* The steps of Basic' for what a party starts. *)
LEMMA InviteSent ==
  ASSUME Basic, NEW p \in Parties, NEW n \in Negs(bodies, bodies + 1), SendInvite(p, n)
  PROVE  Basic'
<1>1. NegChange(p, n) /\ may' = may /\ remoteCSeq' = remoteCSeq
  BY DEF SendInvite, NegChange
<1>2. SendRequest(p, "INVITE", Carried(n), client, net) /\ "INVITE" \in Kinds
  BY DEF SendInvite, Kinds
<1>3. bodies' \in Nat /\ bodies <= bodies' /\ n \in Negs(bodies', bodies')
  BY <1>1, NegStep DEF Basic, NegChange
<1>4. prepared' \in [Parties -> Descs(bodies')] /\ Carried(n) \in Descs(bodies')
  BY <1>1, <1>3, Grown, NegFields, SdpFacts DEF Basic, Carried, SendInvite
<1>5. \A c \in client : c.type = "INVITE" => c.id.from # p
  BY ClientFacts DEF SendInvite, OwnInvite
<1>6. client \in SUBSET client /\ net \in SUBSET net
  OBVIOUS
<1>7. Types'
  BY <1>1, <1>2, <1>4, <1>6, SendTypes
<1>8. Wired' /\ Linked'
  BY <1>1, <1>2, <1>5, <1>6, SendStep
<1> QED BY <1>7, <1>8 DEF Basic

(* The offer of the application, where the negotiator can take it. *)
LEMMA OfferFacts ==
  ASSUME NEW B \in Nat, NEW n \in Negs(B, B)
  PROVE  LET r == Offered(n, B + 1) IN
         /\ r \in Negs(B, B + 1) /\ Keeps(n, r)
         /\ n.state = "done" => r = ModifyLocalOffer(n, B + 1)
         /\ n.state \in {"localOffer", "waitNego"} => r = n
<1>1. CASE n.state = "done"
  BY <1>1, ModifyFacts DEF Offered
<1>2. CASE n.state = "remoteOffer"
  <2> DEFINE a == Sdp(0, B + 1)
  <2>1. n \in Negs(B, B + 1) /\ a \in Offers(B + 1) /\ B + 1 \in Nat
    BY OneMore
  <2>2. Offered(n, B + 1) = [n EXCEPT !.state = "waitNego", !.local = a]
    BY <1>2 DEF Offered, SetLocalAnswer
  <2> HIDE DEF a
  <2>3. a \in Descs(B + 1) /\ a # NoSdp
    BY <2>1, SdpFacts
  <2>4. [n EXCEPT !.state = "waitNego", !.local = a] \in Negs(B, B + 1)
    BY <2>1, <2>3 DEF Negs, States
  <2> QED BY <1>2, <2>1, <2>2, <2>4 DEF Negs, Keeps
<1>3. CASE n.state \notin {"done", "remoteOffer"}
  BY <1>3, OneMore DEF Offered, Keeps
<1> QED BY <1>1, <1>2, <1>3 DEF States

LEMMA StartSteps ==
  ASSUME Basic, NEW p \in Parties, Reinvite(p) \/ Delayed(p) \/ Update(p)
  PROVE  Basic'
<1>1. neg[p] \in Negs(bodies, bodies) /\ bodies \in Nat
  BY FieldFacts DEF Basic, Types
<1>2. CASE Reinvite(p)
  <2>1. Offered(neg[p], bodies + 1) \in Negs(bodies, bodies + 1)
    BY <1>1, OfferFacts
  <2> QED BY <1>2, <2>1, InviteSent DEF Reinvite
<1>3. CASE Delayed(p)
  <2>1. neg[p] \in Negs(bodies, bodies + 1)
    BY <1>1, OneMore
  <2> QED BY <1>3, <2>1, InviteSent DEF Delayed
<1>4. CASE Update(p)
  <2> DEFINE n == ModifyLocalOffer(neg[p], bodies + 1)
  <2>1. n \in Negs(bodies, bodies + 1) /\ n.local.body = bodies + 1
    BY <1>1, ModifyFacts
  <2>2. /\ neg' = [neg EXCEPT ![p] = n] /\ SendRequest(p, "UPDATE", n.local, client, net)
        /\ bodies' = bodies + 1 /\ may' = may /\ remoteCSeq' = remoteCSeq
    BY <1>4 DEF Update
  <2> HIDE DEF n
  <2>3. NegChange(p, n)
    BY <2>1, <2>2 DEF NegChange, NextBody
  <2>4. prepared' \in [Parties -> Descs(bodies')] /\ n.local \in Descs(bodies')
    <3>1. bodies' \in Nat /\ bodies <= bodies' /\ n \in Negs(bodies', bodies')
      BY <2>3, NegStep DEF Basic, NegChange
    <3>2. prepared' = prepared
      BY <1>4 DEF Update
    <3> QED BY <3>1, <3>2, Grown, NegFields DEF Basic
  <2>5. client \in SUBSET client /\ net \in SUBSET net /\ "UPDATE" \in Kinds
    BY DEF Kinds
  <2>6. Types'
    BY <2>2, <2>3, <2>4, <2>5, SendTypes
  <2>7. Wired' /\ Linked'
    BY <2>2, <2>5, SendStep
  <2> QED BY <2>6, <2>7 DEF Basic
<1> QED BY <1>2, <1>3, <1>4

LEMMA RefreshSteps ==
  ASSUME Basic, NEW p \in Parties, RefreshPrepare(p) \/ RefreshSend(p)
  PROVE  Basic'
<1>1. neg[p] \in Negs(bodies, bodies) /\ bodies \in Nat /\ prepared[p] \in Descs(bodies) /\ Types
  BY FieldFacts DEF Basic, Types
<1>2. CASE RefreshPrepare(p)
  <2> DEFINE n == SendLocalOffer(neg[p])
  <2>1. n \in Negs(bodies, bodies) /\ n.local = neg[p].activeLocal
    BY <1>1, <1>2, SendLocalFacts DEF RefreshPrepare
  <2>2. neg' = [neg EXCEPT ![p] = n] /\ bodies' = bodies
    BY <1>2 DEF RefreshPrepare
  <2> HIDE DEF n
  <2>3. neg' \in [Parties -> Negs(bodies, bodies)]
    BY <1>1, <2>1, <2>2 DEF Types
  <2>4. prepared' \in [Parties -> Descs(bodies)]
    <3>1. neg[p].activeLocal \in Descs(bodies)
      BY <1>1, NegFields, SdpFacts
    <3> QED BY <1>1, <1>2, <3>1 DEF RefreshPrepare, Types
  <2>5. UNCHANGED <<may, invite, client, net, cseq, remoteCSeq, bodies, sent>>
    BY <1>2 DEF RefreshPrepare
  <2>6. Types'
    BY <1>1, <2>3, <2>4, <2>5 DEF Types, First
  <2>7. Wired' /\ Linked'
    BY <2>5 DEF Basic, Wired, Linked, OwnInvite, PeerInvite
  <2> QED BY <2>6, <2>7 DEF Basic
<1>3. CASE RefreshSend(p)
  <2>1. /\ prepared' = [prepared EXCEPT ![p] = NoSdp] /\ NoSdp \in Descs(bodies)
        /\ UNCHANGED <<may, neg, remoteCSeq, bodies>>
    BY <1>1, <1>3, SdpFacts DEF RefreshSend
  <2>2. /\ prepared' \in [Parties -> Descs(bodies)] /\ bodies' = bodies
        /\ prepared[p] \in Descs(bodies)
    BY <1>1, <2>1 DEF Types
  <2>3. NegChange(p, neg[p])
    BY <1>1, <2>1, NegSame
  <2>4. CASE invite[p] = NoInvite /\ SendRequest(p, "INVITE", prepared[p], client, net)
    <3>1. client \in SUBSET client /\ net \in SUBSET net /\ "INVITE" \in Kinds
      BY DEF Kinds
    <3>2. \A c \in client : c.type = "INVITE" => c.id.from # p
      BY <2>4, ClientFacts DEF OwnInvite
    <3>3. Types'
      BY <1>1, <2>1, <2>2, <2>3, <2>4, <3>1, SendTypes
    <3>4. Wired' /\ Linked'
      BY <2>1, <2>4, <3>1, <3>2, SendStep
    <3> QED BY <3>3, <3>4 DEF Basic
  <2>5. CASE UNCHANGED <<invite, client, net, cseq, sent>>
    <3>1. Types'
      BY <1>1, <2>1, <2>2, <2>5 DEF Types, First
    <3>2. Wired' /\ Linked'
      BY <2>1, <2>5 DEF Basic, Wired, Linked, OwnInvite, PeerInvite
    <3> QED BY <3>1, <3>2 DEF Basic
  <2> QED BY <1>3, <2>4, <2>5 DEF RefreshSend
<1> QED BY <1>2, <1>3

(* A request is turned away. *)
LEMMA Rebuffed ==
  ASSUME Basic, NEW m \in net, m.type \in Kinds, NEW code \in Nat \ {0},
         net' = (net \ {m}) \cup {Response(m.id, code, NoSdp)},
         UNCHANGED <<may, neg, invite, client, prepared, cseq, remoteCSeq, bodies, sent>>
  PROVE  Basic'
<1> DEFINE r == Response(m.id, code, NoSdp)
<1>1. r.type = "response" /\ r.id = m.id /\ r \in Messages(bodies)
  <2>1. m.id \in Ids /\ NoSdp \in Descs(bodies)
    BY FieldFacts, SdpFacts DEF Basic, Types
  <2> QED BY <2>1 DEF Response, Messages
<1> HIDE DEF r
<1>2. net' = (net \ {m}) \cup {r}
  BY DEF r
<1>3. Types'
  BY <1>1, <1>2 DEF Basic, Types, First
<1>4. \A q \in Parties : remoteCSeq'[q] <= cseq[Peer(q)]
  BY DEF Basic, Linked
<1>5. Wired' /\ Linked'
  BY <1>1, <1>2, <1>4, ReplyStep
<1> QED BY <1>3, <1>5 DEF Basic

LEMMA TurnAwaySteps ==
  ASSUME Basic, Challenge \/ \E p \in Parties : RxStale(p)
  PROVE  Basic'
<1>1. CASE Challenge
  <2>1. PICK m \in net : /\ m.type \in Kinds
                         /\ net' = (net \ {m}) \cup {Response(m.id, 401, NoSdp)}
    BY <1>1 DEF Challenge, Kinds
  <2> QED BY <1>1, <2>1, Rebuffed DEF Challenge
<1>2. ASSUME NEW p \in Parties, RxStale(p) PROVE Basic'
  <2>1. PICK m \in net : /\ m.type \in Kinds
                         /\ net' = (net \ {m}) \cup {Response(m.id, 500, NoSdp)}
    BY <1>2 DEF RxStale, Kinds
  <2> QED BY <1>2, <2>1, Rebuffed DEF RxStale
<1> QED BY <1>1, <1>2

(* A request with an offer, at a negotiator that is free: accepted with the *)
(* new session, or refused with the old one.                                *)
Settles(p, m, n, code, s) ==
  /\ Respond(p, m, n, code, s) /\ n \in Negs(bodies, bodies + 1) /\ n.state = "done"
  /\ \/ /\ code = 200 /\ "answer" \in may
        /\ s = n.activeLocal /\ n.activeRemote = m.sdp /\ n.activeLocal \in Offers(bodies + 1)
     \/ /\ code \in {488, 500} /\ may \cap {"none", "mismatch"} # {}
        /\ s = NoSdp /\ Keeps(neg[p], n)

LEMMA OfferTaken ==
  ASSUME Basic, NEW p \in Parties, RxInviteOffer(p)
  PROVE  /\ invite[p] = NoInvite /\ neg[p].state = "done"
         /\ \E m \in Requests(p, "INVITE"), code \in {200, 488, 500} : \E n, s :
              /\ m.sdp # NoSdp /\ Settles(p, m, n, code, s)
              /\ \/ code = 200 /\ Finishes(p, m, code)
                 \/ code # 200 /\ Waits(p, m, code)
<1> DEFINE offered(m, reply) == OnRxOffer(neg[p], m.sdp, reply, bodies + 1)
           agreed(m, reply) == Negotiate(offered(m, reply), reply = "answer")
           canceled(m, reply) == CancelOffer(offered(m, reply))
<1>1. PICK m \in Requests(p, "INVITE"), reply \in Replies \cap may :
        /\ m.sdp # NoSdp
        /\ CASE reply = "none" ->
                  /\ Respond(p, m, canceled(m, reply), 488, NoSdp)
                  /\ Waits(p, m, 488)
             [] reply = "mismatch" ->
                  /\ Respond(p, m, agreed(m, reply), 500, NoSdp)
                  /\ Waits(p, m, 500)
             [] OTHER ->
                  /\ Respond(p, m, agreed(m, reply), 200, agreed(m, reply).activeLocal)
                  /\ Finishes(p, m, 200)
  BY DEF RxInviteOffer, Pending, Waits, Finishes
<1>2. /\ neg[p] \in Negs(bodies, bodies) /\ bodies \in Nat /\ m.sdp \in Descs(bodies)
      /\ invite[p] = NoInvite /\ neg[p].state = "done"
  BY FieldFacts DEF Basic, Types, Requests, RxInviteOffer
<1>3. \/ reply = "none" /\ Respond(p, m, canceled(m, reply), 488, NoSdp) /\ Waits(p, m, 488)
      \/ reply = "mismatch" /\ Respond(p, m, agreed(m, reply), 500, NoSdp) /\ Waits(p, m, 500)
      \/ /\ reply = "answer" /\ Respond(p, m, agreed(m, reply), 200, agreed(m, reply).activeLocal)
         /\ Finishes(p, m, 200)
  <2> HIDE DEF offered, agreed, canceled
  <2>1. reply \in {"none", "mismatch", "answer"}
    BY DEF Replies
  <2> QED BY <1>1, <2>1
<1>4. /\ canceled(m, reply) \in Negs(bodies, bodies + 1) /\ canceled(m, reply).state = "done"
      /\ Keeps(neg[p], canceled(m, reply))
      /\ reply # "none" => agreed(m, reply) \in Negs(bodies, bodies + 1) /\ agreed(m, reply).state = "done"
      /\ reply = "answer" => /\ agreed(m, reply).activeRemote = m.sdp
                             /\ agreed(m, reply).activeLocal \in Offers(bodies + 1)
      /\ reply \notin {"none", "answer"} => Keeps(neg[p], agreed(m, reply))
  BY <1>2, TakenFacts
<1> HIDE DEF offered, agreed, canceled
<1>5. CASE reply = "none" /\ Respond(p, m, canceled(m, reply), 488, NoSdp) /\ Waits(p, m, 488)
  <2>1. Settles(p, m, canceled(m, reply), 488, NoSdp)
    BY <1>4, <1>5 DEF Settles
  <2> QED BY <1>1, <1>2, <1>5, <2>1
<1>6. CASE reply = "mismatch" /\ Respond(p, m, agreed(m, reply), 500, NoSdp) /\ Waits(p, m, 500)
  <2>1. Settles(p, m, agreed(m, reply), 500, NoSdp)
    BY <1>4, <1>6 DEF Settles
  <2> QED BY <1>1, <1>2, <1>6, <2>1
<1>7. CASE /\ reply = "answer" /\ Respond(p, m, agreed(m, reply), 200, agreed(m, reply).activeLocal)
           /\ Finishes(p, m, 200)
  <2>1. Settles(p, m, agreed(m, reply), 200, agreed(m, reply).activeLocal)
    BY <1>4, <1>7 DEF Settles
  <2> QED BY <1>1, <1>2, <1>7, <2>1
<1> QED BY <1>3, <1>5, <1>6, <1>7

LEMMA UpdateTaken ==
  ASSUME Basic, NEW p \in Parties, RxUpdate(p)
  PROVE  /\ invite' = invite
         /\ \E m \in Requests(p, "UPDATE"), code \in {200, 488, 491, 500} : \E n, s :
              \/ neg[p].state = "done" /\ Settles(p, m, n, code, s)
              \/ /\ neg[p].state # "done" /\ code \in {491, 500}
                 /\ n = neg[p] /\ s = NoSdp /\ Respond(p, m, n, code, s)
<1>1. PICK m \in Requests(p, "UPDATE") : \E reply \in Replies \cap may :
        LET offered == OnRxOffer(neg[p], m.sdp, reply, bodies + 1)
            agreed == Negotiate(offered, reply = "answer")
        IN CASE neg[p].state = "localOffer" -> Respond(p, m, neg[p], 491, NoSdp)
             [] neg[p].state \in {"remoteOffer", "waitNego"} -> Respond(p, m, neg[p], 500, NoSdp)
             [] neg[p].state = "done" /\ reply = "none" ->
                  Respond(p, m, CancelOffer(offered), 488, NoSdp)
             [] neg[p].state = "done" /\ reply = "mismatch" ->
                  Respond(p, m, agreed, 488, NoSdp)
             [] OTHER -> Respond(p, m, agreed, 200, agreed.activeLocal)
  BY DEF RxUpdate
<1>2. /\ neg[p] \in Negs(bodies, bodies) /\ bodies \in Nat /\ m.sdp \in Descs(bodies)
      /\ neg[p].state \in States /\ invite' = invite
  BY FieldFacts, NegFields DEF Basic, Types, Requests, RxUpdate
<1> DEFINE offered(reply) == OnRxOffer(neg[p], m.sdp, reply, bodies + 1)
           agreed(reply) == Negotiate(offered(reply), reply = "answer")
           canceled(reply) == CancelOffer(offered(reply))
<1>3. PICK reply \in Replies \cap may :
        \/ neg[p].state = "localOffer" /\ Respond(p, m, neg[p], 491, NoSdp)
        \/ neg[p].state \in {"remoteOffer", "waitNego"} /\ Respond(p, m, neg[p], 500, NoSdp)
        \/ /\ neg[p].state = "done"
           /\ \/ reply = "none" /\ Respond(p, m, canceled(reply), 488, NoSdp)
              \/ reply = "mismatch" /\ Respond(p, m, agreed(reply), 488, NoSdp)
              \/ reply = "answer" /\ Respond(p, m, agreed(reply), 200, agreed(reply).activeLocal)
  BY <1>1, <1>2 DEF Replies, States
<1>4. /\ canceled(reply) \in Negs(bodies, bodies + 1) /\ canceled(reply).state = "done"
      /\ Keeps(neg[p], canceled(reply))
      /\ reply # "none" => agreed(reply) \in Negs(bodies, bodies + 1) /\ agreed(reply).state = "done"
      /\ reply = "answer" => /\ agreed(reply).activeRemote = m.sdp
                             /\ agreed(reply).activeLocal \in Offers(bodies + 1)
      /\ reply \notin {"none", "answer"} => Keeps(neg[p], agreed(reply))
  BY <1>2, TakenFacts
<1> HIDE DEF offered, agreed, canceled
<1>5. CASE neg[p].state # "done"
  BY <1>2, <1>3, <1>5
<1>6. CASE neg[p].state = "done"
  <2>1. CASE reply = "none" /\ Respond(p, m, canceled(reply), 488, NoSdp)
    <3>1. Settles(p, m, canceled(reply), 488, NoSdp)
      BY <1>4, <2>1 DEF Settles
    <3> QED BY <1>2, <1>6, <3>1
  <2>2. CASE reply = "mismatch" /\ Respond(p, m, agreed(reply), 488, NoSdp)
    <3>1. Settles(p, m, agreed(reply), 488, NoSdp)
      BY <1>4, <2>2 DEF Settles
    <3> QED BY <1>2, <1>6, <3>1
  <2>3. CASE reply = "answer" /\ Respond(p, m, agreed(reply), 200, agreed(reply).activeLocal)
    <3>1. Settles(p, m, agreed(reply), 200, agreed(reply).activeLocal)
      BY <1>4, <2>3 DEF Settles
    <3> QED BY <1>2, <1>6, <3>1
  <2> QED BY <1>3, <1>6, <2>1, <2>2, <2>3
<1> QED BY <1>5, <1>6

LEMMA RespondSteps ==
  ASSUME Basic, NEW p \in Parties,
         \/ RxInviteBusy(p) \/ RxInviteGlare(p) \/ RxInviteOffer(p) \/ RxInviteNoOffer(p)
         \/ RxUpdate(p)
  PROVE  Basic'
<1>1. /\ neg[p] \in Negs(bodies, bodies) /\ bodies \in Nat /\ neg[p] \in Negs(bodies, bodies + 1)
      /\ \A type \in Kinds : \A m \in Requests(p, type) : m.sdp \in Descs(bodies)
      /\ "INVITE" \in Kinds /\ "UPDATE" \in Kinds
  BY FieldFacts, OneMore DEF Basic, Types, Requests, Kinds
<1>2. /\ 200 \in Nat \ {0} /\ 488 \in Nat \ {0} /\ 491 \in Nat \ {0} /\ 500 \in Nat \ {0}
      /\ TRUE \in BOOLEAN /\ FALSE \in BOOLEAN
  OBVIOUS
<1>3. CASE RxInviteBusy(p)
  <2>1. PICK m \in Requests(p, "INVITE") :
          Respond(p, m, neg[p], IF invite[p].id.from = p THEN 491 ELSE 500, NoSdp)
    BY <1>3 DEF RxInviteBusy
  <2>2. invite' = invite /\ NoSdp \in {NoSdp, neg[p].local, neg[p].activeLocal}
    BY <1>3 DEF RxInviteBusy
  <2>3. CASE invite[p].id.from = p
    <3>1. Respond(p, m, neg[p], 491, NoSdp)
      BY <2>1, <2>3
    <3> QED BY <1>1, <1>2, <2>2, <3>1, RespondStep
  <2>4. CASE invite[p].id.from # p
    <3>1. Respond(p, m, neg[p], 500, NoSdp)
      BY <2>1, <2>4
    <3> QED BY <1>1, <1>2, <2>2, <3>1, RespondStep
  <2> QED BY <2>3, <2>4
<1>4. CASE RxInviteGlare(p)
  <2>1. PICK m \in Requests(p, "INVITE") :
          Respond(p, m, neg[p], 491, NoSdp) /\ Waits(p, m, 491)
    BY <1>4 DEF RxInviteGlare, Pending, Waits
  <2>2. invite[p] = NoInvite /\ NoSdp \in {NoSdp, neg[p].local, neg[p].activeLocal}
    BY <1>4 DEF RxInviteGlare
  <2> QED BY <1>1, <1>2, <2>1, <2>2, RespondStep
<1>5. CASE RxInviteOffer(p)
  <2>1. PICK m \in Requests(p, "INVITE"), code \in {200, 488, 500} : \E n, s :
          /\ m.sdp # NoSdp /\ Settles(p, m, n, code, s)
          /\ \/ code = 200 /\ Finishes(p, m, code)
             \/ code # 200 /\ Waits(p, m, code)
    BY <1>5, OfferTaken
  <2>2. PICK n, s : /\ Settles(p, m, n, code, s)
                    /\ Finishes(p, m, code) \/ Waits(p, m, code)
    BY <2>1
  <2>3. /\ n \in Negs(bodies, bodies + 1) /\ s \in {NoSdp, n.local, n.activeLocal}
        /\ Respond(p, m, n, code, s) /\ invite[p] = NoInvite
    BY <1>5, <2>2, OfferTaken DEF Settles
  <2>4. code \in Nat \ {0}
    BY <1>2
  <2> QED BY <1>1, <2>2, <2>3, <2>4, RespondStep
<1>6. CASE RxInviteNoOffer(p)
  <2>1. PICK m \in Requests(p, "INVITE"),
             n \in {ModifyLocalOffer(neg[p], bodies + 1), SendLocalOffer(neg[p])} :
          Respond(p, m, n, 200, n.local) /\ Waits(p, m, 200)
    BY <1>6 DEF RxInviteNoOffer, Pending, Waits
  <2>2. invite[p] = NoInvite /\ neg[p].state = "done"
    BY <1>6 DEF RxInviteNoOffer
  <2>3. n \in Negs(bodies, bodies + 1)
    BY <1>1, <2>2, ModifyFacts, SendLocalFacts, OneMore
  <2>4. n.local \in {NoSdp, n.local, n.activeLocal}
    OBVIOUS
  <2> QED BY <1>1, <1>2, <2>1, <2>2, <2>3, <2>4, RespondStep
<1>7. CASE RxUpdate(p)
  <2>1. PICK m \in Requests(p, "UPDATE"), code \in {200, 488, 491, 500} : \E n, s :
          \/ neg[p].state = "done" /\ Settles(p, m, n, code, s)
          \/ /\ neg[p].state # "done" /\ code \in {491, 500}
             /\ n = neg[p] /\ s = NoSdp /\ Respond(p, m, n, code, s)
    BY <1>7, UpdateTaken
  <2>2. PICK n, s :
          \/ neg[p].state = "done" /\ Settles(p, m, n, code, s)
          \/ n = neg[p] /\ s = NoSdp /\ Respond(p, m, n, code, s)
    BY <2>1
  <2>3. /\ n \in Negs(bodies, bodies + 1) /\ s \in {NoSdp, n.local, n.activeLocal}
        /\ Respond(p, m, n, code, s)
    BY <1>1, <2>2 DEF Settles
  <2>4. code \in Nat \ {0} /\ invite' = invite
    BY <1>2, <1>7, UpdateTaken
  <2> QED BY <1>1, <2>3, <2>4, RespondStep
<1> QED BY <1>3, <1>4, <1>5, <1>6, <1>7

(* A handler that ends something and sends at most one message. *)
LEMMA EndTypes ==
  ASSUME Types, NEW p \in Parties, NEW q \in Parties, NEW n, NegChange(p, n),
         may' = may, cseq' = cseq, prepared' = prepared, remoteCSeq' \in [Parties -> Nat],
         client' \subseteq client,
         bodies' \in Nat => /\ \A l \in net' : l \in net \/ l \in Messages(bodies')
                            /\ \A x \in sent' : x \in sent \/ x \in [by : Parties, sdp : Offers(bodies')],
         invite' = invite \/ invite' = [invite EXCEPT ![q] = NoInvite]
  PROVE  Types'
<1>1. bodies' \in Nat /\ bodies <= bodies'
  BY NegStep DEF NegChange
<1>2. /\ client \subseteq Clients(bodies') /\ net \subseteq Messages(bodies')
      /\ prepared \in [Parties -> Descs(bodies')] /\ sent \subseteq [by : Parties, sdp : Offers(bodies')]
  BY <1>1, Grown
<1>3. invite' \in [Parties -> [id : Ids, code : Nat, done : BOOLEAN]]
  BY NoInviteFacts DEF Types
<1>4. /\ client' \subseteq Clients(bodies') /\ net' \subseteq Messages(bodies')
      /\ prepared' \in [Parties -> Descs(bodies')] /\ sent' \subseteq [by : Parties, sdp : Offers(bodies')]
  BY <1>1, <1>2
<1>5. cseq' \in [Parties -> Nat] /\ cseq'[First] + cseq'[Peer(First)] <= MaxSent
  BY DEF Types
<1> QED
  BY <1>3, <1>4, <1>5, TypesStep

(* The INVITE a party works on ends with its own request. *)
LEMMA OwnEnded ==
  ASSUME Basic, NEW c \in client, Ended(c.id.from, c.id)
  PROVE  /\ c.type = "INVITE" => invite' = [invite EXCEPT ![c.id.from] = NoInvite]
         /\ c.type = "UPDATE" => invite' = invite
BY ClientFacts DEF Ended

(* What the ACK of a 2xx leaves. *)
LEMMA AckTaken ==
  ASSUME Basic, NEW p \in Parties, RxAck(p)
  PROVE  \E m \in net, reply \in Replies \cap may : \E n :
           LET heard == IF invite[p].done THEN neg[p]
                        ELSE CheckSdp(neg[p], m.sdp, reply, bodies + 1)
           IN /\ m.type = "ACK" /\ m.code = 200 /\ m.id.from # p
              /\ heard \in Negs(bodies, bodies + 1)
              /\ \/ invite[p].id = m.id /\ invite[p].code # 0 /\ n = CancelIfOffered(heard)
                 \/ ~(invite[p].id = m.id /\ invite[p].code # 0) /\ n = neg[p]
              /\ NegChange(p, n)
              /\ remoteCSeq' = [remoteCSeq EXCEPT ![p] = m.id.cseq]
              /\ net' = net \ {m} /\ Ended(p, m.id)
              /\ UNCHANGED <<may, client, prepared, cseq, sent>>
<1> DEFINE heard(m, reply) == IF invite[p].done THEN neg[p]
                              ELSE CheckSdp(neg[p], m.sdp, reply, bodies + 1)
           awaited(m) == invite[p].id = m.id /\ invite[p].code # 0
           left(m, reply) == IF awaited(m) THEN CancelIfOffered(heard(m, reply)) ELSE neg[p]
<1>1. PICK m \in net, reply \in Replies \cap may :
        /\ m.type = "ACK" /\ m.code = 200 /\ m.id.from # p
        /\ neg' = [neg EXCEPT ![p] = left(m, reply)]
        /\ bodies' = NextBody(left(m, reply), bodies + 1)
        /\ remoteCSeq' = [remoteCSeq EXCEPT ![p] = m.id.cseq]
        /\ net' = net \ {m}
        /\ Ended(p, m.id)
  BY DEF RxAck
<1>2. neg[p] \in Negs(bodies, bodies) /\ bodies \in Nat /\ m.sdp \in Descs(bodies)
  BY FieldFacts DEF Basic, Types
<1>3. /\ neg[p] \in Negs(bodies, bodies + 1) /\ bodies + 1 \in Nat
      /\ CheckSdp(neg[p], m.sdp, reply, bodies + 1) \in Negs(bodies, bodies + 1)
  BY <1>2, OneMore, CheckFacts
<1>4. heard(m, reply) \in Negs(bodies, bodies + 1)
  BY <1>3
<1> HIDE DEF heard
<1>5. left(m, reply) \in Negs(bodies, bodies + 1)
  <2>1. CancelIfOffered(heard(m, reply)) \in Negs(bodies, bodies + 1)
    BY <1>2, <1>3, <1>4, CancelIfOfferedFacts
  <2> QED BY <1>3, <2>1
<1>6. \/ awaited(m) /\ left(m, reply) = CancelIfOffered(heard(m, reply))
      \/ ~awaited(m) /\ left(m, reply) = neg[p]
  OBVIOUS
<1> HIDE DEF left
<1>7. NegChange(p, left(m, reply))
  BY <1>1, <1>5 DEF NegChange
<1>8. UNCHANGED <<may, client, prepared, cseq, sent>>
  BY DEF RxAck
<1> QED
  BY <1>1, <1>4, <1>6, <1>7, <1>8 DEF heard

LEMMA AckSteps ==
  ASSUME Basic, NEW p \in Parties, RxAck(p) \/ RxFailureAck(p) \/ AckLost(p)
  PROVE  Basic'
<1>1. Types /\ remoteCSeq \in [Parties -> Nat] /\ \A q \in Parties : remoteCSeq[q] <= cseq[Peer(q)]
  BY DEF Basic, Types, Linked
<1>2. ASSUME NEW id, Ended(p, id) PROVE invite' = invite \/ invite' = [invite EXCEPT ![p] = NoInvite]
  BY <1>2 DEF Ended
<1>3. CASE RxAck(p)
  <2>1. PICK m \in net : \E n :
          /\ m.type = "ACK" /\ m.code = 200 /\ m.id.from # p /\ NegChange(p, n)
          /\ remoteCSeq' = [remoteCSeq EXCEPT ![p] = m.id.cseq]
          /\ net' = net \ {m} /\ Ended(p, m.id)
          /\ UNCHANGED <<may, client, prepared, cseq, sent>>
    BY <1>3, AckTaken
  <2>2. PICK n : NegChange(p, n)
    BY <2>1
  <2>3. m.id.from = Peer(p) /\ m.id.cseq <= cseq[Peer(p)] /\ m.id.cseq \in Nat
    BY <1>1, <2>1, FieldFacts, PartyFacts DEF Basic, Wired
  <2>4. remoteCSeq' \in [Parties -> Nat] /\ \A q \in Parties : remoteCSeq'[q] <= cseq[Peer(q)]
    BY <1>1, <2>1, <2>3
  <2>5. Types'
    BY <1>1, <1>2, <2>1, <2>2, <2>4, EndTypes
  <2>6. Wired' /\ Linked'
    BY <2>1, <2>4, AckStep
  <2> QED BY <2>5, <2>6 DEF Basic
<1>4. CASE RxFailureAck(p) \/ AckLost(p)
  <2>1. PICK m \in net : m.type = "ACK" /\ m.id.from # p /\ net' = net \ {m} /\ Ended(p, m.id)
    BY <1>4 DEF RxFailureAck, AckLost
  <2>2. UNCHANGED <<may, neg, client, prepared, cseq, remoteCSeq, bodies, sent>>
    BY <1>4 DEF RxFailureAck, AckLost
  <2>3. NegChange(p, neg[p])
    BY <1>1, <2>2, NegSame
  <2>4. Types'
    BY <1>1, <1>2, <2>1, <2>2, <2>3, EndTypes
  <2>5. Wired' /\ Linked'
    BY <1>1, <2>1, <2>2, AckStep
  <2> QED BY <2>4, <2>5 DEF Basic
<1> QED BY <1>3, <1>4

(* A request of p ends: c is forgotten with the message m, which may have   *)
(* said why; the negotiator is left as n.                                   *)
Concludes(p, c, m, n) ==
  /\ c \in client /\ c.id.from = p /\ m \in net /\ m.id = c.id
  /\ client' = client \ {c} /\ NegChange(p, n)
  /\ c.type = "INVITE" => invite' = [invite EXCEPT ![p] = NoInvite]
  /\ c.type = "UPDATE" => invite' = invite
  /\ UNCHANGED <<may, prepared, cseq, remoteCSeq>>

Silently(m) == net' = net \ {m} /\ sent' = sent
Acknowledging(p, m, s) == net' = (net \ {m}) \cup {Ack(m.id, m.code, s)} /\ Sending(p, s)

LEMMA ConcludeStep ==
  ASSUME Basic, NEW p \in Parties, NEW c, NEW m, NEW n, Concludes(p, c, m, n),
         Silently(m) \/ \E s \in {NoSdp, n.activeLocal} : Acknowledging(p, m, s)
  PROVE  Basic'
<1>1. /\ Types /\ NegChange(p, n) /\ c \in client /\ m \in net /\ m.id = c.id /\ p = c.id.from
      /\ client' = client \ {c} /\ c.type \in Kinds
      /\ may' = may /\ prepared' = prepared /\ cseq' = cseq /\ remoteCSeq' = remoteCSeq
  BY FieldFacts DEF Basic, Concludes
<1>2. /\ bodies' \in Nat /\ bodies <= bodies'
      /\ \A s \in {NoSdp, n.activeLocal} : s \in Descs(bodies') /\ Ack(m.id, m.code, s) \in Messages(bodies')
  <2>1. bodies' \in Nat /\ bodies <= bodies' /\ n \in Negs(bodies', bodies')
    BY <1>1, NegStep DEF NegChange
  <2>2. \A s \in {NoSdp, n.activeLocal} : s \in Descs(bodies')
    BY <2>1, NegFields, SdpFacts
  <2>3. m.id \in Ids /\ m.code \in Nat
    BY <1>1, FieldFacts
  <2> QED BY <2>1, <2>2, <2>3 DEF Ack, Messages
<1>3. /\ \A x \in sent' : x \in sent \/ x \in [by : Parties, sdp : Offers(bodies')]
      /\ \A l \in net' : l \in net \/ l \in Messages(bodies')
  <2>1. CASE Silently(m)
    BY <2>1 DEF Silently
  <2>2. ASSUME NEW s \in {NoSdp, n.activeLocal}, Acknowledging(p, m, s)
        PROVE  /\ \A x \in sent' : x \in sent \/ x \in [by : Parties, sdp : Offers(bodies')]
               /\ \A l \in net' : l \in net \/ l \in Messages(bodies')
    <3>1. sent' \subseteq [by : Parties, sdp : Offers(bodies')]
      BY <1>1, <1>2, <2>2, SentStep DEF Acknowledging
    <3> QED BY <1>2, <2>2, <3>1 DEF Acknowledging
  <2> QED BY <2>1, <2>2
<1>4. remoteCSeq' \in [Parties -> Nat] /\ client' \subseteq client
  BY <1>1 DEF Types
<1>5. invite' = invite \/ invite' = [invite EXCEPT ![p] = NoInvite]
  BY <1>1 DEF Concludes, Kinds
<1>6. Types'
  BY <1>1, <1>3, <1>4, <1>5, EndTypes
<1>7. \/ net' = net \ {m}
      \/ \E a : net' = (net \ {m}) \cup {a} /\ a.type = "ACK" /\ a.id = c.id /\ a.code = m.code
  <2>1. \A s : /\ Ack(m.id, m.code, s).type = "ACK" /\ Ack(m.id, m.code, s).id = m.id
               /\ Ack(m.id, m.code, s).code = m.code
    BY DEF Ack
  <2> QED BY <1>1, <2>1 DEF Silently, Acknowledging
<1>8. Wired' /\ Linked'
  <2>1. /\ c.type = "INVITE" => invite' = [invite EXCEPT ![p] = NoInvite]
        /\ c.type = "UPDATE" => invite' = invite
    BY DEF Concludes
  <2> QED BY <1>1, <1>7, <2>1, EndStep
<1> QED BY <1>6, <1>8 DEF Basic

(* A 2xx to a re-INVITE, by the state of the negotiator and what it brings. *)
LEMMA AcceptedTaken ==
  ASSUME Basic, NEW p \in Parties, InviteAccepted(p)
  PROVE  \E c, m, n : \E s \in {NoSdp, n.activeLocal} :
           /\ Concludes(p, c, m, n) /\ Acknowledging(p, m, s)
           /\ c.type = "INVITE" /\ m.type = "response" /\ m.code = 200
           /\ neg[p].state = "localOffer" =>
                /\ n.state = "done" /\ s = NoSdp
                /\ m.sdp # NoSdp => n.activeRemote = m.sdp /\ n.activeLocal = neg[p].local
                /\ m.sdp = NoSdp => Keeps(neg[p], n)
           /\ neg[p].state = "done" /\ m.sdp = NoSdp => n = neg[p] /\ s = NoSdp
           /\ neg[p].state = "done" /\ m.sdp # NoSdp =>
                \/ "none" \in may
                \/ /\ "answer" \in may /\ n.state = "done"
                   /\ n.activeRemote = m.sdp /\ s = n.activeLocal /\ s \in Offers(bodies + 1)
                \/ n.state = "done" /\ Keeps(neg[p], n) /\ s = NoSdp
<1> DEFINE checked(m, reply) == CheckSdp(neg[p], m.sdp, reply, bodies + 1)
           heard(m, reply) == CancelIfOffered(checked(m, reply))
           owes(m, reply) == HasLocalAnswer(heard(m, reply))
           left(m, reply) == IF owes(m, reply) THEN Negotiate(heard(m, reply), reply = "answer")
                             ELSE heard(m, reply)
           answer(m, reply) == IF owes(m, reply) /\ reply = "answer"
                               THEN left(m, reply).activeLocal ELSE NoSdp
<1>1. PICK x \in Answered(p, "INVITE", {200}), reply \in Replies \cap may :
        /\ neg' = [neg EXCEPT ![p] = left(x[2], reply)]
        /\ bodies' = NextBody(left(x[2], reply), bodies + 1)
        /\ net' = (net \ {x[2]}) \cup {Ack(x[2].id, 200, answer(x[2], reply))}
        /\ client' = client \ {x[1]}
        /\ Ended(p, x[1].id)
        /\ Sending(p, answer(x[2], reply))
  BY DEF InviteAccepted
<1> DEFINE c == x[1]
           m == x[2]
           n == left(m, reply)
           s == answer(m, reply)
<1>2. /\ c \in client /\ c.type = "INVITE" /\ c.id.from = p
      /\ m \in net /\ m.type = "response" /\ m.id = c.id /\ m.code = 200
  BY DEF Answered
<1>3. /\ neg[p] \in Negs(bodies, bodies) /\ bodies \in Nat /\ m.sdp \in Descs(bodies)
      /\ neg[p] \in Negs(bodies, bodies + 1) /\ bodies + 1 \in Nat
  BY <1>2, FieldFacts, OneMore DEF Basic, Types
<1> DEFINE r == checked(m, reply)
           h == heard(m, reply)
<1>4. /\ r \in Negs(bodies, bodies + 1)
      /\ m.sdp = NoSdp => r = neg[p]
      /\ m.sdp # NoSdp /\ neg[p].state = "localOffer" =>
           r.state = "done" /\ r.activeRemote = m.sdp /\ r.activeLocal = neg[p].local
      /\ m.sdp # NoSdp /\ neg[p].state = "done" =>
           /\ Keeps(neg[p], r)
           /\ reply = "none" => r.state = "remoteOffer"
           /\ reply # "none" => r.state = "waitNego" /\ r.remote = m.sdp /\ HasLocalAnswer(r)
  BY <1>3, CheckFacts, OfferedFacts
<1> HIDE DEF checked
<1>5. /\ h \in Negs(bodies, bodies + 1) /\ Keeps(r, h)
      /\ r.state = "localOffer" => h.state = "done"
      /\ r.state # "localOffer" => h = r
  BY <1>3, <1>4, CancelIfOfferedFacts
<1> HIDE DEF heard
<1>6. ASSUME owes(m, reply)
      PROVE  /\ n \in Negs(bodies, bodies + 1) /\ n.state = "done"
             /\ reply = "answer" => /\ n.activeRemote = h.remote /\ s = n.activeLocal
                                    /\ n.activeLocal \in Offers(bodies + 1)
             /\ reply # "answer" => Keeps(h, n) /\ s = NoSdp
  <2>1. h.state = "waitNego"
    BY <1>6 DEF HasLocalAnswer
  <2>2. CASE reply = "answer"
    <3>1. n = Negotiate(h, TRUE) /\ s = n.activeLocal
      BY <1>6, <2>2
    <3> HIDE DEF n, s
    <3> QED BY <1>3, <1>5, <2>1, <2>2, <3>1, AgreedFacts
  <2>3. CASE reply # "answer"
    <3>1. (reply = "answer") = FALSE
      BY <2>3
    <3>2. n = Negotiate(h, FALSE) /\ s = NoSdp
      BY <1>6, <3>1
    <3> HIDE DEF n, s
    <3> QED BY <1>3, <1>5, <2>1, <2>3, <3>2, AgreedFacts
  <2> QED BY <2>2, <2>3
<1>7. ASSUME ~owes(m, reply) PROVE n = h /\ s = NoSdp
  BY <1>7
<1>8. owes(m, reply) <=> h.state = "waitNego"
  BY <1>5 DEF HasLocalAnswer, Negs
<1> HIDE DEF n, s, owes
<1>9. n \in Negs(bodies, bodies + 1) /\ s \in {NoSdp, n.activeLocal}
  BY <1>5, <1>6, <1>7
<1>10. Concludes(p, c, m, n)
  <2>1. NegChange(p, n)
    BY <1>1, <1>9 DEF NegChange, n
  <2>2. /\ client' = client \ {c} /\ UNCHANGED <<may, prepared, cseq, remoteCSeq>>
        /\ invite' = [invite EXCEPT ![p] = NoInvite]
    <3>1. Ended(c.id.from, c.id)
      BY <1>1, <1>2
    <3> QED BY <1>1, <1>2, <3>1, OwnEnded DEF InviteAccepted
  <2> QED BY <1>2, <2>1, <2>2 DEF Concludes
<1>11. Acknowledging(p, m, s)
  BY <1>1, <1>2 DEF Acknowledging, s
<1>12. neg[p].state = "localOffer" =>
         /\ n.state = "done" /\ s = NoSdp
         /\ m.sdp # NoSdp => n.activeRemote = m.sdp /\ n.activeLocal = neg[p].local
         /\ m.sdp = NoSdp => Keeps(neg[p], n)
  BY <1>4, <1>5, <1>7, <1>8
<1>13. neg[p].state = "done" /\ m.sdp = NoSdp => n = neg[p] /\ s = NoSdp
  BY <1>4, <1>5, <1>7, <1>8
<1>14. neg[p].state = "done" /\ m.sdp # NoSdp =>
         \/ "none" \in may
         \/ /\ "answer" \in may /\ n.state = "done"
            /\ n.activeRemote = m.sdp /\ s = n.activeLocal /\ s \in Offers(bodies + 1)
         \/ n.state = "done" /\ Keeps(neg[p], n) /\ s = NoSdp
  BY <1>4, <1>5, <1>6, <1>7, <1>8 DEF Keeps
<1> HIDE DEF c, m
<1> QED
  BY <1>2, <1>9, <1>10, <1>11, <1>12, <1>13, <1>14

(* The other ways a request ends.  An offer that was refused is dropped.    *)
Drops(p, n) == n = CancelIfOffered(neg[p]) /\ Keeps(neg[p], n) /\ (neg[p].state = "localOffer" => n.state = "done")

LEMMA Dropped ==
  ASSUME Basic, NEW p \in Parties
  PROVE  Drops(p, CancelIfOffered(neg[p])) /\ CancelIfOffered(neg[p]) \in Negs(bodies, bodies)
BY FieldFacts, CancelIfOfferedFacts DEF Drops, Basic, Types

LEMMA RefusedTaken ==
  ASSUME Basic, NEW p \in Parties, InviteRefused(p)
  PROVE  \E c, m, n : /\ Concludes(p, c, m, n) /\ Acknowledging(p, m, NoSdp)
                      /\ c.type = "INVITE" /\ m.type = "response" /\ m.code \in Refusals
                      /\ Drops(p, n)
<1>1. PICK x \in Answered(p, "INVITE", Refusals) :
        /\ neg' = [neg EXCEPT ![p] = CancelIfOffered(@)]
        /\ client' = client \ {x[1]}
        /\ net' = (net \ {x[2]}) \cup {Ack(x[2].id, x[2].code, NoSdp)}
        /\ Ended(p, x[1].id)
  BY DEF InviteRefused
<1> DEFINE c == x[1]
           m == x[2]
           n == CancelIfOffered(neg[p])
<1>2. /\ c \in client /\ c.type = "INVITE" /\ c.id.from = p
      /\ m \in net /\ m.type = "response" /\ m.id = c.id /\ m.code \in Refusals
  BY DEF Answered
<1>3. Drops(p, n) /\ n \in Negs(bodies, bodies) /\ neg' = [neg EXCEPT ![p] = n]
  BY <1>1, Dropped
<1>4. UNCHANGED <<may, prepared, cseq, remoteCSeq, bodies, sent>>
  BY DEF InviteRefused
<1> HIDE DEF n
<1>5. NegChange(p, n)
  BY <1>3, <1>4, NoNewBody DEF Basic
<1>6. invite' = [invite EXCEPT ![p] = NoInvite]
  BY <1>1, <1>2, OwnEnded
<1>7. Concludes(p, c, m, n) /\ Acknowledging(p, m, NoSdp)
  BY <1>1, <1>2, <1>4, <1>5, <1>6 DEF Concludes, Acknowledging, Sending
<1> HIDE DEF c, m
<1> QED BY <1>2, <1>3, <1>7

LEMMA UpdateAnswerTaken ==
  ASSUME Basic, NEW p \in Parties, UpdateAnswered(p)
  PROVE  \E c, m, n : /\ Concludes(p, c, m, n) /\ Silently(m)
                      /\ c.type = "UPDATE" /\ m.type = "response" /\ m.code \in {200} \cup Refusals
                      /\ \/ Drops(p, n) /\ (m.code # 200 \/ m.sdp = NoSdp \/ neg[p].state # "localOffer")
                         \/ /\ neg[p].state = "localOffer" /\ m.code = 200 /\ m.sdp # NoSdp
                            /\ n.state = "done" /\ n.activeRemote = m.sdp
                            /\ n.activeLocal = neg[p].local
<1> DEFINE heard(m) == IF m.code = 200 /\ neg[p].state = "localOffer"
                       THEN CheckSdp(neg[p], m.sdp, "answer", bodies + 1) ELSE neg[p]
<1>1. PICK x \in Answered(p, "UPDATE", {200} \cup Refusals) :
        /\ neg' = [neg EXCEPT ![p] = CancelIfOffered(heard(x[2]))]
        /\ client' = client \ {x[1]}
        /\ net' = net \ {x[2]}
  BY DEF UpdateAnswered
<1> DEFINE c == x[1]
           m == x[2]
           h == heard(m)
           n == CancelIfOffered(h)
<1>2. /\ c \in client /\ c.type = "UPDATE" /\ c.id.from = p
      /\ m \in net /\ m.type = "response" /\ m.id = c.id /\ m.code \in {200} \cup Refusals
  BY DEF Answered
<1>3. neg[p] \in Negs(bodies, bodies) /\ bodies \in Nat /\ m.sdp \in Descs(bodies)
  BY <1>2, FieldFacts DEF Basic, Types
<1>4. /\ h \in Negs(bodies, bodies)
      /\ h = neg[p] \/ /\ m.code = 200 /\ m.sdp # NoSdp /\ neg[p].state = "localOffer"
                       /\ h.state = "done" /\ h.activeRemote = m.sdp /\ h.activeLocal = neg[p].local
      /\ h = neg[p] => m.code # 200 \/ m.sdp = NoSdp \/ neg[p].state # "localOffer"
  <2>1. CASE m.code = 200 /\ neg[p].state = "localOffer"
    <3>1. h = CheckSdp(neg[p], m.sdp, "answer", bodies + 1)
      BY <2>1
    <3> HIDE DEF h
    <3>2. /\ h \in Negs(bodies, bodies)
          /\ m.sdp = NoSdp => h = neg[p]
          /\ m.sdp # NoSdp => h.state = "done" /\ h.activeRemote = m.sdp /\ h.activeLocal = neg[p].local
      BY <1>3, <2>1, <3>1, CheckFacts
    <3> QED BY <2>1, <3>2
  <2>2. CASE ~(m.code = 200 /\ neg[p].state = "localOffer")
    BY <1>3, <2>2
  <2> QED BY <2>1, <2>2
<1> HIDE DEF heard
<1>5. n \in Negs(bodies, bodies) /\ (h.state # "localOffer" => n = h)
  BY <1>3, <1>4, CancelIfOfferedFacts
<1>6. UNCHANGED <<may, invite, prepared, cseq, remoteCSeq, bodies, sent>>
  BY DEF UpdateAnswered
<1>7. NegChange(p, n)
  <2>1. neg' = [neg EXCEPT ![p] = n]
    BY <1>1
  <2> HIDE DEF n
  <2> QED BY <1>5, <1>6, <2>1, NoNewBody DEF Basic
<1>8. \/ Drops(p, n) /\ (m.code # 200 \/ m.sdp = NoSdp \/ neg[p].state # "localOffer")
      \/ /\ neg[p].state = "localOffer" /\ m.code = 200 /\ m.sdp # NoSdp
         /\ n.state = "done" /\ n.activeRemote = m.sdp /\ n.activeLocal = neg[p].local
  <2>1. CASE h = neg[p]
    BY <1>4, <2>1, Dropped
  <2>2. CASE h # neg[p]
    BY <1>4, <1>5, <2>2
  <2> QED BY <2>1, <2>2
<1> HIDE DEF n
<1>9. Concludes(p, c, m, n) /\ Silently(m)
  BY <1>1, <1>2, <1>6, <1>7 DEF Concludes, Silently
<1> HIDE DEF c, m
<1> QED BY <1>2, <1>8, <1>9

(* A request that ends without an answer. *)
LEMMA Lapses ==
  ASSUME Basic, NEW p \in Parties, NEW c \in client, NEW m \in net,
         c.id.from = p, m.id = c.id, client' = client \ {c}, net' = net \ {m},
         c.type = "INVITE" => invite' = [invite EXCEPT ![p] = NoInvite],
         c.type = "UPDATE" => invite' = invite,
         neg' = IF c.type = "UPDATE" THEN [neg EXCEPT ![p] = CancelIfOffered(@)] ELSE neg,
         UNCHANGED <<may, prepared, cseq, remoteCSeq, bodies, sent>>
  PROVE  \E n : /\ Concludes(p, c, m, n) /\ Silently(m)
                /\ IF c.type = "UPDATE" THEN Drops(p, n) ELSE n = neg[p]
<1>1. neg[p] \in Negs(bodies, bodies) /\ Types
  BY FieldFacts DEF Basic
<1>2. CASE c.type = "UPDATE"
  <2> DEFINE n == CancelIfOffered(neg[p])
  <2>1. Drops(p, n) /\ n \in Negs(bodies, bodies) /\ neg' = [neg EXCEPT ![p] = n]
    BY <1>2, Dropped
  <2> HIDE DEF n
  <2>2. NegChange(p, n)
    BY <1>1, <2>1, NoNewBody
  <2> QED BY <1>2, <2>1, <2>2 DEF Concludes, Silently
<1>3. CASE c.type # "UPDATE"
  <2>1. NegChange(p, neg[p])
    BY <1>1, <1>3, NegSame
  <2> QED BY <1>3, <2>1 DEF Concludes, Silently
<1> QED BY <1>2, <1>3

LEMMA FailTaken ==
  ASSUME Basic, NEW p \in Parties, TransportFails(p)
  PROVE  "transport" \in may /\ \E c, m, n :
           /\ Concludes(p, c, m, n) /\ Silently(m) /\ m.type = c.type
           /\ IF c.type = "UPDATE" THEN Drops(p, n) ELSE n = neg[p]
<1>1. PICK c \in client, m \in net :
        /\ c.id.from = p /\ m.id = c.id /\ client' = client \ {c} /\ net' = net \ {m}
        /\ Ended(p, c.id) /\ m.type = c.type
        /\ neg' = IF c.type = "UPDATE" THEN [neg EXCEPT ![p] = CancelIfOffered(@)] ELSE neg
  BY DEF TransportFails
<1>2. "transport" \in may /\ UNCHANGED <<may, prepared, cseq, remoteCSeq, bodies, sent>>
  BY DEF TransportFails
<1>3. /\ c.type = "INVITE" => invite' = [invite EXCEPT ![p] = NoInvite]
      /\ c.type = "UPDATE" => invite' = invite
  BY <1>1, OwnEnded
<1>4. \E n : /\ Concludes(p, c, m, n) /\ Silently(m)
             /\ IF c.type = "UPDATE" THEN Drops(p, n) ELSE n = neg[p]
  BY <1>1, <1>2, <1>3, Lapses
<1> QED BY <1>1, <1>2, <1>4

(* A challenge is answered with the request again, or ends it. *)
Resends(p, c, m) ==
  /\ c \in client /\ c.id.from = p /\ m \in net /\ m.id = c.id /\ m.code = 401
  /\ SendRequest(p, c.type, c.sdp, client \ {c}, net \ {m})
  /\ UNCHANGED <<may, neg, prepared, remoteCSeq, bodies>>

LEMMA ChallengeTaken ==
  ASSUME Basic, NEW p \in Parties, Challenged(p)
  PROVE  \/ \E c, m : Resends(p, c, m)
         \/ "noCredentials" \in may /\ \E c, m, n :
              /\ Concludes(p, c, m, n) /\ Silently(m) /\ m.code = 401
              /\ IF c.type = "UPDATE" THEN Drops(p, n) ELSE n = neg[p]
<1>1. PICK x \in Answered(p, "INVITE", {401}) \cup Answered(p, "UPDATE", {401}) :
        \/ /\ SendRequest(p, x[1].type, x[1].sdp, client \ {x[1]}, net \ {x[2]})
           /\ UNCHANGED neg
        \/ /\ "noCredentials" \in may
           /\ client' = client \ {x[1]}
           /\ net' = net \ {x[2]}
           /\ neg' = IF x[1].type = "UPDATE" THEN [neg EXCEPT ![p] = CancelIfOffered(@)] ELSE neg
           /\ invite' = IF x[1].type = "INVITE" THEN [invite EXCEPT ![p] = NoInvite] ELSE invite
           /\ UNCHANGED <<cseq, sent>>
  BY DEF Challenged
<1> DEFINE c == x[1]
           m == x[2]
<1>2. c \in client /\ c.id.from = p /\ m \in net /\ m.id = c.id /\ m.code = 401
  BY DEF Answered
<1>3. UNCHANGED <<may, prepared, remoteCSeq, bodies>>
  BY DEF Challenged
<1>4. CASE SendRequest(p, c.type, c.sdp, client \ {c}, net \ {m}) /\ UNCHANGED neg
  <2>1. Resends(p, c, m)
    BY <1>2, <1>3, <1>4 DEF Resends
  <2> QED BY <2>1
<1>5. CASE /\ "noCredentials" \in may
           /\ client' = client \ {c}
           /\ net' = net \ {m}
           /\ neg' = IF c.type = "UPDATE" THEN [neg EXCEPT ![p] = CancelIfOffered(@)] ELSE neg
           /\ invite' = IF c.type = "INVITE" THEN [invite EXCEPT ![p] = NoInvite] ELSE invite
           /\ UNCHANGED <<cseq, sent>>
  <2> HIDE DEF c, m
  <2>1. \E n : /\ Concludes(p, c, m, n) /\ Silently(m)
               /\ IF c.type = "UPDATE" THEN Drops(p, n) ELSE n = neg[p]
    BY <1>2, <1>3, <1>5, Lapses
  <2> QED BY <1>2, <1>5, <2>1
<1> QED BY <1>1, <1>4, <1>5

LEMMA ResendStep ==
  ASSUME Basic, NEW p \in Parties, NEW c, NEW m, Resends(p, c, m)
  PROVE  Basic'
<1>1. /\ c \in client /\ c.id.from = p /\ m \in net /\ m.id = c.id /\ Types
      /\ SendRequest(p, c.type, c.sdp, client \ {c}, net \ {m})
      /\ may' = may /\ remoteCSeq' = remoteCSeq /\ neg' = neg /\ bodies' = bodies
  BY DEF Resends, Basic
<1>2. c.type \in Kinds /\ c.sdp \in Descs(bodies')
  BY <1>1, FieldFacts
<1>3. client \ {c} \in SUBSET client /\ net \ {m} \in SUBSET net
  OBVIOUS
<1>4. NegChange(p, neg[p]) /\ prepared' \in [Parties -> Descs(bodies')]
  BY <1>1, NegSame DEF Types, Resends
<1>5. Types'
  BY <1>1, <1>2, <1>3, <1>4, SendTypes
<1>6. \A d \in client : d \notin client \ {c} =>
        d.type = c.type /\ d.id.from = p /\ \A l \in net \ {m} : l.id # d.id
  BY <1>1 DEF Basic, Wired
<1>7. c.type = "INVITE" => \A d \in client \ {c} : d.type = "INVITE" => d.id.from # p
  BY <1>1, ClientFacts
<1>8. Wired' /\ Linked'
  BY <1>1, <1>2, <1>3, <1>6, <1>7, SendStep
<1> QED BY <1>5, <1>8 DEF Basic

LEMMA EndSteps ==
  ASSUME Basic, NEW p \in Parties,
         InviteAccepted(p) \/ InviteRefused(p) \/ UpdateAnswered(p) \/ Challenged(p) \/ TransportFails(p)
  PROVE  Basic'
<1>1. CASE InviteAccepted(p)
  <2>1. PICK c, m, n : \E s \in {NoSdp, n.activeLocal} :
          Concludes(p, c, m, n) /\ Acknowledging(p, m, s)
    BY <1>1, AcceptedTaken
  <2> QED BY <2>1, ConcludeStep
<1>2. CASE InviteRefused(p)
  <2>1. PICK c, m, n : Concludes(p, c, m, n) /\ Acknowledging(p, m, NoSdp)
    BY <1>2, RefusedTaken
  <2> QED BY <2>1, ConcludeStep
<1>3. CASE UpdateAnswered(p)
  <2>1. PICK c, m, n : Concludes(p, c, m, n) /\ Silently(m)
    BY <1>3, UpdateAnswerTaken
  <2> QED BY <2>1, ConcludeStep
<1>4. CASE Challenged(p)
  <2>1. (\E c, m : Resends(p, c, m)) \/ \E c, m, n : Concludes(p, c, m, n) /\ Silently(m)
    BY <1>4, ChallengeTaken
  <2> QED BY <2>1, ResendStep, ConcludeStep
<1>5. CASE TransportFails(p)
  <2>1. PICK c, m, n : Concludes(p, c, m, n) /\ Silently(m)
    BY <1>5, FailTaken
  <2> QED BY <2>1, ConcludeStep
<1> QED BY <1>1, <1>2, <1>3, <1>4, <1>5

-----------------------------------------------------------------------------
LEMMA BasicInit ==
  ASSUME Init
  PROVE  Basic
<1> DEFINE own(p) == IF p = First THEN 1 ELSE 2
           start(p) == [state |-> "done", local |-> NoSdp, remote |-> NoSdp, remoteAnswered |-> FALSE,
                        activeLocal |-> Sdp(1, own(p)), activeRemote |-> Sdp(1, 3 - own(p))]
<1>1. neg = [p \in Parties |-> start(p)] /\ bodies = 2
  BY DEF Init, First
<1>2. \A p \in Parties : start(p) \in Negs(2, 2)
  <2>1. \A b \in 1 .. 2 : Sdp(1, b) \in Offers(2) /\ Sdp(1, b) \in Descs(2)
    BY DEF Sdp, Offers, Descs
  <2>2. \A p \in Parties : own(p) \in 1 .. 2 /\ 3 - own(p) \in 1 .. 2
    OBVIOUS
  <2>3. NoSdp \in Descs(2)
    BY DEF Descs
  <2> QED BY <2>1, <2>2, <2>3 DEF Negs, States
<1>3. /\ neg \in [Parties -> Negs(bodies, bodies)]
      /\ \A p \in Parties : neg[p].activeLocal \in Offers(bodies)
  <2>1. neg \in [Parties -> Negs(bodies, bodies)]
    BY <1>1, <1>2
  <2>2. bodies \in Nat
    BY <1>1
  <2> QED BY <2>1, <2>2, NegFields
<1>4. sent \subseteq [by : Parties, sdp : Offers(bodies)]
  BY <1>3 DEF Init
<1>5. NoSdp \in Descs(bodies)
  BY DEF Descs
<1>6. Types
  BY <1>1, <1>3, <1>4, <1>5, NoInviteFacts, PartyFacts, BoundAssumption DEF Init, Types
<1>7. Wired /\ Linked
  BY PartyFacts DEF Init, Wired, Linked, OwnInvite, PeerInvite
<1> QED BY <1>6, <1>7 DEF Basic

LEMMA BasicStep ==
  ASSUME Basic, [Next]_vars
  PROVE  Basic'
<1>1. CASE Challenge
  BY <1>1, TurnAwaySteps
<1>2. ASSUME NEW p \in Parties, Step(p) PROVE Basic'
  BY <1>2, StartSteps, RefreshSteps, TurnAwaySteps, RespondSteps, AckSteps, EndSteps DEF Step
<1>3. CASE UNCHANGED vars
  BY <1>3 DEF vars, Basic, Types, Wired, Linked, OwnInvite, PeerInvite, First
<1> QED BY <1>1, <1>2, <1>3 DEF Next

LEMMA BasicAlways == Spec => []Basic
BY BasicInit, BasicStep, PTL DEF Spec

(* Every field of both parties is in its range, no SDP was sent with a      *)
(* body that was not made, and a party has one INVITE outstanding at a time *)
(* (mod_inv, pjsip_inv_invite and the negotiators).                         *)
THEOREM TypeCorrect == Spec => []TypeOK
<1>1. Basic => TypeOK
  <2> SUFFICES ASSUME Basic PROVE TypeOK
    OBVIOUS
  <2>1. Types
    BY DEF Basic
  <2>2. ASSUME NEW p \in Parties
        PROVE  /\ neg[p].state \in States /\ neg[p].remoteAnswered \in BOOLEAN
               /\ cseq[p] \in 0 .. MaxSent /\ remoteCSeq[p] \in 0 .. cseq[Peer(p)]
    <3>1. neg[p].state \in States /\ neg[p].remoteAnswered \in BOOLEAN
      BY <2>1, FieldFacts, NegFields DEF Types
    <3>2. /\ cseq[p] \in Nat /\ cseq[First] \in Nat /\ cseq[Peer(First)] \in Nat
          /\ p = First \/ p = Peer(First)
      BY <2>1, FieldFacts, PartyFacts, BothParties
    <3>3. cseq[p] \in 0 .. MaxSent
      BY <2>1, <3>2, BoundAssumption DEF Types
    <3>4. remoteCSeq[p] \in Nat /\ remoteCSeq[p] <= cseq[Peer(p)]
      BY <2>1, FieldFacts DEF Basic, Linked
    <3>5. cseq[Peer(p)] \in Nat
      BY <2>1, PartyFacts, FieldFacts
    <3> QED BY <3>1, <3>3, <3>4, <3>5
  <2>3. ASSUME NEW p \in Parties
        PROVE  Cardinality({c \in client : c.type = "INVITE" /\ c.id.from = p}) <= 1
    <3> DEFINE own == {c \in client : c.type = "INVITE" /\ c.id.from = p}
    <3>1. own = {} \/ \E c : own = {c}
      BY ClientFacts
    <3> HIDE DEF own
    <3>2. Cardinality(own) = 0 \/ Cardinality(own) = 1
      BY <3>1, FS_EmptySet, FS_Singleton
    <3>3. Cardinality(own) <= 1
      BY <3>2
    <3> QED BY <3>3 DEF own
  <2>4. \A x \in sent : x.sdp.body \in 1 .. bodies
    BY <2>1 DEF Types, Offers
  <2> QED BY <2>1, <2>2, <2>3, <2>4 DEF TypeOK, Types
<1> QED BY <1>1, BasicAlways, PTL

-----------------------------------------------------------------------------
(* No negotiator waits in vain. *)

(* The calls in which that holds; without any one of the four conditions it *)
(* does not.  A request that ends without an answer leaves its offer, a     *)
(* refresh can lose its turn to another thread, the offer in a 2xx has one  *)
(* ACK that must come with an answer, and an application that lets offers   *)
(* lie must not be given an answer that looks like one.                     *)
Orderly ==
  \A call \in Calls :
    /\ call \cap {"transport", "noCredentials"} # {} => call \cap {"reinvite", "refresh"} = {}
    /\ ~({"refresh", "twoWorkers"} \subseteq call)
    /\ "delayed" \in call => call \cap {"none", "ackLost", "update"} = {}
    /\ {"update", "answer", "none"} \subseteq call => call \cap {"reinvite", "refresh"} = {}

(* The peer's INVITE had no offer and was given one. *)
Given(p) == PeerInvite(p) /\ invite[p].code = 200 /\ ~invite[p].done

Attended(p) ==
  /\ neg[p].state \in {"done", "localOffer"}
  /\ neg[p].state = "localOffer" =>
       \/ prepared[p] # NoSdp
       \/ \E c \in client : c.id.from = p /\ c.sdp # NoSdp
       \/ Given(p)
  /\ prepared[p] # NoSdp =>
       "refresh" \in may /\ neg[p].state = "localOffer" /\ ~PeerInvite(p)
  /\ Given(p) => "delayed" \in may /\ ("update" \notin may => neg[p].state = "localOffer")

(* What a request of p says of the call and of the negotiator. *)
Fits(c) ==
  /\ c.type = "UPDATE" => "update" \in may /\ c.sdp # NoSdp
  /\ c.sdp = NoSdp => "delayed" \in may /\ neg[c.id.from].state = "done"
  /\ c.type = "INVITE" /\ c.sdp # NoSdp => may \cap {"reinvite", "refresh"} # {}
  /\ c.sdp # NoSdp /\ "update" \notin may => neg[c.id.from].state = "localOffer"

AnswersAllowed ==
  \A c \in client, m \in net :
    m.id = c.id /\ m.type = "response" /\ m.code = 200 /\ c.sdp # NoSdp => "answer" \in may

Pend ==
  /\ \A p \in Parties : Attended(p)
  /\ \A c \in client : Fits(c)
  /\ AnswersAllowed

LEMMA MayFacts ==
  ASSUME Orderly, Types
  PROVE  /\ "transport" \in may \/ "noCredentials" \in may => may \cap {"reinvite", "refresh"} = {}
         /\ ~("refresh" \in may /\ "twoWorkers" \in may)
         /\ "delayed" \in may => "none" \notin may /\ "ackLost" \notin may /\ "update" \notin may
         /\ ~("update" \in may /\ "answer" \in may /\ "none" \in may)
              \/ may \cap {"reinvite", "refresh"} = {}
BY DEF Orderly, Types

(* Nothing is received between the two halves of a refresh. *)
LEMMA NothingPrepared ==
  ASSUME Orderly, Basic, Pend, NEW p \in Parties, CanReceive(p)
  PROVE  prepared[p] = NoSdp
BY MayFacts DEF CanReceive, Pend, Attended, Basic

LEMMA NegAt ==
  ASSUME Types, NEW p \in Parties, NEW n, NegChange(p, n)
  PROVE  neg'[p] = n /\ \A q \in Parties : q # p => neg'[q] = neg[q]
BY DEF Types, NegChange

(* A handler of p changes p only; its peer is attended as before. *)
LEMMA OthersAttended ==
  ASSUME Basic, Pend, NEW p \in Parties, NEW n, NegChange(p, n), may' = may,
         \A q \in Parties : q # p => prepared'[q] = prepared[q] /\ invite'[q] = invite[q],
         \A c : c \in client /\ c.id.from # p => c \in client',
         Attended(p)',
         \A c \in client' : c.id.from = p \/ c \notin client => Fits(c)',
         \A c \in client', m \in net' : c \notin client \/ m \notin net =>
           (m.id = c.id /\ m.type = "response" /\ m.code = 200 /\ c.sdp # NoSdp => "answer" \in may)
  PROVE  Pend'
<1>1. \A q \in Parties : q # p => neg'[q] = neg[q]
  BY NegAt DEF Basic
<1>2. ASSUME NEW q \in Parties, q # p PROVE Attended(q)'
  <2>1. Attended(q) /\ neg'[q] = neg[q] /\ prepared'[q] = prepared[q] /\ invite'[q] = invite[q]
    BY <1>1, <1>2 DEF Pend
  <2>2. Given(q)' <=> Given(q)
    BY <2>1 DEF Given, PeerInvite
  <2>3. PeerInvite(q)' <=> PeerInvite(q)
    BY <2>1 DEF PeerInvite
  <2>4. ASSUME NEW c \in client, c.id.from = q PROVE c \in client'
    BY <2>4, <1>2
  <2> QED BY <2>1, <2>2, <2>3, <2>4 DEF Attended
<1>3. ASSUME NEW c \in client', c \in client, c.id.from # p PROVE Fits(c)'
  <2>1. Fits(c) /\ neg'[c.id.from] = neg[c.id.from]
    BY <1>1, <1>3, FieldFacts DEF Pend, Basic
  <2> QED BY <2>1 DEF Fits
<1>4. AnswersAllowed'
  BY DEF AnswersAllowed, Pend
<1> QED
  BY <1>2, <1>3, <1>4 DEF Pend

(* p sends a request, perhaps in place of one of its own. *)
LEMMA SendPend ==
  ASSUME Orderly, Basic, Pend, NEW p \in Parties, NEW type \in Kinds, NEW s, NEW n, NegChange(p, n),
         NEW X \in SUBSET client, NEW Y \in SUBSET net, SendRequest(p, type, s, X, Y), may' = may,
         \A c \in client : c \notin X => c.id.from = p,
         type = "INVITE" => \A c \in X : c.id.from = p => c.type = "UPDATE",
         \A q \in Parties : q # p => prepared'[q] = prepared[q],
         prepared'[p] # NoSdp => "refresh" \in may /\ n.state = "localOffer" /\
                                 (type = "UPDATE" => ~PeerInvite(p)),
         n.state = "done" \/ (n.state = "localOffer" /\ s # NoSdp),
         type = "UPDATE" => "update" \in may /\ s # NoSdp,
         s = NoSdp => "delayed" \in may /\ n.state = "done",
         type = "INVITE" /\ s # NoSdp => may \cap {"reinvite", "refresh"} # {},
         s # NoSdp /\ "update" \notin may => n.state = "localOffer"
  PROVE  Pend'
<1> DEFINE id == Id(p, cseq[p] + 1)
           new == [type |-> type, id |-> id, sdp |-> s]
           req == Request(type, id, s)
           own == [NoInvite EXCEPT !.id = id]
<1>1. /\ id \in Ids /\ id.from = p /\ id.cseq = cseq[p] + 1 /\ cseq[p] \in Nat
      /\ id.cseq \in Nat \ {0}
  BY FieldFacts DEF Basic, Id, Ids
<1>2. /\ new.type = type /\ new.id = id /\ new.sdp = s /\ req.type = type
      /\ own.id = id
  BY NoInviteFacts DEF Request
<1>3. /\ client' = X \cup {new} /\ net' = Y \cup {req}
      /\ invite' = IF type = "INVITE" THEN [invite EXCEPT ![p] = own] ELSE invite
  BY DEF SendRequest
<1>4. \A m \in net : m.id # id
  BY <1>1, FieldFacts DEF Basic, Wired
<1> HIDE DEF id, new, req, own
<1>5. neg'[p] = n /\ \A q \in Parties : q # p => invite'[q] = invite[q]
  BY <1>3, NegAt DEF Basic, Types
<1>6. type = "INVITE" => invite'[p] = own
  BY <1>3 DEF Basic, Types
<1>7. ~Given(p)' /\ (PeerInvite(p)' => type = "UPDATE" /\ PeerInvite(p))
  <2>1. CASE type = "INVITE"
    BY <1>1, <1>2, <1>6, <2>1 DEF Given, PeerInvite
  <2>2. CASE type = "UPDATE"
    <3>1. "delayed" \notin may
      BY <2>2, MayFacts DEF Basic
    <3>2. ~Given(p) /\ invite' = invite
      BY <1>3, <2>2, <3>1 DEF Pend, Attended
    <3> QED BY <2>2, <3>2 DEF Given, PeerInvite
  <2> QED BY <2>1, <2>2 DEF Kinds
<1>8. Attended(p)'
  <2>1. n.state = "localOffer" => \E c \in client' : c.id.from = p /\ c.sdp # NoSdp
    <3>1. n.state = "localOffer" => new \in client' /\ new.id.from = p /\ new.sdp # NoSdp
      BY <1>1, <1>2, <1>3
    <3> QED BY <3>1
  <2> QED BY <1>5, <1>7, <2>1 DEF Attended
<1>9. ASSUME NEW c \in client', c.id.from = p \/ c \notin client PROVE Fits(c)'
  <2>1. CASE c = new
    BY <1>1, <1>2, <1>5, <2>1 DEF Fits, Kinds
  <2>2. CASE c \in X
    <3>1. Fits(c) /\ c \in client /\ c.id.from = p /\ c.type \in Kinds
      BY <1>9, <2>2, FieldFacts DEF Pend, Basic
    <3>2. "update" \in may
      BY <2>2, <3>1 DEF Fits, Kinds
    <3>3. "delayed" \notin may
      BY <3>2, MayFacts DEF Basic
    <3> QED BY <3>1, <3>2, <3>3 DEF Fits
  <2> QED BY <1>3, <2>1, <2>2
<1>10. ASSUME NEW c \in client', NEW m \in net', c \notin client \/ m \notin net,
              m.id = c.id, m.type = "response"
       PROVE  FALSE
  BY <1>2, <1>3, <1>4, <1>10 DEF Kinds
<1>11. \A c : c \in client /\ c.id.from # p => c \in client'
  BY <1>3
<1> QED
  BY <1>5, <1>8, <1>9, <1>10, <1>11, OthersAttended

(* A request of p ends. *)
LEMMA ConcludePend ==
  ASSUME Orderly, Basic, Pend, NEW p \in Parties, NEW c, NEW m, NEW n, Concludes(p, c, m, n),
         Silently(m) \/ \E s : Acknowledging(p, m, s),
         n.state = "done", prepared[p] = NoSdp
  PROVE  Pend'
<1>1. /\ c \in client /\ c.id.from = p /\ client' = client \ {c} /\ NegChange(p, n) /\ may' = may
      /\ prepared' = prepared /\ c.type \in Kinds /\ Fits(c)
  BY FieldFacts DEF Concludes, Basic, Pend
<1>2. neg'[p] = n
  BY <1>1, NegAt DEF Basic
<1>3. /\ \A q \in Parties : q # p => invite'[q] = invite[q]
      /\ invite'[p] = NoInvite \/ (invite'[p] = invite[p] /\ c.type = "UPDATE")
  BY <1>1 DEF Concludes, Basic, Types, Kinds
<1>4. ~Given(p)'
  BY <1>1, <1>3, MayFacts DEF Given, PeerInvite, Pend, Attended, Fits, Basic
<1>5. Attended(p)'
  BY <1>1, <1>2, <1>4 DEF Attended
<1>6. ASSUME NEW d \in client', d.id.from = p PROVE Fits(d)'
  <2>1. d \in client /\ d # c /\ Fits(d) /\ d.type \in Kinds
    BY <1>1, <1>6, FieldFacts DEF Pend, Basic
  <2>2. c.type = "UPDATE" \/ d.type = "UPDATE"
    BY <1>1, <1>6, <2>1, ClientFacts DEF Kinds
  <2>3. "update" \in may
    BY <1>1, <2>1, <2>2 DEF Fits
  <2> QED BY <1>1, <1>2, <1>6, <2>1, <2>3 DEF Fits
<1>7. \A l \in net' : l \notin net => l.type = "ACK"
  BY DEF Silently, Acknowledging, Ack
<1>8. \A d \in client' : d \in client
  BY <1>1
<1>9. \A d : d \in client /\ d.id.from # p => d \in client'
  BY <1>1
<1> QED
  BY <1>1, <1>3, <1>5, <1>6, <1>7, <1>8, <1>9, OthersAttended

(* p answers a request. *)
LEMMA RespondPend ==
  ASSUME Orderly, Basic, Pend, NEW p \in Parties, NEW type \in Kinds, NEW m \in Requests(p, type),
         NEW n \in Negs(bodies, bodies + 1), NEW code, NEW s, Respond(p, m, n, code, s),
         \A q \in Parties : q # p => invite'[q] = invite[q],
         Attended(p)', \A c \in client : c.id.from = p => Fits(c)',
         code = 200 => "answer" \in may \/ m.sdp = NoSdp
  PROVE  Pend'
<1>1. /\ NegChange(p, n) /\ client' = client /\ may' = may /\ prepared' = prepared
      /\ net' = (net \ {m}) \cup {Response(m.id, code, s)}
  BY DEF Respond, NegChange
<1>2. \A c \in client : c.id = m.id => c.sdp = m.sdp
  BY DEF Requests, Basic, Wired
<1>3. \A l \in net' : l \notin net => l.id = m.id /\ l.code = code
  BY <1>1 DEF Response
<1> QED
  BY <1>1, <1>2, <1>3, OthersAttended

(* A negotiator that is free or has its offer. *)
LEMMA PendFields ==
  ASSUME Orderly, Basic, Pend, NEW p \in Parties
  PROVE  /\ Types /\ Attended(p) /\ neg[p].state \in {"done", "localOffer"}
         /\ neg[p] \in Negs(bodies, bodies) /\ bodies \in Nat
         /\ prepared[p] # NoSdp => "refresh" \in may /\ neg[p].state = "localOffer" /\ ~PeerInvite(p)
         /\ neg[p].state = "localOffer" => neg[p].local # NoSdp
         /\ \A s \in Offers(bodies) \cup Offers(bodies + 1) : s # NoSdp
<1>1. bodies \in Nat /\ neg[p] \in Negs(bodies, bodies)
  BY FieldFacts DEF Basic, Types
<1>2. \A s \in Offers(bodies) \cup Offers(bodies + 1) : s # NoSdp
  BY <1>1 DEF Offers, NoSdp
<1> QED
  BY <1>1, <1>2, NegFields DEF Basic, Pend, Attended

LEMMA InvitePend ==
  ASSUME Orderly, Basic, Pend, NEW p \in Parties, Reinvite(p) \/ Delayed(p)
  PROVE  Pend'
<1>1. /\ Types /\ Attended(p) /\ neg[p].state \in {"done", "localOffer"}
      /\ neg[p] \in Negs(bodies, bodies) /\ bodies \in Nat
      /\ prepared[p] # NoSdp => "refresh" \in may /\ neg[p].state = "localOffer" /\ ~PeerInvite(p)
      /\ neg[p].state = "localOffer" => neg[p].local # NoSdp
      /\ \A s \in Offers(bodies) \cup Offers(bodies + 1) : s # NoSdp
  BY PendFields
<1>2. ASSUME NEW n \in Negs(bodies, bodies + 1), SendInvite(p, n),
             n.state \in {"done", "localOffer"}, n.state = "localOffer" => n.local # NoSdp,
             neg[p].state = "localOffer" => n.state = "localOffer",
             n.state = "done" => "delayed" \in may,
             n.state = "localOffer" => may \cap {"reinvite", "refresh"} # {}
      PROVE  Pend'
  <2>1. /\ SendRequest(p, "INVITE", Carried(n), client, net) /\ "INVITE" \in Kinds
        /\ NegChange(p, n) /\ may' = may /\ prepared' = prepared /\ invite[p] = NoInvite
    BY <1>2 DEF SendInvite, NegChange, Kinds
  <2>2. /\ n.state = "localOffer" => Carried(n) = n.local
        /\ n.state = "done" => Carried(n) = NoSdp
    BY <1>2 DEF Carried, HasLocalAnswer
  <2>3. \A c \in client : c.id.from = p => c.type = "UPDATE"
    BY <2>1, FieldFacts, ClientFacts DEF OwnInvite, Kinds, Basic
  <2>4. client \in SUBSET client /\ net \in SUBSET net
    OBVIOUS
  <2> QED BY <1>1, <1>2, <2>1, <2>2, <2>3, <2>4, SendPend
<1>3. CASE Reinvite(p)
  <2> DEFINE n == Offered(neg[p], bodies + 1)
  <2>1. /\ n \in Negs(bodies, bodies + 1)
        /\ neg[p].state = "done" => n = ModifyLocalOffer(neg[p], bodies + 1)
        /\ neg[p].state = "localOffer" => n = neg[p]
    BY <1>1, OfferFacts
  <2>2. neg[p].state = "done" => n.state = "localOffer" /\ n.local \in Offers(bodies + 1)
    BY <1>1, <2>1, ModifyFacts
  <2>3. SendInvite(p, n) /\ "reinvite" \in may
    BY <1>3 DEF Reinvite
  <2> HIDE DEF n
  <2>4. n.state = "localOffer" /\ n.local # NoSdp
    BY <1>1, <2>1, <2>2
  <2> QED BY <1>2, <2>1, <2>3, <2>4
<1>4. CASE Delayed(p)
  <2>1. SendInvite(p, neg[p]) /\ "delayed" \in may /\ invite[p] = NoInvite
    BY <1>4 DEF Delayed, SendInvite
  <2>2. neg[p] \in Negs(bodies, bodies + 1)
    BY <1>1, OneMore
  <2>3. neg[p].state = "localOffer" => may \cap {"reinvite", "refresh"} # {}
    <3>1. ~Given(p)
      BY <2>1 DEF Given, PeerInvite
    <3>2. ASSUME NEW c \in client, c.id.from = p, c.sdp # NoSdp
          PROVE  may \cap {"reinvite", "refresh"} # {}
      <4>1. Fits(c) /\ c.type \in Kinds
        BY FieldFacts DEF Pend, Basic
      <4> QED BY <2>1, <3>2, <4>1, MayFacts DEF Fits, Kinds, Basic
    <3> QED BY <1>1, <3>1, <3>2 DEF Attended
  <2> QED BY <1>1, <1>2, <2>1, <2>2, <2>3
<1> QED BY <1>3, <1>4

LEMMA UpdatePend ==
  ASSUME Orderly, Basic, Pend, NEW p \in Parties, Update(p)
  PROVE  Pend'
<1>1. /\ Types /\ neg[p] \in Negs(bodies, bodies) /\ bodies \in Nat
      /\ prepared[p] # NoSdp => neg[p].state = "localOffer"
      /\ \A s \in Offers(bodies) \cup Offers(bodies + 1) : s # NoSdp
  BY PendFields
<1> DEFINE n == ModifyLocalOffer(neg[p], bodies + 1)
<1>2. /\ n \in Negs(bodies, bodies + 1) /\ n.state = "localOffer" /\ n.local \in Offers(bodies + 1)
      /\ n.local.body = bodies + 1
  BY <1>1, ModifyFacts
<1>3. /\ neg' = [neg EXCEPT ![p] = n] /\ SendRequest(p, "UPDATE", n.local, client, net)
      /\ bodies' = bodies + 1 /\ may' = may /\ prepared' = prepared
      /\ "update" \in may /\ neg[p].state = "done"
  BY DEF Update
<1> HIDE DEF n
<1>4. NegChange(p, n)
  BY <1>2, <1>3 DEF NegChange, NextBody
<1>5. client \in SUBSET client /\ net \in SUBSET net /\ "UPDATE" \in Kinds /\ n.local # NoSdp
  BY <1>1, <1>2 DEF Kinds
<1>6. prepared'[p] = NoSdp
  BY <1>1, <1>3
<1> QED BY <1>2, <1>3, <1>4, <1>5, <1>6, SendPend

LEMMA RefreshPend ==
  ASSUME Orderly, Basic, Pend, NEW p \in Parties, RefreshPrepare(p) \/ RefreshSend(p)
  PROVE  Pend'
<1>1. /\ Types /\ Attended(p) /\ neg[p] \in Negs(bodies, bodies) /\ bodies \in Nat
      /\ prepared[p] # NoSdp => "refresh" \in may /\ neg[p].state = "localOffer" /\ ~PeerInvite(p)
      /\ \A s \in Offers(bodies) \cup Offers(bodies + 1) : s # NoSdp
  BY PendFields
<1>2. CASE RefreshPrepare(p)
  <2> DEFINE n == SendLocalOffer(neg[p])
  <2>1. /\ n \in Negs(bodies, bodies) /\ n.state = "localOffer"
        /\ neg[p].activeLocal \in Offers(bodies)
    BY <1>1, <1>2, SendLocalFacts, NegFields DEF RefreshPrepare
  <2>2. /\ neg' = [neg EXCEPT ![p] = n] /\ prepared' = [prepared EXCEPT ![p] = neg[p].activeLocal]
        /\ "refresh" \in may /\ invite[p] = NoInvite /\ neg[p].state = "done"
        /\ UNCHANGED <<may, invite, client, net, cseq, remoteCSeq, bodies, sent>>
    BY <1>2 DEF RefreshPrepare
  <2> HIDE DEF n
  <2>3. NegChange(p, n)
    BY <1>1, <2>1, <2>2, NoNewBody
  <2>4. neg'[p] = n
    BY <1>1, <2>3, NegAt
  <2>5. /\ prepared'[p] # NoSdp
        /\ \A q \in Parties : q # p => prepared'[q] = prepared[q]
    BY <1>1, <2>1, <2>2 DEF Types
  <2>6. Attended(p)'
    BY <2>1, <2>2, <2>4, <2>5 DEF Attended, Given, PeerInvite
  <2>7. ASSUME NEW c \in client, c.id.from = p PROVE Fits(c)'
    <3>1. Fits(c) /\ c.type \in Kinds /\ c.type # "INVITE"
      BY <2>2, <2>7, ClientFacts, FieldFacts DEF Pend, Basic, OwnInvite
    <3>2. "update" \in may
      BY <3>1 DEF Fits, Kinds
    <3> QED BY <2>1, <2>2, <2>4, <2>7, <3>1, <3>2 DEF Fits, Kinds
  <2> QED BY <2>2, <2>3, <2>5, <2>6, <2>7, OthersAttended
<1>3. CASE RefreshSend(p)
  <2>1. /\ prepared[p] # NoSdp /\ prepared' = [prepared EXCEPT ![p] = NoSdp]
        /\ UNCHANGED <<may, neg, remoteCSeq, bodies>>
    BY <1>3 DEF RefreshSend
  <2>2. /\ prepared'[p] = NoSdp
        /\ \A q \in Parties : q # p => prepared'[q] = prepared[q]
    BY <1>1, <2>1 DEF Types
  <2>3. NegChange(p, neg[p])
    BY <1>1, <2>1, NegSame
  <2>4. CASE invite[p] = NoInvite /\ SendRequest(p, "INVITE", prepared[p], client, net)
    <3>1. \A c \in client : c.id.from = p => c.type = "UPDATE"
      BY <2>4, FieldFacts, ClientFacts DEF OwnInvite, Kinds, Basic
    <3>2. client \in SUBSET client /\ net \in SUBSET net /\ "INVITE" \in Kinds
      BY DEF Kinds
    <3>3. may \cap {"reinvite", "refresh"} # {}
      BY <1>1, <2>1
    <3> QED BY <1>1, <2>1, <2>2, <2>3, <2>4, <3>1, <3>2, <3>3, SendPend
  <2>5. CASE invite[p] # NoInvite /\ UNCHANGED <<invite, client, net, cseq, sent>>
    <3>1. OwnInvite(p) /\ ~PeerInvite(p)
      BY <1>1, <2>1, <2>5 DEF PeerInvite, OwnInvite
    <3>2. PICK c \in client : c.id = invite[p].id /\ c.type = "INVITE"
      BY <3>1 DEF Basic, Linked
    <3>3. c.id.from = p /\ c.sdp # NoSdp
      <4>1. Fits(c) /\ c.id.from = p
        BY <3>1, <3>2 DEF Pend, OwnInvite
      <4> QED BY <1>1, <2>1, <4>1 DEF Fits
    <3>4. neg' = neg /\ may' = may /\ client' = client /\ invite' = invite /\ net' = net
      BY <2>1, <2>5
    <3>5. Attended(p)'
      BY <1>1, <2>2, <3>1, <3>3, <3>4 DEF Attended, Given, PeerInvite
    <3>6. \A d \in client : Fits(d)'
      BY <3>4 DEF Pend, Fits
    <3> QED BY <2>2, <2>3, <3>4, <3>5, <3>6, OthersAttended
  <2> QED BY <1>3, <2>4, <2>5 DEF RefreshSend
<1> QED BY <1>2, <1>3

(* A request is turned away: nothing that matters here has changed. *)
LEMMA RebuffPend ==
  ASSUME Basic, Pend, Challenge \/ \E p \in Parties : RxStale(p)
  PROVE  Pend'
<1>1. UNCHANGED <<may, neg, invite, client, prepared>>
  BY DEF Challenge, RxStale
<1>2. \A l \in net' : l \in net \/ l.code # 200
  BY DEF Challenge, RxStale, Response
<1>3. \A p \in Parties : Attended(p)'
  BY <1>1 DEF Pend, Attended, Given, PeerInvite
<1>4. \A c \in client' : Fits(c)'
  BY <1>1 DEF Pend, Fits
<1>5. AnswersAllowed'
  BY <1>1, <1>2 DEF Pend, AnswersAllowed
<1> QED BY <1>3, <1>4, <1>5 DEF Pend

LEMMA RespondsPend ==
  ASSUME Orderly, Basic, Pend, NEW p \in Parties,
         \/ RxInviteBusy(p) \/ RxInviteGlare(p) \/ RxInviteOffer(p) \/ RxInviteNoOffer(p)
         \/ RxUpdate(p)
  PROVE  Pend'
<1>1. /\ Types /\ Attended(p) /\ neg[p].state \in {"done", "localOffer"}
      /\ neg[p] \in Negs(bodies, bodies) /\ bodies \in Nat /\ neg[p] \in Negs(bodies, bodies + 1)
      /\ "INVITE" \in Kinds /\ "UPDATE" \in Kinds
  BY PendFields, OneMore DEF Kinds
<1>2. prepared[p] = NoSdp
  BY NothingPrepared DEF RxInviteBusy, RxInviteGlare, RxInviteOffer, RxInviteNoOffer, RxUpdate
<1>3. ASSUME NEW m, NEW n, NEW code, NEW s, Respond(p, m, n, code, s), n \in Negs(bodies, bodies + 1)
      PROVE  /\ neg'[p] = n /\ may' = may /\ client' = client /\ prepared' = prepared
  BY <1>1, <1>3, NegAt DEF Respond, NegChange
(* The negotiator is as it was, and no offer was given. *)
<1>4. ASSUME NEW type \in Kinds, NEW m \in Requests(p, type), NEW code, code # 200,
             Respond(p, m, neg[p], code, NoSdp),
             \/ invite' = invite
             \/ invite[p] = NoInvite /\ Waits(p, m, code)
      PROVE  Pend'
  <2>1. neg'[p] = neg[p] /\ may' = may /\ client' = client /\ prepared' = prepared
    BY <1>1, <1>3, <1>4
  <2>2. \A q \in Parties : q # p => invite'[q] = invite[q]
    BY <1>1, <1>4 DEF Waits, Types
  <2>3. Given(p)' <=> Given(p)
    <3>1. CASE invite' = invite
      BY <3>1 DEF Given, PeerInvite
    <3>2. CASE invite[p] = NoInvite /\ Waits(p, m, code)
      <4>1. invite'[p].code = code
        BY <1>1, <3>2 DEF Waits, Types
      <4> QED BY <1>4, <3>2, <4>1 DEF Given, PeerInvite
    <3> QED BY <1>4, <3>1, <3>2
  <2>4. Attended(p)'
    BY <1>1, <1>2, <2>1, <2>3 DEF Attended
  <2>5. ASSUME NEW c \in client, c.id.from = p PROVE Fits(c)'
    BY <2>1, <2>5 DEF Fits, Pend
  <2> QED BY <1>1, <1>4, <2>2, <2>4, <2>5, RespondPend
(* The negotiator is free after the offer as it was before. *)
<1>5. ASSUME NEW type \in Kinds, NEW m \in Requests(p, type), NEW code, NEW n, NEW s,
             neg[p].state = "done", Settles(p, m, n, code, s),
             \/ type = "UPDATE" /\ invite' = invite
             \/ invite[p] = NoInvite /\ code = 200 /\ Finishes(p, m, code)
             \/ invite[p] = NoInvite /\ code # 200 /\ Waits(p, m, code)
      PROVE  Pend'
  <2>1. /\ neg'[p] = n /\ may' = may /\ client' = client /\ prepared' = prepared /\ n.state = "done"
        /\ n \in Negs(bodies, bodies + 1) /\ Respond(p, m, n, code, s)
    BY <1>3, <1>5 DEF Settles
  <2>2. \A q \in Parties : q # p => invite'[q] = invite[q]
    BY <1>1, <1>5 DEF Waits, Finishes, Types
  <2>3. ~Given(p)'
    <3>1. CASE type = "UPDATE" /\ invite' = invite
      <4>1. PICK c \in client : c.id = m.id /\ c.type = "UPDATE"
        BY <1>5, <3>1 DEF Requests, Basic, Wired, Kinds
      <4>2. "update" \in may
        BY <4>1 DEF Pend, Fits
      <4> QED BY <1>1, <3>1, <4>2, MayFacts DEF Attended, Given, PeerInvite
    <3>2. CASE code = 200 /\ Finishes(p, m, code)
      <4>1. invite'[p].done
        BY <1>1, <3>2 DEF Finishes, Types
      <4> QED BY <4>1 DEF Given
    <3>3. CASE code # 200 /\ Waits(p, m, code)
      <4>1. invite'[p].code = code
        BY <1>1, <3>3 DEF Waits, Types
      <4> QED BY <3>3, <4>1 DEF Given
    <3> QED BY <1>5, <3>1, <3>2, <3>3
  <2>4. Attended(p)'
    BY <1>2, <2>1, <2>3 DEF Attended
  <2>5. ASSUME NEW c \in client, c.id.from = p PROVE Fits(c)'
    BY <1>5, <2>1, <2>5 DEF Fits, Pend
  <2>6. code = 200 => "answer" \in may
    BY <1>5 DEF Settles
  <2> QED BY <1>5, <2>1, <2>2, <2>4, <2>5, <2>6, RespondPend
<1>6. CASE RxInviteBusy(p)
  <2>1. PICK m \in Requests(p, "INVITE") :
          Respond(p, m, neg[p], 491, NoSdp) \/ Respond(p, m, neg[p], 500, NoSdp)
    BY <1>6 DEF RxInviteBusy
  <2>2. invite' = invite
    BY <1>6 DEF RxInviteBusy
  <2> QED BY <1>1, <1>4, <2>1, <2>2
<1>7. CASE RxInviteGlare(p)
  <2>1. PICK m \in Requests(p, "INVITE") :
          Respond(p, m, neg[p], 491, NoSdp) /\ Waits(p, m, 491)
    BY <1>7 DEF RxInviteGlare, Pending, Waits
  <2>2. invite[p] = NoInvite
    BY <1>7 DEF RxInviteGlare
  <2> QED BY <1>1, <1>4, <2>1, <2>2
<1>8. CASE RxInviteOffer(p)
  <2>1. PICK m \in Requests(p, "INVITE"), code \in {200, 488, 500} : \E n, s :
          /\ Settles(p, m, n, code, s)
          /\ \/ code = 200 /\ Finishes(p, m, code)
             \/ code # 200 /\ Waits(p, m, code)
    BY <1>8, OfferTaken
  <2>2. invite[p] = NoInvite /\ neg[p].state = "done"
    BY <1>8, OfferTaken
  <2> QED BY <1>1, <1>5, <2>1, <2>2
<1>9. CASE RxInviteNoOffer(p)
  <2>1. PICK m \in Requests(p, "INVITE"),
             n \in {ModifyLocalOffer(neg[p], bodies + 1), SendLocalOffer(neg[p])} :
          m.sdp = NoSdp /\ Respond(p, m, n, 200, n.local) /\ Waits(p, m, 200)
    BY <1>9 DEF RxInviteNoOffer, Pending, Waits
  <2>2. invite[p] = NoInvite /\ neg[p].state = "done"
    BY <1>9 DEF RxInviteNoOffer
  <2>3. n \in Negs(bodies, bodies + 1) /\ n.state = "localOffer"
    <3>1. CASE n = ModifyLocalOffer(neg[p], bodies + 1)
      BY <1>1, <3>1, ModifyFacts
    <3>2. CASE n = SendLocalOffer(neg[p])
      <4>1. n \in Negs(bodies, bodies) /\ n.state = "localOffer"
        BY <1>1, <2>2, <3>2, SendLocalFacts
      <4> QED BY <1>1, <4>1, OneMore
    <3> QED BY <3>1, <3>2
  <2>4. /\ neg'[p] = n /\ may' = may /\ client' = client /\ prepared' = prepared
        /\ \A q \in Parties : q # p => invite'[q] = invite[q]
        /\ invite'[p].id = m.id /\ invite'[p].code = 200 /\ ~invite'[p].done
    BY <1>1, <1>3, <2>1, <2>3 DEF Waits, Types
  <2>5. "delayed" \in may /\ "update" \notin may /\ m.id.from # p /\ m.id.cseq # 0
    <3>1. PICK c \in client : c.id = m.id /\ c.type = "INVITE" /\ c.sdp = m.sdp
      BY DEF Requests, Basic, Wired, Kinds
    <3> QED BY <2>1, <3>1, MayFacts, ClientFacts DEF Pend, Fits, Requests, Basic
  <2>6. Given(p)'
    BY <2>4, <2>5, NoInviteFacts DEF Given, PeerInvite
  <2>7. Attended(p)'
    BY <1>2, <2>3, <2>4, <2>5, <2>6 DEF Attended
  <2>8. \A c \in client : c.id.from # p
    BY <2>2, <2>5, ClientFacts, FieldFacts DEF Pend, Fits, OwnInvite, Basic, Kinds
  <2> QED BY <1>1, <2>1, <2>3, <2>4, <2>7, <2>8, RespondPend
<1>10. CASE RxUpdate(p)
  <2>1. PICK m \in Requests(p, "UPDATE"), code \in {200, 488, 491, 500} : \E n, s :
          \/ neg[p].state = "done" /\ Settles(p, m, n, code, s)
          \/ code # 200 /\ n = neg[p] /\ s = NoSdp /\ Respond(p, m, n, code, s)
    BY <1>10, UpdateTaken
  <2>2. invite' = invite
    BY <1>10, UpdateTaken
  <2> QED BY <1>1, <1>4, <1>5, <2>1, <2>2
<1> QED BY <1>6, <1>7, <1>8, <1>9, <1>10

(* The ACK of a 200 brings the answer, if one is due. *)
LEMMA AckPend ==
  ASSUME Orderly, Basic, Pend, NEW p \in Parties, RxAck(p) \/ RxFailureAck(p) \/ AckLost(p)
  PROVE  Pend'
<1>1. /\ Types /\ Attended(p) /\ neg[p].state \in {"done", "localOffer"}
      /\ neg[p] \in Negs(bodies, bodies) /\ bodies \in Nat
  BY PendFields
<1>2. ASSUME NEW id, Ended(p, id)
      PROVE  /\ \A q \in Parties : q # p => invite'[q] = invite[q]
             /\ invite[p].id = id => invite'[p] = NoInvite
             /\ invite[p].id # id => invite'[p] = invite[p]
  BY <1>1, <1>2 DEF Ended, Types
<1>3. ASSUME NEW m \in net, m.type = "ACK", m.id.from # p, invite[p].id = m.id
      PROVE  PeerInvite(p) /\ invite[p].code # 0 /\ invite[p].code = m.code
  <2>1. invite[p] # NoInvite
    BY <1>1, <1>3, FieldFacts, NoInviteFacts DEF Basic, Wired
  <2> QED BY <1>3, <2>1 DEF PeerInvite, Basic, Linked
<1>4. CASE RxAck(p)
  <2>1. PICK m \in net, reply \in Replies \cap may : \E n :
           LET heard == IF invite[p].done THEN neg[p]
                        ELSE CheckSdp(neg[p], m.sdp, reply, bodies + 1)
           IN /\ m.type = "ACK" /\ m.code = 200 /\ m.id.from # p
              /\ heard \in Negs(bodies, bodies + 1)
              /\ \/ invite[p].id = m.id /\ invite[p].code # 0 /\ n = CancelIfOffered(heard)
                 \/ ~(invite[p].id = m.id /\ invite[p].code # 0) /\ n = neg[p]
              /\ NegChange(p, n)
              /\ net' = net \ {m} /\ Ended(p, m.id)
              /\ UNCHANGED <<may, client, prepared, cseq, sent>>
    BY <1>4, AckTaken
  <2> DEFINE heard == IF invite[p].done THEN neg[p]
                      ELSE CheckSdp(neg[p], m.sdp, reply, bodies + 1)
  <2>2. PICK n : /\ \/ invite[p].id = m.id /\ invite[p].code # 0 /\ n = CancelIfOffered(heard)
                    \/ ~(invite[p].id = m.id /\ invite[p].code # 0) /\ n = neg[p]
                 /\ NegChange(p, n)
    BY <2>1
  <2>3. /\ m.type = "ACK" /\ m.code = 200 /\ m.id.from # p /\ heard \in Negs(bodies, bodies + 1)
        /\ net' = net \ {m} /\ Ended(p, m.id)
        /\ may' = may /\ client' = client /\ prepared' = prepared
    BY <2>1
  <2>4. neg'[p] = n /\ prepared[p] = NoSdp
    BY <1>1, <1>4, <2>2, NegAt, NothingPrepared DEF RxAck
  <2>5. CASE invite[p].id = m.id
    <3>1. PeerInvite(p) /\ invite[p].code = 200 /\ n = CancelIfOffered(heard)
      BY <1>3, <2>2, <2>3, <2>5
    <3>2. heard.state \in {"done", "localOffer"}
      <4>1. CASE invite[p].done
        BY <1>1, <4>1
      <4>2. CASE ~invite[p].done
        <5>1. "update" \notin may /\ neg[p].state = "localOffer"
          <6>1. Given(p)
            BY <3>1, <4>2 DEF Given
          <6> QED BY <1>1, <6>1, MayFacts DEF Attended
        <5>2. m.sdp \in Descs(bodies)
          BY <1>1, FieldFacts
        <5> QED BY <1>1, <4>2, <5>1, <5>2, CheckFacts
      <4> QED BY <4>1, <4>2
    <3>3. n.state = "done"
      <4> HIDE DEF heard
      <4>1. bodies + 1 \in Nat
        BY <1>1
      <4> QED BY <1>1, <2>3, <3>1, <3>2, <4>1, CancelIfOfferedFacts
    <3>4. ~Given(p)'
      BY <1>2, <2>3, <2>5 DEF Given, PeerInvite
    <3>5. Attended(p)'
      BY <2>3, <2>4, <3>3, <3>4 DEF Attended
    <3>6. ASSUME NEW c \in client, c.id.from = p PROVE Fits(c)'
      <4>1. Fits(c) /\ c.type \in Kinds /\ c.type # "INVITE"
        BY <1>1, <3>1, <3>6, FieldFacts, ClientFacts DEF Pend, OwnInvite, PeerInvite
      <4> QED BY <2>3, <2>4, <3>3, <3>6, <4>1 DEF Fits, Kinds
    <3> QED BY <1>2, <2>2, <2>3, <3>5, <3>6, OthersAttended
  <2>6. CASE invite[p].id # m.id
    <3>1. n = neg[p] /\ invite'[p] = invite[p]
      BY <1>2, <2>2, <2>3, <2>6
    <3>2. Attended(p)'
      BY <1>1, <2>3, <2>4, <3>1 DEF Attended, Given, PeerInvite
    <3>3. ASSUME NEW c \in client, c.id.from = p PROVE Fits(c)'
      BY <2>3, <2>4, <3>1, <3>3 DEF Fits, Pend
    <3> QED BY <1>2, <2>2, <2>3, <3>2, <3>3, OthersAttended
  <2> QED BY <2>5, <2>6
<1>5. CASE RxFailureAck(p) \/ AckLost(p)
  <2>1. PICK m \in net : m.type = "ACK" /\ m.id.from # p /\ net' = net \ {m} /\ Ended(p, m.id) /\
                         (m.code = 200 => "ackLost" \in may)
    BY <1>5 DEF RxFailureAck, AckLost
  <2>2. UNCHANGED <<may, neg, client, prepared, cseq, remoteCSeq, bodies, sent>>
    BY <1>5 DEF RxFailureAck, AckLost
  <2>3. NegChange(p, neg[p])
    BY <1>1, <2>2, NegSame
  <2>4. Given(p)' <=> Given(p)
    <3>1. CASE invite[p].id = m.id
      BY <1>1, <1>2, <1>3, <2>1, <3>1, MayFacts DEF Given, PeerInvite, Attended
    <3>2. CASE invite[p].id # m.id
      BY <1>2, <2>1, <3>2 DEF Given, PeerInvite
    <3> QED BY <3>1, <3>2
  <2>5. PeerInvite(p)' => PeerInvite(p)
    BY <1>2, <2>1 DEF PeerInvite
  <2>6. Attended(p)'
    BY <1>1, <2>2, <2>4, <2>5 DEF Attended
  <2>7. ASSUME NEW c \in client, c.id.from = p PROVE Fits(c)'
    BY <2>2, <2>7 DEF Fits, Pend
  <2> QED BY <1>2, <2>1, <2>2, <2>3, <2>6, <2>7, OthersAttended
<1> QED BY <1>4, <1>5

LEMMA EndsPend ==
  ASSUME Orderly, Basic, Pend, NEW p \in Parties,
         InviteAccepted(p) \/ InviteRefused(p) \/ UpdateAnswered(p) \/ Challenged(p) \/ TransportFails(p)
  PROVE  Pend'
<1>1. Types /\ Attended(p) /\ neg[p].state \in {"done", "localOffer"}
  BY PendFields
<1>2. ASSUME NEW n, Drops(p, n) PROVE n.state = "done"
  BY <1>1, <1>2 DEF Drops, CancelIfOffered
<1>3. ASSUME InviteAccepted(p) \/ InviteRefused(p) \/ UpdateAnswered(p) \/ Challenged(p)
      PROVE  prepared[p] = NoSdp
  BY <1>3, NothingPrepared DEF InviteAccepted, InviteRefused, UpdateAnswered, Challenged
(* A request that ends without an answer has no offer, or is an UPDATE. *)
<1>4. ASSUME NEW c, NEW m, NEW n, Concludes(p, c, m, n), Silently(m), prepared[p] = NoSdp,
             "transport" \in may \/ "noCredentials" \in may,
             IF c.type = "UPDATE" THEN Drops(p, n) ELSE n = neg[p]
      PROVE  Pend'
  <2>1. c \in client /\ c.id.from = p /\ c.type \in Kinds /\ Fits(c)
    BY <1>1, <1>4, FieldFacts DEF Concludes, Pend
  <2>2. n.state = "done"
    BY <1>1, <1>2, <1>4, <2>1, MayFacts DEF Fits, Kinds
  <2> QED BY <1>4, <2>2, ConcludePend
<1>5. CASE InviteAccepted(p)
  <2>1. PICK c, m, n : \E s \in {NoSdp, n.activeLocal} :
           /\ Concludes(p, c, m, n) /\ Acknowledging(p, m, s)
           /\ c.type = "INVITE" /\ m.type = "response" /\ m.code = 200
           /\ neg[p].state = "localOffer" => n.state = "done"
           /\ neg[p].state = "done" /\ m.sdp = NoSdp => n = neg[p]
           /\ neg[p].state = "done" /\ m.sdp # NoSdp => "none" \in may \/ n.state = "done"
    BY <1>5, AcceptedTaken
  <2>2. c \in client /\ c.id.from = p /\ m \in net /\ m.id = c.id /\ Fits(c)
    BY <2>1 DEF Concludes, Pend
  <2>3. "none" \in may => neg[p].state = "localOffer"
    <3>1. ASSUME "none" \in may, neg[p].state = "done" PROVE FALSE
      <4>1. c.sdp # NoSdp
        BY <1>1, <2>2, <3>1, MayFacts DEF Fits
      <4>2. "update" \in may /\ may \cap {"reinvite", "refresh"} # {}
        BY <2>1, <2>2, <3>1, <4>1 DEF Fits
      <4>3. "answer" \in may
        BY <2>1, <2>2, <4>1 DEF Pend, AnswersAllowed
      <4> QED BY <1>1, <3>1, <4>2, <4>3, MayFacts
    <3> QED BY <1>1, <3>1
  <2>4. n.state = "done"
    BY <1>1, <2>1, <2>3
  <2> QED BY <1>3, <1>5, <2>1, <2>4, ConcludePend
<1>6. CASE InviteRefused(p)
  <2>1. PICK c, m, n : Concludes(p, c, m, n) /\ Acknowledging(p, m, NoSdp) /\ Drops(p, n)
    BY <1>6, RefusedTaken
  <2> QED BY <1>2, <1>3, <1>6, <2>1, ConcludePend
<1>7. CASE UpdateAnswered(p)
  <2>1. PICK c, m, n : /\ Concludes(p, c, m, n) /\ Silently(m)
                       /\ Drops(p, n) \/ n.state = "done"
    BY <1>7, UpdateAnswerTaken
  <2> QED BY <1>2, <1>3, <1>7, <2>1, ConcludePend
<1>8. CASE Challenged(p)
  <2>1. CASE \E c, m : Resends(p, c, m)
    <3>1. PICK c, m : Resends(p, c, m)
      BY <2>1
    <3>2. /\ c \in client /\ c.id.from = p /\ c.type \in Kinds /\ Fits(c)
          /\ SendRequest(p, c.type, c.sdp, client \ {c}, net \ {m})
          /\ UNCHANGED <<may, neg, prepared, remoteCSeq, bodies>>
      BY <1>1, <3>1, FieldFacts DEF Resends, Pend
    <3>3. NegChange(p, neg[p]) /\ prepared'[p] = NoSdp
      BY <1>1, <1>3, <1>8, <3>2, NegSame
    <3>4. c.type = "INVITE" => \A d \in client \ {c} : d.id.from = p => d.type = "UPDATE"
      BY <1>1, <3>2, ClientFacts, FieldFacts DEF Kinds
    <3>5. client \ {c} \in SUBSET client /\ net \ {m} \in SUBSET net
      OBVIOUS
    <3>6. /\ c.type = "UPDATE" => "update" \in may /\ c.sdp # NoSdp
          /\ c.sdp = NoSdp => "delayed" \in may /\ neg[p].state = "done"
          /\ c.type = "INVITE" /\ c.sdp # NoSdp => may \cap {"reinvite", "refresh"} # {}
          /\ c.sdp # NoSdp /\ "update" \notin may => neg[p].state = "localOffer"
      BY <3>2 DEF Fits
    <3> QED BY <1>1, <3>2, <3>3, <3>4, <3>5, <3>6, SendPend
  <2>2. CASE "noCredentials" \in may /\ \E c, m, n :
               /\ Concludes(p, c, m, n) /\ Silently(m)
               /\ IF c.type = "UPDATE" THEN Drops(p, n) ELSE n = neg[p]
    BY <1>3, <1>4, <1>8, <2>2
  <2> QED BY <1>8, <2>1, <2>2, ChallengeTaken
<1>9. CASE TransportFails(p)
  <2>1. "transport" \in may
    BY <1>9 DEF TransportFails
  <2>2. prepared[p] = NoSdp
    BY <1>1, <2>1, MayFacts DEF Attended
  <2> QED BY <1>4, <1>9, <2>1, <2>2, FailTaken
<1> QED BY <1>5, <1>6, <1>7, <1>8, <1>9

LEMMA PendStep ==
  ASSUME Orderly, Basic, Pend, [Next]_vars
  PROVE  Pend'
<1>1. CASE Challenge
  BY <1>1, RebuffPend
<1>2. ASSUME NEW p \in Parties, Step(p) PROVE Pend'
  BY <1>2, InvitePend, UpdatePend, RefreshPend, RebuffPend, RespondsPend, AckPend, EndsPend DEF Step
<1>3. CASE UNCHANGED vars
  BY <1>3 DEF vars, Pend, Attended, Fits, AnswersAllowed, Given, PeerInvite
<1> QED BY <1>1, <1>2, <1>3 DEF Next

LEMMA PendInit ==
  ASSUME Init
  PROVE  Pend
<1>1. \A p \in Parties : neg[p].state = "done" /\ prepared[p] = NoSdp /\ invite[p] = NoInvite
  BY DEF Init
<1>2. client = {} /\ net = {}
  BY DEF Init
<1> QED BY <1>1, <1>2 DEF Pend, Attended, AnswersAllowed, Given, PeerInvite

LEMMA PendAlways == ASSUME Orderly PROVE Spec => [](Basic /\ Pend)
<1>1. Init => Basic /\ Pend
  BY BasicInit, PendInit
<1>2. Basic /\ Pend /\ [Next]_vars => (Basic /\ Pend)'
  BY BasicStep, PendStep
<1> QED BY <1>1, <1>2, PTL DEF Spec

(* A negotiator that waits is waiting for a response, for an ACK, or for    *)
(* the send of a refresh, in every orderly call (mod_inv_on_rx_request,     *)
(* on_state_confirmed, inv_handle_update_response, timer_cb).               *)
THEOREM OffersArePending == ASSUME Orderly PROVE Spec => []OfferIsPending
<1>1. Basic /\ Pend => OfferIsPending
  <2> SUFFICES ASSUME Basic, Pend PROVE OfferIsPending
    OBVIOUS
  <2> QED BY DEF Pend, Attended, OfferIsPending, Given, PeerInvite
<1> QED BY <1>1, PendAlways, PTL

-----------------------------------------------------------------------------
(* Both ends agree when all is quiet. *)

(* Where offers are answered, UPDATE and INVITE do not mix: each has its own *)
(* guard against offers that cross, and neither knows of the other's.        *)
Invites == {"reinvite", "delayed", "refresh"}
Separate == \A call \in Calls : {"update", "answer"} \subseteq call => call \cap Invites = {}

(* m accepts the request c; m is the ACK of a 2xx, with an answer. *)
Accepts(c, m) == m.id = c.id /\ m.type = "response" /\ m.code = 200
AnswerAck(m) == m.type = "ACK" /\ m.code = 200 /\ m.sdp # NoSdp

(* An offer of p was accepted and p has not heard of it. *)
AnswerDue(c, m) == Accepts(c, m) /\ c.sdp # NoSdp
Quiet == /\ \A c \in client, m \in net : ~AnswerDue(c, m)
         /\ \A m \in net : ~AnswerAck(m)

(* q gave p an offer, which its negotiator keeps. *)
Gave(q, id) == Given(q) /\ invite[q].id = id /\ neg[q].state = "localOffer"

Halfway ==
  /\ \A c \in client, m \in net : AnswerDue(c, m) =>
       LET q == Peer(c.id.from) IN
       /\ neg[q].activeRemote.body = c.sdp.body /\ neg[q].activeLocal.body = m.sdp.body
       /\ m.sdp # NoSdp
       /\ \A l \in net : ~AnswerAck(l)
       /\ \A d \in client, l \in net : AnswerDue(d, l) => d = c
  /\ \A m \in net : AnswerAck(m) =>
       LET p == m.id.from  q == Peer(m.id.from) IN
       /\ Gave(q, m.id)
       /\ neg[p].activeRemote.body = neg[q].local.body /\ neg[p].activeLocal.body = m.sdp.body
  /\ \A c \in client, m \in net : Accepts(c, m) /\ c.sdp = NoSdp =>
       Gave(Peer(c.id.from), m.id) /\ m.sdp = neg[Peer(c.id.from)].local

Level == Quiet => \A p \in Parties : neg[p].activeRemote.body = neg[Peer(p)].activeLocal.body

(* The negotiator keeps the offer that its party has out. *)
Outstanding(p) ==
  /\ prepared[p] # NoSdp => neg[p].local = prepared[p]
  /\ "answer" \in may => \A c \in client : c.id.from = p /\ c.sdp # NoSdp =>
       /\ neg[p].state = "localOffer" /\ neg[p].local = c.sdp
       /\ \A d \in client : d.id.from = p /\ d.sdp # NoSdp => d = c

Served(p) ==
  /\ Given(p) => ~Given(Peer(p))
  /\ PeerInvite(p) => may \cap Invites # {}

Together ==
  /\ Halfway /\ Level
  /\ \A p \in Parties : Outstanding(p) /\ Served(p)

LEMMA ApartFacts ==
  ASSUME Separate, Types, "update" \in may, "answer" \in may
  PROVE  may \cap Invites = {}
BY DEF Separate, Types

(* Where offers are answered, a party that works on an INVITE of its peer   *)
(* has no offer out, and an INVITE of its own never.                        *)
LEMMA Exclusive ==
  ASSUME Orderly, Separate, Basic, Pend, Together, NEW c \in client
  PROVE  /\ c.type = "INVITE" => ~PeerInvite(c.id.from) /\ ~Given(c.id.from)
         /\ "answer" \in may /\ c.sdp # NoSdp => ~PeerInvite(c.id.from) /\ ~Given(c.id.from)
         /\ c.type = "UPDATE" => "update" \in may /\ "delayed" \notin may /\ ~Given(c.id.from)
         /\ "answer" \in may => \A d \in client :
              d.id.from = c.id.from /\ d # c => d.sdp = NoSdp
<1>1. Types /\ c.id.from \in Parties /\ c.type \in Kinds /\ Fits(c)
  BY FieldFacts DEF Basic, Pend
<1>2. ASSUME c.type = "INVITE" PROVE ~PeerInvite(c.id.from)
  BY <1>2, ClientFacts DEF OwnInvite, PeerInvite
<1>3. ASSUME c.type = "UPDATE" PROVE "update" \in may /\ "delayed" \notin may
  BY <1>1, <1>3, MayFacts DEF Fits
<1>4. ASSUME c.type = "UPDATE" PROVE ~Given(c.id.from)
  BY <1>1, <1>3, <1>4 DEF Pend, Attended
<1>5. ASSUME c.type = "UPDATE", "answer" \in may PROVE ~PeerInvite(c.id.from)
  <2>1. may \cap Invites = {}
    BY <1>1, <1>3, <1>5, ApartFacts
  <2> QED BY <1>1, <2>1 DEF Together, Served
<1>6. ASSUME "answer" \in may, NEW d \in client, d.id.from = c.id.from, d # c, d.sdp # NoSdp PROVE FALSE
  <2>1. /\ neg[c.id.from].state = "localOffer"
        /\ \A e \in client : e.id.from = c.id.from /\ e.sdp # NoSdp => e = d
    BY <1>1, <1>6 DEF Together, Outstanding
  <2>2. c.sdp = NoSdp
    BY <1>6, <2>1
  <2> QED BY <1>1, <2>1, <2>2 DEF Fits
<1> QED BY <1>1, <1>2, <1>3, <1>4, <1>5, <1>6 DEF Given, Kinds

(* A handler of p leaves the offers and the INVITEs of its peer. *)
LEMMA OthersTogether ==
  ASSUME Basic, Together, NEW p \in Parties, NEW n, NegChange(p, n), may' = may,
         \A q \in Parties : q # p => prepared'[q] = prepared[q] /\ invite'[q] = invite[q],
         \A c \in client' : c.id.from # p => c \in client,
         Outstanding(p)', Given(p)' => Given(p) \/ ~Given(Peer(p)),
         PeerInvite(p)' => may \cap Invites # {}
  PROVE  \A q \in Parties : Outstanding(q)' /\ Served(q)'
<1>1. \A q \in Parties : q # p => neg'[q] = neg[q]
  BY NegAt DEF Basic
<1>2. \A q \in Parties : q # p => (Given(q)' <=> Given(q)) /\ (PeerInvite(q)' <=> PeerInvite(q))
  BY DEF Given, PeerInvite
<1>3. Given(p)' => ~Given(Peer(p))
  BY DEF Together, Served
<1>4. \A q \in Parties : Peer(q) \in Parties /\ Peer(q) # q /\ (q # p => q = Peer(p) /\ Peer(q) = p)
  BY PartyFacts
<1>5. ASSUME NEW q \in Parties, q # p PROVE Outstanding(q)' /\ Served(q)'
  <2>1. Outstanding(q) /\ Served(q)
    BY DEF Together
  <2>2. Outstanding(q)'
    BY <1>1, <1>5, <2>1 DEF Outstanding
  <2>3. Served(q)'
    BY <1>2, <1>3, <1>4, <1>5, <2>1 DEF Served
  <2> QED BY <2>2, <2>3
<1>6. Served(p)'
  BY <1>2, <1>3, <1>4 DEF Served
<1> QED BY <1>5, <1>6

(* A handler of p that neither opens nor closes an exchange. *)
LEMMA QuietStep ==
  ASSUME Basic, Together, NEW p \in Parties, NEW n, NegChange(p, n), Keeps(neg[p], n), may' = may,
         \A q \in Parties : q # p => prepared'[q] = prepared[q] /\ invite'[q] = invite[q],
         \A c \in client' : c.id.from # p => c \in client,
         \A c, m : AnswerDue(c, m) => ((c \in client' /\ m \in net') <=> (c \in client /\ m \in net)),
         \A m : AnswerAck(m) => (m \in net' <=> m \in net),
         \A c \in client', m \in net' : Accepts(c, m) /\ c.sdp = NoSdp => c \in client /\ m \in net,
         \A l \in net' : Gave(p, l.id) =>
           n.state = "localOffer" /\ n.local = neg[p].local /\ invite'[p] = invite[p],
         Outstanding(p)', Given(p)' => Given(p), PeerInvite(p)' => may \cap Invites # {}
  PROVE  Together'
<1>1. /\ neg'[p] = n /\ \A q \in Parties : q # p => neg'[q] = neg[q]
  BY NegAt DEF Basic
<1>2. \A q \in Parties : /\ neg'[q].activeRemote.body = neg[q].activeRemote.body
                         /\ neg'[q].activeLocal.body = neg[q].activeLocal.body
  BY <1>1 DEF Keeps
<1>3. /\ \A m \in net : m.id.from \in Parties /\ Peer(m.id.from) \in Parties
      /\ \A c \in client : c.id.from \in Parties /\ Peer(c.id.from) \in Parties
      /\ \A q \in Parties : Peer(q) \in Parties
  BY FieldFacts, PartyFacts DEF Basic
<1>4. ASSUME NEW q \in Parties, NEW l \in net', Gave(q, l.id)
      PROVE  Gave(q, l.id)' /\ neg'[q].local = neg[q].local
  <2>1. CASE q = p
    BY <1>1, <1>4, <2>1 DEF Gave, Given, PeerInvite
  <2>2. CASE q # p
    BY <1>1, <1>4, <2>2 DEF Gave, Given, PeerInvite
  <2> QED BY <2>1, <2>2
<1>5. Halfway'
  <2>1. ASSUME NEW c \in client', NEW m \in net', AnswerDue(c, m)
        PROVE  LET q == Peer(c.id.from) IN
               /\ neg'[q].activeRemote.body = c.sdp.body /\ neg'[q].activeLocal.body = m.sdp.body
               /\ m.sdp # NoSdp
               /\ \A l \in net' : ~AnswerAck(l)
               /\ \A d \in client', l \in net' : AnswerDue(d, l) => d = c
    <3>1. c \in client /\ m \in net
      BY <2>1
    <3> QED BY <1>2, <1>3, <2>1, <3>1 DEF Together, Halfway
  <2>2. ASSUME NEW m \in net', AnswerAck(m)
        PROVE  LET r == m.id.from  q == Peer(m.id.from) IN
               /\ Gave(q, m.id)'
               /\ neg'[r].activeRemote.body = neg'[q].local.body /\ neg'[r].activeLocal.body = m.sdp.body
    <3>1. m \in net
      BY <2>2
    <3> QED BY <1>2, <1>3, <1>4, <2>2, <3>1 DEF Together, Halfway
  <2>3. ASSUME NEW c \in client', NEW m \in net', Accepts(c, m), c.sdp = NoSdp
        PROVE  Gave(Peer(c.id.from), m.id)' /\ m.sdp = neg'[Peer(c.id.from)].local
    <3>1. c \in client /\ m \in net
      BY <2>3
    <3> QED BY <1>3, <1>4, <2>3, <3>1 DEF Together, Halfway
  <2> QED BY <2>1, <2>2, <2>3 DEF Halfway
<1>6. Level'
  <2>1. Quiet' => Quiet
    BY DEF Quiet
  <2> QED BY <1>2, <1>3, <2>1 DEF Together, Level
<1>7. \A q \in Parties : Outstanding(q)' /\ Served(q)'
  BY OthersTogether
<1> QED BY <1>5, <1>6, <1>7 DEF Together

(* p sends a request, perhaps in place of one of its own. *)
LEMMA SendTogether ==
  ASSUME Orderly, Separate, Basic, Pend, Together, NEW p \in Parties, NEW type \in Kinds, NEW s,
         NEW n, NegChange(p, n), Keeps(neg[p], n),
         NEW X \in SUBSET client, NEW Y \in SUBSET net, SendRequest(p, type, s, X, Y), may' = may,
         \A q \in Parties : q # p => prepared'[q] = prepared[q],
         prepared'[p] # NoSdp => n.local = prepared'[p],
         \A c \in client, m \in net : AnswerDue(c, m) => c \in X /\ m \in Y,
         \A m \in net : AnswerAck(m) => m \in Y,
         Given(p) => type = "UPDATE" /\ n = neg[p],
         "answer" \in may => \A c \in X : c.id.from = p => c.sdp = NoSdp,
         "answer" \in may /\ s # NoSdp => n.state = "localOffer" /\ n.local = s
  PROVE  Together'
<1> DEFINE id == Id(p, cseq[p] + 1)
           new == [type |-> type, id |-> id, sdp |-> s]
           req == Request(type, id, s)
           own == [NoInvite EXCEPT !.id = id]
<1>1. /\ id.from = p /\ id.cseq = cseq[p] + 1 /\ cseq[p] \in Nat
  BY FieldFacts DEF Basic, Id
<1>2. /\ new.type = type /\ new.id = id /\ new.sdp = s /\ req.type = type /\ req.id = id
      /\ own.id = id
  BY NoInviteFacts DEF Request
<1>3. /\ client' = X \cup {new} /\ net' = Y \cup {req}
      /\ invite' = IF type = "INVITE" THEN [invite EXCEPT ![p] = own] ELSE invite
  BY DEF SendRequest
<1>4. \A m \in net : m.id # id
  BY <1>1, FieldFacts DEF Basic, Wired
<1> HIDE DEF id, new, req, own
<1>5. /\ \A q \in Parties : q # p => invite'[q] = invite[q]
      /\ type = "INVITE" => invite'[p] = own
      /\ type = "UPDATE" => invite'[p] = invite[p]
      /\ neg'[p] = n
  BY <1>3, NegAt DEF Basic, Types
<1>6. /\ Given(p)' => Given(p)
      /\ PeerInvite(p)' => may \cap Invites # {}
  <2>1. CASE type = "INVITE"
    BY <1>1, <1>2, <1>5, <2>1 DEF Given, PeerInvite
  <2>2. CASE type = "UPDATE"
    BY <1>5, <2>2 DEF Given, PeerInvite, Together, Served
  <2> QED BY <2>1, <2>2 DEF Kinds
<1>7. /\ \A c : c \in client' /\ c \notin client => c = new
      /\ \A m : m \in net' /\ m \notin net => m = req
      /\ req.type # "response" /\ req.type # "ACK"
  BY <1>2, <1>3 DEF Kinds
<1>8. ASSUME NEW c \in client', NEW m \in net', Accepts(c, m) PROVE c \in client /\ m \in net
  <2>1. m # req /\ m \in net
    BY <1>7, <1>8 DEF Accepts
  <2>2. c # new
    BY <1>2, <1>4, <1>8, <2>1 DEF Accepts
  <2> QED BY <1>7, <2>1, <2>2
<1>9. ASSUME NEW c, NEW m, AnswerDue(c, m)
      PROVE  (c \in client' /\ m \in net') <=> (c \in client /\ m \in net)
  BY <1>3, <1>8, <1>9 DEF AnswerDue
<1>10. ASSUME NEW m, AnswerAck(m) PROVE m \in net' <=> m \in net
  BY <1>3, <1>7, <1>10 DEF AnswerAck
<1>11. ASSUME NEW l \in net', Gave(p, l.id)
       PROVE  n.state = "localOffer" /\ n.local = neg[p].local /\ invite'[p] = invite[p]
  BY <1>5, <1>11 DEF Gave
<1>12. \A c \in client' : c.id.from # p => c \in client
  BY <1>1, <1>2, <1>7
<1>13. Outstanding(p)'
  <2>1. ASSUME "answer" \in may, NEW c \in client', c.id.from = p, c.sdp # NoSdp PROVE c = new
    BY <1>3, <2>1
  <2>2. ASSUME "answer" \in may, NEW c \in client', c.id.from = p, c.sdp # NoSdp
        PROVE  n.state = "localOffer" /\ n.local = c.sdp
    BY <1>2, <2>1, <2>2
  <2> QED BY <1>5, <2>1, <2>2 DEF Outstanding
<1>14. \A c \in client', m \in net' : Accepts(c, m) /\ c.sdp = NoSdp => c \in client /\ m \in net
  BY <1>8
<1> QED
  BY <1>5, <1>6, <1>9, <1>10, <1>11, <1>12, <1>13, <1>14, QuietStep

(* A party that is free, or that works on no INVITE where INVITEs are sent, *)
(* has no offer out.                                                        *)
LEMMA NothingOut ==
  ASSUME Separate, Basic, Pend, Together, NEW p \in Parties, "answer" \in may,
         \/ neg[p].state = "done"
         \/ invite[p] = NoInvite /\ may \cap Invites # {}
  PROVE  \A c \in client : c.id.from = p => c.sdp = NoSdp
<1> SUFFICES ASSUME NEW c \in client, c.id.from = p, c.sdp # NoSdp PROVE FALSE
  OBVIOUS
<1>1. neg[p].state = "localOffer"
  BY DEF Together, Outstanding
<1>2. invite[p] = NoInvite /\ may \cap Invites # {}
  BY <1>1
<1>3. c.type = "UPDATE"
  BY <1>2, ClientFacts, FieldFacts DEF OwnInvite, Basic, Kinds
<1>4. "update" \in may
  BY <1>3 DEF Pend, Fits
<1> QED BY <1>2, <1>4, ApartFacts DEF Basic

LEMMA StartTogether ==
  ASSUME Orderly, Separate, Basic, Pend, Together, NEW p \in Parties,
         Reinvite(p) \/ Delayed(p) \/ Update(p)
  PROVE  Together'
<1>1. /\ Types /\ Attended(p) /\ neg[p].state \in {"done", "localOffer"}
      /\ neg[p] \in Negs(bodies, bodies) /\ bodies \in Nat
      /\ prepared[p] # NoSdp => neg[p].state = "localOffer" /\ neg[p].local = prepared[p]
  BY PendFields DEF Together, Outstanding
<1>2. /\ client \in SUBSET client /\ net \in SUBSET net
      /\ "INVITE" \in Kinds /\ "UPDATE" \in Kinds
  BY DEF Kinds
<1>3. ASSUME NEW n \in Negs(bodies, bodies + 1), SendInvite(p, n), Keeps(neg[p], n),
             neg[p].state = "localOffer" => n = neg[p], n.state \in {"done", "localOffer"},
             may \cap Invites # {}
      PROVE  Together'
  <2>1. /\ SendRequest(p, "INVITE", Carried(n), client, net)
        /\ NegChange(p, n) /\ may' = may /\ prepared' = prepared /\ invite[p] = NoInvite
    BY <1>3 DEF SendInvite, NegChange
  <2>2. Carried(n) # NoSdp => n.state = "localOffer" /\ n.local = Carried(n)
    BY <1>3 DEF Carried, HasLocalAnswer
  <2>3. ~Given(p)
    BY <2>1 DEF Given, PeerInvite
  <2>4. "answer" \in may => \A c \in client : c.id.from = p => c.sdp = NoSdp
    BY <1>3, <2>1, NothingOut
  <2>5. prepared'[p] # NoSdp => n.local = prepared'[p]
    BY <1>1, <1>3, <2>1
  <2> QED BY <1>2, <1>3, <2>1, <2>2, <2>3, <2>4, <2>5, SendTogether
<1>4. CASE Reinvite(p)
  <2> DEFINE n == Offered(neg[p], bodies + 1)
  <2>1. /\ n \in Negs(bodies, bodies + 1) /\ Keeps(neg[p], n)
        /\ neg[p].state = "done" => n = ModifyLocalOffer(neg[p], bodies + 1)
        /\ neg[p].state = "localOffer" => n = neg[p]
    BY <1>1, OfferFacts
  <2>2. SendInvite(p, n) /\ may \cap Invites # {}
    BY <1>4 DEF Reinvite, Invites
  <2> HIDE DEF n
  <2>3. n.state = "localOffer"
    BY <1>1, <2>1, ModifyFacts
  <2> QED BY <1>3, <2>1, <2>2, <2>3
<1>5. CASE Delayed(p)
  <2>1. SendInvite(p, neg[p]) /\ may \cap Invites # {}
    BY <1>5 DEF Delayed, Invites
  <2>2. neg[p] \in Negs(bodies, bodies + 1) /\ Keeps(neg[p], neg[p])
    BY <1>1, OneMore DEF Keeps
  <2> QED BY <1>1, <1>3, <2>1, <2>2
<1>6. CASE Update(p)
  <2> DEFINE n == ModifyLocalOffer(neg[p], bodies + 1)
  <2>1. /\ n \in Negs(bodies, bodies + 1) /\ n.state = "localOffer"
        /\ n.local.body = bodies + 1 /\ Keeps(neg[p], n)
    BY <1>1, ModifyFacts
  <2>2. /\ neg' = [neg EXCEPT ![p] = n] /\ SendRequest(p, "UPDATE", n.local, client, net)
        /\ bodies' = bodies + 1 /\ may' = may /\ prepared' = prepared /\ neg[p].state = "done"
        /\ "update" \in may
    BY <1>6 DEF Update
  <2> HIDE DEF n
  <2>3. NegChange(p, n)
    BY <2>1, <2>2 DEF NegChange, NextBody
  <2>4. ~Given(p)
    BY <1>1, <2>2, MayFacts DEF Attended
  <2>5. "answer" \in may => \A c \in client : c.id.from = p => c.sdp = NoSdp
    BY <2>2, NothingOut
  <2>6. prepared'[p] = NoSdp
    BY <1>1, <2>2
  <2> QED BY <1>2, <2>1, <2>2, <2>3, <2>4, <2>5, <2>6, SendTogether
<1> QED BY <1>4, <1>5, <1>6

LEMMA RefreshTogether ==
  ASSUME Orderly, Separate, Basic, Pend, Together, NEW p \in Parties,
         RefreshPrepare(p) \/ RefreshSend(p)
  PROVE  Together'
<1>1. /\ Types /\ neg[p] \in Negs(bodies, bodies) /\ bodies \in Nat
      /\ prepared[p] # NoSdp => "refresh" \in may /\ neg[p].state = "localOffer" /\ ~PeerInvite(p)
      /\ prepared[p] # NoSdp => neg[p].local = prepared[p]
      /\ Keeps(neg[p], neg[p])
  BY PendFields DEF Together, Outstanding, Keeps
<1>2. PeerInvite(p) => may \cap Invites # {}
  BY DEF Together, Served
<1>3. CASE RefreshPrepare(p)
  <2> DEFINE n == SendLocalOffer(neg[p])
  <2>1. /\ n \in Negs(bodies, bodies) /\ n.local = neg[p].activeLocal /\ Keeps(neg[p], n)
    BY <1>1, <1>3, SendLocalFacts DEF RefreshPrepare
  <2>2. /\ neg' = [neg EXCEPT ![p] = n] /\ prepared' = [prepared EXCEPT ![p] = neg[p].activeLocal]
        /\ invite[p] = NoInvite /\ neg[p].state = "done"
        /\ UNCHANGED <<may, invite, client, net, cseq, remoteCSeq, bodies, sent>>
    BY <1>3 DEF RefreshPrepare
  <2> HIDE DEF n
  <2>3. NegChange(p, n)
    BY <1>1, <2>1, <2>2, NoNewBody
  <2>4. neg'[p] = n
    BY <1>1, <2>3, NegAt
  <2>5. /\ prepared'[p] = n.local
        /\ \A q \in Parties : q # p => prepared'[q] = prepared[q]
    BY <1>1, <2>1, <2>2 DEF Types
  <2>6. "answer" \in may => \A c \in client : c.id.from = p => c.sdp = NoSdp
    BY <2>2, NothingOut
  <2>7. Outstanding(p)'
    BY <2>2, <2>4, <2>5, <2>6 DEF Outstanding
  <2>8. ~PeerInvite(p)' /\ ~Given(p)' /\ \A l : ~Gave(p, l)
    BY <2>2 DEF Given, PeerInvite, Gave
  <2> QED BY <2>1, <2>2, <2>3, <2>5, <2>7, <2>8, QuietStep
<1>4. CASE RefreshSend(p)
  <2>1. /\ prepared[p] # NoSdp /\ prepared' = [prepared EXCEPT ![p] = NoSdp]
        /\ UNCHANGED <<may, neg, remoteCSeq, bodies>>
    BY <1>4 DEF RefreshSend
  <2>2. /\ prepared'[p] = NoSdp
        /\ \A q \in Parties : q # p => prepared'[q] = prepared[q]
    BY <1>1, <2>1 DEF Types
  <2>3. NegChange(p, neg[p]) /\ neg'[p] = neg[p]
    BY <1>1, <2>1, NegSame
  <2>4. CASE invite[p] = NoInvite /\ SendRequest(p, "INVITE", prepared[p], client, net)
    <3>1. client \in SUBSET client /\ net \in SUBSET net /\ "INVITE" \in Kinds
      BY DEF Kinds
    <3>2. may \cap Invites # {} /\ ~Given(p)
      BY <1>1, <2>1 DEF Invites, Given
    <3>3. "answer" \in may => \A c \in client : c.id.from = p => c.sdp = NoSdp
      BY <2>4, <3>2, NothingOut
    <3> QED BY <1>1, <2>1, <2>2, <2>3, <2>4, <3>1, <3>2, <3>3, SendTogether
  <2>5. CASE UNCHANGED <<invite, client, net, cseq, sent>>
    <3>1. Outstanding(p)'
      BY <2>1, <2>2, <2>3, <2>5 DEF Together, Outstanding
    <3>2. (Given(p)' <=> Given(p)) /\ (PeerInvite(p)' <=> PeerInvite(p)) /\ ~Given(p)
      BY <1>1, <2>1, <2>5 DEF Given, PeerInvite
    <3>3. \A l : ~Gave(p, l)
      BY <3>2 DEF Gave
    <3> QED BY <1>1, <1>2, <2>1, <2>2, <2>3, <2>5, <3>1, <3>2, <3>3, QuietStep
  <2> QED BY <1>4, <2>4, <2>5 DEF RefreshSend
<1> QED BY <1>3, <1>4

(* A request is turned away. *)
LEMMA RebuffTogether ==
  ASSUME Basic, Together, Challenge \/ \E p \in Parties : RxStale(p)
  PROVE  Together'
<1>1. /\ UNCHANGED <<may, neg, invite, client, prepared, bodies>>
      /\ \E m \in net, code \in {401, 500} :
           m.type \in Kinds /\ net' = (net \ {m}) \cup {Response(m.id, code, NoSdp)}
  BY DEF Challenge, RxStale, Kinds
<1>2. PICK m \in net, code \in {401, 500} :
        m.type \in Kinds /\ net' = (net \ {m}) \cup {Response(m.id, code, NoSdp)}
  BY <1>1
<1> DEFINE r == Response(m.id, code, NoSdp)
<1>3. r.type = "response" /\ r.code # 200 /\ net' = (net \ {m}) \cup {r}
  BY <1>2 DEF Response
<1> HIDE DEF r
<1>4. /\ \A l : l \in net' /\ l \notin net => l = r
      /\ \A c, l : Accepts(c, l) => (l \in net' <=> l \in net)
      /\ \A l : AnswerAck(l) => (l \in net' <=> l \in net)
  BY <1>2, <1>3 DEF Accepts, AnswerAck, Kinds
<1>5. First \in Parties /\ NegChange(First, neg[First]) /\ Keeps(neg[First], neg[First])
  BY <1>1, PartyFacts, NegSame DEF Basic, Keeps
<1>6. Outstanding(First)' /\ (Given(First)' <=> Given(First)) /\ (PeerInvite(First)' <=> PeerInvite(First))
  BY <1>1, <1>5 DEF Together, Outstanding, Given, PeerInvite
<1>7. PeerInvite(First)' => may \cap Invites # {}
  BY <1>5, <1>6 DEF Together, Served
<1>8. ASSUME NEW l, Gave(First, l)
      PROVE  neg[First].state = "localOffer" /\ invite'[First] = invite[First]
  BY <1>1, <1>8 DEF Gave
<1>9. /\ \A c, l : AnswerDue(c, l) => ((c \in client' /\ l \in net') <=> (c \in client /\ l \in net))
      /\ \A c \in client', l \in net' : Accepts(c, l) /\ c.sdp = NoSdp => c \in client /\ l \in net
  BY <1>1, <1>4 DEF AnswerDue
<1> QED BY <1>1, <1>4, <1>5, <1>6, <1>7, <1>8, <1>9, QuietStep

(* What a handler that ends a request of p leaves as it was. *)
LEMMA ConcludeFrame ==
  ASSUME Orderly, Separate, Basic, Pend, Together, NEW p \in Parties, NEW c, NEW m, NEW n,
         Concludes(p, c, m, n), prepared[p] = NoSdp,
         Silently(m) \/ \E s : Acknowledging(p, m, s)
  PROVE  /\ Types /\ NegChange(p, n) /\ may' = may /\ c \in client /\ m \in net /\ c.id.from = p
         /\ m.id = c.id /\ client' = client \ {c} /\ prepared'[p] = NoSdp /\ c.type \in Kinds
         /\ neg'[p] = n /\ neg'[Peer(p)] = neg[Peer(p)]
         /\ \A q \in Parties : q # p => prepared'[q] = prepared[q] /\ invite'[q] = invite[q]
         /\ ~Given(p) /\ ~Given(p)' /\ (PeerInvite(p)' => may \cap Invites # {})
         /\ ~AnswerAck(m) /\ Outstanding(p)'
         /\ \A l : l \in net' /\ l \notin net => l.type = "ACK" /\ l.id = m.id
         /\ \A l \in net' : l.id = m.id => l.type = "ACK"
<1>1. /\ Types /\ NegChange(p, n) /\ may' = may /\ c \in client /\ m \in net /\ c.id.from = p
      /\ m.id = c.id /\ client' = client \ {c} /\ prepared' = prepared /\ c.type \in Kinds
  BY FieldFacts DEF Concludes, Basic
<1>2. neg'[p] = n /\ neg'[Peer(p)] = neg[Peer(p)]
  BY <1>1, NegAt, PartyFacts
<1>3. /\ \A q \in Parties : q # p => invite'[q] = invite[q]
      /\ invite'[p] = NoInvite \/ (invite'[p] = invite[p] /\ c.type = "UPDATE")
  BY <1>1 DEF Concludes, Types, Kinds
<1>4. ~Given(p)
  BY <1>1, Exclusive DEF Kinds
<1>5. PeerInvite(p)' => PeerInvite(p)
  BY <1>3 DEF PeerInvite
<1>6. ~Given(p)' /\ (PeerInvite(p)' => may \cap Invites # {})
  BY <1>1, <1>3, <1>4, <1>5 DEF Given, PeerInvite, Together, Served
<1>7. m.type # "ACK"
  BY <1>1 DEF Basic, Wired
<1>8. "answer" \in may => \A d \in client' : d.id.from = p => d.sdp = NoSdp
  BY <1>1, Exclusive
<1>9. Outstanding(p)'
  BY <1>1, <1>8 DEF Outstanding
<1>10. /\ \A l : l \in net' /\ l \notin net => l.type = "ACK" /\ l.id = m.id
       /\ \A l \in net' : l # m \/ l.type = "ACK"
  BY <1>7 DEF Silently, Acknowledging, Ack
<1>11. \A l \in net' : l.id = m.id => l.type = "ACK"
  BY <1>1, <1>10 DEF Basic, Wired
<1> QED
  BY <1>1, <1>2, <1>3, <1>4, <1>6, <1>7, <1>9, <1>10, <1>11 DEF AnswerAck

(* An end that no answer came with, and none went out. *)
LEMMA ConcludeQuiet ==
  ASSUME Orderly, Separate, Basic, Pend, Together, NEW p \in Parties, NEW c, NEW m, NEW n,
         Concludes(p, c, m, n), Keeps(neg[p], n), prepared[p] = NoSdp, ~AnswerDue(c, m),
         Silently(m) \/ \E s : Acknowledging(p, m, s) /\ (m.code # 200 \/ s = NoSdp)
  PROVE  Together'
<1>1. /\ Types /\ NegChange(p, n) /\ may' = may /\ c \in client /\ m \in net /\ c.id.from = p
      /\ m.id = c.id /\ client' = client \ {c}
      /\ \A q \in Parties : q # p => prepared'[q] = prepared[q] /\ invite'[q] = invite[q]
      /\ ~Given(p) /\ ~Given(p)' /\ (PeerInvite(p)' => may \cap Invites # {})
      /\ ~AnswerAck(m) /\ Outstanding(p)'
      /\ \A l : l \in net' /\ l \notin net => l.type = "ACK" /\ l.id = m.id
      /\ \A l \in net' : l.id = m.id => l.type = "ACK"
  BY ConcludeFrame
<1>2. /\ \A l : l \in net' /\ l \notin net => ~AnswerAck(l)
      /\ \A l \in net : l # m => l \in net'
  BY DEF Silently, Acknowledging, Ack, AnswerAck
<1>3. \A l : AnswerAck(l) => (l \in net' <=> l \in net)
  <2>1. \A l : AnswerAck(l) /\ l \in net => l \in net'
    BY <1>1, <1>2
  <2> QED BY <1>2, <2>1
<1>4. ASSUME NEW d \in client', NEW l \in net', Accepts(d, l) PROVE d \in client /\ l \in net
  BY <1>1, <1>4 DEF Accepts
<1>5. ASSUME NEW d \in client, NEW l \in net, AnswerDue(d, l) PROVE d \in client' /\ l \in net'
  <2>1. d # c
    <3>1. ASSUME d = c PROVE l = m
      BY <1>1, <1>5, <3>1 DEF AnswerDue, Accepts, Basic, Wired
    <3> QED BY <1>5, <3>1
  <2>2. l # m
    BY <1>1, <1>5, <2>1 DEF AnswerDue, Accepts, Basic, Wired
  <2> QED BY <1>1, <1>2, <2>1, <2>2
<1>6. \A d, l : AnswerDue(d, l) => ((d \in client' /\ l \in net') <=> (d \in client /\ l \in net))
  BY <1>4, <1>5 DEF AnswerDue
<1>7. \A d \in client', l \in net' : Accepts(d, l) /\ d.sdp = NoSdp => d \in client /\ l \in net
  BY <1>4
<1>8. \A l \in net' : ~Gave(p, l.id)
  BY <1>1 DEF Gave
<1>9. \A d \in client' : d.id.from # p => d \in client
  BY <1>1
<1> QED BY <1>1, <1>3, <1>6, <1>7, <1>8, <1>9, QuietStep

(* The answer to an offer of p arrives: both ends agree. *)
LEMMA ConcludeClose ==
  ASSUME Orderly, Separate, Basic, Pend, Together, NEW p \in Parties, NEW c, NEW m, NEW n,
         Concludes(p, c, m, n), prepared[p] = NoSdp, AnswerDue(c, m),
         n.activeRemote = m.sdp, n.activeLocal = neg[p].local,
         Silently(m) \/ Acknowledging(p, m, NoSdp)
  PROVE  Together'
<1>1. /\ Types /\ NegChange(p, n) /\ may' = may /\ c \in client /\ m \in net /\ c.id.from = p
      /\ m.id = c.id /\ client' = client \ {c}
      /\ neg'[p] = n /\ neg'[Peer(p)] = neg[Peer(p)]
      /\ \A q \in Parties : q # p => prepared'[q] = prepared[q] /\ invite'[q] = invite[q]
      /\ ~Given(p) /\ ~Given(p)' /\ (PeerInvite(p)' => may \cap Invites # {})
      /\ Outstanding(p)'
      /\ \A l : l \in net' /\ l \notin net => l.type = "ACK" /\ l.id = m.id
      /\ \A l \in net' : l.id = m.id => l.type = "ACK"
  BY ConcludeFrame
<1>2. Peer(p) \in Parties /\ Peer(p) # p /\ Peer(Peer(p)) = p /\ \A q \in Parties : q = p \/ q = Peer(p)
  BY PartyFacts, BothParties
<1>3. /\ neg[Peer(p)].activeRemote.body = c.sdp.body /\ neg[Peer(p)].activeLocal.body = m.sdp.body
      /\ \A l \in net : ~AnswerAck(l)
      /\ \A d \in client, l \in net : AnswerDue(d, l) => d = c
  BY <1>1 DEF Together, Halfway
<1>4. "answer" \in may /\ c.sdp # NoSdp
  BY <1>1 DEF AnswerDue, Accepts, Pend, AnswersAllowed
<1>5. neg[p].local = c.sdp
  BY <1>1, <1>4 DEF Together, Outstanding
<1>6. ASSUME NEW d \in client', NEW l \in net', Accepts(d, l) PROVE d \in client /\ l \in net /\ d # c
  BY <1>1, <1>6 DEF Accepts
<1>7. \A d \in client', l \in net' : ~AnswerDue(d, l)
  BY <1>3, <1>6 DEF AnswerDue
<1>8. \A l \in net' : ~AnswerAck(l)
  <2>1. \A l \in net' : AnswerAck(l) => l \in net
    BY DEF Silently, Acknowledging, Ack, AnswerAck
  <2> QED BY <1>3, <2>1
<1>9. ASSUME NEW d \in client', NEW l \in net', Accepts(d, l), d.sdp = NoSdp
      PROVE  Gave(Peer(d.id.from), l.id)' /\ l.sdp = neg'[Peer(d.id.from)].local
  <2>1. /\ d \in client /\ l \in net /\ d.id.from \in Parties
        /\ Gave(Peer(d.id.from), l.id) /\ l.sdp = neg[Peer(d.id.from)].local
    BY <1>6, <1>9, FieldFacts DEF Together, Halfway, Basic
  <2>2. Peer(d.id.from) = Peer(p)
    BY <1>1, <1>2, <2>1 DEF Gave
  <2> QED BY <1>1, <1>2, <2>1, <2>2 DEF Gave, Given, PeerInvite
<1>10. Halfway'
  BY <1>7, <1>8, <1>9 DEF Halfway
<1>11. Level'
  <2>1. /\ neg'[p].activeRemote.body = neg'[Peer(p)].activeLocal.body
        /\ neg'[Peer(p)].activeRemote.body = neg'[p].activeLocal.body
    BY <1>1, <1>3, <1>5
  <2> QED BY <1>2, <2>1 DEF Level
<1>12. \A q \in Parties : Outstanding(q)' /\ Served(q)'
  <2>1. \A d \in client' : d.id.from # p => d \in client
    BY <1>1
  <2> QED BY <1>1, <2>1, OthersTogether
<1> QED BY <1>10, <1>11, <1>12 DEF Together

(* p gets an offer for its re-INVITE without one, and answers in the ACK. *)
LEMMA ConcludeOpen ==
  ASSUME Orderly, Separate, Basic, Pend, Together, NEW p \in Parties, NEW c, NEW m, NEW n, NEW s,
         Concludes(p, c, m, n), prepared[p] = NoSdp, Accepts(c, m), c.type = "INVITE", c.sdp = NoSdp,
         n.activeRemote = m.sdp, n.activeLocal = s, s # NoSdp, "answer" \in may,
         Acknowledging(p, m, s)
  PROVE  Together'
<1>1. /\ Types /\ NegChange(p, n) /\ may' = may /\ c \in client /\ m \in net /\ c.id.from = p
      /\ m.id = c.id /\ client' = client \ {c}
      /\ neg'[p] = n /\ neg'[Peer(p)] = neg[Peer(p)]
      /\ \A q \in Parties : q # p => prepared'[q] = prepared[q] /\ invite'[q] = invite[q]
      /\ ~Given(p) /\ ~Given(p)' /\ (PeerInvite(p)' => may \cap Invites # {})
      /\ Outstanding(p)'
      /\ \A l : l \in net' /\ l \notin net => l.type = "ACK" /\ l.id = m.id
      /\ \A l \in net' : l.id = m.id => l.type = "ACK"
  BY ConcludeFrame
<1> DEFINE q == Peer(p)
           ack == Ack(m.id, m.code, s)
<1>2. q \in Parties /\ q # p /\ Peer(q) = p /\ \A r \in Parties : r = p \/ r = q
  BY PartyFacts, BothParties
<1>3. Gave(q, m.id) /\ m.sdp = neg[q].local
  BY <1>1 DEF Together, Halfway
<1>4. ack.type = "ACK" /\ ack.code = 200 /\ ack.sdp = s /\ ack.id = m.id /\ net' = (net \ {m}) \cup {ack}
  BY DEF Acknowledging, Ack, Accepts
<1> HIDE DEF q, ack
<1>5. AnswerAck(ack) /\ ack \in net' /\ ack.id.from = p
  BY <1>1, <1>4 DEF AnswerAck
<1>6. ASSUME NEW l \in net', AnswerAck(l) PROVE l = ack
  <2> SUFFICES ASSUME l # ack PROVE FALSE
    OBVIOUS
  <2>1. l \in net /\ l # m
    BY <1>4, <1>6
  <2>2. Gave(Peer(l.id.from), l.id) /\ l.id.from \in Parties
    BY <1>1, <1>6, <2>1, FieldFacts DEF Together, Halfway
  <2>3. Peer(l.id.from) = q
    BY <1>1, <1>2, <2>2, PartyFacts DEF Gave
  <2>4. l.id = m.id
    BY <1>3, <2>2, <2>3 DEF Gave
  <2> QED BY <1>1, <2>1, <2>4 DEF Basic, Wired
<1>7. ASSUME NEW d \in client', NEW l \in net', Accepts(d, l) PROVE d \in client /\ l \in net /\ d # c
  BY <1>1, <1>7 DEF Accepts
<1>8. ASSUME NEW d \in client', d.id.from = p PROVE d.sdp = NoSdp /\ d.type = "UPDATE"
  <2>1. d \in client /\ d # c
    BY <1>1, <1>8
  <2> QED BY <1>1, <1>8, <2>1, Exclusive, ClientFacts, FieldFacts DEF Kinds
<1>9. ASSUME NEW d \in client', d.id.from = p PROVE FALSE
  BY <1>1, <1>8, <1>9 DEF Pend, Fits
<1>10. ASSUME NEW d \in client, d.id.from = q PROVE FALSE
  <2>1. Given(q)
    BY <1>3 DEF Gave
  <2>2. d.sdp = NoSdp \/ ~Given(q)
    BY <1>10, Exclusive
  <2>3. d.type \in Kinds
    BY <1>1, FieldFacts
  <2> QED BY <1>10, <2>1, <2>3, Exclusive DEF Kinds
<1>11. \A d \in client', l \in net' : ~Accepts(d, l)
  <2>1. \A d \in client' : d \in client /\ (d.id.from = p \/ d.id.from = q)
    BY <1>1, <1>2, FieldFacts
  <2> QED BY <1>9, <1>10, <2>1
<1>12. Halfway'
  <2>1. Gave(q, ack.id)'
    BY <1>1, <1>2, <1>3, <1>4 DEF Gave, Given, PeerInvite, q
  <2>2. /\ neg'[p].activeRemote.body = neg'[q].local.body /\ neg'[p].activeLocal.body = ack.sdp.body
    BY <1>1, <1>3, <1>4 DEF q
  <2>3. ASSUME NEW l \in net', AnswerAck(l)
        PROVE  LET r == l.id.from  u == Peer(l.id.from) IN
               /\ Gave(u, l.id)'
               /\ neg'[r].activeRemote.body = neg'[u].local.body /\ neg'[r].activeLocal.body = l.sdp.body
    BY <1>5, <1>6, <2>1, <2>2, <2>3 DEF q
  <2>4. \A d \in client', l \in net' : ~AnswerDue(d, l)
    BY <1>11 DEF AnswerDue
  <2> QED BY <1>11, <2>3, <2>4 DEF Halfway
<1>13. Level'
  BY <1>5 DEF Level, Quiet
<1>14. \A r \in Parties : Outstanding(r)' /\ Served(r)'
  <2>1. \A d \in client' : d.id.from # p => d \in client
    BY <1>1
  <2> QED BY <1>1, <2>1, OthersTogether
<1> QED BY <1>12, <1>13, <1>14 DEF Together

(* What a handler that answers a request leaves as it was. *)
LEMMA RespondFrame ==
  ASSUME Basic, Pend, Together, NEW p \in Parties, NEW type \in Kinds, NEW m \in Requests(p, type),
         NEW n \in Negs(bodies, bodies + 1), NEW code, NEW s, Respond(p, m, n, code, s),
         \/ invite' = invite
         \/ type = "INVITE" /\ invite[p] = NoInvite /\ (Finishes(p, m, code) \/ Waits(p, m, code))
  PROVE  /\ Types /\ NegChange(p, n) /\ may' = may /\ client' = client /\ prepared' = prepared
         /\ neg'[p] = n /\ neg'[Peer(p)] = neg[Peer(p)]
         /\ m \in net /\ m.type = type /\ m.id.from = Peer(p)
         /\ \E c \in client : c.id = m.id /\ c.type = type /\ c.sdp = m.sdp
         /\ \E r : /\ net' = (net \ {m}) \cup {r}
                   /\ r.type = "response" /\ r.id = m.id /\ r.code = code /\ r.sdp = s
         /\ \A q \in Parties : q # p => invite'[q] = invite[q]
         /\ PeerInvite(p)' => may \cap Invites # {}
<1>1. /\ Types /\ NegChange(p, n) /\ may' = may /\ client' = client /\ prepared' = prepared
      /\ net' = (net \ {m}) \cup {Response(m.id, code, s)}
  BY DEF Basic, Respond, NegChange
<1>2. neg'[p] = n /\ neg'[Peer(p)] = neg[Peer(p)]
  BY <1>1, NegAt, PartyFacts
<1>3. m \in net /\ m.type = type /\ m.id.from = Peer(p)
  BY <1>1, PartyFacts, FieldFacts DEF Requests
<1>4. PICK c \in client : c.id = m.id /\ c.type = type /\ c.sdp = m.sdp
  BY <1>3 DEF Basic, Wired
<1>5. \A q \in Parties : q # p => invite'[q] = invite[q]
  BY <1>1 DEF Finishes, Waits, Types
<1>6. PeerInvite(p)' => may \cap Invites # {}
  <2>1. CASE invite' = invite
    BY <2>1 DEF PeerInvite, Together, Served
  <2>2. CASE type = "INVITE"
    BY <1>4, <2>2 DEF Pend, Fits, Invites
  <2> QED BY <2>1, <2>2
<1> DEFINE r == Response(m.id, code, s)
<1>7. r.type = "response" /\ r.id = m.id /\ r.code = code /\ r.sdp = s /\ net' = (net \ {m}) \cup {r}
  BY <1>1 DEF Response
<1> HIDE DEF r
<1> QED BY <1>1, <1>2, <1>3, <1>4, <1>5, <1>6, <1>7

(* A request is refused. *)
LEMMA RespondQuiet ==
  ASSUME Separate, Basic, Pend, Together, NEW p \in Parties, NEW type \in Kinds,
         NEW m \in Requests(p, type), NEW n \in Negs(bodies, bodies + 1), NEW code, NEW s,
         Respond(p, m, n, code, s), code # 200, Keeps(neg[p], n), prepared[p] = NoSdp,
         n = neg[p] \/ neg[p].state = "done",
         \/ invite' = invite
         \/ type = "INVITE" /\ invite[p] = NoInvite /\ Waits(p, m, code)
  PROVE  Together'
<1>1. /\ Types /\ NegChange(p, n) /\ may' = may /\ client' = client /\ prepared' = prepared
      /\ neg'[p] = n /\ m \in net /\ m.type = type
      /\ \A q \in Parties : q # p => invite'[q] = invite[q]
      /\ PeerInvite(p)' => may \cap Invites # {}
  BY RespondFrame
<1>2. PICK r : net' = (net \ {m}) \cup {r} /\ r.type = "response" /\ r.id = m.id /\ r.code # 200
  BY RespondFrame
<1>3. /\ \A l : l \in net' /\ l \notin net => l = r
      /\ \A c, l : Accepts(c, l) => (l \in net' <=> l \in net)
      /\ \A l : AnswerAck(l) => (l \in net' <=> l \in net)
  BY <1>1, <1>2 DEF Accepts, AnswerAck, Kinds
<1>4. Given(p)' => Given(p) /\ invite' = invite
  <2>1. CASE invite' = invite
    BY <2>1 DEF Given, PeerInvite
  <2>2. CASE Waits(p, m, code)
    <3>1. invite'[p].code = code
      BY <1>1, <2>2 DEF Waits, Types
    <3> QED BY <3>1 DEF Given
  <2> QED BY <2>1, <2>2
<1>5. ASSUME NEW l, Gave(p, l)
      PROVE  n.state = "localOffer" /\ n.local = neg[p].local /\ invite'[p] = invite[p]
  BY <1>5 DEF Gave, Given, PeerInvite
<1>6. Outstanding(p)'
  <2>1. CASE n = neg[p]
    BY <1>1, <2>1 DEF Together, Outstanding
  <2>2. CASE neg[p].state = "done"
    <3>1. "answer" \in may => \A c \in client : c.id.from = p => c.sdp = NoSdp
      BY <2>2, NothingOut
    <3> QED BY <1>1, <3>1 DEF Outstanding
  <2> QED BY <2>1, <2>2
<1>7. /\ \A c, l : AnswerDue(c, l) => ((c \in client' /\ l \in net') <=> (c \in client /\ l \in net))
      /\ \A c \in client', l \in net' : Accepts(c, l) /\ c.sdp = NoSdp => c \in client /\ l \in net
  BY <1>1, <1>3 DEF AnswerDue
<1> QED BY <1>1, <1>3, <1>4, <1>5, <1>6, <1>7, QuietStep

(* An offer is accepted; until the peer hears of it, that is all there is. *)
LEMMA SettlesTogether ==
  ASSUME Orderly, Separate, Basic, Pend, Together, NEW p \in Parties, NEW type \in Kinds,
         NEW m \in Requests(p, type), NEW n \in Negs(bodies, bodies + 1), NEW s,
         Respond(p, m, n, 200, s), neg[p].state = "done", prepared[p] = NoSdp, m.sdp # NoSdp,
         "answer" \in may, s = n.activeLocal, n.activeRemote = m.sdp, s # NoSdp,
         \/ type = "UPDATE" /\ invite' = invite
         \/ type = "INVITE" /\ invite[p] = NoInvite /\ Finishes(p, m, 200)
  PROVE  Together'
<1> DEFINE q == Peer(p)
<1>1. /\ Types /\ NegChange(p, n) /\ may' = may /\ client' = client /\ prepared' = prepared
      /\ neg'[p] = n /\ neg'[q] = neg[q] /\ m \in net /\ m.type = type /\ m.id.from = q
      /\ \A r \in Parties : r # p => invite'[r] = invite[r]
      /\ PeerInvite(p)' => may \cap Invites # {}
  BY RespondFrame
<1>2. PICK c \in client : c.id = m.id /\ c.type = type /\ c.sdp = m.sdp
  BY RespondFrame
<1>3. PICK r : /\ net' = (net \ {m}) \cup {r}
               /\ r.type = "response" /\ r.id = m.id /\ r.code = 200 /\ r.sdp = s
  BY RespondFrame
<1>4. q \in Parties /\ q # p /\ Peer(q) = p /\ \A u \in Parties : u = p \/ u = q
  BY PartyFacts, BothParties
<1> HIDE DEF q
<1>5. ~Given(q)
  BY <1>1, <1>2, Exclusive
<1>6. \A u \in Parties : \A id : ~Gave(u, id)
  BY <1>4, <1>5 DEF Gave
<1>7. \A l \in net' : ~AnswerAck(l)
  <2>1. ASSUME NEW l \in net, AnswerAck(l) PROVE FALSE
    <3>1. Gave(Peer(l.id.from), l.id) /\ Peer(l.id.from) \in Parties
      BY <1>1, <2>1, FieldFacts, PartyFacts DEF Together, Halfway
    <3> QED BY <1>6, <3>1
  <2> QED BY <1>3, <2>1 DEF AnswerAck
<1>8. ASSUME NEW d \in client', NEW l \in net', Accepts(d, l) PROVE d = c /\ l = r
  <2>1. CASE l = r
    BY <1>1, <1>2, <1>3, <1>8, <2>1 DEF Accepts, Basic, Wired
  <2>2. CASE l \in net /\ l # m
    <3>1. d \in client /\ d.id.from \in Parties /\ Peer(d.id.from) \in Parties
      BY <1>1, FieldFacts, PartyFacts
    <3>2. d.sdp # NoSdp
      BY <1>6, <1>8, <2>2, <3>1 DEF Together, Halfway
    <3>3. neg[d.id.from].state = "localOffer"
      BY <3>1, <3>2 DEF Together, Outstanding
    <3>4. d.id.from = q
      BY <1>4, <3>1, <3>3
    <3>5. d = c
      BY <1>1, <1>2, <3>1, <3>2, <3>4, Exclusive
    <3>6. l.id = m.id
      BY <1>2, <1>8, <3>5 DEF Accepts
    <3> QED BY <1>1, <2>2, <3>6 DEF Basic, Wired
  <2> QED BY <1>3, <2>1, <2>2
<1>9. AnswerDue(c, r)
  BY <1>2, <1>3 DEF AnswerDue, Accepts
<1>10. Halfway'
  <2>1. ASSUME NEW d \in client', NEW l \in net', AnswerDue(d, l)
        PROVE  LET u == Peer(d.id.from) IN
               /\ neg'[u].activeRemote.body = d.sdp.body /\ neg'[u].activeLocal.body = l.sdp.body
               /\ l.sdp # NoSdp
               /\ \A k \in net' : ~AnswerAck(k)
               /\ \A e \in client', k \in net' : AnswerDue(e, k) => e = d
    <3>1. d = c /\ l = r /\ Peer(d.id.from) = p
      BY <1>1, <1>2, <1>4, <1>8, <2>1 DEF AnswerDue
    <3>2. \A e \in client', k \in net' : AnswerDue(e, k) => e = d
      BY <1>8, <3>1 DEF AnswerDue
    <3> QED BY <1>1, <1>2, <1>3, <1>7, <3>1, <3>2
  <2>2. ASSUME NEW d \in client', NEW l \in net', Accepts(d, l), d.sdp = NoSdp PROVE FALSE
    BY <1>2, <1>8, <2>2
  <2> QED BY <1>7, <2>1, <2>2 DEF Halfway
<1>11. Level'
  BY <1>1, <1>2, <1>3, <1>9 DEF Level, Quiet
<1>12. Given(p)' => Given(p)
  <2>1. CASE invite' = invite
    BY <2>1 DEF Given, PeerInvite
  <2>2. CASE Finishes(p, m, 200)
    <3>1. invite'[p].done
      BY <1>1, <2>2 DEF Finishes, Types
    <3> QED BY <3>1 DEF Given
  <2> QED BY <2>1, <2>2
<1>13. Outstanding(p)'
  <2>1. \A d \in client : d.id.from = p => d.sdp = NoSdp
    BY NothingOut
  <2> QED BY <1>1, <2>1 DEF Outstanding
<1>14. \A u \in Parties : Outstanding(u)' /\ Served(u)'
  BY <1>1, <1>12, <1>13, OthersTogether
<1> QED BY <1>10, <1>11, <1>14 DEF Together

(* A re-INVITE without an offer gets one. *)
LEMMA GivesTogether ==
  ASSUME Orderly, Separate, Basic, Pend, Together, NEW p \in Parties,
         NEW m \in Requests(p, "INVITE"), NEW n \in Negs(bodies, bodies + 1),
         Respond(p, m, n, 200, n.local), neg[p].state = "done", prepared[p] = NoSdp, m.sdp = NoSdp,
         n.state = "localOffer", Keeps(neg[p], n), invite[p] = NoInvite, Waits(p, m, 200)
  PROVE  Together'
<1> DEFINE q == Peer(p)
<1>0. "INVITE" \in Kinds
  BY DEF Kinds
<1>1. /\ Types /\ NegChange(p, n) /\ may' = may /\ client' = client /\ prepared' = prepared
      /\ neg'[p] = n /\ neg'[q] = neg[q] /\ m \in net /\ m.type = "INVITE" /\ m.id.from = q
      /\ \A r \in Parties : r # p => invite'[r] = invite[r]
      /\ PeerInvite(p)' => may \cap Invites # {}
  BY <1>0, RespondFrame
<1>2. PICK c \in client : c.id = m.id /\ c.type = "INVITE" /\ c.sdp = m.sdp
  BY <1>0, RespondFrame
<1>3. PICK r : /\ net' = (net \ {m}) \cup {r}
               /\ r.type = "response" /\ r.id = m.id /\ r.code = 200 /\ r.sdp = n.local
  BY <1>0, RespondFrame
<1>4. q \in Parties /\ q # p /\ Peer(q) = p /\ \A u \in Parties : u = p \/ u = q
  BY PartyFacts, BothParties
<1>5. neg'[p].activeRemote = neg[p].activeRemote /\ neg'[p].activeLocal.body = neg[p].activeLocal.body
  BY <1>1 DEF Keeps
<1> HIDE DEF q
<1>6. ~Given(q)
  BY <1>1, <1>2, Exclusive
<1>7. \A u \in Parties : \A id : ~Gave(u, id)
  BY <1>4, <1>6 DEF Gave
<1>8. \A l \in net' : ~AnswerAck(l)
  <2>1. ASSUME NEW l \in net, AnswerAck(l) PROVE FALSE
    <3>1. Gave(Peer(l.id.from), l.id) /\ Peer(l.id.from) \in Parties
      BY <1>1, <2>1, FieldFacts, PartyFacts DEF Together, Halfway
    <3> QED BY <1>7, <3>1
  <2> QED BY <1>3, <2>1 DEF AnswerAck
<1>9. /\ \A l : l \in net' /\ l \notin net => l = r
      /\ \A d, l : AnswerDue(d, l) => ((d \in client' /\ l \in net') <=> (d \in client /\ l \in net))
  <2>1. \A l : l \in net' /\ l \notin net => l = r
    BY <1>3
  <2>2. ASSUME NEW d \in client, AnswerDue(d, r) PROVE FALSE
    BY <1>2, <1>3, <2>2 DEF AnswerDue, Accepts, Basic, Wired
  <2>3. \A d : ~AnswerDue(d, m)
    BY <1>1 DEF AnswerDue, Accepts
  <2> QED BY <1>1, <1>3, <2>1, <2>2, <2>3
<1>10. Gave(p, m.id)'
  <2>1. invite'[p].id = m.id /\ invite'[p].code = 200 /\ ~invite'[p].done
    BY <1>1 DEF Waits, Types
  <2>2. invite'[p] # NoInvite
    BY <2>1, NoInviteFacts
  <2> QED BY <1>1, <1>4, <2>1, <2>2 DEF Gave, Given, PeerInvite
<1>11. Halfway'
  <2>1. ASSUME NEW d \in client', NEW l \in net', AnswerDue(d, l)
        PROVE  LET u == Peer(d.id.from) IN
               /\ neg'[u].activeRemote.body = d.sdp.body /\ neg'[u].activeLocal.body = l.sdp.body
               /\ l.sdp # NoSdp
               /\ \A k \in net' : ~AnswerAck(k)
               /\ \A e \in client', k \in net' : AnswerDue(e, k) => e = d
    <3>1. d \in client /\ l \in net /\ Peer(d.id.from) \in Parties
      BY <1>1, <1>9, <2>1, FieldFacts, PartyFacts
    <3> QED BY <1>1, <1>4, <1>5, <1>8, <1>9, <2>1, <3>1 DEF Together, Halfway
  <2>2. ASSUME NEW d \in client', NEW l \in net', Accepts(d, l), d.sdp = NoSdp
        PROVE  Gave(Peer(d.id.from), l.id)' /\ l.sdp = neg'[Peer(d.id.from)].local
    <3>1. l = r
      <4>1. d \in client /\ Peer(d.id.from) \in Parties
        BY <1>1, FieldFacts, PartyFacts
      <4>2. l \notin net
        BY <1>7, <2>2, <4>1 DEF Together, Halfway
      <4> QED BY <1>9, <4>2
    <3>2. d.id.from = q /\ l.id = m.id
      BY <1>1, <1>3, <2>2, <3>1 DEF Accepts
    <3> QED BY <1>1, <1>3, <1>4, <1>10, <3>1, <3>2
  <2> QED BY <1>8, <2>1, <2>2 DEF Halfway
<1>12. Level'
  <2>1. Quiet' => Quiet
    <3>1. ASSUME NEW l \in net, AnswerAck(l) PROVE FALSE
      <4>1. l \in net'
        BY <1>1, <1>3, <3>1 DEF AnswerAck
      <4> QED BY <1>8, <3>1, <4>1
    <3> QED BY <1>1, <1>9, <3>1 DEF Quiet
  <2>2. \A u \in Parties : /\ neg'[u].activeRemote.body = neg[u].activeRemote.body
                           /\ neg'[u].activeLocal.body = neg[u].activeLocal.body
    BY <1>1, <1>4, <1>5
  <2>3. \A u \in Parties : Peer(u) \in Parties
    BY PartyFacts
  <2> QED BY <2>1, <2>2, <2>3 DEF Together, Level
<1>13. Outstanding(p)'
  <2>1. "answer" \in may => \A d \in client : d.id.from = p => d.sdp = NoSdp
    BY NothingOut
  <2> QED BY <1>1, <2>1 DEF Outstanding
<1>14. \A u \in Parties : Outstanding(u)' /\ Served(u)'
  <2>1. ~Given(Peer(p))
    BY <1>6 DEF q
  <2> QED BY <1>1, <1>13, <2>1, OthersTogether
<1> QED BY <1>11, <1>12, <1>14 DEF Together

LEMMA RespondsTogether ==
  ASSUME Orderly, Separate, Basic, Pend, Together, NEW p \in Parties,
         \/ RxInviteBusy(p) \/ RxInviteGlare(p) \/ RxInviteOffer(p) \/ RxInviteNoOffer(p)
         \/ RxUpdate(p)
  PROVE  Together'
<1>1. /\ Types /\ Attended(p) /\ neg[p] \in Negs(bodies, bodies) /\ bodies \in Nat
      /\ neg[p] \in Negs(bodies, bodies + 1) /\ Keeps(neg[p], neg[p])
      /\ "INVITE" \in Kinds /\ "UPDATE" \in Kinds
      /\ \A s \in Offers(bodies + 1) : s # NoSdp
  BY PendFields, OneMore DEF Kinds, Keeps
<1>2. prepared[p] = NoSdp
  BY NothingPrepared DEF RxInviteBusy, RxInviteGlare, RxInviteOffer, RxInviteNoOffer, RxUpdate
<1>3. ASSUME NEW type \in Kinds, NEW m \in Requests(p, type), NEW code, NEW n, NEW s,
             neg[p].state = "done", Settles(p, m, n, code, s), m.sdp # NoSdp,
             \/ type = "UPDATE" /\ invite' = invite
             \/ type = "INVITE" /\ invite[p] = NoInvite /\ code = 200 /\ Finishes(p, m, code)
             \/ type = "INVITE" /\ invite[p] = NoInvite /\ code # 200 /\ Waits(p, m, code)
      PROVE  Together'
  <2>1. CASE /\ code = 200 /\ "answer" \in may
             /\ s = n.activeLocal /\ n.activeRemote = m.sdp /\ n.activeLocal \in Offers(bodies + 1)
    <3>1. Respond(p, m, n, 200, s) /\ n \in Negs(bodies, bodies + 1) /\ s # NoSdp
      BY <1>1, <1>3, <2>1 DEF Settles
    <3>2. \/ type = "UPDATE" /\ invite' = invite
          \/ type = "INVITE" /\ invite[p] = NoInvite /\ Finishes(p, m, 200)
      BY <1>3, <2>1
    <3> QED BY <1>2, <1>3, <2>1, <3>1, <3>2, SettlesTogether
  <2>2. CASE code \in {488, 500} /\ s = NoSdp /\ Keeps(neg[p], n)
    <3>1. Respond(p, m, n, code, s) /\ n \in Negs(bodies, bodies + 1) /\ code # 200
      BY <1>3, <2>2 DEF Settles
    <3>2. \/ invite' = invite
          \/ type = "INVITE" /\ invite[p] = NoInvite /\ Waits(p, m, code)
      BY <1>3, <3>1
    <3> QED BY <1>2, <1>3, <2>2, <3>1, <3>2, RespondQuiet
  <2> QED BY <1>3, <2>1, <2>2 DEF Settles
<1>4. CASE RxInviteBusy(p)
  <2>1. PICK m \in Requests(p, "INVITE"), code \in {491, 500} : Respond(p, m, neg[p], code, NoSdp)
    BY <1>4 DEF RxInviteBusy
  <2>2. invite' = invite /\ code # 200
    BY <1>4 DEF RxInviteBusy
  <2> QED BY <1>1, <1>2, <2>1, <2>2, RespondQuiet
<1>5. CASE RxInviteGlare(p)
  <2>1. PICK m \in Requests(p, "INVITE") :
          Respond(p, m, neg[p], 491, NoSdp) /\ Waits(p, m, 491)
    BY <1>5 DEF RxInviteGlare, Pending, Waits
  <2>2. invite[p] = NoInvite /\ 491 # 200
    BY <1>5 DEF RxInviteGlare
  <2> QED BY <1>1, <1>2, <2>1, <2>2, RespondQuiet
<1>6. CASE RxInviteOffer(p)
  <2>1. PICK m \in Requests(p, "INVITE"), code \in {200, 488, 500} : \E n, s :
          /\ m.sdp # NoSdp /\ Settles(p, m, n, code, s)
          /\ \/ code = 200 /\ Finishes(p, m, code)
             \/ code # 200 /\ Waits(p, m, code)
    BY <1>6, OfferTaken
  <2>2. invite[p] = NoInvite /\ neg[p].state = "done"
    BY <1>6, OfferTaken
  <2> QED BY <1>1, <1>3, <2>1, <2>2
<1>7. CASE RxInviteNoOffer(p)
  <2>1. PICK m \in Requests(p, "INVITE"),
             n \in {ModifyLocalOffer(neg[p], bodies + 1), SendLocalOffer(neg[p])} :
          m.sdp = NoSdp /\ Respond(p, m, n, 200, n.local) /\ Waits(p, m, 200)
    BY <1>7 DEF RxInviteNoOffer, Pending, Waits
  <2>2. invite[p] = NoInvite /\ neg[p].state = "done"
    BY <1>7 DEF RxInviteNoOffer
  <2>3. n \in Negs(bodies, bodies + 1) /\ n.state = "localOffer" /\ Keeps(neg[p], n)
    <3>1. CASE n = ModifyLocalOffer(neg[p], bodies + 1)
      BY <1>1, <3>1, ModifyFacts
    <3>2. CASE n = SendLocalOffer(neg[p])
      <4>1. n \in Negs(bodies, bodies) /\ n.state = "localOffer" /\ Keeps(neg[p], n)
        BY <1>1, <2>2, <3>2, SendLocalFacts
      <4> QED BY <1>1, <4>1, OneMore
    <3> QED BY <3>1, <3>2
  <2> QED BY <1>2, <2>1, <2>2, <2>3, GivesTogether
<1>8. CASE RxUpdate(p)
  <2>1. PICK m \in Requests(p, "UPDATE"), code \in {200, 488, 491, 500} : \E n, s :
          \/ neg[p].state = "done" /\ Settles(p, m, n, code, s)
          \/ code # 200 /\ n = neg[p] /\ s = NoSdp /\ Respond(p, m, n, code, s)
    BY <1>8, UpdateTaken
  <2>2. invite' = invite
    BY <1>8, UpdateTaken
  <2>3. m.sdp # NoSdp
    <3>1. PICK c \in client : c.id = m.id /\ c.type = "UPDATE" /\ c.sdp = m.sdp
      BY DEF Requests, Basic, Wired, Kinds
    <3> QED BY <3>1 DEF Pend, Fits
  <2> QED BY <1>1, <1>2, <1>3, <2>1, <2>2, <2>3, RespondQuiet
<1> QED BY <1>4, <1>5, <1>6, <1>7, <1>8

(* An ACK arrives, or is lost for good. *)
LEMMA AckTogether ==
  ASSUME Orderly, Separate, Basic, Pend, Together, NEW p \in Parties,
         RxAck(p) \/ RxFailureAck(p) \/ AckLost(p)
  PROVE  Together'
<1> DEFINE q == Peer(p)
<1>1. /\ Types /\ Attended(p) /\ neg[p] \in Negs(bodies, bodies) /\ bodies \in Nat
      /\ Outstanding(p) /\ Served(p)
  BY PendFields DEF Together
<1>2. q \in Parties /\ q # p /\ Peer(q) = p /\ \A u \in Parties : u = p \/ u = q
  BY PartyFacts, BothParties
(* What all three have in common. *)
<1>3. ASSUME NEW m \in net, m.type = "ACK", m.id.from # p, net' = net \ {m}, Ended(p, m.id),
             client' = client, may' = may, prepared' = prepared
      PROVE  /\ \A u \in Parties : u # p => prepared'[u] = prepared[u] /\ invite'[u] = invite[u]
             /\ invite'[p] = IF invite[p].id = m.id THEN NoInvite ELSE invite[p]
             /\ (PeerInvite(p)' => PeerInvite(p)) /\ (Given(p)' => Given(p))
             /\ PeerInvite(p)' => may \cap Invites # {}
             /\ \A l \in net' : l.id # m.id
             /\ m.id.from = q
             /\ \A c, l : Accepts(c, l) => (l \in net' <=> l \in net)
  <2>1. /\ \A u \in Parties : u # p => invite'[u] = invite[u]
        /\ invite'[p] = IF invite[p].id = m.id THEN NoInvite ELSE invite[p]
    BY <1>1, <1>3 DEF Ended, Types
  <2>2. (PeerInvite(p)' => PeerInvite(p)) /\ (Given(p)' => Given(p))
    BY <2>1 DEF PeerInvite, Given
  <2>3. \A l \in net' : l.id # m.id
    BY <1>3 DEF Basic, Wired
  <2>4. m.id.from = q
    BY <1>1, <1>2, <1>3, FieldFacts
  <2> QED BY <1>1, <1>3, <2>1, <2>2, <2>3, <2>4 DEF Served, Accepts
(* No answer is lost. *)
<1>4. ASSUME NEW m \in net, m.type = "ACK", m.id.from # p, net' = net \ {m}, Ended(p, m.id),
             client' = client, may' = may, prepared' = prepared, ~AnswerAck(m),
             NEW n, NegChange(p, n), Keeps(neg[p], n), invite[p].id # m.id => n = neg[p],
             Outstanding(p)'
      PROVE  Together'
  <2>1. /\ \A u \in Parties : u # p => prepared'[u] = prepared[u] /\ invite'[u] = invite[u]
        /\ invite'[p] = IF invite[p].id = m.id THEN NoInvite ELSE invite[p]
        /\ (PeerInvite(p)' => may \cap Invites # {}) /\ (Given(p)' => Given(p))
        /\ \A l \in net' : l.id # m.id
        /\ \A c, l : Accepts(c, l) => (l \in net' <=> l \in net)
    BY <1>3, <1>4
  <2>2. \A l : AnswerAck(l) => (l \in net' <=> l \in net)
    BY <1>4
  <2>3. ASSUME NEW l \in net', Gave(p, l.id)
        PROVE  n.state = "localOffer" /\ n.local = neg[p].local /\ invite'[p] = invite[p]
    BY <1>4, <2>1, <2>3 DEF Gave
  <2>4. /\ \A c, l : AnswerDue(c, l) => ((c \in client' /\ l \in net') <=> (c \in client /\ l \in net))
        /\ \A c \in client', l \in net' : Accepts(c, l) /\ c.sdp = NoSdp => c \in client /\ l \in net
    BY <1>4, <2>1 DEF AnswerDue
  <2> QED BY <1>4, <2>1, <2>2, <2>3, <2>4, QuietStep
<1>5. CASE RxAck(p)
  <2>0. prepared[p] = NoSdp
    BY <1>5, NothingPrepared DEF RxAck
  <2>1. PICK m \in net, reply \in Replies \cap may : \E n :
          LET heard == IF invite[p].done THEN neg[p]
                       ELSE CheckSdp(neg[p], m.sdp, reply, bodies + 1)
          IN /\ m.type = "ACK" /\ m.code = 200 /\ m.id.from # p
             /\ \/ invite[p].id = m.id /\ invite[p].code # 0 /\ n = CancelIfOffered(heard)
                \/ ~(invite[p].id = m.id /\ invite[p].code # 0) /\ n = neg[p]
             /\ NegChange(p, n) /\ net' = net \ {m} /\ Ended(p, m.id)
             /\ UNCHANGED <<may, client, prepared, cseq, sent>>
    BY <1>5, AckTaken
  <2> DEFINE checked == CheckSdp(neg[p], m.sdp, reply, bodies + 1)
             heard == IF invite[p].done THEN neg[p] ELSE checked
  <2>2. PICK n :
          /\ \/ invite[p].id = m.id /\ invite[p].code # 0 /\ n = CancelIfOffered(heard)
             \/ ~(invite[p].id = m.id /\ invite[p].code # 0) /\ n = neg[p]
          /\ NegChange(p, n)
    BY <2>1
  <2>3. neg'[p] = n /\ neg'[q] = neg[q] /\ may' = may /\ client' = client /\ prepared' = prepared
    BY <1>1, <1>2, <2>1, <2>2, NegAt
  <2>4. m.sdp \in Descs(bodies) /\ bodies + 1 \in Nat
    BY <1>1, FieldFacts
  <2>5. /\ checked \in Negs(bodies, bodies + 1)
        /\ m.sdp = NoSdp => checked = neg[p]
        /\ m.sdp # NoSdp /\ neg[p].state = "localOffer" =>
             checked.state = "done" /\ checked.activeRemote = m.sdp /\ checked.activeLocal = neg[p].local
    BY <1>1, <2>4, CheckFacts
  <2>6. CASE m.sdp = NoSdp
    <3>1. heard = neg[p] /\ ~AnswerAck(m)
      BY <2>5, <2>6 DEF AnswerAck
    <3> HIDE DEF heard
    <3>2. CancelIfOffered(neg[p]) \in Negs(bodies, bodies) /\ Keeps(neg[p], CancelIfOffered(neg[p]))
      BY <1>1, CancelIfOfferedFacts
    <3>3. Keeps(neg[p], n) /\ (invite[p].id # m.id => n = neg[p])
      BY <2>2, <3>1, <3>2 DEF Keeps
    <3>4. Outstanding(p)'
      <4>1. CASE n = neg[p]
        BY <1>1, <2>3, <4>1 DEF Outstanding
      <4>2. CASE n # neg[p]
        <5>1. PeerInvite(p)
          BY <1>1, <2>1, <2>2, <4>2, NoInviteFacts, FieldFacts DEF PeerInvite
        <5>2. "answer" \in may => \A c \in client : c.id.from = p => c.sdp = NoSdp
          BY <5>1, Exclusive
        <5> QED BY <2>0, <2>3, <5>2 DEF Outstanding
      <4> QED BY <4>1, <4>2
    <3> QED BY <1>4, <2>1, <2>2, <2>3, <3>1, <3>3, <3>4
  <2>7. CASE m.sdp # NoSdp
    <3>1. AnswerAck(m)
      BY <2>1, <2>7 DEF AnswerAck
    <3>2. /\ \A u \in Parties : u # p => prepared'[u] = prepared[u] /\ invite'[u] = invite[u]
          /\ (PeerInvite(p)' => may \cap Invites # {}) /\ (Given(p)' => Given(p))
          /\ \A l \in net' : l.id # m.id
          /\ m.id.from = q
      BY <1>3, <2>1, <2>3
    <3>3. /\ Gave(p, m.id)
          /\ neg[q].activeRemote.body = neg[p].local.body /\ neg[q].activeLocal.body = m.sdp.body
      BY <1>2, <3>1, <3>2 DEF Together, Halfway
    <3>4. heard = checked /\ invite[p].id = m.id /\ invite[p].code # 0 /\ neg[p].state = "localOffer"
      BY <3>3 DEF Gave, Given
    <3> HIDE DEF checked, heard
    <3>5. n.activeRemote = m.sdp /\ n.activeLocal = neg[p].local
      <4>1. n = CancelIfOffered(checked) /\ checked.state = "done"
        BY <2>2, <2>5, <2>7, <3>4
      <4>2. n = checked
        BY <4>1 DEF CancelIfOffered
      <4> QED BY <2>5, <2>7, <3>4, <4>2
    <3>6. Given(p) /\ ~Given(q)
      BY <1>1, <3>3 DEF Gave, Served
    <3>7. \A u \in Parties, l \in net' : ~Gave(u, l.id)
      BY <1>2, <3>2, <3>3, <3>6 DEF Gave
    <3>8. \A l \in net' : l \in net
      BY <2>1
    <3>9. \A l \in net' : ~AnswerAck(l)
      BY <1>1, <3>7, <3>8, FieldFacts, PartyFacts DEF Together, Halfway
    <3>10. \A c \in client', l \in net' : ~Accepts(c, l)
      <4> SUFFICES ASSUME NEW c \in client, NEW l \in net', Accepts(c, l) PROVE FALSE
        BY <2>3
      <4>1. Peer(c.id.from) \in Parties
        BY <1>1, FieldFacts, PartyFacts
      <4>2. c.sdp # NoSdp
        BY <3>7, <3>8, <4>1 DEF Together, Halfway
      <4>3. AnswerDue(c, l)
        BY <4>2 DEF AnswerDue
      <4> QED BY <3>1, <3>8, <4>3 DEF Together, Halfway
    <3>11. Halfway'
      BY <3>9, <3>10 DEF Halfway, AnswerDue
    <3>12. Level'
      <4>1. /\ neg'[p].activeRemote.body = neg'[q].activeLocal.body
            /\ neg'[q].activeRemote.body = neg'[p].activeLocal.body
        BY <2>3, <3>3, <3>5
      <4> HIDE DEF q
      <4>2. Peer(p) = q
        BY DEF q
      <4> QED BY <1>2, <4>1, <4>2 DEF Level
    <3>13. Outstanding(p)'
      <4>1. "answer" \in may => \A c \in client : c.id.from = p => c.sdp = NoSdp
        BY <3>6, Exclusive
      <4> QED BY <2>0, <2>3, <4>1 DEF Outstanding
    <3>14. \A u \in Parties : Outstanding(u)' /\ Served(u)'
      BY <2>2, <2>3, <3>2, <3>13, OthersTogether
    <3> QED BY <3>11, <3>12, <3>14 DEF Together
  <2> QED BY <2>6, <2>7
<1>6. CASE RxFailureAck(p) \/ AckLost(p)
  <2>1. PICK m \in net : m.type = "ACK" /\ m.id.from # p /\ net' = net \ {m} /\ Ended(p, m.id) /\
                         (m.code = 200 => "ackLost" \in may)
    BY <1>6 DEF RxFailureAck, AckLost
  <2>2. UNCHANGED <<may, neg, client, prepared, cseq, remoteCSeq, bodies, sent>>
    BY <1>6 DEF RxFailureAck, AckLost
  <2>3. NegChange(p, neg[p]) /\ Keeps(neg[p], neg[p])
    BY <1>1, <2>2, NegSame DEF Keeps
  <2>4. ~AnswerAck(m)
    <3> SUFFICES ASSUME AnswerAck(m) PROVE FALSE
      OBVIOUS
    <3>1. Given(Peer(m.id.from)) /\ Peer(m.id.from) \in Parties
      BY <1>1, FieldFacts, PartyFacts DEF Together, Halfway, Gave
    <3>2. "delayed" \in may
      BY <3>1 DEF Pend, Attended
    <3> QED BY <1>1, <2>1, <3>2, MayFacts DEF AnswerAck
  <2>5. Outstanding(p)'
    BY <1>1, <2>2 DEF Outstanding
  <2> QED BY <1>4, <2>1, <2>2, <2>3, <2>4, <2>5
<1> QED BY <1>5, <1>6

LEMMA EndsTogether ==
  ASSUME Orderly, Separate, Basic, Pend, Together, NEW p \in Parties,
         InviteAccepted(p) \/ InviteRefused(p) \/ UpdateAnswered(p) \/ Challenged(p) \/ TransportFails(p)
  PROVE  Together'
<1>1. /\ Types /\ Attended(p) /\ neg[p].state \in {"done", "localOffer"}
      /\ neg[p] \in Negs(bodies, bodies) /\ bodies \in Nat /\ Keeps(neg[p], neg[p])
      /\ \A s \in Offers(bodies + 1) : s # NoSdp
  BY PendFields DEF Keeps
<1>2. ASSUME InviteAccepted(p) \/ InviteRefused(p) \/ UpdateAnswered(p) \/ Challenged(p)
      PROVE  prepared[p] = NoSdp
  BY <1>2, NothingPrepared DEF InviteAccepted, InviteRefused, UpdateAnswered, Challenged
(* What is known where a request of p is accepted. *)
<1>3. ASSUME NEW c, NEW m, NEW n, Concludes(p, c, m, n), m.type = "response", m.code = 200
      PROVE  /\ c \in client /\ c.id.from = p /\ Accepts(c, m)
             /\ c.sdp # NoSdp => AnswerDue(c, m) /\ m.sdp # NoSdp /\ neg[p].state = "localOffer"
             /\ c.sdp = NoSdp => m.sdp # NoSdp /\ neg[p].state = "done" /\ "none" \notin may
  <2>1. c \in client /\ c.id.from = p /\ m \in net /\ Accepts(c, m)
    BY <1>3 DEF Concludes, Accepts
  <2>2. ASSUME c.sdp # NoSdp PROVE AnswerDue(c, m) /\ m.sdp # NoSdp /\ neg[p].state = "localOffer"
    <3>1. AnswerDue(c, m) /\ "answer" \in may
      BY <2>1, <2>2 DEF AnswerDue, Accepts, Pend, AnswersAllowed
    <3> QED BY <2>1, <2>2, <3>1 DEF Together, Halfway, Outstanding
  <2>3. ASSUME c.sdp = NoSdp PROVE m.sdp # NoSdp /\ neg[p].state = "done" /\ "none" \notin may
    <3>1. Gave(Peer(p), m.id) /\ m.sdp = neg[Peer(p)].local
      BY <2>1, <2>3 DEF Together, Halfway
    <3>2. m.sdp # NoSdp
      BY <3>1, PartyFacts, PendFields DEF Gave
    <3> QED BY <1>1, <2>1, <2>3, <3>2, MayFacts DEF Pend, Fits
  <2> QED BY <2>1, <2>2, <2>3
(* A request that ends without an answer. *)
<1>4. ASSUME NEW c, NEW m, NEW n, Concludes(p, c, m, n), Silently(m), prepared[p] = NoSdp,
             m.code # 200 \/ m.type = c.type,
             IF c.type = "UPDATE" THEN Drops(p, n) ELSE n = neg[p]
      PROVE  Together'
  <2>1. c.type \in Kinds
    BY <1>1, <1>4, FieldFacts DEF Concludes
  <2>2. ~AnswerDue(c, m)
    BY <1>4, <2>1 DEF AnswerDue, Accepts, Kinds
  <2>3. Keeps(neg[p], n)
    BY <1>1, <1>4 DEF Drops
  <2> QED BY <1>4, <2>2, <2>3, ConcludeQuiet
<1>5. CASE InviteAccepted(p)
  <2>1. PICK c, m, n : \E s \in {NoSdp, n.activeLocal} :
           /\ Concludes(p, c, m, n) /\ Acknowledging(p, m, s)
           /\ c.type = "INVITE" /\ m.type = "response" /\ m.code = 200
           /\ neg[p].state = "localOffer" =>
                /\ s = NoSdp
                /\ m.sdp # NoSdp => n.activeRemote = m.sdp /\ n.activeLocal = neg[p].local
           /\ neg[p].state = "done" /\ m.sdp # NoSdp =>
                \/ "none" \in may
                \/ /\ "answer" \in may /\ n.activeRemote = m.sdp
                   /\ s = n.activeLocal /\ s \in Offers(bodies + 1)
                \/ Keeps(neg[p], n) /\ s = NoSdp
    BY <1>5, AcceptedTaken
  <2>2. PICK s :
           /\ Concludes(p, c, m, n) /\ Acknowledging(p, m, s)
           /\ c.type = "INVITE" /\ m.type = "response" /\ m.code = 200
           /\ neg[p].state = "localOffer" =>
                /\ s = NoSdp
                /\ m.sdp # NoSdp => n.activeRemote = m.sdp /\ n.activeLocal = neg[p].local
           /\ neg[p].state = "done" /\ m.sdp # NoSdp =>
                \/ "none" \in may
                \/ /\ "answer" \in may /\ n.activeRemote = m.sdp
                   /\ s = n.activeLocal /\ s \in Offers(bodies + 1)
                \/ Keeps(neg[p], n) /\ s = NoSdp
    BY <2>1
  <2>3. prepared[p] = NoSdp
    BY <1>2, <1>5
  <2>4. CASE c.sdp # NoSdp
    <3>1. AnswerDue(c, m) /\ m.sdp # NoSdp /\ neg[p].state = "localOffer"
      BY <1>3, <2>2, <2>4
    <3>2. Acknowledging(p, m, NoSdp) /\ n.activeRemote = m.sdp /\ n.activeLocal = neg[p].local
      BY <2>2, <3>1
    <3> QED BY <2>2, <2>3, <3>1, <3>2, ConcludeClose
  <2>5. CASE c.sdp = NoSdp
    <3>1. Accepts(c, m) /\ m.sdp # NoSdp /\ neg[p].state = "done" /\ "none" \notin may
      BY <1>3, <2>2, <2>5
    <3>2. CASE /\ "answer" \in may /\ n.activeRemote = m.sdp
               /\ s = n.activeLocal /\ s \in Offers(bodies + 1)
      <4>1. s # NoSdp
        BY <1>1, <3>2
      <4> QED BY <2>2, <2>3, <2>5, <3>1, <3>2, <4>1, ConcludeOpen
    <3>3. CASE Keeps(neg[p], n) /\ s = NoSdp
      <4>1. ~AnswerDue(c, m)
        BY <2>5 DEF AnswerDue
      <4> QED BY <2>2, <2>3, <3>3, <4>1, ConcludeQuiet
    <3> QED BY <2>2, <3>1, <3>2, <3>3
  <2> QED BY <2>4, <2>5
<1>6. CASE InviteRefused(p)
  <2>1. PICK c, m, n : /\ Concludes(p, c, m, n) /\ Acknowledging(p, m, NoSdp)
                       /\ m.code \in Refusals /\ Drops(p, n)
    BY <1>6, RefusedTaken
  <2>2. ~AnswerDue(c, m) /\ Keeps(neg[p], n)
    BY <2>1 DEF AnswerDue, Accepts, Refusals, Drops
  <2> QED BY <1>2, <1>6, <2>1, <2>2, ConcludeQuiet
<1>7. CASE UpdateAnswered(p)
  <2>1. PICK c, m, n :
          /\ Concludes(p, c, m, n) /\ Silently(m)
          /\ c.type = "UPDATE" /\ m.type = "response" /\ m.code \in {200} \cup Refusals
          /\ \/ Drops(p, n) /\ (m.code # 200 \/ m.sdp = NoSdp \/ neg[p].state # "localOffer")
             \/ /\ neg[p].state = "localOffer" /\ m.code = 200 /\ m.sdp # NoSdp
                /\ n.activeRemote = m.sdp /\ n.activeLocal = neg[p].local
    BY <1>7, UpdateAnswerTaken
  <2>2. prepared[p] = NoSdp
    BY <1>2, <1>7
  <2>3. c.sdp # NoSdp
    BY <2>1 DEF Concludes, Pend, Fits
  <2>4. CASE m.code # 200
    <3>1. ~AnswerDue(c, m) /\ Keeps(neg[p], n)
      BY <2>1, <2>4 DEF AnswerDue, Accepts, Drops
    <3> QED BY <2>1, <2>2, <3>1, ConcludeQuiet
  <2>5. CASE m.code = 200
    <3>1. AnswerDue(c, m) /\ m.sdp # NoSdp /\ neg[p].state = "localOffer"
      BY <1>3, <2>1, <2>3, <2>5
    <3>2. n.activeRemote = m.sdp /\ n.activeLocal = neg[p].local
      BY <2>1, <2>5, <3>1
    <3> QED BY <2>1, <2>2, <3>1, <3>2, ConcludeClose
  <2> QED BY <2>4, <2>5
<1>8. CASE Challenged(p)
  <2>1. CASE \E c, m : Resends(p, c, m)
    <3>1. PICK c, m : Resends(p, c, m)
      BY <2>1
    <3>2. /\ c \in client /\ c.id.from = p /\ m \in net /\ m.id = c.id /\ m.code = 401
          /\ c.type \in Kinds
          /\ SendRequest(p, c.type, c.sdp, client \ {c}, net \ {m})
          /\ UNCHANGED <<may, neg, prepared, remoteCSeq, bodies>>
      BY <1>1, <3>1, FieldFacts DEF Resends
    <3>3. NegChange(p, neg[p]) /\ prepared'[p] = NoSdp
      BY <1>1, <1>2, <1>8, <3>2, NegSame
    <3>4. client \ {c} \in SUBSET client /\ net \ {m} \in SUBSET net
      OBVIOUS
    <3>5. \A d \in client, l \in net : AnswerDue(d, l) => d \in client \ {c} /\ l \in net \ {m}
      <4>1. \A l \in net : l.id = c.id => l.code = 401
        BY <3>2 DEF Basic, Wired
      <4> QED BY <3>2, <4>1 DEF AnswerDue, Accepts
    <3>6. \A l \in net : AnswerAck(l) => l \in net \ {m}
      BY <3>2 DEF AnswerAck
    <3>7. ~Given(p)
      BY <3>2, Exclusive DEF Kinds
    <3>8. "answer" \in may => \A d \in client \ {c} : d.id.from = p => d.sdp = NoSdp
      BY <3>2, Exclusive
    <3>9. "answer" \in may /\ c.sdp # NoSdp => neg[p].state = "localOffer" /\ neg[p].local = c.sdp
      BY <3>2 DEF Together, Outstanding
    <3> QED BY <1>1, <3>2, <3>3, <3>4, <3>5, <3>6, <3>7, <3>8, <3>9, SendTogether
  <2>2. CASE "noCredentials" \in may /\ \E c, m, n :
               /\ Concludes(p, c, m, n) /\ Silently(m) /\ m.code = 401
               /\ IF c.type = "UPDATE" THEN Drops(p, n) ELSE n = neg[p]
    <3>1. PICK c, m, n : /\ Concludes(p, c, m, n) /\ Silently(m) /\ m.code = 401
                         /\ IF c.type = "UPDATE" THEN Drops(p, n) ELSE n = neg[p]
      BY <2>2
    <3>2. m.code # 200
      BY <3>1
    <3> QED BY <1>2, <1>4, <1>8, <3>1, <3>2
  <2> QED BY <1>8, <2>1, <2>2, ChallengeTaken
<1>9. CASE TransportFails(p)
  <2>1. "transport" \in may
    BY <1>9 DEF TransportFails
  <2>2. prepared[p] = NoSdp
    BY <1>1, <2>1, MayFacts DEF Attended
  <2> QED BY <1>4, <1>9, <2>1, <2>2, FailTaken
<1> QED BY <1>5, <1>6, <1>7, <1>8, <1>9

LEMMA TogetherStep ==
  ASSUME Orderly, Separate, Basic, Pend, Together, [Next]_vars
  PROVE  Together'
<1>1. CASE Challenge
  BY <1>1, RebuffTogether
<1>2. ASSUME NEW p \in Parties, Step(p) PROVE Together'
  BY <1>2, StartTogether, RefreshTogether, RebuffTogether, RespondsTogether, AckTogether,
     EndsTogether DEF Step
<1>3. CASE UNCHANGED vars
  <2>1. UNCHANGED <<may, neg, invite, client, prepared, net>>
    BY <1>3 DEF vars
  <2>2. Halfway' /\ Level'
    BY <2>1 DEF Together, Halfway, Level, Quiet, Gave, Given, PeerInvite
  <2>3. \A p \in Parties : Outstanding(p)' /\ Served(p)'
    BY <2>1 DEF Together, Outstanding, Served, Given, PeerInvite
  <2> QED BY <2>2, <2>3 DEF Together
<1> QED BY <1>1, <1>2, <1>3 DEF Next

LEMMA TogetherInit ==
  ASSUME Init
  PROVE  Together
<1>1. /\ client = {} /\ net = {}
      /\ \A p \in Parties : prepared[p] = NoSdp /\ ~PeerInvite(p) /\ ~Given(p)
  BY DEF Init, PeerInvite, Given
<1>2. Level
  <2>1. \A p \in Parties : /\ neg[p].activeLocal = Sdp(1, IF p = First THEN 1 ELSE 2)
                           /\ neg[p].activeRemote = Sdp(1, 3 - (IF p = First THEN 1 ELSE 2))
    BY DEF Init, First
  <2>2. \A p \in Parties : Peer(p) \in Parties /\ (p = First <=> Peer(p) # First)
    BY PartyFacts, BothParties
  <2>3. \A b : Sdp(1, b).body = b
    BY DEF Sdp
  <2>4. ASSUME NEW p \in Parties PROVE neg[p].activeRemote.body = neg[Peer(p)].activeLocal.body
    <3>1. CASE p = First
      BY <2>1, <2>2, <2>3, <3>1
    <3>2. CASE p # First
      BY <2>1, <2>2, <2>3, <3>2
    <3> QED BY <3>1, <3>2
  <2> QED BY <2>4 DEF Level
<1> QED BY <1>1, <1>2 DEF Together, Halfway, Outstanding, Served

(* When all is quiet both ends describe the same session, in every orderly  *)
(* call where UPDATE and INVITE do not mix (inv_check_sdp_in_incoming_msg   *)
(* and the answers sent after it).                                          *)
THEOREM EndsAgree == ASSUME Orderly, Separate PROVE Spec => []Agreement
<1>1. Init => Basic /\ Pend /\ Together
  BY BasicInit, PendInit, TogetherInit
<1>2. Basic /\ Pend /\ Together /\ [Next]_vars => (Basic /\ Pend /\ Together)'
  BY BasicStep, PendStep, TogetherStep
<1>3. Together => Agreement
  <2> SUFFICES ASSUME Together, Settled PROVE \A p \in Parties : neg[p].activeRemote.body = neg[Peer(p)].activeLocal.body
    BY DEF Agreement
  <2>1. Quiet
    BY DEF Settled, Quiet
  <2> QED BY <2>1 DEF Together, Level
<1> QED BY <1>1, <1>2, <1>3, PTL DEF Spec
=============================================================================
