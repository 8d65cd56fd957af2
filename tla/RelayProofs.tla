---------------------------- MODULE RelayProofs ----------------------------
(***************************************************************************)
(* What module Relay keeps true, for any number of callers, principals,    *)
(* devices and sockets.  The argument goes in stages, each of which uses   *)
(* those before it: the types and the bounds; the map of the sessions; who *)
(* a request belongs to; who waits; and that no request is carried out     *)
(* twice, from which every call is a remote call (RemoteCall).             *)
(***************************************************************************)
EXTENDS Relay, SequenceTheorems, FiniteSetTheorems, TLAPS

-----------------------------------------------------------------------------
(***************************************************************************)
(* The types                                                               *)
(***************************************************************************)
Places == {"idle", "chosen", "looked", "inserted", "waiting", "gone", "over"}
Placed == {"looked", "inserted", "waiting", "gone"}
Phases == {"stopped", "connecting", "upgrading", "connected", "pairing_required"}

Paired ==
    /\ PairingTypeOK
    /\ IsFiniteSet(offers) /\ IsFiniteSet(redeeming)
    /\ Cardinality(offers) + Cardinality(redeeming) + Len(tokens) <= MaxOffers

HubOK ==
    /\ sessions \in Seq(Session) /\ Len(sessions) <= MaxSessions
    /\ connections \in [Devices -> 0..Len(sessions)]

CallShape == [at : Places, principal : Principals \cup {Nobody}, reset : BOOLEAN,
              device : Devices \cup {Nobody}, session : 0..Len(sessions)]

CallsOK ==
    /\ calls \in [Callers -> CallShape]
    /\ \A c \in Callers :
         /\ calls[c].at = "chosen" => calls[c].device \in Devices
         /\ calls[c].at \in Placed => calls[c].session # 0

ClientShape == [phase : Phases, token : 0..Len(tokens), session : 0..Len(sessions),
                executing : Callers \cup {Nobody}]

ClientOK(client) ==
    /\ client.phase # "stopped" => client.token # 0
    /\ client.phase = "connected" <=> client.session # 0
    /\ client.phase # "connected" => client.executing = Nobody

ClientsOK ==
    /\ clients \in [Devices -> ClientShape]
    /\ \A d \in Devices : ClientOK(clients[d])

RestOK ==
    /\ answer \in [Callers -> {"none", "refused", "lost", "done"}]
    /\ ran \in [Callers -> Nat]
    /\ usb \in [Devices -> BOOLEAN]

Typed == Paired /\ HubOK /\ CallsOK /\ ClientsOK /\ RestOK

LEMMA RevokedForTyped ==
  ASSUME PairingTypeOK, NEW d \in Devices
  PROVE  RevokedFor(d) \in Seq(Token) /\ Len(RevokedFor(d)) = Len(tokens)
<1>1. tokens \in Seq(Token) /\ DOMAIN tokens = 1 .. Len(tokens) /\ Len(tokens) \in Nat
  BY LenProperties DEF PairingTypeOK
<1>2. ASSUME NEW i \in 1 .. Len(tokens)
      PROVE  [tokens[i] EXCEPT !.revoked = @ \/ tokens[i].device = d] \in Token
  <2>1. tokens[i] \in Token
    BY <1>1, ElementOfSeq
  <2>2. (tokens[i].revoked \/ tokens[i].device = d) \in BOOLEAN
    BY Zenon
  <2> QED BY <2>1, <2>2 DEF Token
<1>3. RevokedFor(d) \in [1 .. Len(tokens) -> Token]
  BY <1>1, <1>2 DEF RevokedFor
<1> QED BY <1>1, <1>3

LEMMA OneMore ==
  ASSUME NEW S, IsFiniteSet(S), NEW x
  PROVE  IsFiniteSet(S \cup {x}) /\ Cardinality(S \cup {x}) <= Cardinality(S) + 1
<1>1. Cardinality(S) \in Nat
  BY FS_CardinalityType
<1>2. IsFiniteSet(S \cup {x})
  BY FS_AddElement, Zenon
<1>3. Cardinality(S \cup {x}) = IF x \in S THEN Cardinality(S) ELSE Cardinality(S) + 1
  BY FS_AddElement, Zenon
<1> QED BY <1>1, <1>2, <1>3

LEMMA PairingKeeps ==
  ASSUME Typed, PairingStep
  PROVE  Paired' /\ Len(tokens') = Len(tokens)
<1>0. /\ Paired /\ PairingTypeOK /\ MaxOffers \in Nat
      /\ IsFiniteSet(offers) /\ IsFiniteSet(redeeming)
      /\ Cardinality(offers) \in Nat /\ Cardinality(redeeming) \in Nat /\ Len(tokens) \in Nat
  BY FS_CardinalityType, LenProperties, RelayAssumption DEF Typed, Paired, PairingTypeOK
<1>1. ASSUME NEW p \in Principals, CreateOffer(p) PROVE Paired' /\ Len(tokens') = Len(tokens)
  <2>1. PICK secret \in Secrets : offers' = offers \cup {[secret |-> secret, principal |-> p]}
    BY <1>1 DEF CreateOffer
  <2>2. IsFiniteSet(offers') /\ Cardinality(offers') <= Cardinality(offers) + 1
    BY <1>0, <2>1, OneMore
  <2>2a. Cardinality(offers') \in Nat
    BY <2>2, FS_CardinalityType
  <2>3. offers' \subseteq [secret : Secrets, principal : Principals]
    BY <1>0, <2>1 DEF PairingTypeOK
  <2>4. /\ redeeming' = redeeming /\ grants' = grants /\ tokens' = tokens
        /\ Cardinality(offers) + Cardinality(redeeming) + Len(tokens) < MaxOffers
    BY <1>1 DEF CreateOffer
  <2>5. PairingTypeOK'
    BY <1>0, <2>3, <2>4 DEF PairingTypeOK
  <2>6. Cardinality(offers') + Cardinality(redeeming) + Len(tokens) <= MaxOffers
    BY <1>0, <2>2, <2>2a, <2>4
  <2> QED BY <1>0, <2>2, <2>4, <2>5, <2>6 DEF Paired
<1>2. ASSUME NEW offer \in offers, OfferExpires(offer) PROVE Paired' /\ Len(tokens') = Len(tokens)
  <2>1. /\ offers' = offers \ {offer}
        /\ redeeming' = redeeming /\ grants' = grants /\ tokens' = tokens
    BY <1>2 DEF OfferExpires
  <2>2. IsFiniteSet(offers') /\ Cardinality(offers') = Cardinality(offers) - 1
    BY <1>0, <2>1, FS_RemoveElement
  <2>3. PairingTypeOK'
    BY <1>0, <2>1 DEF PairingTypeOK
  <2>4. Cardinality(offers') + Cardinality(redeeming) + Len(tokens) <= MaxOffers
    BY <1>0, <2>2 DEF Paired
  <2> QED BY <1>0, <2>1, <2>2, <2>3, <2>4 DEF Paired
<1>3. ASSUME NEW d \in Devices, NEW offer \in offers, Redeem(d, offer)
      PROVE  Paired' /\ Len(tokens') = Len(tokens)
  <2> DEFINE r == [device |-> d, secret |-> offer.secret, principal |-> offer.principal]
  <2>1. /\ offers' = offers \ {offer} /\ redeeming' = redeeming \cup {r}
        /\ grants' = grants /\ tokens' = tokens
    BY <1>3 DEF Redeem
  <2>2. IsFiniteSet(offers') /\ Cardinality(offers') = Cardinality(offers) - 1
    BY <1>0, <2>1, FS_RemoveElement
  <2>3. IsFiniteSet(redeeming') /\ Cardinality(redeeming') <= Cardinality(redeeming) + 1
    BY <1>0, <2>1, OneMore
  <2>3a. Cardinality(redeeming') \in Nat
    BY <2>3, FS_CardinalityType
  <2>4. offer \in [secret : Secrets, principal : Principals]
    BY <1>0 DEF PairingTypeOK
  <2>5. r \in [device : Devices, secret : Secrets, principal : Principals]
    BY <2>4
  <2>6. PairingTypeOK'
    BY <1>0, <2>1, <2>5 DEF PairingTypeOK
  <2>7. Cardinality(offers') + Cardinality(redeeming') + Len(tokens) <= MaxOffers
    BY <1>0, <2>2, <2>3, <2>3a DEF Paired
  <2> QED BY <2>1, <2>2, <2>3, <2>6, <2>7 DEF Paired
<1> QED BY <1>1, <1>2, <1>3 DEF PairingStep

LEMMA IssueKeeps ==
  ASSUME Typed, NEW r \in redeeming, Issue(r)
  PROVE  Paired' /\ Len(tokens') = Len(tokens) + 1
<1>0. /\ Paired /\ PairingTypeOK /\ MaxOffers \in Nat
      /\ IsFiniteSet(offers) /\ IsFiniteSet(redeeming)
      /\ Cardinality(offers) \in Nat /\ Cardinality(redeeming) \in Nat /\ Len(tokens) \in Nat
  BY FS_CardinalityType, LenProperties, RelayAssumption DEF Typed, Paired, PairingTypeOK
<1> DEFINE token == [device |-> r.device, principal |-> r.principal, revoked |-> FALSE]
<1>1. /\ redeeming' = redeeming \ {r} /\ offers' = offers
      /\ tokens' = Append(RevokedFor(r.device), token)
      /\ grants' = [grants EXCEPT ![r.device] = [principal |-> r.principal, revoked |-> FALSE]]
  BY DEF Issue
<1>2. r \in [device : Devices, secret : Secrets, principal : Principals]
  BY <1>0 DEF PairingTypeOK
<1>3. token \in Token /\ r.device \in Devices
  BY <1>2 DEF Token
<1>4. RevokedFor(r.device) \in Seq(Token) /\ Len(RevokedFor(r.device)) = Len(tokens)
  BY <1>0, <1>3, RevokedForTyped
<1>5. tokens' \in Seq(Token) /\ Len(tokens') = Len(tokens) + 1
  BY <1>1, <1>3, <1>4, AppendProperties
<1>6. grants' \in [Devices -> Grant]
  BY <1>0, <1>1, <1>2 DEF PairingTypeOK, Grant
<1>7. IsFiniteSet(redeeming') /\ Cardinality(redeeming') = Cardinality(redeeming) - 1
  BY <1>0, <1>1, FS_RemoveElement
<1>8. PairingTypeOK'
  BY <1>0, <1>1, <1>5, <1>6 DEF PairingTypeOK
<1>9. Cardinality(offers') + Cardinality(redeeming') + Len(tokens') <= MaxOffers
  BY <1>0, <1>1, <1>5, <1>7 DEF Paired
<1> QED BY <1>0, <1>1, <1>5, <1>7, <1>8, <1>9 DEF Paired

LEMMA RevokeKeeps ==
  ASSUME Typed, Revocation
  PROVE  Paired' /\ Len(tokens') = Len(tokens)
<1>0. Paired /\ PairingTypeOK
  BY DEF Typed, Paired
<1>1. PICK d \in Devices, p \in Principals : RevokeDevice(p, d)
  BY DEF Revocation
<1>2. /\ offers' = offers /\ redeeming' = redeeming /\ tokens' = RevokedFor(d)
      /\ grants' = [grants EXCEPT ![d].revoked = TRUE]
  BY <1>1 DEF RevokeDevice
<1>3. tokens' \in Seq(Token) /\ Len(tokens') = Len(tokens)
  BY <1>0, <1>2, RevokedForTyped
<1>4. grants' \in [Devices -> Grant]
  BY <1>0, <1>2 DEF PairingTypeOK, Grant
<1>5. PairingTypeOK'
  BY <1>0, <1>2, <1>3, <1>4 DEF PairingTypeOK
<1> QED BY <1>0, <1>2, <1>3, <1>5 DEF Paired

-----------------------------------------------------------------------------
(***************************************************************************)
(* What an action does to the sessions                                     *)
(***************************************************************************)
Becomes(s, x) ==
    /\ s \in 1 .. Len(sessions) /\ x \in Session
    /\ sessions' \in Seq(Session) /\ Len(sessions') = Len(sessions)
    /\ \A i \in 1 .. Len(sessions) : sessions'[i] = IF i = s THEN x ELSE sessions[i]

LEMMA HubFacts ==
  ASSUME HubOK
  PROVE  /\ sessions \in Seq(Session) /\ Len(sessions) \in Nat
         /\ DOMAIN sessions = 1 .. Len(sessions)
         /\ \A s \in 1 .. Len(sessions) : sessions[s] \in Session
BY LenProperties, ElementOfSeq DEF HubOK

LEMMA SetOne ==
  ASSUME HubOK, NEW s \in 1 .. Len(sessions), NEW x \in Session,
         sessions' = [sessions EXCEPT ![s] = x]
  PROVE  Becomes(s, x)
<1>1. sessions \in Seq(Session)
  BY HubFacts
<1>2. /\ [sessions EXCEPT ![s] = x] \in Seq(Session)
      /\ Len([sessions EXCEPT ![s] = x]) = Len(sessions)
      /\ \A j \in 1 .. Len(sessions) :
           [sessions EXCEPT ![s] = x][j] = IF j = s THEN x ELSE sessions[j]
  BY <1>1, ExceptSeq
<1> QED BY <1>2, Zenon DEF Becomes

LEMMA InsertEffect ==
  ASSUME HubOK, CallsOK, NEW c \in Callers, Insert(c)
  PROVE  Becomes(calls[c].session,
                 [sessions[calls[c].session] EXCEPT
                    !.pending = sessions[calls[c].session].pending \cup {c}])
<1> DEFINE s == calls[c].session
           x == [sessions[s] EXCEPT !.pending = sessions[s].pending \cup {c}]
<1>1. s \in 1 .. Len(sessions)
  BY HubFacts DEF Insert, CallsOK, CallShape, Placed
<1>2. sessions[s] \in Session
  BY <1>1, HubFacts
<1>3. x \in Session
  BY <1>2 DEF Session
<1>4. sessions' = [sessions EXCEPT ![s] = x]
  BY <1>2 DEF Insert, Session
<1> QED BY <1>1, <1>3, <1>4, SetOne

LEMMA ForgetEffect ==
  ASSUME HubOK, NEW c \in Callers, NEW s \in 1 .. Len(sessions), sessions' = Forgotten(c, s)
  PROVE  Becomes(s, [sessions[s] EXCEPT !.pending = sessions[s].pending \ {c}])
<1> DEFINE x == [sessions[s] EXCEPT !.pending = sessions[s].pending \ {c}]
<1>2. sessions[s] \in Session
  BY HubFacts
<1>3. x \in Session
  BY <1>2 DEF Session
<1>4. sessions' = [sessions EXCEPT ![s] = x]
  BY <1>2 DEF Forgotten, Session
<1> QED BY <1>3, <1>4, SetOne

LEMMA QueueEffect ==
  ASSUME HubOK, NEW c \in Callers, NEW s \in 1 .. Len(sessions),
         sessions' = [sessions EXCEPT ![s].outbound = Append(@, c)]
  PROVE  Becomes(s, [sessions[s] EXCEPT !.outbound = Append(sessions[s].outbound, c)])
<1> DEFINE x == [sessions[s] EXCEPT !.outbound = Append(sessions[s].outbound, c)]
<1>2. sessions[s] \in Session
  BY HubFacts
<1>3. Append(sessions[s].outbound, c) \in Seq(Callers)
  BY <1>2, AppendProperties DEF Session
<1>4. x \in Session
  BY <1>2, <1>3 DEF Session
<1>5. sessions' = [sessions EXCEPT ![s] = x]
  BY <1>2 DEF Session
<1> QED BY <1>4, <1>5, SetOne

LEMMA DrainEffect ==
  ASSUME HubOK, NEW s \in 1 .. Len(sessions), sessions' = Drained(s)
  PROVE  Becomes(s, [sessions[s] EXCEPT !.pending = {}])
<1> DEFINE x == [sessions[s] EXCEPT !.pending = {}]
<1>2. sessions[s] \in Session
  BY HubFacts
<1>3. x \in Session
  BY <1>2 DEF Session
<1>4. sessions' = [sessions EXCEPT ![s] = x]
  BY <1>2 DEF Drained, Session
<1> QED BY <1>3, <1>4, SetOne

LEMMA HeadOfInbound ==
  ASSUME NEW x \in Session, x.inbound # <<>>
  PROVE  /\ Head(x.inbound) \in Frame /\ Tail(x.inbound) \in Seq(Frame)
         /\ Head(x.inbound).kind = "ready" => Head(x.inbound).usb \in BOOLEAN
         /\ Head(x.inbound).kind = "result" => Head(x.inbound).caller \in Callers
<1>1. x.inbound \in Seq(Frame)
  BY DEF Session
<1>2. Head(x.inbound) \in Frame /\ Tail(x.inbound) \in Seq(Frame)
  BY <1>1, HeadTailProperties
<1>3. Head(x.inbound).kind = "ready" => Head(x.inbound).usb \in BOOLEAN
  BY <1>2, Zenon DEF Frame
<1>4. Head(x.inbound).kind = "result" => Head(x.inbound).caller \in Callers
  BY <1>2 DEF Frame
<1> QED BY <1>2, <1>3, <1>4

LEMMA AcceptReadyEffect ==
  ASSUME HubOK, NEW s \in 1 .. Len(sessions), AcceptReady(s)
  PROVE  Becomes(s, [sessions[s] EXCEPT !.ready = Head(sessions[s].inbound).usb,
                                        !.inbound = Tail(sessions[s].inbound)])
<1> DEFINE x == [sessions[s] EXCEPT !.ready = Head(sessions[s].inbound).usb,
                                    !.inbound = Tail(sessions[s].inbound)]
<1>2. sessions[s] \in Session
  BY HubFacts
<1>3. Head(sessions[s].inbound).usb \in BOOLEAN /\ Tail(sessions[s].inbound) \in Seq(Frame)
  BY <1>2, HeadOfInbound, Zenon DEF AcceptReady
<1>4. x \in Session
  BY <1>2, <1>3 DEF Session
<1>5. sessions' = [sessions EXCEPT ![s] = x]
  BY <1>2 DEF AcceptReady, Session
<1> QED BY <1>4, <1>5, SetOne

LEMMA AcceptResultEffect ==
  ASSUME HubOK, NEW s \in 1 .. Len(sessions), AcceptResult(s)
  PROVE  Becomes(s, [sessions[s] EXCEPT
                       !.inbound = Tail(sessions[s].inbound),
                       !.pending = sessions[s].pending \ {Head(sessions[s].inbound).caller}])
<1> DEFINE c == Head(sessions[s].inbound).caller
           x == [sessions[s] EXCEPT !.inbound = Tail(sessions[s].inbound),
                                    !.pending = sessions[s].pending \ {c}]
<1>2. sessions[s] \in Session
  BY HubFacts
<1>3. Tail(sessions[s].inbound) \in Seq(Frame)
  BY <1>2, HeadOfInbound DEF AcceptResult
<1>4. x \in Session
  BY <1>2, <1>3 DEF Session
<1>5. sessions' = TakenResult(s, c)
  BY DEF AcceptResult
<1>6. sessions' = [sessions EXCEPT ![s] = x]
  BY <1>2, <1>5 DEF TakenResult, Session
<1> QED BY <1>4, <1>6, SetOne

LEMMA SocketEndsEffect ==
  ASSUME HubOK, NEW s \in 1 .. Len(sessions), SocketEnds(s)
  PROVE  Becomes(s, [sessions[s] EXCEPT !.task = "failing", !.inbound = <<>>, !.ready = FALSE])
<1> DEFINE x == [sessions[s] EXCEPT !.task = "failing", !.inbound = <<>>, !.ready = FALSE]
<1>2. sessions[s] \in Session
  BY HubFacts
<1>3. x \in Session
  BY <1>2, EmptySeq DEF Session
<1>4. sessions' = [sessions EXCEPT ![s] = x]
  BY <1>2 DEF SocketEnds, Session
<1> QED BY <1>3, <1>4, SetOne

LEMMA FailAllEffect ==
  ASSUME HubOK, NEW s \in 1 .. Len(sessions), FailAll(s)
  PROVE  Becomes(s, [sessions[s] EXCEPT !.pending = {}, !.task = "dropping"])
<1> DEFINE x == [sessions[s] EXCEPT !.pending = {}, !.task = "dropping"]
<1>2. sessions[s] \in Session
  BY HubFacts
<1>3. x \in Session
  BY <1>2 DEF Session
<1>4. sessions' = [sessions EXCEPT ![s] = x]
  BY <1>2 DEF FailAll, Drained, Session
<1> QED BY <1>3, <1>4, SetOne

LEMMA DropReceiverEffect ==
  ASSUME HubOK, NEW s \in 1 .. Len(sessions), DropReceiver(s)
  PROVE  Becomes(s, [sessions[s] EXCEPT !.task = "ended", !.outbound = <<>>])
<1> DEFINE x == [sessions[s] EXCEPT !.task = "ended", !.outbound = <<>>]
<1>2. sessions[s] \in Session
  BY HubFacts
<1>3. x \in Session
  BY <1>2, EmptySeq DEF Session
<1>4. sessions' = [sessions EXCEPT ![s] = x]
  BY <1>2 DEF DropReceiver, Session
<1> QED BY <1>3, <1>4, SetOne

LEMMA LeaveEffect ==
  ASSUME HubOK, NEW d \in Devices, clients[d].session \in 1 .. Len(sessions), Leave(d)
  PROVE  Becomes(clients[d].session, [sessions[clients[d].session] EXCEPT !.outbound = <<>>])
<1> DEFINE s == clients[d].session
           x == [sessions[s] EXCEPT !.outbound = <<>>]
<1>2. sessions[s] \in Session /\ s # 0
  BY HubFacts
<1>3. x \in Session
  BY <1>2, EmptySeq DEF Session
<1>4. sessions' = [sessions EXCEPT ![s] = x]
  BY <1>2 DEF Leave, Session
<1> QED BY <1>3, <1>4, SetOne

LEMMA SendsEffect ==
  ASSUME HubOK, NEW d \in Devices, clients[d].session \in 1 .. Len(sessions),
         NEW frame \in Frame, sessions' = Sends(d, frame)
  PROVE  Becomes(clients[d].session,
                 [sessions[clients[d].session] EXCEPT
                    !.inbound = Append(sessions[clients[d].session].inbound, frame)])
<1> DEFINE s == clients[d].session
           x == [sessions[s] EXCEPT !.inbound = Append(sessions[s].inbound, frame)]
<1>2. sessions[s] \in Session
  BY HubFacts
<1>3. Append(sessions[s].inbound, frame) \in Seq(Frame)
  BY <1>2, AppendProperties DEF Session
<1>4. x \in Session
  BY <1>2, <1>3 DEF Session
<1>5. sessions' = [sessions EXCEPT ![s] = x]
  BY <1>2 DEF Sends, Session
<1> QED BY <1>4, <1>5, SetOne

LEMMA ConsumeEffect ==
  ASSUME HubOK, NEW s \in 1 .. Len(sessions), sessions[s].outbound # <<>>,
         sessions' = Consumed(s)
  PROVE  Becomes(s, [sessions[s] EXCEPT !.outbound = Tail(sessions[s].outbound)])
<1> DEFINE x == [sessions[s] EXCEPT !.outbound = Tail(sessions[s].outbound)]
<1>2. sessions[s] \in Session
  BY HubFacts
<1>3. Tail(sessions[s].outbound) \in Seq(Callers)
  BY <1>2, HeadTailProperties DEF Session
<1>4. x \in Session
  BY <1>2, <1>3 DEF Session
<1>5. sessions' = [sessions EXCEPT ![s] = x]
  BY <1>2 DEF Consumed, Session
<1> QED BY <1>4, <1>5, SetOne

(* A new session is put after the others, of which the old one of the      *)
(* device loses its pending map.                                           *)
Appended(old, x) ==
    /\ x \in Session
    /\ sessions' \in Seq(Session) /\ Len(sessions') = Len(sessions) + 1
    /\ sessions'[Len(sessions) + 1] = x
    /\ \A i \in 1 .. Len(sessions) :
         sessions'[i] = IF i = old THEN [sessions[i] EXCEPT !.pending = {}] ELSE sessions[i]

LEMMA DrainedIs ==
  ASSUME HubOK, NEW s \in 1 .. Len(sessions)
  PROVE  /\ Drained(s) \in Seq(Session) /\ Len(Drained(s)) = Len(sessions)
         /\ \A i \in 1 .. Len(sessions) :
              Drained(s)[i] = IF i = s THEN [sessions[i] EXCEPT !.pending = {}] ELSE sessions[i]
<1> DEFINE x == [sessions[s] EXCEPT !.pending = {}]
<1>1. sessions[s] \in Session /\ sessions \in Seq(Session)
  BY HubFacts
<1>2. x \in Session
  BY <1>1 DEF Session
<1>3. Drained(s) = [sessions EXCEPT ![s] = x]
  BY <1>1 DEF Drained, Session
<1>4. /\ [sessions EXCEPT ![s] = x] \in Seq(Session)
      /\ Len([sessions EXCEPT ![s] = x]) = Len(sessions)
      /\ \A j \in 1 .. Len(sessions) :
           [sessions EXCEPT ![s] = x][j] = IF j = s THEN x ELSE sessions[j]
  BY <1>1, <1>2, ExceptSeq
<1> QED BY <1>3, <1>4

LEMMA ConnectEffect ==
  ASSUME Typed, NEW d \in Devices, Connect(d)
  PROVE  Appended(connections[d], NewSession(d))
<1> DEFINE old == connections[d]
           base == IF old = 0 THEN sessions ELSE Drained(old)
           x == NewSession(d)
<1>1. HubOK /\ Paired /\ PairingTypeOK /\ ClientsOK
  BY DEF Typed, Paired
<1>2. old \in 0 .. Len(sessions) /\ Len(sessions) \in Nat
  BY <1>1, HubFacts DEF HubOK
<1>3. clients[d] \in ClientShape /\ ClientOK(clients[d])
  BY <1>1 DEF ClientsOK
<1>4. tokens \in Seq(Token) /\ Len(tokens) \in Nat
  BY <1>1, LenProperties DEF PairingTypeOK
<1>5. clients[d].token \in 1 .. Len(tokens)
  BY <1>3, <1>4 DEF Connect, ClientShape, ClientOK
<1>6. tokens[clients[d].token] \in Token
  BY <1>4, <1>5, ElementOfSeq
<1>6a. tokens[clients[d].token].principal \in Principals
  BY <1>6 DEF Token
<1>7. x \in Session
  BY <1>6a, EmptySeq DEF NewSession, Session
<1>8. /\ base \in Seq(Session) /\ Len(base) = Len(sessions)
      /\ \A i \in 1 .. Len(sessions) :
           base[i] = IF i = old THEN [sessions[i] EXCEPT !.pending = {}] ELSE sessions[i]
  <2>1. CASE old = 0
    BY <1>1, <2>1, HubFacts
  <2>2. CASE old # 0
    BY <1>1, <1>2, <2>2, DrainedIs
  <2> QED BY <2>1, <2>2
<1>9. sessions' = Append(base, x)
  BY DEF Connect
<1>10. /\ Append(base, x) \in Seq(Session) /\ Len(Append(base, x)) = Len(sessions) + 1
       /\ \A i \in 1 .. Len(sessions) : Append(base, x)[i] = base[i]
       /\ Append(base, x)[Len(sessions) + 1] = x
  BY <1>2, <1>7, <1>8, AppendProperties
<1> QED BY <1>7, <1>8, <1>9, <1>10 DEF Appended

-----------------------------------------------------------------------------
(***************************************************************************)
(* Every action keeps the types                                            *)
(***************************************************************************)
LEMMA BecomesKeeps ==
  ASSUME HubOK, NEW s, NEW x, Becomes(s, x), connections' \in [Devices -> 0..Len(sessions)]
  PROVE  HubOK' /\ Len(sessions') = Len(sessions)
BY DEF HubOK, Becomes

LEMMA HubUnchanged ==
  ASSUME HubOK, UNCHANGED hubVars
  PROVE  HubOK' /\ Len(sessions') = Len(sessions)
BY DEF HubOK, hubVars

(* The calls and the clients refer to sessions and to tokens, of which     *)
(* there never are fewer.                                                  *)
LEMMA CallsUnchanged ==
  ASSUME CallsOK, UNCHANGED calls, Len(sessions) \in Nat, Len(sessions') \in Nat,
         Len(sessions) <= Len(sessions')
  PROVE  CallsOK'
<1>1. 0 .. Len(sessions) \subseteq 0 .. Len(sessions')
  OBVIOUS
<1>2. CallShape \subseteq CallShape'
  BY <1>1 DEF CallShape
<1>3. calls \in [Callers -> CallShape']
  BY <1>2 DEF CallsOK
<1> QED BY <1>3 DEF CallsOK

LEMMA CallChanged ==
  ASSUME CallsOK, NEW c \in Callers, NEW x \in CallShape, calls' = [calls EXCEPT ![c] = x],
         x.at = "chosen" => x.device \in Devices,
         x.at \in Placed => x.session # 0,
         Len(sessions') = Len(sessions)
  PROVE  CallsOK'
<1>1. CallShape' = CallShape
  BY DEF CallShape
<1>2. calls' \in [Callers -> CallShape]
  BY DEF CallsOK
<1>3. \A k \in Callers : calls'[k] = IF k = c THEN x ELSE calls[k]
  BY DEF CallsOK
<1> QED BY <1>1, <1>2, <1>3 DEF CallsOK

LEMMA ClientShapeGrows ==
  ASSUME Len(sessions) \in Nat, Len(sessions') \in Nat, Len(sessions) <= Len(sessions'),
         Len(tokens) \in Nat, Len(tokens') \in Nat, Len(tokens) <= Len(tokens')
  PROVE  ClientShape \subseteq ClientShape'
<1>1. 0 .. Len(sessions) \subseteq 0 .. Len(sessions') /\ 0 .. Len(tokens) \subseteq 0 .. Len(tokens')
  OBVIOUS
<1> QED BY <1>1 DEF ClientShape

LEMMA ClientsUnchanged ==
  ASSUME ClientsOK, UNCHANGED clients,
         Len(sessions) \in Nat, Len(sessions') \in Nat, Len(sessions) <= Len(sessions'),
         Len(tokens) \in Nat, Len(tokens') \in Nat, Len(tokens) <= Len(tokens')
  PROVE  ClientsOK'
<1>1. clients \in [Devices -> ClientShape']
  BY ClientShapeGrows DEF ClientsOK
<1>2. \A d \in Devices : ClientOK(clients'[d])
  BY DEF ClientsOK
<1>3. \A d \in Devices : ClientOK(clients[d])'
  BY <1>2 DEF ClientOK
<1> QED BY <1>1, <1>3 DEF ClientsOK

LEMMA ClientChanged ==
  ASSUME ClientsOK, NEW d \in Devices, NEW x, clients' = [clients EXCEPT ![d] = x],
         x \in ClientShape', ClientOK(x),
         Len(sessions) \in Nat, Len(sessions') \in Nat, Len(sessions) <= Len(sessions'),
         Len(tokens) \in Nat, Len(tokens') \in Nat, Len(tokens) <= Len(tokens')
  PROVE  ClientsOK'
<1>1. \A k \in Devices : clients[k] \in ClientShape'
  BY ClientShapeGrows DEF ClientsOK
<1>2. clients' \in [Devices -> ClientShape']
  BY <1>1 DEF ClientsOK
<1>3. \A k \in Devices : clients'[k] = IF k = d THEN x ELSE clients[k]
  BY DEF ClientsOK
<1>4. \A k \in Devices : ClientOK(clients'[k])
  BY <1>3 DEF ClientsOK
<1>5. \A k \in Devices : ClientOK(clients[k])'
  BY <1>4 DEF ClientOK
<1> QED BY <1>2, <1>5 DEF ClientsOK

LEMMA Lengths ==
  ASSUME Typed
  PROVE  /\ Len(sessions) \in Nat /\ Len(tokens) \in Nat
         /\ HubOK /\ Paired /\ PairingTypeOK /\ CallsOK /\ ClientsOK /\ RestOK
<1>1. HubOK /\ Paired /\ PairingTypeOK /\ CallsOK /\ ClientsOK /\ RestOK
  BY DEF Typed, Paired
<1>2. tokens \in Seq(Token)
  BY <1>1 DEF PairingTypeOK
<1> QED BY <1>1, <1>2, HubFacts, LenProperties

LEMMA PairedUnchanged ==
  ASSUME Paired, UNCHANGED pairingVars
  PROVE  Paired' /\ Len(tokens') = Len(tokens)
BY DEF Paired, PairingTypeOK, pairingVars

IdleShape == [at : {"idle"}, principal : {Nobody}, reset : BOOLEAN, device : {Nobody},
              session : {0}]

LEMMA IdleIs == Idle \in IdleShape
BY DEF Idle, IdleShape

LEMMA IdleFits ==
  ASSUME Len(sessions) \in Nat
  PROVE  Idle \in CallShape /\ Idle.session = 0
<1>1. 0 \in 0 .. Len(sessions)
  OBVIOUS
<1>2. Idle \in CallShape
  BY <1>1, IdleIs DEF IdleShape, CallShape, Places
<1>3. Idle.session = 0
  BY IdleIs DEF IdleShape
<1> QED BY <1>2, <1>3

LEMMA OverCalls ==
  ASSUME CallsOK, NEW c \in Callers, Over(c), Len(sessions) \in Nat, Len(sessions') = Len(sessions)
  PROVE  CallsOK'
<1> DEFINE x == [Idle EXCEPT !.at = "over", !.principal = calls[c].principal]
<1>1. calls[c].principal \in Principals \cup {Nobody}
  BY DEF CallsOK, CallShape
<1>2. x \in CallShape /\ x.at = "over"
  BY <1>1, IdleFits DEF Places, CallShape
<1>3. calls' = [calls EXCEPT ![c] = x]
  BY DEF Over
<1> HIDE DEF x
<1> QED BY <1>2, <1>3, CallChanged DEF Placed

LEMMA MoveCalls ==
  ASSUME CallsOK, NEW c \in Callers, NEW to \in Placed, Move(c, to), calls[c].at \in Placed,
         Len(sessions') = Len(sessions)
  PROVE  CallsOK'
<1> DEFINE x == [calls[c] EXCEPT !.at = to]
<1>1. calls[c] \in CallShape /\ calls[c].session # 0
  BY DEF CallsOK
<1>2. x \in CallShape /\ x.at = to /\ x.session # 0
  BY <1>1 DEF CallShape, Places, Placed
<1>3. calls' = [calls EXCEPT ![c] = x]
  BY DEF Move
<1> HIDE DEF x
<1>4. to # "chosen"
  BY DEF Placed
<1> QED BY <1>2, <1>3, <1>4, CallChanged

LEMMA LostTyped ==
  ASSUME RestOK, NEW S
  PROVE  Lost(S) \in [Callers -> {"none", "refused", "lost", "done"}]
BY DEF Lost, RestOK

LEMMA ChooseTyped ==
  ASSUME Typed, NEW c \in Callers, NEW p \in Principals, NEW reset \in BOOLEAN,
         Choose(c, p, reset)
  PROVE  Typed'
<1>0. /\ Len(sessions) \in Nat /\ Len(tokens) \in Nat
      /\ HubOK /\ Paired /\ PairingTypeOK /\ CallsOK /\ ClientsOK /\ RestOK
  BY Lengths
<1>1. UNCHANGED <<pairingVars, hubVars, deviceVars>>
  BY DEF Choose
<1>2. /\ Paired' /\ Len(tokens') = Len(tokens) /\ HubOK' /\ Len(sessions') = Len(sessions)
      /\ ClientsOK'
  BY <1>0, <1>1, PairedUnchanged, HubUnchanged, ClientsUnchanged DEF deviceVars
<1>3. CASE \E d \in Devices :
             calls' = [calls EXCEPT ![c] = [@ EXCEPT !.at = "chosen", !.principal = p,
                                                     !.reset = reset, !.device = d]]
           /\ UNCHANGED answer
  <2>1. PICK d \in Devices :
             calls' = [calls EXCEPT ![c] = [@ EXCEPT !.at = "chosen", !.principal = p,
                                                     !.reset = reset, !.device = d]]
    BY <1>3
  <2> DEFINE x == [calls[c] EXCEPT !.at = "chosen", !.principal = p, !.reset = reset, !.device = d]
  <2>2. calls[c] \in CallShape
    BY <1>0 DEF CallsOK
  <2>3. x \in CallShape /\ x.at = "chosen" /\ x.device = d
    BY <2>2 DEF CallShape, Places
  <2>4. calls' = [calls EXCEPT ![c] = x]
    BY <2>1, <1>0 DEF CallsOK
  <2> HIDE DEF x
  <2>5. CallsOK'
    BY <1>0, <1>2, <2>3, <2>4, CallChanged DEF Placed
  <2>6. RestOK'
    BY <1>0, <1>1, <1>3 DEF RestOK, deviceVars
  <2> QED BY <1>2, <2>5, <2>6 DEF Typed
<1>4. CASE Refuse(c)
  <2>1. CallsOK'
    BY <1>0, <1>2, <1>4, OverCalls DEF Refuse
  <2>2. RestOK'
    BY <1>0, <1>1, <1>4 DEF RestOK, deviceVars, Refuse
  <2> QED BY <1>2, <2>1, <2>2 DEF Typed
<1> QED BY <1>3, <1>4 DEF Choose

LEMMA LookupTyped ==
  ASSUME Typed, NEW c \in Callers, Lookup(c)
  PROVE  Typed'
<1> DEFINE s == connections[calls[c].device]
<1>0. /\ Len(sessions) \in Nat /\ Len(tokens) \in Nat
      /\ HubOK /\ Paired /\ PairingTypeOK /\ CallsOK /\ ClientsOK /\ RestOK
  BY Lengths
<1>1. UNCHANGED <<pairingVars, hubVars, deviceVars>>
  BY DEF Lookup
<1>2. /\ Paired' /\ Len(tokens') = Len(tokens) /\ HubOK' /\ Len(sessions') = Len(sessions)
      /\ ClientsOK'
  BY <1>0, <1>1, PairedUnchanged, HubUnchanged, ClientsUnchanged DEF deviceVars
<1>3. CASE /\ CanDispatch(c, s)
           /\ calls' = [calls EXCEPT ![c] = [Idle EXCEPT !.at = "looked", !.session = s,
                                                         !.principal = calls[c].principal]]
           /\ UNCHANGED answer
  <2> DEFINE x == [Idle EXCEPT !.at = "looked", !.session = s, !.principal = calls[c].principal]
  <2>1. calls[c].device \in Devices /\ calls[c].principal \in Principals \cup {Nobody}
    BY <1>0 DEF CallsOK, CallShape, Lookup
  <2>2. s \in 0 .. Len(sessions) /\ s # 0
    BY <1>0, <1>3, <2>1 DEF HubOK, CanDispatch
  <2>3. x \in CallShape /\ x.at = "looked" /\ x.session = s
    BY <1>0, <2>1, <2>2, IdleFits DEF Places, CallShape
  <2>4. calls' = [calls EXCEPT ![c] = x]
    BY <1>3
  <2> HIDE DEF x
  <2>5. CallsOK'
    BY <1>0, <1>2, <2>2, <2>3, <2>4, CallChanged DEF Placed
  <2>6. RestOK'
    BY <1>0, <1>1, <1>3 DEF RestOK, deviceVars
  <2> QED BY <1>2, <2>5, <2>6 DEF Typed
<1>4. CASE Refuse(c)
  <2>1. CallsOK'
    BY <1>0, <1>2, <1>4, OverCalls DEF Refuse
  <2>2. RestOK'
    BY <1>0, <1>1, <1>4 DEF RestOK, deviceVars, Refuse
  <2> QED BY <1>2, <2>1, <2>2 DEF Typed
<1> QED BY <1>3, <1>4 DEF Lookup

LEMMA InsertTyped ==
  ASSUME Typed, NEW c \in Callers, Insert(c)
  PROVE  Typed'
<1>0. /\ Len(sessions) \in Nat /\ Len(tokens) \in Nat
      /\ HubOK /\ Paired /\ PairingTypeOK /\ CallsOK /\ ClientsOK /\ RestOK
  BY Lengths
<1>1. UNCHANGED <<pairingVars, connections, answer, deviceVars>>
  BY DEF Insert
<1>2. HubOK' /\ Len(sessions') = Len(sessions)
  BY <1>0, <1>1, InsertEffect, BecomesKeeps DEF HubOK
<1>3. Paired' /\ Len(tokens') = Len(tokens) /\ ClientsOK'
  BY <1>0, <1>1, <1>2, PairedUnchanged, ClientsUnchanged DEF deviceVars
<1>4. CallsOK'
  BY <1>0, <1>2, MoveCalls DEF Insert, Placed
<1>5. RestOK'
  BY <1>0, <1>1 DEF RestOK, deviceVars
<1> QED BY <1>2, <1>3, <1>4, <1>5 DEF Typed

(* Most actions change one session at most.                                *)
Moved ==
    \/ UNCHANGED sessions
    \/ \E s \in 1 .. Len(sessions), x \in Session : Becomes(s, x)

LEMMA BecomesMoved ==
  ASSUME NEW s, NEW x, Becomes(s, x)
  PROVE  Moved
BY DEF Becomes, Moved

LEMMA MovedKeeps ==
  ASSUME HubOK, Moved, UNCHANGED connections
  PROVE  HubOK' /\ Len(sessions') = Len(sessions)
<1>1. CASE UNCHANGED sessions
  BY <1>1, HubUnchanged DEF hubVars
<1>2. CASE \E s \in 1 .. Len(sessions), x \in Session : Becomes(s, x)
  BY <1>2, BecomesKeeps DEF HubOK
<1> QED BY <1>1, <1>2 DEF Moved

LEMMA LeaveMoved ==
  ASSUME Typed, NEW d \in Devices, Leave(d)
  PROVE  Moved
<1>1. HubOK /\ clients[d].session \in 0 .. Len(sessions) /\ Len(sessions) \in Nat
  BY Lengths DEF ClientsOK, ClientShape
<1>2. CASE clients[d].session = 0
  BY <1>2 DEF Leave, Moved
<1>3. CASE clients[d].session # 0
  <2>1. clients[d].session \in 1 .. Len(sessions)
    BY <1>1, <1>3
  <2> QED BY <1>1, <2>1, LeaveEffect, BecomesMoved
<1> QED BY <1>2, <1>3

(* The steps of a call that is in its session.                             *)
LEMMA PlacedTyped ==
  ASSUME Typed, NEW c \in Callers, Moved, UNCHANGED <<pairingVars, connections, deviceVars>>,
         Over(c) \/ (calls[c].at \in Placed /\ \E to \in Placed : Move(c, to)),
         answer' \in [Callers -> {"none", "refused", "lost", "done"}]
  PROVE  Typed'
<1>0. /\ Len(sessions) \in Nat /\ Len(tokens) \in Nat
      /\ HubOK /\ Paired /\ PairingTypeOK /\ CallsOK /\ ClientsOK /\ RestOK
  BY Lengths
<1>1. HubOK' /\ Len(sessions') = Len(sessions)
  BY <1>0, MovedKeeps
<1>2. Paired' /\ Len(tokens') = Len(tokens) /\ ClientsOK'
  BY <1>0, <1>1, PairedUnchanged, ClientsUnchanged DEF deviceVars
<1>3. CallsOK'
  BY <1>0, <1>1, OverCalls, MoveCalls
<1>4. RestOK'
  BY <1>0 DEF RestOK, deviceVars
<1> QED BY <1>1, <1>2, <1>3, <1>4 DEF Typed

LEMMA SendTyped ==
  ASSUME Typed, NEW c \in Callers, Send(c)
  PROVE  Typed'
<1> DEFINE s == calls[c].session
<1>0. HubOK /\ CallsOK /\ RestOK /\ Len(sessions) \in Nat
  BY Lengths
<1>1. calls[c].at = "inserted" /\ s \in 1 .. Len(sessions)
  BY <1>0 DEF Send, CallsOK, CallShape, Placed
<1>2. UNCHANGED <<pairingVars, connections, deviceVars>>
  BY DEF Send
<1>3. CASE /\ sessions' = IF Attached(s) THEN [sessions EXCEPT ![s].outbound = Append(@, c)]
                                         ELSE sessions
           /\ Move(c, "waiting")
           /\ UNCHANGED answer
  <2>1. Moved
    BY <1>0, <1>1, <1>3, QueueEffect, BecomesMoved DEF Moved
  <2> QED BY <1>0, <1>1, <1>2, <1>3, <2>1, PlacedTyped DEF Placed, RestOK
<1>4. CASE /\ sessions' = Forgotten(c, s)
           /\ Over(c)
           /\ answer' = Lost({c})
  <2>1. Moved
    BY <1>0, <1>1, <1>4, ForgetEffect, BecomesMoved
  <2>2. answer' \in [Callers -> {"none", "refused", "lost", "done"}]
    BY <1>0, <1>4, LostTyped
  <2> QED BY <1>2, <1>4, <2>1, <2>2, PlacedTyped
<1> QED BY <1>3, <1>4 DEF Send

LEMMA ReturnsTyped ==
  ASSUME Typed, NEW c \in Callers, Returns(c)
  PROVE  Typed'
<1>1. RestOK
  BY Lengths
<1> QED BY <1>1, PlacedTyped DEF Returns, Moved, hubVars, RestOK

LEMMA TimesOutTyped ==
  ASSUME Typed, NEW c \in Callers, TimesOut(c)
  PROVE  Typed'
<1>0. HubOK /\ CallsOK /\ RestOK /\ Len(sessions) \in Nat
  BY Lengths
<1>1. calls[c].session \in 1 .. Len(sessions)
  BY <1>0 DEF TimesOut, CallsOK, CallShape, Placed
<1>2. Moved
  BY <1>0, <1>1, ForgetEffect, BecomesMoved DEF TimesOut
<1>3. answer' \in [Callers -> {"none", "refused", "lost", "done"}]
  BY <1>0, LostTyped DEF TimesOut
<1> QED BY <1>2, <1>3, PlacedTyped DEF TimesOut

LEMMA AbandonTyped ==
  ASSUME Typed, NEW c \in Callers, Abandon(c)
  PROVE  Typed'
<1>1. RestOK
  BY Lengths
<1>2. answer' \in [Callers -> {"none", "refused", "lost", "done"}]
  BY <1>1, LostTyped DEF Abandon
<1>3. UNCHANGED <<pairingVars, connections, deviceVars>> /\ Moved
  BY DEF Abandon, Moved, hubVars
<1>4. calls[c].at \in Placed /\ \E to \in Placed : Move(c, to)
  BY DEF Abandon, Placed
<1> QED BY <1>2, <1>3, <1>4, PlacedTyped

(* The steps of a session's task.                                          *)
LEMMA TaskTyped ==
  ASSUME Typed, NEW s, NEW x, Becomes(s, x),
         connections' \in [Devices -> 0..Len(sessions)],
         answer' \in [Callers -> {"none", "refused", "lost", "done"}],
         UNCHANGED <<pairingVars, calls, deviceVars>>
  PROVE  Typed'
<1>0. /\ Len(sessions) \in Nat /\ Len(tokens) \in Nat
      /\ HubOK /\ Paired /\ PairingTypeOK /\ CallsOK /\ ClientsOK /\ RestOK
  BY Lengths
<1>1. HubOK' /\ Len(sessions') = Len(sessions)
  BY <1>0, BecomesKeeps
<1>2. Paired' /\ Len(tokens') = Len(tokens) /\ ClientsOK'
  BY <1>0, <1>1, PairedUnchanged, ClientsUnchanged DEF deviceVars
<1>3. CallsOK'
  BY <1>0, <1>1, CallsUnchanged
<1>4. RestOK'
  BY <1>0 DEF RestOK, deviceVars
<1> QED BY <1>1, <1>2, <1>3, <1>4 DEF Typed

LEMMA SessionStepTyped ==
  ASSUME Typed, NEW s \in DOMAIN sessions, SessionStep(s)
  PROVE  Typed'
<1>0. HubOK /\ RestOK /\ s \in 1 .. Len(sessions) /\ connections \in [Devices -> 0..Len(sessions)]
  BY Lengths, HubFacts DEF HubOK
<1>1. CASE AcceptReady(s)
  <2>1. UNCHANGED <<pairingVars, connections, callVars, deviceVars>>
    BY <1>1 DEF AcceptReady
  <2> QED BY <1>0, <1>1, <2>1, AcceptReadyEffect, TaskTyped DEF RestOK, callVars
<1>2. CASE AcceptResult(s)
  <2>1. UNCHANGED <<pairingVars, connections, calls, deviceVars>>
    BY <1>2 DEF AcceptResult
  <2>2. answer' \in [Callers -> {"none", "refused", "lost", "done"}]
    BY <1>0, <1>2 DEF AcceptResult, RestOK
  <2> QED BY <1>0, <1>2, <2>1, <2>2, AcceptResultEffect, TaskTyped
<1>3. CASE FailAll(s)
  <2>1. UNCHANGED <<pairingVars, connections, calls, deviceVars>>
    BY <1>3 DEF FailAll
  <2>2. answer' \in [Callers -> {"none", "refused", "lost", "done"}]
    BY <1>0, <1>3, LostTyped DEF FailAll
  <2> QED BY <1>0, <1>3, <2>1, <2>2, FailAllEffect, TaskTyped
<1>4. CASE DropReceiver(s)
  <2>1. UNCHANGED <<pairingVars, connections, callVars, deviceVars>>
    BY <1>4 DEF DropReceiver
  <2> QED BY <1>0, <1>4, <2>1, DropReceiverEffect, TaskTyped DEF RestOK, callVars
<1> QED BY <1>1, <1>2, <1>3, <1>4 DEF SessionStep

LEMMA SocketEndsTyped ==
  ASSUME Typed, NEW s \in DOMAIN sessions, SocketEnds(s)
  PROVE  Typed'
<1>0. HubOK /\ RestOK /\ s \in 1 .. Len(sessions) /\ Len(sessions) \in Nat
      /\ connections \in [Devices -> 0..Len(sessions)]
  BY Lengths, HubFacts DEF HubOK
<1>1. UNCHANGED <<pairingVars, callVars, deviceVars>>
  BY DEF SocketEnds
<1>2. 0 \in 0 .. Len(sessions)
  BY <1>0
<1>3. connections' \in [Devices -> 0..Len(sessions)]
  BY <1>0, <1>2 DEF SocketEnds, Unlisted
<1> QED BY <1>0, <1>1, <1>3, SocketEndsEffect, TaskTyped DEF RestOK, callVars

(* The steps of a client that stay within the sessions there are.          *)
LEMMA ClientTyped ==
  ASSUME Typed, NEW d \in Devices, NEW x \in ClientShape, ClientOK(x),
         clients' = [clients EXCEPT ![d] = x], Moved,
         UNCHANGED <<pairingVars, connections, callVars, usb>>,
         ran' \in [Callers -> Nat]
  PROVE  Typed'
<1>0. /\ Len(sessions) \in Nat /\ Len(tokens) \in Nat
      /\ HubOK /\ Paired /\ PairingTypeOK /\ CallsOK /\ ClientsOK /\ RestOK
  BY Lengths
<1>1. HubOK' /\ Len(sessions') = Len(sessions)
  BY <1>0, MovedKeeps
<1>2. Paired' /\ Len(tokens') = Len(tokens)
  BY <1>0, PairedUnchanged
<1>3. ClientShape' = ClientShape
  BY <1>1, <1>2 DEF ClientShape
<1>3a. x \in ClientShape' /\ Len(sessions) <= Len(sessions') /\ Len(tokens) <= Len(tokens')
       /\ Len(sessions') \in Nat /\ Len(tokens') \in Nat
  BY <1>0, <1>1, <1>2, <1>3
<1>4. ClientsOK'
  BY <1>0, <1>3a, ClientChanged
<1>5. CallsOK'
  BY <1>0, <1>1, CallsUnchanged DEF callVars
<1>6. RestOK'
  BY <1>0 DEF RestOK, callVars
<1> QED BY <1>1, <1>2, <1>4, <1>5, <1>6 DEF Typed

LEMMA ClientFacts ==
  ASSUME Typed, NEW d \in Devices
  PROVE  /\ clients[d] \in ClientShape /\ ClientOK(clients[d])
         /\ HubOK /\ ran \in [Callers -> Nat]
         /\ Len(sessions) \in Nat /\ Len(tokens) \in Nat
         /\ clients[d].session \in 0 .. Len(sessions)
         /\ clients[d].phase = "connected" => clients[d].session \in 1 .. Len(sessions)
<1>1. ClientsOK /\ HubOK /\ RestOK /\ Len(sessions) \in Nat /\ Len(tokens) \in Nat
  BY Lengths
<1>2. clients[d] \in ClientShape /\ ClientOK(clients[d])
  BY <1>1 DEF ClientsOK
<1>3. clients[d].session \in 0 .. Len(sessions)
  BY <1>2 DEF ClientShape
<1>4. ASSUME clients[d].phase = "connected" PROVE clients[d].session \in 1 .. Len(sessions)
  BY <1>1, <1>2, <1>3, <1>4 DEF ClientOK
<1> QED BY <1>1, <1>2, <1>3, <1>4 DEF RestOK

(* A client that has no session.                                           *)
LEMMA Detached ==
  ASSUME Typed, NEW y \in ClientShape, NEW phase \in Phases \ {"connected"},
         phase # "stopped" => y.token # 0,
         NEW x, x = [y EXCEPT !.phase = phase, !.session = 0, !.executing = Nobody]
  PROVE  x \in ClientShape /\ ClientOK(x)
<1>1. Len(sessions) \in Nat
  BY Lengths
<1>2. 0 \in 0 .. Len(sessions)
  BY <1>1
<1>3. x \in ClientShape
  BY <1>2 DEF ClientShape
<1>4. x.phase = phase /\ x.session = 0 /\ x.executing = Nobody /\ x.token = y.token
  BY DEF ClientShape
<1> QED BY <1>3, <1>4, Zenon DEF ClientOK

LEMMA StopTyped ==
  ASSUME Typed, NEW d \in Devices, Stop(d)
  PROVE  Typed'
<1> DEFINE x == Stopped(clients[d])
<1>0. clients[d] \in ClientShape /\ ran \in [Callers -> Nat]
  BY ClientFacts
<1>1. x = [clients[d] EXCEPT !.phase = "stopped", !.session = 0, !.executing = Nobody]
  BY DEF Stopped
<1>2. x \in ClientShape /\ ClientOK(x)
  BY <1>0, <1>1, Detached DEF Phases
<1>3. Moved
  BY LeaveMoved DEF Stop
<1>4. clients' = [clients EXCEPT ![d] = x] /\ UNCHANGED <<pairingVars, connections, callVars, usb, ran>>
  BY DEF Stop, SetClient
<1> HIDE DEF x
<1> QED BY <1>0, <1>2, <1>3, <1>4, ClientTyped

LEMMA SocketLostTyped ==
  ASSUME Typed, NEW d \in Devices, SocketLost(d) \/ SendFails(d)
  PROVE  Typed'
<1> DEFINE x == [clients[d] EXCEPT !.phase = "connecting", !.session = 0, !.executing = Nobody]
<1>0. /\ clients[d] \in ClientShape /\ ran \in [Callers -> Nat] /\ ClientOK(clients[d])
      /\ clients[d].phase = "connected"
  BY ClientFacts DEF SocketLost, SendFails, Reading
<1>1. clients[d].token # 0
  BY <1>0 DEF ClientOK
<1>2. x \in ClientShape /\ ClientOK(x)
  BY <1>0, <1>1, Detached DEF Phases
<1>3. Moved
  BY LeaveMoved DEF SocketLost, SendFails
<1>4. clients' = [clients EXCEPT ![d] = x]
  <2>1. CASE SocketLost(d)
    <3>1. clients[d].executing = Nobody
      BY <2>1 DEF SocketLost, Reading
    <3>2. [clients[d] EXCEPT !.phase = "connecting", !.session = 0] = x
      BY <1>0, <3>1 DEF ClientShape
    <3> QED BY <2>1, <3>2 DEF SocketLost, SetClient
  <2>2. CASE SendFails(d)
    BY <2>2 DEF SendFails, SetClient
  <2> QED BY <2>1, <2>2
<1>5. UNCHANGED <<pairingVars, connections, callVars, usb, ran>>
  BY DEF SocketLost, SendFails
<1> HIDE DEF x
<1> QED BY <1>0, <1>2, <1>3, <1>4, <1>5, ClientTyped

(* The steps of a client that is not connected and does not become so.     *)
LEMMA PhaseTyped ==
  ASSUME Typed, NEW d \in Devices, NEW phase \in Phases \ {"connected", "stopped"},
         clients' = [clients EXCEPT ![d] = [clients[d] EXCEPT !.phase = phase]],
         clients[d].phase # "connected", clients[d].token # 0,
         UNCHANGED <<pairingVars, hubVars, callVars, usb, ran>>
  PROVE  Typed'
<1> DEFINE x == [clients[d] EXCEPT !.phase = phase]
<1>0. /\ clients[d] \in ClientShape /\ ran \in [Callers -> Nat] /\ ClientOK(clients[d])
  BY ClientFacts
<1>1. clients[d].session = 0 /\ clients[d].executing = Nobody
  BY <1>0, Zenon DEF ClientOK
<1>2. x \in ClientShape
  BY <1>0 DEF ClientShape
<1>3. /\ x.phase = phase /\ x.session = 0 /\ x.executing = Nobody
      /\ x.token = clients[d].token
  BY <1>0, <1>1 DEF ClientShape
<1>4. ClientOK(x)
  BY <1>3, Zenon DEF ClientOK
<1>5. Moved /\ UNCHANGED <<pairingVars, connections, callVars, usb>>
  BY DEF Moved, hubVars
<1>6. ran' \in [Callers -> Nat]
  BY <1>0
<1>7. clients' = [clients EXCEPT ![d] = x]
  OBVIOUS
<1> HIDE DEF x
<1> QED BY <1>2, <1>4, <1>5, <1>6, <1>7, ClientTyped

LEMMA PhasesTyped ==
  ASSUME Typed, NEW d \in Devices, Start(d) \/ Upgrade(d) \/ ConnectFails(d)
  PROVE  Typed'
<1>0. ClientOK(clients[d])
  BY ClientFacts
<1>1. CASE Start(d)
  <2>1. /\ clients[d].phase # "connected" /\ clients[d].token # 0
        /\ UNCHANGED <<pairingVars, hubVars, callVars, usb, ran>>
        /\ clients' = [clients EXCEPT ![d] = [clients[d] EXCEPT !.phase = "connecting"]]
    BY <1>1 DEF Start, SetClient
  <2> QED BY <2>1, PhaseTyped DEF Phases
<1>2. CASE Upgrade(d)
  <2>1. clients[d].phase # "connected" /\ clients[d].token # 0
    BY <1>0, <1>2 DEF Upgrade, ClientOK
  <2>2. PICK phase \in {"upgrading", "pairing_required"} :
          clients' = [clients EXCEPT ![d] = [clients[d] EXCEPT !.phase = phase]]
    BY <1>2 DEF Upgrade, SetClient
  <2>3. UNCHANGED <<pairingVars, hubVars, callVars, usb, ran>>
    BY <1>2 DEF Upgrade
  <2>4. phase \in Phases \ {"connected", "stopped"}
    BY DEF Phases
  <2> QED BY <2>1, <2>2, <2>3, <2>4, PhaseTyped
<1>3. CASE ConnectFails(d)
  <2>1. clients[d].phase # "connected" /\ clients[d].token # 0
    BY <1>0, <1>3 DEF ConnectFails, ClientOK
  <2>2. /\ UNCHANGED <<pairingVars, hubVars, callVars, usb, ran>>
        /\ clients' = [clients EXCEPT ![d] = [clients[d] EXCEPT !.phase = "connecting"]]
    BY <1>3 DEF ConnectFails, SetClient
  <2> QED BY <2>1, <2>2, PhaseTyped DEF Phases
<1> QED BY <1>1, <1>2, <1>3

LEMMA SendReadyTyped ==
  ASSUME Typed, NEW d \in Devices, SendReady(d)
  PROVE  Typed'
<1> DEFINE frame == [kind |-> "ready", usb |-> usb[d]]
<1>0. /\ Len(sessions) \in Nat /\ Len(tokens) \in Nat
      /\ HubOK /\ Paired /\ PairingTypeOK /\ CallsOK /\ ClientsOK /\ RestOK
  BY Lengths
<1>1. clients[d].session \in 1 .. Len(sessions)
  BY ClientFacts DEF SendReady, Reading
<1>2. usb[d] \in BOOLEAN
  BY <1>0 DEF RestOK
<1>3. frame \in Frame
  BY <1>2 DEF Frame
<1>4. /\ sessions' = Sends(d, frame)
      /\ UNCHANGED <<pairingVars, connections, callVars, deviceVars>>
  BY DEF SendReady
<1>5. Moved
  BY <1>0, <1>1, <1>3, <1>4, SendsEffect, BecomesMoved
<1>6. HubOK' /\ Len(sessions') = Len(sessions)
  BY <1>0, <1>4, <1>5, MovedKeeps
<1>7. Paired' /\ Len(tokens') = Len(tokens)
  BY <1>0, <1>4, PairedUnchanged
<1>8. CallsOK' /\ ClientsOK'
  BY <1>0, <1>4, <1>6, <1>7, CallsUnchanged, ClientsUnchanged DEF callVars, deviceVars
<1>9. RestOK'
  BY <1>0, <1>4 DEF RestOK, callVars, deviceVars
<1> QED BY <1>6, <1>7, <1>8, <1>9 DEF Typed

LEMMA ReadInvokeTyped ==
  ASSUME Typed, NEW d \in Devices, ReadInvoke(d)
  PROVE  Typed'
<1> DEFINE s == clients[d].session
           c == Head(sessions[s].outbound)
           x == [clients[d] EXCEPT !.executing = c]
<1>0. /\ clients[d] \in ClientShape /\ ClientOK(clients[d]) /\ HubOK /\ ran \in [Callers -> Nat]
      /\ s \in 1 .. Len(sessions) /\ clients[d].phase = "connected"
  BY ClientFacts DEF ReadInvoke, Reading
<1>1. sessions[s] \in Session /\ sessions[s].outbound # <<>>
  BY <1>0, HubFacts DEF ReadInvoke
<1>2. c \in Callers
  BY <1>1, HeadTailProperties DEF Session
<1>3. /\ sessions' = Consumed(s)
      /\ clients' = [clients EXCEPT ![d] = x]
      /\ ran' = [ran EXCEPT ![c] = @ + 1]
      /\ UNCHANGED <<pairingVars, connections, callVars, usb>>
  BY DEF ReadInvoke, SetClient
<1>4. Moved
  BY <1>0, <1>1, <1>3, ConsumeEffect, BecomesMoved
<1>5. x \in ClientShape
  BY <1>0, <1>2 DEF ClientShape
<1>6. ClientOK(x)
  BY <1>0 DEF ClientShape, ClientOK
<1>7. ran' \in [Callers -> Nat]
  BY <1>0, <1>2, <1>3
<1> HIDE DEF x, s, c
<1> QED BY <1>3, <1>4, <1>5, <1>6, <1>7, ClientTyped

LEMMA ExecutedTyped ==
  ASSUME Typed, NEW d \in Devices, Executed(d)
  PROVE  Typed'
<1> DEFINE frame == [kind |-> "result", caller |-> clients[d].executing]
           x == [clients[d] EXCEPT !.executing = Nobody]
<1>0. /\ clients[d] \in ClientShape /\ ClientOK(clients[d]) /\ HubOK /\ ran \in [Callers -> Nat]
      /\ clients[d].session \in 1 .. Len(sessions) /\ clients[d].phase = "connected"
      /\ clients[d].executing # Nobody
  BY ClientFacts DEF Executed
<1>1. clients[d].executing \in Callers
  BY <1>0 DEF ClientShape
<1>2. frame \in Frame
  BY <1>1 DEF Frame
<1>3. /\ sessions' = Sends(d, frame)
      /\ clients' = [clients EXCEPT ![d] = x]
      /\ UNCHANGED <<pairingVars, connections, callVars, usb, ran>>
  BY DEF Executed, SetClient
<1>4. Moved
  BY <1>0, <1>2, <1>3, SendsEffect, BecomesMoved
<1>5. x \in ClientShape
  BY <1>0 DEF ClientShape
<1>6. ClientOK(x)
  BY <1>0 DEF ClientShape, ClientOK
<1> HIDE DEF x
<1> QED BY <1>0, <1>3, <1>4, <1>5, <1>6, ClientTyped

LEMMA ConnectTyped ==
  ASSUME Typed, NEW d \in Devices, Connect(d)
  PROVE  Typed'
<1> DEFINE old == connections[d]
           n == Len(sessions) + 1
           x == [clients[d] EXCEPT !.phase = "connected", !.session = n]
<1>0. /\ Len(sessions) \in Nat /\ Len(tokens) \in Nat
      /\ HubOK /\ Paired /\ PairingTypeOK /\ CallsOK /\ ClientsOK /\ RestOK
  BY Lengths
<1>1. /\ sessions' \in Seq(Session) /\ Len(sessions') = n
  BY ConnectEffect DEF Appended
<1>2. Len(sessions) < MaxSessions /\ MaxSessions \in Nat
  BY RelayAssumption DEF Connect
<1>3. Len(sessions') <= MaxSessions
  BY <1>0, <1>1, <1>2
<1>4. n \in 0 .. Len(sessions') /\ 0 .. Len(sessions) \subseteq 0 .. Len(sessions')
  BY <1>0, <1>1
<1>5. connections' = [connections EXCEPT ![d] = n]
  BY DEF Connect
<1>6. connections' \in [Devices -> 0 .. Len(sessions')]
  BY <1>0, <1>4, <1>5 DEF HubOK
<1>7. HubOK'
  BY <1>1, <1>3, <1>6 DEF HubOK
<1>8. UNCHANGED <<pairingVars, calls, usb, ran>>
  BY DEF Connect
<1>9. Paired' /\ Len(tokens') = Len(tokens)
  BY <1>0, <1>8, PairedUnchanged
<1>10. CallsOK'
  BY <1>0, <1>1, <1>8, CallsUnchanged
<1>11. clients[d] \in ClientShape /\ ClientOK(clients[d]) /\ clients[d].phase = "upgrading"
  BY ClientFacts DEF Connect
<1>12. x \in ClientShape'
  <2>1. clients[d] \in ClientShape'
    BY <1>0, <1>1, <1>9, <1>11, ClientShapeGrows
  <2> QED BY <1>4, <2>1 DEF ClientShape, Phases
<1>13. ClientOK(x)
  <2>1. clients[d].executing = Nobody /\ clients[d].token # 0
    BY <1>11 DEF ClientOK
  <2>2. /\ x.phase = "connected" /\ x.session = n /\ x.executing = Nobody
        /\ x.token = clients[d].token
    BY <1>11, <2>1 DEF ClientShape
  <2> QED BY <1>0, <2>1, <2>2 DEF ClientOK
<1>14. clients' = [clients EXCEPT ![d] = x]
  BY <1>0 DEF Connect, ClientsOK, ClientShape
<1>15. ClientsOK'
  <2> HIDE DEF x
  <2>1. Len(sessions') \in Nat /\ Len(sessions) <= Len(sessions') /\ Len(tokens') \in Nat
        /\ Len(tokens) <= Len(tokens')
    BY <1>0, <1>1, <1>9
  <2> QED BY <1>0, <1>12, <1>13, <1>14, <2>1, ClientChanged
<1>16. answer' \in [Callers -> {"none", "refused", "lost", "done"}]
  BY <1>0, LostTyped DEF Connect, RestOK
<1>17. RestOK'
  BY <1>0, <1>8, <1>16 DEF RestOK
<1> QED BY <1>7, <1>9, <1>10, <1>15, <1>17 DEF Typed

LEMMA PairTyped ==
  ASSUME Typed, NEW d \in Devices, Pair(d)
  PROVE  Typed'
<1> DEFINE x == [Stopped(clients[d]) EXCEPT !.phase = "connecting", !.token = Len(tokens) + 1]
<1>0. /\ Len(sessions) \in Nat /\ Len(tokens) \in Nat
      /\ HubOK /\ Paired /\ PairingTypeOK /\ CallsOK /\ ClientsOK /\ RestOK
  BY Lengths
<1>1. Paired' /\ Len(tokens') = Len(tokens) + 1
  BY IssueKeeps DEF Pair
<1>2. UNCHANGED <<connections, callVars, usb, ran>>
  BY DEF Pair
<1>3. Moved
  BY LeaveMoved DEF Pair
<1>4. HubOK' /\ Len(sessions') = Len(sessions)
  BY <1>0, <1>2, <1>3, MovedKeeps
<1>5. clients[d] \in ClientShape'
  BY <1>0, <1>1, <1>4, ClientShapeGrows DEF ClientsOK
<1>6. Len(tokens) + 1 \in 0 .. Len(tokens') /\ 0 \in 0 .. Len(sessions')
  BY <1>0, <1>1, <1>4
<1>7. x \in ClientShape'
  BY <1>5, <1>6 DEF ClientShape, Phases, Stopped
<1>8. /\ x.phase = "connecting" /\ x.token = Len(tokens) + 1 /\ x.session = 0
      /\ x.executing = Nobody
  BY <1>5 DEF ClientShape, Stopped
<1> HIDE DEF x
<1>9. ClientOK(x)
  <2>1. x.token # 0
    BY <1>0, <1>8
  <2> QED BY <1>8, <2>1, Zenon DEF ClientOK
<1>10. clients' = [clients EXCEPT ![d] = x]
  BY DEF Pair, SetClient, x
<1>11. ClientsOK'
  <2>1. Len(sessions') \in Nat /\ Len(sessions) <= Len(sessions') /\ Len(tokens') \in Nat
        /\ Len(tokens) <= Len(tokens')
    BY <1>0, <1>1, <1>4
  <2> QED BY <1>0, <1>7, <1>9, <1>10, <2>1, ClientChanged
<1>12. CallsOK'
  BY <1>0, <1>2, <1>4, CallsUnchanged DEF callVars
<1>13. RestOK'
  BY <1>0, <1>2 DEF RestOK, callVars
<1> QED BY <1>1, <1>4, <1>11, <1>12, <1>13 DEF Typed

(* The steps that concern no session, no call and no client.               *)
LEMMA AsideTyped ==
  ASSUME Typed, Paired', Len(tokens') = Len(tokens), UNCHANGED <<hubVars, callVars, clients, ran>>,
         usb' \in [Devices -> BOOLEAN]
  PROVE  Typed'
<1>0. /\ Len(sessions) \in Nat /\ Len(tokens) \in Nat
      /\ HubOK /\ Paired /\ PairingTypeOK /\ CallsOK /\ ClientsOK /\ RestOK
  BY Lengths
<1>1. HubOK' /\ Len(sessions') = Len(sessions)
  BY <1>0, HubUnchanged
<1>2. CallsOK' /\ ClientsOK'
  BY <1>0, <1>1, CallsUnchanged, ClientsUnchanged DEF callVars
<1>3. RestOK'
  BY <1>0 DEF RestOK, callVars
<1> QED BY <1>1, <1>2, <1>3 DEF Typed

LEMMA TypedStep ==
  ASSUME Typed, [Next]_vars
  PROVE  Typed'
<1>0. Paired /\ RestOK
  BY Lengths
<1>1. ASSUME PairingStep PROVE Typed'
  <2>1. UNCHANGED <<hubVars, callVars, deviceVars>>
    BY <1>1 DEF PairingStep
  <2> QED BY <1>0, <1>1, <2>1, PairingKeeps, AsideTyped DEF deviceVars, RestOK
<1>2. ASSUME Revocation PROVE Typed'
  <2>1. UNCHANGED <<hubVars, callVars, deviceVars>>
    BY <1>2 DEF Revocation
  <2> QED BY <1>0, <1>2, <2>1, RevokeKeeps, AsideTyped DEF deviceVars, RestOK
<1>3. ASSUME NEW c \in Callers, CallStep(c) \/ Abandon(c) PROVE Typed'
  BY <1>3, ChooseTyped, LookupTyped, InsertTyped, SendTyped, ReturnsTyped, TimesOutTyped,
     AbandonTyped DEF CallStep
<1>4. ASSUME NEW s \in DOMAIN sessions, SessionStep(s) \/ SocketEnds(s) PROVE Typed'
  BY <1>4, SessionStepTyped, SocketEndsTyped
<1>5. ASSUME NEW d \in Devices, ClientStep(d) PROVE Typed'
  BY <1>5, PhasesTyped, PairTyped, ConnectTyped, SendReadyTyped, ReadInvokeTyped, ExecutedTyped
     DEF ClientStep
<1>6. ASSUME NEW d \in Devices, ClientFault(d) PROVE Typed'
  <2>1. CASE UsbChanges(d)
    <3>1. UNCHANGED <<pairingVars, hubVars, callVars, clients, ran>>
      BY <2>1 DEF UsbChanges
    <3>2. usb' \in [Devices -> BOOLEAN]
      BY <1>0, <2>1 DEF UsbChanges, RestOK
    <3> QED BY <1>0, <3>1, <3>2, PairedUnchanged, AsideTyped
  <2> QED BY <1>6, <2>1, StopTyped, PhasesTyped, SocketLostTyped DEF ClientFault
<1>7. ASSUME UNCHANGED vars PROVE Typed'
  BY <1>0, <1>7, PairedUnchanged, AsideTyped DEF vars, callVars, deviceVars, RestOK
<1> QED BY <1>1, <1>2, <1>3, <1>4, <1>5, <1>6, <1>7 DEF Next, Step, Event

LEMMA TypedInit ==
  ASSUME Init
  PROVE  Typed
<1>1. Paired
  <2>1. /\ offers = {} /\ redeeming = {} /\ tokens = <<>>
        /\ grants = [d \in Devices |-> [principal |-> Nobody, revoked |-> FALSE]]
    BY DEF Init, PairingInit
  <2>2. PairingTypeOK
    BY <2>1, EmptySeq DEF PairingTypeOK, Grant
  <2>3. IsFiniteSet({}) /\ Cardinality({}) = 0 /\ Len(<<>>) = 0 /\ MaxOffers \in Nat
    BY FS_EmptySet, RelayAssumption
  <2> QED BY <2>1, <2>2, <2>3 DEF Paired
<1>2. /\ sessions = <<>> /\ Len(sessions) = 0 /\ MaxSessions \in Nat
      /\ sessions \in Seq(Session) /\ Len(tokens) = 0
  BY EmptySeq, RelayAssumption DEF Init, PairingInit
<1>3. HubOK
  BY <1>2 DEF HubOK, Init
<1>4. CallsOK
  <2>1. Idle \in CallShape /\ Idle.at = "idle"
    BY <1>2, IdleFits, IdleIs DEF IdleShape
  <2> QED BY <2>1 DEF CallsOK, Init, Placed
<1>5. ClientsOK
  <2>1. Unpaired \in ClientShape
    BY <1>2 DEF Unpaired, ClientShape, Phases
  <2>2. ClientOK(Unpaired)
    BY DEF Unpaired, ClientOK
  <2> QED BY <2>1, <2>2 DEF ClientsOK, Init
<1>6. RestOK
  BY DEF RestOK, Init
<1> QED BY <1>1, <1>3, <1>4, <1>5, <1>6 DEF Typed

LEMMA TypedAlways ==
  Spec => []Typed
<1>1. Init => Typed
  BY TypedInit
<1>2. Typed /\ [Next]_vars => Typed'
  BY TypedStep
<1> QED BY <1>1, <1>2, PTL DEF Spec

-----------------------------------------------------------------------------
(***************************************************************************)
(* What an action does to the parts of the sessions                        *)
(***************************************************************************)
(* No session changes hands, and none is taken up again.                   *)
Kept ==
    /\ Len(sessions') = Len(sessions)
    /\ \A s \in 1 .. Len(sessions) :
         /\ sessions'[s].device = sessions[s].device
         /\ sessions'[s].principal = sessions[s].principal

SameTasks ==
    \A s \in 1 .. Len(sessions) :
        sessions'[s].task = "running" <=> sessions[s].task = "running"

(* Session s is the only one whose queues and pending map change.          *)
Fields(s, outbound, inbound, pending) ==
    /\ s \in 1 .. Len(sessions)
    /\ Kept
    /\ \A i \in 1 .. Len(sessions) :
         /\ sessions'[i].outbound = IF i = s THEN outbound ELSE sessions[i].outbound
         /\ sessions'[i].inbound = IF i = s THEN inbound ELSE sessions[i].inbound
         /\ sessions'[i].pending = IF i = s THEN pending ELSE sessions[i].pending

LEMMA BecomesFields ==
  ASSUME NEW s, NEW x, Becomes(s, x),
         x.device = sessions[s].device, x.principal = sessions[s].principal
  PROVE  /\ Fields(s, x.outbound, x.inbound, x.pending)
         /\ (x.task = "running" <=> sessions[s].task = "running") => SameTasks
<1>1. Kept
  BY DEF Becomes, Kept
<1>2. Fields(s, x.outbound, x.inbound, x.pending)
  BY <1>1 DEF Becomes, Fields
<1>3. ASSUME x.task = "running" <=> sessions[s].task = "running" PROVE SameTasks
  BY <1>3 DEF Becomes, SameTasks
<1> QED BY <1>2, <1>3

LEMMA InsertFields ==
  ASSUME HubOK, CallsOK, NEW c \in Callers, Insert(c)
  PROVE  /\ Fields(calls[c].session, sessions[calls[c].session].outbound,
                   sessions[calls[c].session].inbound,
                   sessions[calls[c].session].pending \cup {c})
         /\ SameTasks
<1> DEFINE s == calls[c].session
           x == [sessions[s] EXCEPT !.pending = sessions[s].pending \cup {c}]
<1>1. Becomes(s, x)
  BY InsertEffect
<1>2. sessions[s] \in Session
  BY <1>1, HubFacts DEF Becomes
<1>3. /\ x.device = sessions[s].device /\ x.principal = sessions[s].principal
      /\ x.outbound = sessions[s].outbound /\ x.inbound = sessions[s].inbound
      /\ x.pending = sessions[s].pending \cup {c}
      /\ x.task = sessions[s].task
  BY <1>2 DEF Session
<1> HIDE DEF x
<1> QED BY <1>1, <1>3, BecomesFields

LEMMA ForgetFields ==
  ASSUME HubOK, NEW c \in Callers, NEW s \in 1 .. Len(sessions), sessions' = Forgotten(c, s)
  PROVE  /\ Fields(s, sessions[s].outbound,
                   sessions[s].inbound,
                   sessions[s].pending \ {c})
         /\ SameTasks
<1> DEFINE x == [sessions[s] EXCEPT !.pending = sessions[s].pending \ {c}]
<1>1. Becomes(s, x)
  BY ForgetEffect
<1>2. sessions[s] \in Session
  BY <1>1, HubFacts DEF Becomes
<1>3. /\ x.device = sessions[s].device /\ x.principal = sessions[s].principal
      /\ x.outbound = sessions[s].outbound /\ x.inbound = sessions[s].inbound
      /\ x.pending = sessions[s].pending \ {c}
      /\ x.task = sessions[s].task
  BY <1>2 DEF Session
<1> HIDE DEF x
<1> QED BY <1>1, <1>3, BecomesFields

LEMMA QueueFields ==
  ASSUME HubOK, NEW c \in Callers, NEW s \in 1 .. Len(sessions),
         sessions' = [sessions EXCEPT ![s].outbound = Append(@, c)]
  PROVE  /\ Fields(s, Append(sessions[s].outbound, c),
                   sessions[s].inbound,
                   sessions[s].pending)
         /\ SameTasks
<1> DEFINE x == [sessions[s] EXCEPT !.outbound = Append(sessions[s].outbound, c)]
<1>1. Becomes(s, x)
  BY QueueEffect
<1>2. sessions[s] \in Session
  BY <1>1, HubFacts DEF Becomes
<1>3. /\ x.device = sessions[s].device /\ x.principal = sessions[s].principal
      /\ x.outbound = Append(sessions[s].outbound, c) /\ x.inbound = sessions[s].inbound
      /\ x.pending = sessions[s].pending
      /\ x.task = sessions[s].task
  BY <1>2 DEF Session
<1> HIDE DEF x
<1> QED BY <1>1, <1>3, BecomesFields

LEMMA AcceptReadyFields ==
  ASSUME HubOK, NEW s \in 1 .. Len(sessions), AcceptReady(s)
  PROVE  /\ Fields(s, sessions[s].outbound,
                   Tail(sessions[s].inbound),
                   sessions[s].pending)
         /\ SameTasks
<1> DEFINE x == [sessions[s] EXCEPT !.ready = Head(sessions[s].inbound).usb,
                                !.inbound = Tail(sessions[s].inbound)]
<1>1. Becomes(s, x)
  BY AcceptReadyEffect
<1>2. sessions[s] \in Session
  BY <1>1, HubFacts DEF Becomes
<1>3. /\ x.device = sessions[s].device /\ x.principal = sessions[s].principal
      /\ x.outbound = sessions[s].outbound /\ x.inbound = Tail(sessions[s].inbound)
      /\ x.pending = sessions[s].pending
      /\ x.task = sessions[s].task
  BY <1>2 DEF Session
<1> HIDE DEF x
<1> QED BY <1>1, <1>3, BecomesFields

LEMMA AcceptResultFields ==
  ASSUME HubOK, NEW s \in 1 .. Len(sessions), AcceptResult(s)
  PROVE  /\ Fields(s, sessions[s].outbound,
                   Tail(sessions[s].inbound),
                   sessions[s].pending \ {Head(sessions[s].inbound).caller})
         /\ SameTasks
<1> DEFINE x == [sessions[s] EXCEPT !.inbound = Tail(sessions[s].inbound),
                                !.pending = sessions[s].pending
                                              \ {Head(sessions[s].inbound).caller}]
<1>1. Becomes(s, x)
  BY AcceptResultEffect
<1>2. sessions[s] \in Session
  BY <1>1, HubFacts DEF Becomes
<1>3. /\ x.device = sessions[s].device /\ x.principal = sessions[s].principal
      /\ x.outbound = sessions[s].outbound /\ x.inbound = Tail(sessions[s].inbound)
      /\ x.pending = sessions[s].pending \ {Head(sessions[s].inbound).caller}
      /\ x.task = sessions[s].task
  BY <1>2 DEF Session
<1> HIDE DEF x
<1>4. Fields(s, x.outbound, x.inbound, x.pending) /\ SameTasks
  BY <1>1, <1>3, BecomesFields
<1> QED BY <1>3, <1>4, Zenon

LEMMA SocketEndsFields ==
  ASSUME HubOK, NEW s \in 1 .. Len(sessions), SocketEnds(s)
  PROVE  /\ Fields(s, sessions[s].outbound,
                   <<>>,
                   sessions[s].pending)
<1> DEFINE x == [sessions[s] EXCEPT !.task = "failing", !.inbound = <<>>, !.ready = FALSE]
<1>1. Becomes(s, x)
  BY SocketEndsEffect
<1>2. sessions[s] \in Session
  BY <1>1, HubFacts DEF Becomes
<1>3. /\ x.device = sessions[s].device /\ x.principal = sessions[s].principal
      /\ x.outbound = sessions[s].outbound /\ x.inbound = <<>>
      /\ x.pending = sessions[s].pending
      /\ x.task = "failing"
  BY <1>2 DEF Session
<1> HIDE DEF x
<1> QED BY <1>1, <1>3, BecomesFields

LEMMA FailAllFields ==
  ASSUME HubOK, NEW s \in 1 .. Len(sessions), FailAll(s)
  PROVE  /\ Fields(s, sessions[s].outbound,
                   sessions[s].inbound,
                   {})
         /\ SameTasks
<1> DEFINE x == [sessions[s] EXCEPT !.pending = {}, !.task = "dropping"]
<1>1. Becomes(s, x)
  BY FailAllEffect
<1>2. sessions[s] \in Session
  BY <1>1, HubFacts DEF Becomes
<1>3. /\ x.device = sessions[s].device /\ x.principal = sessions[s].principal
      /\ x.outbound = sessions[s].outbound /\ x.inbound = sessions[s].inbound
      /\ x.pending = {}
      /\ x.task = "dropping"
  BY <1>2 DEF Session
<1> HIDE DEF x
<1>4. x.task = "running" <=> sessions[s].task = "running"
  BY <1>3 DEF FailAll
<1> QED BY <1>1, <1>3, <1>4, BecomesFields

LEMMA DropReceiverFields ==
  ASSUME HubOK, NEW s \in 1 .. Len(sessions), DropReceiver(s)
  PROVE  /\ Fields(s, <<>>,
                   sessions[s].inbound,
                   sessions[s].pending)
         /\ SameTasks
<1> DEFINE x == [sessions[s] EXCEPT !.task = "ended", !.outbound = <<>>]
<1>1. Becomes(s, x)
  BY DropReceiverEffect
<1>2. sessions[s] \in Session
  BY <1>1, HubFacts DEF Becomes
<1>3. /\ x.device = sessions[s].device /\ x.principal = sessions[s].principal
      /\ x.outbound = <<>> /\ x.inbound = sessions[s].inbound
      /\ x.pending = sessions[s].pending
      /\ x.task = "ended"
  BY <1>2 DEF Session
<1> HIDE DEF x
<1>4. x.task = "running" <=> sessions[s].task = "running"
  BY <1>3 DEF DropReceiver
<1> QED BY <1>1, <1>3, <1>4, BecomesFields

LEMMA LeaveFields ==
  ASSUME HubOK, NEW d \in Devices, clients[d].session \in 1 .. Len(sessions), Leave(d)
  PROVE  /\ Fields(clients[d].session, <<>>,
                   sessions[clients[d].session].inbound,
                   sessions[clients[d].session].pending)
         /\ SameTasks
<1> DEFINE s == clients[d].session
           x == [sessions[s] EXCEPT !.outbound = <<>>]
<1>1. Becomes(s, x)
  BY LeaveEffect
<1>2. sessions[s] \in Session
  BY <1>1, HubFacts DEF Becomes
<1>3. /\ x.device = sessions[s].device /\ x.principal = sessions[s].principal
      /\ x.outbound = <<>> /\ x.inbound = sessions[s].inbound
      /\ x.pending = sessions[s].pending
      /\ x.task = sessions[s].task
  BY <1>2 DEF Session
<1> HIDE DEF x
<1> QED BY <1>1, <1>3, BecomesFields

LEMMA SendsFields ==
  ASSUME HubOK, NEW d \in Devices, clients[d].session \in 1 .. Len(sessions),
         NEW frame \in Frame, sessions' = Sends(d, frame)
  PROVE  /\ Fields(clients[d].session, sessions[clients[d].session].outbound,
                   Append(sessions[clients[d].session].inbound, frame),
                   sessions[clients[d].session].pending)
         /\ SameTasks
<1> DEFINE s == clients[d].session
           x == [sessions[s] EXCEPT !.inbound = Append(sessions[s].inbound, frame)]
<1>1. Becomes(s, x)
  BY SendsEffect
<1>2. sessions[s] \in Session
  BY <1>1, HubFacts DEF Becomes
<1>3. /\ x.device = sessions[s].device /\ x.principal = sessions[s].principal
      /\ x.outbound = sessions[s].outbound /\ x.inbound = Append(sessions[s].inbound, frame)
      /\ x.pending = sessions[s].pending
      /\ x.task = sessions[s].task
  BY <1>2 DEF Session
<1> HIDE DEF x
<1> QED BY <1>1, <1>3, BecomesFields

LEMMA ConsumeFields ==
  ASSUME HubOK, NEW s \in 1 .. Len(sessions), sessions[s].outbound # <<>>,
         sessions' = Consumed(s)
  PROVE  /\ Fields(s, Tail(sessions[s].outbound),
                   sessions[s].inbound,
                   sessions[s].pending)
         /\ SameTasks
<1> DEFINE x == [sessions[s] EXCEPT !.outbound = Tail(sessions[s].outbound)]
<1>1. Becomes(s, x)
  BY ConsumeEffect
<1>2. sessions[s] \in Session
  BY <1>1, HubFacts DEF Becomes
<1>3. /\ x.device = sessions[s].device /\ x.principal = sessions[s].principal
      /\ x.outbound = Tail(sessions[s].outbound) /\ x.inbound = sessions[s].inbound
      /\ x.pending = sessions[s].pending
      /\ x.task = sessions[s].task
  BY <1>2 DEF Session
<1> HIDE DEF x
<1> QED BY <1>1, <1>3, BecomesFields

-----------------------------------------------------------------------------
(***************************************************************************)
(* The map of the sessions                                                 *)
(***************************************************************************)
Last(ss, s) ==
    \A other \in 1 .. Len(ss) : ss[other].device = ss[s].device => other <= s

Listed ==
    /\ \A s \in 1 .. Len(sessions) :
         sessions[s].task = "running" /\ Last(sessions, s) => connections[sessions[s].device] = s
    /\ \A d \in Devices :
         connections[d] # 0 => /\ sessions[connections[d]].device = d
                               /\ sessions[connections[d]].task = "running"
                               /\ Last(sessions, connections[d])
    /\ \A d \in Devices :
         (\E s \in 1 .. Len(sessions) : sessions[s].device = d)
           => \E s \in 1 .. Len(sessions) : sessions[s].device = d /\ Last(sessions, s)

LEMMA LastKept ==
  ASSUME Kept
  PROVE  \A s \in 1 .. Len(sessions) : Last(sessions', s) <=> Last(sessions, s)
BY DEF Kept, Last

LEMMA ListedKept ==
  ASSUME HubOK, Listed, Kept, UNCHANGED connections,
         \A s \in 1 .. Len(sessions) : (sessions'[s].task = "running") <=> (sessions[s].task = "running")
  PROVE  Listed'
<1>1. Len(sessions') = Len(sessions) /\ connections' = connections
  BY DEF Kept
<1>2. \A s \in 1 .. Len(sessions) : Last(sessions', s) <=> Last(sessions, s)
  BY LastKept
<1>3. \A d \in Devices : connections[d] # 0 => connections[d] \in 1 .. Len(sessions)
  BY HubFacts DEF HubOK
<1> QED BY <1>1, <1>2, <1>3 DEF Listed, Kept

LEMMA ListedEnd ==
  ASSUME HubOK, Listed, NEW s \in 1 .. Len(sessions), SocketEnds(s)
  PROVE  Listed'
<1> DEFINE x == [sessions[s] EXCEPT !.task = "failing", !.inbound = <<>>, !.ready = FALSE]
           d == sessions[s].device
<1>0. sessions[s] \in Session /\ Len(sessions) \in Nat /\ connections \in [Devices -> 0 .. Len(sessions)]
  BY HubFacts DEF HubOK
<1>1. Becomes(s, x)
  BY SocketEndsEffect
<1>2. x.device = sessions[s].device /\ x.principal = sessions[s].principal /\ x.task = "failing"
  BY <1>0 DEF Session
<1> HIDE DEF x
<1>3. Kept
  BY <1>1, <1>2 DEF Becomes, Kept
<1>4. \A i \in 1 .. Len(sessions) : Last(sessions', i) <=> Last(sessions, i)
  BY <1>3, LastKept
<1>5. d \in Devices
  BY <1>0 DEF Session
<1>6. connections' = [connections EXCEPT ![d] = IF @ = s THEN 0 ELSE @]
  BY DEF SocketEnds, Unlisted
<1>7. \A k \in Devices : connections'[k] = IF k = d /\ connections[k] = s THEN 0 ELSE connections[k]
  BY <1>0, <1>5, <1>6
<1>8. \A i \in 1 .. Len(sessions) : sessions'[i].task = IF i = s THEN "failing" ELSE sessions[i].task
  BY <1>1, <1>2 DEF Becomes
<1>9. \A k \in Devices : connections[k] # 0 => connections[k] \in 1 .. Len(sessions)
  BY <1>0
<1>10. \A i \in 1 .. Len(sessions) : sessions[i].device \in Devices
  BY HubFacts DEF Session
<1>11. \A i \in 1 .. Len(sessions) :
         sessions'[i].task = "running" /\ Last(sessions', i) => connections'[sessions'[i].device] = i
  <2> TAKE i \in 1 .. Len(sessions)
  <2> HAVE sessions'[i].task = "running" /\ Last(sessions', i)
  <2>1. i # s /\ sessions[i].task = "running" /\ Last(sessions, i)
    BY <1>4, <1>8
  <2>2. connections[sessions[i].device] = i
    BY <2>1 DEF Listed
  <2> QED BY <1>3, <1>7, <1>10, <2>1, <2>2 DEF Kept
<1>12. \A k \in Devices :
         connections'[k] # 0 => /\ sessions'[connections'[k]].device = k
                                /\ sessions'[connections'[k]].task = "running"
                                /\ Last(sessions', connections'[k])
  <2> TAKE k \in Devices
  <2> HAVE connections'[k] # 0
  <2>1. connections'[k] = connections[k] /\ connections[k] # 0 /\ ~(k = d /\ connections[k] = s)
    BY <1>7
  <2>2. /\ sessions[connections[k]].device = k /\ sessions[connections[k]].task = "running"
        /\ Last(sessions, connections[k]) /\ connections[k] \in 1 .. Len(sessions)
    BY <1>9, <2>1 DEF Listed
  <2>3. connections[k] # s
    BY <2>1, <2>2
  <2>4. Last(sessions', connections[k])
    BY <1>4, <2>2
  <2> QED BY <1>3, <1>8, <2>1, <2>2, <2>3, <2>4 DEF Kept
<1>13. \A k \in Devices :
         (\E i \in 1 .. Len(sessions) : sessions'[i].device = k)
           => \E i \in 1 .. Len(sessions) : sessions'[i].device = k /\ Last(sessions', i)
  BY <1>3, <1>4 DEF Listed, Kept
<1>14. Len(sessions') = Len(sessions)
  BY <1>3 DEF Kept
<1> QED BY <1>11, <1>12, <1>13, <1>14 DEF Listed

LEMMA ListedConnect ==
  ASSUME Typed, Listed, NEW d \in Devices, Connect(d)
  PROVE  Listed'
<1> DEFINE old == connections[d]
           n == Len(sessions) + 1
           new == NewSession(d)
<1>0. /\ Len(sessions) \in Nat /\ connections \in [Devices -> 0 .. Len(sessions)]
      /\ \A i \in 1 .. Len(sessions) : sessions[i] \in Session
  BY Lengths, HubFacts DEF HubOK
<1>1. Appended(old, new)
  BY ConnectEffect
<1>2. new.device = d /\ new.task = "running"
  BY DEF NewSession
<1>3. Len(sessions') = n /\ n \in Nat /\ n # 0
  BY <1>0, <1>1 DEF Appended
<1>4. \A i \in 1 .. Len(sessions) :
        /\ sessions'[i].device = sessions[i].device
        /\ sessions'[i].task = sessions[i].task
        /\ i < n /\ i \in 1 .. n
  <2> TAKE i \in 1 .. Len(sessions)
  <2>1. sessions[i] \in Session
    BY <1>0
  <2>2. i < n /\ i \in 1 .. n
    BY <1>0
  <2> QED BY <1>1, <2>1, <2>2 DEF Appended, Session
<1>5. sessions'[n].device = d /\ sessions'[n].task = "running"
  BY <1>1, <1>2 DEF Appended
<1>6. \A i \in 1 .. n : i = n \/ i \in 1 .. Len(sessions)
  BY <1>0
<1> HIDE DEF n, new
<1>7. \A k \in Devices : connections'[k] = IF k = d THEN n ELSE connections[k]
  BY <1>0 DEF Connect, n
<1>8. Last(sessions', n)
  BY <1>0, <1>3, <1>4, <1>6 DEF Last
<1>9. \A i \in 1 .. Len(sessions) :
        Last(sessions', i) <=> (Last(sessions, i) /\ sessions[i].device # d)
  <2> TAKE i \in 1 .. Len(sessions)
  <2>1. ASSUME Last(sessions', i) PROVE Last(sessions, i) /\ sessions[i].device # d
    <3>1. sessions[i].device # d
      <4>1. SUFFICES ASSUME sessions[i].device = d PROVE FALSE
        OBVIOUS
      <4>2. n <= i
        BY <1>3, <1>4, <1>5, <2>1, <4>1 DEF Last
      <4> QED BY <1>0, <1>3, <1>4, <4>2
    <3>2. Last(sessions, i)
      BY <1>3, <1>4, <2>1 DEF Last
    <3> QED BY <3>1, <3>2
  <2>2. ASSUME Last(sessions, i), sessions[i].device # d PROVE Last(sessions', i)
    BY <1>3, <1>4, <1>5, <1>6, <2>2 DEF Last
  <2> QED BY <2>1, <2>2
<1>10. \A i \in 1 .. n : sessions'[i].task = "running" /\ Last(sessions', i)
                          => connections'[sessions'[i].device] = i
  <2> TAKE i \in 1 .. n
  <2> HAVE sessions'[i].task = "running" /\ Last(sessions', i)
  <2>1. CASE i = n
    BY <1>5, <1>7, <2>1
  <2>2. CASE i \in 1 .. Len(sessions)
    <3>1. Last(sessions, i) /\ sessions[i].device # d /\ sessions[i].task = "running"
      BY <1>4, <1>9, <2>2
    <3>2. connections[sessions[i].device] = i /\ sessions[i].device \in Devices
      BY <1>0, <2>2, <3>1 DEF Listed, Session
    <3> QED BY <1>4, <1>7, <2>2, <3>1, <3>2
  <2> QED BY <1>6, <2>1, <2>2
<1>11. \A k \in Devices :
         connections'[k] # 0 => /\ sessions'[connections'[k]].device = k
                                /\ sessions'[connections'[k]].task = "running"
                                /\ Last(sessions', connections'[k])
  <2> TAKE k \in Devices
  <2> HAVE connections'[k] # 0
  <2>1. CASE k = d
    BY <1>5, <1>7, <1>8, <2>1
  <2>2. CASE k # d
    <3>1. /\ connections'[k] = connections[k] /\ connections[k] # 0
          /\ connections[k] \in 1 .. Len(sessions)
      BY <1>0, <1>7, <2>2
    <3>2. /\ sessions[connections[k]].device = k /\ sessions[connections[k]].task = "running"
          /\ Last(sessions, connections[k])
      BY <3>1 DEF Listed
    <3>3. Last(sessions', connections[k])
      BY <1>9, <2>2, <3>1, <3>2
    <3> QED BY <1>4, <3>1, <3>2, <3>3
  <2> QED BY <2>1, <2>2
<1>12. \A k \in Devices :
         (\E i \in 1 .. n : sessions'[i].device = k)
           => \E i \in 1 .. n : sessions'[i].device = k /\ Last(sessions', i)
  <2> TAKE k \in Devices
  <2> HAVE \E i \in 1 .. n : sessions'[i].device = k
  <2>1. CASE k = d
    <3>1. n \in 1 .. n
      BY <1>3
    <3> QED BY <1>5, <1>8, <2>1, <3>1
  <2>2. CASE k # d
    <3>1. PICK i \in 1 .. Len(sessions) : sessions[i].device = k
      BY <1>4, <1>5, <1>6, <2>2
    <3>2. PICK j \in 1 .. Len(sessions) : sessions[j].device = k /\ Last(sessions, j)
      BY <3>1 DEF Listed
    <3> QED BY <1>4, <1>9, <2>2, <3>2
  <2> QED BY <2>1, <2>2
<1> QED BY <1>3, <1>10, <1>11, <1>12 DEF Listed

LEMMA ListedMoved ==
  ASSUME HubOK, Listed, UNCHANGED connections, Kept, SameTasks
  PROVE  Listed'
BY ListedKept DEF SameTasks

LEMMA ListedUnchanged ==
  ASSUME Listed, UNCHANGED hubVars
  PROVE  Listed'
BY DEF Listed, hubVars

Steady == UNCHANGED connections /\ Kept /\ SameTasks

LEMMA SteadyUnchanged ==
  ASSUME UNCHANGED hubVars
  PROVE  Steady
BY DEF Steady, Kept, SameTasks, hubVars

LEMMA LeaveSteady ==
  ASSUME Typed, NEW d \in Devices, Leave(d), UNCHANGED connections
  PROVE  Steady
<1>0. clients[d].session \in 0 .. Len(sessions) /\ Len(sessions) \in Nat /\ HubOK
  BY ClientFacts
<1>1. CASE clients[d].session = 0
  BY <1>1, SteadyUnchanged DEF Leave, hubVars
<1>2. CASE clients[d].session # 0
  <2>1. clients[d].session \in 1 .. Len(sessions)
    BY <1>0, <1>2
  <2> QED BY <1>0, <2>1, LeaveFields DEF Fields, Steady
<1> QED BY <1>1, <1>2

LEMMA CallSteady ==
  ASSUME Typed, NEW c \in Callers, CallStep(c) \/ Abandon(c)
  PROVE  Steady
<1>0. HubOK /\ CallsOK /\ Len(sessions) \in Nat
  BY Lengths
<1>1. calls[c].at \in Placed => calls[c].session \in 1 .. Len(sessions)
  BY <1>0 DEF CallsOK, CallShape
<1>2. CASE \E p \in Principals, reset \in BOOLEAN : Choose(c, p, reset)
  BY <1>2, SteadyUnchanged DEF Choose
<1>3. CASE Lookup(c)
  BY <1>3, SteadyUnchanged DEF Lookup
<1>4. CASE Insert(c)
  <2>1. UNCHANGED connections
    BY <1>4 DEF Insert
  <2> QED BY <1>0, <1>4, <2>1, InsertFields DEF Fields, Steady
<1>5. CASE Send(c)
  <2>1. UNCHANGED connections /\ calls[c].session \in 1 .. Len(sessions)
    BY <1>1, <1>5 DEF Send, Placed
  <2>2. CASE sessions' = sessions
    BY <2>1, <2>2, SteadyUnchanged DEF hubVars
  <2>3. CASE sessions' = Forgotten(c, calls[c].session)
    BY <1>0, <2>1, <2>3, ForgetFields DEF Fields, Steady
  <2>4. CASE sessions' = [sessions EXCEPT ![calls[c].session].outbound = Append(@, c)]
    BY <1>0, <2>1, <2>4, QueueFields DEF Fields, Steady
  <2>5. \/ sessions' = sessions \/ sessions' = Forgotten(c, calls[c].session)
        \/ sessions' = [sessions EXCEPT ![calls[c].session].outbound = Append(@, c)]
    BY <1>5, Zenon DEF Send
  <2> QED BY <2>2, <2>3, <2>4, <2>5
<1>6. CASE Returns(c)
  BY <1>6, SteadyUnchanged DEF Returns
<1>7. CASE TimesOut(c)
  <2>1. /\ UNCHANGED connections /\ calls[c].session \in 1 .. Len(sessions)
        /\ sessions' = Forgotten(c, calls[c].session)
    BY <1>1, <1>7 DEF TimesOut, Placed
  <2> QED BY <1>0, <2>1, ForgetFields DEF Fields, Steady
<1>8. CASE Abandon(c)
  BY <1>8, SteadyUnchanged DEF Abandon
<1> QED BY <1>2, <1>3, <1>4, <1>5, <1>6, <1>7, <1>8 DEF CallStep

LEMMA SessionSteady ==
  ASSUME Typed, NEW s \in DOMAIN sessions, SessionStep(s)
  PROVE  Steady
<1>0. HubOK /\ s \in 1 .. Len(sessions)
  BY Lengths, HubFacts
<1>1. CASE AcceptReady(s)
  BY <1>0, <1>1, AcceptReadyFields DEF Fields, Steady, AcceptReady
<1>2. CASE AcceptResult(s)
  BY <1>0, <1>2, AcceptResultFields DEF Fields, Steady, AcceptResult
<1>3. CASE FailAll(s)
  BY <1>0, <1>3, FailAllFields DEF Fields, Steady, FailAll
<1>4. CASE DropReceiver(s)
  BY <1>0, <1>4, DropReceiverFields DEF Fields, Steady, DropReceiver
<1> QED BY <1>1, <1>2, <1>3, <1>4 DEF SessionStep

LEMMA SendReadySends ==
  ASSUME Typed, NEW d \in Devices, SendReady(d)
  PROVE  /\ clients[d].session \in 1 .. Len(sessions)
         /\ [kind |-> "ready", usb |-> usb[d]] \in Frame
         /\ sessions' = Sends(d, [kind |-> "ready", usb |-> usb[d]])
         /\ UNCHANGED <<pairingVars, connections, callVars, deviceVars>>
<1>1. usb[d] \in BOOLEAN
  BY Lengths DEF RestOK
<1>2. [kind |-> "ready", usb |-> usb[d]] \in Frame
  BY <1>1 DEF Frame
<1>3. clients[d].session \in 1 .. Len(sessions)
  BY ClientFacts DEF SendReady, Reading
<1> QED BY <1>2, <1>3 DEF SendReady

LEMMA ExecutedSends ==
  ASSUME Typed, NEW d \in Devices, Executed(d)
  PROVE  /\ clients[d].session \in 1 .. Len(sessions)
         /\ clients[d].executing \in Callers
         /\ [kind |-> "result", caller |-> clients[d].executing] \in Frame
         /\ sessions' = Sends(d, [kind |-> "result", caller |-> clients[d].executing])
         /\ UNCHANGED <<pairingVars, connections, callVars, usb, ran>>
<1>1. clients[d].executing \in Callers
  BY ClientFacts DEF Executed, ClientShape
<1>2. [kind |-> "result", caller |-> clients[d].executing] \in Frame
  BY <1>1 DEF Frame
<1>3. clients[d].session \in 1 .. Len(sessions)
  BY ClientFacts DEF Executed
<1> QED BY <1>1, <1>2, <1>3 DEF Executed

LEMMA ReadInvokeConsumes ==
  ASSUME Typed, NEW d \in Devices, ReadInvoke(d)
  PROVE  /\ clients[d].session \in 1 .. Len(sessions)
         /\ sessions[clients[d].session].outbound # <<>>
         /\ Head(sessions[clients[d].session].outbound) \in Callers
         /\ sessions[clients[d].session].outbound \in Seq(Callers)
         /\ sessions' = Consumed(clients[d].session)
         /\ UNCHANGED <<pairingVars, connections, callVars, usb>>
<1>1. clients[d].session \in 1 .. Len(sessions) /\ HubOK
  BY ClientFacts DEF ReadInvoke, Reading
<1>2. sessions[clients[d].session] \in Session
  BY <1>1, HubFacts
<1>3. sessions[clients[d].session].outbound \in Seq(Callers)
  BY <1>2 DEF Session
<1>4. sessions[clients[d].session].outbound # <<>>
  BY DEF ReadInvoke
<1>5. Head(sessions[clients[d].session].outbound) \in Callers
  BY <1>3, <1>4, HeadTailProperties
<1> QED BY <1>1, <1>3, <1>4, <1>5 DEF ReadInvoke

LEMMA ClientSteady ==
  ASSUME Typed, NEW d \in Devices, ClientStep(d) \/ ClientFault(d), ~Connect(d)
  PROVE  Steady
<1>0. HubOK
  BY Lengths
<1>1. CASE Start(d) \/ Upgrade(d) \/ ConnectFails(d) \/ UsbChanges(d)
  BY <1>1, SteadyUnchanged DEF Start, Upgrade, ConnectFails, UsbChanges
<1>2. CASE Pair(d) \/ Stop(d) \/ SocketLost(d) \/ SendFails(d)
  BY <1>2, LeaveSteady DEF Pair, Stop, SocketLost, SendFails
<1>3. CASE SendReady(d)
  BY <1>0, <1>3, SendReadySends, SendsFields DEF Fields, Steady
<1>4. CASE Executed(d)
  BY <1>0, <1>4, ExecutedSends, SendsFields DEF Fields, Steady
<1>5. CASE ReadInvoke(d)
  BY <1>0, <1>5, ReadInvokeConsumes, ConsumeFields DEF Fields, Steady
<1> QED BY <1>1, <1>2, <1>3, <1>4, <1>5 DEF ClientStep, ClientFault

(* Only a device that connects, or a socket that ends, disturbs the map.   *)
LEMMA StepsOf ==
  ASSUME Typed, [Next]_vars
  PROVE  \/ Steady
         \/ \E d \in Devices : Connect(d)
         \/ \E s \in 1 .. Len(sessions) : SocketEnds(s)
<1>0. DOMAIN sessions = 1 .. Len(sessions)
  BY Lengths, HubFacts
<1>1. CASE PairingStep \/ Revocation \/ UNCHANGED vars
  BY <1>1, SteadyUnchanged DEF PairingStep, Revocation, vars
<1>2. CASE \E c \in Callers : CallStep(c) \/ Abandon(c)
  BY <1>2, CallSteady
<1>3. CASE \E s \in DOMAIN sessions : SessionStep(s)
  BY <1>3, SessionSteady
<1>4. CASE \E d \in Devices : ClientStep(d) \/ ClientFault(d)
  BY <1>4, ClientSteady
<1> QED BY <1>0, <1>1, <1>2, <1>3, <1>4 DEF Next, Step, Event

LEMMA ListedStep ==
  ASSUME Typed, Listed, [Next]_vars
  PROVE  Listed'
<1>0. HubOK
  BY Lengths
<1>1. CASE Steady
  BY <1>0, <1>1, ListedMoved DEF Steady
<1>2. CASE \E d \in Devices : Connect(d)
  BY <1>2, ListedConnect
<1>3. CASE \E s \in 1 .. Len(sessions) : SocketEnds(s)
  BY <1>0, <1>3, ListedEnd
<1> QED BY <1>1, <1>2, <1>3, StepsOf

LEMMA ListedInit ==
  ASSUME Init
  PROVE  Listed
<1>1. Len(sessions) = 0 /\ \A d \in Devices : connections[d] = 0
  BY EmptySeq DEF Init
<1> QED BY <1>1 DEF Listed

LEMMA ListedAlways ==
  Spec => []Listed
<1>1. Init => Listed
  BY ListedInit
<1>2. Typed /\ Listed /\ [Next]_vars => Listed'
  BY ListedStep
<1>3. Spec => []Typed
  BY TypedAlways
<1> QED BY <1>1, <1>2, <1>3, PTL DEF Spec

LEMMA ListedIsLast ==
  ASSUME HubOK, Listed
  PROVE  LastSessionIsListed
<1>0. Len(sessions) \in Nat /\ DOMAIN sessions = 1 .. Len(sessions)
  BY HubFacts
<1>1. SUFFICES ASSUME NEW d \in Devices
               PROVE  LET mine == {s \in DOMAIN sessions : sessions[s].device = d}
                          last == CHOOSE s \in mine : \A other \in mine : other <= s IN
                      connections[d] = IF mine # {} /\ sessions[last].task = "running"
                                       THEN last ELSE 0
  BY DEF LastSessionIsListed
<1> DEFINE mine == {s \in DOMAIN sessions : sessions[s].device = d}
           last == CHOOSE s \in mine : \A other \in mine : other <= s
<1>2. connections[d] \in 0 .. Len(sessions)
  BY DEF HubOK
<1>3. ASSUME NEW s \in 1 .. Len(sessions), sessions[s].device = d, Last(sessions, s)
      PROVE  last = s /\ mine # {}
  <2>1. s \in mine /\ \A other \in mine : other <= s
    BY <1>0, <1>3 DEF Last
  <2>2. \A k \in mine : (\A other \in mine : other <= k) => k = s
    BY <1>0, <2>1
  <2>3. last \in mine /\ \A other \in mine : other <= last
    BY <2>1
  <2> QED BY <2>1, <2>2, <2>3
<1>4. CASE connections[d] = 0
  <2>1. ASSUME mine # {} PROVE sessions[last].task # "running"
    <3>1. PICK s \in 1 .. Len(sessions) : sessions[s].device = d /\ Last(sessions, s)
      BY <1>0, <2>1 DEF Listed
    <3>2. last = s
      BY <1>3, <3>1
    <3>3. s # 0
      BY <1>0
    <3> QED BY <1>4, <3>1, <3>2, <3>3 DEF Listed
  <2> QED BY <1>4, <2>1
<1>5. CASE connections[d] # 0
  <2>1. connections[d] \in 1 .. Len(sessions)
    BY <1>0, <1>2, <1>5
  <2>2. /\ sessions[connections[d]].device = d /\ Last(sessions, connections[d])
        /\ sessions[connections[d]].task = "running"
    BY <1>5 DEF Listed
  <2>3. last = connections[d] /\ mine # {}
    BY <1>3, <2>1, <2>2
  <2> QED BY <2>2, <2>3
<1> QED BY <1>4, <1>5

(* The hub knows each device by the session it connected last, through any *)
(* number of reconnections, while the tasks of the older sockets end in    *)
(* any order (RelayHub::connect, DeviceConnection::disconnect).            *)
THEOREM LastSessionTheorem ==
  Spec => []LastSessionIsListed
<1>1. Typed /\ Listed => LastSessionIsListed
  BY ListedIsLast DEF Typed
<1> QED BY <1>1, TypedAlways, ListedAlways, PTL

-----------------------------------------------------------------------------
(***************************************************************************)
(* Who waits                                                               *)
(***************************************************************************)
WaitsFor(c, call, told, ss) ==
    /\ call.at \in {"idle", "chosen", "looked"} => told = "none"
    /\ call.at \in {"inserted", "waiting"}
         => (told = "none" <=> c \in ss[call.session].pending)
    /\ \A s \in 1 .. Len(ss) :
         c \in ss[s].pending => /\ s = call.session
                                /\ call.at \in {"inserted", "waiting", "gone"}

Waits == \A c \in Callers : WaitsFor(c, calls[c], answer[c], sessions)

(* The call's own entry is what it was.                                    *)
SamePending(c) ==
    /\ Len(sessions') = Len(sessions)
    /\ \A s \in 1 .. Len(sessions) : c \in sessions'[s].pending <=> c \in sessions[s].pending

LEMMA WaitsKept ==
  ASSUME HubOK, CallsOK, NEW c \in Callers, WaitsFor(c, calls[c], answer[c], sessions),
         SamePending(c)
  PROVE  WaitsFor(c, calls[c], answer[c], sessions')
<1>1. calls[c].at \in {"inserted", "waiting"} => calls[c].session \in 1 .. Len(sessions)
  <2>1. calls[c].session \in 0 .. Len(sessions) /\ Len(sessions) \in Nat
    BY HubFacts DEF CallsOK, CallShape
  <2>2. calls[c].at \in {"inserted", "waiting"} => calls[c].session # 0
    BY DEF CallsOK, Placed
  <2> QED BY <2>1, <2>2
<1> QED BY <1>1 DEF WaitsFor, SamePending

LEMMA WaitsUnchanged ==
  ASSUME HubOK, CallsOK, Waits, UNCHANGED callVars, \A c \in Callers : SamePending(c)
  PROVE  Waits'
<1>1. calls' = calls /\ answer' = answer
  BY DEF callVars
<1> QED BY <1>1, WaitsKept DEF Waits

LEMMA SamePendingUnchanged ==
  ASSUME UNCHANGED sessions
  PROVE  \A c \in Callers : SamePending(c)
BY DEF SamePending

LEMMA SamePendingFields ==
  ASSUME NEW s, NEW out, NEW inn, Fields(s, out, inn, sessions[s].pending)
  PROVE  \A c \in Callers : SamePending(c)
BY DEF SamePending, Fields, Kept

(* One call moves, and nobody else's entry or answer changes.              *)
LEMMA WaitsMoved ==
  ASSUME HubOK, CallsOK, Waits, NEW c \in Callers,
         \A k \in Callers \ {c} : /\ calls'[k] = calls[k] /\ answer'[k] = answer[k]
                                  /\ SamePending(k),
         WaitsFor(c, calls'[c], answer'[c], sessions')
  PROVE  Waits'
<1>1. ASSUME NEW k \in Callers \ {c} PROVE WaitsFor(k, calls'[k], answer'[k], sessions')
  BY <1>1, WaitsKept DEF Waits
<1> QED BY <1>1 DEF Waits

(* A pending map is emptied, and who was in it is told.                    *)
LEMMA WaitsDrained ==
  ASSUME HubOK, CallsOK, RestOK, Waits, NEW old \in 0 .. Len(sessions), UNCHANGED calls,
         Len(sessions') \in Nat, Len(sessions) <= Len(sessions'),
         \A i \in 1 .. Len(sessions') :
            \/ i \in 1 .. Len(sessions) /\ i # old /\ sessions'[i].pending = sessions[i].pending
            \/ (i = old \/ i \notin 1 .. Len(sessions)) /\ sessions'[i].pending = {},
         answer' = IF old = 0 THEN answer ELSE Lost(sessions[old].pending)
  PROVE  Waits'
<1>0. Len(sessions) \in Nat /\ 1 .. Len(sessions) \subseteq 1 .. Len(sessions')
  BY HubFacts
<1>1. ASSUME NEW c \in Callers PROVE WaitsFor(c, calls[c], answer'[c], sessions')
  <2>1. WaitsFor(c, calls[c], answer[c], sessions)
    BY DEF Waits
  <2>2. calls[c].at \in {"inserted", "waiting"} => calls[c].session \in 1 .. Len(sessions)
    <3>1. calls[c].session \in 0 .. Len(sessions)
      BY DEF CallsOK, CallShape
    <3>2. calls[c].at \in {"inserted", "waiting"} => calls[c].session # 0
      BY DEF CallsOK, Placed
    <3> QED BY <1>0, <3>1, <3>2
  <2>3. CASE old # 0 /\ c \in sessions[old].pending
    <3>1. old \in 1 .. Len(sessions)
      BY <1>0, <2>3
    <3>2. old = calls[c].session /\ calls[c].at \in {"inserted", "waiting", "gone"}
      BY <2>1, <2>3, <3>1 DEF WaitsFor
    <3>3. answer'[c] # "none"
      BY <2>3 DEF Lost
    <3>4. \A s \in 1 .. Len(sessions') : c \notin sessions'[s].pending
      BY <1>0, <2>1, <3>2 DEF WaitsFor
    <3> QED BY <1>0, <2>2, <3>2, <3>3, <3>4 DEF WaitsFor
  <2>4. CASE ~(old # 0 /\ c \in sessions[old].pending)
    <3>1. answer'[c] = answer[c]
      BY <2>4 DEF Lost
    <3>2. \A s \in 1 .. Len(sessions) : c \in sessions'[s].pending <=> c \in sessions[s].pending
      BY <1>0, <2>4
    <3>3. \A s \in 1 .. Len(sessions') : c \in sessions'[s].pending => s \in 1 .. Len(sessions)
      BY <1>0
    <3> QED BY <1>0, <2>1, <2>2, <3>1, <3>2, <3>3 DEF WaitsFor
  <2> QED BY <2>3, <2>4
<1>2. calls' = calls
  OBVIOUS
<1> QED BY <1>1, <1>2 DEF Waits

(* A call that moves to a place, or is over.                               *)
LEMMA MovedTo ==
  ASSUME CallsOK, NEW c \in Callers, NEW to \in Places, Move(c, to)
  PROVE  /\ \A k \in Callers \ {c} : calls'[k] = calls[k]
         /\ calls'[c].at = to /\ calls'[c].session = calls[c].session
         /\ calls'[c].principal = calls[c].principal
<1>1. calls[c] \in CallShape /\ calls \in [Callers -> CallShape]
  BY DEF CallsOK
<1>2. calls' = [calls EXCEPT ![c] = [calls[c] EXCEPT !.at = to]]
  BY <1>1 DEF Move
<1>3. calls'[c] = [calls[c] EXCEPT !.at = to]
  BY <1>1, <1>2
<1>4. \A k \in Callers \ {c} : calls'[k] = calls[k]
  BY <1>1, <1>2
<1> QED BY <1>1, <1>3, <1>4 DEF CallShape

LEMMA OverIs ==
  ASSUME CallsOK, NEW c \in Callers, Over(c)
  PROVE  /\ \A k \in Callers \ {c} : calls'[k] = calls[k]
         /\ calls'[c].at = "over" /\ calls'[c].session = 0
         /\ calls'[c].principal = calls[c].principal
<1> DEFINE x == [Idle EXCEPT !.at = "over", !.principal = calls[c].principal]
<1>1. calls \in [Callers -> CallShape]
  BY DEF CallsOK
<1>2. calls' = [calls EXCEPT ![c] = x]
  BY DEF Over
<1>3. x.at = "over" /\ x.session = 0 /\ x.principal = calls[c].principal
  BY IdleIs DEF IdleShape
<1> HIDE DEF x
<1>4. calls'[c] = x /\ \A k \in Callers \ {c} : calls'[k] = calls[k]
  BY <1>1, <1>2
<1> QED BY <1>3, <1>4

(* A call is over in none of the pending maps.                             *)
LEMMA WaitsOver ==
  ASSUME HubOK, CallsOK, Waits, NEW c \in Callers, Over(c),
         \A k \in Callers \ {c} : answer'[k] = answer[k] /\ SamePending(k),
         Len(sessions') = Len(sessions),
         \A s \in 1 .. Len(sessions) : c \notin sessions'[s].pending
  PROVE  Waits'
<1>1. /\ \A k \in Callers \ {c} : calls'[k] = calls[k]
      /\ calls'[c].at = "over"
  BY OverIs
<1>2. WaitsFor(c, calls'[c], answer'[c], sessions')
  BY <1>1 DEF WaitsFor
<1> QED BY <1>1, <1>2, WaitsMoved

LEMMA LostOne ==
  ASSUME RestOK, NEW c \in Callers
  PROVE  /\ Lost({c})[c] # "none"
         /\ answer[c] = "none" => Lost({c})[c] = "lost"
         /\ answer[c] # "none" => Lost({c})[c] = answer[c]
         /\ \A k \in Callers \ {c} : Lost({c})[k] = answer[k]
BY DEF Lost, RestOK

LEMMA ChooseIs ==
  ASSUME Typed, NEW c \in Callers, NEW p \in Principals, NEW reset \in BOOLEAN,
         Choose(c, p, reset)
  PROVE  /\ calls[c].at = "idle" /\ UNCHANGED <<pairingVars, hubVars, deviceVars>>
         /\ \/ /\ UNCHANGED answer
               /\ calls'[c].at = "chosen"
               /\ \A k \in Callers \ {c} : calls'[k] = calls[k]
            \/ Refuse(c)
<1>0. calls \in [Callers -> CallShape]
  BY Lengths DEF CallsOK
<1>1. ASSUME NEW d \in Devices,
             calls' = [calls EXCEPT ![c] = [@ EXCEPT !.at = "chosen", !.principal = p,
                                                     !.reset = reset, !.device = d]]
      PROVE  calls'[c].at = "chosen" /\ \A k \in Callers \ {c} : calls'[k] = calls[k]
  <2> DEFINE x == [calls[c] EXCEPT !.at = "chosen", !.principal = p, !.reset = reset, !.device = d]
  <2>1. calls' = [calls EXCEPT ![c] = x]
    BY <1>0, <1>1
  <2>2. x.at = "chosen"
    BY <1>0 DEF CallShape
  <2> HIDE DEF x
  <2> QED BY <1>0, <2>1, <2>2
<1> QED BY <1>1 DEF Choose

LEMMA LookupIs ==
  ASSUME Typed, NEW c \in Callers, Lookup(c)
  PROVE  /\ calls[c].at = "chosen" /\ UNCHANGED <<pairingVars, hubVars, deviceVars>>
         /\ \/ /\ UNCHANGED answer
               /\ calls'[c].at = "looked" /\ calls'[c].session \in 1 .. Len(sessions)
               /\ calls'[c].principal = sessions[calls'[c].session].principal
               /\ \A k \in Callers \ {c} : calls'[k] = calls[k]
            \/ Refuse(c)
<1> DEFINE s == connections[calls[c].device]
           x == [Idle EXCEPT !.at = "looked", !.session = s, !.principal = calls[c].principal]
<1>0. calls \in [Callers -> CallShape] /\ CallsOK /\ HubOK /\ Len(sessions) \in Nat
  BY Lengths DEF CallsOK
<1>1. calls[c].at = "chosen" /\ UNCHANGED <<pairingVars, hubVars, deviceVars>>
  BY DEF Lookup
<1>2. CASE CanDispatch(c, s) /\ calls' = [calls EXCEPT ![c] = x] /\ UNCHANGED answer
  <2>1. calls[c].device \in Devices
    BY <1>0, <1>1 DEF CallsOK
  <2>2. s \in 1 .. Len(sessions) /\ sessions[s].principal = calls[c].principal
    BY <1>0, <1>2, <2>1 DEF HubOK, CanDispatch
  <2>3. x.at = "looked" /\ x.session = s /\ x.principal = calls[c].principal
    BY IdleIs DEF IdleShape
  <2> HIDE DEF x
  <2>4. calls'[c] = x /\ \A k \in Callers \ {c} : calls'[k] = calls[k]
    BY <1>0, <1>2
  <2>5. calls'[c].principal = sessions[calls'[c].session].principal
    BY <2>2, <2>3, <2>4
  <2> QED BY <1>1, <1>2, <2>2, <2>3, <2>4, <2>5
<1> QED BY <1>1, <1>2 DEF Lookup

LEMMA RefuseIs ==
  ASSUME Typed, NEW c \in Callers, Refuse(c)
  PROVE  /\ Over(c) /\ answer' = [answer EXCEPT ![c] = "refused"]
         /\ answer'[c] = "refused"
         /\ \A k \in Callers \ {c} : answer'[k] = answer[k]
BY Lengths DEF Refuse, RestOK

LEMMA ChooseWaits ==
  ASSUME Typed, Waits, NEW c \in Callers,
         \/ Lookup(c)
         \/ \E p \in Principals, reset \in BOOLEAN : Choose(c, p, reset)
  PROVE  Waits'
<1>0. HubOK /\ CallsOK
  BY Lengths
<1>1. /\ calls[c].at \in {"idle", "chosen"} /\ UNCHANGED <<pairingVars, hubVars, deviceVars>>
      /\ \/ /\ UNCHANGED answer
            /\ calls'[c].at \in {"chosen", "looked"}
            /\ \A k \in Callers \ {c} : calls'[k] = calls[k]
         \/ Refuse(c)
  BY ChooseIs, LookupIs
<1>2. /\ \A k \in Callers : SamePending(k)
      /\ sessions' = sessions
  BY <1>1, SamePendingUnchanged DEF hubVars
<1>3. WaitsFor(c, calls[c], answer[c], sessions)
  BY DEF Waits
<1>4. \A s \in 1 .. Len(sessions) : c \notin sessions[s].pending
  BY <1>1, <1>3 DEF WaitsFor
<1>5. CASE /\ UNCHANGED answer
           /\ calls'[c].at \in {"chosen", "looked"}
           /\ \A k \in Callers \ {c} : calls'[k] = calls[k]
  <2>1. WaitsFor(c, calls'[c], answer'[c], sessions')
    BY <1>1, <1>2, <1>3, <1>4, <1>5 DEF WaitsFor
  <2> QED BY <1>0, <1>2, <1>5, <2>1, WaitsMoved
<1>6. CASE Refuse(c)
  BY <1>0, <1>2, <1>4, <1>6, RefuseIs, WaitsOver
<1> QED BY <1>1, <1>5, <1>6

LEMMA InsertWaits ==
  ASSUME Typed, Waits, NEW c \in Callers, Insert(c)
  PROVE  Waits'
<1> DEFINE s == calls[c].session
<1>0. HubOK /\ CallsOK
  BY Lengths
<1>1. calls[c].at = "looked" /\ Move(c, "inserted") /\ UNCHANGED answer
  BY DEF Insert
<1>2. Fields(s, sessions[s].outbound, sessions[s].inbound, sessions[s].pending \cup {c})
  BY <1>0, InsertFields
<1>3. /\ \A k \in Callers \ {c} : calls'[k] = calls[k]
      /\ calls'[c].at = "inserted" /\ calls'[c].session = s
  BY <1>0, <1>1, MovedTo DEF Places
<1>4. \A k \in Callers \ {c} : SamePending(k)
  BY <1>2 DEF Fields, SamePending, Kept
<1>5. WaitsFor(c, calls[c], answer[c], sessions)
  BY DEF Waits
<1>6. answer[c] = "none" /\ \A i \in 1 .. Len(sessions) : c \notin sessions[i].pending
  BY <1>1, <1>5 DEF WaitsFor
<1>7. /\ Len(sessions') = Len(sessions) /\ s \in 1 .. Len(sessions)
      /\ \A i \in 1 .. Len(sessions) : c \in sessions'[i].pending <=> i = s
  BY <1>2, <1>6 DEF Fields, Kept
<1>8. WaitsFor(c, calls'[c], answer'[c], sessions')
  BY <1>1, <1>3, <1>6, <1>7 DEF WaitsFor
<1> QED BY <1>0, <1>1, <1>3, <1>4, <1>8, WaitsMoved

(* The call's entry is taken out of its session.                           *)
LEMMA ForgetWaits ==
  ASSUME Typed, Waits, NEW c \in Callers, calls[c].at \in Placed,
         sessions' = Forgotten(c, calls[c].session), Over(c), answer' = Lost({c})
  PROVE  Waits'
<1> DEFINE s == calls[c].session
<1>0. HubOK /\ CallsOK /\ RestOK /\ Len(sessions) \in Nat
  BY Lengths
<1>1. s \in 1 .. Len(sessions)
  BY <1>0 DEF CallsOK, CallShape
<1>2. Fields(s, sessions[s].outbound, sessions[s].inbound, sessions[s].pending \ {c})
  BY <1>0, <1>1, ForgetFields
<1>3. \A k \in Callers \ {c} : SamePending(k)
  BY <1>2 DEF Fields, SamePending, Kept
<1>4. WaitsFor(c, calls[c], answer[c], sessions)
  BY DEF Waits
<1>5. Len(sessions') = Len(sessions) /\ \A i \in 1 .. Len(sessions) : c \notin sessions'[i].pending
  BY <1>2, <1>4 DEF Fields, WaitsFor, Kept
<1>6. \A k \in Callers \ {c} : answer'[k] = answer[k]
  BY <1>0, LostOne
<1> QED BY <1>0, <1>3, <1>5, <1>6, WaitsOver

LEMMA SendWaits ==
  ASSUME Typed, Waits, NEW c \in Callers, Send(c)
  PROVE  Waits'
<1> DEFINE s == calls[c].session
<1>0. HubOK /\ CallsOK /\ Len(sessions) \in Nat
  BY Lengths
<1>1. calls[c].at = "inserted" /\ s \in 1 .. Len(sessions)
  BY <1>0 DEF Send, CallsOK, CallShape, Placed
<1>2. CASE /\ sessions' = IF Attached(s) THEN [sessions EXCEPT ![s].outbound = Append(@, c)]
                                         ELSE sessions
           /\ Move(c, "waiting")
           /\ UNCHANGED answer
  <2>1. \A k \in Callers : SamePending(k)
    <3>1. CASE Attached(s)
      BY <1>0, <1>1, <1>2, <3>1, QueueFields, SamePendingFields
    <3>2. CASE ~Attached(s)
      BY <1>2, <3>2, SamePendingUnchanged
    <3> QED BY <3>1, <3>2
  <2>2. /\ \A k \in Callers \ {c} : calls'[k] = calls[k]
        /\ calls'[c].at = "waiting" /\ calls'[c].session = s
    BY <1>0, <1>2, MovedTo DEF Places
  <2>3. WaitsFor(c, calls[c], answer[c], sessions')
    BY <1>0, <2>1, WaitsKept DEF Waits
  <2>4. WaitsFor(c, calls'[c], answer'[c], sessions')
    BY <1>1, <1>2, <2>2, <2>3 DEF WaitsFor
  <2> QED BY <1>0, <1>2, <2>1, <2>2, <2>4, WaitsMoved
<1>3. CASE sessions' = Forgotten(c, s) /\ Over(c) /\ answer' = Lost({c})
  BY <1>1, <1>3, ForgetWaits DEF Placed
<1> QED BY <1>2, <1>3 DEF Send

LEMMA ReturnWaits ==
  ASSUME Typed, Waits, NEW c \in Callers, Returns(c) \/ TimesOut(c)
  PROVE  Waits'
<1>0. HubOK /\ CallsOK
  BY Lengths
<1>1. CASE Returns(c)
  <2>1. /\ calls[c].at = "waiting" /\ answer[c] # "none" /\ Over(c)
        /\ sessions' = sessions /\ answer' = answer
    BY <1>1 DEF Returns, hubVars
  <2>2. \A s \in 1 .. Len(sessions) : c \notin sessions[s].pending
    BY <2>1 DEF Waits, WaitsFor
  <2> QED BY <1>0, <2>1, <2>2, SamePendingUnchanged, WaitsOver
<1>2. CASE TimesOut(c)
  BY <1>2, ForgetWaits DEF TimesOut, Placed
<1> QED BY <1>1, <1>2

LEMMA AbandonWaits ==
  ASSUME Typed, Waits, NEW c \in Callers, Abandon(c)
  PROVE  Waits'
<1>0. HubOK /\ CallsOK /\ RestOK
  BY Lengths
<1>1. /\ calls[c].at = "waiting" /\ Move(c, "gone") /\ answer' = Lost({c})
      /\ sessions' = sessions
  BY DEF Abandon, hubVars
<1>2. /\ \A k \in Callers \ {c} : calls'[k] = calls[k]
      /\ calls'[c].at = "gone" /\ calls'[c].session = calls[c].session
  BY <1>0, <1>1, MovedTo DEF Places
<1>3. \A k \in Callers \ {c} : answer'[k] = answer[k]
  BY <1>0, <1>1, LostOne
<1>4. WaitsFor(c, calls[c], answer[c], sessions)
  BY DEF Waits
<1>5. WaitsFor(c, calls'[c], answer'[c], sessions')
  BY <1>1, <1>2, <1>4 DEF WaitsFor
<1> QED BY <1>0, <1>1, <1>2, <1>3, <1>5, SamePendingUnchanged, WaitsMoved

LEMMA AcceptResultIs ==
  ASSUME Typed, NEW s \in 1 .. Len(sessions), AcceptResult(s)
  PROVE  \E c \in Callers :
           /\ c = Head(sessions[s].inbound).caller
           /\ Head(sessions[s].inbound).kind = "result" /\ sessions[s].inbound # <<>>
           /\ \A k \in Callers \ {c} : answer'[k] = answer[k]
           /\ IF c \in sessions[s].pending /\ answer[c] = "none"
                THEN answer'[c] = "done" /\ answer' = [answer EXCEPT ![c] = "done"]
                ELSE answer'[c] = answer[c] /\ answer' = answer
<1> DEFINE c == Head(sessions[s].inbound).caller
<1>1. sessions[s] \in Session /\ answer \in [Callers -> {"none", "refused", "lost", "done"}]
  BY Lengths, HubFacts DEF RestOK
<1>2. Head(sessions[s].inbound).kind = "result" /\ sessions[s].inbound # <<>>
  BY DEF AcceptResult
<1>3. c \in Callers
  BY <1>1, <1>2, HeadOfInbound
<1>4. answer' = IF c \in sessions[s].pending /\ answer[c] = "none"
                THEN [answer EXCEPT ![c] = "done"] ELSE answer
  BY DEF AcceptResult
<1> QED BY <1>1, <1>2, <1>3, <1>4

LEMMA AcceptResultWaits ==
  ASSUME Typed, Waits, NEW s \in 1 .. Len(sessions), AcceptResult(s)
  PROVE  Waits'
<1>0. HubOK /\ CallsOK /\ Len(sessions) \in Nat
  BY Lengths
<1>1. PICK c \in Callers :
        /\ c = Head(sessions[s].inbound).caller
        /\ \A k \in Callers \ {c} : answer'[k] = answer[k]
        /\ IF c \in sessions[s].pending /\ answer[c] = "none"
             THEN answer'[c] = "done" ELSE answer'[c] = answer[c]
  BY AcceptResultIs
<1>2. Fields(s, sessions[s].outbound, Tail(sessions[s].inbound), sessions[s].pending \ {c})
  BY <1>0, <1>1, AcceptResultFields
<1>3. \A k \in Callers \ {c} : SamePending(k)
  BY <1>2 DEF Fields, SamePending, Kept
<1>4. calls' = calls
  BY DEF AcceptResult
<1>5. WaitsFor(c, calls[c], answer[c], sessions)
  BY DEF Waits
<1>6. calls[c].at \in {"inserted", "waiting"} => calls[c].session \in 1 .. Len(sessions)
  BY <1>0 DEF CallsOK, CallShape, Placed
<1>7. /\ Len(sessions') = Len(sessions)
      /\ \A i \in 1 .. Len(sessions) :
           c \in sessions'[i].pending <=> (c \in sessions[i].pending /\ i # s)
  BY <1>2 DEF Fields, Kept
<1>8. WaitsFor(c, calls[c], answer'[c], sessions')
  <2>1. CASE c \in sessions[s].pending
    <3>1. s = calls[c].session /\ calls[c].at \in {"inserted", "waiting", "gone"}
      BY <1>5, <2>1 DEF WaitsFor
    <3>2. answer'[c] # "none"
      BY <1>1, <2>1
    <3> QED BY <1>5, <1>7, <3>1, <3>2 DEF WaitsFor
  <2>2. CASE c \notin sessions[s].pending
    BY <1>1, <1>5, <1>6, <1>7, <2>2 DEF WaitsFor
  <2> QED BY <2>1, <2>2
<1> QED BY <1>0, <1>1, <1>3, <1>4, <1>8, WaitsMoved

LEMMA SessionWaits ==
  ASSUME Typed, Waits, NEW s \in 1 .. Len(sessions), SessionStep(s) \/ SocketEnds(s)
  PROVE  Waits'
<1>0. HubOK /\ CallsOK /\ RestOK /\ Len(sessions) \in Nat
  BY Lengths
<1>1. CASE AcceptReady(s)
  BY <1>0, <1>1, AcceptReadyFields, SamePendingFields, WaitsUnchanged DEF AcceptReady
<1>2. CASE AcceptResult(s)
  BY <1>2, AcceptResultWaits
<1>3. CASE FailAll(s)
  <2>1. Fields(s, sessions[s].outbound, sessions[s].inbound, {})
    BY <1>0, <1>3, FailAllFields
  <2>2. calls' = calls /\ answer' = Lost(sessions[s].pending)
    BY <1>3 DEF FailAll
  <2>3. Len(sessions') = Len(sessions) /\ s \in 0 .. Len(sessions) /\ s # 0
    BY <1>0, <2>1 DEF Fields, Kept
  <2>4. \A i \in 1 .. Len(sessions') :
          \/ i \in 1 .. Len(sessions) /\ i # s /\ sessions'[i].pending = sessions[i].pending
          \/ (i = s \/ i \notin 1 .. Len(sessions)) /\ sessions'[i].pending = {}
    BY <2>1, <2>3 DEF Fields
  <2> QED BY <1>0, <2>2, <2>3, <2>4, WaitsDrained
<1>4. CASE DropReceiver(s)
  BY <1>0, <1>4, DropReceiverFields, SamePendingFields, WaitsUnchanged DEF DropReceiver
<1>5. CASE SocketEnds(s)
  BY <1>0, <1>5, SocketEndsFields, SamePendingFields, WaitsUnchanged DEF SocketEnds
<1> QED BY <1>1, <1>2, <1>3, <1>4, <1>5 DEF SessionStep

LEMMA LeaveSamePending ==
  ASSUME Typed, NEW d \in Devices, Leave(d)
  PROVE  \A c \in Callers : SamePending(c)
<1>0. clients[d].session \in 0 .. Len(sessions) /\ Len(sessions) \in Nat /\ HubOK
  BY ClientFacts
<1>1. CASE clients[d].session = 0
  BY <1>1, SamePendingUnchanged DEF Leave
<1>2. CASE clients[d].session # 0
  <2>1. clients[d].session \in 1 .. Len(sessions)
    BY <1>0, <1>2
  <2> QED BY <1>0, <2>1, LeaveFields, SamePendingFields
<1> QED BY <1>1, <1>2

LEMMA ClientWaits ==
  ASSUME Typed, Waits, NEW d \in Devices, ClientStep(d) \/ ClientFault(d), ~Connect(d)
  PROVE  Waits'
<1>0. HubOK /\ CallsOK
  BY Lengths
<1>1. UNCHANGED callVars /\ \A c \in Callers : SamePending(c)
  <2>1. CASE Start(d) \/ Upgrade(d) \/ ConnectFails(d) \/ UsbChanges(d)
    BY <2>1, SamePendingUnchanged DEF Start, Upgrade, ConnectFails, UsbChanges, hubVars
  <2>2. CASE Pair(d) \/ Stop(d) \/ SocketLost(d) \/ SendFails(d)
    BY <2>2, LeaveSamePending DEF Pair, Stop, SocketLost, SendFails
  <2>3. CASE SendReady(d)
    BY <1>0, <2>3, SendReadySends, SendsFields, SamePendingFields
  <2>4. CASE Executed(d)
    BY <1>0, <2>4, ExecutedSends, SendsFields, SamePendingFields
  <2>5. CASE ReadInvoke(d)
    BY <1>0, <2>5, ReadInvokeConsumes, ConsumeFields, SamePendingFields
  <2> QED BY <2>1, <2>2, <2>3, <2>4, <2>5 DEF ClientStep, ClientFault
<1> QED BY <1>0, <1>1, WaitsUnchanged

LEMMA ConnectWaits ==
  ASSUME Typed, Waits, NEW d \in Devices, Connect(d)
  PROVE  Waits'
<1> DEFINE old == connections[d]
           n == Len(sessions) + 1
<1>0. HubOK /\ CallsOK /\ RestOK /\ Len(sessions) \in Nat /\ old \in 0 .. Len(sessions)
      /\ \A i \in 1 .. Len(sessions) : sessions[i] \in Session
  BY Lengths, HubFacts DEF HubOK
<1>1. Appended(old, NewSession(d))
  BY ConnectEffect
<1>2. NewSession(d).pending = {}
  BY DEF NewSession
<1>3. Len(sessions') = n
  BY <1>1 DEF Appended
<1>4. calls' = calls /\ answer' = IF old = 0 THEN answer ELSE Lost(sessions[old].pending)
  BY DEF Connect
<1>5. ASSUME NEW i \in 1 .. Len(sessions')
      PROVE  \/ i \in 1 .. Len(sessions) /\ i # old /\ sessions'[i].pending = sessions[i].pending
             \/ (i = old \/ i \notin 1 .. Len(sessions)) /\ sessions'[i].pending = {}
  <2>1. CASE i \in 1 .. Len(sessions)
    <3>1. sessions[i] \in Session
      BY <1>0, <2>1
    <3> QED BY <1>1, <2>1, <3>1 DEF Appended, Session
  <2>2. CASE i \notin 1 .. Len(sessions)
    <3>1. i = n
      BY <1>0, <1>3, <2>2
    <3> QED BY <1>1, <1>2, <2>2, <3>1 DEF Appended
  <2> QED BY <2>1, <2>2
<1>6. Len(sessions') \in Nat /\ Len(sessions) <= Len(sessions')
  BY <1>0, <1>3
<1> QED BY <1>0, <1>4, <1>5, <1>6, WaitsDrained

LEMMA WaitsStep ==
  ASSUME Typed, Waits, [Next]_vars
  PROVE  Waits'
<1>0. HubOK /\ CallsOK /\ DOMAIN sessions = 1 .. Len(sessions)
  BY Lengths, HubFacts
<1>1. CASE PairingStep \/ Revocation \/ UNCHANGED vars
  BY <1>0, <1>1, SamePendingUnchanged, WaitsUnchanged
     DEF PairingStep, Revocation, vars, hubVars, callVars
<1>2. CASE \E c \in Callers : CallStep(c) \/ Abandon(c)
  BY <1>2, ChooseWaits, InsertWaits, SendWaits, ReturnWaits, AbandonWaits DEF CallStep
<1>3. CASE \E s \in DOMAIN sessions : SessionStep(s) \/ SocketEnds(s)
  BY <1>0, <1>3, SessionWaits
<1>4. CASE \E d \in Devices : ClientStep(d) \/ ClientFault(d)
  BY <1>4, ClientWaits, ConnectWaits
<1> QED BY <1>1, <1>2, <1>3, <1>4 DEF Next, Step, Event

LEMMA WaitsInit ==
  ASSUME Init
  PROVE  Waits
<1>1. Len(sessions) = 0 /\ \A c \in Callers : calls[c] = Idle /\ answer[c] = "none"
  BY EmptySeq DEF Init
<1>2. Idle.at = "idle"
  BY IdleIs DEF IdleShape
<1> QED BY <1>1, <1>2 DEF Waits, WaitsFor

LEMMA WaitsAlways ==
  Spec => []Waits
<1>1. Init => Waits
  BY WaitsInit
<1>2. Typed /\ Waits /\ [Next]_vars => Waits'
  BY WaitsStep
<1> QED BY <1>1, <1>2, TypedAlways, PTL DEF Spec

LEMMA WaitsMeans ==
  ASSUME HubOK, Waits
  PROVE  PendingMeansWaiting
<1>1. DOMAIN sessions = 1 .. Len(sessions)
  BY HubFacts
<1> QED BY <1>1 DEF Waits, WaitsFor, PendingMeansWaiting

(* Who waits for a result is in the pending map of its session, and nobody *)
(* else but those who hung up is in one, whatever ends first: the session, *)
(* the call's time, or the caller (RelayHub::dispatch_policy, fail_all).   *)
THEOREM PendingTheorem ==
  Spec => []PendingMeansWaiting
<1>1. Typed /\ Waits => PendingMeansWaiting
  BY WaitsMeans DEF Typed
<1> QED BY <1>1, TypedAlways, WaitsAlways, PTL

-----------------------------------------------------------------------------
(***************************************************************************)
(* What is carried out                                                     *)
(***************************************************************************)
Queued(ss, s, c) == \E i \in 1 .. Len(ss[s].outbound) : ss[s].outbound[i] = c

Resulted(ss, s, c) ==
    \E i \in 1 .. Len(ss[s].inbound) :
        ss[s].inbound[i].kind = "result" /\ ss[s].inbound[i].caller = c

(* A request in a queue has been sent, by a caller of the session's        *)
(* principal, and was not carried out yet; a result has been carried out.  *)
ServedFor(c, call, told, times, ss) ==
    /\ call.at \in Placed => call.principal = ss[call.session].principal
    /\ call.at \in {"idle", "chosen", "looked", "inserted"} => times = 0
    /\ told = "refused" => call.at = "over"
    /\ \A s \in 1 .. Len(ss) :
         Queued(ss, s, c) => /\ call.at \in {"waiting", "gone", "over"}
                             /\ call.principal = ss[s].principal
                             /\ times = 0 /\ told # "refused"
    /\ \A s \in 1 .. Len(ss) : Resulted(ss, s, c) => times = 1

(* A request is in one queue, once.                                        *)
Unique(ss) ==
    \A s, t \in 1 .. Len(ss) :
        \A i \in 1 .. Len(ss[s].outbound), j \in 1 .. Len(ss[t].outbound) :
            ss[s].outbound[i] = ss[t].outbound[j] => s = t /\ i = j

LEMMA UniqueAt ==
  ASSUME NEW ss, Unique(ss), NEW s \in 1 .. Len(ss), NEW t \in 1 .. Len(ss),
         NEW i \in 1 .. Len(ss[s].outbound), NEW j \in 1 .. Len(ss[t].outbound),
         ss[s].outbound[i] = ss[t].outbound[j]
  PROVE  s = t /\ i = j
BY Zenon DEF Unique

Busy == \A d \in Devices : clients[d].executing # Nobody => ran[clients[d].executing] = 1

Served ==
    /\ \A c \in Callers : ServedFor(c, calls[c], answer[c], ran[c], sessions)
    /\ Unique(sessions)
    /\ Busy

(* Nothing of call c gets into a queue.                                    *)
NoNews(c) ==
    /\ \A s \in 1 .. Len(sessions) :
         s \in 1 .. Len(sessions') /\ sessions'[s].principal = sessions[s].principal
    /\ \A s \in 1 .. Len(sessions') :
         /\ Queued(sessions', s, c) => s \in 1 .. Len(sessions) /\ Queued(sessions, s, c)
         /\ Resulted(sessions', s, c) => s \in 1 .. Len(sessions) /\ Resulted(sessions, s, c)

LEMMA PlacedWhere ==
  ASSUME HubOK, CallsOK, NEW c \in Callers, calls[c].at \in Placed
  PROVE  calls[c].session \in 1 .. Len(sessions)
<1>1. calls[c].session \in 0 .. Len(sessions) /\ calls[c].session # 0 /\ Len(sessions) \in Nat
  BY HubFacts DEF CallsOK, CallShape
<1> QED BY <1>1

LEMMA ServedKept ==
  ASSUME HubOK, CallsOK, NEW c \in Callers, NoNews(c),
         ServedFor(c, calls[c], answer[c], ran[c], sessions),
         NEW told, told = answer[c] \/ told # "refused"
  PROVE  ServedFor(c, calls[c], told, ran[c], sessions')
<1>1. calls[c].at \in Placed => calls[c].session \in 1 .. Len(sessions)
  BY PlacedWhere
<1> QED BY <1>1 DEF ServedFor, NoNews

(* Nothing moves but what is answered.                                     *)
LEMMA ServedAnswered ==
  ASSUME HubOK, CallsOK, Served, \A c \in Callers : NoNews(c), Unique(sessions'),
         UNCHANGED <<calls, ran>>, Busy',
         \A c \in Callers : answer'[c] = answer[c] \/ answer'[c] # "refused"
  PROVE  Served'
<1>1. ASSUME NEW c \in Callers PROVE ServedFor(c, calls[c], answer'[c], ran[c], sessions')
  BY ServedKept DEF Served
<1>2. calls' = calls /\ ran' = ran
  OBVIOUS
<1> QED BY <1>1, <1>2 DEF Served

LEMMA BusyUnchanged ==
  ASSUME Busy, UNCHANGED <<clients, ran>>
  PROVE  Busy'
BY DEF Busy

LEMMA FieldsNoNews ==
  ASSUME HubOK, NEW s, NEW out, NEW inn, NEW pend, Fields(s, out, inn, pend), NEW c \in Callers,
         (\E i \in 1 .. Len(out) : out[i] = c) => Queued(sessions, s, c),
         (\E i \in 1 .. Len(inn) : inn[i].kind = "result" /\ inn[i].caller = c)
            => Resulted(sessions, s, c)
  PROVE  NoNews(c)
<1>1. \A i \in 1 .. Len(sessions) : sessions'[i].principal = sessions[i].principal
  BY DEF Fields, Kept
<1>2. ASSUME NEW i \in 1 .. Len(sessions), Queued(sessions', i, c) PROVE Queued(sessions, i, c)
  BY <1>2 DEF Fields, Queued
<1>3. ASSUME NEW i \in 1 .. Len(sessions), Resulted(sessions', i, c) PROVE Resulted(sessions, i, c)
  BY <1>3 DEF Fields, Resulted
<1>4. Len(sessions') = Len(sessions)
  BY DEF Fields, Kept
<1> QED BY <1>1, <1>2, <1>3, <1>4 DEF NoNews

LEMMA UniqueFields ==
  ASSUME HubOK, Unique(sessions), NEW s, NEW out, NEW inn, NEW pend, Fields(s, out, inn, pend),
         out = sessions[s].outbound \/ out = <<>>
  PROVE  Unique(sessions')
<1>1. Len(sessions') = Len(sessions)
  BY DEF Fields, Kept
<1>2. \A i \in 1 .. Len(sessions) :
        sessions'[i].outbound = sessions[i].outbound \/ sessions'[i].outbound = <<>>
  BY DEF Fields
<1>3. \A i \in 1 .. Len(<<>>) : FALSE
  BY EmptySeq
<1>4. \A i \in 1 .. Len(sessions) : \A k \in 1 .. Len(sessions'[i].outbound) :
        sessions'[i].outbound = sessions[i].outbound
  BY <1>2, <1>3, Zenon
<1>5. SUFFICES ASSUME NEW a \in 1 .. Len(sessions), NEW b \in 1 .. Len(sessions),
                      NEW i \in 1 .. Len(sessions'[a].outbound),
                      NEW j \in 1 .. Len(sessions'[b].outbound),
                      sessions'[a].outbound[i] = sessions'[b].outbound[j]
               PROVE  a = b /\ i = j
  BY <1>1 DEF Unique
<1>6. sessions'[a].outbound = sessions[a].outbound /\ sessions'[b].outbound = sessions[b].outbound
  BY <1>4
<1> QED BY <1>5, <1>6 DEF Unique

LEMMA NoNewsUnchanged ==
  ASSUME UNCHANGED sessions, NEW c \in Callers
  PROVE  NoNews(c)
BY DEF NoNews

(* What is cut from a queue is no news.                                    *)
LEMMA CutFields ==
  ASSUME HubOK, Unique(sessions), NEW s, NEW out, NEW inn, NEW pend, Fields(s, out, inn, pend),
         out = sessions[s].outbound \/ out = <<>>,
         \/ inn = sessions[s].inbound \/ inn = <<>>
         \/ sessions[s].inbound # <<>> /\ inn = Tail(sessions[s].inbound)
  PROVE  Unique(sessions') /\ \A c \in Callers : NoNews(c)
<1>1. Unique(sessions')
  BY UniqueFields
<1>2. ASSUME NEW c \in Callers PROVE NoNews(c)
  <2>1. s \in 1 .. Len(sessions) /\ sessions[s].inbound \in Seq(Frame)
    BY HubFacts DEF Fields, Session
  <2>2. (\E i \in 1 .. Len(out) : out[i] = c) => Queued(sessions, s, c)
    BY EmptySeq DEF Queued
  <2>3. (\E i \in 1 .. Len(inn) : inn[i].kind = "result" /\ inn[i].caller = c)
          => Resulted(sessions, s, c)
    <3>1. CASE inn = sessions[s].inbound
      BY <3>1 DEF Resulted
    <3>2. CASE inn = <<>>
      BY <3>2, EmptySeq
    <3>3. CASE sessions[s].inbound # <<>> /\ inn = Tail(sessions[s].inbound)
      <4>1. /\ Len(inn) = Len(sessions[s].inbound) - 1 /\ Len(sessions[s].inbound) \in Nat
            /\ \A i \in 1 .. Len(inn) : inn[i] = sessions[s].inbound[i + 1]
        BY <2>1, <3>3, HeadTailProperties, LenProperties
      <4>2. \A i \in 1 .. Len(inn) : i + 1 \in 1 .. Len(sessions[s].inbound)
        BY <4>1
      <4> QED BY <4>1, <4>2 DEF Resulted
    <3> QED BY <3>1, <3>2, <3>3
  <2> QED BY <2>2, <2>3, FieldsNoNews
<1> QED BY <1>1, <1>2

(* One call moves.                                                         *)
LEMMA ServedMoved ==
  ASSUME HubOK, CallsOK, Served, NEW c \in Callers,
         \A k \in Callers \ {c} : /\ calls'[k] = calls[k] /\ NoNews(k)
                                  /\ answer'[k] = answer[k],
         Unique(sessions'), UNCHANGED <<clients, ran>>,
         ServedFor(c, calls'[c], answer'[c], ran[c], sessions')
  PROVE  Served'
<1>1. ASSUME NEW k \in Callers \ {c}
      PROVE  ServedFor(k, calls'[k], answer'[k], ran[k], sessions')
  BY <1>1, ServedKept DEF Served
<1>2. Busy'
  BY BusyUnchanged DEF Served
<1>3. ran' = ran
  OBVIOUS
<1> QED BY <1>1, <1>2, <1>3 DEF Served

LEMMA OverServed ==
  ASSUME HubOK, CallsOK, Served, NEW c \in Callers, Over(c), \A k \in Callers : NoNews(k),
         \A k \in Callers \ {c} : answer'[k] = answer[k],
         Unique(sessions'), UNCHANGED <<clients, ran>>,
         \/ answer'[c] # "refused" \/ answer'[c] = answer[c]
         \/ calls[c].at \in {"idle", "chosen"}
  PROVE  Served'
<1>1. /\ \A k \in Callers \ {c} : calls'[k] = calls[k]
      /\ calls'[c].at = "over" /\ calls'[c].principal = calls[c].principal
  BY OverIs
<1>2. ServedFor(c, calls[c], answer[c], ran[c], sessions)
  BY DEF Served
<1>3. ServedFor(c, calls'[c], answer'[c], ran[c], sessions')
  BY <1>1, <1>2 DEF ServedFor, NoNews, Placed
<1> QED BY <1>1, <1>3, ServedMoved

LEMMA ChooseServed ==
  ASSUME Typed, Waits, Served, NEW c \in Callers,
         \/ Lookup(c)
         \/ \E p \in Principals, reset \in BOOLEAN : Choose(c, p, reset)
  PROVE  Served'
<1>0. HubOK /\ CallsOK
  BY Lengths
<1>1. /\ calls[c].at \in {"idle", "chosen"} /\ UNCHANGED <<pairingVars, hubVars, deviceVars>>
      /\ \/ /\ UNCHANGED answer
            /\ calls'[c].at = "chosen"
            /\ \A k \in Callers \ {c} : calls'[k] = calls[k]
         \/ /\ UNCHANGED answer
            /\ calls'[c].at = "looked" /\ calls'[c].session \in 1 .. Len(sessions)
            /\ calls'[c].principal = sessions[calls'[c].session].principal
            /\ \A k \in Callers \ {c} : calls'[k] = calls[k]
         \/ Refuse(c)
  BY ChooseIs, LookupIs
<1>2. /\ \A k \in Callers : NoNews(k)
      /\ sessions' = sessions /\ clients' = clients /\ ran' = ran /\ Unique(sessions')
  BY <1>1, NoNewsUnchanged DEF hubVars, deviceVars, Served
<1>3. ServedFor(c, calls[c], answer[c], ran[c], sessions) /\ answer[c] = "none"
  BY <1>1 DEF Served, Waits, WaitsFor
<1>4. ASSUME UNCHANGED answer,
             \/ calls'[c].at = "chosen"
             \/ /\ calls'[c].at = "looked"
                /\ calls'[c].principal = sessions[calls'[c].session].principal,
             \A k \in Callers \ {c} : calls'[k] = calls[k]
      PROVE  Served'
  <2>1. ServedFor(c, calls'[c], answer'[c], ran[c], sessions')
    BY <1>1, <1>2, <1>3, <1>4 DEF ServedFor, Placed
  <2> QED BY <1>0, <1>2, <1>4, <2>1, ServedMoved
<1>5. CASE Refuse(c)
  BY <1>0, <1>1, <1>2, <1>5, RefuseIs, OverServed
<1> QED BY <1>1, <1>4, <1>5

LEMMA InsertServed ==
  ASSUME Typed, Served, NEW c \in Callers, Insert(c)
  PROVE  Served'
<1> DEFINE s == calls[c].session
<1>0. HubOK /\ CallsOK
  BY Lengths
<1>1. calls[c].at = "looked" /\ Move(c, "inserted") /\ UNCHANGED <<answer, clients, ran>>
  BY DEF Insert, deviceVars
<1>2. Fields(s, sessions[s].outbound, sessions[s].inbound, sessions[s].pending \cup {c})
  BY <1>0, InsertFields
<1>3. Unique(sessions') /\ \A k \in Callers : NoNews(k)
  BY <1>0, <1>2, CutFields DEF Served
<1>4. /\ \A k \in Callers \ {c} : calls'[k] = calls[k]
      /\ calls'[c].at = "inserted" /\ calls'[c].session = s
      /\ calls'[c].principal = calls[c].principal
  BY <1>0, <1>1, MovedTo DEF Places
<1>5. ServedFor(c, calls[c], answer[c], ran[c], sessions')
  BY <1>0, <1>3, ServedKept DEF Served
<1>6. ServedFor(c, calls'[c], answer'[c], ran[c], sessions')
  BY <1>1, <1>4, <1>5 DEF ServedFor, Placed
<1> QED BY <1>0, <1>1, <1>3, <1>4, <1>6, ServedMoved

LEMMA ForgetServed ==
  ASSUME Typed, Served, NEW c \in Callers, calls[c].at \in Placed,
         sessions' = Forgotten(c, calls[c].session), Over(c), answer' = Lost({c}),
         UNCHANGED <<clients, ran>>
  PROVE  Served'
<1> DEFINE s == calls[c].session
<1>0. HubOK /\ CallsOK /\ RestOK
  BY Lengths
<1>1. s \in 1 .. Len(sessions)
  BY <1>0, PlacedWhere
<1>2. Fields(s, sessions[s].outbound, sessions[s].inbound, sessions[s].pending \ {c})
  BY <1>0, <1>1, ForgetFields
<1>3. Unique(sessions') /\ \A k \in Callers : NoNews(k)
  BY <1>0, <1>2, CutFields DEF Served
<1>4. /\ \A k \in Callers \ {c} : answer'[k] = answer[k]
      /\ answer'[c] # "refused" \/ answer'[c] = answer[c]
  BY <1>0, LostOne
<1> QED BY <1>0, <1>3, <1>4, OverServed

(* The request goes to the end of the queue of its session, and is in no   *)
(* other.                                                                  *)
LEMMA QueueServed ==
  ASSUME Typed, Served, NEW c \in Callers, calls[c].at = "inserted", Move(c, "waiting"),
         sessions' = [sessions EXCEPT ![calls[c].session].outbound = Append(@, c)],
         answer[c] # "refused", UNCHANGED <<answer, clients, ran>>
  PROVE  Served'
<1> DEFINE s == calls[c].session
           old == sessions[s].outbound
           new == Append(old, c)
<1>0. HubOK /\ CallsOK
  BY Lengths
<1>1. s \in 1 .. Len(sessions)
  BY <1>0, PlacedWhere DEF Placed
<1>2. Fields(s, new, sessions[s].inbound, sessions[s].pending)
  BY <1>0, <1>1, QueueFields
<1>3. old \in Seq(Callers) /\ Len(old) \in Nat
  BY <1>0, <1>1, HubFacts, LenProperties DEF Session
<1>4. /\ Len(new) = Len(old) + 1 /\ new[Len(old) + 1] = c
      /\ \A i \in 1 .. Len(old) : new[i] = old[i]
  BY <1>3, AppendProperties
<1>5. \A i \in 1 .. Len(new) : i = Len(old) + 1 \/ i \in 1 .. Len(old)
  BY <1>3, <1>4
<1>6. ServedFor(c, calls[c], answer[c], ran[c], sessions)
  BY DEF Served
<1>7. \A t \in 1 .. Len(sessions) : ~Queued(sessions, t, c)
  BY <1>6 DEF ServedFor
<1>8. /\ Len(sessions') = Len(sessions)
      /\ \A t \in 1 .. Len(sessions) :
           /\ sessions'[t].outbound = IF t = s THEN new ELSE sessions[t].outbound
           /\ sessions'[t].inbound = sessions[t].inbound
           /\ sessions'[t].principal = sessions[t].principal
  BY <1>2 DEF Fields, Kept
<1> HIDE DEF new
<1>9. ASSUME NEW k \in Callers \ {c} PROVE NoNews(k)
  <2>1. (\E i \in 1 .. Len(new) : new[i] = k) => Queued(sessions, s, k)
    BY <1>4, <1>5, <1>9 DEF Queued
  <2> QED BY <1>0, <1>2, <2>1, FieldsNoNews DEF Resulted
<1>10. /\ \A k \in Callers \ {c} : calls'[k] = calls[k]
       /\ calls'[c].at = "waiting" /\ calls'[c].session = s
       /\ calls'[c].principal = calls[c].principal
  BY <1>0, MovedTo DEF Places
<1>11. ServedFor(c, calls'[c], answer'[c], ran[c], sessions')
  <2>1. ran[c] = 0 /\ calls[c].principal = sessions[s].principal
    BY <1>6 DEF ServedFor, Placed
  <2>2. \A t \in 1 .. Len(sessions) : Queued(sessions', t, c) => t = s
    BY <1>7, <1>8 DEF Queued
  <2>3. \A t \in 1 .. Len(sessions) : Resulted(sessions', t, c) => Resulted(sessions, t, c)
    BY <1>8 DEF Resulted
  <2> QED BY <1>1, <1>6, <1>8, <1>10, <2>1, <2>2, <2>3 DEF ServedFor
<1>12. Unique(sessions')
  <2>1. SUFFICES ASSUME NEW a \in 1 .. Len(sessions), NEW b \in 1 .. Len(sessions),
                        NEW i \in 1 .. Len(sessions'[a].outbound),
                        NEW j \in 1 .. Len(sessions'[b].outbound),
                        sessions'[a].outbound[i] = sessions'[b].outbound[j]
                 PROVE  a = b /\ i = j
    BY <1>8 DEF Unique
  <2>2. \/ a = s /\ i = Len(old) + 1 /\ sessions'[a].outbound[i] = c
        \/ /\ i \in 1 .. Len(sessions[a].outbound)
           /\ sessions'[a].outbound[i] = sessions[a].outbound[i]
           /\ sessions[a].outbound[i] # c
    BY <1>4, <1>5, <1>7, <1>8 DEF Queued
  <2>3. \/ b = s /\ j = Len(old) + 1 /\ sessions'[b].outbound[j] = c
        \/ /\ j \in 1 .. Len(sessions[b].outbound)
           /\ sessions'[b].outbound[j] = sessions[b].outbound[j]
           /\ sessions[b].outbound[j] # c
    BY <1>4, <1>5, <1>7, <1>8 DEF Queued
  <2>4. Unique(sessions)
    BY DEF Served
  <2>5. CASE i \in 1 .. Len(sessions[a].outbound) /\ j \in 1 .. Len(sessions[b].outbound)
             /\ sessions'[a].outbound[i] = sessions[a].outbound[i]
             /\ sessions'[b].outbound[j] = sessions[b].outbound[j]
    <3>1. sessions[a].outbound[i] = sessions[b].outbound[j]
      BY <2>1, <2>5
    <3> QED BY <2>4, <2>5, <3>1, UniqueAt
  <2> HIDE DEF s, old
  <2> QED BY ONLY <2>1, <2>2, <2>3, <2>5
<1> QED BY <1>0, <1>9, <1>10, <1>11, <1>12, ServedMoved

LEMMA SendServed ==
  ASSUME Typed, Served, NEW c \in Callers, Send(c)
  PROVE  Served'
<1> DEFINE s == calls[c].session
<1>0. HubOK /\ CallsOK /\ ServedFor(c, calls[c], answer[c], ran[c], sessions)
  BY Lengths DEF Served
<1>1. calls[c].at = "inserted" /\ UNCHANGED <<clients, ran>> /\ answer[c] # "refused"
  BY <1>0 DEF Send, deviceVars, ServedFor
<1>2. CASE /\ sessions' = IF Attached(s) THEN [sessions EXCEPT ![s].outbound = Append(@, c)]
                                         ELSE sessions
           /\ Move(c, "waiting")
           /\ UNCHANGED answer
  <2>1. CASE Attached(s)
    BY <1>1, <1>2, <2>1, QueueServed
  <2>2. CASE ~Attached(s)
    <3>1. sessions' = sessions /\ Unique(sessions') /\ \A k \in Callers : NoNews(k)
      BY <1>2, <2>2, NoNewsUnchanged DEF Served
    <3>2. /\ \A k \in Callers \ {c} : calls'[k] = calls[k]
          /\ calls'[c].at = "waiting" /\ calls'[c].session = s
          /\ calls'[c].principal = calls[c].principal
      BY <1>0, <1>2, MovedTo DEF Places
    <3>3. ServedFor(c, calls'[c], answer'[c], ran[c], sessions')
      BY <1>0, <1>1, <1>2, <3>1, <3>2 DEF ServedFor, Placed
    <3> QED BY <1>0, <1>1, <1>2, <3>1, <3>2, <3>3, ServedMoved
  <2> QED BY <2>1, <2>2
<1>3. CASE sessions' = Forgotten(c, s) /\ Over(c) /\ answer' = Lost({c})
  BY <1>1, <1>3, ForgetServed DEF Placed
<1> QED BY <1>2, <1>3 DEF Send

LEMMA ReturnServed ==
  ASSUME Typed, Served, NEW c \in Callers, Returns(c) \/ TimesOut(c) \/ Abandon(c)
  PROVE  Served'
<1>0. HubOK /\ CallsOK /\ RestOK /\ ServedFor(c, calls[c], answer[c], ran[c], sessions)
  BY Lengths DEF Served
<1>1. CASE Returns(c)
  <2>1. Over(c) /\ sessions' = sessions /\ answer' = answer /\ UNCHANGED <<clients, ran>>
    BY <1>1 DEF Returns, hubVars, deviceVars
  <2> QED BY <1>0, <2>1, NoNewsUnchanged, OverServed DEF Served
<1>2. CASE TimesOut(c)
  BY <1>2, ForgetServed DEF TimesOut, Placed, deviceVars
<1>3. CASE Abandon(c)
  <2>1. /\ calls[c].at = "waiting" /\ Move(c, "gone") /\ answer' = Lost({c})
        /\ sessions' = sessions /\ UNCHANGED <<clients, ran>>
    BY <1>3 DEF Abandon, hubVars, deviceVars
  <2>2. /\ \A k \in Callers \ {c} : calls'[k] = calls[k]
        /\ calls'[c].at = "gone" /\ calls'[c].session = calls[c].session
        /\ calls'[c].principal = calls[c].principal
    BY <1>0, <2>1, MovedTo DEF Places
  <2>3. /\ \A k \in Callers \ {c} : answer'[k] = answer[k]
        /\ answer'[c] # "refused"
    <3>1. answer[c] # "refused"
      BY <1>0, <2>1 DEF ServedFor
    <3> QED BY <1>0, <2>1, <3>1, LostOne
  <2>4. ServedFor(c, calls'[c], answer'[c], ran[c], sessions')
    BY <1>0, <2>1, <2>2, <2>3 DEF ServedFor, Placed
  <2> QED BY <1>0, <2>1, <2>2, <2>3, <2>4, NoNewsUnchanged, ServedMoved DEF Served
<1> QED BY <1>1, <1>2, <1>3

LEMMA LostAnswers ==
  ASSUME NEW S, NEW c \in Callers
  PROVE  Lost(S)[c] = answer[c] \/ Lost(S)[c] # "refused"
BY DEF Lost

LEMMA SessionServed ==
  ASSUME Typed, Served, NEW s \in 1 .. Len(sessions), SessionStep(s) \/ SocketEnds(s)
  PROVE  Served'
<1>0. HubOK /\ CallsOK /\ RestOK /\ Unique(sessions) /\ Busy
  BY Lengths DEF Served
<1>1. UNCHANGED <<calls, ran, clients>>
  BY DEF SessionStep, AcceptReady, AcceptResult, FailAll, DropReceiver, SocketEnds, callVars, deviceVars
<1>2. \A c \in Callers : answer'[c] = answer[c] \/ answer'[c] # "refused"
  <2>1. CASE AcceptReady(s) \/ DropReceiver(s) \/ SocketEnds(s)
    BY <2>1 DEF AcceptReady, DropReceiver, SocketEnds, callVars
  <2>2. CASE AcceptResult(s)
    BY <2>2, AcceptResultIs
  <2>3. CASE FailAll(s)
    BY <2>3, LostAnswers DEF FailAll
  <2> QED BY <2>1, <2>2, <2>3 DEF SessionStep
<1>3. Unique(sessions') /\ \A c \in Callers : NoNews(c)
  <2>1. CASE AcceptReady(s)
    <3>1. sessions[s].inbound # <<>>
      BY <2>1 DEF AcceptReady
    <3> QED BY <1>0, <2>1, <3>1, AcceptReadyFields, CutFields
  <2>2. CASE AcceptResult(s)
    <3>1. sessions[s].inbound # <<>>
      BY <2>2 DEF AcceptResult
    <3> QED BY <1>0, <2>2, <3>1, AcceptResultFields, CutFields
  <2>3. CASE FailAll(s)
    BY <1>0, <2>3, FailAllFields, CutFields
  <2>4. CASE DropReceiver(s)
    BY <1>0, <2>4, DropReceiverFields, CutFields
  <2>5. CASE SocketEnds(s)
    BY <1>0, <2>5, SocketEndsFields, CutFields
  <2> QED BY <2>1, <2>2, <2>3, <2>4, <2>5 DEF SessionStep
<1>4. Busy'
  BY <1>0, <1>1, BusyUnchanged
<1> QED BY <1>0, <1>1, <1>2, <1>3, <1>4, ServedAnswered

LEMMA LeaveCuts ==
  ASSUME Typed, Unique(sessions), NEW d \in Devices, Leave(d)
  PROVE  Unique(sessions') /\ \A c \in Callers : NoNews(c)
<1>0. clients[d].session \in 0 .. Len(sessions) /\ Len(sessions) \in Nat /\ HubOK
  BY ClientFacts
<1>1. CASE clients[d].session = 0
  BY <1>1, NoNewsUnchanged DEF Leave
<1>2. CASE clients[d].session # 0
  <2>1. clients[d].session \in 1 .. Len(sessions)
    BY <1>0, <1>2
  <2> QED BY <1>0, <2>1, LeaveFields, CutFields
<1> QED BY <1>1, <1>2

(* Whoever carries nothing out, or goes on with what it did, is as busy as *)
(* before.                                                                 *)
LEMMA BusyClient ==
  ASSUME Busy, ClientsOK, NEW d \in Devices, NEW x, clients' = [clients EXCEPT ![d] = x],
         UNCHANGED ran, x.executing = Nobody \/ x.executing = clients[d].executing
  PROVE  Busy'
<1>1. \A k \in Devices : clients'[k] = IF k = d THEN x ELSE clients[k]
  BY DEF ClientsOK
<1> QED BY <1>1 DEF Busy

LEMMA ClientBusy ==
  ASSUME Typed, Busy, NEW d \in Devices,
         \/ Start(d) \/ Pair(d) \/ Upgrade(d) \/ Connect(d) \/ SendReady(d) \/ Executed(d)
         \/ ClientFault(d)
  PROVE  Busy' /\ UNCHANGED ran
<1>0. ClientsOK /\ clients[d] \in ClientShape
  BY Lengths DEF ClientsOK
<1>1. UNCHANGED ran
  BY DEF ClientFault, Start, Pair, Upgrade, Connect, SendReady, Executed, Stop,
         ConnectFails, SocketLost, SendFails, UsbChanges, deviceVars
<1>2. CASE SendReady(d) \/ UsbChanges(d)
  BY <1>1, <1>2, BusyUnchanged DEF SendReady, UsbChanges, deviceVars
<1>3. ASSUME NEW phase, clients' = [clients EXCEPT ![d] = [clients[d] EXCEPT !.phase = phase]]
      PROVE  Busy'
  <2>1. [clients[d] EXCEPT !.phase = phase].executing = clients[d].executing
    BY <1>0 DEF ClientShape
  <2> QED BY <1>0, <1>1, <1>3, <2>1, BusyClient
<1>4. CASE Start(d) \/ Upgrade(d) \/ ConnectFails(d)
  BY <1>3, <1>4 DEF Start, Upgrade, ConnectFails, SetClient
<1>5. CASE Connect(d)
  <2> DEFINE x == [clients[d] EXCEPT !.phase = "connected", !.session = Len(sessions) + 1]
  <2>1. clients' = [clients EXCEPT ![d] = x]
    BY <1>0, <1>5 DEF Connect, ClientsOK, ClientShape
  <2>2. x.executing = clients[d].executing
    BY <1>0 DEF ClientShape
  <2> HIDE DEF x
  <2> QED BY <1>0, <1>1, <2>1, <2>2, BusyClient
<1>6. CASE Pair(d)
  <2> DEFINE x == [Stopped(clients[d]) EXCEPT !.phase = "connecting", !.token = Len(tokens) + 1]
  <2>1. clients' = [clients EXCEPT ![d] = x]
    BY <1>6 DEF Pair, SetClient
  <2>2. x.executing = Nobody
    BY <1>0 DEF Stopped, ClientShape
  <2> HIDE DEF x
  <2> QED BY <1>0, <1>1, <2>1, <2>2, BusyClient
<1>7. CASE Executed(d)
  <2>1. [clients[d] EXCEPT !.executing = Nobody].executing = Nobody
    BY <1>0 DEF ClientShape
  <2> QED BY <1>0, <1>1, <1>7, <2>1, BusyClient DEF Executed, SetClient
<1>8. CASE Stop(d)
  <2>1. Stopped(clients[d]).executing = Nobody
    BY <1>0 DEF Stopped, ClientShape
  <2> QED BY <1>0, <1>1, <1>8, <2>1, BusyClient DEF Stop, SetClient
<1>9. CASE SocketLost(d)
  <2>1. [clients[d] EXCEPT !.phase = "connecting", !.session = 0].executing = clients[d].executing
    BY <1>0 DEF ClientShape
  <2> QED BY <1>0, <1>1, <1>9, <2>1, BusyClient DEF SocketLost, SetClient
<1>10. CASE SendFails(d)
  <2>1. [clients[d] EXCEPT !.phase = "connecting", !.session = 0, !.executing = Nobody].executing
          = Nobody
    BY <1>0 DEF ClientShape
  <2> QED BY <1>0, <1>1, <1>10, <2>1, BusyClient DEF SendFails, SetClient
<1> QED BY <1>1, <1>2, <1>4, <1>5, <1>6, <1>7, <1>8, <1>9, <1>10 DEF ClientFault

LEMMA AppendInbound ==
  ASSUME HubOK, Unique(sessions), NEW s \in 1 .. Len(sessions), NEW frame \in Frame, NEW pend,
         Fields(s, sessions[s].outbound, Append(sessions[s].inbound, frame), pend)
  PROVE  /\ Unique(sessions')
         /\ \A c \in Callers : (frame.kind = "result" /\ frame.caller = c) \/ NoNews(c)
<1> DEFINE new == Append(sessions[s].inbound, frame)
<1>1. Unique(sessions')
  BY UniqueFields
<1>2. sessions[s].inbound \in Seq(Frame) /\ Len(sessions[s].inbound) \in Nat
  BY HubFacts, LenProperties DEF Session
<1>3. /\ Len(new) = Len(sessions[s].inbound) + 1 /\ new[Len(sessions[s].inbound) + 1] = frame
      /\ \A i \in 1 .. Len(sessions[s].inbound) : new[i] = sessions[s].inbound[i]
  BY <1>2, AppendProperties
<1>4. \A i \in 1 .. Len(new) :
        i = Len(sessions[s].inbound) + 1 \/ i \in 1 .. Len(sessions[s].inbound)
  BY <1>2, <1>3
<1> HIDE DEF new
<1>5. ASSUME NEW c \in Callers, ~(frame.kind = "result" /\ frame.caller = c) PROVE NoNews(c)
  <2>1. (\E i \in 1 .. Len(new) : new[i].kind = "result" /\ new[i].caller = c)
          => Resulted(sessions, s, c)
    BY <1>3, <1>4, <1>5 DEF Resulted
  <2>2. Fields(s, sessions[s].outbound, new, pend)
    BY DEF new
  <2> QED BY <2>1, <2>2, FieldsNoNews DEF Queued
<1> QED BY <1>1, <1>5

LEMMA SendReadyServed ==
  ASSUME Typed, Served, NEW d \in Devices, SendReady(d)
  PROVE  Served'
<1> DEFINE s == clients[d].session
           frame == [kind |-> "ready", usb |-> usb[d]]
<1>0. HubOK /\ CallsOK /\ Unique(sessions) /\ Busy
  BY Lengths DEF Served
<1>1. /\ s \in 1 .. Len(sessions) /\ frame \in Frame /\ frame.kind = "ready"
      /\ sessions' = Sends(d, frame)
      /\ UNCHANGED <<calls, answer, ran>>
  BY SendReadySends DEF callVars, deviceVars
<1> HIDE DEF frame
<1>2. Fields(s, sessions[s].outbound, Append(sessions[s].inbound, frame), sessions[s].pending)
  BY <1>0, <1>1, SendsFields
<1>3. Unique(sessions') /\ \A c \in Callers : NoNews(c)
  BY <1>0, <1>1, <1>2, AppendInbound
<1>4. Busy'
  BY <1>0, BusyUnchanged DEF SendReady, deviceVars
<1> QED BY <1>0, <1>1, <1>3, <1>4, ServedAnswered

LEMMA ExecutedServed ==
  ASSUME Typed, Served, NEW d \in Devices, Executed(d)
  PROVE  Served'
<1> DEFINE s == clients[d].session
           c == clients[d].executing
           frame == [kind |-> "result", caller |-> c]
<1>0. HubOK /\ CallsOK /\ Unique(sessions) /\ Busy
  BY Lengths DEF Served
<1>1. /\ s \in 1 .. Len(sessions) /\ frame \in Frame
      /\ sessions' = Sends(d, frame) /\ c \in Callers /\ frame.caller = c
      /\ UNCHANGED <<calls, answer, ran>>
  BY ExecutedSends DEF callVars
<1>2. Fields(s, sessions[s].outbound, Append(sessions[s].inbound, frame), sessions[s].pending)
  BY <1>0, <1>1, SendsFields
<1>3. Unique(sessions') /\ \A k \in Callers : k = c \/ NoNews(k)
  <2>1. Unique(sessions') /\ \A k \in Callers : (frame.kind = "result" /\ frame.caller = k) \/ NoNews(k)
    BY <1>0, <1>1, <1>2, AppendInbound
  <2> QED BY <1>1, <2>1
<1>4. ran[c] = 1
  BY <1>0 DEF Busy, Executed
<1>5. Busy'
  BY <1>0, ClientBusy
<1>6. ServedFor(c, calls[c], answer[c], ran[c], sessions)
  BY <1>1 DEF Served
<1>7. /\ Len(sessions') = Len(sessions)
      /\ \A i \in 1 .. Len(sessions) : /\ sessions'[i].outbound = sessions[i].outbound
                                       /\ sessions'[i].principal = sessions[i].principal
  BY <1>2 DEF Fields, Kept
<1>8. ServedFor(c, calls[c], answer[c], ran[c], sessions')
  <2>1. calls[c].at \in Placed => calls[c].session \in 1 .. Len(sessions)
    BY <1>0, <1>1, PlacedWhere
  <2>2. \A i \in 1 .. Len(sessions) : Queued(sessions', i, c) => Queued(sessions, i, c)
    BY <1>7 DEF Queued
  <2> QED BY <1>4, <1>6, <1>7, <2>1, <2>2 DEF ServedFor
<1>9. \A k \in Callers : ServedFor(k, calls[k], answer[k], ran[k], sessions')
  BY <1>0, <1>3, <1>8, ServedKept DEF Served
<1> QED BY <1>1, <1>3, <1>5, <1>9 DEF Served

(* The head of the queue is carried out: its call was not, and is in no    *)
(* queue any more.                                                         *)
LEMMA ReadInvokeIs ==
  ASSUME Typed, Served, NEW d \in Devices, ReadInvoke(d)
  PROVE  \E c \in Callers :
           /\ c = Head(sessions[clients[d].session].outbound)
           /\ Queued(sessions, clients[d].session, c)
           /\ ran[c] = 0 /\ answer[c] # "refused" /\ calls[c].at \in {"waiting", "gone", "over"}
           /\ ran' = [ran EXCEPT ![c] = 1]
<1> DEFINE s == clients[d].session
           c == Head(sessions[s].outbound)
<1>1. /\ s \in 1 .. Len(sessions) /\ sessions[s].outbound # <<>>
      /\ sessions[s].outbound \in Seq(Callers) /\ c \in Callers
  BY ReadInvokeConsumes
<1>2. Len(sessions[s].outbound) \in Nat \ {0}
  BY <1>1, EmptySeq
<1>3. Queued(sessions, s, c)
  BY <1>1, <1>2 DEF Queued
<1>4. ServedFor(c, calls[c], answer[c], ran[c], sessions)
  BY <1>1 DEF Served
<1>5. ran[c] = 0 /\ answer[c] # "refused" /\ calls[c].at \in {"waiting", "gone", "over"}
  BY <1>1, <1>3, <1>4 DEF ServedFor
<1>6. ran' = [ran EXCEPT ![c] = 1]
  <2>1. ran' = [ran EXCEPT ![c] = @ + 1] /\ ran \in [Callers -> Nat]
    BY ClientFacts DEF ReadInvoke
  <2> QED BY <1>1, <1>5, <2>1
<1> QED BY <1>1, <1>3, <1>5, <1>6

LEMMA ReadInvokeServed ==
  ASSUME Typed, Served, NEW d \in Devices, ReadInvoke(d)
  PROVE  Served'
<1> DEFINE s == clients[d].session
           old == sessions[s].outbound
           new == Tail(old)
<1>0. HubOK /\ CallsOK /\ ClientsOK /\ ran \in [Callers -> Nat] /\ Unique(sessions) /\ Busy
  BY Lengths DEF Served, RestOK
<1>1. /\ s \in 1 .. Len(sessions) /\ old # <<>> /\ old \in Seq(Callers)
      /\ sessions' = Consumed(s) /\ UNCHANGED <<calls, answer>>
  BY ReadInvokeConsumes DEF callVars
<1>2. PICK c \in Callers :
        /\ c = Head(old) /\ ran[c] = 0 /\ answer[c] # "refused"
        /\ calls[c].at \in {"waiting", "gone", "over"}
        /\ ran' = [ran EXCEPT ![c] = 1]
  BY ReadInvokeIs
<1>3. Fields(s, new, sessions[s].inbound, sessions[s].pending)
  BY <1>0, <1>1, ConsumeFields
<1>4. /\ Len(old) \in Nat \ {0} /\ Len(new) = Len(old) - 1 /\ old[1] = c
      /\ \A i \in 1 .. Len(new) : new[i] = old[i + 1]
  <2>1. Len(old) \in Nat \ {0} /\ old[1] = c
    BY <1>1, <1>2, EmptySeq
  <2> HIDE DEF s, old
  <2>2. Len(new) = Len(old) - 1 /\ \A i \in 1 .. Len(new) : new[i] = old[i + 1]
    BY <1>1, HeadTailProperties
  <2> QED BY <2>1, <2>2
<1>5. /\ 1 \in 1 .. Len(old)
      /\ \A i \in 1 .. Len(new) : i + 1 \in 1 .. Len(old) /\ i + 1 # 1
  BY <1>4
<1>6. /\ Len(sessions') = Len(sessions)
      /\ \A t \in 1 .. Len(sessions) :
           /\ sessions'[t].outbound = IF t = s THEN new ELSE sessions[t].outbound
           /\ sessions'[t].inbound = sessions[t].inbound
           /\ sessions'[t].principal = sessions[t].principal
  BY <1>3 DEF Fields, Kept
<1> HIDE DEF new
<1>7. \A k \in Callers : NoNews(k)
  <2> TAKE k \in Callers
  <2>1. (\E i \in 1 .. Len(new) : new[i] = k) => Queued(sessions, s, k)
    BY <1>4, <1>5 DEF Queued
  <2> QED BY <1>0, <1>3, <2>1, FieldsNoNews DEF Resulted
<1>8. \A t \in 1 .. Len(sessions) : ~Queued(sessions', t, c)
  <2> TAKE t \in 1 .. Len(sessions)
  <2>1. CASE t = s
    <3>1. ASSUME NEW i \in 1 .. Len(new) PROVE new[i] # c
      <4>1. i + 1 \in 1 .. Len(old) /\ i + 1 # 1 /\ new[i] = old[i + 1] /\ 1 \in 1 .. Len(old)
        BY <1>4, <1>5
      <4>2. old[i + 1] = old[1] => i + 1 = 1
        BY <1>0, <1>1, <4>1, UniqueAt
      <4> QED BY <1>4, <4>1, <4>2
    <3> QED BY <1>6, <2>1, <3>1 DEF Queued
  <2>2. CASE t # s
    <3>1. \A i \in 1 .. Len(sessions[t].outbound) : sessions[t].outbound[i] # c
      BY <1>0, <1>1, <1>4, <1>5, <2>2 DEF Unique
    <3> QED BY <1>6, <2>2, <3>1 DEF Queued
  <2> QED BY <2>1, <2>2
<1>9. Unique(sessions')
  <2>1. SUFFICES ASSUME NEW a \in 1 .. Len(sessions), NEW b \in 1 .. Len(sessions),
                        NEW i \in 1 .. Len(sessions'[a].outbound),
                        NEW j \in 1 .. Len(sessions'[b].outbound),
                        sessions'[a].outbound[i] = sessions'[b].outbound[j]
                 PROVE  a = b /\ i = j
    BY <1>6 DEF Unique
  <2>2. PICK m \in 1 .. Len(sessions[a].outbound) :
          /\ sessions'[a].outbound[i] = sessions[a].outbound[m]
          /\ m = IF a = s THEN i + 1 ELSE i
    BY <1>4, <1>5, <1>6, <2>1
  <2>3. PICK n \in 1 .. Len(sessions[b].outbound) :
          /\ sessions'[b].outbound[j] = sessions[b].outbound[n]
          /\ n = IF b = s THEN j + 1 ELSE j
    BY <1>4, <1>5, <1>6, <2>1
  <2>4. sessions[a].outbound[m] = sessions[b].outbound[n]
    BY <2>1, <2>2, <2>3, Zenon
  <2>5. a = b /\ m = n
    BY <1>0, <2>4, UniqueAt
  <2>6. i \in Nat /\ j \in Nat
    BY <2>1
  <2> QED BY <2>2, <2>3, <2>5, <2>6
<1>10. \A k \in Callers : ran'[k] = IF k = c THEN 1 ELSE ran[k]
  BY <1>0, <1>2
<1>11. \A k \in Callers : ServedFor(k, calls'[k], answer'[k], ran'[k], sessions')
  <2> TAKE k \in Callers
  <2>1. ServedFor(k, calls[k], answer[k], ran[k], sessions')
    BY <1>0, <1>7, ServedKept DEF Served
  <2>2. CASE k # c
    BY <1>1, <1>10, <2>1, <2>2
  <2>3. CASE k = c
    <3>1. ran'[k] = 1
      BY <1>10, <2>3
    <3> QED BY <1>1, <1>2, <1>6, <1>8, <2>1, <2>3, <3>1 DEF ServedFor
  <2> QED BY <2>2, <2>3
<1>12. Busy'
  <2>1. /\ \A k \in Devices : k # d => clients'[k] = clients[k]
        /\ clients'[d].executing = c
    BY <1>0, <1>2 DEF ReadInvoke, SetClient, ClientsOK, ClientShape
  <2>2. \A k \in Devices : clients[k].executing # Nobody => clients[k].executing \in Callers
    BY <1>0 DEF ClientsOK, ClientShape
  <2> QED BY <1>0, <1>10, <2>1, <2>2 DEF Busy
<1> QED BY <1>9, <1>11, <1>12 DEF Served

LEMMA ConnectServed ==
  ASSUME Typed, Served, NEW d \in Devices, Connect(d)
  PROVE  Served'
<1> DEFINE old == connections[d]
           n == Len(sessions) + 1
           x == NewSession(d)
<1>0. HubOK /\ CallsOK /\ RestOK /\ Unique(sessions) /\ Busy /\ Len(sessions) \in Nat
  BY Lengths DEF Served
<1>1. Appended(old, x)
  BY ConnectEffect
<1>2. \A i \in 1 .. Len(<<>>) : FALSE
  BY EmptySeq
<1>3. x.outbound = <<>> /\ x.inbound = <<>>
  BY DEF NewSession
<1> HIDE DEF x
<1>4. \A i \in 1 .. Len(sessions) :
        /\ sessions'[i].outbound = sessions[i].outbound
        /\ sessions'[i].inbound = sessions[i].inbound
        /\ sessions'[i].principal = sessions[i].principal
        /\ i \in 1 .. n
  <2> TAKE i \in 1 .. Len(sessions)
  <2>1. sessions[i] \in Session
    BY <1>0, HubFacts
  <2>2. i \in 1 .. n
    BY <1>0
  <2> QED BY <1>1, <2>1, <2>2 DEF Appended, Session
<1>5. /\ Len(sessions') = n /\ sessions'[n] = x
      /\ \A i \in 1 .. n : i = n \/ i \in 1 .. Len(sessions)
  BY <1>0, <1>1 DEF Appended
<1> HIDE DEF n
<1>6. Unique(sessions')
  <2>1. \A i \in 1 .. n : \A k \in 1 .. Len(sessions'[i].outbound) :
          i \in 1 .. Len(sessions) /\ sessions'[i].outbound = sessions[i].outbound
    BY <1>2, <1>3, <1>4, <1>5
  <2>2. SUFFICES ASSUME NEW a \in 1 .. n, NEW b \in 1 .. n,
                        NEW i \in 1 .. Len(sessions'[a].outbound),
                        NEW j \in 1 .. Len(sessions'[b].outbound),
                        sessions'[a].outbound[i] = sessions'[b].outbound[j]
                 PROVE  a = b /\ i = j
    BY <1>5 DEF Unique
  <2>3. /\ a \in 1 .. Len(sessions) /\ sessions'[a].outbound = sessions[a].outbound
        /\ b \in 1 .. Len(sessions) /\ sessions'[b].outbound = sessions[b].outbound
    BY <2>1
  <2>4. sessions[a].outbound[i] = sessions[b].outbound[j]
    BY <2>2, <2>3, Zenon
  <2> QED BY <1>0, <2>2, <2>3, <2>4, UniqueAt
<1>7. ASSUME NEW c \in Callers PROVE NoNews(c)
  <2>1. ASSUME NEW i \in 1 .. n, Queued(sessions', i, c)
        PROVE  i \in 1 .. Len(sessions) /\ Queued(sessions, i, c)
    BY <1>2, <1>3, <1>4, <1>5, <2>1 DEF Queued
  <2>2. ASSUME NEW i \in 1 .. n, Resulted(sessions', i, c)
        PROVE  i \in 1 .. Len(sessions) /\ Resulted(sessions, i, c)
    BY <1>2, <1>3, <1>4, <1>5, <2>2 DEF Resulted
  <2> QED BY <1>4, <1>5, <2>1, <2>2 DEF NoNews
<1>8. UNCHANGED <<calls, ran>>
  BY DEF Connect
<1>9. Busy'
  BY <1>0, ClientBusy
<1>10. \A c \in Callers : answer'[c] = answer[c] \/ answer'[c] # "refused"
  BY LostAnswers DEF Connect
<1> QED BY <1>0, <1>6, <1>7, <1>8, <1>9, <1>10, ServedAnswered

LEMMA ClientServed ==
  ASSUME Typed, Served, NEW d \in Devices, ClientStep(d) \/ ClientFault(d)
  PROVE  Served'
<1>0. HubOK /\ CallsOK /\ Unique(sessions) /\ Busy
  BY Lengths DEF Served
<1>1. CASE SendReady(d) \/ Executed(d) \/ ReadInvoke(d) \/ Connect(d)
  BY <1>1, SendReadyServed, ExecutedServed, ReadInvokeServed, ConnectServed
<1>2. CASE Pair(d) \/ Stop(d) \/ SocketLost(d) \/ SendFails(d)
  <2>1. Leave(d) /\ UNCHANGED <<calls, answer, ran>>
    BY <1>2 DEF Pair, Stop, SocketLost, SendFails, callVars
  <2>2. Busy'
    BY <1>0, <1>2, ClientBusy DEF ClientFault
  <2> QED BY <1>0, <2>1, <2>2, LeaveCuts, ServedAnswered
<1>3. CASE Start(d) \/ Upgrade(d) \/ ConnectFails(d) \/ UsbChanges(d)
  <2>1. UNCHANGED <<sessions, calls, answer, ran>>
    BY <1>3 DEF Start, Upgrade, ConnectFails, UsbChanges, hubVars, callVars
  <2>2. Busy'
    BY <1>0, <1>3, ClientBusy DEF ClientFault
  <2>3. Unique(sessions') /\ \A c \in Callers : NoNews(c)
    BY <1>0, <2>1, NoNewsUnchanged
  <2> QED BY <1>0, <2>1, <2>2, <2>3, ServedAnswered
<1> QED BY <1>1, <1>2, <1>3 DEF ClientStep, ClientFault

LEMMA ServedAside ==
  ASSUME Typed, Served, UNCHANGED <<hubVars, callVars, clients, ran>>
  PROVE  Served'
BY DEF Served, Busy, hubVars, callVars

LEMMA ServedStep ==
  ASSUME Typed, Waits, Served, [Next]_vars
  PROVE  Served'
<1>0. DOMAIN sessions = 1 .. Len(sessions)
  BY Lengths, HubFacts
<1>1. CASE PairingStep \/ Revocation \/ UNCHANGED vars
  BY <1>1, ServedAside DEF PairingStep, Revocation, vars, deviceVars
<1>2. CASE \E c \in Callers : CallStep(c) \/ Abandon(c)
  BY <1>2, ChooseServed, InsertServed, SendServed, ReturnServed DEF CallStep
<1>3. CASE \E s \in DOMAIN sessions : SessionStep(s) \/ SocketEnds(s)
  BY <1>0, <1>3, SessionServed
<1>4. CASE \E d \in Devices : ClientStep(d) \/ ClientFault(d)
  BY <1>4, ClientServed
<1> QED BY <1>1, <1>2, <1>3, <1>4 DEF Next, Step, Event

LEMMA ServedInit ==
  ASSUME Init
  PROVE  Served
<1>1. Len(sessions) = 0
  BY EmptySeq DEF Init
<1>2. Idle.at = "idle"
  BY IdleIs DEF IdleShape
<1>3. \A c \in Callers : calls[c].at = "idle" /\ answer[c] = "none" /\ ran[c] = 0
  BY <1>2 DEF Init
<1>4. \A d \in Devices : clients[d].executing = Nobody
  BY DEF Init, Unpaired
<1> QED BY <1>1, <1>3, <1>4 DEF Served, ServedFor, Unique, Busy, Placed

LEMMA ServedAlways ==
  Spec => []Served
<1>1. Init => Served
  BY ServedInit
<1>2. Typed /\ Waits /\ Served /\ [Next]_vars => Served'
  BY ServedStep
<1> QED BY <1>1, <1>2, TypedAlways, WaitsAlways, PTL DEF Spec

LEMMA ServedOwn ==
  ASSUME HubOK, Served
  PROVE  RequestsReachOwnDevice
<1>1. DOMAIN sessions = 1 .. Len(sessions)
  BY HubFacts
<1>2. SUFFICES ASSUME NEW s \in 1 .. Len(sessions), NEW i \in DOMAIN sessions[s].outbound
               PROVE  calls[sessions[s].outbound[i]].principal = sessions[s].principal
  BY <1>1 DEF RequestsReachOwnDevice
<1>3. sessions[s].outbound \in Seq(Callers)
  BY HubFacts DEF Session
<1>4. i \in 1 .. Len(sessions[s].outbound) /\ sessions[s].outbound[i] \in Callers
  BY <1>3, LenProperties, ElementOfSeq
<1>5. Queued(sessions, s, sessions[s].outbound[i])
  BY <1>4 DEF Queued
<1> QED BY <1>4, <1>5 DEF Served, ServedFor

(* A request waits for a device only in a session of the caller's own      *)
(* principal, also while devices are paired again, to others               *)
(* (RelayHub::dispatch_policy).                                            *)
THEOREM OwnDeviceTheorem ==
  Spec => []RequestsReachOwnDevice
<1>1. Typed /\ Served => RequestsReachOwnDevice
  BY ServedOwn DEF Typed
<1> QED BY <1>1, TypedAlways, ServedAlways, PTL

-----------------------------------------------------------------------------
(***************************************************************************)
(* Every call is a remote call                                             *)
(***************************************************************************)
Tells == [Remote!RemoteNext]_<<answer, ran>>

LEMMA LoseTells ==
  ASSUME RestOK, NEW S, answer' = Lost(S), UNCHANGED ran
  PROVE  Tells
<1> DEFINE lost == {c \in Callers : answer[c] = "none" /\ c \in S}
<1>1. lost \in SUBSET {c \in Callers : answer[c] = "none"}
  OBVIOUS
<1>2. answer' = [c \in Callers |-> IF c \in lost THEN "lost" ELSE answer[c]]
  BY DEF Lost
<1> HIDE DEF lost
<1>3. Remote!Lose
  BY <1>1, <1>2 DEF Remote!Lose
<1> QED BY <1>3 DEF Tells, Remote!RemoteNext

LEMMA SilentTells ==
  ASSUME UNCHANGED <<answer, ran>>
  PROVE  Tells
BY DEF Tells

LEMMA RefuseTells ==
  ASSUME Typed, Waits, Served, NEW c \in Callers, calls[c].at \in {"idle", "chosen"}, Refuse(c),
         UNCHANGED ran
  PROVE  Tells
<1>1. answer[c] = "none" /\ ran[c] = 0
  BY DEF Waits, WaitsFor, Served, ServedFor
<1>2. answer' = [answer EXCEPT ![c] = "refused"]
  BY DEF Refuse
<1>3. Remote!Answer(c, "refused")
  BY <1>1, <1>2 DEF Remote!Answer
<1> QED BY <1>3 DEF Tells, Remote!RemoteNext

LEMMA CallTells ==
  ASSUME Typed, Waits, Served, NEW c \in Callers, CallStep(c) \/ Abandon(c)
  PROVE  Tells
<1>0. RestOK
  BY Lengths
<1>1. UNCHANGED ran
  BY DEF CallStep, Abandon, Choose, Lookup, Insert, Send, Returns, TimesOut, deviceVars
<1>2. CASE Lookup(c) \/ \E p \in Principals, reset \in BOOLEAN : Choose(c, p, reset)
  <2>1. calls[c].at \in {"idle", "chosen"} /\ (UNCHANGED answer \/ Refuse(c))
    BY <1>2, ChooseIs, LookupIs
  <2> QED BY <1>1, <2>1, SilentTells, RefuseTells
<1>3. CASE Insert(c) \/ Returns(c)
  BY <1>1, <1>3, SilentTells DEF Insert, Returns
<1>4. CASE Send(c) \/ TimesOut(c) \/ Abandon(c)
  <2>1. UNCHANGED answer \/ answer' = Lost({c})
    BY <1>4 DEF Send, TimesOut, Abandon
  <2> QED BY <1>0, <1>1, <2>1, SilentTells, LoseTells
<1> QED BY <1>2, <1>3, <1>4 DEF CallStep

LEMMA SessionTells ==
  ASSUME Typed, Served, NEW s \in 1 .. Len(sessions), SessionStep(s) \/ SocketEnds(s)
  PROVE  Tells
<1>0. RestOK /\ HubOK
  BY Lengths
<1>1. UNCHANGED ran
  BY DEF SessionStep, AcceptReady, AcceptResult, FailAll, DropReceiver, SocketEnds, deviceVars
<1>2. CASE AcceptReady(s) \/ DropReceiver(s) \/ SocketEnds(s)
  BY <1>1, <1>2, SilentTells DEF AcceptReady, DropReceiver, SocketEnds, callVars
<1>3. CASE FailAll(s)
  BY <1>0, <1>1, <1>3, LoseTells DEF FailAll
<1>4. CASE AcceptResult(s)
  <2>1. PICK c \in Callers :
          /\ c = Head(sessions[s].inbound).caller
          /\ Head(sessions[s].inbound).kind = "result" /\ sessions[s].inbound # <<>>
          /\ IF c \in sessions[s].pending /\ answer[c] = "none"
               THEN answer' = [answer EXCEPT ![c] = "done"] ELSE answer' = answer
    BY <1>4, AcceptResultIs
  <2>2. Resulted(sessions, s, c)
    <3>1. sessions[s].inbound \in Seq(Frame)
      BY <1>0, HubFacts DEF Session
    <3>2. 1 \in 1 .. Len(sessions[s].inbound)
      BY <2>1, <3>1, EmptySeq
    <3> QED BY <2>1, <3>1, <3>2 DEF Resulted
  <2>3. ran[c] = 1
    BY <2>2 DEF Served, ServedFor
  <2>4. CASE answer' = answer
    BY <1>1, <2>4, SilentTells
  <2>5. CASE answer[c] = "none" /\ answer' = [answer EXCEPT ![c] = "done"]
    <3>1. Remote!Answer(c, "done")
      BY <1>1, <2>3, <2>5 DEF Remote!Answer
    <3> QED BY <3>1 DEF Tells, Remote!RemoteNext
  <2> QED BY <2>1, <2>4, <2>5
<1> QED BY <1>2, <1>3, <1>4 DEF SessionStep

LEMMA ClientTells ==
  ASSUME Typed, Served, NEW d \in Devices, ClientStep(d) \/ ClientFault(d)
  PROVE  Tells
<1>0. RestOK /\ Busy
  BY Lengths DEF Served
<1>1. CASE ReadInvoke(d)
  <2>1. PICK c \in Callers : ran[c] = 0 /\ answer[c] # "refused" /\ ran' = [ran EXCEPT ![c] = 1]
    BY <1>1, ReadInvokeIs
  <2>2. UNCHANGED answer
    BY <1>1 DEF ReadInvoke, callVars
  <2>3. Remote!Run(c)
    BY <2>1, <2>2 DEF Remote!Run
  <2> QED BY <2>3 DEF Tells, Remote!RemoteNext
<1>2. CASE Connect(d)
  <2>1. UNCHANGED ran
    BY <1>2 DEF Connect
  <2>2. UNCHANGED answer \/ answer' = Lost(sessions[connections[d]].pending)
    BY <1>2 DEF Connect
  <2> QED BY <1>0, <2>1, <2>2, SilentTells, LoseTells
<1>3. CASE \/ Start(d) \/ Pair(d) \/ Upgrade(d) \/ SendReady(d) \/ Executed(d)
           \/ ClientFault(d)
  <2>1. UNCHANGED ran
    BY <1>0, <1>3, ClientBusy
  <2>2. UNCHANGED answer
    BY <1>3 DEF Start, Pair, Upgrade, SendReady, Executed, ClientFault, Stop, ConnectFails,
                SocketLost, SendFails, UsbChanges, callVars
  <2> QED BY <2>1, <2>2, SilentTells
<1> QED BY <1>1, <1>2, <1>3 DEF ClientStep

LEMMA StepTells ==
  ASSUME Typed, Waits, Served, [Next]_vars
  PROVE  Tells
<1>0. DOMAIN sessions = 1 .. Len(sessions)
  BY Lengths, HubFacts
<1>1. CASE PairingStep \/ Revocation \/ UNCHANGED vars
  BY <1>1, SilentTells DEF PairingStep, Revocation, vars, callVars, deviceVars
<1>2. CASE \E c \in Callers : CallStep(c) \/ Abandon(c)
  BY <1>2, CallTells
<1>3. CASE \E s \in DOMAIN sessions : SessionStep(s) \/ SocketEnds(s)
  BY <1>0, <1>3, SessionTells
<1>4. CASE \E d \in Devices : ClientStep(d) \/ ClientFault(d)
  BY <1>4, ClientTells
<1> QED BY <1>1, <1>2, <1>3, <1>4 DEF Next, Step, Event

(* For its caller every call of the relay is a remote call as RemoteCall   *)
(* has it: refused and never carried out, done and carried out once, or    *)
(* lost, and carried out once at most (RelayHub, run_device_client).       *)
THEOREM RemoteCallTheorem ==
  Spec => CallsAreRemoteCalls
<1>1. Init => Remote!RemoteInit
  BY DEF Init, Remote!RemoteInit
<1>2. Typed /\ Waits /\ Served /\ [Next]_vars => [Remote!RemoteNext]_(Remote!remoteVars)
  BY StepTells DEF Tells, Remote!remoteVars
<1> QED BY <1>1, <1>2, TypedAlways, WaitsAlways, ServedAlways, PTL
        DEF Spec, CallsAreRemoteCalls, Remote!RemoteSpec

(* The counters of the model, and a call that is carried out once at most. *)
Counted == ran \in [Callers -> 0..1] /\ events \in 0..MaxEvents

LEMMA CountedStep ==
  ASSUME Typed, Waits, Served, Counted, [Next]_vars
  PROVE  Counted'
<1>1. ran' \in [Callers -> 0..1]
  <2>1. CASE UNCHANGED ran
    BY <2>1 DEF Counted
  <2>2. CASE \E c \in Callers : Remote!Run(c)
    BY <2>2 DEF Remote!Run, Counted
  <2>3. Tells
    BY StepTells
  <2> QED BY <2>1, <2>2, <2>3 DEF Tells, Remote!RemoteNext, Remote!Answer, Remote!Lose
<1>2. events' \in 0..MaxEvents
  <2>1. CASE UNCHANGED events
    BY <2>1 DEF Counted
  <2>2. CASE events < MaxEvents /\ events' = events + 1
    BY <2>2, RelayAssumption DEF Counted
  <2> QED BY <2>1, <2>2 DEF Next, vars
<1> QED BY <1>1, <1>2 DEF Counted

LEMMA TypedIsTypeOK ==
  ASSUME Typed, Counted
  PROVE  TypeOK
<1>0. /\ Len(sessions) \in Nat /\ Len(tokens) \in Nat
      /\ HubOK /\ Paired /\ PairingTypeOK /\ CallsOK /\ ClientsOK /\ RestOK
      /\ Cardinality(offers) \in Nat /\ Cardinality(redeeming) \in Nat
      /\ MaxOffers \in Nat /\ MaxSessions \in Nat
  BY Lengths, FS_CardinalityType, RelayAssumption DEF Paired
<1>1. 0 .. Len(sessions) \subseteq SessionIds
  BY <1>0 DEF HubOK, SessionIds
<1>2. 0 .. Len(tokens) \subseteq 0 .. MaxOffers
  BY <1>0 DEF Paired
<1>3. CallShape \subseteq Call
  BY <1>1 DEF CallShape, Call, Places
<1>4. ClientShape \subseteq Client
  BY <1>1, <1>2 DEF ClientShape, Client, Phases
<1>5. calls \in [Callers -> Call]
  BY <1>0, <1>3 DEF CallsOK
<1>6. clients \in [Devices -> Client]
  BY <1>0, <1>4 DEF ClientsOK
<1> QED BY <1>0, <1>5, <1>6 DEF TypeOK, HubOK, RestOK, Counted

(* The types of the relay's state, the tokens and the sessions within      *)
(* their bounds, and no call carried out twice.                            *)
THEOREM RelayTypeTheorem ==
  Spec => []TypeOK
<1>1. Init => Counted
  BY RelayAssumption DEF Init, Counted
<1>2. Typed /\ Waits /\ Served /\ Counted /\ [Next]_vars => Counted'
  BY CountedStep
<1>3. Typed /\ Counted => TypeOK
  BY TypedIsTypeOK
<1> QED BY <1>1, <1>2, <1>3, TypedAlways, WaitsAlways, ServedAlways, PTL DEF Spec

=============================================================================
