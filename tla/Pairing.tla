------------------------------ MODULE Pairing ------------------------------
(***************************************************************************)
(* Who may use which device (services/qc-relay/src/pairing.rs).  A         *)
(* principal is given a secret, a device redeems it for a token.  To       *)
(* redeem takes two steps, each under a lock of its own: the offer is      *)
(* consumed, then the token is issued.                                     *)
(***************************************************************************)
EXTENDS Naturals, Sequences, FiniteSets

CONSTANTS
    Devices,
    Principals,
    MaxOffers    \* tokens that are issued

VARIABLES
    offers,     \* PairingState.offers: the open ones
    redeeming,  \* redeemed, and no token issued yet
    grants,     \* CredentialState.devices
    tokens      \* CredentialState.tokens, in the order of their issue

pairingVars == <<offers, redeeming, grants, tokens>>

Nobody == "nobody"
Secrets == 1..MaxOffers
Grant == [principal : Principals \cup {Nobody}, revoked : BOOLEAN]
Token == [device : Devices, principal : Principals, revoked : BOOLEAN]

PairingTypeOK ==
    /\ offers \subseteq [secret : Secrets, principal : Principals]
    /\ redeeming \subseteq [device : Devices, secret : Secrets, principal : Principals]
    /\ grants \in [Devices -> Grant]
    /\ tokens \in Seq(Token)

PairingInit ==
    /\ offers = {}
    /\ redeeming = {}
    /\ grants = [d \in Devices |-> [principal |-> Nobody, revoked |-> FALSE]]
    /\ tokens = <<>>

CreateOffer(p) ==
    /\ Cardinality(offers) + Cardinality(redeeming) + Len(tokens) < MaxOffers
    /\ \E secret \in Secrets \ {o.secret : o \in offers \cup redeeming} :
         /\ \A other \in Secrets \ {o.secret : o \in offers \cup redeeming} : secret <= other
         /\ offers' = offers \cup {[secret |-> secret, principal |-> p]}
    /\ UNCHANGED <<redeeming, grants, tokens>>

OfferExpires(offer) ==
    /\ offers' = offers \ {offer}
    /\ UNCHANGED <<redeeming, grants, tokens>>

(* redeem: the offer is removed, whoever asks next finds none.             *)
Redeem(d, offer) ==
    /\ offers' = offers \ {offer}
    /\ redeeming' = redeeming \cup
                       {[device |-> d, secret |-> offer.secret, principal |-> offer.principal]}
    /\ UNCHANGED <<grants, tokens>>

RevokedFor(d) ==
    [i \in DOMAIN tokens |->
        [tokens[i] EXCEPT !.revoked = @ \/ tokens[i].device = d]]

(* issue: every older token of the device is revoked.                      *)
Issue(r) ==
    /\ redeeming' = redeeming \ {r}
    /\ grants' = [grants EXCEPT ![r.device] = [principal |-> r.principal, revoked |-> FALSE]]
    /\ tokens' = Append(RevokedFor(r.device),
                        [device |-> r.device, principal |-> r.principal, revoked |-> FALSE])
    /\ UNCHANGED offers

RevokeDevice(p, d) ==
    /\ grants[d].principal = p
    /\ ~grants[d].revoked
    /\ grants' = [grants EXCEPT ![d].revoked = TRUE]
    /\ tokens' = RevokedFor(d)
    /\ UNCHANGED <<offers, redeeming>>

(* validate and authorize *)
Valid(token) ==
    /\ token \in DOMAIN tokens
    /\ ~tokens[token].revoked
    /\ ~grants[tokens[token].device].revoked
    /\ grants[tokens[token].device].principal = tokens[token].principal

Authorized(p, d) == grants[d].principal = p /\ ~grants[d].revoked

=============================================================================
