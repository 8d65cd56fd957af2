------------------------------- MODULE Relay -------------------------------
(***************************************************************************)
(* The public relay (services/qc-relay/src/relay.rs, web.rs), the device's *)
(* end of it (packages/rust/qc-relay-client/src/lib.rs) and its owner in   *)
(* the Windows application (src-tauri/src/relay.rs).                       *)
(*                                                                         *)
(* A device connects a socket; the hub keeps one session per device, the   *)
(* one connected last.  A call looks the session up, then waits in its     *)
(* pending map, then sends, each step under another lock.  The device's    *)
(* client reads one request, carries it out and answers before it reads    *)
(* the next.                                                               *)
(***************************************************************************)
EXTENDS Pairing, FiniteSets

CONSTANTS
    Callers,      \* calls of the public interface; each is made once
    MaxSessions,  \* sockets that are connected
    MaxEvents     \* things that happen to the devices, the sockets and the callers

ASSUME RelayAssumption ==
    /\ Nobody \notin Principals
    /\ {MaxOffers, MaxSessions, MaxEvents} \subseteq Nat

VARIABLES
    connections,  \* HubInner.connections: the session of a device, 0: none
    sessions,     \* the sessions, in the order they connected
    calls,        \* the calls: where each is, and what it holds
    answer,       \* what each was answered
    ran,          \* history: how often a device began to carry out each call
    clients,      \* the relay client of each device
    usb,          \* the adapter is ready
    events        \* such things so far

hubVars == <<connections, sessions>>
callVars == <<calls, answer>>
deviceVars == <<clients, usb, ran>>
vars == <<pairingVars, hubVars, callVars, deviceVars, events>>

-----------------------------------------------------------------------------
SessionIds == 0..MaxSessions

(* A request of a caller, or a readiness frame.                            *)
Frame == [kind : {"result"}, caller : Callers] \cup [kind : {"ready"}, usb : BOOLEAN]

(* The task of a session runs until its socket ends; then it takes the     *)
(* session off the map, fails what waits, and drops the receiver.          *)
Session ==
    [device : Devices, principal : Principals, ready : BOOLEAN,
     task : {"running", "failing", "dropping", "ended"},
     outbound : Seq(Callers), inbound : Seq(Frame), pending : SUBSET Callers]

Call ==
    [at : {"idle", "chosen", "looked", "inserted", "waiting", "gone", "over"},
     principal : Principals \cup {Nobody}, reset : BOOLEAN,
     device : Devices \cup {Nobody}, session : SessionIds]

Client ==
    [phase : {"stopped", "connecting", "upgrading", "connected", "pairing_required"},
     token : 0..MaxOffers, session : SessionIds, executing : Callers \cup {Nobody}]

TypeOK ==
    /\ PairingTypeOK
    /\ sessions \in Seq(Session) /\ Len(sessions) <= MaxSessions
    /\ connections \in [Devices -> 0..Len(sessions)]
    /\ calls \in [Callers -> Call]
    /\ answer \in [Callers -> {"none", "refused", "lost", "done"}]
    /\ ran \in [Callers -> 0..1]
    /\ clients \in [Devices -> Client]
    /\ usb \in [Devices -> BOOLEAN]
    /\ events \in 0..MaxEvents

Idle == [at |-> "idle", principal |-> Nobody, reset |-> FALSE, device |-> Nobody, session |-> 0]

Unpaired == [phase |-> "stopped", token |-> 0, session |-> 0, executing |-> Nobody]

Init ==
    /\ PairingInit
    /\ connections = [d \in Devices |-> 0] /\ sessions = <<>>
    /\ calls = [c \in Callers |-> Idle] /\ answer = [c \in Callers |-> "none"]
    /\ ran = [c \in Callers |-> 0]
    /\ clients = [d \in Devices |-> Unpaired]
    /\ usb = [d \in Devices |-> FALSE] /\ events = 0

-----------------------------------------------------------------------------
(***************************************************************************)
(* Calls                                                                   *)
(***************************************************************************)
Move(c, at) == calls' = [calls EXCEPT ![c].at = at]

(* Of a call that is over only its principal is of interest.               *)
Over(c) ==
    calls' = [calls EXCEPT ![c] = [Idle EXCEPT !.at = "over",
                                                !.principal = calls[c].principal]]

Refuse(c) ==
    /\ Over(c)
    /\ answer' = [answer EXCEPT ![c] = "refused"]

(* device_for_principal: a reset does not need the device to be ready.     *)
Candidates(p, reset) ==
    {d \in Devices :
        /\ connections[d] # 0
        /\ sessions[connections[d]].principal = p
        /\ reset \/ sessions[connections[d]].ready}

Choose(c, p, reset) ==
    /\ calls[c].at = "idle"
    /\ \/ \E d \in Devices :
            /\ Candidates(p, reset) = {d} /\ Authorized(p, d)
            /\ calls' = [calls EXCEPT ![c] = [@ EXCEPT !.at = "chosen", !.principal = p,
                                                       !.reset = reset, !.device = d]]
            /\ UNCHANGED answer
       \/ /\ \A d \in Devices : Candidates(p, reset) = {d} => ~Authorized(p, d)
          /\ Refuse(c)
    /\ UNCHANGED <<pairingVars, hubVars, deviceVars>>

CanDispatchToAny(c, s) == s # 0 /\ (sessions[s].ready \/ calls[c].reset)

(* dispatch_policy: the session is cloned out of the map.                  *)
CanDispatch(c, s) ==
    /\ s # 0
    /\ sessions[s].principal = calls[c].principal
    /\ sessions[s].ready \/ calls[c].reset

Lookup(c) ==
    LET s == connections[calls[c].device] IN
    /\ calls[c].at = "chosen"
    /\ \/ /\ CanDispatch(c, s)
          /\ calls' = [calls EXCEPT ![c] = [Idle EXCEPT !.at = "looked", !.session = s,
                                                       !.principal = calls[c].principal]]
          /\ UNCHANGED answer
       \/ ~CanDispatch(c, s) /\ Refuse(c)
    /\ UNCHANGED <<pairingVars, hubVars, deviceVars>>

Insert(c) ==
    /\ calls[c].at = "looked"
    /\ Move(c, "inserted")
    /\ sessions' = [sessions EXCEPT ![calls[c].session].pending = @ \cup {c}]
    /\ UNCHANGED <<pairingVars, connections, answer, deviceVars>>

ForgottenNever(c, s) == sessions

(* The entry of a call that is over for its caller must not stay.          *)
Forgotten(c, s) == [sessions EXCEPT ![s].pending = @ \ {c}]

Lost(callers) ==
    [c \in Callers |-> IF c \in callers /\ answer[c] = "none" THEN "lost" ELSE answer[c]]

(* What goes to a socket its client has left is not read any more.         *)
Attached(s) == \E d \in Devices : clients[d].session = s

Send(c) ==
    LET s == calls[c].session IN
    /\ calls[c].at = "inserted"
    /\ \/ /\ sessions[s].task # "ended"
          /\ sessions' = IF Attached(s) THEN [sessions EXCEPT ![s].outbound = Append(@, c)]
                                        ELSE sessions
          /\ Move(c, "waiting")
          /\ UNCHANGED answer
       \/ /\ sessions[s].task = "ended"
          /\ sessions' = Forgotten(c, s)
          /\ Over(c)
          /\ answer' = Lost({c})
    /\ UNCHANGED <<pairingVars, connections, deviceVars>>

(* What the session sent through the call's channel is taken.              *)
Returns(c) ==
    /\ calls[c].at = "waiting" /\ answer[c] # "none"
    /\ Over(c)
    /\ UNCHANGED <<pairingVars, hubVars, answer, deviceVars>>

TimesOut(c) ==
    /\ calls[c].at = "waiting" /\ answer[c] = "none"
    /\ Over(c)
    /\ sessions' = Forgotten(c, calls[c].session)
    /\ answer' = Lost({c})
    /\ UNCHANGED <<pairingVars, connections, deviceVars>>

(* The caller closes its connection: the call is dropped where it waits,   *)
(* and its entry stays.                                                    *)
Abandon(c) ==
    /\ calls[c].at = "waiting"
    /\ Move(c, "gone")
    /\ answer' = Lost({c})
    /\ UNCHANGED <<pairingVars, hubVars, deviceVars>>

-----------------------------------------------------------------------------
(***************************************************************************)
(* Sessions                                                                *)
(***************************************************************************)

(* fail_all: whoever waits is told, whoever inserts later is not.          *)
Drained(s) == [sessions EXCEPT ![s].pending = {}]

NewSession(d) ==
    [device |-> d, principal |-> tokens[clients[d].token].principal, ready |-> FALSE,
     task |-> "running", outbound |-> <<>>, inbound |-> <<>>, pending |-> {}]

(* hub.connect: the device is known by its new session, and the calls that *)
(* wait for the old one are over.                                          *)
Connect(d) ==
    LET old == connections[d] IN
    /\ clients[d].phase = "upgrading"
    /\ Len(sessions) < MaxSessions
    /\ sessions' = Append(IF old = 0 THEN sessions ELSE Drained(old), NewSession(d))
    /\ connections' = [connections EXCEPT ![d] = Len(sessions) + 1]
    /\ answer' = IF old = 0 THEN answer ELSE Lost(sessions[old].pending)
    /\ clients' = [clients EXCEPT ![d].phase = "connected", ![d].session = Len(sessions) + 1]
    /\ UNCHANGED <<pairingVars, calls, usb, ran>>

(* device_socket takes the next frame of the device: accept.               *)
AcceptReady(s) ==
    /\ sessions[s].task = "running" /\ sessions[s].inbound # <<>>
    /\ LET frame == Head(sessions[s].inbound) IN
       /\ frame.kind = "ready"
       /\ sessions' = [sessions EXCEPT ![s].ready = frame.usb, ![s].inbound = Tail(@)]
    /\ UNCHANGED <<pairingVars, connections, callVars, deviceVars>>

TakenResult(s, c) == [sessions EXCEPT ![s].inbound = Tail(@), ![s].pending = @ \ {c}]

AcceptResult(s) ==
    /\ sessions[s].task = "running" /\ sessions[s].inbound # <<>>
    /\ LET frame == Head(sessions[s].inbound) IN
       /\ frame.kind = "result"
       /\ sessions' = TakenResult(s, frame.caller)
       /\ answer' = IF frame.caller \in sessions[s].pending /\ answer[frame.caller] = "none"
                    THEN [answer EXCEPT ![frame.caller] = "done"] ELSE answer
    /\ UNCHANGED <<pairingVars, connections, calls, deviceVars>>

UnlistAlways(s) == [connections EXCEPT ![sessions[s].device] = 0]

(* disconnect takes the session off the map if it still is the last one.   *)
Unlisted(s) ==
    [connections EXCEPT ![sessions[s].device] = IF @ = s THEN 0 ELSE @]

(* The socket is closed by the device, or breaks.  Nobody asks any more    *)
(* whether the session was ready.                                          *)
SocketEnds(s) ==
    /\ sessions[s].task = "running"
    /\ sessions' = [sessions EXCEPT ![s].task = "failing", ![s].inbound = <<>>,
                                  ![s].ready = FALSE]
    /\ connections' = Unlisted(s)
    /\ UNCHANGED <<pairingVars, callVars, deviceVars>>

FailAll(s) ==
    /\ sessions[s].task = "failing"
    /\ sessions' = [Drained(s) EXCEPT ![s].task = "dropping"]
    /\ answer' = Lost(sessions[s].pending)
    /\ UNCHANGED <<pairingVars, connections, calls, deviceVars>>

DropReceiver(s) ==
    /\ sessions[s].task = "dropping"
    /\ sessions' = [sessions EXCEPT ![s].task = "ended", ![s].outbound = <<>>]
    /\ UNCHANGED <<pairingVars, connections, callVars, deviceVars>>

-----------------------------------------------------------------------------
(***************************************************************************)
(* The device's client                                                     *)
(***************************************************************************)
SetClient(d, client) == clients' = [clients EXCEPT ![d] = client]

Leave(d) ==
    LET s == clients[d].session IN
    sessions' = IF s = 0 THEN sessions ELSE [sessions EXCEPT ![s].outbound = <<>>]

(* RelayBridge::stop: the client's task is aborted, with what it carries   *)
(* out.                                                                    *)
Stopped(client) == [client EXCEPT !.phase = "stopped", !.session = 0, !.executing = Nobody]

Stop(d) ==
    /\ clients[d].phase # "stopped"
    /\ SetClient(d, Stopped(clients[d]))
    /\ Leave(d)
    /\ UNCHANGED <<pairingVars, connections, callVars, usb, ran>>

Start(d) ==
    /\ clients[d].phase = "stopped" /\ clients[d].token # 0
    /\ SetClient(d, [clients[d] EXCEPT !.phase = "connecting"])
    /\ UNCHANGED <<pairingVars, hubVars, callVars, usb, ran>>

(* The token is stored and a new client is started (RelayBridge::pair).    *)
(* POST /v1/pairing/redeem names the device; POST DEVICE_PAIR_PATH gives   *)
(* it a new name, then the client of the old one is stopped as well.       *)
Pair(d) ==
    /\ \E r \in redeeming : r.device = d /\ Issue(r)
    /\ SetClient(d, [Stopped(clients[d]) EXCEPT !.phase = "connecting", !.token = Len(tokens) + 1])
    /\ Leave(d)
    /\ UNCHANGED <<connections, callVars, usb, ran>>

(* connect_device validates the token, and upgrades the socket later.      *)
Upgrade(d) ==
    /\ clients[d].phase = "connecting"
    /\ SetClient(d, [clients[d] EXCEPT
                        !.phase = IF Valid(clients[d].token) THEN "upgrading"
                                                             ELSE "pairing_required"])
    /\ UNCHANGED <<pairingVars, hubVars, callVars, usb, ran>>

(* The attempt fails, or its time is up; after a delay comes the next one. *)
ConnectFails(d) ==
    /\ clients[d].phase = "upgrading"
    /\ SetClient(d, [clients[d] EXCEPT !.phase = "connecting"])
    /\ UNCHANGED <<pairingVars, hubVars, callVars, usb, ran>>

Reading(d) == clients[d].phase = "connected" /\ clients[d].executing = Nobody

Sends(d, frame) == [sessions EXCEPT ![clients[d].session].inbound = Append(@, frame)]

(* A tick of the readiness interval; a frame that says nothing new is left *)
(* out.                                                                    *)
SendReady(d) ==
    LET s == sessions[clients[d].session]
        said == {i \in DOMAIN s.inbound : s.inbound[i].kind = "ready"} IN
    /\ Reading(d)
    /\ usb[d] # IF said = {} THEN s.ready
                ELSE s.inbound[CHOOSE i \in said : \A j \in said : j <= i].usb
    /\ sessions' = Sends(d, [kind |-> "ready", usb |-> usb[d]])
    /\ UNCHANGED <<pairingVars, connections, callVars, deviceVars>>

ConsumedLater(s) == sessions

Consumed(s) == [sessions EXCEPT ![s].outbound = Tail(@)]

ReadInvoke(d) ==
    LET s == clients[d].session IN
    /\ Reading(d) /\ sessions[s].outbound # <<>>
    /\ sessions' = Consumed(s)
    /\ LET c == Head(sessions[s].outbound) IN
       /\ SetClient(d, [clients[d] EXCEPT !.executing = c])
       /\ ran' = [ran EXCEPT ![c] = @ + 1]
    /\ UNCHANGED <<pairingVars, connections, callVars, usb>>

(* The adapter returns, or its time is up; the result is sent.             *)
Executed(d) ==
    /\ clients[d].phase = "connected" /\ clients[d].executing # Nobody
    /\ sessions' = Sends(d, [kind |-> "result", caller |-> clients[d].executing])
    /\ SetClient(d, [clients[d] EXCEPT !.executing = Nobody])
    /\ UNCHANGED <<pairingVars, connections, callVars, usb, ran>>

(* The socket breaks, or the hub has closed it.  What is carried out goes  *)
(* on to its end, where its result cannot be sent.                         *)
SocketLost(d) ==
    /\ Reading(d)
    /\ SetClient(d, [clients[d] EXCEPT !.phase = "connecting", !.session = 0])
    /\ Leave(d)
    /\ UNCHANGED <<pairingVars, connections, callVars, usb, ran>>

SendFails(d) ==
    /\ clients[d].phase = "connected" /\ clients[d].executing # Nobody
    /\ SetClient(d, [clients[d] EXCEPT !.phase = "connecting", !.session = 0,
                                       !.executing = Nobody])
    /\ Leave(d)
    /\ UNCHANGED <<pairingVars, connections, callVars, usb, ran>>

UsbChanges(d) ==
    /\ usb' = [usb EXCEPT ![d] = ~@]
    /\ UNCHANGED <<pairingVars, hubVars, callVars, clients, ran>>

-----------------------------------------------------------------------------
PairingStep ==
    /\ \/ \E p \in Principals : CreateOffer(p)
       \/ \E offer \in offers : OfferExpires(offer)
       \/ \E d \in Devices, offer \in offers : Redeem(d, offer)
    /\ UNCHANGED <<hubVars, callVars, deviceVars>>

Revocation ==
    /\ \E d \in Devices, p \in Principals : RevokeDevice(p, d)
    /\ UNCHANGED <<hubVars, callVars, deviceVars>>

CallStep(c) ==
    \/ \E p \in Principals, reset \in BOOLEAN : Choose(c, p, reset)
    \/ Lookup(c) \/ Insert(c) \/ Send(c) \/ Returns(c) \/ TimesOut(c)

SessionStep(s) == AcceptReady(s) \/ AcceptResult(s) \/ FailAll(s) \/ DropReceiver(s)

ClientStep(d) ==
    \/ Start(d) \/ Pair(d) \/ Upgrade(d) \/ Connect(d)
    \/ SendReady(d) \/ ReadInvoke(d) \/ Executed(d)

Step ==
    \/ PairingStep
    \/ \E c \in Callers : CallStep(c)
    \/ \E s \in DOMAIN sessions : SessionStep(s)
    \/ \E d \in Devices : ClientStep(d)

ClientFault(d) == Stop(d) \/ ConnectFails(d) \/ SocketLost(d) \/ SendFails(d) \/ UsbChanges(d)

Event ==
    \/ Revocation
    \/ \E c \in Callers : Abandon(c)
    \/ \E s \in DOMAIN sessions : SocketEnds(s)
    \/ \E d \in Devices : ClientFault(d)

Next ==
    \/ Step /\ UNCHANGED events
    \/ events < MaxEvents /\ events' = events + 1 /\ Event

Spec == Init /\ [][Next]_vars

-----------------------------------------------------------------------------
Remote == INSTANCE RemoteCall

(* A refused call is never carried out, a call that is done was carried    *)
(* out for this caller, and none is carried out twice, through replaced    *)
(* sessions, time-outs and abandoned calls (RelayHub::dispatch_policy).    *)
CallsAreRemoteCalls == Remote!RemoteSpec

(* The hub knows a device by the session it connected last, as long as     *)
(* that one's socket runs, and by none when it has ended: the end of an    *)
(* older socket never takes a newer session off (DeviceConnection::        *)
(* disconnect).                                                            *)
LastSessionIsListed ==
    \A d \in Devices :
        LET mine == {s \in DOMAIN sessions : sessions[s].device = d}
            last == CHOOSE s \in mine : \A other \in mine : other <= s IN
        connections[d] = IF mine # {} /\ sessions[last].task = "running" THEN last ELSE 0

(* A call that waits for a result is in the pending map of its session, so *)
(* a result or the end of the session reaches it; and a pending entry has  *)
(* a caller that waits, unless the caller hung up.                         *)
PendingMeansWaiting ==
    \A c \in Callers :
        /\ calls[c].at = "waiting" /\ answer[c] = "none"
             => c \in sessions[calls[c].session].pending
        /\ \A s \in DOMAIN sessions :
             c \in sessions[s].pending =>
                /\ s = calls[c].session
                /\ calls[c].at \in {"inserted", "waiting", "gone"}

(* A request reaches a device over a session which the device opened as a  *)
(* device of the caller's principal, also while the device is paired       *)
(* again, to another one.                                                  *)
RequestsReachOwnDevice ==
    \A s \in DOMAIN sessions :
        \A i \in DOMAIN sessions[s].outbound :
            calls[sessions[s].outbound[i]].principal = sessions[s].principal

=============================================================================
