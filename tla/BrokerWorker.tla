---------------------------- MODULE BrokerWorker ----------------------------
(***************************************************************************)
(* The USB worker of the native device broker                              *)
(* (services/device-broker/src/worker.rs: DeviceController and run) with   *)
(* the blocking session code it calls (usb.rs: connect, finish_hello,      *)
(* create_backup), the SessionMachine that paces it, the RPC caller in     *)
(* front of it and the device behind it.                                   *)
(*                                                                         *)
(* One thread, the worker, owns the connection.  The caller posts commands *)
(* into an unbounded channel (inbox) and waits for the answer with a       *)
(* timeout; giving up does not take the command back.  The worker drains   *)
(* the inbox, opens the device when a reconnect is due, reads at most one  *)
(* message, expires overdue requests, and starts again; pc names where it  *)
(* is blocked.  Everything the caller can see (status, caches, answers)    *)
(* changes in the worker's steps only.                                     *)
(*                                                                         *)
(* A call is known by its ticket, the number of calls made before it plus  *)
(* one.  The inbox and the list of pending requests both keep the order in *)
(* which the calls were made, so each is the set of its tickets and its    *)
(* first element the smallest.                                             *)
(***************************************************************************)
EXTENDS SessionPolicy

CONSTANTS
    CallKinds,  \* the calls the caller makes
    MaxCalls,   \* how many of them
    MaxFaults,  \* transient read errors and failed HID initialisations
    MaxChanges  \* times the device changes between the states of Device

ASSUME BoundsAssumption ==
    /\ CallKinds \subseteq {"reconnect", "reset", "disconnect", "send", "request", "tagged", "backup"}
    /\ MaxCalls \in Nat
    /\ MaxFaults \in Nat
    /\ MaxChanges \in Nat

VARIABLES
    pc,         \* where the worker is
    posted,     \* calls made
    calls,      \* every call, by ticket
    inbox,      \* the commands channel: tickets the worker has not received
    conn,       \* connection: [link, synced]; link 0 is None
    auto,       \* auto_connect
    session,    \* the SessionMachine
    pending,    \* pending_requests: tickets
    status,     \* BrokerStatus
    fed,        \* links whose messages carry the current state_generation
    latest,     \* links the latest_messages cache and the raw log hold messages of
    library,    \* links the preset library holds listings of
    hello,      \* the handshake in progress: [synced, preset]
    side,       \* kinds of message set aside by the backup in progress
    backup,     \* ticket of the backup in progress, 0: none
    asked,      \* tickets of tagged requests the device has not answered
    device,     \* what is on the other end of the cable
    faults,     \* faults spent
    changes     \* device changes spent

callerVars == <<posted, calls, inbox>>
statusVars == <<status, session>>
cacheVars  == <<fed, latest, library>>
busyVars   == <<hello, side, backup>>
envVars    == <<device, faults, changes>>
vars == <<pc, callerVars, conn, auto, statusVars, pending, asked, cacheVars,
          busyVars, envVars>>

-----------------------------------------------------------------------------
(* A link is one successful session with the device, by its number.  The   *)
(* kinds of message told apart: the active preset (type 15), a directory   *)
(* listing (type 4), and the state that requests ask for.  A message of    *)
(* state is the answer to a tagged request, with its request id, or tells  *)
(* a change, or answers an untagged request, without one.                  *)
Kinds   == {"preset", "listing", "state"}
Device  == {"absent", "mute", "live"}
Outcome == {"waiting", "ok", "failed", "gaveUp", "posted"}
Phase   == {"disconnected", "searching", "connecting", "syncing", "ready", "error"}
Step    == {"drain", "probe", "await", "initial", "resync", "seed", "read", "backup", "stopped"}

(* Links are numbered so that a new one is told from those something still *)
(* refers to.                                                              *)
Link == 1..(MaxCalls + MaxChanges + MaxFaults + 1)

NoConn == [link |-> 0, synced |-> FALSE]
NoHello == [synced |-> FALSE, preset |-> FALSE]
Connected == conn.link # 0

Ticket == 1..(MaxCalls + 1)
Oldest(T) == {t \in T : \A u \in T : t <= u}

(* outcome is what the caller knows; wrote the link a send or request was  *)
(* written to (0: not written); from and id the link and the request id of *)
(* the message that answered a request.                                    *)
Call ==
    [kind : CallKinds \cup {"none", "stop"}, outcome : Outcome, wrote : Nat, from : Nat, id : Nat]

(* ConnectedQc, BrokerStatus and the handshake's result so far.              *)
ConnectedQc == [link : Nat, synced : BOOLEAN]
BrokerStatus == [phase : Phase, connected : BOOLEAN, synchronized : BOOLEAN, preset : Nat]
HelloResult == [synced : BOOLEAN, preset : BOOLEAN]

NotMade == [kind |-> "none", outcome |-> "posted", wrote |-> 0, from |-> 0, id |-> 0]

TypeOK ==
    /\ pc \in Step
    /\ posted \in 0..(MaxCalls + 1)
    /\ calls \in [Ticket -> Call]
    /\ inbox \in SUBSET Ticket
    /\ conn \in ConnectedQc
    /\ auto \in BOOLEAN
    /\ session \in Session
    /\ status \in BrokerStatus
    /\ pending \in SUBSET Ticket
    /\ asked \in SUBSET Ticket
    /\ fed \in SUBSET Nat
    /\ latest \in SUBSET Nat
    /\ library \in SUBSET Nat
    /\ hello \in HelloResult
    /\ side \in SUBSET Kinds
    /\ backup \in Ticket \cup {0}
    /\ device \in Device
    /\ faults \in 0..MaxFaults
    /\ changes \in 0..MaxChanges

(* DeviceController::start and start_disconnected.                         *)
Init ==
    /\ pc = "drain"
    /\ posted = 0
    /\ calls = [t \in Ticket |-> NotMade]
    /\ inbox = {}
    /\ conn = NoConn
    /\ auto \in BOOLEAN
    /\ session = NewSession
    /\ pending = {}
    /\ status = [phase |-> IF auto THEN "searching" ELSE "disconnected",
                 connected |-> FALSE, synchronized |-> FALSE, preset |-> 0]
    /\ fed = {}
    /\ latest = {}
    /\ library = {}
    /\ hello = NoHello
    /\ side = {}
    /\ backup = 0
    /\ asked = {}
    /\ device \in Device
    /\ faults = 0
    /\ changes = 0

-----------------------------------------------------------------------------
(***************************************************************************)
(* The caller: serve_stdio handles one request at a time                   *)
(***************************************************************************)
Waiting(t) == calls[t].outcome = "waiting"
Idle == \A t \in Ticket : ~Waiting(t)
Dropped == \E t \in Ticket : calls[t].kind = "stop"

Enqueue(kind, outcome) ==
    /\ Idle /\ ~Dropped
    /\ posted' = posted + 1
    /\ calls' = [calls EXCEPT ![posted'].kind = kind, ![posted'].outcome = outcome]
    /\ inbox' = inbox \cup {posted'}
    /\ UNCHANGED <<pc, conn, auto, statusVars, pending, asked, cacheVars,
                   busyVars, envVars>>

(* reconnect, reset_session, send (and send_sequence), request,            *)
(* create_backup: post the command and wait.  disconnect does not wait.    *)
Post(kind) ==
    /\ posted < MaxCalls
    /\ Enqueue(kind, IF kind = "disconnect" THEN "posted" ELSE "waiting")

(* recv_timeout elapsed: the caller is told of an error, the command stays *)
(* where it is.                                                            *)
GiveUp(t) ==
    /\ Waiting(t)
    /\ calls' = [calls EXCEPT ![t].outcome = "gaveUp"]
    /\ UNCHANGED <<pc, posted, inbox, conn, auto, statusVars, pending, asked,
                   cacheVars, busyVars, envVars>>

(* Drop for DeviceController: the last command ever posted.                *)
DropController == Enqueue("stop", "posted")

AnswersOnlySuccess(cs, T, outcome) ==
    [t \in Ticket |-> IF t \in T /\ outcome = "ok" /\ cs[t].outcome = "waiting"
                      THEN [cs[t] EXCEPT !.outcome = outcome] ELSE cs[t]]

(* reply.send: an answer reaches a caller that still waits; otherwise the  *)
(* receiver is gone and the answer with it.                                *)
Answer(cs, T, outcome) ==
    [t \in Ticket |-> IF t \in T /\ cs[t].outcome = "waiting"
                      THEN [cs[t] EXCEPT !.outcome = outcome] ELSE cs[t]]

-----------------------------------------------------------------------------
(***************************************************************************)
(* What the worker's handlers share                                        *)
(***************************************************************************)

SetPhaseKeepsName(phase, connected, synchronized) ==
    [phase |-> phase, connected |-> connected, synchronized |-> synchronized,
     preset |-> status.preset]

(* set_phase                                                               *)
SetPhase(phase, connected, synchronized) ==
    [phase |-> phase, connected |-> connected, synchronized |-> synchronized,
     preset |-> IF connected THEN status.preset ELSE 0]

(* update_message, for the kinds of message in ks                          *)
UpdateMessages(st, ks) ==
    IF "preset" \in ks
    THEN [st EXCEPT !.phase = "ready", !.synchronized = TRUE, !.preset = conn.link]
    ELSE st

(* The caches and the decoder lane after the messages of kinds ks.         *)
IngestCaches(ks) ==
    /\ latest' = IF ks # {} THEN latest \cup {conn.link} ELSE latest
    /\ fed' = IF ks # {} THEN fed \cup {conn.link} ELSE fed
    /\ library' = IF "listing" \in ks THEN library \cup {conn.link} ELSE library

SatisfiedByType(kind, id) == {t \in pending : kind = "state"}

(* deliver_pending: the requests a message of this kind and id (0: none)   *)
(* satisfies.  Every request expects state, and no id, on either side,     *)
(* fits any.                                                               *)
Satisfied(kind, id) ==
    {t \in pending : kind = "state" /\ (id = 0 \/ calls[t].kind = "request" \/ id = t)}

Delivered(cs, t, id) ==
    [cs EXCEPT ![t] = IF @.outcome = "waiting"
                      THEN [@ EXCEPT !.outcome = "ok", !.from = conn.link, !.id = id]
                      ELSE @]

(* The decoder is told to start over, and every cache is cleared.          *)
ForgetDevice ==
    /\ latest' = {}
    /\ library' = {}
    /\ fed' = {}

(* The connection is dropped and fail_pending has answered every request.  *)
CloseLink ==
    /\ conn' = NoConn
    /\ asked' = {}
    /\ pending' = {}

-----------------------------------------------------------------------------
(***************************************************************************)
(* Commands: the worker receives the oldest                                *)
(***************************************************************************)
Receive(t, kinds) ==
    /\ pc = "drain"
    /\ t \in Oldest(inbox)
    /\ calls[t].kind \in kinds
    /\ inbox' = inbox \ {t}
    /\ UNCHANGED posted

(* reconnect_is_satisfied                                                  *)
ReconnectIsSatisfied(force) ==
    ~force /\ (Connected \/ status.phase \in {"connecting", "handshaking", "syncing", "ready"})

HandleSatisfiedReconnect ==
    \E t \in Ticket :
        /\ Receive(t, {"reconnect"})
        /\ ReconnectIsSatisfied(FALSE)
        /\ calls' = Answer(calls, {t}, "ok")
        /\ UNCHANGED <<pc, conn, auto, statusVars, pending, asked, cacheVars,
                       busyVars, envVars>>

HandleReconnect ==
    \E t \in Ticket :
        /\ Receive(t, {"reconnect", "reset"})
        /\ ~ReconnectIsSatisfied(calls[t].kind = "reset")
        /\ CloseLink
        /\ calls' = Answer(Answer(calls, pending, "failed"), {t}, "ok")
        /\ ForgetDevice
        /\ auto' = TRUE
        /\ session' = RequestReconnect(session)
        /\ status' = SetPhase("searching", FALSE, FALSE)
        /\ UNCHANGED <<pc, busyVars, envVars>>

HandleDisconnect ==
    \E t \in Ticket :
        /\ Receive(t, {"disconnect"})
        /\ CloseLink
        /\ calls' = Answer(calls, pending, "failed")
        /\ ForgetDevice
        /\ auto' = FALSE
        /\ session' = DisconnectSession(session, FALSE)
        /\ status' = SetPhase("disconnected", FALSE, FALSE)
        /\ UNCHANGED <<pc, busyVars, envVars>>

(* Send and SendSequence.  The write itself has no result: a failed write  *)
(* is noticed by later reads only.                                         *)
HandleSend ==
    \E t \in Ticket :
        /\ Receive(t, {"send"})
        /\ Connected
        /\ calls' = [Answer(calls, {t}, "ok") EXCEPT ![t].wrote = conn.link]
        /\ session' = Outbound(session)
        /\ UNCHANGED <<pc, conn, auto, status, pending, asked, cacheVars,
                       busyVars, envVars>>

HandleRequest ==
    \E t \in Ticket :
        /\ Receive(t, {"request", "tagged"})
        /\ Connected
        /\ calls' = [calls EXCEPT ![t].wrote = conn.link]
        /\ pending' = pending \cup {t}
        /\ asked' = IF calls[t].kind = "tagged" THEN asked \cup {t} ELSE asked
        /\ session' = Outbound(session)
        /\ UNCHANGED <<pc, conn, auto, status, cacheVars, busyVars, envVars>>

(* Send, SendSequence and Request without a connection.                    *)
Refuse ==
    \E t \in Ticket :
        /\ Receive(t, {"send", "request", "tagged"})
        /\ ~Connected
        /\ calls' = Answer(calls, {t}, "failed")
        /\ UNCHANGED <<pc, conn, auto, statusVars, pending, asked, cacheVars,
                       busyVars, envVars>>

(* CreateBackup: the worker is inside create_backup until it returns.      *)
HandleBackup ==
    \E t \in Ticket :
        /\ Receive(t, {"backup"})
        /\ status' = SetPhase("syncing", Connected, Connected /\ conn.synced)
        /\ pending' = {}
        /\ IF Connected
           THEN /\ pc' = "backup"
                /\ calls' = Answer(calls, pending, "failed")
                /\ backup' = t
                /\ side' = {}
                /\ UNCHANGED session
           ELSE /\ calls' = Answer(calls, pending \cup {t}, "failed")
                /\ session' = Outbound(session)
                /\ UNCHANGED <<pc, backup, side>>
        /\ UNCHANGED <<conn, auto, asked, cacheVars, hello, envVars>>

HandleStop ==
    \E t \in Ticket :
        /\ Receive(t, {"stop"})
        /\ pc' = "stopped"
        /\ calls' = Answer(calls, pending, "failed")
        /\ CloseLink
        /\ UNCHANGED <<auto, statusVars, cacheVars, busyVars, envVars>>

-----------------------------------------------------------------------------
(***************************************************************************)
(* Opening the device                                                      *)
(***************************************************************************)
Fault == faults < MaxFaults /\ faults' = faults + 1 /\ UNCHANGED <<device, changes>>

(* The device left, or one read failed.                                    *)
ReadFails == (device = "absent" /\ UNCHANGED envVars) \/ Fault

OpenDue == pc = "drain" /\ inbox = {} /\ ~Connected /\ auto /\ ReconnectDue(session)

NothingToOpen ==
    /\ pc = "drain" /\ inbox = {}
    /\ ~OpenDue
    /\ pc' = "read"
    /\ UNCHANGED <<callerVars, conn, auto, statusVars, pending, asked, cacheVars,
                   busyVars, envVars>>

(* Open failed or the handshake did: search again after the interval.      *)
SearchAgain(s, phase) ==
    /\ pc' = "read"
    /\ session' = DisconnectSession(s, TRUE)
    /\ status' = SetPhase(phase, FALSE, FALSE)
    /\ hello' = NoHello
    /\ UNCHANGED <<callerVars, conn, auto, pending, asked, cacheVars, side, backup>>

OpenUnavailable ==
    /\ OpenDue
    /\ device = "absent"
    /\ SearchAgain(ReconnectAttempted(session), "searching")
    /\ UNCHANGED envVars

OpenError ==
    /\ OpenDue
    /\ Fault
    /\ SearchAgain(ReconnectAttempted(session), "error")

Open ==
    /\ OpenDue
    /\ device # "absent"
    /\ pc' = "probe"
    /\ session' = TransportOpened(ReconnectAttempted(session))
    /\ status' = SetPhase("connecting", FALSE, FALSE)
    /\ hello' = NoHello
    /\ UNCHANGED <<callerVars, conn, auto, pending, asked, cacheVars, side, backup,
                   envVars>>

(* A step of connect or finish_hello that leaves what it returns alone.    *)
Handshaking(from, to) ==
    /\ pc = from
    /\ pc' = to
    /\ UNCHANGED <<callerVars, conn, auto, status, pending, asked, cacheVars, side,
                   backup>>

SendResetComms ==
    /\ HandshakeAttemptDue(session)
    /\ Handshaking("probe", "await")
    /\ session' = HandshakeAttempted(session)
    /\ UNCHANGED <<hello, envVars>>

HandshakeTimeoutAtProbe ==
    /\ pc = "probe"
    /\ HandshakeTimedOut(session)
    /\ SearchAgain(session, "error")
    /\ UNCHANGED envVars

HandshakeTimeout ==
    /\ pc \in {"probe", "await"}
    /\ HandshakeTimedOut(session)
    /\ SearchAgain(session, "error")
    /\ UNCHANGED envVars

AttemptTimeout ==
    /\ session.handshake_in = 0
    /\ ~HandshakeTimedOut(session)
    /\ Handshaking("await", "probe")
    /\ UNCHANGED <<session, hello, envVars>>

(* The version reply: finish_hello sends the initialization.               *)
HelloReply ==
    /\ device = "live"
    /\ Handshaking("await", "initial")
    /\ UNCHANGED <<session, hello, envVars>>

(* The active preset arrives in one of the two windows that wait for it.   *)
HelloPreset ==
    /\ device = "live"
    /\ Handshaking("initial", "seed") \/ Handshaking("resync", "seed")
    /\ hello' = [synced |-> TRUE, preset |-> TRUE]
    /\ UNCHANGED <<session, envVars>>

InitialSyncTimeout ==
    /\ Handshaking("initial", "resync")
    /\ UNCHANGED <<session, hello, envVars>>

PresetSyncTimeout ==
    /\ Handshaking("resync", "seed")
    /\ UNCHANGED <<session, hello, envVars>>

(* The preset arrives while the seed states are collected: it is kept as a *)
(* latest message, but synchronized is not looked at again.                *)
SeedPreset ==
    /\ device = "live"
    /\ ~hello.preset
    /\ Handshaking("seed", "seed")
    /\ hello' = [hello EXCEPT !.preset = TRUE]
    /\ UNCHANGED <<session, envVars>>

HandshakeReadError ==
    /\ pc \in {"await", "initial", "resync", "seed"}
    /\ ReadFails
    /\ SearchAgain(session, "error")

RememberedLinks ==
    fed \cup latest \cup library \cup {status.preset}
        \cup {calls[t].wrote : t \in Ticket} \cup {calls[t].from : t \in Ticket}

NewLinks == Oldest(Link \ RememberedLinks)

ReseedOverLatest(link, seeded) ==
    /\ latest' = IF seeded THEN latest \cup {link} ELSE latest
    /\ fed' = IF seeded THEN {link} ELSE {}

(* The caches and the decoder start over from the handshake's messages.    *)
Reseed(link, seeded) ==
    /\ latest' = IF seeded THEN {link} ELSE {}
    /\ fed' = IF seeded THEN {link} ELSE {}

(* finish_hello and connect return: handshake_completed, a new generation  *)
(* and Reset for the decoder followed by the messages of the handshake,    *)
(* and install_connection_status.                                          *)
Install ==
    /\ pc = "seed"
    /\ pc' = "read"
    /\ session' = HandshakeCompleted(session, hello.synced)
    /\ \E link \in NewLinks, seeded \in BOOLEAN :
          /\ hello.preset => seeded
          /\ conn' = [link |-> link, synced |-> hello.synced]
          /\ status' = [phase |-> IF hello.synced THEN "ready" ELSE "syncing",
                        connected |-> TRUE, synchronized |-> hello.synced,
                        preset |-> IF hello.preset THEN link ELSE 0]
          /\ Reseed(link, seeded)
    /\ hello' = NoHello
    /\ UNCHANGED <<callerVars, auto, pending, asked, library, side, backup, envVars>>

-----------------------------------------------------------------------------
(***************************************************************************)
(* Reading, keepalive and the expiry of requests                           *)
(***************************************************************************)
BackToCommands(expired, cs, ps) ==
    /\ pc' = "drain"
    /\ calls' = Answer(cs, expired, "failed")
    /\ pending' = ps \ expired
    /\ UNCHANGED <<posted, inbox, auto, busyVars>>

KeptAlive(s) == IF KeepaliveDue(s) THEN Outbound(s) ELSE s

(* One message.  Only state is asked for with an id; it may come with the  *)
(* id of any request the device has not answered, or without one (0).      *)
ReadMessage ==
    /\ pc = "read" /\ Connected
    /\ device = "live"
    /\ session' = KeptAlive(StateObserved(ReadSucceeded(session), conn.synced))
    /\ \E kind \in Kinds, id \in asked \cup {0}, expired \in SUBSET pending :
          /\ id # 0 => kind = "state"
          /\ status' = UpdateMessages(status, {kind})
          /\ IngestCaches({kind})
          /\ asked' = asked \ {id}
          /\ \/ /\ Satisfied(kind, id) = {}
                /\ BackToCommands(expired, calls, pending)
             \/ \E first \in Oldest(Satisfied(kind, id)) :
                   BackToCommands(expired, Delivered(calls, first, id), pending \ {first})
    /\ UNCHANGED <<conn, envVars>>

ReadNothing ==
    /\ pc = "read" /\ Connected
    /\ session' = KeptAlive(ReadSucceeded(session))
    /\ \E expired \in SUBSET pending : BackToCommands(expired, calls, pending)
    /\ UNCHANGED <<conn, status, asked, cacheVars, envVars>>

(* One error is tolerated: the loop starts over without keepalive or       *)
(* expiry.                                                                 *)
ReadToleratedError ==
    /\ pc = "read" /\ Connected
    /\ ReadFails
    /\ ~LinkLost(ReadFailed(session))
    /\ session' = ReadFailed(session)
    /\ BackToCommands({}, calls, pending)
    /\ UNCHANGED <<conn, status, asked, cacheVars>>

LoseLink ==
    /\ pc = "read" /\ Connected
    /\ ReadFails
    /\ LinkLost(ReadFailed(session))
    /\ session' = DisconnectSession(ReadFailed(session), TRUE)
    /\ CloseLink
    /\ calls' = Answer(calls, pending, "failed")
    /\ status' = SetPhase("searching", FALSE, FALSE)
    /\ pc' = "drain"
    /\ UNCHANGED <<posted, inbox, auto, cacheVars, busyVars>>

Sleep ==
    /\ pc = "read" /\ ~Connected
    /\ BackToCommands({}, calls, pending)
    /\ UNCHANGED <<conn, statusVars, asked, cacheVars, envVars>>

-----------------------------------------------------------------------------
(***************************************************************************)
(* Inside create_backup                                                    *)
(***************************************************************************)

(* A message that is not a backup chunk is set aside.                      *)
BackupSideMessage ==
    /\ pc = "backup"
    /\ device = "live"
    /\ \E kind \in Kinds : side' = side \cup {kind}
    /\ UNCHANGED <<pc, callerVars, conn, auto, statusVars, pending, asked,
                   cacheVars, hello, backup, envVars>>

BackupReturns(outcome, ingested) ==
    /\ pc = "backup"
    /\ pc' = "drain"
    /\ IngestCaches(ingested)
    /\ status' = [SetPhase(IF conn.synced THEN "ready" ELSE "syncing", TRUE, conn.synced)
                    EXCEPT !.preset = UpdateMessages(status, ingested).preset]
    /\ session' = Outbound(session)
    /\ calls' = Answer(calls, {backup}, outcome)
    /\ backup' = 0
    /\ side' = {}
    /\ UNCHANGED <<posted, inbox, conn, auto, pending, asked, hello>>

(* The whole document arrived; what was set aside is ingested.             *)
BackupCompletes ==
    /\ device = "live"
    /\ BackupReturns("ok", side)
    /\ UNCHANGED envVars

(* A deadline passed or the document is invalid: what was set aside is     *)
(* dropped with it.                                                        *)
BackupTimesOut ==
    /\ BackupReturns("failed", {})
    /\ UNCHANGED envVars

BackupReadError ==
    /\ ReadFails
    /\ BackupReturns("failed", {})

-----------------------------------------------------------------------------
(***************************************************************************)
(* Time and the device                                                     *)
(***************************************************************************)
Tick ==
    /\ session' = Aged(session)
    /\ UNCHANGED <<pc, callerVars, conn, auto, status, pending, asked, cacheVars,
                   busyVars, envVars>>

(* The device is plugged in, unplugged, stops or starts answering.  A      *)
(* handle does not outlive an unplug: it returns errors until it is        *)
(* closed, whatever is plugged in meanwhile, so the device counts as       *)
(* absent until then.                                                      *)
DeviceChanges ==
    /\ changes < MaxChanges
    /\ device = "absent" => ~Connected /\ pc \in {"drain", "read", "stopped"}
    /\ changes' = changes + 1
    /\ device' \in Device \ {device}
    /\ UNCHANGED <<pc, callerVars, conn, auto, statusVars, pending, asked,
                   cacheVars, busyVars, faults>>

-----------------------------------------------------------------------------
Caller ==
    \/ \E kind \in CallKinds : Post(kind)
    \/ \E t \in Ticket : GiveUp(t)
    \/ DropController

Command ==
    \/ HandleSatisfiedReconnect
    \/ HandleReconnect
    \/ HandleDisconnect
    \/ HandleSend
    \/ HandleRequest
    \/ Refuse
    \/ HandleBackup
    \/ HandleStop

Connect ==
    \/ NothingToOpen
    \/ OpenUnavailable
    \/ OpenError
    \/ Open
    \/ SendResetComms
    \/ HandshakeTimeout
    \/ AttemptTimeout
    \/ HelloReply
    \/ HelloPreset
    \/ InitialSyncTimeout
    \/ PresetSyncTimeout
    \/ SeedPreset
    \/ HandshakeReadError
    \/ Install

Read ==
    \/ ReadMessage
    \/ ReadNothing
    \/ ReadToleratedError
    \/ LoseLink
    \/ Sleep

Backup ==
    \/ BackupSideMessage
    \/ BackupCompletes
    \/ BackupTimesOut
    \/ BackupReadError

Worker == Command \/ Connect \/ Read \/ Backup

Next == Caller \/ Worker \/ Tick \/ DeviceChanges

Spec == Init /\ [][Next]_vars

(* The worker thread runs and time passes.  The worker does not take the   *)
(* whole handshake timeout to send its first probe every time, and a live  *)
(* device does not leave every probe unanswered: the host sends another    *)
(* one in each window, and starts over for as long as none is answered.    *)
(* Of the preset nothing is assumed: it is asked for once in a session.    *)
FairSpec ==
    /\ Spec
    /\ WF_vars(Worker)
    /\ WF_vars(Tick)
    /\ SF_vars(SendResetComms)
    /\ SF_vars(HelloReply)

-----------------------------------------------------------------------------
(***************************************************************************)
(* Safety                                                                  *)
(***************************************************************************)

(* What status() shows agrees with the connection the worker owns, through *)
(* every reconnect, link loss, failed handshake and backup: connected is   *)
(* told exactly while there is a link, ready and synchronized only then,   *)
(* and the preset name shown was told by this link, not an earlier one.    *)
StatusTracksLink ==
    pc # "stopped" =>
        /\ status.connected <=> Connected
        /\ status.phase = "ready" => Connected /\ status.synchronized
        /\ status.synchronized => Connected
        /\ status.preset \in {0, conn.link}

(* The policy and the worker agree on whether there is a link whenever the *)
(* worker looks at either: is_connected, which gates the keepalive, holds  *)
(* exactly when connection is Some.                                        *)
SessionTracksLink ==
    pc \in {"drain", "read", "backup"} => (IsConnected(session) <=> Connected)

(* While the worker means to be connected and is not, a reconnect attempt  *)
(* is scheduled: no failure path leaves the session in a phase that never  *)
(* comes due.                                                              *)
SearchIsArmed ==
    pc \in {"drain", "read"} /\ auto /\ ~Connected =>
        session.phase = "searching" /\ session.auto_reconnect

(* A request waits only for the link its message was written to: none      *)
(* outlives the link, where it could only time out, or be answered by a    *)
(* message of the next device session.                                     *)
NoOrphanRequest ==
    \A t \in pending : calls[t].wrote = conn.link /\ Connected

(* A caller that still waits is waiting for something: its command is in   *)
(* the channel, its request pending or its backup running.  No path drops  *)
(* a command or a request without an answer.                               *)
NoLostCall ==
    \A t \in Ticket : Waiting(t) => t \in inbox \cup pending \cup {backup}

(* A request that succeeded was answered by the link it was written to,    *)
(* and a tagged request never by a message that carries the id of another: *)
(* not by the late reply to one that expired before it.  A message of its  *)
(* type without an id does answer it: nothing in the code tells it from    *)
(* the reply.                                                              *)
RightReply ==
    \A t \in Ticket :
        calls[t].outcome = "ok" =>
            /\ calls[t].kind \in {"request", "tagged"} => calls[t].from = calls[t].wrote
            /\ calls[t].kind = "tagged" => calls[t].id \in {0, t}

(* The decoder's messages of one generation come from one link: every path *)
(* that changes the link also starts a new generation before the first     *)
(* message of the new link.                                                *)
OneLinkPerGeneration ==
    \A a, b \in fed : a = b

(* While connected, the latest messages, the raw log and the decoder hold  *)
(* nothing of an earlier link, whether it was lost, reset or disconnected. *)
(* The preset library is not among them: it is kept over a lost link.      *)
MessagesAreOfThisLink ==
    Connected => latest \subseteq {conn.link} /\ fed \subseteq {conn.link}

(* After an explicit disconnect nothing the device told is kept: neither   *)
(* messages, nor listings, nor decoded state.                              *)
ClosedMeansForgotten ==
    ~auto /\ ~Connected => latest = {} /\ library = {} /\ fed = {}

(***************************************************************************)
(* What the documentation says and the code does not do                    *)
(***************************************************************************)

(* "Manual reconnect is always available"                                  *)
(* (docs/WINDOWS_IMPLEMENTATION_PLAN.md:302): a reconnect that is          *)
(* acknowledged leaves the worker meaning to be connected.                 *)
ManualReconnectIsAvailable ==
    [][\A t \in Ticket :
          calls[t].kind \in {"reconnect", "reset"} /\ Waiting(t) /\ calls'[t].outcome = "ok"
              => auto']_vars

(* "Handshake complete; waiting for active preset"                         *)
(* (services/device-broker/src/worker.rs:1158): a link published as        *)
(* waiting for its preset has not been told one.                           *)
WaitingMeansNoPreset ==
    [][pc = "seed" /\ pc' = "read" /\ Connected' /\ status'.phase = "syncing"
          => status'.preset = 0]_vars

(***************************************************************************)
(* Liveness                                                                *)
(***************************************************************************)

(* A device that stays live is eventually connected for good, while the    *)
(* worker means to be connected: after any finite number of unplugs,       *)
(* resets, backups, read errors and failed handshakes.  The link is then   *)
(* published as ready if its handshake saw the preset, and no backup or    *)
(* message takes that back; a handshake that missed it leaves the link     *)
(* waiting, for a message nobody asks for again.                           *)
LinkComesBack ==
    <>[](device = "live" /\ auto /\ pc # "stopped") =>
        <>[](Connected /\ status.connected /\ (conn.synced => status.phase = "ready"))

(* Every command is received: the worker never blocks for good in a        *)
(* handshake, a backup or a read.                                          *)
CommandsAreReceived ==
    \A t \in Ticket : t \in inbox ~> t \notin inbox

=============================================================================
