--------------------------- MODULE SessionMachine --------------------------
(***************************************************************************)
(* SessionMachine (packages/rust/qc-protocol/src/session.rs) driven by a   *)
(* host that calls its methods in the order both native hosts do: open     *)
(* when reconnect_due, probe while handshaking, then read and keep alive   *)
(* until the second consecutive read error.  Time is a tick of its own and *)
(* may pass between any two calls.                                         *)
(*                                                                         *)
(* sinceOpen, requested and silent are history: the ticks since the last   *)
(* attempt to open the transport, whether request_reconnect was called     *)
(* since, and the ticks since a report last crossed the link.              *)
(***************************************************************************)
EXTENDS SessionPolicy

VARIABLES
    machine,    \* the SessionMachine
    sinceOpen,  \* 0..RECONNECT_INTERVAL
    requested,  \* request_reconnect called since the last open
    silent      \* 0..KEEPALIVE_INTERVAL

machineVars == <<machine, sinceOpen, requested, silent>>

MachineTypeOK ==
    /\ machine \in Session
    /\ sinceOpen \in 0..RECONNECT_INTERVAL
    /\ requested \in BOOLEAN
    /\ silent \in 0..KEEPALIVE_INTERVAL

MachineInit ==
    /\ machine = NewSession
    /\ sinceOpen = RECONNECT_INTERVAL
    /\ requested = FALSE
    /\ silent = 0

-----------------------------------------------------------------------------
(* The host's request for a reconnect, at any moment.                      *)
AskReconnect ==
    /\ machine' = RequestReconnect(machine)
    /\ requested' = TRUE
    /\ silent' = 0
    /\ UNCHANGED sinceOpen

(* An explicit disconnect: no automatic recovery.                          *)
AskDisconnect ==
    /\ machine' = DisconnectSession(machine, FALSE)
    /\ silent' = 0
    /\ UNCHANGED <<sinceOpen, requested>>

Opened ==
    /\ sinceOpen' = 0
    /\ requested' = FALSE
    /\ silent' = 0

(* One due attempt finds the device, or does not.                          *)
OpenTransport ==
    /\ ReconnectDue(machine)
    /\ machine' = TransportOpened(ReconnectAttempted(machine))
    /\ Opened

OpenFails ==
    /\ ReconnectDue(machine)
    /\ machine' = DisconnectSession(ReconnectAttempted(machine), TRUE)
    /\ Opened

SendHandshake ==
    /\ HandshakeAttemptDue(machine)
    /\ machine' = HandshakeAttempted(machine)
    /\ silent' = 0
    /\ UNCHANGED <<sinceOpen, requested>>

(* A device version reply was read and the initial sync has ended.         *)
CompleteHandshake(synced) ==
    /\ machine.phase = "handshaking"
    /\ machine.handshake_attempts > 0
    /\ machine' = HandshakeCompleted(machine, synced)
    /\ silent' = 0
    /\ UNCHANGED <<sinceOpen, requested>>

AbandonHandshake ==
    /\ HandshakeTimedOut(machine)
    /\ machine' = DisconnectSession(machine, TRUE)
    /\ silent' = 0
    /\ UNCHANGED <<sinceOpen, requested>>

(* A read error during the handshake or the initial sync ends it at once.   *)
FailHandshake ==
    /\ machine.phase = "handshaking"
    /\ machine' = DisconnectSession(machine, TRUE)
    /\ silent' = 0
    /\ UNCHANGED <<sinceOpen, requested>>

Observe(presetSynced) ==
    /\ IsConnected(machine)
    /\ machine' = StateObserved(ReadSucceeded(machine), presetSynced)
    /\ silent' = 0
    /\ UNCHANGED <<sinceOpen, requested>>

ReadEmpty ==
    /\ IsConnected(machine)
    /\ machine' = ReadSucceeded(machine)
    /\ UNCHANGED <<sinceOpen, requested, silent>>

ReadError ==
    /\ IsConnected(machine)
    /\ LET failed == ReadFailed(machine)
       IN  IF LinkLost(failed)
           THEN machine' = DisconnectSession(failed, TRUE) /\ silent' = 0
           ELSE machine' = failed /\ UNCHANGED silent
    /\ UNCHANGED <<sinceOpen, requested>>

SendOutbound ==
    /\ IsConnected(machine)
    /\ machine' = Outbound(machine)
    /\ silent' = 0
    /\ UNCHANGED <<sinceOpen, requested>>

PassTime ==
    /\ machine' = Aged(machine)
    /\ sinceOpen' = IF sinceOpen < RECONNECT_INTERVAL THEN sinceOpen + 1 ELSE sinceOpen
    /\ silent' = IF silent < KEEPALIVE_INTERVAL THEN silent + 1 ELSE silent
    /\ UNCHANGED requested

MachineNext ==
    \/ AskReconnect
    \/ AskDisconnect
    \/ OpenTransport
    \/ OpenFails
    \/ SendHandshake
    \/ \E synced \in BOOLEAN : CompleteHandshake(synced)
    \/ AbandonHandshake
    \/ FailHandshake
    \/ \E presetSynced \in BOOLEAN : Observe(presetSynced)
    \/ ReadEmpty
    \/ ReadError
    \/ SendOutbound
    \/ PassTime

MachineSpec == MachineInit /\ [][MachineNext]_machineVars

-----------------------------------------------------------------------------
(* Readiness is one fact told twice: the machine reports the session ready *)
(* exactly while the preset of this session has been seen.  No disconnect, *)
(* reconnect or new handshake carries it into the next session.            *)
ReadyMeansSynchronized ==
    (machine.phase = "ready") <=> machine.synchronized

(* "Tight polling cannot duplicate writes": in a handshake that has lasted *)
(* t, at most one probe per attempt window has been sent, whatever the     *)
(* rate at which the host polls.                                           *)
OneProbePerWindow ==
    machine.phase = "handshaking" =>
        machine.handshake_attempts * HANDSHAKE_ATTEMPT_TIMEOUT
            <= machine.handshake_elapsed + HANDSHAKE_ATTEMPT_TIMEOUT

(* A connected link on which nothing has crossed for a whole keepalive     *)
(* interval always has a keepalive due: no method postpones the keepalive  *)
(* without a report having crossed the link.                               *)
SilentLinkIsProbed ==
    IsConnected(machine) /\ silent = KEEPALIVE_INTERVAL => KeepaliveDue(machine)

(* The transport is opened at most once per reconnect interval, unless the *)
(* host asked for a reconnect since the last attempt: whatever failed in   *)
(* between, an attempt that comes due has waited its interval.             *)
ReconnectCadence ==
    ReconnectDue(machine) => sinceOpen = RECONNECT_INTERVAL \/ requested

=============================================================================
