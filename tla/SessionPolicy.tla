--------------------------- MODULE SessionPolicy ---------------------------
(***************************************************************************)
(* The state and the methods of SessionMachine, the endpoint-independent   *)
(* USB session policy of packages/rust/qc-protocol/src/session.rs, as      *)
(* operators on one record.                                                *)
(*                                                                         *)
(* The code keeps absolute millisecond deadlines and compares them with a  *)
(* now_ms its host passes in.  Every method only asks whether a deadline   *)
(* has been reached, so a deadline is kept here as the time that remains   *)
(* until it (0: reached), in ticks, and the handshake start as the time    *)
(* that has elapsed since it.  Aged is the passage of one tick.            *)
(***************************************************************************)
EXTENDS Integers

CONSTANTS
    KEEPALIVE_INTERVAL,         \* profile::KEEPALIVE_INTERVAL_MS, in ticks
    RECONNECT_INTERVAL,         \* profile::RECONNECT_INTERVAL_MS
    HANDSHAKE_TIMEOUT,          \* profile::HANDSHAKE_TIMEOUT_MS
    HANDSHAKE_ATTEMPT_TIMEOUT,  \* profile::HANDSHAKE_ATTEMPT_TIMEOUT_MS
    MAX_ATTEMPTS                \* u32::MAX, where handshake_attempts saturates

ASSUME ProfileAssumption ==
    /\ KEEPALIVE_INTERVAL \in Nat \ {0}
    /\ RECONNECT_INTERVAL \in Nat \ {0}
    /\ HANDSHAKE_TIMEOUT \in Nat \ {0}
    /\ HANDSHAKE_ATTEMPT_TIMEOUT \in Nat \ {0}
    /\ MAX_ATTEMPTS \in Nat \ {0}

SessionPhase == {"disconnected", "searching", "handshaking", "syncing", "ready"}

NotStarted == -1    \* handshake_started_at_ms = None

(* consecutive_read_errors is a u8 the host compares with 2 and then tears *)
(* the session down, so it is kept up to 2.                                *)
Session ==
    [phase              : SessionPhase,
     auto_reconnect     : BOOLEAN,
     reconnect_in       : 0..RECONNECT_INTERVAL,
     handshake_elapsed  : NotStarted..HANDSHAKE_TIMEOUT,
     handshake_attempts : 0..MAX_ATTEMPTS,
     handshake_in       : 0..HANDSHAKE_ATTEMPT_TIMEOUT,
     keepalive_in       : 0..KEEPALIVE_INTERVAL,
     read_errors        : 0..2,
     synchronized       : BOOLEAN]

NewSession ==
    [phase              |-> "searching",
     auto_reconnect     |-> TRUE,
     reconnect_in       |-> 0,
     handshake_elapsed  |-> NotStarted,
     handshake_attempts |-> 0,
     handshake_in       |-> 0,
     keepalive_in       |-> KEEPALIVE_INTERVAL,
     read_errors        |-> 0,
     synchronized       |-> FALSE]

(***************************************************************************)
(* Queries                                                                 *)
(***************************************************************************)

IsConnected(s) == s.phase \in {"syncing", "ready"}

ReconnectDue(s) ==
    /\ s.auto_reconnect
    /\ s.phase = "searching"
    /\ s.reconnect_in = 0

HandshakeTimedOut(s) ==
    /\ s.phase = "handshaking"
    /\ s.handshake_elapsed >= HANDSHAKE_TIMEOUT

(* next_handshake_attempt returns Some exactly when this holds.            *)
HandshakeAttemptDue(s) ==
    /\ s.phase = "handshaking"
    /\ s.handshake_in = 0
    /\ ~HandshakeTimedOut(s)

AwaitingHandshakeReply(s) ==
    /\ s.phase = "handshaking"
    /\ s.handshake_in > 0
    /\ ~HandshakeTimedOut(s)

KeepaliveDue(s) == IsConnected(s) /\ s.keepalive_in = 0

(* read_failed's result: the second consecutive error is a lost link.      *)
LinkLost(s) == s.read_errors >= 2

(***************************************************************************)
(* Methods that change the session                                         *)
(***************************************************************************)

Outbound(s) == [s EXCEPT !.keepalive_in = KEEPALIVE_INTERVAL]

ResetKeepsSynchronized(s) ==
    [s EXCEPT !.handshake_elapsed = NotStarted, !.handshake_attempts = 0,
              !.handshake_in = 0, !.keepalive_in = KEEPALIVE_INTERVAL,
              !.read_errors = 0]

ResetConnectionState(s) ==
    [s EXCEPT !.handshake_elapsed = NotStarted, !.handshake_attempts = 0,
              !.handshake_in = 0, !.keepalive_in = KEEPALIVE_INTERVAL,
              !.read_errors = 0, !.synchronized = FALSE]

RequestReconnect(s) ==
    ResetConnectionState(
        [s EXCEPT !.auto_reconnect = TRUE, !.phase = "searching", !.reconnect_in = 0])

DisconnectAtOnce(s, recover) ==
    ResetConnectionState(
        [s EXCEPT !.auto_reconnect = recover,
                  !.phase = IF recover THEN "searching" ELSE "disconnected",
                  !.reconnect_in = 0])

DisconnectForGood(s, recover) ==
    ResetConnectionState(
        [s EXCEPT !.auto_reconnect = recover, !.phase = "disconnected",
                  !.reconnect_in = RECONNECT_INTERVAL])

DisconnectKeepsPhase(s, recover) ==
    ResetConnectionState(
        [s EXCEPT !.auto_reconnect = recover, !.reconnect_in = RECONNECT_INTERVAL])

DisconnectSession(s, recover) ==
    ResetConnectionState(
        [s EXCEPT !.auto_reconnect = recover,
                  !.phase = IF recover THEN "searching" ELSE "disconnected",
                  !.reconnect_in = RECONNECT_INTERVAL])

ReconnectAttempted(s) == [s EXCEPT !.reconnect_in = RECONNECT_INTERVAL]

TransportOpened(s) ==
    Outbound([s EXCEPT !.phase = "handshaking", !.handshake_elapsed = 0,
                       !.handshake_attempts = 0, !.handshake_in = 0,
                       !.synchronized = FALSE, !.read_errors = 0])

HandshakeAttemptedUnreserved(s) ==
    Outbound([s EXCEPT !.handshake_attempts = IF @ < MAX_ATTEMPTS THEN @ + 1 ELSE @])

(* The effect of next_handshake_attempt when it returns Some.              *)
HandshakeAttempted(s) ==
    Outbound([s EXCEPT !.handshake_attempts = IF @ < MAX_ATTEMPTS THEN @ + 1 ELSE @,
                       !.handshake_in = HANDSHAKE_ATTEMPT_TIMEOUT])

HandshakeCompleted(s, synced) ==
    Outbound([s EXCEPT !.phase = IF synced THEN "ready" ELSE "syncing",
                       !.synchronized = synced, !.read_errors = 0])

StateObserved(s, presetSynced) ==
    LET becomesReady == presetSynced /\ IsConnected(s)
    IN  [s EXCEPT !.read_errors = 0,
                  !.synchronized = @ \/ becomesReady,
                  !.phase = IF becomesReady THEN "ready" ELSE @,
                  !.keepalive_in = KEEPALIVE_INTERVAL]

ReadSucceededPostpones(s) ==
    [s EXCEPT !.read_errors = 0, !.keepalive_in = KEEPALIVE_INTERVAL]

ReadSucceeded(s) == [s EXCEPT !.read_errors = 0]

ReadFailed(s) == [s EXCEPT !.read_errors = IF @ < 2 THEN @ + 1 ELSE 2]

(***************************************************************************)
(* The passage of one tick                                                 *)
(***************************************************************************)

Sooner(t) == IF t > 0 THEN t - 1 ELSE 0

Aged(s) ==
    [s EXCEPT !.reconnect_in = Sooner(@),
              !.handshake_in = Sooner(@),
              !.keepalive_in = Sooner(@),
              !.handshake_elapsed =
                  IF @ = NotStarted \/ @ >= HANDSHAKE_TIMEOUT THEN @ ELSE @ + 1]

=============================================================================
