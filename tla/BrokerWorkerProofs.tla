-------------------------- MODULE BrokerWorkerProofs --------------------------
(***************************************************************************)
(* Proofs about SessionMachine and BrokerWorker, for every number of       *)
(* calls, faults and device changes and every choice of the intervals.     *)
(*                                                                         *)
(* First the session policy alone: each of its invariants speaks of a      *)
(* deadline that has been reached; while it has not, what is inductive is  *)
(* the sum of the time gone by and the time that remains, which one tick   *)
(* leaves as it is and every method only raises.                           *)
(* Then the worker that drives it.  Its connection: what is published      *)
(* about it, what the session policy thinks of it and what the caches hold *)
(* never contradicts it.  And its calls: each is in one place until it is  *)
(* answered, requests wait for the link they were written to, and what     *)
(* answers them is theirs.                                                 *)
(***************************************************************************)
EXTENDS BrokerWorker, SessionMachine, TLAPS

-----------------------------------------------------------------------------
(***************************************************************************)
(* What each method of SessionMachine does to the fields a host can rely   *)
(* on, whatever the profile's intervals are.  The proofs below and those   *)
(* about the broker's worker cite these lemmas and not the methods.        *)
(***************************************************************************)
(* A session with one field replaced by a value of its type is a session.  *)
LEMMA SetField ==
    ASSUME NEW s \in Session
    PROVE  /\ \A v \in SessionPhase : [s EXCEPT !.phase = v] \in Session
           /\ \A v \in BOOLEAN : [s EXCEPT !.auto_reconnect = v] \in Session
           /\ \A v \in 0..RECONNECT_INTERVAL : [s EXCEPT !.reconnect_in = v] \in Session
           /\ \A v \in NotStarted..HANDSHAKE_TIMEOUT :
                 [s EXCEPT !.handshake_elapsed = v] \in Session
           /\ \A v \in 0..MAX_ATTEMPTS : [s EXCEPT !.handshake_attempts = v] \in Session
           /\ \A v \in 0..HANDSHAKE_ATTEMPT_TIMEOUT :
                 [s EXCEPT !.handshake_in = v] \in Session
           /\ \A v \in 0..KEEPALIVE_INTERVAL : [s EXCEPT !.keepalive_in = v] \in Session
           /\ \A v \in 0..2 : [s EXCEPT !.read_errors = v] \in Session
           /\ \A v \in BOOLEAN : [s EXCEPT !.synchronized = v] \in Session
  BY DEF Session

(* The values the methods assign are of their field's type.                *)
LEMMA AssignedValues ==
    /\ 0 \in 0..RECONNECT_INTERVAL /\ RECONNECT_INTERVAL \in 0..RECONNECT_INTERVAL
    /\ NotStarted \in NotStarted..HANDSHAKE_TIMEOUT
    /\ 0 \in NotStarted..HANDSHAKE_TIMEOUT
    /\ 0 \in 0..MAX_ATTEMPTS
    /\ 0 \in 0..HANDSHAKE_ATTEMPT_TIMEOUT
    /\ HANDSHAKE_ATTEMPT_TIMEOUT \in 0..HANDSHAKE_ATTEMPT_TIMEOUT
    /\ KEEPALIVE_INTERVAL \in 0..KEEPALIVE_INTERVAL
    /\ 0 \in 0..2
    /\ "disconnected" \in SessionPhase /\ "searching" \in SessionPhase
    /\ "handshaking" \in SessionPhase
    /\ "syncing" \in SessionPhase /\ "ready" \in SessionPhase
  BY ProfileAssumption DEF NotStarted, SessionPhase

LEMMA NewSessionType == NewSession \in Session
  BY AssignedValues DEF NewSession, Session

LEMMA ResetConnectionStateType ==
    ASSUME NEW s \in Session
    PROVE  ResetConnectionState(s) \in Session
  BY SetField, AssignedValues, Zenon DEF ResetConnectionState

(* Every method returns a session: no deadline leaves its interval and no  *)
(* counter passes its bound.                                               *)
LEMMA MethodsKeepType ==
    ASSUME NEW s \in Session
    PROVE  /\ Outbound(s) \in Session
           /\ RequestReconnect(s) \in Session
           /\ DisconnectSession(s, TRUE) \in Session
           /\ DisconnectSession(s, FALSE) \in Session
           /\ ReconnectAttempted(s) \in Session
           /\ TransportOpened(s) \in Session
           /\ HandshakeAttempted(s) \in Session
           /\ \A b \in BOOLEAN : HandshakeCompleted(s, b) \in Session
           /\ \A b \in BOOLEAN : StateObserved(s, b) \in Session
           /\ ReadSucceeded(s) \in Session
           /\ ReadFailed(s) \in Session
           /\ Aged(s) \in Session
<1> USE SetField, AssignedValues, ResetConnectionStateType
<1>1. ASSUME NEW r \in Session
      PROVE  Outbound(r) \in Session
  BY Zenon DEF Outbound
<1>2. RequestReconnect(s) \in Session
  BY Zenon DEF RequestReconnect
<1>3. DisconnectSession(s, TRUE) \in Session /\ DisconnectSession(s, FALSE) \in Session
  BY Zenon DEF DisconnectSession
<1>4. ReconnectAttempted(s) \in Session
  BY Zenon DEF ReconnectAttempted
<1>5. TransportOpened(s) \in Session
  BY <1>1, Zenon DEF TransportOpened
<1>6. HandshakeAttempted(s) \in Session
  <2> DEFINE n == IF s.handshake_attempts < MAX_ATTEMPTS
                  THEN s.handshake_attempts + 1 ELSE s.handshake_attempts
  <2>1. n \in 0..MAX_ATTEMPTS
    BY ProfileAssumption DEF Session
  <2> HIDE DEF n
  <2> QED
    BY <2>1, <1>1, Zenon DEF HandshakeAttempted, n
<1>7. ASSUME NEW b \in BOOLEAN
      PROVE  HandshakeCompleted(s, b) \in Session
  <2> DEFINE phase == IF b THEN "ready" ELSE "syncing"
  <2>1. phase \in SessionPhase
    OBVIOUS
  <2> HIDE DEF phase
  <2> QED
    BY <2>1, <1>1, Zenon DEF HandshakeCompleted, phase
<1>8. ASSUME NEW b \in BOOLEAN
      PROVE  StateObserved(s, b) \in Session
  <2> DEFINE ready == b /\ IsConnected(s)
             synced == s.synchronized \/ ready
             phase == IF ready THEN "ready" ELSE s.phase
  <2>1. synced \in BOOLEAN
    OBVIOUS
  <2>2. phase \in SessionPhase
    BY DEF Session
  <2> HIDE DEF synced, phase
  <2> QED
    BY <2>1, <2>2, Zenon DEF StateObserved, synced, phase
<1>9. ReadSucceeded(s) \in Session
  BY Zenon DEF ReadSucceeded
<1>10. ReadFailed(s) \in Session
  BY DEF ReadFailed, Session
<1>11. Aged(s) \in Session
  <2> DEFINE elapsed == IF s.handshake_elapsed = NotStarted
                             \/ s.handshake_elapsed >= HANDSHAKE_TIMEOUT
                        THEN s.handshake_elapsed ELSE s.handshake_elapsed + 1
  <2>1. elapsed \in NotStarted..HANDSHAKE_TIMEOUT
    BY ProfileAssumption DEF Session, NotStarted
  <2>2. /\ Sooner(s.reconnect_in) \in 0..RECONNECT_INTERVAL
        /\ Sooner(s.handshake_in) \in 0..HANDSHAKE_ATTEMPT_TIMEOUT
        /\ Sooner(s.keepalive_in) \in 0..KEEPALIVE_INTERVAL
    BY ProfileAssumption DEF Sooner, Session
  <2> HIDE DEF elapsed
  <2> QED
    BY <2>1, <2>2, Zenon DEF Aged, elapsed
<1> QED
  BY <1>1, <1>2, <1>3, <1>4, <1>5, <1>6, <1>7, <1>8, <1>9, <1>10, <1>11

(* Where each method leaves the phase and the intent to reconnect.         *)
LEMMA MethodsSetPhase ==
    ASSUME NEW s \in Session
    PROVE  /\ Outbound(s).phase = s.phase
           /\ Outbound(s).auto_reconnect = s.auto_reconnect
           /\ RequestReconnect(s).phase = "searching"
           /\ RequestReconnect(s).auto_reconnect = TRUE
           /\ DisconnectSession(s, TRUE).phase = "searching"
           /\ DisconnectSession(s, TRUE).auto_reconnect = TRUE
           /\ DisconnectSession(s, FALSE).phase = "disconnected"
           /\ DisconnectSession(s, FALSE).auto_reconnect = FALSE
           /\ TransportOpened(s).phase = "handshaking"
           /\ TransportOpened(s).auto_reconnect = s.auto_reconnect
           /\ HandshakeAttempted(s).phase = s.phase
           /\ HandshakeAttempted(s).auto_reconnect = s.auto_reconnect
           /\ \A b \in BOOLEAN :
                 /\ HandshakeCompleted(s, b).phase = IF b THEN "ready" ELSE "syncing"
                 /\ HandshakeCompleted(s, b).auto_reconnect = s.auto_reconnect
           /\ \A b \in BOOLEAN :
                 /\ IsConnected(StateObserved(s, b)) <=> IsConnected(s)
                 /\ ~IsConnected(s) => StateObserved(s, b).phase = s.phase
                 /\ StateObserved(s, b).auto_reconnect = s.auto_reconnect
           /\ ReadSucceeded(s).phase = s.phase
           /\ ReadSucceeded(s).auto_reconnect = s.auto_reconnect
           /\ ReadFailed(s).phase = s.phase
           /\ ReadFailed(s).auto_reconnect = s.auto_reconnect
           /\ Aged(s).phase = s.phase
           /\ Aged(s).auto_reconnect = s.auto_reconnect
           /\ ReconnectAttempted(s).phase = s.phase
           /\ ReconnectAttempted(s).auto_reconnect = s.auto_reconnect
<1> USE DEF Session, SessionPhase
<1>1. /\ Outbound(s).phase = s.phase
      /\ Outbound(s).auto_reconnect = s.auto_reconnect
  BY DEF Outbound
<1>2. /\ RequestReconnect(s).phase = "searching"
      /\ RequestReconnect(s).auto_reconnect = TRUE
  BY DEF RequestReconnect, ResetConnectionState
<1>3. /\ DisconnectSession(s, TRUE).phase = "searching"
      /\ DisconnectSession(s, TRUE).auto_reconnect = TRUE
      /\ DisconnectSession(s, FALSE).phase = "disconnected"
      /\ DisconnectSession(s, FALSE).auto_reconnect = FALSE
  BY DEF DisconnectSession, ResetConnectionState
<1>4. /\ TransportOpened(s).phase = "handshaking"
      /\ TransportOpened(s).auto_reconnect = s.auto_reconnect
  BY DEF TransportOpened, Outbound
<1>5. /\ HandshakeAttempted(s).phase = s.phase
      /\ HandshakeAttempted(s).auto_reconnect = s.auto_reconnect
  BY DEF HandshakeAttempted, Outbound
<1>6. ASSUME NEW b \in BOOLEAN
      PROVE  /\ HandshakeCompleted(s, b).phase = IF b THEN "ready" ELSE "syncing"
             /\ HandshakeCompleted(s, b).auto_reconnect = s.auto_reconnect
  BY DEF HandshakeCompleted, Outbound
<1>7. ASSUME NEW b \in BOOLEAN
      PROVE  /\ IsConnected(StateObserved(s, b)) <=> IsConnected(s)
             /\ ~IsConnected(s) => StateObserved(s, b).phase = s.phase
             /\ StateObserved(s, b).auto_reconnect = s.auto_reconnect
  BY DEF StateObserved, IsConnected
<1>8. /\ ReadSucceeded(s).phase = s.phase
      /\ ReadSucceeded(s).auto_reconnect = s.auto_reconnect
      /\ ReadFailed(s).phase = s.phase
      /\ ReadFailed(s).auto_reconnect = s.auto_reconnect
  BY DEF ReadSucceeded, ReadFailed
<1>9. /\ Aged(s).phase = s.phase
      /\ Aged(s).auto_reconnect = s.auto_reconnect
      /\ ReconnectAttempted(s).phase = s.phase
      /\ ReconnectAttempted(s).auto_reconnect = s.auto_reconnect
  BY DEF Aged, ReconnectAttempted
<1> QED
  BY <1>1, <1>2, <1>3, <1>4, <1>5, <1>6, <1>7, <1>8, <1>9

-----------------------------------------------------------------------------

(* The time the probes sent stand for is covered by the time that went by  *)
(* and the rest of the current attempt's window.                           *)
ProbesPaced ==
    machine.phase = "handshaking" =>
        /\ machine.handshake_elapsed >= 0
        /\ LET sent == machine.handshake_attempts * HANDSHAKE_ATTEMPT_TIMEOUT
           IN  \/ sent <= machine.handshake_elapsed + machine.handshake_in
               \/ /\ machine.handshake_elapsed = HANDSHAKE_TIMEOUT
                  /\ sent <= machine.handshake_elapsed + HANDSHAKE_ATTEMPT_TIMEOUT

(* On a connected link the keepalive comes due no later than the interval  *)
(* after the last report.                                                  *)
KeepaliveKeepsUp ==
    IsConnected(machine) => silent + machine.keepalive_in <= KEEPALIVE_INTERVAL

(* What remains of the interval makes up for what has not gone by of it.   *)
SearchWaits ==
    machine.phase = "searching" /\ ~requested =>
        sinceOpen + machine.reconnect_in >= RECONNECT_INTERVAL

MachineInv ==
    /\ MachineTypeOK
    /\ ReadyMeansSynchronized
    /\ ProbesPaced
    /\ KeepaliveKeepsUp
    /\ SearchWaits

-----------------------------------------------------------------------------
LEMMA MachineInvInit == MachineInit => MachineInv
<1> SUFFICES ASSUME MachineInit
             PROVE  MachineInv
  OBVIOUS
<1>1. MachineTypeOK
  <2>1. machine \in Session
    BY NewSessionType DEF MachineInit
  <2>2. requested \in BOOLEAN
    BY Zenon DEF MachineInit
  <2>3. sinceOpen \in 0..RECONNECT_INTERVAL /\ silent \in 0..KEEPALIVE_INTERVAL
    BY ProfileAssumption DEF MachineInit
  <2> QED
    BY <2>1, <2>2, <2>3 DEF MachineTypeOK
<1>2. ReadyMeansSynchronized /\ ProbesPaced /\ KeepaliveKeepsUp
  BY DEF MachineInit, NewSession, ReadyMeansSynchronized, ProbesPaced, KeepaliveKeepsUp,
         IsConnected
<1>3. SearchWaits
  BY ProfileAssumption DEF MachineInit, NewSession, SearchWaits
<1> QED
  BY <1>1, <1>2, <1>3 DEF MachineInv

LEMMA TypeStep == MachineTypeOK /\ [MachineNext]_machineVars => MachineTypeOK'
<1> SUFFICES ASSUME MachineTypeOK, [MachineNext]_machineVars
             PROVE  MachineTypeOK'
  OBVIOUS
<1>1. CASE AskReconnect
  <2>1. machine' \in Session
    BY <1>1, MethodsKeepType DEF MachineTypeOK, AskReconnect
  <2>2. requested' \in BOOLEAN
    BY <1>1, Zenon DEF MachineTypeOK, AskReconnect
  <2>3. sinceOpen' \in 0..RECONNECT_INTERVAL /\ silent' \in 0..KEEPALIVE_INTERVAL
    BY <1>1, ProfileAssumption DEF MachineTypeOK, AskReconnect
  <2> QED
    BY <2>1, <2>2, <2>3 DEF MachineTypeOK
<1>2. CASE AskDisconnect
  <2>1. machine' \in Session
    BY <1>2, MethodsKeepType DEF MachineTypeOK, AskDisconnect
  <2>2. requested' \in BOOLEAN
    BY <1>2, Zenon DEF MachineTypeOK, AskDisconnect
  <2>3. sinceOpen' \in 0..RECONNECT_INTERVAL /\ silent' \in 0..KEEPALIVE_INTERVAL
    BY <1>2, ProfileAssumption DEF MachineTypeOK, AskDisconnect
  <2> QED
    BY <2>1, <2>2, <2>3 DEF MachineTypeOK
<1>3. CASE OpenTransport
  <2>1. ReconnectAttempted(machine) \in Session
    BY MethodsKeepType DEF MachineTypeOK
  <2>2. machine' \in Session
    BY <1>3, <2>1, MethodsKeepType DEF MachineTypeOK, OpenTransport
  <2>3. requested' \in BOOLEAN
    BY <1>3, Zenon DEF MachineTypeOK, OpenTransport, Opened
  <2>4. sinceOpen' \in 0..RECONNECT_INTERVAL /\ silent' \in 0..KEEPALIVE_INTERVAL
    BY <1>3, ProfileAssumption DEF MachineTypeOK, OpenTransport, Opened
  <2> QED
    BY <2>2, <2>3, <2>4 DEF MachineTypeOK
<1>4. CASE OpenFails
  <2>1. ReconnectAttempted(machine) \in Session
    BY MethodsKeepType DEF MachineTypeOK
  <2>2. machine' \in Session
    BY <1>4, <2>1, MethodsKeepType DEF MachineTypeOK, OpenFails
  <2>3. requested' \in BOOLEAN
    BY <1>4, Zenon DEF MachineTypeOK, OpenFails, Opened
  <2>4. sinceOpen' \in 0..RECONNECT_INTERVAL /\ silent' \in 0..KEEPALIVE_INTERVAL
    BY <1>4, ProfileAssumption DEF MachineTypeOK, OpenFails, Opened
  <2> QED
    BY <2>2, <2>3, <2>4 DEF MachineTypeOK
<1>5. CASE SendHandshake
  <2>1. machine' \in Session
    BY <1>5, MethodsKeepType DEF MachineTypeOK, SendHandshake
  <2>2. requested' \in BOOLEAN
    BY <1>5, Zenon DEF MachineTypeOK, SendHandshake
  <2>3. sinceOpen' \in 0..RECONNECT_INTERVAL /\ silent' \in 0..KEEPALIVE_INTERVAL
    BY <1>5, ProfileAssumption DEF MachineTypeOK, SendHandshake
  <2> QED
    BY <2>1, <2>2, <2>3 DEF MachineTypeOK
<1>6. ASSUME NEW synced \in BOOLEAN, CompleteHandshake(synced)
      PROVE  MachineTypeOK'
  <2>1. machine' \in Session
    BY <1>6, MethodsKeepType DEF MachineTypeOK, CompleteHandshake
  <2>2. requested' \in BOOLEAN
    BY <1>6, Zenon DEF MachineTypeOK, CompleteHandshake
  <2>3. sinceOpen' \in 0..RECONNECT_INTERVAL /\ silent' \in 0..KEEPALIVE_INTERVAL
    BY <1>6, ProfileAssumption DEF MachineTypeOK, CompleteHandshake
  <2> QED
    BY <2>1, <2>2, <2>3 DEF MachineTypeOK
<1>7. CASE AbandonHandshake
  <2>1. machine' \in Session
    BY <1>7, MethodsKeepType DEF MachineTypeOK, AbandonHandshake
  <2>2. requested' \in BOOLEAN
    BY <1>7, Zenon DEF MachineTypeOK, AbandonHandshake
  <2>3. sinceOpen' \in 0..RECONNECT_INTERVAL /\ silent' \in 0..KEEPALIVE_INTERVAL
    BY <1>7, ProfileAssumption DEF MachineTypeOK, AbandonHandshake
  <2> QED
    BY <2>1, <2>2, <2>3 DEF MachineTypeOK
<1>8. CASE FailHandshake
  <2>1. machine' \in Session
    BY <1>8, MethodsKeepType DEF MachineTypeOK, FailHandshake
  <2>2. requested' \in BOOLEAN
    BY <1>8, Zenon DEF MachineTypeOK, FailHandshake
  <2>3. sinceOpen' \in 0..RECONNECT_INTERVAL /\ silent' \in 0..KEEPALIVE_INTERVAL
    BY <1>8, ProfileAssumption DEF MachineTypeOK, FailHandshake
  <2> QED
    BY <2>1, <2>2, <2>3 DEF MachineTypeOK
<1>9. ASSUME NEW presetSynced \in BOOLEAN, Observe(presetSynced)
      PROVE  MachineTypeOK'
  <2>1. ReadSucceeded(machine) \in Session
    BY MethodsKeepType DEF MachineTypeOK
  <2>2. machine' \in Session
    BY <1>9, <2>1, MethodsKeepType DEF MachineTypeOK, Observe
  <2>3. requested' \in BOOLEAN
    BY <1>9, Zenon DEF MachineTypeOK, Observe
  <2>4. sinceOpen' \in 0..RECONNECT_INTERVAL /\ silent' \in 0..KEEPALIVE_INTERVAL
    BY <1>9, ProfileAssumption DEF MachineTypeOK, Observe
  <2> QED
    BY <2>2, <2>3, <2>4 DEF MachineTypeOK
<1>10. CASE ReadEmpty
  <2>1. machine' \in Session
    BY <1>10, MethodsKeepType DEF MachineTypeOK, ReadEmpty
  <2>2. requested' \in BOOLEAN
    BY <1>10, Zenon DEF MachineTypeOK, ReadEmpty
  <2>3. sinceOpen' \in 0..RECONNECT_INTERVAL /\ silent' \in 0..KEEPALIVE_INTERVAL
    BY <1>10, ProfileAssumption DEF MachineTypeOK, ReadEmpty
  <2> QED
    BY <2>1, <2>2, <2>3 DEF MachineTypeOK
<1>11. CASE ReadError
  <2>1. ReadFailed(machine) \in Session
    BY MethodsKeepType DEF MachineTypeOK
  <2>2. machine' \in Session
    BY <1>11, <2>1, MethodsKeepType DEF MachineTypeOK, ReadError
  <2>3. requested' \in BOOLEAN
    BY <1>11, Zenon DEF MachineTypeOK, ReadError
  <2>4. sinceOpen' \in 0..RECONNECT_INTERVAL /\ silent' \in 0..KEEPALIVE_INTERVAL
    <3>1. sinceOpen' = sinceOpen /\ (silent' = 0 \/ silent' = silent)
      BY <1>11, Zenon DEF ReadError
    <3> QED
      BY <3>1, ProfileAssumption DEF MachineTypeOK
  <2> QED
    BY <2>2, <2>3, <2>4 DEF MachineTypeOK
<1>12. CASE SendOutbound
  <2>1. machine' \in Session
    BY <1>12, MethodsKeepType DEF MachineTypeOK, SendOutbound
  <2>2. requested' \in BOOLEAN
    BY <1>12, Zenon DEF MachineTypeOK, SendOutbound
  <2>3. sinceOpen' \in 0..RECONNECT_INTERVAL /\ silent' \in 0..KEEPALIVE_INTERVAL
    BY <1>12, ProfileAssumption DEF MachineTypeOK, SendOutbound
  <2> QED
    BY <2>1, <2>2, <2>3 DEF MachineTypeOK
<1>13. CASE PassTime
  <2>1. machine' \in Session
    BY <1>13, MethodsKeepType DEF MachineTypeOK, PassTime
  <2>2. requested' \in BOOLEAN
    BY <1>13, Zenon DEF MachineTypeOK, PassTime
  <2>3. sinceOpen' \in 0..RECONNECT_INTERVAL /\ silent' \in 0..KEEPALIVE_INTERVAL
    BY <1>13, ProfileAssumption DEF MachineTypeOK, PassTime
  <2> QED
    BY <2>1, <2>2, <2>3 DEF MachineTypeOK
<1>14. CASE UNCHANGED machineVars
  BY <1>14 DEF machineVars, MachineTypeOK
<1> QED
  BY <1>1, <1>2, <1>3, <1>4, <1>5, <1>6, <1>7, <1>8, <1>9, <1>10, <1>11, <1>12, <1>13, <1>14 DEF MachineNext

(* Readiness is gained with synchronized and lost with it.                 *)
LEMMA ReadyStep == MachineInv /\ [MachineNext]_machineVars => ReadyMeansSynchronized'
<1> SUFFICES ASSUME MachineInv, [MachineNext]_machineVars
             PROVE  ReadyMeansSynchronized'
  OBVIOUS
<1> USE ProfileAssumption DEF MachineInv, MachineTypeOK, Session, SessionPhase, ReadyMeansSynchronized, IsConnected
<1>1. CASE AskReconnect
  BY <1>1 DEF AskReconnect, RequestReconnect, ResetConnectionState
<1>2. CASE AskDisconnect
  BY <1>2 DEF AskDisconnect, DisconnectSession, ResetConnectionState
<1>3. CASE OpenTransport
  BY <1>3 DEF OpenTransport, Opened, TransportOpened, ReconnectAttempted, Outbound
<1>4. CASE OpenFails
  BY <1>4 DEF OpenFails, Opened, DisconnectSession, ReconnectAttempted, ResetConnectionState
<1>5. CASE SendHandshake
  BY <1>5 DEF SendHandshake, HandshakeAttempted, Outbound
<1>6. ASSUME NEW synced \in BOOLEAN, CompleteHandshake(synced)
      PROVE  ReadyMeansSynchronized'
  BY <1>6 DEF CompleteHandshake, HandshakeCompleted, Outbound
<1>7. CASE AbandonHandshake
  BY <1>7 DEF AbandonHandshake, DisconnectSession, ResetConnectionState
<1>8. CASE FailHandshake
  BY <1>8 DEF FailHandshake, DisconnectSession, ResetConnectionState
<1>9. ASSUME NEW presetSynced \in BOOLEAN, Observe(presetSynced)
      PROVE  ReadyMeansSynchronized'
  BY <1>9 DEF Observe, StateObserved, ReadSucceeded
<1>10. CASE ReadEmpty
  BY <1>10 DEF ReadEmpty, ReadSucceeded
<1>11. CASE ReadError
  BY <1>11 DEF ReadError, ReadFailed, LinkLost, DisconnectSession, ResetConnectionState
<1>12. CASE SendOutbound
  BY <1>12 DEF SendOutbound, Outbound
<1>13. CASE PassTime
  BY <1>13 DEF PassTime, Aged, Sooner
<1>14. CASE UNCHANGED machineVars
  BY <1>14 DEF machineVars
<1> QED
  BY <1>1, <1>2, <1>3, <1>4, <1>5, <1>6, <1>7, <1>8, <1>9, <1>10, <1>11, <1>12, <1>13, <1>14 DEF MachineNext

(* Only a due attempt adds a probe, and it reserves a whole window.        *)
LEMMA ProbeStep == MachineInv /\ [MachineNext]_machineVars => ProbesPaced'
<1> SUFFICES ASSUME MachineInv, [MachineNext]_machineVars
             PROVE  ProbesPaced'
  OBVIOUS
<1> USE ProfileAssumption DEF MachineInv, MachineTypeOK, Session, SessionPhase, ProbesPaced, NotStarted
<1>1. CASE AskReconnect
  BY <1>1 DEF AskReconnect, RequestReconnect, ResetConnectionState
<1>2. CASE AskDisconnect
  BY <1>2 DEF AskDisconnect, DisconnectSession, ResetConnectionState
<1>3. CASE OpenTransport
  BY <1>3 DEF OpenTransport, Opened, TransportOpened, ReconnectAttempted, Outbound
<1>4. CASE OpenFails
  BY <1>4 DEF OpenFails, Opened, DisconnectSession, ReconnectAttempted, ResetConnectionState
<1>5. CASE SendHandshake
  <2>1. /\ machine.phase = "handshaking" /\ machine.handshake_in = 0
        /\ machine.handshake_elapsed < HANDSHAKE_TIMEOUT
    BY <1>5 DEF SendHandshake, HandshakeAttemptDue, HandshakeTimedOut
  <2>2. /\ machine'.handshake_elapsed = machine.handshake_elapsed
        /\ machine'.handshake_in = HANDSHAKE_ATTEMPT_TIMEOUT
        /\ machine'.handshake_attempts
              \in {machine.handshake_attempts, machine.handshake_attempts + 1}
    BY <1>5 DEF SendHandshake, HandshakeAttempted, Outbound
  <2>3. machine.handshake_attempts * HANDSHAKE_ATTEMPT_TIMEOUT
          <= machine.handshake_elapsed
    BY <2>1
  <2>4. machine'.handshake_attempts * HANDSHAKE_ATTEMPT_TIMEOUT
          <= machine.handshake_attempts * HANDSHAKE_ATTEMPT_TIMEOUT
               + HANDSHAKE_ATTEMPT_TIMEOUT
    BY <2>2
  <2> QED
    BY <2>1, <2>2, <2>3, <2>4
<1>6. ASSUME NEW synced \in BOOLEAN, CompleteHandshake(synced)
      PROVE  ProbesPaced'
  BY <1>6 DEF CompleteHandshake, HandshakeCompleted, Outbound
<1>7. CASE AbandonHandshake
  BY <1>7 DEF AbandonHandshake, DisconnectSession, ResetConnectionState
<1>8. CASE FailHandshake
  BY <1>8 DEF FailHandshake, DisconnectSession, ResetConnectionState
<1>9. ASSUME NEW presetSynced \in BOOLEAN, Observe(presetSynced)
      PROVE  ProbesPaced'
  BY <1>9 DEF Observe, StateObserved, ReadSucceeded
<1>10. CASE ReadEmpty
  BY <1>10 DEF ReadEmpty, ReadSucceeded
<1>11. CASE ReadError
  BY <1>11 DEF ReadError, ReadFailed, LinkLost, DisconnectSession, ResetConnectionState
<1>12. CASE SendOutbound
  BY <1>12 DEF SendOutbound, Outbound
<1>13. CASE PassTime
  BY <1>13 DEF PassTime, Aged, Sooner
<1>14. CASE UNCHANGED machineVars
  BY <1>14 DEF machineVars
<1> QED
  BY <1>1, <1>2, <1>3, <1>4, <1>5, <1>6, <1>7, <1>8, <1>9, <1>10, <1>11, <1>12, <1>13, <1>14 DEF MachineNext

(* Whatever rearms the keepalive also ends the silence.                    *)
LEMMA KeepaliveStep == MachineInv /\ [MachineNext]_machineVars => KeepaliveKeepsUp'
<1> SUFFICES ASSUME MachineInv, [MachineNext]_machineVars
             PROVE  KeepaliveKeepsUp'
  OBVIOUS
<1> USE ProfileAssumption DEF MachineInv, MachineTypeOK, Session, SessionPhase, KeepaliveKeepsUp, IsConnected
<1>1. CASE AskReconnect
  BY <1>1 DEF AskReconnect, RequestReconnect, ResetConnectionState
<1>2. CASE AskDisconnect
  BY <1>2 DEF AskDisconnect, DisconnectSession, ResetConnectionState
<1>3. CASE OpenTransport
  BY <1>3 DEF OpenTransport, Opened, TransportOpened, ReconnectAttempted, Outbound
<1>4. CASE OpenFails
  BY <1>4 DEF OpenFails, Opened, DisconnectSession, ReconnectAttempted, ResetConnectionState
<1>5. CASE SendHandshake
  BY <1>5 DEF SendHandshake, HandshakeAttempted, Outbound
<1>6. ASSUME NEW synced \in BOOLEAN, CompleteHandshake(synced)
      PROVE  KeepaliveKeepsUp'
  BY <1>6 DEF CompleteHandshake, HandshakeCompleted, Outbound
<1>7. CASE AbandonHandshake
  BY <1>7 DEF AbandonHandshake, DisconnectSession, ResetConnectionState
<1>8. CASE FailHandshake
  BY <1>8 DEF FailHandshake, DisconnectSession, ResetConnectionState
<1>9. ASSUME NEW presetSynced \in BOOLEAN, Observe(presetSynced)
      PROVE  KeepaliveKeepsUp'
  BY <1>9 DEF Observe, StateObserved, ReadSucceeded
<1>10. CASE ReadEmpty
  BY <1>10 DEF ReadEmpty, ReadSucceeded
<1>11. CASE ReadError
  BY <1>11 DEF ReadError, ReadFailed, LinkLost, DisconnectSession, ResetConnectionState
<1>12. CASE SendOutbound
  BY <1>12 DEF SendOutbound, Outbound
<1>13. CASE PassTime
  BY <1>13 DEF PassTime, Aged, Sooner
<1>14. CASE UNCHANGED machineVars
  BY <1>14 DEF machineVars
<1> QED
  BY <1>1, <1>2, <1>3, <1>4, <1>5, <1>6, <1>7, <1>8, <1>9, <1>10, <1>11, <1>12, <1>13, <1>14 DEF MachineNext

(* A search begins with the whole interval ahead of it, or on request.     *)
LEMMA SearchStep == MachineInv /\ [MachineNext]_machineVars => SearchWaits'
<1> SUFFICES ASSUME MachineInv, [MachineNext]_machineVars
             PROVE  SearchWaits'
  OBVIOUS
<1> USE ProfileAssumption DEF MachineInv, MachineTypeOK, Session, SessionPhase, SearchWaits
<1>1. CASE AskReconnect
  BY <1>1 DEF AskReconnect, RequestReconnect, ResetConnectionState
<1>2. CASE AskDisconnect
  BY <1>2 DEF AskDisconnect, DisconnectSession, ResetConnectionState
<1>3. CASE OpenTransport
  BY <1>3 DEF OpenTransport, Opened, TransportOpened, ReconnectAttempted, Outbound
<1>4. CASE OpenFails
  BY <1>4 DEF OpenFails, Opened, DisconnectSession, ReconnectAttempted, ResetConnectionState
<1>5. CASE SendHandshake
  BY <1>5 DEF SendHandshake, HandshakeAttempted, Outbound
<1>6. ASSUME NEW synced \in BOOLEAN, CompleteHandshake(synced)
      PROVE  SearchWaits'
  BY <1>6 DEF CompleteHandshake, HandshakeCompleted, Outbound
<1>7. CASE AbandonHandshake
  BY <1>7 DEF AbandonHandshake, DisconnectSession, ResetConnectionState
<1>8. CASE FailHandshake
  BY <1>8 DEF FailHandshake, DisconnectSession, ResetConnectionState
<1>9. ASSUME NEW presetSynced \in BOOLEAN, Observe(presetSynced)
      PROVE  SearchWaits'
  BY <1>9 DEF Observe, StateObserved, ReadSucceeded
<1>10. CASE ReadEmpty
  BY <1>10 DEF ReadEmpty, ReadSucceeded
<1>11. CASE ReadError
  <2>1. sinceOpen' = sinceOpen /\ requested' = requested
    BY <1>11 DEF ReadError
  <2>2. CASE machine' = ReadFailed(machine)
    BY <1>11, <2>1, <2>2 DEF ReadError, ReadFailed, IsConnected
  <2>3. CASE machine' = DisconnectSession(ReadFailed(machine), TRUE)
    BY <2>1, <2>3 DEF DisconnectSession, ResetConnectionState
  <2> QED
    BY <1>11, <2>2, <2>3 DEF ReadError
<1>12. CASE SendOutbound
  BY <1>12 DEF SendOutbound, Outbound
<1>13. CASE PassTime
  BY <1>13 DEF PassTime, Aged, Sooner
<1>14. CASE UNCHANGED machineVars
  BY <1>14 DEF machineVars
<1> QED
  BY <1>1, <1>2, <1>3, <1>4, <1>5, <1>6, <1>7, <1>8, <1>9, <1>10, <1>11, <1>12, <1>13, <1>14 DEF MachineNext

-----------------------------------------------------------------------------
(* The inductive invariant holds of every reachable state.                 *)
THEOREM MachineInvariant == MachineSpec => []MachineInv
<1>1. MachineInv /\ [MachineNext]_machineVars => MachineInv'
  BY TypeStep, ReadyStep, ProbeStep, KeepaliveStep, SearchStep DEF MachineInv
<1> QED
  BY MachineInvInit, <1>1, PTL DEF MachineSpec

(* Every field of the session stays in its type: the deadlines in their    *)
(* intervals, the attempts within u32, the read errors within two.         *)
THEOREM MachineTyped == MachineSpec => []MachineTypeOK
<1>1. MachineInv => MachineTypeOK
  BY DEF MachineInv
<1> QED
  BY MachineInvariant, <1>1, PTL

(* The session is ready exactly while it is synchronized.                  *)
THEOREM Readiness == MachineSpec => []ReadyMeansSynchronized
<1>1. MachineInv => ReadyMeansSynchronized
  BY DEF MachineInv
<1> QED
  BY MachineInvariant, <1>1, PTL

(* However often the host polls, one probe is sent per attempt window.     *)
THEOREM Probing == MachineSpec => []OneProbePerWindow
<1>1. MachineInv => OneProbePerWindow
  BY ProfileAssumption
     DEF MachineInv, MachineTypeOK, Session, ProbesPaced, OneProbePerWindow, NotStarted
<1> QED
  BY MachineInvariant, <1>1, PTL

(* A connected link that was silent for the interval has a keepalive due.  *)
THEOREM Keepalive == MachineSpec => []SilentLinkIsProbed
<1>1. MachineInv => SilentLinkIsProbed
  BY ProfileAssumption
     DEF MachineInv, MachineTypeOK, Session, KeepaliveKeepsUp, SilentLinkIsProbed, KeepaliveDue
<1> QED
  BY MachineInvariant, <1>1, PTL

(* An attempt to open the device has waited the interval or was asked for. *)
THEOREM Cadence == MachineSpec => []ReconnectCadence
<1>1. MachineInv => ReconnectCadence
  BY ProfileAssumption
     DEF MachineInv, MachineTypeOK, Session, SearchWaits, ReconnectCadence, ReconnectDue
<1> QED
  BY MachineInvariant, <1>1, PTL

-----------------------------------------------------------------------------
(***************************************************************************)
(* The broker's worker                                                     *)
(***************************************************************************)
(* The types of what this module speaks of.                                *)
LinkType ==
    /\ pc \in Step
    /\ conn \in ConnectedQc
    /\ auto \in BOOLEAN
    /\ session \in Session
    /\ status \in BrokerStatus
    /\ hello \in HelloResult

linkVars == <<pc, conn, auto, session, status, hello>>

(* The steps inside QcUsb::connect and finish_hello.                       *)
HandshakeSteps == {"probe", "await", "initial", "resync", "seed"}

(* What the worker's place in its loop says of the connection.             *)
PlaceTellsLink ==
    /\ pc \in HandshakeSteps => ~Connected /\ auto /\ session.phase = "handshaking"
    /\ pc = "backup" => Connected
    /\ ~auto => ~Connected

LinkInv ==
    /\ LinkType
    /\ PlaceTellsLink
    /\ StatusTracksLink
    /\ SessionTracksLink
    /\ SearchIsArmed

CacheInv ==
    /\ OneLinkPerGeneration
    /\ MessagesAreOfThisLink
    /\ ~auto => latest = {} /\ library = {} /\ fed = {}

-----------------------------------------------------------------------------
(* Lemmas about the records the worker builds.                             *)
LEMMA Truth == TRUE \in BOOLEAN /\ FALSE \in BOOLEAN
  OBVIOUS

LEMMA SetPhaseType ==
    ASSUME NEW phase \in Phase, NEW connected \in BOOLEAN,
           NEW synchronized \in BOOLEAN, status \in BrokerStatus
    PROVE  SetPhase(phase, connected, synchronized) \in BrokerStatus
<1>1. (IF connected THEN status.preset ELSE 0) \in Nat
  BY DEF BrokerStatus
<1> QED
  BY <1>1 DEF SetPhase, BrokerStatus

LEMMA UpdateMessagesType ==
    ASSUME NEW ks, status \in BrokerStatus, conn \in ConnectedQc
    PROVE  /\ UpdateMessages(status, ks) \in BrokerStatus
           /\ UpdateMessages(status, ks).connected = status.connected
           /\ UpdateMessages(status, ks).preset \in {status.preset, conn.link}
           /\ \/ UpdateMessages(status, ks) = status
              \/ /\ UpdateMessages(status, ks).phase = "ready"
                 /\ UpdateMessages(status, ks).synchronized
<1>1. CASE "preset" \in ks
  <2>1. \A s \in BrokerStatus :
          /\ \A v \in Phase : [s EXCEPT !.phase = v] \in BrokerStatus
          /\ \A v \in BOOLEAN : [s EXCEPT !.synchronized = v] \in BrokerStatus
          /\ \A v \in Nat : [s EXCEPT !.preset = v] \in BrokerStatus
    BY DEF BrokerStatus
  <2>2. "ready" \in Phase /\ conn.link \in Nat
    BY DEF Phase, ConnectedQc
  <2>3. UpdateMessages(status, ks) \in BrokerStatus
    BY <1>1, <2>1, <2>2, Zenon DEF UpdateMessages
  <2> QED
    BY <1>1, <2>3 DEF UpdateMessages, BrokerStatus
<1>2. CASE "preset" \notin ks
  BY <1>2 DEF UpdateMessages
<1> QED
  BY <1>1, <1>2

(* A session that is neither opened, nor closed, nor told to stop searching. *)
SameCourse(s) ==
    /\ IsConnected(s) <=> IsConnected(session)
    /\ ~IsConnected(session) => s.phase = session.phase
    /\ s.auto_reconnect = session.auto_reconnect

LEMMA MethodsKeepCourse ==
    ASSUME session \in Session
    PROVE  /\ SameCourse(session)
           /\ SameCourse(Outbound(session))
           /\ SameCourse(ReadSucceeded(session))
           /\ SameCourse(ReadFailed(session))
           /\ SameCourse(Aged(session))
           /\ \A b \in BOOLEAN :
                 SameCourse(KeptAlive(StateObserved(ReadSucceeded(session), b)))
           /\ SameCourse(KeptAlive(ReadSucceeded(session)))
<1>1. ASSUME NEW s \in Session, SameCourse(s)
      PROVE  SameCourse(KeptAlive(s))
  <2>1. Outbound(s).phase = s.phase /\ Outbound(s).auto_reconnect = s.auto_reconnect
    BY MethodsSetPhase
  <2> QED
    BY <1>1, <2>1 DEF SameCourse, KeptAlive, IsConnected
<1>2. ReadSucceeded(session) \in Session /\ SameCourse(ReadSucceeded(session))
  BY MethodsSetPhase, MethodsKeepType DEF SameCourse, IsConnected
<1>3. ASSUME NEW b \in BOOLEAN
      PROVE  /\ StateObserved(ReadSucceeded(session), b) \in Session
             /\ SameCourse(StateObserved(ReadSucceeded(session), b))
  <2> DEFINE r == ReadSucceeded(session)
  <2> HIDE DEF r
  <2>1. r \in Session /\ SameCourse(r)
    BY <1>2 DEF r
  <2>2. /\ IsConnected(StateObserved(r, b)) <=> IsConnected(r)
        /\ ~IsConnected(r) => StateObserved(r, b).phase = r.phase
        /\ StateObserved(r, b).auto_reconnect = r.auto_reconnect
    BY <2>1, MethodsSetPhase
  <2>3. StateObserved(r, b) \in Session
    BY <2>1, MethodsKeepType
  <2> QED
    BY <2>1, <2>2, <2>3 DEF SameCourse, r
<1>4. /\ SameCourse(session) /\ SameCourse(Outbound(session))
      /\ SameCourse(ReadFailed(session)) /\ SameCourse(Aged(session))
  <2> DEFINE Kept(s) == s.phase = session.phase /\ s.auto_reconnect = session.auto_reconnect
  <2>1. Kept(session) /\ Kept(Outbound(session))
    BY MethodsSetPhase
  <2>2. Kept(ReadFailed(session)) /\ Kept(Aged(session))
    BY MethodsSetPhase
  <2>3. \A s : Kept(s) => SameCourse(s)
    BY DEF SameCourse, IsConnected
  <2> HIDE DEF Kept
  <2> QED
    BY <2>1, <2>2, <2>3
<1> QED
  BY <1>1, <1>2, <1>3, <1>4

LEMMA KeptAliveType ==
    ASSUME NEW s \in Session
    PROVE  KeptAlive(s) \in Session
  BY MethodsKeepType DEF KeptAlive

-----------------------------------------------------------------------------
(* The shapes a step of the worker has as far as the connection goes.      *)

(* Nothing, or the session's clock and counters.                           *)
LEMMA SessionAgesShape ==
    ASSUME LinkInv, UNCHANGED <<pc, conn, auto, status, hello>>,
           session' \in Session, SameCourse(session'),
           session'.phase = session.phase
    PROVE  LinkInv'
<1> USE DEF LinkInv, SameCourse, Connected
<1>1. LinkType'
  BY DEF LinkType
<1>2. PlaceTellsLink'
  BY DEF PlaceTellsLink
<1>3. StatusTracksLink'
  BY DEF StatusTracksLink
<1>4. SessionTracksLink' /\ SearchIsArmed'
  BY DEF SessionTracksLink, SearchIsArmed
<1> QED
  BY <1>1, <1>2, <1>3, <1>4

(* The loop goes on with the connection it has, or has not.                *)
LEMMA LoopShape ==
    ASSUME LinkInv, pc \in {"drain", "read"}, pc' \in {"drain", "read"},
           UNCHANGED <<conn, auto, hello>>,
           session' \in Session, SameCourse(session'),
           \/ status' = status
           \/ Connected /\ \E ks \in SUBSET Kinds : status' = UpdateMessages(status, ks)
    PROVE  LinkInv'
<1> USE DEF LinkInv, SameCourse, Connected
<1>1. LinkType'
  BY UpdateMessagesType DEF LinkType, Step
<1>2. PlaceTellsLink'
  BY DEF PlaceTellsLink, HandshakeSteps
<1>3. StatusTracksLink'
  BY UpdateMessagesType DEF StatusTracksLink, LinkType
<1>4. SessionTracksLink' /\ SearchIsArmed'
  BY DEF SessionTracksLink, SearchIsArmed, IsConnected
<1> QED
  BY <1>1, <1>2, <1>3, <1>4

(* An open or a handshake fails.                                           *)
LEMMA SearchAgainShape ==
    ASSUME LinkInv, ~Connected, pc # "stopped", NEW s \in Session,
           NEW phase \in {"searching", "error"}, SearchAgain(s, phase)
    PROVE  LinkInv'
<1> USE DEF LinkInv, SearchAgain, Connected
<1>1. session' \in Session /\ session'.phase = "searching" /\ session'.auto_reconnect
  BY MethodsKeepType, MethodsSetPhase
<1>2. LinkType'
  <2>1. status' \in BrokerStatus
    BY SetPhaseType, Truth, Zenon DEF LinkType, Phase
  <2>2. hello' \in HelloResult
    BY Truth, Zenon DEF HelloResult, NoHello
  <2> QED
    BY <1>1, <2>1, <2>2 DEF LinkType, Step
<1>3. PlaceTellsLink'
  BY DEF PlaceTellsLink, HandshakeSteps
<1>4. StatusTracksLink'
  BY DEF StatusTracksLink, SetPhase
<1>5. SessionTracksLink' /\ SearchIsArmed'
  BY <1>1 DEF SessionTracksLink, SearchIsArmed, IsConnected
<1> QED
  BY <1>2, <1>3, <1>4, <1>5

(* The handshake goes on.                                                  *)
LEMMA HandshakingShape ==
    ASSUME LinkInv, NEW from \in HandshakeSteps, NEW to \in HandshakeSteps,
           Handshaking(from, to), session' \in Session,
           session'.phase = session.phase, hello' \in HelloResult
    PROVE  LinkInv'
<1> USE DEF LinkInv, Handshaking, HandshakeSteps, Connected
<1>1. LinkType'
  BY DEF LinkType, Step
<1>2. PlaceTellsLink'
  BY DEF PlaceTellsLink
<1>3. StatusTracksLink'
  BY DEF StatusTracksLink
<1>4. SessionTracksLink' /\ SearchIsArmed'
  BY DEF SessionTracksLink, SearchIsArmed
<1> QED
  BY <1>1, <1>2, <1>3, <1>4

(* The backup is over, with its document or without.                       *)
LEMMA BackupShape ==
    ASSUME LinkInv, NEW outcome, NEW ingested, BackupReturns(outcome, ingested)
    PROVE  LinkInv'
<1> USE DEF LinkInv, BackupReturns, Connected
<1> DEFINE phase == IF conn.synced THEN "ready" ELSE "syncing"
           base == SetPhase(phase, TRUE, conn.synced)
           told == UpdateMessages(status, ingested).preset
<1>1. Connected /\ session' \in Session /\ SameCourse(session')
  BY MethodsKeepType, MethodsKeepCourse DEF LinkType, PlaceTellsLink
<1>2. told \in {status.preset, conn.link}
  BY UpdateMessagesType DEF LinkType
<1>3. base \in BrokerStatus
  <2>1. phase \in Phase /\ conn.synced \in BOOLEAN
    BY DEF LinkType, ConnectedQc, Phase
  <2> QED
    BY <2>1, SetPhaseType, Truth, Zenon DEF LinkType
<1>4. told \in Nat
  BY <1>2 DEF LinkType, BrokerStatus, ConnectedQc
<1>5. status' = [base EXCEPT !.preset = told]
  OBVIOUS
<1>6. /\ status'.phase = phase /\ status'.connected = TRUE
      /\ status'.synchronized = conn.synced /\ status'.preset = told
  BY <1>4, <1>5 DEF SetPhase
<1>7. LinkType'
  <2>1. status' \in BrokerStatus
    BY <1>3, <1>4, <1>5 DEF BrokerStatus
  <2> QED
    BY <1>1, <2>1 DEF LinkType, Step
<1>8. PlaceTellsLink'
  BY <1>1 DEF PlaceTellsLink, HandshakeSteps
<1>9. StatusTracksLink'
  <2>1. status'.connected /\ Connected'
    BY <1>1, <1>6
  <2>2. status'.phase = "ready" => status'.synchronized
    <3>1. CASE conn.synced
      BY <1>6, <3>1, Zenon
    <3>2. CASE ~conn.synced
      <4>1. phase = "syncing"
        BY <3>2, Zenon
      <4> HIDE DEF phase
      <4> QED
        BY <1>6, <4>1
    <3> QED
      BY <3>1, <3>2
  <2>3. status.preset \in {0, conn.link}
    BY <1>1 DEF StatusTracksLink, PlaceTellsLink
  <2>4. status'.preset \in {0, conn'.link}
    BY <1>2, <1>6, <2>3
  <2> QED
    BY <2>1, <2>2, <2>4 DEF StatusTracksLink
<1>10. SessionTracksLink' /\ SearchIsArmed'
  BY <1>1 DEF SessionTracksLink, SearchIsArmed, SameCourse
<1> QED
  BY <1>7, <1>8, <1>9, <1>10

LEMMA HelloType ==
    ASSUME hello \in HelloResult
    PROVE  /\ NoHello \in HelloResult
           /\ [synced |-> TRUE, preset |-> TRUE] \in HelloResult
           /\ [hello EXCEPT !.preset = TRUE] \in HelloResult
<1>1. NoHello \in HelloResult /\ [synced |-> TRUE, preset |-> TRUE] \in HelloResult
  BY Truth, Zenon DEF NoHello, HelloResult
<1>2. \A v \in BOOLEAN : [hello EXCEPT !.preset = v] \in HelloResult
  BY DEF HelloResult
<1> QED
  BY <1>1, <1>2, Truth, Zenon

LEMMA HandleReconnectLink ==
    ASSUME LinkInv, HandleReconnect
    PROVE  LinkInv'
<1> USE DEF LinkInv, HandleReconnect, Receive, CloseLink, Connected
<1>1. conn' = NoConn /\ conn' \in ConnectedQc /\ conn'.link = 0
  BY Truth DEF NoConn, ConnectedQc
<1>2. /\ session' \in Session /\ session'.phase = "searching"
      /\ session'.auto_reconnect
  <2>1. session \in Session /\ session' = RequestReconnect(session)
    BY DEF LinkType
  <2> QED
    BY ONLY <2>1, MethodsKeepType, MethodsSetPhase
<1>3. LinkType'
  <2>1. status' \in BrokerStatus
    BY SetPhaseType, Truth, Zenon DEF LinkType, Phase
  <2>2. auto' \in BOOLEAN
    BY Truth, Zenon DEF LinkType
  <2> QED
    BY <1>1, <1>2, <2>1, <2>2 DEF LinkType, busyVars, Step
<1>4. PlaceTellsLink'
  BY <1>1 DEF PlaceTellsLink, HandshakeSteps, busyVars
<1>5. StatusTracksLink'
  BY <1>1 DEF StatusTracksLink, SetPhase
<1>6. SessionTracksLink' /\ SearchIsArmed'
  BY <1>1, <1>2 DEF SessionTracksLink, SearchIsArmed, IsConnected
<1> QED
  BY <1>3, <1>4, <1>5, <1>6

LEMMA HandleDisconnectLink ==
    ASSUME LinkInv, HandleDisconnect
    PROVE  LinkInv'
<1> USE DEF LinkInv, HandleDisconnect, Receive, CloseLink, Connected
<1>1. conn' = NoConn /\ conn' \in ConnectedQc /\ conn'.link = 0
  BY Truth DEF NoConn, ConnectedQc
<1>2. /\ session' \in Session /\ session'.phase = "disconnected"
  <2>1. session \in Session /\ session' = DisconnectSession(session, FALSE)
    BY DEF LinkType
  <2> QED
    BY ONLY <2>1, MethodsKeepType, MethodsSetPhase
<1>3. LinkType'
  <2>1. status' \in BrokerStatus
    BY SetPhaseType, Truth, Zenon DEF LinkType, Phase
  <2>2. auto' \in BOOLEAN
    BY Truth, Zenon DEF LinkType
  <2> QED
    BY <1>1, <1>2, <2>1, <2>2 DEF LinkType, busyVars, Step
<1>4. PlaceTellsLink'
  BY <1>1 DEF PlaceTellsLink, HandshakeSteps, busyVars
<1>5. StatusTracksLink'
  BY <1>1 DEF StatusTracksLink, SetPhase
<1>6. SessionTracksLink' /\ SearchIsArmed'
  BY <1>1, <1>2 DEF SessionTracksLink, SearchIsArmed, IsConnected
<1> QED
  BY <1>3, <1>4, <1>5, <1>6

LEMMA LoseLinkLink ==
    ASSUME LinkInv, LoseLink
    PROVE  LinkInv'
<1> USE DEF LinkInv, LoseLink, CloseLink, Connected
<1>1. conn' = NoConn /\ conn' \in ConnectedQc /\ conn'.link = 0
  BY Truth DEF NoConn, ConnectedQc
<1>2. /\ session' \in Session /\ session'.phase = "searching"
      /\ session'.auto_reconnect
  BY MethodsKeepType, MethodsSetPhase DEF LinkType
<1>3. LinkType'
  <2>1. status' \in BrokerStatus
    BY SetPhaseType, Truth, Zenon DEF LinkType, Phase
  <2>2. auto' \in BOOLEAN
    BY Truth, Zenon DEF LinkType
  <2> QED
    BY <1>1, <1>2, <2>1, <2>2 DEF LinkType, busyVars, Step
<1>4. PlaceTellsLink'
  BY <1>1 DEF PlaceTellsLink, HandshakeSteps, busyVars
<1>5. StatusTracksLink'
  BY <1>1 DEF StatusTracksLink, SetPhase
<1>6. SessionTracksLink' /\ SearchIsArmed'
  BY <1>1, <1>2 DEF SessionTracksLink, SearchIsArmed, IsConnected
<1> QED
  BY <1>3, <1>4, <1>5, <1>6

LEMMA HandleStopLink ==
    ASSUME LinkInv, HandleStop
    PROVE  LinkInv'
<1> USE DEF LinkInv, HandleStop, Receive, CloseLink, Connected
<1>1. conn' = NoConn /\ conn' \in ConnectedQc /\ conn'.link = 0
  BY Truth DEF NoConn, ConnectedQc
<1>2. LinkType' /\ PlaceTellsLink'
  BY <1>1 DEF LinkType, PlaceTellsLink, HandshakeSteps, statusVars, busyVars, Step
<1>3. StatusTracksLink' /\ SessionTracksLink' /\ SearchIsArmed'
  BY DEF StatusTracksLink, SessionTracksLink, SearchIsArmed
<1> QED
  BY <1>2, <1>3

LEMMA HandleBackupLink ==
    ASSUME LinkInv, HandleBackup
    PROVE  LinkInv'
<1> USE DEF LinkInv, HandleBackup, Receive
<1> DEFINE synced == Connected /\ conn.synced
<1>1. /\ pc = "drain" /\ pc' = IF Connected THEN "backup" ELSE pc
      /\ UNCHANGED <<conn, auto, hello>>
      /\ status' = SetPhase("syncing", Connected, synced)
  OBVIOUS
<1>2. session' \in Session /\ SameCourse(session')
  BY MethodsKeepType, MethodsKeepCourse DEF LinkType
<1>3. LinkType'
  <2>1. Connected \in BOOLEAN /\ synced \in BOOLEAN
    BY DEF Connected
  <2>2. status' \in BrokerStatus
    BY <1>1, <2>1, SetPhaseType, Zenon DEF LinkType, Phase
  <2> QED
    BY <1>1, <1>2, <2>2 DEF LinkType, Step
<1>4. PlaceTellsLink'
  BY <1>1 DEF PlaceTellsLink, HandshakeSteps, Connected
<1>5. StatusTracksLink'
  <2>1. /\ status'.phase = "syncing" /\ (status'.connected <=> Connected)
        /\ (status'.synchronized => Connected)
        /\ status'.preset = IF Connected THEN status.preset ELSE 0
    BY <1>1 DEF SetPhase
  <2> QED
    BY <1>1, <2>1 DEF StatusTracksLink, Connected
<1>6. SessionTracksLink' /\ SearchIsArmed'
  BY <1>1, <1>2 DEF SessionTracksLink, SearchIsArmed, SameCourse, Connected
<1> QED
  BY <1>3, <1>4, <1>5, <1>6

LEMMA OpenLink ==
    ASSUME LinkInv, Open
    PROVE  LinkInv'
<1> USE DEF LinkInv, Open, OpenDue, Connected
<1>1. session' \in Session /\ session'.phase = "handshaking"
  <2>1. ReconnectAttempted(session) \in Session
    BY MethodsKeepType DEF LinkType
  <2> QED
    BY <2>1, MethodsKeepType, MethodsSetPhase
<1>2. LinkType'
  <2>1. status' \in BrokerStatus
    BY SetPhaseType, Truth, Zenon DEF LinkType, Phase
  <2>2. hello' \in HelloResult
    BY HelloType DEF LinkType
  <2> QED
    BY <1>1, <2>1, <2>2 DEF LinkType, Step
<1>3. PlaceTellsLink'
  BY <1>1 DEF PlaceTellsLink
<1>4. StatusTracksLink'
  BY DEF StatusTracksLink, SetPhase
<1>5. SessionTracksLink' /\ SearchIsArmed'
  BY DEF SessionTracksLink, SearchIsArmed
<1> QED
  BY <1>2, <1>3, <1>4, <1>5

LEMMA InstallLink ==
    ASSUME LinkInv, Install
    PROVE  LinkInv'
<1> USE DEF LinkInv, Install
<1>1. PICK link \in NewLinks :
        /\ conn' = [link |-> link, synced |-> hello.synced]
        /\ status' = [phase |-> IF hello.synced THEN "ready" ELSE "syncing",
                      connected |-> TRUE, synchronized |-> hello.synced,
                      preset |-> IF hello.preset THEN link ELSE 0]
  OBVIOUS
<1>2. link \in Nat /\ link # 0
  BY BoundsAssumption DEF NewLinks, Oldest, Link
<1>3. hello.synced \in BOOLEAN /\ hello.preset \in BOOLEAN
  BY DEF LinkType, HelloResult
<1>4. conn' \in ConnectedQc /\ conn'.link = link
  BY <1>1, <1>2, <1>3 DEF ConnectedQc
<1>5. Connected'
  BY <1>2, <1>4 DEF Connected
<1>6. session' \in Session /\ IsConnected(session')
  <2>1. session' \in Session
    BY <1>3, MethodsKeepType DEF LinkType
  <2>2. session'.phase \in {"ready", "syncing"}
    <3>1. /\ session \in Session /\ hello.synced \in BOOLEAN
          /\ session' = HandshakeCompleted(session, hello.synced)
      BY <1>3 DEF LinkType
    <3>2. ASSUME NEW b \in BOOLEAN
          PROVE  HandshakeCompleted(session, b).phase \in {"ready", "syncing"}
      BY ONLY <3>1 DEF HandshakeCompleted, Outbound, Session
    <3> QED
      BY ONLY <3>1, <3>2
  <2> QED
    BY <2>1, <2>2 DEF IsConnected
<1>7. LinkType'
  <2> DEFINE phase == IF hello.synced THEN "ready" ELSE "syncing"
             preset == IF hello.preset THEN link ELSE 0
  <2>1. phase \in Phase /\ preset \in Nat
    BY <1>2 DEF Phase
  <2>2. status' = [phase |-> phase, connected |-> TRUE,
                   synchronized |-> hello.synced, preset |-> preset]
    BY <1>1
  <2> HIDE DEF phase, preset
  <2>3. status' \in BrokerStatus
    BY <1>3, <2>1, <2>2, Truth, Zenon DEF BrokerStatus
  <2>4. hello' \in HelloResult
    BY HelloType DEF LinkType
  <2> QED
    BY <1>4, <1>6, <2>3, <2>4 DEF LinkType, Step
<1>8. PlaceTellsLink'
  BY <1>5 DEF PlaceTellsLink, HandshakeSteps
<1>9. StatusTracksLink'
  <2>1. status'.connected /\ status'.preset \in {0, link}
    BY <1>1
  <2>2. status'.phase = "ready" => status'.synchronized
    BY <1>1, <1>3
  <2> QED
    BY <1>4, <1>5, <2>1, <2>2 DEF StatusTracksLink
<1>10. SessionTracksLink' /\ SearchIsArmed'
  BY <1>5, <1>6 DEF SessionTracksLink, SearchIsArmed
<1> QED
  BY <1>7, <1>8, <1>9, <1>10

-----------------------------------------------------------------------------
LEMMA LinkStep == LinkInv /\ [Next]_vars => LinkInv'
<1> SUFFICES ASSUME LinkInv, [Next]_vars
             PROVE  LinkInv'
  OBVIOUS
<1>1. ASSUME NEW kind \in CallKinds, Post(kind)
      PROVE  LinkInv'
  BY <1>1, MethodsKeepCourse, SessionAgesShape
     DEF Post, Enqueue, LinkInv, LinkType, statusVars, busyVars
<1>2. ASSUME NEW t \in Ticket, GiveUp(t)
      PROVE  LinkInv'
  BY <1>2, MethodsKeepCourse, SessionAgesShape
     DEF GiveUp, LinkInv, LinkType, statusVars, busyVars
<1>3. CASE DropController
  BY <1>3, MethodsKeepCourse, SessionAgesShape
     DEF DropController, Enqueue, LinkInv, LinkType, statusVars, busyVars
<1>4. CASE HandleSatisfiedReconnect
  BY <1>4, MethodsKeepCourse, SessionAgesShape
     DEF HandleSatisfiedReconnect, Receive, LinkInv, LinkType, statusVars, busyVars
<1>5. CASE HandleReconnect
  BY <1>5, HandleReconnectLink
<1>6. CASE HandleDisconnect
  BY <1>6, HandleDisconnectLink
<1>7. CASE HandleSend
  <2>1. session' = Outbound(session)
    BY <1>7 DEF HandleSend
  <2>2. session' \in Session
    BY <2>1, MethodsKeepType DEF LinkInv, LinkType
  <2>3. SameCourse(session') /\ session'.phase = session.phase
    BY <2>1, MethodsSetPhase, MethodsKeepCourse DEF LinkInv, LinkType
  <2> QED
    BY <1>7, <2>2, <2>3, SessionAgesShape DEF HandleSend, Receive, busyVars
<1>8. CASE HandleRequest
  <2>1. session' = Outbound(session)
    BY <1>8 DEF HandleRequest
  <2>2. session' \in Session
    BY <2>1, MethodsKeepType DEF LinkInv, LinkType
  <2>3. SameCourse(session') /\ session'.phase = session.phase
    BY <2>1, MethodsSetPhase, MethodsKeepCourse DEF LinkInv, LinkType
  <2> QED
    BY <1>8, <2>2, <2>3, SessionAgesShape DEF HandleRequest, Receive, busyVars
<1>9. CASE Refuse
  BY <1>9, MethodsKeepCourse, SessionAgesShape
     DEF Refuse, Receive, LinkInv, LinkType, statusVars, busyVars
<1>10. CASE HandleBackup
  BY <1>10, HandleBackupLink
<1>11. CASE HandleStop
  BY <1>11, HandleStopLink
<1>12. CASE NothingToOpen
  <2>1. session' \in Session /\ SameCourse(session')
    BY <1>12, MethodsKeepType, MethodsKeepCourse, KeptAliveType
       DEF NothingToOpen, OpenDue, LinkInv, LinkType, ConnectedQc, statusVars
  <2> QED
    BY <1>12, <2>1, LoopShape DEF NothingToOpen, OpenDue, statusVars, busyVars
<1>13. CASE OpenUnavailable
  <2>1. ReconnectAttempted(session) \in Session
    BY MethodsKeepType DEF LinkInv, LinkType
  <2>2. ~Connected /\ pc # "stopped"
    BY <1>13 DEF OpenUnavailable, OpenDue, LinkInv, PlaceTellsLink, HandshakeSteps
  <2> QED
    BY <1>13, <2>1, <2>2, SearchAgainShape DEF OpenUnavailable
<1>14. CASE OpenError
  <2>1. ReconnectAttempted(session) \in Session
    BY MethodsKeepType DEF LinkInv, LinkType
  <2>2. ~Connected /\ pc # "stopped"
    BY <1>14 DEF OpenError, OpenDue, LinkInv, PlaceTellsLink, HandshakeSteps
  <2> QED
    BY <1>14, <2>1, <2>2, SearchAgainShape DEF OpenError
<1>15. CASE Open
  BY <1>15, OpenLink
<1>16. CASE SendResetComms
  <2>1. session' \in Session /\ session'.phase = session.phase
    BY <1>16, MethodsKeepType, MethodsSetPhase DEF SendResetComms, LinkInv, LinkType
  <2>2. hello' \in HelloResult
    BY <1>16, HelloType DEF SendResetComms, LinkInv, LinkType
  <2> QED
    BY <1>16, <2>1, <2>2, HandshakingShape DEF SendResetComms, HandshakeSteps
<1>17. CASE HandshakeTimeout
  <2>1. session \in Session
    BY MethodsKeepType DEF LinkInv, LinkType
  <2>2. ~Connected /\ pc # "stopped"
    BY <1>17 DEF HandshakeTimeout, LinkInv, PlaceTellsLink, HandshakeSteps
  <2> QED
    BY <1>17, <2>1, <2>2, SearchAgainShape DEF HandshakeTimeout
<1>18. CASE AttemptTimeout
  <2>1. session' \in Session /\ session'.phase = session.phase
    BY <1>18, MethodsKeepType, MethodsSetPhase DEF AttemptTimeout, LinkInv, LinkType
  <2>2. hello' \in HelloResult
    BY <1>18, HelloType DEF AttemptTimeout, LinkInv, LinkType
  <2> QED
    BY <1>18, <2>1, <2>2, HandshakingShape DEF AttemptTimeout, HandshakeSteps
<1>19. CASE HelloReply
  <2>1. session' \in Session /\ session'.phase = session.phase
    BY <1>19, MethodsKeepType, MethodsSetPhase DEF HelloReply, LinkInv, LinkType
  <2>2. hello' \in HelloResult
    BY <1>19, HelloType DEF HelloReply, LinkInv, LinkType
  <2> QED
    BY <1>19, <2>1, <2>2, HandshakingShape DEF HelloReply, HandshakeSteps
<1>20. CASE HelloPreset
  <2>1. session' \in Session /\ session'.phase = session.phase
    BY <1>20, MethodsKeepType, MethodsSetPhase DEF HelloPreset, LinkInv, LinkType
  <2>2. hello' \in HelloResult
    BY <1>20, HelloType DEF HelloPreset, LinkInv, LinkType
  <2> QED
    BY <1>20, <2>1, <2>2, HandshakingShape DEF HelloPreset, HandshakeSteps
<1>21. CASE InitialSyncTimeout
  <2>1. session' \in Session /\ session'.phase = session.phase
    BY <1>21, MethodsKeepType, MethodsSetPhase DEF InitialSyncTimeout, LinkInv, LinkType
  <2>2. hello' \in HelloResult
    BY <1>21, HelloType DEF InitialSyncTimeout, LinkInv, LinkType
  <2> QED
    BY <1>21, <2>1, <2>2, HandshakingShape DEF InitialSyncTimeout, HandshakeSteps
<1>22. CASE PresetSyncTimeout
  <2>1. session' \in Session /\ session'.phase = session.phase
    BY <1>22, MethodsKeepType, MethodsSetPhase DEF PresetSyncTimeout, LinkInv, LinkType
  <2>2. hello' \in HelloResult
    BY <1>22, HelloType DEF PresetSyncTimeout, LinkInv, LinkType
  <2> QED
    BY <1>22, <2>1, <2>2, HandshakingShape DEF PresetSyncTimeout, HandshakeSteps
<1>23. CASE SeedPreset
  <2>1. session' \in Session /\ session'.phase = session.phase
    BY <1>23, MethodsKeepType, MethodsSetPhase DEF SeedPreset, LinkInv, LinkType
  <2>2. hello' \in HelloResult
    BY <1>23, HelloType DEF SeedPreset, LinkInv, LinkType
  <2> QED
    BY <1>23, <2>1, <2>2, HandshakingShape DEF SeedPreset, HandshakeSteps
<1>24. CASE HandshakeReadError
  <2>1. session \in Session
    BY MethodsKeepType DEF LinkInv, LinkType
  <2>2. ~Connected /\ pc # "stopped"
    BY <1>24 DEF HandshakeReadError, LinkInv, PlaceTellsLink, HandshakeSteps
  <2> QED
    BY <1>24, <2>1, <2>2, SearchAgainShape DEF HandshakeReadError
<1>25. CASE Install
  BY <1>25, InstallLink
<1>26. CASE ReadMessage
  <2>1. session' \in Session /\ SameCourse(session')
    BY <1>26, MethodsKeepType, MethodsKeepCourse, KeptAliveType
       DEF ReadMessage, BackToCommands, KeptAlive, LinkInv, LinkType, ConnectedQc, statusVars
  <2>2. PICK kind \in Kinds : status' = UpdateMessages(status, {kind})
    BY <1>26, Zenon DEF ReadMessage
  <2> QED
    BY <1>26, <2>1, <2>2, LoopShape DEF ReadMessage, BackToCommands, KeptAlive, busyVars
<1>27. CASE ReadNothing
  <2>1. session' \in Session /\ SameCourse(session')
    BY <1>27, MethodsKeepType, MethodsKeepCourse, KeptAliveType
       DEF ReadNothing, BackToCommands, KeptAlive, LinkInv, LinkType, ConnectedQc, statusVars
  <2> QED
    BY <1>27, <2>1, LoopShape DEF ReadNothing, BackToCommands, KeptAlive, statusVars, busyVars
<1>28. CASE ReadToleratedError
  <2>1. session' \in Session /\ SameCourse(session')
    BY <1>28, MethodsKeepType, MethodsKeepCourse, KeptAliveType
       DEF ReadToleratedError, BackToCommands, LinkInv, LinkType, ConnectedQc, statusVars
  <2> QED
    BY <1>28, <2>1, LoopShape DEF ReadToleratedError, BackToCommands, statusVars, busyVars
<1>29. CASE LoseLink
  BY <1>29, LoseLinkLink
<1>30. CASE Sleep
  <2>1. session' \in Session /\ SameCourse(session')
    BY <1>30, MethodsKeepType, MethodsKeepCourse, KeptAliveType
       DEF Sleep, BackToCommands, LinkInv, LinkType, ConnectedQc, statusVars
  <2> QED
    BY <1>30, <2>1, LoopShape DEF Sleep, BackToCommands, statusVars, busyVars
<1>31. CASE BackupSideMessage
  BY <1>31, MethodsKeepCourse, SessionAgesShape
     DEF BackupSideMessage, LinkInv, LinkType, statusVars, busyVars
<1>32. CASE BackupCompletes
  BY <1>32, BackupShape DEF BackupCompletes
<1>33. CASE BackupTimesOut
  BY <1>33, BackupShape DEF BackupTimesOut
<1>34. CASE BackupReadError
  BY <1>34, BackupShape DEF BackupReadError
<1>35. CASE Tick
  <2>1. session' \in Session /\ SameCourse(session') /\ session'.phase = session.phase
    BY <1>35, MethodsKeepType, MethodsSetPhase, MethodsKeepCourse
       DEF Tick, LinkInv, LinkType
  <2> QED
    BY <1>35, <2>1, SessionAgesShape DEF Tick, busyVars
<1>36. CASE DeviceChanges
  BY <1>36, MethodsKeepCourse, SessionAgesShape
     DEF DeviceChanges, LinkInv, LinkType, statusVars, busyVars
<1>37. CASE UNCHANGED vars
  BY <1>37, MethodsKeepCourse, SessionAgesShape
     DEF vars, LinkInv, LinkType, statusVars, busyVars
<1> QED
  BY <1>1, <1>2, <1>3, <1>4, <1>5, <1>6, <1>7, <1>8, <1>9, <1>10, <1>11,
     <1>12, <1>13, <1>14, <1>15, <1>16, <1>17, <1>18, <1>19, <1>20, <1>21,
     <1>22, <1>23, <1>24, <1>25, <1>26, <1>27, <1>28, <1>29, <1>30, <1>31,
     <1>32, <1>33, <1>34, <1>35, <1>36, <1>37
     DEF Next, Caller, Worker, Command, Connect, Read, Backup


-----------------------------------------------------------------------------
LEMMA LinkInit == Init => LinkInv
<1> SUFFICES ASSUME Init
             PROVE  LinkInv
  OBVIOUS
<1> USE DEF Init
<1>1. conn \in ConnectedQc /\ ~Connected
  BY Truth DEF NoConn, ConnectedQc, Connected
<1>2. LinkType
  <2>1. \A phase \in Phase, n \in Nat :
          [phase |-> phase, connected |-> FALSE, synchronized |-> FALSE, preset |-> n]
            \in BrokerStatus
    BY ONLY Truth, Zenon DEF BrokerStatus
  <2>2. (IF auto THEN "searching" ELSE "disconnected") \in Phase /\ 0 \in Nat
    BY ONLY DEF Phase
  <2>3. status \in BrokerStatus
    BY <2>1, <2>2, Zenon
  <2>4. hello \in HelloResult
    BY Truth, Zenon DEF NoHello, HelloResult
  <2> QED
    BY <1>1, <2>3, <2>4, NewSessionType DEF LinkType, Step
<1>3. PlaceTellsLink
  BY <1>1 DEF PlaceTellsLink, HandshakeSteps
<1>4. StatusTracksLink
  BY <1>1 DEF StatusTracksLink
<1>5. SessionTracksLink /\ SearchIsArmed
  BY <1>1 DEF SessionTracksLink, SearchIsArmed, NewSession, IsConnected
<1> QED
  BY <1>2, <1>3, <1>4, <1>5 DEF LinkInv

(* The inductive invariant of the connection.                              *)
THEOREM LinkInvariant == Spec => []LinkInv
  BY LinkInit, LinkStep, PTL DEF Spec

(* The published status always agrees with the connection the worker owns. *)
THEOREM StatusTheorem == Spec => []StatusTracksLink
<1>1. LinkInv => StatusTracksLink
  BY DEF LinkInv
<1> QED
  BY LinkInvariant, <1>1, PTL

(* The session policy and the worker agree on whether there is a link.     *)
THEOREM SessionTheorem == Spec => []SessionTracksLink
<1>1. LinkInv => SessionTracksLink
  BY DEF LinkInv
<1> QED
  BY LinkInvariant, <1>1, PTL

(* While the worker means to be connected and is not, it searches.         *)
THEOREM SearchTheorem == Spec => []SearchIsArmed
<1>1. LinkInv => SearchIsArmed
  BY DEF LinkInv
<1> QED
  BY LinkInvariant, <1>1, PTL

-----------------------------------------------------------------------------
(* The caches: either nothing happens to them, or a message of the link    *)
(* the worker owns is added.                                               *)
LEMMA CachesKeptShape ==
    ASSUME CacheInv, UNCHANGED <<conn, auto, latest, fed, library>>
    PROVE  CacheInv'
  BY DEF CacheInv, OneLinkPerGeneration, MessagesAreOfThisLink, Connected

LEMMA IngestShape ==
    ASSUME CacheInv, LinkInv, Connected, conn' = conn, auto' = auto,
           NEW ks, IngestCaches(ks)
    PROVE  CacheInv'
<1>1. auto
  BY DEF LinkInv, PlaceTellsLink
<1>2. latest' \subseteq {conn.link} /\ fed' \subseteq {conn.link}
  BY DEF CacheInv, MessagesAreOfThisLink, IngestCaches
<1> QED
  BY <1>1, <1>2 DEF CacheInv, OneLinkPerGeneration, MessagesAreOfThisLink

LEMMA CacheStep == LinkInv /\ CacheInv /\ [Next]_vars => CacheInv'
<1> SUFFICES ASSUME LinkInv, CacheInv, [Next]_vars
             PROVE  CacheInv'
  OBVIOUS
<1>1. ASSUME NEW kind \in CallKinds, Post(kind)
      PROVE  CacheInv'
  BY <1>1, CachesKeptShape DEF Post, Enqueue, cacheVars
<1>2. ASSUME NEW t \in Ticket, GiveUp(t)
      PROVE  CacheInv'
  BY <1>2, CachesKeptShape DEF GiveUp, cacheVars
<1>3. CASE DropController
  BY <1>3, CachesKeptShape DEF DropController, Enqueue, cacheVars
<1>4. CASE HandleSatisfiedReconnect
  BY <1>4, CachesKeptShape DEF HandleSatisfiedReconnect, Receive, cacheVars
<1>5. CASE HandleReconnect
  <2>1. conn' = NoConn /\ latest' = {} /\ fed' = {} /\ library' = {}
    BY <1>5 DEF HandleReconnect, CloseLink, ForgetDevice
  <2> QED
    BY <2>1 DEF CacheInv, OneLinkPerGeneration, MessagesAreOfThisLink
<1>6. CASE HandleDisconnect
  <2>1. conn' = NoConn /\ latest' = {} /\ fed' = {} /\ library' = {}
    BY <1>6 DEF HandleDisconnect, CloseLink, ForgetDevice
  <2> QED
    BY <2>1 DEF CacheInv, OneLinkPerGeneration, MessagesAreOfThisLink
<1>7. CASE HandleSend
  BY <1>7, CachesKeptShape DEF HandleSend, Receive, cacheVars
<1>8. CASE HandleRequest
  BY <1>8, CachesKeptShape DEF HandleRequest, Receive, cacheVars
<1>9. CASE Refuse
  BY <1>9, CachesKeptShape DEF Refuse, Receive, cacheVars
<1>10. CASE HandleBackup
  BY <1>10, CachesKeptShape DEF HandleBackup, Receive, cacheVars
<1>11. CASE HandleStop
  <2>1. conn' = NoConn /\ UNCHANGED <<auto, latest, fed, library>>
    BY <1>11 DEF HandleStop, CloseLink, cacheVars
  <2> QED
    BY <2>1 DEF CacheInv, OneLinkPerGeneration, MessagesAreOfThisLink, Connected, NoConn
<1>12. CASE NothingToOpen
  BY <1>12, CachesKeptShape DEF NothingToOpen, OpenDue, cacheVars
<1>13. CASE OpenUnavailable
  BY <1>13, CachesKeptShape DEF OpenUnavailable, OpenDue, SearchAgain, cacheVars
<1>14. CASE OpenError
  BY <1>14, CachesKeptShape DEF OpenError, OpenDue, SearchAgain, cacheVars
<1>15. CASE Open
  BY <1>15, CachesKeptShape DEF Open, OpenDue, cacheVars
<1>16. CASE SendResetComms
  BY <1>16, CachesKeptShape DEF SendResetComms, Handshaking, cacheVars
<1>17. CASE HandshakeTimeout
  BY <1>17, CachesKeptShape DEF HandshakeTimeout, SearchAgain, cacheVars
<1>18. CASE AttemptTimeout
  BY <1>18, CachesKeptShape DEF AttemptTimeout, Handshaking, cacheVars
<1>19. CASE HelloReply
  BY <1>19, CachesKeptShape DEF HelloReply, Handshaking, cacheVars
<1>20. CASE HelloPreset
  BY <1>20, CachesKeptShape DEF HelloPreset, Handshaking, cacheVars
<1>21. CASE InitialSyncTimeout
  BY <1>21, CachesKeptShape DEF InitialSyncTimeout, Handshaking, cacheVars
<1>22. CASE PresetSyncTimeout
  BY <1>22, CachesKeptShape DEF PresetSyncTimeout, Handshaking, cacheVars
<1>23. CASE SeedPreset
  BY <1>23, CachesKeptShape DEF SeedPreset, Handshaking, cacheVars
<1>24. CASE HandshakeReadError
  BY <1>24, CachesKeptShape DEF HandshakeReadError, SearchAgain, cacheVars
<1>25. CASE Install
  <2>1. PICK link \in NewLinks, seeded \in BOOLEAN :
          /\ conn' = [link |-> link, synced |-> hello.synced]
          /\ Reseed(link, seeded)
    BY <1>25 DEF Install
  <2>2. auto /\ auto' = auto
    BY <1>25 DEF Install, LinkInv, PlaceTellsLink, HandshakeSteps
  <2> QED
    BY <2>1, <2>2 DEF CacheInv, Reseed, OneLinkPerGeneration, MessagesAreOfThisLink
<1>26. CASE ReadMessage
  <2>1. PICK kind \in Kinds : IngestCaches({kind})
    BY <1>26, Zenon DEF ReadMessage
  <2>2. conn' = conn /\ auto' = auto /\ Connected
    BY <1>26 DEF ReadMessage, BackToCommands
  <2> QED
    BY <2>1, <2>2, IngestShape
<1>27. CASE ReadNothing
  BY <1>27, CachesKeptShape DEF ReadNothing, BackToCommands, cacheVars
<1>28. CASE ReadToleratedError
  BY <1>28, CachesKeptShape DEF ReadToleratedError, BackToCommands, cacheVars
<1>29. CASE LoseLink
  <2>1. conn' = NoConn /\ UNCHANGED <<auto, latest, fed, library>>
    BY <1>29 DEF LoseLink, CloseLink, cacheVars
  <2> QED
    BY <2>1 DEF CacheInv, OneLinkPerGeneration, MessagesAreOfThisLink, Connected, NoConn
<1>30. CASE Sleep
  BY <1>30, CachesKeptShape DEF Sleep, BackToCommands, cacheVars
<1>31. CASE BackupSideMessage
  BY <1>31, CachesKeptShape DEF BackupSideMessage, cacheVars
<1>32. CASE BackupCompletes
  <2>1. IngestCaches(side) /\ conn' = conn /\ auto' = auto /\ Connected
    BY <1>32 DEF BackupCompletes, BackupReturns, LinkInv, PlaceTellsLink
  <2> QED
    BY <2>1, IngestShape
<1>33. CASE BackupTimesOut
  <2>1. IngestCaches({}) /\ conn' = conn /\ auto' = auto /\ Connected
    BY <1>33 DEF BackupTimesOut, BackupReturns, LinkInv, PlaceTellsLink
  <2> QED
    BY <2>1, IngestShape
<1>34. CASE BackupReadError
  <2>1. IngestCaches({}) /\ conn' = conn /\ auto' = auto /\ Connected
    BY <1>34 DEF BackupReadError, BackupReturns, LinkInv, PlaceTellsLink
  <2> QED
    BY <2>1, IngestShape
<1>35. CASE Tick
  BY <1>35, CachesKeptShape DEF Tick, cacheVars
<1>36. CASE DeviceChanges
  BY <1>36, CachesKeptShape DEF DeviceChanges, cacheVars
<1>37. CASE UNCHANGED vars
  BY <1>37, CachesKeptShape DEF vars, callerVars, statusVars, cacheVars, busyVars, envVars
<1> QED
  BY <1>1, <1>2, <1>3, <1>4, <1>5, <1>6, <1>7, <1>8, <1>9, <1>10, <1>11,
     <1>12, <1>13, <1>14, <1>15, <1>16, <1>17, <1>18, <1>19, <1>20, <1>21,
     <1>22, <1>23, <1>24, <1>25, <1>26, <1>27, <1>28, <1>29, <1>30, <1>31,
     <1>32, <1>33, <1>34, <1>35, <1>36, <1>37
     DEF Next, Caller, Worker, Command, Connect, Read, Backup

(* What the caches and the decoder hold was told by the link they serve.   *)
THEOREM CacheInvariant == Spec => []CacheInv
<1>1. Init => CacheInv
  BY DEF Init, CacheInv, OneLinkPerGeneration, MessagesAreOfThisLink
<1> QED
  BY <1>1, LinkInvariant, CacheStep, PTL DEF Spec

(* One generation of the decoder is fed by one link.                       *)
THEOREM GenerationTheorem == Spec => []OneLinkPerGeneration
<1>1. CacheInv => OneLinkPerGeneration
  BY DEF CacheInv
<1> QED
  BY CacheInvariant, <1>1, PTL

(* While connected the latest messages, the raw log and the decoder hold   *)
(* nothing of an earlier link, however it ended.                           *)
THEOREM MessagesTheorem == Spec => []MessagesAreOfThisLink
<1>1. CacheInv => MessagesAreOfThisLink
  BY DEF CacheInv
<1> QED
  BY CacheInvariant, <1>1, PTL

(* After an explicit disconnect nothing the device told is kept.           *)
THEOREM ClosedTheorem == Spec => []ClosedMeansForgotten
<1>1. CacheInv => ClosedMeansForgotten
  BY DEF CacheInv, ClosedMeansForgotten
<1> QED
  BY CacheInvariant, <1>1, PTL

-----------------------------------------------------------------------------
(* The types of what belongs neither to the link nor to the calls; among   *)
(* them the requests the device may still answer, by their tickets.        *)
EnvType == device \in Device /\ faults \in 0..MaxFaults /\ changes \in 0..MaxChanges
CacheType == fed \in SUBSET Nat /\ latest \in SUBSET Nat /\ library \in SUBSET Nat
RestType == EnvType /\ CacheType /\ asked \in SUBSET Ticket /\ side \in SUBSET Kinds

LEMMA FaultType ==
    ASSUME EnvType, Fault \/ ReadFails \/ UNCHANGED envVars
    PROVE  EnvType'
  BY BoundsAssumption DEF EnvType, Fault, ReadFails, envVars

LEMMA IngestType ==
    ASSUME LinkInv, CacheType, NEW ks, IngestCaches(ks)
    PROVE  CacheType'
<1>1. conn.link \in Nat
  BY DEF LinkInv, LinkType, ConnectedQc
<1> QED
  BY <1>1 DEF CacheType, IngestCaches

LEMMA RestStep == LinkInv /\ RestType /\ [Next]_vars => RestType'
<1> SUFFICES ASSUME LinkInv, RestType, [Next]_vars
             PROVE  RestType'
  OBVIOUS
<1> USE DEF RestType
<1>1. CASE Caller
  BY <1>1 DEF Caller, Post, Enqueue, GiveUp, DropController, EnvType, CacheType,
              cacheVars, busyVars, envVars
<1>2. CASE Command
  <2>1. CASE HandleSatisfiedReconnect \/ Refuse \/ HandleSend
    BY <2>1 DEF HandleSatisfiedReconnect, Refuse, HandleSend, Receive, EnvType, CacheType,
                cacheVars, busyVars, envVars
  <2>2. CASE HandleReconnect \/ HandleDisconnect \/ HandleStop
    BY <2>2 DEF HandleReconnect, HandleDisconnect, HandleStop, Receive, CloseLink, ForgetDevice,
                EnvType, CacheType, cacheVars, busyVars, envVars
  <2>3. CASE HandleRequest
    BY <2>3 DEF HandleRequest, Receive, EnvType, CacheType, cacheVars, busyVars, envVars
  <2>4. CASE HandleBackup
    BY <2>4 DEF HandleBackup, Receive, EnvType, CacheType, cacheVars, busyVars, envVars
  <2> QED
    BY <1>2, <2>1, <2>2, <2>3, <2>4 DEF Command
<1>3. CASE Connect
  <2>1. CASE NothingToOpen \/ OpenUnavailable \/ OpenError \/ Open
    <3>1. EnvType'
      BY <2>1, FaultType DEF NothingToOpen, OpenUnavailable, OpenError, Open
    <3> QED
      BY <2>1, <3>1 DEF NothingToOpen, OpenUnavailable, OpenError, Open, OpenDue, SearchAgain,
                        CacheType, cacheVars, busyVars
  <2>2. CASE \/ SendResetComms \/ HandshakeTimeout \/ AttemptTimeout \/ HelloReply \/ HelloPreset
             \/ InitialSyncTimeout \/ PresetSyncTimeout \/ SeedPreset \/ HandshakeReadError
    <3>1. EnvType'
      BY <2>2, FaultType
         DEF SendResetComms, HandshakeTimeout, AttemptTimeout, HelloReply, HelloPreset,
             InitialSyncTimeout, PresetSyncTimeout, SeedPreset, HandshakeReadError
    <3>2. UNCHANGED <<asked, cacheVars, side>>
      BY <2>2 DEF SendResetComms, HandshakeTimeout, AttemptTimeout, HelloReply, HelloPreset,
             InitialSyncTimeout, PresetSyncTimeout, SeedPreset, HandshakeReadError,
             Handshaking, SearchAgain
    <3> QED
      BY <3>1, <3>2 DEF CacheType, cacheVars
  <2>3. CASE Install
    <3>1. PICK link \in NewLinks, seeded \in BOOLEAN : Reseed(link, seeded)
      BY <2>3 DEF Install
    <3>2. link \in Nat
      BY BoundsAssumption DEF NewLinks, Oldest, Link
    <3>3. EnvType' /\ UNCHANGED <<asked, library, side>>
      BY <2>3, FaultType DEF Install
    <3> QED
      BY <3>1, <3>2, <3>3 DEF Reseed, CacheType
  <2> QED
    BY <1>3, <2>1, <2>2, <2>3 DEF Connect
<1>4. CASE Read
  <2>1. EnvType' /\ side' = side
    BY <1>4, FaultType
       DEF Read, ReadMessage, ReadNothing, ReadToleratedError, LoseLink, Sleep, BackToCommands,
           busyVars
  <2>2. asked' \in SUBSET Ticket
    BY <1>4 DEF Read, ReadMessage, ReadNothing, ReadToleratedError, LoseLink, Sleep, CloseLink
  <2>3. CacheType'
    <3>1. CASE ReadMessage
      BY <3>1, IngestType DEF ReadMessage
    <3>2. CASE ReadNothing \/ ReadToleratedError \/ LoseLink \/ Sleep
      BY <3>2 DEF ReadNothing, ReadToleratedError, LoseLink, Sleep, CacheType, cacheVars
    <3> QED
      BY <1>4, <3>1, <3>2 DEF Read
  <2> QED
    BY <2>1, <2>2, <2>3
<1>5. CASE Backup
  <2>1. EnvType' /\ asked' = asked
    BY <1>5, FaultType
       DEF Backup, BackupSideMessage, BackupCompletes, BackupTimesOut, BackupReadError,
           BackupReturns
  <2>2. side' \in SUBSET Kinds
    BY <1>5 DEF Backup, BackupSideMessage, BackupCompletes, BackupTimesOut, BackupReadError,
                BackupReturns
  <2>3. CacheType'
    BY <1>5, IngestType
       DEF Backup, BackupSideMessage, BackupCompletes, BackupTimesOut, BackupReadError,
           BackupReturns, CacheType, cacheVars
  <2> QED
    BY <2>1, <2>2, <2>3
<1>6. CASE Tick \/ UNCHANGED vars
  BY <1>6 DEF Tick, vars, EnvType, CacheType, cacheVars, busyVars, envVars
<1>7. CASE DeviceChanges
  BY <1>7, BoundsAssumption DEF DeviceChanges, EnvType, CacheType, cacheVars, busyVars
<1> QED
  BY <1>1, <1>2, <1>3, <1>4, <1>5, <1>6, <1>7 DEF Next, Worker

(* These types hold from the start and for good.                           *)
LEMMA RestInit == Init => RestType
  BY BoundsAssumption DEF Init, RestType, EnvType, CacheType

LEMMA RestInvariant == Spec => []RestType
  BY RestInit, RestStep, LinkInvariant, PTL DEF Spec

-----------------------------------------------------------------------------
(***************************************************************************)
(* The calls                                                               *)
(***************************************************************************)
CallType ==
    /\ posted \in 0..(MaxCalls + 1)
    /\ calls \in [Ticket -> Call]
    /\ inbox \in SUBSET Ticket
    /\ pending \in SUBSET Ticket
    /\ backup \in Ticket \cup {0}

(* Tickets are given out in order, and none after the controller is gone.  *)
TicketsInOrder ==
    /\ posted <= MaxCalls \/ Dropped
    /\ \A t \in Ticket :
          t > posted => calls[t].kind = "none" /\ t \notin inbox

(* A call is in the channel, pending, or the backup in progress.           *)
OnePlace ==
    /\ inbox \cap pending = {}
    /\ backup \notin inbox \cup pending
    /\ pc # "backup" => backup = 0

(* What is pending was asked as a request, what runs as a backup was asked *)
(* as one, and nobody waits for a disconnect or the stop.                  *)
KindsInPlace ==
    /\ \A t \in pending : calls[t].kind \in {"request", "tagged"}
    /\ backup # 0 => calls[backup].kind = "backup"
    /\ \A t \in Ticket : calls[t].kind \in {"none", "disconnect", "stop"} => ~Waiting(t)

(* An answered call is in no place any more: none is answered twice.       *)
AnsweredIsDone ==
    \A t \in Ticket :
        calls[t].outcome \in {"ok", "failed"} => t \notin inbox \cup pending \cup {backup}

CallInv ==
    /\ CallType
    /\ TicketsInOrder
    /\ OnePlace
    /\ KindsInPlace
    /\ AnsweredIsDone
    /\ NoOrphanRequest
    /\ NoLostCall
    /\ RightReply

-----------------------------------------------------------------------------
(* Answering changes the outcome of the calls that wait and nothing else.  *)
LEMMA AnswerFields ==
    ASSUME NEW cs \in [Ticket -> Call], NEW T, NEW outcome \in Outcome
    PROVE  /\ Answer(cs, T, outcome) \in [Ticket -> Call]
           /\ \A t \in Ticket :
                 LET a == Answer(cs, T, outcome)[t]
                 IN  /\ a.kind = cs[t].kind /\ a.wrote = cs[t].wrote
                     /\ a.from = cs[t].from /\ a.id = cs[t].id
                     /\ a.outcome = IF t \in T /\ cs[t].outcome = "waiting"
                                    THEN outcome ELSE cs[t].outcome
<1>1. ASSUME NEW t \in Ticket
      PROVE  LET a == IF t \in T /\ cs[t].outcome = "waiting"
                      THEN [cs[t] EXCEPT !.outcome = outcome] ELSE cs[t]
             IN  /\ a \in Call
                 /\ a.kind = cs[t].kind /\ a.wrote = cs[t].wrote
                 /\ a.from = cs[t].from /\ a.id = cs[t].id
                 /\ a.outcome = IF t \in T /\ cs[t].outcome = "waiting"
                                THEN outcome ELSE cs[t].outcome
  BY DEF Call
<1> QED
  BY <1>1 DEF Answer

(* So does the delivery of a message, which also notes what answered.      *)
LEMMA DeliveredFields ==
    ASSUME NEW cs \in [Ticket -> Call], NEW t \in Ticket, NEW id \in Nat,
           conn \in ConnectedQc
    PROVE  /\ Delivered(cs, t, id) \in [Ticket -> Call]
           /\ \A u \in Ticket : u # t => Delivered(cs, t, id)[u] = cs[u]
           /\ LET d == Delivered(cs, t, id)[t]
              IN  /\ d.kind = cs[t].kind /\ d.wrote = cs[t].wrote
                  /\ cs[t].outcome = "waiting" =>
                        d.outcome = "ok" /\ d.from = conn.link /\ d.id = id
                  /\ cs[t].outcome # "waiting" => d = cs[t]
<1> DEFINE d == IF cs[t].outcome = "waiting"
                THEN [cs[t] EXCEPT !.outcome = "ok", !.from = conn.link, !.id = id]
                ELSE cs[t]
<1>1. \A c \in Call : /\ \A o \in Outcome : [c EXCEPT !.outcome = o] \in Call
                      /\ \A n \in Nat : [c EXCEPT !.from = n] \in Call
                      /\ \A n \in Nat : [c EXCEPT !.id = n] \in Call
  BY DEF Call
<1>2. "ok" \in Outcome /\ conn.link \in Nat
  BY DEF Outcome, ConnectedQc
<1>3. d \in Call
  BY <1>1, <1>2, Zenon
<1>4. /\ d.kind = cs[t].kind /\ d.wrote = cs[t].wrote
      /\ cs[t].outcome = "waiting" =>
            d.outcome = "ok" /\ d.from = conn.link /\ d.id = id
      /\ cs[t].outcome # "waiting" => d = cs[t]
  BY DEF Call
<1>5. Delivered(cs, t, id) = [cs EXCEPT ![t] = d]
  BY DEF Delivered
<1> HIDE DEF d
<1> QED
  BY <1>3, <1>4, <1>5

-----------------------------------------------------------------------------
(* Calls leave the places they are in, each answered if somebody waits.    *)
LEMMA ResolveShape ==
    ASSUME CallInv, CallType', posted' = posted,
           inbox' \subseteq inbox, pending' \subseteq pending,
           backup' \in {backup, 0}, pc' # "backup" => backup' = 0,
           pending' = {} \/ conn' = conn,
           \A t \in Ticket :
              /\ calls'[t].kind = calls[t].kind
              /\ calls'[t].wrote = calls[t].wrote
              /\ \/ calls'[t] = calls[t]
                 \/ calls[t].outcome = "waiting" /\ calls'[t].outcome = "gaveUp"
                 \/ /\ calls[t].outcome = "waiting"
                    /\ calls'[t].outcome \in {"ok", "failed"}
                    /\ t \notin inbox' \cup pending' \cup {backup'}
                    /\ calls'[t].outcome = "ok" =>
                          /\ calls[t].kind = "request" => calls'[t].from = calls[t].wrote
                          /\ calls[t].kind = "tagged" =>
                                calls'[t].from = calls[t].wrote /\ calls'[t].id \in {0, t}
              /\ t \in inbox \cup pending \cup {backup}
                   /\ t \notin inbox' \cup pending' \cup {backup'}
                   => calls'[t].outcome # "waiting"
    PROVE  CallInv'
<1> USE DEF CallInv, CallType
<1>1. TicketsInOrder'
  BY DEF TicketsInOrder, Dropped
<1>2. OnePlace'
  BY DEF OnePlace, Ticket
<1>3. KindsInPlace'
  BY DEF KindsInPlace, Waiting
<1>4. AnsweredIsDone'
  BY DEF AnsweredIsDone, Ticket
<1>5. NoOrphanRequest'
  BY DEF NoOrphanRequest, Connected
<1>6. NoLostCall'
  BY DEF NoLostCall, Waiting
<1>7. RightReply'
  BY DEF RightReply
<1> QED
  BY <1>1, <1>2, <1>3, <1>4, <1>5, <1>6, <1>7

(* No call moves.                                                          *)
LEMMA NothingMovesShape ==
    ASSUME CallInv, UNCHANGED <<posted, calls, inbox, pending, backup>>,
           pc' # "backup" => backup = 0, pending = {} \/ conn' = conn
    PROVE  CallInv'
<1>1. CallType'
  BY DEF CallInv, CallType
<1> QED
  BY <1>1, ResolveShape

-----------------------------------------------------------------------------
(* The actions that are of no such shape.                                  *)
LEMMA EnqueueCall ==
    ASSUME CallInv, NEW kind \in CallKinds \cup {"stop"}, NEW outcome \in {"waiting", "posted"},
           kind \in {"disconnect", "stop"} => outcome = "posted",
           posted < MaxCalls \/ kind = "stop", Enqueue(kind, outcome)
    PROVE  CallInv'
<1> USE BoundsAssumption DEF CallInv, CallType
<1>1. posted' = posted + 1 /\ posted' \in Ticket /\ posted' > posted /\ kind # "none"
  <2>1. posted' = posted + 1 /\ posted <= MaxCalls
    BY DEF Enqueue, TicketsInOrder
  <2>2. posted \in Nat /\ MaxCalls \in Nat
    OBVIOUS
  <2>3. kind # "none"
    OBVIOUS
  <2> QED
    BY <2>1, <2>2, <2>3 DEF Ticket
<1>2. calls' \in [Ticket -> Call]
  <2>1. ASSUME NEW c \in Call
        PROVE  /\ [c EXCEPT !.kind = kind] \in Call
               /\ [c EXCEPT !.outcome = outcome] \in Call
    BY DEF Call, Outcome
  <2> QED
    BY <1>1, <2>1 DEF Enqueue
<1>3. /\ calls'[posted'].kind = kind /\ calls'[posted'].outcome = outcome
      /\ \A t \in Ticket : t # posted' => calls'[t] = calls[t]
  BY <1>1 DEF Enqueue, Call
<1>4. /\ inbox' = inbox \cup {posted'} /\ UNCHANGED <<pending, backup, conn, pc>>
      /\ ~Dropped
  BY DEF Enqueue, busyVars
<1>5. posted' \notin inbox \cup pending \cup {backup}
  BY <1>1 DEF TicketsInOrder, KindsInPlace, Ticket
<1>6. CallType'
  BY <1>1, <1>2, <1>4 DEF Ticket
<1>7. TicketsInOrder'
  BY <1>1, <1>3, <1>4 DEF TicketsInOrder, Dropped, Ticket
<1>8. OnePlace'
  BY <1>4, <1>5 DEF OnePlace
<1>9. KindsInPlace'
  BY <1>1, <1>3, <1>4, <1>5 DEF KindsInPlace, Waiting
<1>10. AnsweredIsDone'
  BY <1>3, <1>4 DEF AnsweredIsDone
<1>11. NoOrphanRequest'
  BY <1>3, <1>4, <1>5 DEF NoOrphanRequest, Connected
<1>12. NoLostCall'
  BY <1>3, <1>4 DEF NoLostCall, Waiting
<1>13. RightReply'
  BY <1>3 DEF RightReply
<1> QED
  BY <1>6, <1>7, <1>8, <1>9, <1>10, <1>11, <1>12, <1>13

(* A received ticket was in the channel, and the worker is in no backup.   *)
LEMMA Received ==
    ASSUME CallInv, NEW t \in Ticket, NEW kinds, Receive(t, kinds)
    PROVE  /\ pc = "drain" /\ backup = 0 /\ posted' = posted
           /\ t \in inbox /\ t \notin pending /\ inbox' = inbox \ {t}
           /\ calls[t].kind \in kinds /\ calls[t].outcome \notin {"ok", "failed"}
           /\ t # 0
  BY DEF Receive, Oldest, CallInv, OnePlace, AnsweredIsDone, Ticket

LEMMA HandleSendCalls ==
    ASSUME CallInv, LinkInv, HandleSend
    PROVE  CallInv'
<1>1. PICK t \in Ticket : /\ Receive(t, {"send"})
                          /\ calls' = [Answer(calls, {t}, "ok") EXCEPT ![t].wrote = conn.link]
  BY DEF HandleSend
<1> DEFINE a == Answer(calls, {t}, "ok")
<1>2. UNCHANGED <<pending, backup, conn, pc>>
  BY DEF HandleSend, busyVars
<1>3. /\ pc = "drain" /\ backup = 0 /\ posted' = posted
      /\ t \in inbox /\ t \notin pending /\ inbox' = inbox \ {t}
      /\ calls[t].kind = "send" /\ t # 0
  BY <1>1, Received
<1>4. /\ a \in [Ticket -> Call]
      /\ \A u \in Ticket :
            /\ a[u].kind = calls[u].kind /\ a[u].wrote = calls[u].wrote
            /\ a[u].from = calls[u].from /\ a[u].id = calls[u].id
            /\ a[u].outcome = IF u \in {t} /\ calls[u].outcome = "waiting"
                              THEN "ok" ELSE calls[u].outcome
  BY AnswerFields DEF CallInv, CallType, Outcome
<1> HIDE DEF a
<1>5. calls' = [a EXCEPT ![t].wrote = conn.link]
  BY <1>1 DEF a
<1>6. calls' \in [Ticket -> Call]
  <2>1. \A c \in Call : [c EXCEPT !.wrote = conn.link] \in Call
    BY DEF Call, LinkInv, LinkType, ConnectedQc
  <2> QED
    BY <1>4, <1>5, <2>1
<1>7. \A u \in Ticket :
        /\ calls'[u].kind = calls[u].kind
        /\ calls'[u].from = calls[u].from /\ calls'[u].id = calls[u].id
        /\ u # t => calls'[u].wrote = calls[u].wrote /\ calls'[u].outcome = calls[u].outcome
        /\ u = t => calls'[u].outcome # "waiting"
  BY <1>4, <1>5 DEF Call
<1> USE DEF CallInv, CallType
<1>8. CallType' /\ TicketsInOrder'
  BY <1>2, <1>3, <1>6, <1>7 DEF TicketsInOrder, Dropped
<1>9. OnePlace' /\ KindsInPlace' /\ NoLostCall'
  BY <1>2, <1>3, <1>7 DEF OnePlace, KindsInPlace, NoLostCall, Waiting
<1>10. AnsweredIsDone' /\ NoOrphanRequest'
  BY <1>2, <1>3, <1>7 DEF AnsweredIsDone, NoOrphanRequest, Connected
<1>11. RightReply'
  BY <1>3, <1>7 DEF RightReply
<1> QED
  BY <1>8, <1>9, <1>10, <1>11

LEMMA HandleRequestCalls ==
    ASSUME CallInv, LinkInv, HandleRequest
    PROVE  CallInv'
<1>1. PICK t \in Ticket : /\ Receive(t, {"request", "tagged"})
                          /\ Connected
                          /\ calls' = [calls EXCEPT ![t].wrote = conn.link]
                          /\ pending' = pending \cup {t}
  BY DEF HandleRequest
<1>2. UNCHANGED <<backup, conn, pc>>
  BY DEF HandleRequest, busyVars
<1>3. /\ pc = "drain" /\ backup = 0 /\ posted' = posted
      /\ t \in inbox /\ t \notin pending /\ inbox' = inbox \ {t}
      /\ calls[t].kind \in {"request", "tagged"} /\ t # 0
      /\ calls[t].outcome \notin {"ok", "failed"}
  BY <1>1, Received
<1> USE DEF CallInv, CallType
<1>4. calls' \in [Ticket -> Call]
  <2>1. \A c \in Call : [c EXCEPT !.wrote = conn.link] \in Call
    BY DEF Call, LinkInv, LinkType, ConnectedQc
  <2> QED
    BY <1>1, <2>1
<1>5. \A u \in Ticket :
        /\ calls'[u].kind = calls[u].kind /\ calls'[u].outcome = calls[u].outcome
        /\ calls'[u].from = calls[u].from /\ calls'[u].id = calls[u].id
        /\ calls'[u].wrote = IF u = t THEN conn.link ELSE calls[u].wrote
  BY <1>1 DEF Call
<1>6. CallType' /\ TicketsInOrder'
  BY <1>1, <1>2, <1>3, <1>4, <1>5 DEF TicketsInOrder, Dropped
<1>7. OnePlace' /\ KindsInPlace' /\ NoLostCall'
  BY <1>1, <1>2, <1>3, <1>5 DEF OnePlace, KindsInPlace, NoLostCall, Waiting
<1>8. AnsweredIsDone' /\ NoOrphanRequest'
  BY <1>1, <1>2, <1>3, <1>5 DEF AnsweredIsDone, NoOrphanRequest, Connected
<1>9. RightReply'
  BY <1>3, <1>5 DEF RightReply
<1> QED
  BY <1>6, <1>7, <1>8, <1>9

LEMMA HandleBackupCalls ==
    ASSUME CallInv, LinkInv, HandleBackup
    PROVE  CallInv'
<1>1. PICK t \in Ticket :
        /\ Receive(t, {"backup"})
        /\ pending' = {}
        /\ IF Connected
           THEN /\ pc' = "backup"
                /\ calls' = Answer(calls, pending, "failed")
                /\ backup' = t
           ELSE /\ calls' = Answer(calls, pending \cup {t}, "failed")
                /\ UNCHANGED <<pc, backup>>
  BY DEF HandleBackup
<1>2. /\ pc = "drain" /\ backup = 0 /\ posted' = posted
      /\ t \in inbox /\ t \notin pending /\ inbox' = inbox \ {t}
      /\ calls[t].kind = "backup" /\ t # 0
      /\ calls[t].outcome \notin {"ok", "failed"}
  BY <1>1, Received
<1> USE DEF CallInv, CallType
<1>3. CASE ~Connected
  <2>1. /\ calls' \in [Ticket -> Call]
        /\ \A u \in Ticket :
              /\ calls'[u].kind = calls[u].kind /\ calls'[u].wrote = calls[u].wrote
              /\ calls'[u].from = calls[u].from /\ calls'[u].id = calls[u].id
              /\ calls'[u].outcome = IF u \in pending \cup {t} /\ calls[u].outcome = "waiting"
                                     THEN "failed" ELSE calls[u].outcome
    BY <1>1, <1>3, AnswerFields DEF Outcome
  <2>2. CallType' /\ TicketsInOrder'
    BY <1>1, <1>2, <1>3, <2>1 DEF TicketsInOrder, Dropped
  <2>3. OnePlace' /\ KindsInPlace' /\ NoLostCall'
    <3>1. pending' = {} /\ pc' = pc /\ backup' = 0
      BY <1>1, <1>2, <1>3
    <3>2. OnePlace'
      BY <1>2, <3>1 DEF OnePlace
    <3>3. KindsInPlace'
      BY <1>2, <2>1, <3>1 DEF KindsInPlace, Waiting
    <3>4. NoLostCall'
      BY <1>2, <2>1, <3>1 DEF NoLostCall, Waiting
    <3> QED
      BY <3>2, <3>3, <3>4
  <2>4. AnsweredIsDone'
    <3>1. pending' = {} /\ backup' = 0
      BY <1>1, <1>2, <1>3
    <3> SUFFICES ASSUME NEW u \in Ticket, calls'[u].outcome \in {"ok", "failed"}
                 PROVE  u \notin inbox'
      BY <3>1 DEF AnsweredIsDone, Ticket
    <3>2. CASE u \in pending \cup {t}
      BY <1>2, <3>2 DEF OnePlace
    <3>3. CASE u \notin pending \cup {t}
      BY <1>2, <2>1, <3>3 DEF AnsweredIsDone
    <3> QED
      BY <3>2, <3>3
  <2>5. NoOrphanRequest'
    BY <1>1 DEF NoOrphanRequest
  <2>6. RightReply'
    BY <2>1 DEF RightReply
  <2> QED
    BY <2>2, <2>3, <2>4, <2>5, <2>6
<1>4. CASE Connected
  <2>1. /\ calls' \in [Ticket -> Call]
        /\ \A u \in Ticket :
              /\ calls'[u].kind = calls[u].kind
              /\ calls'[u].from = calls[u].from /\ calls'[u].id = calls[u].id
              /\ calls'[u].wrote = calls[u].wrote
              /\ calls'[u].outcome = IF u \in pending /\ calls[u].outcome = "waiting"
                                     THEN "failed" ELSE calls[u].outcome
    BY <1>1, <1>4, AnswerFields DEF Outcome
  <2>2. CallType' /\ TicketsInOrder'
    BY <1>1, <1>2, <1>4, <2>1 DEF TicketsInOrder, Dropped
  <2>3. OnePlace'
    BY <1>1, <1>2, <1>4 DEF OnePlace
  <2>4. KindsInPlace'
    BY <1>1, <1>2, <1>4, <2>1 DEF KindsInPlace, Waiting
  <2>5. NoLostCall'
    <3> SUFFICES ASSUME NEW u \in Ticket, calls'[u].outcome = "waiting"
                 PROVE  u \in inbox' \cup {t}
      BY <1>1, <1>4 DEF NoLostCall, Waiting
    <3>1. calls[u].outcome = "waiting" /\ u \notin pending
      BY <2>1
    <3>2. u # backup
      BY <1>2 DEF Ticket
    <3> QED
      BY <1>2, <3>1, <3>2 DEF NoLostCall, Waiting
  <2>6. AnsweredIsDone'
    <3>1. pending' = {} /\ backup' = t
      BY <1>1, <1>4
    <3> SUFFICES ASSUME NEW u \in Ticket, calls'[u].outcome \in {"ok", "failed"}
                 PROVE  u \notin inbox' /\ u # t
      BY <3>1 DEF AnsweredIsDone
    <3>2. CASE u \in pending
      BY <1>2, <3>2 DEF OnePlace
    <3>3. CASE u \notin pending
      BY <1>2, <2>1, <3>3 DEF AnsweredIsDone
    <3> QED
      BY <3>2, <3>3
  <2>7. NoOrphanRequest'
    BY <1>1 DEF NoOrphanRequest
  <2>8. RightReply'
    BY <1>2, <2>1 DEF RightReply
  <2> QED
    BY <2>2, <2>3, <2>4, <2>5, <2>6, <2>7, <2>8
<1> QED
  BY <1>3, <1>4

(* One answer to a set of calls that leave their places.                   *)
LEMMA AnswerShape ==
    ASSUME CallInv, NEW T, NEW outcome \in {"ok", "failed"},
           calls' = Answer(calls, T, outcome), posted' = posted,
           inbox' \subseteq inbox, pending' \subseteq pending,
           backup' \in {backup, 0}, pc' # "backup" => backup' = 0,
           pending' = {} \/ conn' = conn,
           T \cap (inbox' \cup pending' \cup {backup'}) = {},
           \A t \in Ticket \ T :
              t \in inbox \cup pending \cup {backup} /\ Waiting(t)
                 => t \in inbox' \cup pending' \cup {backup'},
           outcome = "ok" => \A t \in T \cap Ticket : calls[t].kind \notin {"request", "tagged"}
    PROVE  CallInv'
<1>1. /\ calls' \in [Ticket -> Call]
      /\ \A t \in Ticket :
            /\ calls'[t].kind = calls[t].kind /\ calls'[t].wrote = calls[t].wrote
            /\ calls'[t].outcome = IF t \in T /\ calls[t].outcome = "waiting"
                                   THEN outcome ELSE calls[t].outcome
  BY AnswerFields DEF CallInv, CallType, Outcome
<1>2. ASSUME NEW t \in Ticket, t \notin T \/ calls[t].outcome # "waiting"
      PROVE  calls'[t] = calls[t]
  BY <1>2 DEF Answer
<1>3. CallType'
  BY <1>1 DEF CallInv, CallType
<1>4. ASSUME NEW t \in Ticket
      PROVE  /\ \/ calls'[t] = calls[t]
                \/ /\ calls[t].outcome = "waiting"
                   /\ calls'[t].outcome \in {"ok", "failed"}
                   /\ t \notin inbox' \cup pending' \cup {backup'}
                   /\ calls'[t].outcome = "ok" => calls[t].kind \notin {"request", "tagged"}
             /\ t \in inbox \cup pending \cup {backup}
                   /\ t \notin inbox' \cup pending' \cup {backup'}
                   => calls'[t].outcome # "waiting"
  <2>1. CASE t \in T /\ calls[t].outcome = "waiting"
    BY <1>1, <2>1
  <2>2. CASE t \notin T /\ calls[t].outcome = "waiting"
    BY <1>2, <2>2 DEF Waiting
  <2>3. CASE calls[t].outcome # "waiting"
    BY <1>2, <2>3
  <2> QED
    BY <2>1, <2>2, <2>3
<1>5. \A t \in Ticket :
        /\ calls'[t].kind = calls[t].kind
        /\ calls'[t].wrote = calls[t].wrote
        /\ \/ calls'[t] = calls[t]
           \/ calls[t].outcome = "waiting" /\ calls'[t].outcome = "gaveUp"
           \/ /\ calls[t].outcome = "waiting"
              /\ calls'[t].outcome \in {"ok", "failed"}
              /\ t \notin inbox' \cup pending' \cup {backup'}
              /\ calls'[t].outcome = "ok" =>
                    /\ calls[t].kind = "request" => calls'[t].from = calls[t].wrote
                    /\ calls[t].kind = "tagged" =>
                          calls'[t].from = calls[t].wrote /\ calls'[t].id \in {0, t}
        /\ t \in inbox \cup pending \cup {backup}
             /\ t \notin inbox' \cup pending' \cup {backup'}
             => calls'[t].outcome # "waiting"
  BY <1>1, <1>4
<1> QED
  BY ONLY CallInv, <1>3, <1>5, ResolveShape, posted' = posted,
     inbox' \subseteq inbox, pending' \subseteq pending,
     backup' \in {backup, 0}, pc' # "backup" => backup' = 0,
     pending' = {} \/ conn' = conn

LEMMA HandleReconnectCalls ==
    ASSUME CallInv, HandleReconnect
    PROVE  CallInv'
<1>1. PICK t \in Ticket :
        /\ Receive(t, {"reconnect", "reset"})
        /\ calls' = Answer(Answer(calls, pending, "failed"), {t}, "ok")
  BY DEF HandleReconnect
<1>2. pending' = {} /\ backup' = backup /\ pc' = pc
  BY DEF HandleReconnect, CloseLink, busyVars
<1>3. /\ pc = "drain" /\ backup = 0 /\ posted' = posted
      /\ t \in inbox /\ t \notin pending /\ inbox' = inbox \ {t}
      /\ calls[t].kind \in {"reconnect", "reset"}
  BY <1>1, Received
<1> DEFINE a == Answer(calls, pending, "failed")
<1>4. /\ a \in [Ticket -> Call]
      /\ \A u \in Ticket :
            /\ a[u].kind = calls[u].kind /\ a[u].wrote = calls[u].wrote
            /\ a[u].outcome = IF u \in pending /\ calls[u].outcome = "waiting"
                              THEN "failed" ELSE calls[u].outcome
            /\ u \notin pending \/ calls[u].outcome # "waiting" => a[u] = calls[u]
  <2>1. \A u \in Ticket :
          u \notin pending \/ calls[u].outcome # "waiting" => a[u] = calls[u]
    BY DEF Answer
  <2> QED
    BY <2>1, AnswerFields DEF CallInv, CallType, Outcome
<1> HIDE DEF a
<1>5. /\ calls' \in [Ticket -> Call]
      /\ \A u \in Ticket :
            /\ calls'[u].kind = a[u].kind /\ calls'[u].wrote = a[u].wrote
            /\ calls'[u].outcome = IF u \in {t} /\ a[u].outcome = "waiting"
                                   THEN "ok" ELSE a[u].outcome
            /\ u # t \/ a[u].outcome # "waiting" => calls'[u] = a[u]
  <2>1. calls' = Answer(a, {t}, "ok")
    BY <1>1 DEF a
  <2>2. \A u \in Ticket :
          u # t \/ a[u].outcome # "waiting" => calls'[u] = a[u]
    BY <2>1 DEF Answer
  <2>3. "ok" \in Outcome
    BY DEF Outcome
  <2>4. /\ calls' \in [Ticket -> Call]
        /\ \A u \in Ticket :
              /\ calls'[u].kind = a[u].kind /\ calls'[u].wrote = a[u].wrote
              /\ calls'[u].outcome = IF u \in {t} /\ a[u].outcome = "waiting"
                                     THEN "ok" ELSE a[u].outcome
    BY ONLY <1>4, <2>1, <2>3, AnswerFields
  <2> QED
    BY <2>2, <2>4
<1>6. CallType'
  BY <1>2, <1>3, <1>5 DEF CallInv, CallType
<1>7. \A u \in Ticket :
        /\ calls'[u].kind = calls[u].kind
        /\ calls'[u].wrote = calls[u].wrote
        /\ \/ calls'[u] = calls[u]
           \/ /\ calls[u].outcome = "waiting"
              /\ calls'[u].outcome \in {"ok", "failed"}
              /\ u \notin inbox' \cup pending' \cup {backup'}
              /\ calls'[u].outcome = "ok" => calls[u].kind \notin {"request", "tagged"}
        /\ u \in inbox \cup pending \cup {backup}
             /\ u \notin inbox' \cup pending' \cup {backup'}
             => calls'[u].outcome # "waiting"
  <2> SUFFICES ASSUME NEW u \in Ticket
               PROVE  /\ calls'[u].kind = calls[u].kind
                      /\ calls'[u].wrote = calls[u].wrote
                      /\ \/ calls'[u] = calls[u]
                         \/ /\ calls[u].outcome = "waiting"
                            /\ calls'[u].outcome \in {"ok", "failed"}
                            /\ u \notin inbox' \cup pending' \cup {backup'}
                            /\ calls'[u].outcome = "ok" => calls[u].kind \notin {"request", "tagged"}
                      /\ u \in inbox \cup pending \cup {backup}
                           /\ u \notin inbox' \cup pending' \cup {backup'}
                           => calls'[u].outcome # "waiting"
    OBVIOUS
  <2>1. u # 0
    BY DEF Ticket
  <2>2. CASE u = t
    BY <1>2, <1>3, <1>4, <1>5, <2>1, <2>2
  <2>3. CASE u \in pending
    BY <1>2, <1>3, <1>4, <1>5, <2>1, <2>3 DEF CallInv, OnePlace
  <2>4. CASE u # t /\ u \notin pending
    BY <1>2, <1>3, <1>4, <1>5, <2>1, <2>4
  <2> QED
    BY <2>2, <2>3, <2>4
<1> QED
  BY <1>2, <1>3, <1>6, <1>7, ResolveShape

LEMMA GiveUpCalls ==
    ASSUME CallInv, NEW t \in Ticket, GiveUp(t)
    PROVE  CallInv'
<1>1. /\ calls[t].outcome = "waiting"
      /\ calls' = [calls EXCEPT ![t].outcome = "gaveUp"]
      /\ UNCHANGED <<posted, inbox, pending, backup, pc, conn>>
  BY DEF GiveUp, Waiting, busyVars
<1>2. calls' \in [Ticket -> Call]
  <2>1. \A c \in Call : [c EXCEPT !.outcome = "gaveUp"] \in Call
    BY DEF Call, Outcome
  <2> QED
    BY <1>1, <2>1 DEF CallInv, CallType
<1>3. /\ calls'[t].kind = calls[t].kind /\ calls'[t].wrote = calls[t].wrote
      /\ calls'[t].outcome = "gaveUp"
      /\ \A u \in Ticket : u # t => calls'[u] = calls[u]
  BY <1>1 DEF CallInv, CallType, Call
<1>4. CallType'
  BY <1>1, <1>2 DEF CallInv, CallType
<1> QED
  BY <1>1, <1>3, <1>4, ResolveShape DEF CallInv, OnePlace

(* The oldest request the message satisfies is answered, by this link and,  *)
(* where it is tagged, by a message with its id or with none.              *)
LEMMA ReadMessageCalls ==
    ASSUME CallInv, LinkInv, RestType, ReadMessage
    PROVE  CallInv'
<1>1. PICK kind \in Kinds, id \in asked \cup {0}, expired \in SUBSET pending :
        /\ id # 0 => kind = "state"
        /\ \/ /\ Satisfied(kind, id) = {}
              /\ BackToCommands(expired, calls, pending)
           \/ \E first \in Oldest(Satisfied(kind, id)) :
                 BackToCommands(expired, Delivered(calls, first, id), pending \ {first})
  BY Zenon DEF ReadMessage
<1>2. pc = "read" /\ conn' = conn
  BY DEF ReadMessage
<1>3. backup = 0
  BY <1>2 DEF CallInv, OnePlace
<1>4. CASE BackToCommands(expired, calls, pending)
  <2>1. /\ calls' = Answer(calls, expired, "failed") /\ pending' = pending \ expired
        /\ UNCHANGED <<posted, inbox, backup>>
    BY <1>4 DEF BackToCommands, busyVars
  <2>2. expired \cap (inbox' \cup pending' \cup {backup'}) = {}
    BY <1>3, <2>1 DEF CallInv, CallType, OnePlace, Ticket
  <2> QED
    BY <1>2, <1>3, <2>1, <2>2, AnswerShape
<1>5. ASSUME NEW first \in Oldest(Satisfied(kind, id)),
             BackToCommands(expired, Delivered(calls, first, id), pending \ {first})
      PROVE  CallInv'
  <2> DEFINE d == Delivered(calls, first, id)
  <2>1. /\ calls' = Answer(d, expired, "failed") /\ pending' = pending \ ({first} \cup expired)
        /\ UNCHANGED <<posted, inbox, backup>>
    BY <1>5 DEF BackToCommands, busyVars
  <2>2. /\ first \in pending /\ first \in Ticket /\ id \in Nat
        /\ calls[first].kind = "tagged" => id \in {0, first}
    <3>1. /\ first \in pending
          /\ id = 0 \/ calls[first].kind = "request" \/ id = first
      BY <1>5 DEF Oldest, Satisfied
    <3>2. first \in Ticket /\ id \in Nat
      BY <1>1, <3>1 DEF CallInv, CallType, RestType, Ticket
    <3> QED
      BY <3>1, <3>2
  <2>3. /\ calls[first].wrote = conn.link /\ conn \in ConnectedQc
    BY <2>2 DEF CallInv, NoOrphanRequest, LinkInv, LinkType
  <2>4. /\ d \in [Ticket -> Call]
        /\ \A u \in Ticket : u # first => d[u] = calls[u]
        /\ d[first].kind = calls[first].kind /\ d[first].wrote = calls[first].wrote
        /\ calls[first].outcome = "waiting" =>
              d[first].outcome = "ok" /\ d[first].from = conn.link /\ d[first].id = id
        /\ calls[first].outcome # "waiting" => d[first] = calls[first]
    BY <2>2, <2>3, DeliveredFields DEF CallInv, CallType
  <2> HIDE DEF d
  <2>5. "failed" \in Outcome
    BY DEF Outcome
  <2>6. /\ calls' \in [Ticket -> Call]
        /\ \A u \in Ticket :
              /\ calls'[u].kind = d[u].kind /\ calls'[u].wrote = d[u].wrote
              /\ calls'[u].outcome = IF u \in expired /\ d[u].outcome = "waiting"
                                     THEN "failed" ELSE d[u].outcome
    BY ONLY <2>1, <2>4, <2>5, AnswerFields
  <2>7. \A u \in Ticket : u \notin expired \/ d[u].outcome # "waiting" => calls'[u] = d[u]
    BY <2>1 DEF Answer
  <2>8. CallType'
    BY <1>1, <1>3, <2>1, <2>6 DEF CallInv, CallType
  <2>9. ASSUME NEW u \in Ticket
        PROVE  /\ calls'[u].kind = calls[u].kind
               /\ calls'[u].wrote = calls[u].wrote
               /\ \/ calls'[u] = calls[u]
                  \/ /\ calls[u].outcome = "waiting"
                     /\ calls'[u].outcome \in {"ok", "failed"}
                     /\ u \notin inbox' \cup pending' \cup {backup'}
                     /\ calls'[u].outcome = "ok" =>
                           /\ calls'[u].from = calls[u].wrote
                           /\ calls[u].kind = "tagged" => calls'[u].id \in {0, u}
               /\ u \in inbox \cup pending \cup {backup}
                    /\ u \notin inbox' \cup pending' \cup {backup'}
                    => calls'[u].outcome # "waiting"
    <3>1. u # 0
      BY DEF Ticket
    <3>2. CASE u = first /\ calls[u].outcome = "waiting"
      <4>1. d[u].outcome = "ok" /\ calls'[u] = d[u]
        BY <2>4, <2>7, <3>2
      <4>2. u \notin inbox' \cup pending' \cup {backup'}
        BY <1>3, <2>1, <2>2, <3>1, <3>2 DEF CallInv, OnePlace
      <4> QED
        BY <2>2, <2>3, <2>4, <3>2, <4>1, <4>2
    <3>3. CASE u = first /\ calls[u].outcome # "waiting"
      BY <2>4, <2>7, <3>3
    <3>4. CASE u # first /\ u \in expired
      <4>1. d[u] = calls[u] /\ u \in pending
        BY <1>1, <2>4, <3>4
      <4>2. u \notin inbox' \cup pending' \cup {backup'}
        BY <1>3, <2>1, <3>1, <3>4, <4>1 DEF CallInv, OnePlace
      <4> QED
        BY <2>6, <2>7, <4>1, <4>2, <3>4
    <3>5. CASE u # first /\ u \notin expired
      BY <2>1, <2>4, <2>7, <3>5
    <3> QED
      BY <3>2, <3>3, <3>4, <3>5
  <2> QED
    BY <1>2, <1>3, <2>1, <2>8, <2>9, ResolveShape
<1> QED
  BY <1>1, <1>4, <1>5

(* The backup returns and answers the call that asked for it.              *)
LEMMA BackupAnswered ==
    ASSUME CallInv, pc = "backup", NEW outcome \in {"ok", "failed"},
           calls' = Answer(calls, {backup}, outcome), backup' = 0,
           UNCHANGED <<posted, inbox, pending, conn>>
    PROVE  CallInv'
<1>1. \A t \in Ticket : t = backup => calls[t].kind = "backup"
  BY DEF CallInv, KindsInPlace, Ticket
<1>2. CASE backup = 0
  <2>1. \A t \in Ticket : t # 0
    BY DEF Ticket
  <2>2. calls' = Answer(calls, {}, outcome)
    BY <1>2, <2>1, Zenon DEF Answer
  <2> QED
    BY <1>2, <2>2, AnswerShape
<1>3. CASE backup # 0
  <2>1. {backup} \cap (inbox' \cup pending' \cup {backup'}) = {}
    BY <1>3 DEF CallInv, OnePlace
  <2> QED
    BY <1>1, <2>1, AnswerShape
<1> QED
  BY <1>2, <1>3

LEMMA CallStep == LinkInv /\ RestType /\ CallInv /\ [Next]_vars => CallInv'
<1> SUFFICES ASSUME LinkInv, RestType, CallInv, [Next]_vars
             PROVE  CallInv'
  OBVIOUS
<1>0. pc # "backup" => backup = 0
  BY DEF CallInv, OnePlace
<1>1. ASSUME NEW kind \in CallKinds, Post(kind)
      PROVE  CallInv'
  <2>1. /\ posted < MaxCalls
        /\ Enqueue(kind, IF kind = "disconnect" THEN "posted" ELSE "waiting")
    BY <1>1 DEF Post
  <2>2. kind # "stop"
    BY BoundsAssumption
  <2> QED
    BY <2>1, <2>2, EnqueueCall
<1>2. ASSUME NEW t \in Ticket, GiveUp(t)
      PROVE  CallInv'
  BY <1>2, GiveUpCalls
<1>3. CASE DropController
  BY <1>3, EnqueueCall DEF DropController
<1>4. CASE HandleSatisfiedReconnect
  <2>1. PICK t \in Ticket : /\ Receive(t, {"reconnect"})
                           /\ calls' = Answer(calls, {t}, "ok")
    BY <1>4 DEF HandleSatisfiedReconnect
  <2>2. UNCHANGED <<pending, backup, conn, pc>>
    BY <1>4 DEF HandleSatisfiedReconnect, busyVars
  <2>3. /\ backup = 0 /\ posted' = posted /\ t \in inbox /\ t \notin pending
        /\ inbox' = inbox \ {t} /\ calls[t].kind \in {"reconnect"} /\ t # 0
    BY <2>1, Received
  <2> QED
    BY <2>1, <2>2, <2>3, AnswerShape
<1>5. CASE HandleReconnect
  BY <1>5, HandleReconnectCalls
<1>6. CASE HandleDisconnect
  <2>1. PICK t \in Ticket : Receive(t, {"disconnect"})
    BY <1>6 DEF HandleDisconnect
  <2>2. /\ calls' = Answer(calls, pending, "failed")
        /\ pending' = {} /\ backup' = backup /\ pc' # "backup"
    BY <1>6, <2>1, Received DEF HandleDisconnect, CloseLink, busyVars
  <2>3. /\ backup = 0 /\ posted' = posted /\ t \in inbox
        /\ inbox' = inbox \ {t} /\ calls[t].kind = "disconnect"
    BY <2>1, Received
  <2>4. ~Waiting(t)
    BY <2>3 DEF CallInv, KindsInPlace
  <2>5. pending \cap (inbox' \cup pending' \cup {backup'}) = {}
    BY <2>2, <2>3 DEF CallInv, OnePlace
  <2> QED
    BY <2>2, <2>3, <2>4, <2>5, AnswerShape
<1>7. CASE HandleSend
  BY <1>7, HandleSendCalls
<1>8. CASE HandleRequest
  BY <1>8, HandleRequestCalls
<1>9. CASE Refuse
  <2>1. PICK t \in Ticket : /\ Receive(t, {"send", "request", "tagged"})
                           /\ calls' = Answer(calls, {t}, "failed")
    BY <1>9 DEF Refuse
  <2>2. UNCHANGED <<pending, backup, conn, pc>>
    BY <1>9 DEF Refuse, busyVars
  <2>3. /\ backup = 0 /\ posted' = posted /\ t \in inbox /\ t \notin pending
        /\ inbox' = inbox \ {t} /\ calls[t].kind \in {"send", "request", "tagged"} /\ t # 0
    BY <2>1, Received
  <2> QED
    BY <2>1, <2>2, <2>3, AnswerShape
<1>10. CASE HandleBackup
  BY <1>10, HandleBackupCalls
<1>11. CASE HandleStop
  <2>1. PICK t \in Ticket : Receive(t, {"stop"})
    BY <1>11 DEF HandleStop
  <2>2. /\ calls' = Answer(calls, pending, "failed")
        /\ pending' = {} /\ backup' = backup /\ pc' # "backup"
    BY <1>11, <2>1, Received DEF HandleStop, CloseLink, busyVars
  <2>3. /\ backup = 0 /\ posted' = posted /\ t \in inbox
        /\ inbox' = inbox \ {t} /\ calls[t].kind = "stop"
    BY <2>1, Received
  <2>4. ~Waiting(t)
    BY <2>3 DEF CallInv, KindsInPlace
  <2>5. pending \cap (inbox' \cup pending' \cup {backup'}) = {}
    BY <2>2, <2>3 DEF CallInv, OnePlace
  <2> QED
    BY <2>2, <2>3, <2>4, <2>5, AnswerShape
<1>12. CASE NothingToOpen
  BY <1>0, <1>12, NothingMovesShape DEF NothingToOpen, OpenDue, callerVars, busyVars
<1>13. CASE OpenUnavailable
  BY <1>0, <1>13, NothingMovesShape DEF OpenUnavailable, OpenDue, SearchAgain, NoHello, callerVars, busyVars
<1>14. CASE OpenError
  BY <1>0, <1>14, NothingMovesShape DEF OpenError, OpenDue, SearchAgain, NoHello, callerVars, busyVars
<1>15. CASE Open
  BY <1>0, <1>15, NothingMovesShape DEF Open, OpenDue, NoHello, callerVars, busyVars
<1>16. CASE SendResetComms
  BY <1>0, <1>16, NothingMovesShape DEF SendResetComms, Handshaking, callerVars, busyVars
<1>17. CASE HandshakeTimeout
  BY <1>0, <1>17, NothingMovesShape DEF HandshakeTimeout, SearchAgain, NoHello, callerVars, busyVars
<1>18. CASE AttemptTimeout
  BY <1>0, <1>18, NothingMovesShape DEF AttemptTimeout, Handshaking, callerVars, busyVars
<1>19. CASE HelloReply
  BY <1>0, <1>19, NothingMovesShape DEF HelloReply, Handshaking, callerVars, busyVars
<1>20. CASE HelloPreset
  BY <1>0, <1>20, NothingMovesShape DEF HelloPreset, Handshaking, callerVars, busyVars
<1>21. CASE InitialSyncTimeout
  BY <1>0, <1>21, NothingMovesShape DEF InitialSyncTimeout, Handshaking, callerVars, busyVars
<1>22. CASE PresetSyncTimeout
  BY <1>0, <1>22, NothingMovesShape DEF PresetSyncTimeout, Handshaking, callerVars, busyVars
<1>23. CASE SeedPreset
  BY <1>0, <1>23, NothingMovesShape DEF SeedPreset, Handshaking, callerVars, busyVars
<1>24. CASE HandshakeReadError
  BY <1>0, <1>24, NothingMovesShape DEF HandshakeReadError, SearchAgain, NoHello, callerVars, busyVars
<1>25. CASE Install
  <2>1. pending = {}
    BY <1>25 DEF Install, LinkInv, PlaceTellsLink, HandshakeSteps, CallInv, NoOrphanRequest
  <2> QED
    BY <1>0, <1>25, <2>1, NothingMovesShape DEF Install, callerVars
<1>26. CASE ReadMessage
  BY <1>26, ReadMessageCalls
<1>27. CASE ReadNothing
  <2>1. PICK expired \in SUBSET pending : BackToCommands(expired, calls, pending)
    BY <1>27 DEF ReadNothing
  <2>2. /\ calls' = Answer(calls, expired, "failed") /\ pending' = pending \ expired
        /\ UNCHANGED <<posted, inbox, backup, conn>> /\ pc = "read"
    BY <1>27, <2>1 DEF ReadNothing, BackToCommands, busyVars
  <2>3. expired \cap (inbox' \cup pending' \cup {backup'}) = {}
    BY <1>0, <2>1, <2>2 DEF CallInv, CallType, OnePlace, Ticket
  <2> QED
    BY <1>0, <2>2, <2>3, AnswerShape
<1>28. CASE ReadToleratedError
  <2>2. /\ calls' = Answer(calls, {}, "failed") /\ pending' = pending \ {}
        /\ UNCHANGED <<posted, inbox, backup, conn>> /\ pc = "read"
    BY <1>28 DEF ReadToleratedError, BackToCommands, busyVars
  <2> QED
    BY <1>0, <2>2, AnswerShape
<1>29. CASE LoseLink
  <2>1. /\ calls' = Answer(calls, pending, "failed") /\ pending' = {}
        /\ UNCHANGED <<posted, inbox, backup>> /\ pc = "read"
    BY <1>29 DEF LoseLink, CloseLink, busyVars
  <2>2. pending \cap (inbox' \cup pending' \cup {backup'}) = {}
    BY <1>0, <2>1 DEF CallInv, OnePlace
  <2> QED
    BY <1>0, <2>1, <2>2, AnswerShape
<1>30. CASE Sleep
  <2>2. /\ calls' = Answer(calls, {}, "failed") /\ pending' = pending \ {}
        /\ UNCHANGED <<posted, inbox, backup, conn>> /\ pc = "read"
    BY <1>30 DEF Sleep, BackToCommands, busyVars
  <2> QED
    BY <1>0, <2>2, AnswerShape
<1>31. CASE BackupSideMessage
  BY <1>0, <1>31, NothingMovesShape DEF BackupSideMessage, callerVars, busyVars
<1>32. CASE BackupCompletes
  <2>1. /\ calls' = Answer(calls, {backup}, "ok") /\ backup' = 0
        /\ UNCHANGED <<posted, inbox, pending, conn>> /\ pc = "backup"
    BY <1>32 DEF BackupCompletes, BackupReturns
  <2> QED
    BY <2>1, BackupAnswered
<1>33. CASE BackupTimesOut
  <2>1. /\ calls' = Answer(calls, {backup}, "failed") /\ backup' = 0
        /\ UNCHANGED <<posted, inbox, pending, conn>> /\ pc = "backup"
    BY <1>33 DEF BackupTimesOut, BackupReturns
  <2> QED
    BY <2>1, BackupAnswered
<1>34. CASE BackupReadError
  <2>1. /\ calls' = Answer(calls, {backup}, "failed") /\ backup' = 0
        /\ UNCHANGED <<posted, inbox, pending, conn>> /\ pc = "backup"
    BY <1>34 DEF BackupReadError, BackupReturns
  <2> QED
    BY <2>1, BackupAnswered
<1>35. CASE Tick
  BY <1>0, <1>35, NothingMovesShape DEF Tick, callerVars, busyVars
<1>36. CASE DeviceChanges
  BY <1>0, <1>36, NothingMovesShape DEF DeviceChanges, callerVars, busyVars
<1>37. CASE UNCHANGED vars
  BY <1>0, <1>37, NothingMovesShape DEF vars, callerVars, statusVars, cacheVars, busyVars, envVars
<1> QED
  BY <1>1, <1>2, <1>3, <1>4, <1>5, <1>6, <1>7, <1>8, <1>9, <1>10, <1>11,
     <1>12, <1>13, <1>14, <1>15, <1>16, <1>17, <1>18, <1>19, <1>20, <1>21,
     <1>22, <1>23, <1>24, <1>25, <1>26, <1>27, <1>28, <1>29, <1>30, <1>31,
     <1>32, <1>33, <1>34, <1>35, <1>36, <1>37
     DEF Next, Caller, Worker, Command, Connect, Read, Backup

LEMMA CallInit == Init => CallInv
<1> SUFFICES ASSUME Init
             PROVE  CallInv
  OBVIOUS
<1> USE DEF Init
<1>1. NotMade \in Call /\ NotMade.kind = "none" /\ NotMade.outcome = "posted"
  BY DEF NotMade, Call, Outcome
<1>2. CallType
  BY <1>1, BoundsAssumption DEF CallType
<1>3. TicketsInOrder /\ OnePlace /\ KindsInPlace /\ AnsweredIsDone
  BY <1>1, BoundsAssumption
     DEF TicketsInOrder, OnePlace, KindsInPlace, AnsweredIsDone, Waiting, Ticket
<1>4. NoOrphanRequest /\ NoLostCall /\ RightReply
  BY <1>1 DEF NoOrphanRequest, NoLostCall, RightReply, Waiting
<1> QED
  BY <1>2, <1>3, <1>4 DEF CallInv

(* The inductive invariant of the calls, next to that of the connection.   *)
THEOREM CallInvariant == Spec => []CallInv
  BY CallInit, LinkInvariant, RestInvariant, CallStep, PTL DEF Spec

(* A pending request never outlives the link it was written to.            *)
THEOREM OrphanTheorem == Spec => []NoOrphanRequest
<1>1. CallInv => NoOrphanRequest
  BY DEF CallInv
<1> QED
  BY CallInvariant, <1>1, PTL

(* Whoever waits is waiting for something the worker still holds.          *)
THEOREM LostTheorem == Spec => []NoLostCall
<1>1. CallInv => NoLostCall
  BY DEF CallInv
<1> QED
  BY CallInvariant, <1>1, PTL

(* No request is answered by another link, and no tagged one by a message  *)
(* that carries the id of another.                                         *)
THEOREM ReplyTheorem == Spec => []RightReply
<1>1. CallInv => RightReply
  BY DEF CallInv
<1> QED
  BY CallInvariant, <1>1, PTL

-----------------------------------------------------------------------------
(* The worker, its callers and the device keep their types.                *)
THEOREM TypeCorrect == Spec => []TypeOK
<1>1. LinkInv /\ CallInv /\ RestType => TypeOK
  BY DEF LinkInv, LinkType, CallInv, CallType, RestType, EnvType, CacheType, TypeOK
<1> QED
  BY <1>1, LinkInvariant, CallInvariant, RestInvariant, PTL
=============================================================================
