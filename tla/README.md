# Verification of the Quad Cortex control platform

This directory holds TLA+ models of the parts of the platform that talk to the
Neural DSP Quad Cortex, the TLC configurations that check them on small
instances, and theorems about them that TLAPS proves for every value of the
constants.  Paths are relative to the repository; `PROJECT.json` maps every
definition to the lines it models.

1. [The system](#1-the-system)
2. [The components](#2-the-components)
3. [The modules](#3-the-modules)
4. [What the runs check](#4-what-the-runs-check)
5. [Fairness](#5-fairness)
6. [What is proved](#6-what-is-proved)
7. [Where documents and code disagree](#7-where-documents-and-code-disagree)
8. [What is abstracted](#8-what-is-abstracted)
9. [What is not modelled](#9-what-is-not-modelled)
10. [The plan](#10-the-plan)

## 1. The system

The platform lets several front ends (a Windows and an Android application, an
assistant, MCP clients, a phone over a public relay) control one Quad Cortex on
a USB cable.  Only one program can own the USB interface, so a broker process
owns it and everybody else goes through the broker.

```
 caller ── web.rs ─ relay.rs (hub) ══ socket ══ qc-relay-client ─┐
                                                                 │ JSON-RPC
 user ── qc-ui / qc-core (command-coordinator.ts: optimistic ────┤ on stdio
           │               commands, reconciliation, rollback)   │
           ▼                                                     ▼
 rpc.rs  (one request at a time; a second thread writes events) ── frames ──▶
           │ request.rs: plan, validate, verify; lib.rs: snapshot, library
           ▼ commands channel, with a time-out
 worker.rs: worker thread ─ SessionMachine      decoder thread ─ snapshot, log,
           │  connection, pending requests,  ───▶ StateDecoder   subscribers
           │  status, caches                      ▲      │
           ▼                                      └──────▼ metadata thread
 usb.rs: HID reader thread, bounded queue, assembler, handshake, backup
           │
           ▼  64-byte HID reports
        the Quad Cortex  (also changed by hand, at its touchscreen)
```

The threads of the broker share channels (commands, decoder commands, metadata,
subscribers, reports) and locked cells (status, latest messages, raw log,
library, snapshot, frame log).  The device is not a passive store: the musician
turns its knobs while the platform writes to it, the cable is pulled, and it may
be busy or silent for seconds.

What makes it hard to test:

* one worker thread does the handshake, the reads, the backup and the commands,
  so every command can find the session in any state, and every failure has a
  path of its own back to the search;
* callers give up without taking their command back;
* replies carry no request id: a reply may come after its request expired, when
  a later one waits, and a backup's chunks name no transfer;
* a write is confirmed by a *later* reading of the device, which may be older
  than the write, equal to what was there, or come back in other units;
* the device, the decoder and the metadata thread work on different links for a
  while after each reconnect;
* the user interface shows commands before the device has executed them, and
  three late sources (frames, results, polled snapshots) contradict it;
* the relay looks a session up, waits in it and sends over it under different
  locks, while sockets are replaced and devices paired again.

## 2. The components

State, operations and what makes each one correct.  *Partly* means that the
control of the operations named is modelled and section 9 lists what is not.

| component | code | state | operations | correct when | status |
|---|---|---|---|---|---|
| session policy | `qc-protocol/src/session.rs`, `profile.rs` | phase, four timers, probe and error counters, synchronized; the bytes of a frame | 14 methods of `SessionMachine`, `FrameAssembler::push` | ready means synchronized; probes, keepalives and reconnects keep their pace; handshakes end | modelled |
| broker worker | `device-broker/src/worker.rs` | connection, auto-connect, pending requests, status, caches, generation | seven commands, connect, read, link loss, expiry | status tells the link; nobody's command is lost; no reply goes to the wrong request; the search never stops by itself | partly |
| broker USB session | `device-broker/src/usb.rs` | handshake progress, report queue, overflow flag, set-aside messages | reader thread, `connect`, `finish_hello`, `send`, `read_message`, `create_backup` | frames come in order, a gap is told, a dead reader ends the link, a backup is one document and returns the live messages | partly |
| broker state lane | `device-broker/src/worker.rs` 607-791 | decoder, snapshot, frame log, catalog, subscribers | ingest, decode, publish, poll, subscribe | after a reset nothing of an earlier link is seen; readers miss nothing kept; sequences tell fresh from old | partly |
| broker RPC | `device-broker/src/rpc.rs`, `main.rs` | one request, its deadline, its plan | reads, writes, recalls, mutations, backup, waits | what is reported verified has landed; what has landed is not reported failed | partly |
| gateway request planner | `qc-device-runtime/src/request.rs` | plans, verifications | `operation`, validators, plans, readback rules | a call does to the device what it names; a stale expectation is refused | partly |
| device runtime | `qc-device-runtime/src/lib.rs` | preset library, gateway snapshot | `ingest`, `record_save`, `apply` | a listing replaces the older one; a snapshot follows the device | partly |
| device commands | `qc-protocol/src/commands.rs` | none | the frames of each command, clamps and scales | each value arrives as it was meant | partly |
| device state decoding | `qc-protocol/src/state.rs`, `domain.rs` | last preset, scene, pushed parameters, catalog | decode one message | pushes bring the snapshot to what the device shows | partly |
| reply decoding | `qc-protocol/src/responses.rs` | a backup's chunks | push chunk, preset folder, tempo, I/O, MIDI | complete and in order, or an error | partly |
| frame codec | `qc-protocol/src/framing.rs`, `wire.rs`, `compression.rs` | none | encode, decode reports | a frame that lacks a report is refused or shorter | partly (flags of reports) |
| command coordinator | `qc-core/src/command-coordinator.ts`, `state.ts`, `footswitch.ts`, `qc-ui/src/use-qc-controller.ts` | shown snapshot, intents, move queue | begin, succeed, fail, settle, reset, reconcile | a pending command stays shown; a failure undoes only itself; the screen comes back to the device | partly |
| relay hub, pairing | `qc-relay/src` | sessions, pending calls, offers, tokens | connect, dispatch, replace, disconnect, redeem, revoke | a call is carried out at most once, for its own principal's device, and answered once | partly |
| relay client, Windows bridge | `qc-relay-client/src/lib.rs`, `src-tauri/src/relay.rs` | socket, readiness, the one request | connect, execute, stop, pair | one request at a time | partly |
| Android host | `qc-android/src/lib.rs`, `QcUsbPlugin.java` | the same `SessionMachine` through JNI | the same calls, from Java | the same as the session policy | its policy is SessionMachine |
| flight recorder | `device-broker/src/flight.rs` | ring of log lines | append | (diagnostic) | not modelled |
| MCP services, Python gateway | `services/rust-mcp`, `qc-remote`, `mcp-server`, `device-gateway` | none of their own | translate calls | (stateless) | not modelled |
| applications, user interface | `apps`, `qc-ui` | rendering, chat | | | not modelled |
| generated bindings | `qc-client`, `qc-windows-midi` | none | | | not modelled |

The hazards of each component, at the line where they bite, with the property
that would catch them, are in `PROJECT.json` under `hazards`.

## 3. The modules

An arrow is EXTENDS; a dotted one is the INSTANCE of a refinement mapping.

```
SessionPolicy ──▶ SessionMachine ──┐
      └─────────▶ BrokerWorker ────┴──▶ BrokerWorkerProofs
FrameDelivery ┄┄▶ HidLane ──▶ HidLaneProofs
PresetLibrary ──▶ Transfers ──▶ TransfersProofs
StateLane ──▶ StateLaneProofs
DeviceOperations ──▶ WireFrames ──▶ DeviceDecode ──▶ GatewayReads ──▶ GatewayWrites
GatewayWrites ──▶ WritePath ──▶ MCWritePath
                      └───────▶ WritePathProofs
Gateway ──▶ GatewayProofs
CommandCoordinator ──▶ CommandCoordinatorProofs
Pairing ──▶ Relay ──▶ MCRelay
RemoteCall ┄┄┘ └────▶ RelayProofs
```

The layers meet at the same messages: `HidLane` ends where `read_message`
returns a frame; `BrokerWorker` and `Transfers` begin there; `StateLane` takes
over where the worker hands a message on; `Gateway` and `WritePath` wait on what
the lane publishes; `CommandCoordinator` and `Relay` are the callers in front.

**SessionPolicy** has the record of `SessionMachine` and one operator per
method: a method is a function of the session, `machine.read_failed()` is
`session' = ReadFailed(session)`.  A deadline `now + interval` of the code
becomes the time that remains (`keepalive_in`, `reconnect_in`, `handshake_in`),
the start of the handshake its age (`handshake_elapsed`).  The counters saturate
where the code's do.

**SessionMachine** drives it alone, by every order of calls that a host makes:
the broker's worker and, on Android, the JNI layer.  Its history variables
(`sinceOpen`, `silent`, `requested`) measure the real time since the transport
was opened and since a report crossed, which the methods must keep track of.

**HidLane** is the way from HID reports to frames.  The reader thread
(`ReadReport`, `ReadShort`, `ReadNothing`, `ReadFails`) puts reports into a queue
of one frame and one report; when it is full it drops, and puts the flag up in a
step of its own (`MarkOverflow`).  The worker looks at the flag (`TakeFlag`),
waits at the queue (`WaitAtQueue`, `NothingComes`, `ReaderGone`), and pushes the
report into the assembler (`PushPart`, `PushLast`, `PushOrphan`, `PushTooLarge`,
`PushUndecodable`).  `doing` says whether it reads in its loop, where one error is
tolerated, in the handshake or in a backup, where none is.  `missed` and `intact`
are history.  **FrameDelivery** is the abstract specification it implements: frames
in the order of the device, at most once, and none skipped or torn but those of
which a report was lost.

**BrokerWorker** composes the policy with the worker thread, the blocking
handshake and backup of `usb.rs`, the callers in front and the device behind.
`pc` is where the worker thread is:

| `pc` | code | left by |
|---|---|---|
| `drain` | the command loop of `run` (`try_recv`) | `Handle...`, and `NothingToOpen`, `Open...` when the inbox is empty |
| `probe`, `await` | `connect`: sends a probe; waits for the version | `SendResetComms`, `HelloReply`, `AttemptTimeout`, `HandshakeTimeout` |
| `initial`, `resync`, `seed` | `finish_hello`: the two windows for the preset; the seed states; then the session is installed | `HelloPreset`, `InitialSyncTimeout`, `PresetSyncTimeout`, `SeedPreset`, `Install` |
| `read` | one read of the connected link, or the sleep without one; expiry of requests | `ReadMessage`, `ReadNothing`, `ReadToleratedError`, `LoseLink`, `Sleep` |
| `backup` | `create_backup` | `BackupSideMessage`, `BackupCompletes`, `BackupTimesOut`, `BackupReadError` |
| `stopped` | `Command::Stop` received | nothing |

A call's life is `calls[t]`: posted to `inbox`, received, perhaps `pending`,
answered, or given up by its caller while the command lives on.  `fed`,
`latest` and `library` hold which links a cache has messages *of*; that is all
their properties need.  A message read from the device (`ReadMessage`) is of a type and
may carry the identifier of a request; which waiting request it answers is decided as in
`deliver_pending`, which takes a message without an identifier for the reply to any
request of its type.

**Transfers** opens what BrokerWorker keeps closed: the messages a backup and a
preset listing consist of.  A backup collects chunks that name no request
(`Pushed` is `BackupAssembler::push`), sets the other messages aside and takes
them in at the end; it may refuse the document, stall, or fail in a read.  The
RPC thread asks for the slots, subscribes, looks, waits and looks again, until its
deadline has passed at a look that found nothing (`DeadlinePassed`) or while nothing
came (`WaitEnds`).
**PresetLibrary** has the library it looks into: a listing is taken in unless it is
smaller than the kept one, and a save the broker has made is recorded in it.

**StateLane** takes over where a message of the worker leaves it: the three
threads worker, decoder and metadata, and the readers (a client polling with
`state_events_since`, and waiters like `wait_for_gateway_snapshot`).  A step is
what happens under one lock, so the four locked parts of one publication
(snapshot, log, subscribers, next number) are interleaved with the readers.

**Gateway** has the calls of several stages: a recall, which waits for the
position and, when it is not confirmed, resets the session and sends the recall
again (`ResetSession`, `Ready`, `Replay`, `Recovered`); a save or rename, a copy and
a duplication of a setlist, which recall and save slot by slot; an edit and a
reload.  A stage is planned on the snapshot, armed, sent, asked for and confirmed
(`Arm`, `Send`, `Ask`, `Answered`, `Continue`, `Finish`, `Fail`).  `out` has the
commands on their way to the device, `lane` what it has sent and the decoder has not
taken in.

**DeviceOperations, WireFrames, DeviceDecode, GatewayWrites** are the pure half of the
single writes, in the order a call passes them: which parameters each of the named
operations accepts and the operation it makes of them; the frames of each operation with
their clamped and rescaled values; what a message changes in the decoder and in the
snapshot; and which guards, verification and readback the planner attaches.
**GatewayReads** has the reads: the frame of each, the identifier its answer must carry,
if any, and its decoder.  Numbers are fractions, so that a rescaling is what it is in
the code up to rounding of floats.

**WritePath** runs them against a device that is a map from paths to values: a call
is planned, its frames travel, are executed or ignored one by one, the device
reports, the decoder follows, and the call is answered `refused`, `accepted`,
`verified` or `failed`.  A read is a call too: it takes the first message it can decode
(`execute_gateway_read`), and its caller may have given up before that, so that the
next call meets the late answer.  **MCWritePath** has the device and the list of calls, each
with what its caller *wants* of the device; that list is written from the names and
documentation of the operations, independently of the frames.

**CommandCoordinator** is the user interface's half: commands and their
previews, the one gateway that executes them in order and refuses a stale
expectation, the device that is also touched by hand, and the three ways its
state comes back.  `known` is the gateway's snapshot, which lags behind the
device; `shown` lags behind `known`.  A command sets one field or, a footswitch,
all the blocks it drives and its light: its token has the previous values of what it
changed, and all the lights.
`link` is the application's connection: live; lost, which polling may mend; being
made, which drops the intents and shows the first snapshot as it is; or off.
Unless it is live, commands are shown and settled (`Demonstrate`).  `native` is whether
a frame has been shown, after which nothing is polled any more.  `writer` says
whose preview a shown value is, for the properties only.

**Relay** has the callers of the public interface, the hub, the sockets' tasks, the
relay client of each device and its owner who pairs, stops and starts it.  A call
is `chosen` (authorized), `looked` (has the session), `inserted` (in the pending
map), `waiting` (sent), or its caller is `gone`; each is a step under its own lock.
**Pairing** has offers, tokens and grants.  **RemoteCall** is the abstract
specification: a refused call is never carried out, a finished one was, once, and of
a lost one nothing is known but that it is carried out at most once.

## 4. What the runs check

| run | bounds | distinct states | shows |
|---|---|---|---|
| `SessionMachine` | intervals 3, 2, 6, 2; attempts saturate at 5 | 357 | readiness, probing, keepalive and reconnect cadence |
| `HidLane` | frames of 1 to 3 reports, largest 2; 2 frames; 2 faults; 2 sessions; fair | 308 thousand | delivery of frames, drops, a dead reader |
| `BrokerLinks` | 2 calls of reconnect, reset, disconnect, backup; 1 fault; 2 device changes; intervals 1, 1, 2, 1 | 2.10 million | status, session and kept messages follow the link |
| `BrokerRequests` | 2 calls of send, request, tagged request, reset; no fault; 2 device changes | 2.91 million | requests and answers match |
| `BrokerRecovery` | 1 call of reset, backup; 2 device changes; fair | 62 thousand | the link recovers; commands are received |
| `Transfers` | setlist of 2 positions; 3 calls, the last chunks of the first and the third beginning with a brace; 2 touches, drops, reopens or given up calls | 3.00 million | backups and listings |
| `Lane` | 1 waiter, log of 2, queues of 1, 3 messages, 2 generations | 1.66 million | readers and resets |
| `Gateway` | 2 slots and 1 new one; 2 calls; 1 touch, lost command or omitted echo | 3.19 million | recalls, mutations, verified writes |
| `WritePath` | 2 scenes, a row of 4 cells, 2 models; every call alone, and every follower (a read with an identifier and one without among them) after every call; 1 ignored frame or touch | 298 thousand | every single write and read, its values and its answer |
| `Coordinator` | position and one block with a footswitch and its light, 2 events of which 1 at the device and 1 of the link, 2 ticks, grace 1; polling; fair | 1.11 million | reconciliation, rollback, moves, changes of the link, convergence |
| `Relay` | 2 devices, principals, callers (symmetric); 2 offers, 2 sockets, 2 events | 973 thousand | remote calls, sessions, pairing |
| `WriteUnconfirmed` | as `WritePath` | | a violation: section 7 |

Why these bounds are enough to make the cases happen:

* *SessionMachine* has no bound but the intervals: the state space is finite as
  all timers and counters saturate.  The intervals keep the order of the real
  ones (an attempt is shorter than the handshake, which has room for several
  probes), and keepalive and reconnect intervals last several ticks, so that a
  deadline set too early or too late differs from one set right.
* *HidLane.* A frame of 3 reports exceeds the largest frame, one of 2 fills it, one
  of 1 has its first and last report in one.  The queue holds 3 reports, fewer
  than the two frames have, so it overflows; two sessions leave what an earlier one
  had assembled and queued; two failed reads end the reader, with one alone it
  goes on.
* *BrokerWorker.* `MaxChanges` 2 lets the device vanish and come back, or go
  mute and live, so that a second link follows a first one; two calls let one
  command find what another left, or one expire while a later one waits; one
  fault is a read error that is tolerated, or an open or handshake that fails.  A
  device loss already ends the link of a request, so `BrokerRequests`
  needs no fault.  The intervals only order the timers, so 1 and 2 suffice.
* *Transfers.* A document has two chunks: the first opens it, the second ends it and, in
  the documents of `Braced`, begins with a brace as well, so that it is taken for a start.
  Three calls are a transfer that is given up, a second that meets its rest, and a
  third that meets the rest of both.  Two events are, for instance, a dropped
  report and a reopened session.
* *StateLane.* Two generations are two links; three messages are a preset and a
  catalog or live change before and after; a log of 2 overflows at the third
  frame, a queue of 1 at the second.
* *Gateway.* A copy needs two slots, a duplication a setlist of new ones.  A second
  call meets the echoes and the snapshot that the first one left; one event is what
  it takes to fail a stage.
* *WritePath.* The writes do not interact but through the snapshot, so pairs of
  calls suffice; the cells are a block with discrete and continuous parameters,
  another model, the same model twice and an empty cell; the list of calls has for
  every operation its extremes, values outside its range and a null where it
  takes one.  A read that was given up and another of the same type are a late answer
  and the call that must not take it.
* *CommandCoordinator.* Two commands on one field are the young and the old
  intent; a command and a touch are the conflict with the device; a tick more
  than the grace makes an intent overdue; a change of the link meets the commands that
  are under way. `MaxEvents` counts all of them.  One light is enough for the run's
  properties, which do not speak of lights; what happens to a second one is
  `CoordinatorLights.cfg` (section 7).
* *Relay.* Two sockets of one device are the replaced and the new one; two offers
  pair a device again, to another principal; two callers meet in one pending map.

The properties:

| property | run | says |
|---|---|---|
| `ReadyMeansSynchronized` | SessionMachine | ready exactly while this session's preset has been seen |
| `OneProbePerWindow` | SessionMachine | polling the handshake faster sends no more probes |
| `SilentLinkIsProbed` | SessionMachine | nothing but traffic postpones the keepalive |
| `ReconnectCadence` | SessionMachine | whatever fails, the transport is opened once per interval unless asked for |
| `DropIsPending` | HidLane | a dropped report stays flagged, or about to be, until it is told as a read error |
| `FramesAreDelivered` | HidLane | refinement: HidLane implements FrameDelivery |
| `TornFrameIsFlagged` | HidLane | when a torn frame is returned, the overflow that tore it is flagged or told |
| `DeadReaderEndsLink` | HidLane | when the reader thread has ended the link ends, backups or not (liveness) |
| `StatusTracksLink` | BrokerLinks | what `status()` tells is the link the worker owns |
| `SessionTracksLink` | BrokerLinks | policy and worker agree whether there is a link |
| `SearchIsArmed` | BrokerLinks | a worker that means to be connected has an attempt scheduled |
| `MessagesAreOfThisLink` | BrokerLinks | latest messages, raw log and decoder hold nothing of an earlier link while connected; the preset library, kept over a lost link, is not among them |
| `NoLostCall` | BrokerRequests | a waiting caller is in the channel, pending or the backup |
| `RightReply` | BrokerRequests | an answer is of the request's link; a tagged request is answered by its own reply or a message of its type without an identifier, never by the late reply to another |
| `LinkComesBack` | BrokerRecovery | a device that stays live ends up connected for good, and ready if the handshake saw its preset (liveness) |
| `CommandsAreReceived` | BrokerRecovery | the worker never blocks for good (liveness) |
| `WholeBackup` | Transfers | a document is one of the device's, from its first to its last chunk |
| `OnlyBracesSpoil` | Transfers | of the rest of an earlier transfer only chunks that begin with a brace spoil a backup |
| `FreshWhenQuiet` | Transfers | what a backup set aside is told in the end |
| `LibraryIsTrue` | Transfers | the library shows the setlist as last told and as saved since |
| `LaneTellsLink` | Lane | once the decoder has caught up, all that can be seen is of the worker's link |
| `PollMissesNothing` | Lane | no kept frame hides behind a client's cursor, across resets too |
| `NoMissedWakeup` | Lane | nobody sleeps through a change although full queues drop frames |
| `CatalogsAdvance` | Lane | late parsing and dropped refreshes never bring an old catalog back |
| `VerifiedIsOnTheDevice` | Gateway | what a call that began with nothing under way reports verified is what the device holds, unless it was touched or the snapshot showed it beforehand |
| `MutationsAreFaithful` | Gateway | a mutation nobody interfered with stored what it names, slot by slot |
| `WriteLands` | WritePath | an accepted write does what its caller wants and nothing else, a refused one was rightly refused; what is verified has landed, on a device that ignores some frames too, unless another message of the readback's type was under way |
| `ReadsAreTrue` | WritePath | what a read finds is what the device held when it was asked, whatever late answers are under way |
| `ConfirmedOrUnshown` | WritePath | what has landed is not reported failed, but for the calls the module lists |
| `RetryIsIdempotent` | WritePath | a write that the list of retryable methods admits changes nothing when it is repeated |
| `RealtimeReconciles` | WritePath | pushes bring the snapshot to what an unconfirmed write was for |
| `PendingIsShown` | Coordinator | a pending command's value is what the user sees |
| `MovesAreSerial` | Coordinator | of the waiting moves exactly the first is under way |
| `RollbackUndoesOwnPreview` | Coordinator | of scalars and bypasses a failure undoes a preview of the failing commands and nothing else |
| `Converges` | Coordinator | as long as no frame has been shown, polling brings the screen back to the device (liveness) |
| `LastSessionIsListed` | Relay | a device is known by its last session; the end of an older one changes nothing |
| `PendingMeansWaiting` | Relay | who waits is in a pending map that will be answered or drained |
| `RequestsReachOwnDevice` | Relay | no request of one principal goes over a session of another's |
| `CallsAreRemoteCalls` | Relay | refinement: Relay implements RemoteCall |

Modules have a `TypeOK` besides.  Every property has a mutant in `PROJECT.json`:
a plausible bug, in the form of a second version of one definition next to the
first (`NeverExpired`, `SatisfiedByType`, `QueueAndSend`, ...), under which
TLC finds the property violated.  Those second versions are part of no
specification.

`CHECK_DEADLOCK FALSE` is set where the bounds let the system stop: HidLane,
Relay, Gateway, WritePath, Transfers and CommandCoordinator, when no frame, call,
event or tick is left.  The broker's worker and the lane never stop.

## 5. Fairness

* `HidLane`: weak fairness of the worker's reads and of `MarkOverflow`, threads that
  are only ever between two steps; of `HelloDone` (the handshake ends, by an answer
  or its time-out); strong fairness of the reads in the loop: every turn of the
  loop of `run` ends in a read (worker.rs), so a stream of backup commands does not
  keep the worker from it.  The device, its cable and the reader's `read` are not
  fair.
* `BrokerWorker` (`BrokerRecovery` only): weak fairness of `Worker`, a thread in
  an infinite loop whose reads and sleeps are bounded, and of `Tick`; strong
  fairness of `SendResetComms` (the worker does not spend each whole handshake
  window before its first probe), and of `HelloReply` (a device that stays live does
  not leave the probes of *every* window unanswered; the host sends another in each,
  and starts over for as long as none is answered).  The strong assumptions are about
  the device and the scheduler; without them a device could be late for ever and the
  link rightly never come back.  Of the preset nothing is assumed: the handshake asks
  for it once and nothing asks again, so `LinkComesBack` promises readiness only
  to a link whose handshake has seen it.  The callers and the device's owner are not
  fair: calls, unplugging and faults may stop at any time.
* `CommandCoordinator`: weak fairness of the polls (one that is scheduled is made and
  its answer shown; after the first frame none is scheduled, and `Converges` promises
  nothing), of time, and of the gateway's taking in what the device tells.  Nothing else
  is needed: answers and frames may come as late as they like, and the user, the hands
  at the device and the link are not fair.

The other modules are checked for safety only.

## 6. What is proved

TLAPS proves the following for every value of the constants, under the named assumptions
of the modules: `ProfileAssumption` (the intervals and the bound on attempts are
positive naturals, nothing about their order), `BoundsAssumption` (the bounds of
BrokerWorker are naturals, the kinds of call among the seven), `LimitsAssumption` (the
largest frame has at least one report, frames have at least one, the bounds of HidLane
are naturals), `LaneAssumption` (the log and the queues have a positive limit),
`TransfersAssumption` (a finite set of positions, at least one, two directories of which
one is a setlist, any numbers of the documents whose last chunk begins with a brace,
natural bounds), `PlacesAssumption` (finite, disjoint sets of slots, of which the user's
is not empty; no slot is the number that stands for none; natural bounds),
`CoordinatorAssumption` (no block is also a scalar, no light is either, a footswitch
drives blocks and lights or selects a scene or a preset, positive grace, natural
bounds), `RelayAssumption` (nobody is no principal, natural bounds), and, of WritePath,
`PathAssumption` (natural bounds, a finite set of scenes), `DeviceAssumption` (finitely
many fields, among them an active scene and, for each parameter, whether it has a value
for each scene) and `CallAssumption` (calls are of known methods; an optional field
holds one value at most, and a bar's beats are a sequence, which is what the parsed JSON
of the code gives).  Nothing else is assumed; the bounds are not: a theorem holds for
any number of calls, faults, reconnects, reports, messages, commands, devices, sockets
and ticks.

| module | theorem | property |
|---|---|---|
| BrokerWorkerProofs, first part | `MachineTyped`, `Readiness`, `Probing`, `Keepalive`, `Cadence` | `MachineTypeOK`, `ReadyMeansSynchronized`, `OneProbePerWindow`, `SilentLinkIsProbed`, `ReconnectCadence` |
| HidLaneProofs | `TypeCorrect`, `DropTheorem`, `TornTheorem` | `TypeOK`, `DropIsPending`, `TornFrameIsFlagged` |
| HidLaneProofs | `DeliveryTheorem` | `FramesAreDelivered`: HidLane implements FrameDelivery |
| BrokerWorkerProofs | `StatusTheorem`, `SessionTheorem`, `SearchTheorem` | `StatusTracksLink`, `SessionTracksLink`, `SearchIsArmed` |
| BrokerWorkerProofs | `MessagesTheorem`, `GenerationTheorem`, `ClosedTheorem` | `MessagesAreOfThisLink`; the decoder is never fed by two links in one generation; everything is forgotten after a disconnect |
| BrokerWorkerProofs | `TypeCorrect`, `LostTheorem`, `ReplyTheorem`, `OrphanTheorem` | `TypeOK`, `NoLostCall`, `RightReply`; no request outlives its link |
| TransfersProofs | `TransfersTyped`, `ChunksInOrder` | messages, commands and calls keep their types; chunks arrive in order, no end without its start |
| TransfersProofs | `BackupIsWhole`, `OnlyBracesAreHarmful`, `VolumeIsFresh` | `WholeBackup`, `OnlyBracesSpoil`, `FreshWhenQuiet` |
| TransfersProofs | `ListingIsTrue` | `LibraryIsTrue` |
| GatewayProofs | `GatewayTyped`, `VerifiedIsTrue`, `MutationsStoreTheirPlan` | types of calls and messages; `VerifiedIsOnTheDevice`, `MutationsAreFaithful` |
| WritePathProofs | `FramesAlwaysLandInOrder`, `RetryIsAlwaysIdempotent`, `ReadsAreAlwaysTrue` | the frames of a call land whole and in order; `RetryIsIdempotent`, `ReadsAreTrue` |
| StateLaneProofs | `TypeCorrect`, `NumbersHaveNoGap`, `PollersMissNothing` | `TypeOK`; the number a write remembers separates fresh frames from old; `PollMissesNothing` |
| StateLaneProofs | `NobodySleepsThrough`, `ReadersSeeTheLink`, `CatalogsOnlyAdvance` | `NoMissedWakeup`, `LaneTellsLink`, `CatalogsAdvance` |
| CommandCoordinatorProofs | `TypeCorrect`, `PendingStaysShown`, `MovesGoOneAtATime`, `FailureUndoesOwnPreview` | `TypeOK`, `PendingIsShown`, `MovesAreSerial`, `RollbackUndoesOwnPreview` |
| RelayProofs | `RelayTypeTheorem`, `LastSessionTheorem`, `PendingTheorem`, `OwnDeviceTheorem` | `TypeOK`, `LastSessionIsListed`, `PendingMeansWaiting`, `RequestsReachOwnDevice` |
| RelayProofs | `RemoteCallTheorem` | `CallsAreRemoteCalls`: Relay implements RemoteCall |

The arguments:

* **SessionMachine.** The properties speak of a deadline that has been reached.
  While it has not, nothing is inductive but the *sum* of the time gone by and
  the time that remains: a tick moves one unit from the second to the first and
  a method only raises it.  `MachineInv` has these sums (`ProbesPaced`,
  `KeepaliveKeepsUp`, `SearchWaits`).  The handshake's time-out is the exception
  in `ProbesPaced`: past it the elapsed time saturates while the remaining time
  goes on falling, so the bound has one window to spare there.  What each method
  of the policy does to the type and the phase is a lemma of the module's first
  part, used here and for the worker.
* **HidLane.** `DropIsPending` is inductive with the places of the two threads.
  For the delivery, what is assembled and what is queued is *one* stream of
  reports, in the order of the device (`Ordered`), and the device's own place is its
  end.  Of a frame that no report was lost of, each report in the stream is directly
  behind its predecessor (`Following`, `Latest`), the last one is in the stream if
  the device has sent it (`Ended`), and what is assembled is its beginning
  (`Gapless`); of a frame with a lost report one particular report is nowhere in the
  stream (`Holes`).  So what `PushLast` takes for a whole frame is whole exactly when
  it is not `missed`, which is FrameDelivery's `Take`.  `StreamInv` has these parts;
  pushing a report moves the border between the two parts of the stream and
  nothing else.
* **BrokerWorker, the link.** That status, session and connection agree is not inductive
  alone: inside the handshake the worker looks at none of them. `PlaceTellsLink` says
  what the place in the loop implies (in a handshake: no connection, auto-connect on,
  the session handshaking; in a backup: a connection; auto-connect off: no connection).
  `LinkInv` is these with the types.  The kept messages and the library follow with it
  (`CacheInv`): that a disconnect forgets both (`ClosedMeansForgotten`) needs the
  stronger fact that everything is forgotten whenever auto-connect is off.
* **BrokerWorker, the calls.** A call is in one place (`OnePlace`: channel,
  pending, backup), tickets are given out in order and none after the stop
  (`TicketsInOrder`), what is pending was asked as a request (`KindsInPlace`),
  and what is answered is in no place (`AnsweredIsDone`), which is what makes
  `RightReply` stable: nothing is answered twice.  A reply with an identifier
  finds only the request that carries it, an untagged message any request of its type,
  and both only a request of the link they were read from.  `CallInv` uses `LinkInv` for
  the paths that close the link.
* **StateLane, numbers and waiters.** `Numbers`: the frame that is being
  published takes the next number and is in the log before the number is counted
  up, so the newest number of the log is `next` in between and `next - 1`
  otherwise; no cursor is beyond it, which is what keeps a new frame from hiding
  behind one.  `NoMissedWakeup` is inductive with the types: a queue that takes
  no frame is full, hence not empty, because its limit is positive.
* **StateLane, links.** `LaneLinked` follows a message from the worker's hand
  through every channel: a command of the worker's generation carries a message
  of the worker's link (`ChannelsLinked`), the decoder is never ahead of the
  worker (`WorkerLinked`), and what it keeps while it is level is of the link
  (`DecoderLinked`).  A new link comes with a new generation, so the decoder
  falls behind at that moment and all of this is asked of it again only after
  the reset.
* **StateLane, catalogs.** `Ordered` lines up the five places a model repository
  passes, from the decoder back to the channel it came in: what is further along
  was read from the link before (`Placed`), each channel is sorted, and nothing
  is newer than the last message read.  Each step moves one number one place on
  (`OneComes`); that one repository at a time is parsed is needed when it is
  posted back.
* **Transfers, documents.** `create_backup` checks that the chunks it collected make
  one JSON value, not whose they are.  That they are of one document follows from
  the order of the messages: what the device has to send, the wire and what the worker
  has read are one sequence (`InOrder`), in which a document comes before
  what was asked for after it (`AskedInOrder`) and no part of an older one is left
  without its start (`StartsAreKept`; a dropped report may break this, and is exempted).
  A start may be followed by the end of its own document or by another start, never by
  the end of a later one alone.  A chunk of an earlier document that begins with a
  brace opens the assembler as the start of one does.  A backup that was asked for
  when no such chunk was still to come meets only its own braces, and their first is the
  start of its document (`OwnStart`), so what is refused has crossed another's:
  `OnlyBracesSpoil` holds wherever the device cuts its documents, and without an
  exemption for dropped reports.  `Handed` carries the document from the worker to its
  caller.
* **Transfers, volumes.** The device's volume only rises in the model, so the messages
  with a volume are ordered with the chunks, and the newest is in the decoder, lost or
  still to be read (`Volumes`), wherever a backup has set it aside.
* **Transfers, the library.** A listing under way is of an earlier version of the
  setlist or equal to it (`ListingsAreTrue`).  For a save that is recorded, what was
  in the library before must differ from the device in the saved position alone
  (`LastSave`), and no listing of a later version may have come in between: the command
  of a save is the last one on the way to the device (`SaveIsLast`: one call at a
  time), so no listing is told between the storing and the record (`StoredIsLast`).
* **Gateway, what is verified.** For a mutation the theorem comes with the invariant
  of the next paragraph.  For an edit or a recall the invariant is a choice
  (`Holds`): what the call waits for is on the device already, or it is nowhere to be
  seen (`Unseen`): in no message on its way, and not in the snapshot, or in a snapshot
  that cannot be taken for the echo, because a recall that found its slot shown waits for
  a position, and one that did not match is shown no preset before a position or a reset.
  Only the execution of the call's own command leads from the second to the first:
  whatever else the device tells is of the state it is in (`UnseenTold`), and decoding
  shows nothing that was not on its way (`UnseenDecoded`).  So what matches is on the
  device.  The theorem covers losses, omitted echoes, resets and replays; a touch clears
  `quiet`, and so does anything under way when the call begins, an echo of an
  earlier call among it.
* **Gateway, mutations.** `StagesFit` says what the three planners have in common: a
  stage without verification can only be the first one; every other waits for its own
  slot, which is another than the stage's before it; a save comes right behind the
  recall of its source, and no save overwrites the source of a later one.  For a
  duplication of any size this is arithmetic on the places of its stages
  (`DuplicatePlanned`); that source and destination slots are disjoint is needed here.
  `RecordsFit`: a record is stored, or its save is to come and its content is at the
  source.  The rest is the race of one stage (`StageRuns`): its command is not
  executed, and then the snapshot cannot be taken for its confirmation (`Hidden`); or
  it is, and then only its own position is on its way (`Executed`).  A command that is
  lost leaves the stage not executed for good, and the call can only fail.  The
  invariant needs what the property exempts: a touch puts a position on the lane that
  is not the stage's, and so does anything under way when the call begins; a stage
  that matches beforehand is done before its command is executed.
* **WritePath, landing.** What a frame does to the device is a fold over its fields, and
  what a queue does a fold over its frames.  A fold has no value the provers compute, so
  it is shown once that its result is the last of a chain of values, one per step
  (`RunSteps`, `ExecuteSteps`); from the chains follow that a queue of two parts
  runs as one after the other, and which fields a frame leaves alone.  Then `Landing` is
  inductive: what the queue *will* make of the device is what the call's frames make of
  the device it found.
* **WritePath, repeating.** Each operation a repeatable method can plan, with any
  parameters, makes frames of three shapes: one update of one field (a parameter's value
  goes to the active scene or to all of them, as its mode says, and changes neither); a
  footswitch that is deleted and assigned again at one path; or the mute of a split,
  which is stored at the path of the mix (`Kept`, `Repeatable`).  Running such frames
  twice is running them once, on every device with the known fields.  The case split
  over the operations is over their names, so a method that is added to the repeatable
  ones has to be proved repeatable: with `copyScene` among them the proof fails, as
  TLC's mutant does.
* **WritePath, reading.** `Identified`: an identifier under way is of a call made so far,
  so the one a new read takes is nobody's.  `Reading`: from the moment a read is asked
  until it is answered, whatever is under way is foreign to it (of another type, or with
  another identifier) or is a reply made of the device as it was asked; when the read has
  no identifier the first half holds only if nothing of its type was under way, which
  is `crossed`.  A read sends no write and the queue is in order, so the device that
  answers is the one that was asked unless somebody touched it.  TLC checked `Identified`
  and `Reading` on the run before they were proved.
* **CommandCoordinator.** What the user sees (the desk) is proved apart from what is on
  the way (the wire).  For `PendingIsShown` an observation is either accepted, and the
  intent goes, or the intent's value is kept; a footswitch shows what it does not change
  as it was; and the first snapshot of a link, shown as it is, is harmless because
  nothing pends without a link (`Line`).  Lights are shown and never intended
  (`LightsNeverPend`), so putting them back disturbs no intent.  Rollback needs
  `WriterOwnsIntent` (the owner of a pending intent wrote what its field shows) and that
  ids start at 1, so that a field without an intent is owned by no command.  On the wire
  the types and `MovesAreSerial` are proved together: that the queue of moves is not
  empty when an answer to a move is received is part of the latter.

* **Relay.** `Typed` comes first: who is connected has a token and a session, and
  the tokens with the open and the redeemed offers stay within their bound.  What each
  action does to the queues and the pending map of the one session it changes is a
  lemma (`InsertFields`, ...), and the further stages use only those.  `Listed` is
  `LastSessionIsListed` from both sides, with a last session of each device as its
  witness; only a new connection and the end of a socket disturb it.  `Waits`: a call
  that is inserted or waits is in its session's pending map exactly while it has no
  answer, so whoever empties the map has to tell everybody in it.  `Served`: a
  request is in one queue, once (`Unique`), and while it is there it has been sent, by
  a caller of the session's principal, was not refused and was not carried out; a
  result on its way was.  So the head of a queue is carried out for the first time,
  a refusal meets a call that never was in a queue, and every step is one of
  RemoteCall's or none.

Only model-checked: the liveness properties (`LinkComesBack`, `CommandsAreReceived`,
`DeadReaderEndsLink`, `Converges`), which rest on fairness and thus on ENABLED, out of
this prover's reach; and three properties of WritePath.  `WriteLands` compares the
frames of each call with what its caller *wants*, which the model instance lists call
by call: there is nothing to prove it from for all calls.  `ConfirmedOrUnshown` and
`RealtimeReconciles` depend on what rescaling, decoding and comparing make of concrete
fractions, call by call; TLC computes them.  Every other property of section 4 is proved.

## 7. Where documents and code disagree

One run expects a violation:

| run | property | what is said | what the code does |
|---|---|---|---|
| `WriteUnconfirmed` | `AppliedIsConfirmed` | "Compare a correlated settings reply with the exact fields a write changed" (`request.rs:837`) | a metronome pan of -1..1 is sent as (pan + 1) / 2, and the readback's 0..1 value is compared with the pan itself: every pan but 1 is answered with an error although the device has taken it |

### Observed

These were met while modelling.  The ones with a configuration can be looked at
with `tlc -config <cfg> <module>`: TLC prints a behaviour that violates the named
definition.

| module, configuration | definition | what is said | what the code does |
|---|---|---|---|
| `BrokerWorker`, `BrokerManualReconnect.cfg` | `ManualReconnectIsAvailable` | "Manual reconnect is always available" (`docs/WINDOWS_IMPLEMENTATION_PLAN.md:302`) | a backup asked for while the device is closed publishes phase `syncing`, and `reconnect_is_satisfied` then takes a reconnect for satisfied; it is acknowledged and nothing reconnects |
| `BrokerWorker`, `BrokerSeedPreset.cfg` | `WaitingMeansNoPreset` | "Handshake complete; waiting for active preset" (`worker.rs:1158`) | a preset that arrives while the seed states are collected is in the status and not counted as synchronization |
| `HidLane`, `HidGap.cfg` | `NoTornFrame` | "A dropped report invalidates the current logical frame" (`usb.rs:121-124`) | the overflow is one tolerated read error and the assembler is not reset, so the frame is finished from what is left of it; whether its bytes decode is up to them |
| `StateLane`, `LaneRefresh.cfg` | `TouchscreenChangesStick` | "Touchscreen changes are treated as authoritative external events" (`docs/WINDOWS_IMPLEMENTATION_PLAN.md:311`) | a catalog parsed late makes the decoder tell its last preset again, over live changes told since |
| `Gateway`, `NoBlindReplay.cfg` | `NoBlindReplay` | an uncertain mutation "is never blindly replayed" (`docs/ARCHITECTURE.md:164`) | a recall the device has executed, whose echo did not come in time, is sent again after the session was reset |
| `CommandCoordinator`, `CoordinatorRollback.cfg` | `StateTruthful` | "The screen represents state read from the QC, not an optimistic local shadow" (`docs/WINDOWS_IMPLEMENTATION_PLAN.md:16`) | when the first of several waiting preset moves fails, the screen falls back to the preview of the second-last, which never happened, and no poll corrects it, as none is made after the first frame |
| `CommandCoordinator`, `CoordinatorLights.cfg` | `LightsKeepNewer` | "Roll back only fields still owned by this command; newer user input wins" (`command-coordinator.ts:117`) | a footswitch press that fails puts back the lights of all footswitches as they were before it (`command-coordinator.ts:138`): press one, press another, and the failure of the first undoes the light of the second, whose block stays as it was pressed |
| `CommandCoordinator`, `CoordinatorGrid.cfg` | `GridsDoNotLeak` | "intents from the previous grid must never leak into it" (`command-coordinator.ts:156-157`) | a move made in the user interface has previewed the position, so the frame that accepts it sees no change of position and keeps the bypass intents |
| `CommandCoordinator`, `CoordinatorStaleResult.cfg` | `NoAcknowledgementFromBefore` | a snapshot "cannot acknowledge an intent that did not yet exist" (`state.ts:59-61`) | the snapshot in a result is reconciled as of now, not as of when it was read |

And without a configuration:

* `worker.rs:1031` tells the session machine `connected.synchronized`, what the
  handshake ended with, on every message: when the preset comes later, status is
  ready and the machine's phase stays `syncing`.  Nothing reads that phase but
  the keepalive, which treats both alike, so no property forbids it.
* The plan says that reconnecting backs off exponentially and stops after
  repeated failure (`docs/WINDOWS_IMPLEMENTATION_PLAN.md:302`); the worker goes
  on every 750 ms for as long as auto-connect is on, and `LinkComesBack` relies
  on that.
* *A preset that is not told.*  The handshake asks for the preset (`usb.rs:262-300`) and
  nothing asks again: a link that missed it in both windows stays `syncing` until the
  device happens to send one.
* *A link that is lost* clears neither the preset library nor the latest messages
  (`worker.rs:1052-1063`).  The messages are cleared when the next link is installed;
  the library is served on, and listings smaller than the kept ones are not taken in.
* *Replies without an identifier* answer any waiting request of their type, tagged ones
  too (`worker.rs:1093`): `RightReply` only excludes replies that carry another's.
* *Snapshots past the coordinator.*  A manual refresh (`App.tsx:802-803`) and a move
  by banks (`use-performance-workflow.ts:178-180`) show the snapshot they read without
  asking the coordinator, whose intents stay: the effect of a pending command then
  disappears from the screen until the device tells it.  `PendingIsShown` is about
  what passes through the coordinator.
* *Backups.*  What is handed out may be the document of the request before, when
  that one timed out: `WholeBackup` says *a* document of the device.  With a
  dropped report and an abandoned attempt, chunks of two transfers can be spliced
  (the comment at `usb.rs:416-423` says they never are); the property therefore
  exempts a transfer with a dropped report.  A chunk left over from an earlier transfer
  that happens to begin with a brace is taken for the start of the new document, which
  is then refused as invalid (`responses.rs:170`).  Live messages that a *failed* backup
  had set aside are not told (`past.lost` of `FreshWhenQuiet`).
* *Preset slots.*  `wait_for_preset_list` looks, then checks its deadline
  (`worker.rs:415-421`): when the listing is taken in between the two, or was announced
  before it was taken in, the slots are reported as not loaded although they are.
* *A late echo.*  A stage or an edit is confirmed by any newer frame that shows what it
  waits for.  A frame of an *earlier* call that timed out, still on its way, confirms a
  later call whose command was lost; `VerifiedIsOnTheDevice` exempts a call that began
  with something under way.
* *Library.*  A listing that is smaller than the kept one is not taken in, so presets
  deleted at the device stay listed until the session is reset; `savePresetAs` then
  finds a slot free, or occupied, by an outdated listing, although
  `contracts/qc-actions.v1.json:73` promises "explicit overwrite protection".
* *Writes that land and are not confirmed* (`Unshown` of WritePath): metronome pan
  and fewer than 13 beats; the scene mode and expression assignment of a parameter
  (`rpc.rs:657-697`, `755-825`), which are checked in details that nobody
  refreshed; a parameter with a text value, whose verification is 0.0; a hidden
  parameter; a stomp label on a switch that drives several blocks; a scene label of
  spaces; any settings write whose readback is crossed by a push of the same type.
* *Writes that are confirmed whatever happened* (`Indistinct`): a block moved onto one
  of the same model, and a scene copied between two of equal label and colour.  A
  settings write the device ignored may be confirmed by a late answer to an earlier
  call, as its readback has no identifier: `WriteLands` exempts a readback that was
  crossed, and the run, of two calls, meets one such answer.
* *Reads without an identifier* (all but recents, favorites, IRs and preset pictures):
  any message of their type that decodes is the answer, a late reply to an earlier
  read or the echo of a change among them; `ReadsAreTrue` exempts those that were
  crossed.  One library entry without a name spoils the whole listing, which is
  then reported as not returned.
* *Snapshot.*  Parameter values pushed in one scene survive a change of scene; the
  bypass of blocks is not computed anew when a scene is pushed; a reply with the
  global tempo overwrites the preset's.  `setRoutingParameter` accepts odd rows by
  way of `device.command.operation`; `device.command.*`, `loadCapture` and `loadIr` are
  answered without any verification.  `gateway_write_retryable` is consulted by the
  Android host only.
* *Recall.*  A reload's recovery may be told done because the snapshot of the new
  handshake looks clean; when no newer revision than the recall's is matched the
  session is reset at once, without a read (`rpc.rs:1013-1020`).

## 8. What is abstracted

* **Data.** Messages are told apart by kind; presets, listings and live
  state are numbers that say which link and which message told them, but for
  the chain from DeviceOperations to WritePath, where a message is a map from paths
  to values.  Nothing is encoded: frames, protobuf and JSON are left out.
* **Time** is a number of ticks, or a step that may happen at any time: a poll
  time-out, a sleep or a short deadline inside a blocking call.  The 250 ms hold of
  commands after a link is installed (`command_not_before`) only delays them and
  is covered by the callers posting late.
* **HidLane.** A report has no bytes but its frame, its part and its flags.  A torn
  frame may decode or not.  The handshake is one step that succeeds and one that
  gives up; a reader starts with the report
  the device sends next.
* **BrokerWorker.** The callers are one RPC thread, so one call waits at a time;
  commands of callers that gave up stay.  Links are numbered so that a new one
  differs from every one that is still remembered.  The device counts as absent
  until the handle to an unplugged one is closed.  A write reports no error, as
  in the code; reads do.  `expired \in SUBSET pending` lets any request expire,
  as their time-outs are the callers' own.
* **Transfers.** The deadlines of a backup are one (`Stall`).  Pending requests,
  the naming of a preset that is being saved, the guard for factory slots and the
  library's search are left out.  `GiveUp` stands for every time-out of a caller.
  The volume is the number of its change, so it only rises.  A dropped report and its
  flag are one step (HidLane has the window between them, in which reports of an
  incomplete document can still be read): `OnlyBracesSpoil` says nothing of that
  window.  Where a document is cut is the same whenever it is sent.
* **StateLane.** Live state is the tempo and the scene's label and colour, which
  `apply` takes without a preset.  How the link lives is reduced to what the
  lane sees of it.  Left out: the synchronous decoding of catalogs when the
  metadata thread could not be started, and the stop command at shutdown.
  A reset and the messages behind it go through one channel in order, so an
  outdated *message* is never met; an outdated *catalog*, from the metadata
  thread, is.
* **Gateway.** A preset is the slot it was first stored at, and edited or not.  A
  reset of the session loses what is on the way and brings a new snapshot; how it
  comes about is BrokerWorker's.  The tempo clock of the device
  makes a state frame available at any time, so a wait for a frame never blocks.
* **WritePath.** The preset stays the loaded one and the mode label constant; how a
  save is verified is Gateway's.  `recallPreset` and `reloadPreset` are in the list of
  retryable methods and plan no write of this path: their repetition is Gateway's
  `Replay`.  Undo, redo and screen taps are left out.  Scenes
  are copied in one step.  Time-outs of writes are longer than the device
  and the decoder take: a write is given up when nothing is on the way, a read at any
  time.  What the device
  does with a frame is external: it sets the fields, and reports them.  The details
  an assignment is checked in are read when the decoder has nothing left to do.
* **CommandCoordinator.** The gateway executes one request at a time; a recall's
  recovery is folded into its answer.  The preset position is a scalar whose moves are
  by one.  A preset brings any values of tempo and blocks, and lights that show its
  blocks.  Frames are applied by the gateway before they go to the user interface, in
  order; they tell it nothing of the lights, which come with snapshots.  A footswitch
  changes a scene, a preset or blocks and their light, never a mode.  The slots of a
  mode and the LED of the tempo, which a failed command puts back with its value
  (`command-coordinator.ts:291-300`), are taken as part of the value: that they undo
  slots of a newer snapshot is not seen.  Left out: the filter of frames by sequence,
  the coalescing of tempo turns (it is in the user interface), that polls pause while a
  command is pending (the model polls more, which allows more), and the two places where
  the user interface shows a snapshot without the coordinator (section 7).
* **Relay.** Finding the device of a principal and authorizing it are one step.  Left
  out: rate limits, the expiry of credentials, the list of offers already used, the
  capacity of the channel to the socket (32), the access mode of the Windows bridge
  and unpairing.  The client's replay cache is left out because the hub gives every
  request an id of its own, so it is never met.

## 9. What is not modelled

* byte layouts: protobuf, gzip, JSON, headers and trailers of frames;
* the model repository's parsing and the block details the planner only passes on;
* reads of the gateway that only format what was decoded, and the search in the preset library;
* the Android plugin (Java): a second host of the same session policy, with
  threads of its own;
* MCP services and the Python gateway: they translate calls one to one;
* Windows application (process supervision, assistant chat over HTTP), user
  interface, flight recorder, generated bindings: no protocol state.

## 10. The plan

Done: the session policy, the HID lane, the broker worker with its callers and
device, transfers, the state lane, the gateway's calls and writes, the command
coordinator, the relay; refinements of FrameDelivery and RemoteCall;
proofs of both, and of the safety properties of the session policy, the broker, the
transfers, the gateway's calls, the lane, the coordinator and the relay; and, of the
single writes and reads, that frames land in order, that repeatable writes may be
repeated and that reads are true.

Left, in this order:

1. A proof that a setting is told verified only when the fields it names are what the
   device holds: `ReadsAreTrue`, carried over to the readback of a write.
2. An abstract specification of the lane (a reader sees a prefix of what one link
   told, then of the next) and the refinement.
3. The Android plugin as a second implementation of what BrokerWorker promises.
4. Snapshots shown without the coordinator (section 7), once the code decides
   what should happen to pending intents there.
