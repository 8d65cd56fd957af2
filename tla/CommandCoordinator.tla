------------------------- MODULE CommandCoordinator -------------------------
(***************************************************************************)
(* Optimistic commands of the user interface                               *)
(* (packages/typescript/qc-core/src/command-coordinator.ts and state.ts,   *)
(* driven by packages/typescript/qc-ui/src/use-qc-controller.ts).          *)
(*                                                                         *)
(* A command shows its effect at once and becomes the intent of its field; *)
(* it is then sent to the gateway, which executes one request at a time    *)
(* and refuses one whose expected value is not what the gateway knows.     *)
(* State comes back three ways, all through the gateway: frames of what    *)
(* the device tells, the snapshot in the result of a preset recall and, on *)
(* Windows, a polled snapshot; polling ends for good once a frame has been *)
(* shown, but for a lost link.  None may undo a younger intent, unless     *)
(* that is older than the grace period.  A command that fails is rolled    *)
(* back if its intent is still the field's.                                *)
(*                                                                         *)
(* A field is a scalar (scene, mode, tempo; the preset position, whose     *)
(* moves wait in a queue of their own), the bypass of a grid block or the  *)
(* light of a footswitch.  A footswitch selects a scene or a preset or     *)
(* toggles the blocks it drives and its light, all by one command.  Lights *)
(* are never intended: the screen learns them from snapshots only, and a   *)
(* press whose blocks are rolled back puts all of them back.  Without a    *)
(* connection commands are shown and sent nowhere.                         *)
(***************************************************************************)
EXTENDS Integers, Sequences, FiniteSets

CONSTANTS
    Scalars,        \* scalar fields
    Blocks,         \* grid blocks
    Lights,         \* lights of footswitches
    Switches,       \* what a footswitch acts on: a scalar, or blocks and lights
    MaxValue,       \* values are 0..MaxValue, bypasses and lights 0..1
    GraceMs,        \* graceMs, in ticks
    Polling,        \* whether the application polls snapshots
    MaxEvents,      \* commands, changes at the device, changes of the link
    MaxTouches,     \* changes at the device
    MaxBreaks,      \* changes of the link
    MaxTime         \* ticks

Settings == Scalars \cup Blocks
Fields == Settings \cup Lights
Values(f) == IF f \in Scalars THEN 0..MaxValue ELSE 0..1
State == {s \in [Fields -> 0..MaxValue] : \A f \in Fields : s[f] \in Values(f)}

ASSUME CoordinatorAssumption ==
    /\ Scalars \cap Blocks = {} /\ Settings \cap Lights = {}
    /\ Switches \subseteq (SUBSET (Blocks \cup Lights))
                       \cup {{f} : f \in Scalars \cap {"scene", "position"}}
    /\ MaxValue \in Nat \ {0}
    /\ GraceMs \in Nat \ {0}
    /\ Polling \in BOOLEAN
    /\ {MaxEvents, MaxTouches, MaxBreaks, MaxTime} \subseteq Nat

VARIABLES
    clock,
    shown,      \* snapshotRef: what the user sees
    intents,    \* scalarIntents and bypassIntents
    nextId,
    moves,      \* presetMoveQueueRef
    requests,   \* sent to the gateway
    recalling,  \* the gateway waits to see the recall it has written
    results,    \* answers on their way
    frames,     \* what the device has told, on its way to the user
    learned,    \* how many of these frames the gateway has applied
    known,      \* the gateway's snapshot
    poll,       \* the snapshot being polled
    native,     \* nativeStateAvailable: a frame has been shown
    actual,     \* what the device is set to
    touches,    \* changes made at the device so far
    link,       \* connection: live, lost (polled for), being made, or off
    breaks,     \* changes of the link so far
    writer      \* which command a shown value is the preview of; 0: none

deskVars == <<shown, intents, nextId, moves, writer>>
toldVars == <<frames, learned, known>>
wireVars == <<requests, recalling, results, toldVars>>
linkVars == <<link, breaks>>
vars == <<clock, deskVars, wireVars, poll, native, actual, touches, linkVars>>

-----------------------------------------------------------------------------
(* Values of some of the fields.                                           *)
Told == UNION {[F -> 0..MaxValue] : F \in SUBSET Fields}
With(values, told) == [f \in Fields |-> IF f \in DOMAIN told THEN told[f] ELSE values[f]]

(* A command: its token (id, the previous values of what it changed) and   *)
(* its request: set a field, move to the next preset, press a footswitch.  *)
Command ==
    [id : Nat, kind : {"set", "move", "press"}, target : Told, previous : Told]

(* An intent; grid, the preset position shown when it was issued, is kept  *)
(* for the properties.                                                     *)
Intent == [id : Nat, target : Nat, issued : Nat, grid : Nat]
NoIntent == [id |-> 0, target |-> 0, issued |-> 0, grid |-> 0]
Pending(f) == intents[f] # NoIntent

Grid == IF "position" \in Scalars THEN shown["position"] ELSE 0

(* A frame tells a field, the bypasses a footswitch has toggled, or a      *)
(* whole preset: the tempo, the blocks and the lights.                     *)
Frame == [kind : {"field", "preset"}, told : Told, at : Nat]

(* A result: the snapshot read at "at", a bare acceptance, or an error.    *)
Result ==
    [command : Command, answer : {"read", "accepted", "error"}, snapshot : State, at : Nat]

Poll == [doing : {"idle", "asked", "answered", "stopped"}, started : Nat, snapshot : State]
Start == [f \in Fields |-> 0]
Rest(doing) == [doing |-> doing, started |-> 0, snapshot |-> Start]
Idle == Rest("idle")

TypeOK ==
    /\ {clock, nextId, touches, breaks} \subseteq Nat
    /\ link \in {"live", "lost", "connecting", "off"}
    /\ {shown, known, actual} \subseteq State
    /\ intents \in [Fields -> Intent]
    /\ \A i \in DOMAIN moves : moves[i] \in Command
    /\ \A i \in DOMAIN requests : requests[i] \in Command
    /\ \A i \in DOMAIN results : results[i] \in Result
    /\ recalling \in BOOLEAN /\ (recalling => requests # <<>>)
    /\ \A i \in DOMAIN frames : frames[i] \in Frame
    /\ learned \in 0..Len(frames)
    /\ poll \in Poll /\ native \in BOOLEAN
    /\ \A f \in Fields : writer[f] < nextId

Init ==
    /\ clock = 0
    /\ shown = Start /\ known = Start /\ actual = Start
    /\ intents = [f \in Fields |-> NoIntent]
    /\ nextId = 1
    /\ moves = <<>> /\ requests = <<>> /\ results = <<>> /\ frames = <<>>
    /\ recalling = FALSE
    /\ learned = 0
    /\ poll = Idle /\ native = FALSE
    /\ touches = 0
    /\ link = "live" /\ breaks = 0
    /\ writer = [f \in Fields |-> 0]

-----------------------------------------------------------------------------
(***************************************************************************)
(* The user                                                                *)
(***************************************************************************)
Changed(target) == {f \in DOMAIN target : target[f] # shown[f]}

NewCommand(kind, target, fields) ==
    [id |-> nextId, kind |-> kind, target |-> target, previous |-> [f \in fields |-> shown[f]]]

(* There is time and room for one more event.                              *)
Eventful == nextId + touches + breaks <= MaxEvents /\ clock + GraceMs <= MaxTime

(* beginScalar, beginSnapshotMutation: the target is shown and becomes the *)
(* intent of the fields in place of older ones.  Lights are shown only.    *)
Preview(target, fields) ==
    /\ Eventful
    /\ nextId' = nextId + 1
    /\ shown' = With(shown, target)
    /\ intents' = [f \in Fields |->
                      IF f \in fields
                      THEN [id |-> nextId, target |-> target[f], issued |-> clock, grid |-> Grid]
                      ELSE intents[f]]
    /\ writer' = [f \in Fields |->
                     IF f \in fields \cup Changed(target) THEN nextId ELSE writer[f]]

(* runCommand: the preview, and the request.                               *)
Run(kind, target, fields) ==
    /\ link = "live"
    /\ Preview(target, fields \ Lights)
    /\ requests' = Append(requests, NewCommand(kind, target, fields))
    /\ UNCHANGED <<clock, moves, recalling, results, toldVars, poll, native, actual, touches, linkVars>>

(* A scalar is set whatever it was, a bypass where it differs.             *)
Set(f, value) ==
    /\ f # "position"
    /\ f \in Blocks => value # shown[f]
    /\ Run("set", [g \in {f} |-> value], {f})

(* What pressing a footswitch shows (applyFootswitchPreview): the scene or *)
(* the preset it selects, or all the blocks it drives toggled.             *)
Stomps == {switch \in Switches : switch \cap Scalars = {}}
PressTargets ==
    {[f \in switch |-> 1 - shown[f]] : switch \in Stomps}
        \cup UNION {[switch -> 0..MaxValue] : switch \in Switches \ Stomps}

(* The token keeps all the lights as they were.                            *)
Press(target) == Run("press", target, Changed(target) \cup Lights)

QueueAndSend(move) ==
    /\ moves' = Append(moves, move)
    /\ requests' = Append(requests, move)

QueueMove(move) ==
    /\ moves' = Append(moves, move)
    /\ requests' = IF moves = <<>> THEN Append(requests, move) ELSE requests

(* There is no preset before the first, nor after the last.                *)
MoveTarget(delta) == {shown["position"] + delta} \cap Values("position")

(* runPresetMove: the preview, and a place in the queue of moves, whose    *)
(* first is with the gateway.                                              *)
Moved(target) == [f \in {"position"} |-> target]
Move(delta) ==
    /\ link = "live"
    /\ "position" \in Scalars
    /\ \E target \in MoveTarget(delta) :
          /\ Preview(Moved(target), {"position"})
          /\ QueueMove(NewCommand("move", Moved(target), {"position"}))
    /\ UNCHANGED <<clock, recalling, results, toldVars, poll, native, actual, touches, linkVars>>

(* Without a connection a command is shown and settled at once: it leaves  *)
(* no intent, not even the older one whose place it has taken.             *)
Demonstrate(target, fields) ==
    /\ link # "live"
    /\ Eventful
    /\ nextId' = nextId + 1
    /\ shown' = With(shown, target)
    /\ intents' = [f \in Fields |-> IF f \in fields THEN NoIntent ELSE intents[f]]
    /\ writer' = [f \in Fields |-> IF f \in fields THEN nextId ELSE writer[f]]
    /\ UNCHANGED <<clock, moves, wireVars, poll, native, actual, touches, linkVars>>

-----------------------------------------------------------------------------
(***************************************************************************)
(* The gateway and the device                                              *)
(***************************************************************************)
Tells(kind, told) == [kind |-> kind, told |-> told, at |-> clock]

(* The device changes a field and tells so.  Another position is another   *)
(* preset, which it tells as well, with lights that show its blocks.       *)
LightsShow(preset) ==
    \A switch \in Stomps : switch \cap Lights # {} =>
        \E b \in switch \cap Blocks : \A l \in switch \cap Lights : preset[l] = preset[b]

DeviceSets(f, value) ==
    \/ /\ f # "position"
       /\ actual' = [actual EXCEPT ![f] = value]
       /\ frames' = Append(frames, Tells("field", [g \in {f} |-> value]))
    \/ /\ f = "position"
       /\ \E preset \in State :
             /\ preset["position"] = value /\ LightsShow(preset)
             /\ \A g \in Scalars \ {"position", "tempo"} : preset[g] = actual[g]
             /\ actual' = preset
             /\ frames' = frames \o
                    << Tells("field", [g \in {f} |-> value]),
                       Tells("preset", [g \in Blocks \cup Lights \cup (Scalars \cap {"tempo"}) |-> preset[g]]) >>

(* A footswitch toggles what it drives in the preset the device is on.     *)
DeviceToggles(blocks) ==
    LET toggled == [b \in blocks |-> 1 - actual[b]]
    IN  /\ actual' = With(actual, toggled)
        /\ frames' = Append(frames, Tells("field", toggled))

PressesStomp(command) == command.kind = "press" /\ DOMAIN command.target \cap Scalars = {}

DeviceObeys(command) ==
    \/ /\ PressesStomp(command)
       /\ \E switch \in Stomps : DeviceToggles(switch \cap Blocks)
    \/ /\ ~PressesStomp(command)
       /\ \E f \in DOMAIN command.target : DeviceSets(f, command.target[f])

(* The gateway applies what the device tells before it passes it on.       *)
Learn ==
    /\ learned < Len(frames)
    /\ learned' = learned + 1
    /\ known' = With(known, frames[learned'].told)
    /\ UNCHANGED <<clock, deskVars, requests, recalling, results, frames, poll, native, actual, touches, linkVars>>

Answer(answer, snapshot) ==
    /\ requests' = Tail(requests)
    /\ results' = Append(results, [command |-> Head(requests), answer |-> answer, snapshot |-> snapshot,
                                  at |-> IF answer = "read" THEN clock ELSE 0])

(* The expected values of a request; a scene, a mode and a press have none.*)
AsExpected(command) ==
    command.kind # "press" =>
        \A f \in DOMAIN command.previous \ {"scene", "mode"} : known[f] = command.previous[f]

(* The gateway plans the first request and refuses it, or writes it to the *)
(* device, which may not get it.  All writes but a recall are realtime:    *)
(* they are answered once written, or not written in time.                 *)
Execute ==
    /\ requests # <<>> /\ ~recalling
    /\ \/ /\ ~AsExpected(Head(requests))
          /\ Answer("error", Start)
          /\ UNCHANGED <<recalling, actual, frames>>
       \/ /\ AsExpected(Head(requests))
          /\ \/ DeviceObeys(Head(requests))
             \/ UNCHANGED <<actual, frames>>
          /\ \/ /\ Head(requests).kind = "move"
                /\ recalling' = TRUE
                /\ UNCHANGED <<requests, results>>
             \/ /\ Head(requests).kind # "move"
                /\ \E answer \in {"accepted", "error"} : Answer(answer, Start)
                /\ UNCHANGED recalling
    /\ UNCHANGED <<clock, deskVars, learned, known, poll, native, touches, linkVars>>

(* The recall is seen in the snapshot, which is the result, or is not seen *)
(* in time.                                                                *)
FinishRecall ==
    /\ recalling
    /\ recalling' = FALSE
    /\ \/ /\ known["position"] = Head(requests).target["position"]
          /\ Answer("read", known)
       \/ Answer("error", Start)
    /\ UNCHANGED <<clock, deskVars, toldVars, poll, native, actual, touches, linkVars>>

Touch(f, value) ==
    /\ touches < MaxTouches /\ nextId + touches + breaks <= MaxEvents
    /\ touches' = touches + 1
    /\ actual[f] # value
    /\ DeviceSets(f, value)
    /\ UNCHANGED <<clock, deskVars, requests, recalling, results, learned, known, poll, native, linkVars>>

-----------------------------------------------------------------------------
(***************************************************************************)
(* The coordinator                                                         *)
(***************************************************************************)

(* acceptScalar, and accept in reconcilePendingBypass: an observation made *)
(* at "at" and applied at "now" acknowledges the intent, or is due because *)
(* the grace period is over.                                               *)
Acknowledges(f, value, at) == value = intents[f].target /\ at >= intents[f].issued
NeverExpired(f, now) == FALSE
Expired(f, now) == now - intents[f].issued >= GraceMs
Accepts(f, value, at, now) ==
    ~Pending(f) \/ Expired(f, now) \/ Acknowledges(f, value, at)

Accepted(told, at, now) ==
    {f \in DOMAIN told : Accepts(f, told[f], at, now)}

ReconciledToTold(told, at, now, overlaid) ==
    [f \in Fields |-> IF f \in DOMAIN told THEN told[f] ELSE shown[f]]

(* Where a snapshot or the grid of a preset is not accepted, the intent is *)
(* written over it; where a field on its own is not, nothing is shown.     *)
Reconciled(told, at, now, overlaid) ==
    [f \in Fields |->
        IF f \in Accepted(told, at, now) THEN told[f]
        ELSE IF f \in overlaid THEN intents[f].target
        ELSE shown[f]]

Forget(fields) ==
    intents' = [f \in Fields |-> IF f \in fields THEN NoIntent ELSE intents[f]]

(* The preset position changes: bypass intents belong to the old grid.     *)
LeftGrid(told) ==
    IF "position" \in DOMAIN told /\ told["position"] # shown["position"] THEN Blocks ELSE {}

(* What is observed is shown as reconciled, and what it acknowledges is no *)
(* longer pending.                                                         *)
Observe(told, at, now, overlaid, forgotten) ==
    /\ shown' = Reconciled(told, at, now, overlaid)
    /\ Forget(Accepted(told, at, now) \cup forgotten)
    /\ writer' = [f \in Fields |->
                     IF f \in Accepted(told, at, now) THEN 0 ELSE writer[f]]

(* reconcileFrame, at the time of the frame; of the lights it shows        *)
(* nothing.  Without a link nobody listens to the frames.                  *)
ReconcileFrame(frame) ==
    LET told == [f \in DOMAIN frame.told \ Lights |-> frame.told[f]]
        grid == IF frame.kind = "preset" THEN Blocks ELSE {}
        left == IF Accepted(told, frame.at, frame.at) = {} THEN {} ELSE LeftGrid(told)
    IN  Observe(told, frame.at, frame.at, grid, left)

ReceiveFrame ==
    /\ learned > 0
    /\ learned' = learned - 1
    /\ frames' = Tail(frames)
    /\ \/ /\ link = "live"
          /\ native' = TRUE
          /\ ReconcileFrame(Head(frames))
       \/ /\ link # "live"
          /\ UNCHANGED <<native, shown, intents, writer>>
    /\ UNCHANGED <<clock, nextId, moves, requests, recalling, results, known, poll, actual, touches, linkVars>>

(* The next move is sent when the one before it has been answered.         *)
NextMove(command) ==
    IF command.kind = "move"
    THEN /\ moves' = Tail(moves)
         /\ requests' = IF Len(moves) > 1 THEN Append(requests, moves[2]) ELSE requests
    ELSE UNCHANGED <<moves, requests>>

(* A command succeeded: its snapshot, if it has one, is reconciled.        *)
Succeed ==
    /\ results # <<>> /\ Head(results).answer # "error"
    /\ results' = Tail(results)
    /\ \/ /\ Head(results).answer = "read"
          /\ Observe(Head(results).snapshot, clock, clock, Fields, {})
       \/ /\ Head(results).answer = "accepted"
          /\ UNCHANGED <<shown, intents, writer>>
    /\ NextMove(Head(results).command)
    /\ UNCHANGED <<clock, nextId, recalling, toldVars, poll, native, actual, touches, linkVars>>

OwnsWhilePending(command, f) == f \in DOMAIN command.previous /\ Pending(f)

(* fail: what is rolled back are the fields whose intent is the command's  *)
(* and, with any of its blocks, the lights its token has kept: all of      *)
(* them, whoever has changed them since.                                   *)
Owns(command, f) == f \in DOMAIN command.previous /\ intents[f].id = command.id

Restores(command, f) ==
    \/ Owns(command, f)
    \/ f \in Lights \cap DOMAIN command.previous /\ \E b \in Blocks : Owns(command, b)

RollBack(commands) ==
    LET restored == {f \in Fields : \E c \in commands : Restores(c, f)}
    IN  /\ shown' = With(shown, [f \in restored |->
                                    (CHOOSE c \in commands : Restores(c, f)).previous[f]])
        /\ Forget(restored)
        /\ writer' = [f \in Fields |-> IF f \in restored THEN 0 ELSE writer[f]]

(* A command failed; with a move, so did all the moves that wait.          *)
Fail ==
    /\ results # <<>> /\ Head(results).answer = "error"
    /\ results' = Tail(results)
    /\ LET command == Head(results).command
       IN  \/ /\ command.kind = "move"
              /\ RollBack({moves[i] : i \in DOMAIN moves})
              /\ moves' = <<>>
           \/ /\ command.kind # "move"
              /\ RollBack({command})
              /\ UNCHANGED moves
    /\ UNCHANGED <<clock, nextId, requests, recalling, toldVars, poll, native, actual, touches, linkVars>>

-----------------------------------------------------------------------------
(* A snapshot is read by polling, or to complete a connection.  After one  *)
(* the next is scheduled, unless the link is there and a frame was shown.  *)
AskSnapshot ==
    /\ poll.doing = "idle"
    /\ \/ Polling /\ link \in {"live", "lost"}
       \/ link = "connecting"
    /\ poll' = [poll EXCEPT !.doing = "asked", !.started = clock]
    /\ UNCHANGED <<clock, deskVars, wireVars, native, actual, touches, linkVars>>

ReadSnapshot ==
    /\ poll.doing = "asked"
    /\ poll' = [poll EXCEPT !.doing = "answered", !.snapshot = known]
    /\ UNCHANGED <<clock, deskVars, wireVars, native, actual, touches, linkVars>>

(* A polled snapshot is reconciled as observed when it was asked for; the  *)
(* one of a new connection is shown as it is.                              *)
ShowSnapshot ==
    /\ poll.doing = "answered"
    /\ \/ /\ link \in {"live", "lost"}
          /\ Observe(poll.snapshot, poll.started, clock, Fields, {})
       \/ /\ link = "connecting"
          /\ shown' = poll.snapshot
          /\ writer' = [f \in Fields |-> 0]
          /\ UNCHANGED intents
    /\ poll' = Rest(IF native THEN "stopped" ELSE "idle")
    /\ link' = "live"
    /\ UNCHANGED <<clock, nextId, moves, wireVars, native, actual, touches, breaks>>

(* The schedule is made anew whenever an action of the user begins or      *)
(* ends.                                                                   *)
StopPolling ==
    /\ link = "live" /\ native
    /\ poll.doing # "stopped"
    /\ poll' = Rest("stopped")
    /\ UNCHANGED <<clock, deskVars, wireVars, native, actual, touches, linkVars>>

-----------------------------------------------------------------------------
(***************************************************************************)
(* The connection                                                          *)
(***************************************************************************)
Break(next) ==
    /\ breaks < MaxBreaks /\ Eventful
    /\ breaks' = breaks + 1
    /\ link' = next
    /\ poll' = Idle
    /\ UNCHANGED <<clock, shown, nextId, moves, writer, wireVars, native, actual, touches>>

(* connect: all intents are dropped, and nothing is asked any more of the  *)
(* commands that are under way.                                            *)
Connect == Break("connecting") /\ Forget(Fields)

Disconnect == link = "live" /\ Break("off") /\ Forget(Fields)

(* The second poll in a row that fails: polling goes on.                   *)
Lose == link = "live" /\ poll.doing = "asked" /\ Break("lost") /\ UNCHANGED intents

(* The connection is not made; the intents are gone all the same.          *)
ConnectFails ==
    /\ link = "connecting"
    /\ link' = "off"
    /\ poll' = Idle
    /\ UNCHANGED <<clock, deskVars, wireVars, native, actual, touches, breaks>>

Tick ==
    /\ clock < MaxTime
    /\ clock' = clock + 1
    /\ UNCHANGED <<deskVars, wireVars, poll, native, actual, touches, linkVars>>

-----------------------------------------------------------------------------
User ==
    \/ \E f \in Settings : \E value \in Values(f) : Set(f, value)
    \/ \E target \in PressTargets : Press(target)
    \/ \E delta \in {-1, 1} : Move(delta)
    \/ \E f \in Settings : \E value \in Values(f) : Demonstrate([g \in {f} |-> value], {f})
    \/ \E target \in PressTargets : Demonstrate(target, Changed(target))

Gateway == Execute \/ FinishRecall

Receive == ReceiveFrame \/ Succeed \/ Fail

Snapshots == AskSnapshot \/ ReadSnapshot \/ ShowSnapshot

Connection == Connect \/ Disconnect \/ Lose \/ ConnectFails

Next ==
    \/ User
    \/ Gateway
    \/ Learn
    \/ \E f \in Settings : \E value \in Values(f) : Touch(f, value)
    \/ Receive
    \/ Snapshots \/ StopPolling
    \/ Connection
    \/ Tick

Spec == Init /\ [][Next]_vars

(* The gateway takes in what the device tells, time passes, and a poll     *)
(* that is scheduled is made.  Answers and frames may come as late as they *)
(* like, or never.                                                         *)
FairSpec ==
    /\ Spec
    /\ WF_vars(Learn)
    /\ WF_vars(Snapshots)
    /\ WF_vars(Tick)

-----------------------------------------------------------------------------
(***************************************************************************)
(* Properties                                                              *)
(***************************************************************************)

(* While a command is neither acknowledged nor failed nor overdue, the     *)
(* user sees its effect, whatever frames, results and snapshots arrive and *)
(* whichever other commands fail.                                          *)
PendingIsShown == \A f \in Fields : Pending(f) => shown[f] = intents[f].target

(* A failure undoes of the scalars and the bypasses only what a failing    *)
(* command itself had shown: neither a newer command nor what the device   *)
(* has told since (command-coordinator.ts: "an older failure" cannot "undo *)
(* a newer command").  Of the lights this is not so: see LightsKeepNewer.  *)
OwnPreview(f) ==
    \/ writer[f] = Head(results).command.id
    \/ f = "position" /\ \E i \in DOMAIN moves : moves[i].id = writer[f]
RollbackUndoesOwnPreview ==
    [][Fail => \A f \in Settings : shown'[f] # shown[f] => OwnPreview(f)]_vars

(* Of the moves that wait exactly the first is under way: its request is   *)
(* with the gateway or its answer is on the way, never both, and no other  *)
(* move is.                                                                *)
MovesAtGateway == {i \in DOMAIN requests : requests[i].kind = "move"}
MovesAnswered  == {i \in DOMAIN results : results[i].command.kind = "move"}
MovesAreSerial ==
    \/ moves = <<>> /\ MovesAtGateway = {} /\ MovesAnswered = {}
    \/ /\ moves # <<>> /\ MovesAnswered = {}
       /\ \E i \in DOMAIN requests : MovesAtGateway = {i} /\ requests[i] = moves[1]
    \/ /\ moves # <<>> /\ MovesAtGateway = {}
       /\ \E i \in DOMAIN results : MovesAnswered = {i} /\ results[i].command = moves[1]

(* As long as no frame has been shown, polling brings the user to see the  *)
(* device as it is, however commands failed and whatever happened at the   *)
(* device: no intent a command has left, answered or lost, stands for ever *)
(* against what is polled.  After the first frame nothing is polled.       *)
Converges == <>[](link = "off" \/ native \/ shown = actual)

(* "The screen represents state read from the QC, not an optimistic local  *)
(* shadow." (docs/WINDOWS_IMPLEMENTATION_PLAN.md:16): once every command   *)
(* is answered and every frame applied, the user sees the device.          *)
StateTruthful ==
    moves = <<>> /\ requests = <<>> /\ results = <<>> /\ frames = <<>> => shown = actual

(* "Roll back only fields still owned by this command; newer user input    *)
(* wins." (command-coordinator.ts:117): the lights of the footswitches as  *)
(* well.                                                                   *)
LightsKeepNewer ==
    [][Fail => \A l \in Lights : shown'[l] # shown[l] => OwnPreview(l)]_vars

(* "Once a preset transition is accepted, intents from the previous grid   *)
(* must never leak into it." (command-coordinator.ts:156-157)              *)
GridsDoNotLeak ==
    [][ReceiveFrame /\ "position" \in DOMAIN Head(frames).told /\ ~Pending("position")'
          => \A b \in Blocks : intents'[b] # NoIntent => intents'[b].grid = shown'["position"]]_vars

(* "A slow full snapshot may have started before a newer local tap. ...    *)
(* it cannot acknowledge an intent that did not yet exist."                *)
(* (state.ts:59-61)                                                        *)
NoAcknowledgementFromBefore ==
    [][Succeed => \A f \in Fields :
          Pending(f) /\ intents'[f] = NoIntent =>
              Expired(f, clock) \/ Head(results).at >= intents[f].issued]_vars

=============================================================================
