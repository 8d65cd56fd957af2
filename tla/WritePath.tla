------------------------------ MODULE WritePath ------------------------------
(***************************************************************************)
(* A gateway write or read from its call to its answer: the broker's RPC   *)
(* thread plans it, sends its frames and asks to have a write read back,   *)
(* the device executes the frames one by one, answers reads and reports    *)
(* changes, the worker hands the device's messages to the waiting call and *)
(* to the state decoder, and the call is answered from what they have made *)
(* of them (services/device-broker/src/rpc.rs over the operators of        *)
(* GatewayWrites and GatewayReads).                                        *)
(*                                                                         *)
(* The device is external: a map from paths to values, which a frame       *)
(* updates.  It may ignore a frame, and somebody may touch it.             *)
(***************************************************************************)
EXTENDS GatewayWrites, FiniteSetsExt

CONSTANTS
    Calls,       \* a sequence of calls, each [method, p, wanted, refused]
    Followers,   \* those of them that may follow another
    Factory,     \* the device at first
    MaxCalls,    \* calls in a behaviour
    MaxDisturbed \* frames the device ignores and touches, together

ASSUME PathAssumption ==
    /\ MaxCalls \in Nat /\ MaxDisturbed \in Nat
    /\ Followers \subseteq DOMAIN Calls
    /\ 0 \in Scenes /\ IsFiniteSet(Scenes)

(* A device has a scene that is active, and for every parameter whether it *)
(* has a value for each scene.                                             *)
ASSUME DeviceAssumption ==
    /\ IsFiniteSet(DOMAIN Factory) /\ <<"scene">> \in DOMAIN Factory
    /\ \A path \in DOMAIN Factory :
          path[1] = "param" => <<"sceneMode", path[2], path[3], path[4]>> \in DOMAIN Factory

(* Methods that look at a parameter's details before they plan.            *)
Inspects == {"setParameter", "previewParameter", "setLaneControlParameter",
             "previewLaneControlParameter"}

(* The command methods have no answer but that they were accepted.         *)
CommandMethods == {"command.scene", "command.bypass", "command.parameter", "command.tempo",
                   "command.operation"}

WriteMethods ==
    Settings \cup Library \cup Assignments \cup Verified \cup Realtime \cup CommandMethods
      \cup Inspects \cup {"setStompMomentary", "setStompLabel", "setDeviceName"}

(* The optional fields that frames are made of, one for each that is given,*)
(* hold one value at most, and a bar's beats are a sequence of accents.    *)
OptionalFields(name) ==
    CASE name = "setInputPort" -> InputFields
      [] name = "setOutputPort" -> OutputFields
      [] name = "setUsbPort" -> UsbFields
      [] name = "setGlobalEqBand" -> {"gain", "frequency", "q", "filterType", "enabled"}
      [] name = "setGlobalEqOutput" -> DOMAIN EqOutput
      [] name = "setTempoMetronome" -> DOMAIN TempoIndex
      [] name \in FileBlockNames -> {"modelId"}
      [] OTHER -> {}
Single(s) == \A v, w \in s : v = w
WellFormed(name, p) ==
    /\ \A f \in OptionalFields(name) : Single(Opt(p, f))
    /\ name = "setTempoMetronome" => Opt(p, "beats") \subseteq Seq(STRING)
ASSUME CallAssumption ==
    \A i \in DOMAIN Calls :
      LET method == Calls[i].method
          p == Calls[i].p
      IN  /\ method \in ReadMethods \cup WriteMethods
          /\ WellFormed(IF method = "command.operation" THEN p.operation ELSE method, p)

VARIABLES
    device,    \* the device's state
    toDevice,  \* frames on their way to it
    wire,      \* its messages on their way to the worker
    lane,      \* those handed on to the state decoder
    client,    \* the decoder's preset and the snapshot
    call,      \* the last call
    spent      \* calls and disturbances so far

pathVars == <<device, toDevice, wire, lane, client, call, spent>>

-----------------------------------------------------------------------------
(***************************************************************************)
(* The device                                                              *)
(***************************************************************************)
PresetNames == {"tempo", "param", "sceneMode", "expression", "bypass", "bypassExpression",
                "block", "footswitch", "split", "mixBypass", "input", "output", "label",
                "color", "midiOut", "presetLoadMidi", "momentary", "stompLabel",
                "singleStompLabel"}
ReportedNames(type) ==
    CASE type = 15 -> PresetNames
      [] type = 6 -> {"tuner"}
      [] type = 9 -> {"general"}
      [] type = 3 -> {"in", "out", "usb", "midiThru", "linked"}
      [] type = 14 -> {"modeCycle"}
      [] type = 38 -> {"eq", "eqBypassed"}
      [] type = 10 -> {"name"}
      [] type = 33 -> {"globalTempo"}
      [] type = 28 -> {"looper"}
      [] type = 54 -> {"pin"}
      [] type = 42 -> {"inhibited"}
      [] type = 72 -> {"picture"}

(* The tempo block shares the metronome's parameters with the preset's.    *)
Reported(dev, type) ==
    [path \in {q \in DOMAIN dev : q[1] \in ReportedNames(type)} |-> dev[path]]
      ++ (IF type = 33
          THEN [path \in {<<"globalTempo", q[2]>> : q \in {r \in PathsOf(dev, "tempo") : r[2] > 1}}
                  |-> dev[<<"tempo", path[2]>>]]
          ELSE <<>>)

Live(dev) == dev[<<"scene">>]

(* A parameter that has a value for each scene takes one for the scene     *)
(* that is active, another for all of them.                                *)
Stored(dev, path, value) ==
    CASE path[1] = "param" ->
           [s \in Scenes |->
              IF dev[<<"sceneMode", path[2], path[3], path[4]>>] => s = Live(dev) THEN value
              ELSE dev[path][s]]
      [] path[1] = "bypass" -> [dev[path] EXCEPT ![Live(dev)] = value]
      [] OTHER -> value

CellNames == {"param", "sceneMode", "expression", "bypass", "bypassExpression", "block",
              "footswitch"}
InCell(path, r, c) == path[1] \in CellNames /\ path[2] = r /\ path[3] = c
NoPedal == [pedal |-> 0, mode |-> 0, invert |-> FALSE, delayMs |-> 0, latchEmulation |-> FALSE]

(* A cell as a block of model m comes.                                     *)
Fresh(dev, r, c, m) ==
    [path \in DOMAIN dev |->
       IF ~InCell(path, r, c) THEN dev[path]
       ELSE CASE path[1] = "param" -> [s \in Scenes |-> Float(Zero)]
              [] path[1] = "sceneMode" -> FALSE
              [] path[1] = "expression" -> <<0, Zero, One>>
              [] path[1] = "bypass" -> [s \in Scenes |-> FALSE]
              [] path[1] = "bypassExpression" -> NoPedal
              [] path[1] = "block" -> m
              [] path[1] = "footswitch" -> {}]

Move(dev, from, to) ==
    IF from = to THEN dev
    ELSE LET moved == [path \in DOMAIN dev |->
                         IF InCell(path, to[1], to[2])
                         THEN dev[[path EXCEPT ![2] = from[1], ![3] = from[2]]] ELSE dev[path]]
         IN  Fresh(moved, from[1], from[2], NoModel)

CopyScene(dev, from, to, swap) ==
    LET source(s) == IF s = to THEN from ELSE IF swap /\ s = from THEN to ELSE s
    IN  [path \in DOMAIN dev |->
           CASE path[1] \in {"label", "color"} -> dev[[path EXCEPT ![2] = source(path[2])]]
             [] path[1] \in {"param", "bypass"} -> [s \in Scenes |-> dev[path][source(s)]]
             [] OTHER -> dev[path]]

(* One field.  A new time signature rewrites the beats' accents.           *)
Put(dev, path, value) ==
    CASE path[1] = "move" -> Move(dev, <<path[2], path[3]>>, value)
      [] path[1] = "copyScene" -> CopyScene(dev, value[1], value[2], value[3])
      [] path[1] = "splitBypass" -> [dev EXCEPT ![<<"mixBypass", path[2]>>] = value]
      [] path[1] = "block" /\ path \in DOMAIN dev -> Fresh(dev, path[2], path[3], value)
      [] path = <<"tempo", TempoIndex.timeSignature>> ->
           [q \in DOMAIN dev |-> IF q = path THEN value
                                 ELSE IF q[1] = "tempo" /\ q[2] >= TempoIndex.beats
                                      THEN Choice(Beats, "ON") ELSE dev[q]]
      [] OTHER -> IF path \in DOMAIN dev THEN [dev EXCEPT ![path] = Stored(dev, path, value)]
                  ELSE dev

Execute(dev, frame) ==
    LET target(path) == IF frame.type = 12 THEN [path EXCEPT ![1] = "move"] ELSE path
        given(path) == CASE frame.action = "Delete" /\ path[1] = "preset" -> {}
                         [] frame.action = "Delete" /\ frame.type \in {4, 20, 54}
                              /\ path[1] # "preset" -> FALSE
                         [] OTHER -> frame.fields[path]
    IN  IF frame.action = "Read" THEN dev
        ELSE FoldSet(LAMBDA path, d : Put(d, target(path), given(path)), dev, DOMAIN frame.fields)

Run(dev, frames) == FoldLeft(Execute, dev, frames)

(* The replies to a read: a listing for every folder, a picture of one     *)
(* preset, or what it reports of that type.  An identifier is sent back.   *)
Replies(dev, frame) ==
    LET Reply(fields) ==
            Frame(frame.type, "Reply",
                  [path \in DOMAIN frame.fields \cap {<<"id">>, <<"target">>} |-> frame.fields[path]]
                    ++ fields)
        Listed(name) == {path[2] : path \in {q \in PathsOf(dev, name) : dev[q]}}
    IN  CASE frame.type = 20 ->
               <<Reply(Field(<<"items">>, Listed(IF frame.fields[<<"favorites">>]
                                                 THEN "favorite" ELSE "recent")))>>
          [] frame.type = 4 ->
               SetToSeq({Reply(Field(<<"folder">>, path[2]) ++ Field(<<"items">>, dev[path])) :
                           path \in PathsOf(dev, "files")})
          [] frame.type = 25 ->
               LET preset == <<"presetPicture", frame.fields[<<"target">>][2]>>
               IN  <<Reply(Field(<<"picture">>, IF preset \in DOMAIN dev THEN dev[preset]
                                                 ELSE Unfit))>>
          [] OTHER -> <<Reply(Reported(dev, frame.type))>>

(* What it says of a frame: the replies to a read, or the change it made.  *)
Pushes(dev, frame) ==
    CASE frame.action = "Read" -> Replies(dev, frame)
      [] frame.action = "Update" /\ frame.type \in {1, 13, 14, 17, 23, 33, 48} -> <<frame>>
      [] OTHER -> <<>>

(* A device in the state its caller wants, a field at a time: the effects  *)
(* a field has on others first, then the fields themselves.                *)
Wished(dev, wanted) ==
    LET affected == FoldSet(LAMBDA path, d : Put(d, path, wanted[path]), dev, DOMAIN wanted)
    IN  [path \in DOMAIN dev |-> IF path \in DOMAIN wanted
                                 THEN Stored(affected, path, wanted[path]) ELSE affected[path]]

-----------------------------------------------------------------------------
(***************************************************************************)
(* The client                                                              *)
(***************************************************************************)
Undecoded ==
    [dec |-> [preset |-> <<>>, scene |-> Live(Factory), overrides |-> <<>>],
     snap |-> [scene |-> Live(Factory), tempo |-> 0, ledEnabled |-> FALSE,
               masterVolume |-> Rounded(Factory[<<"volume">>], 0, 100),
               modeSlots |-> Factory[<<"modeCycle">>], mode |-> "stomp",
               presetName |-> "loaded", scenes |-> <<>>, sceneColors |-> <<>>,
               footswitches |-> <<>>, midiOut |-> <<>>, presetLoadMidiOut |-> <<>>,
               blocks |-> <<>>, routes |-> <<>>]]

(* A client that has synchronized with the device as it is at first.       *)
Synchronized == DecodePreset(Undecoded, Reported(Factory, 15))

(* The value of a parameter in the details of its block or control.        *)
ParameterValue(dec, target) ==
    {details[target[3]].value : details \in
       {d \in BlockDetails(dec, target[1], target[2]) : target[3] \in DOMAIN d}}

LaneMethods == {"setLaneControlParameter", "previewLaneControlParameter",
                "setLaneControlSceneMode"}
TargetOf(method, p) ==
    <<p.row, IF method \in LaneMethods THEN ColumnOf[p.control] ELSE p.column, p.parameterIndex>>

(* What a caller that has seen the device as in seen expects of it.        *)
ExpectedField(method, p, seen, field) ==
    LET snap == seen.snap
    IN  CASE field = "expectedPresetName" -> {snap.presetName}
          [] field = "expectedMode" -> {snap.mode}
          [] field = "expectedScene" -> {snap.scene}
          [] field = "expectedTempo" -> {snap.tempo}
          [] field = "expectedValue" -> IF method = "setMasterVolume" THEN {snap.masterVolume}
                                        ELSE ParameterValue(seen.dec, TargetOf(method, p))
          [] field = "expectedModelId" -> BlockField(snap, CellOf(p), "modelId")
          [] field = "expectedBypassed" -> BlockField(snap, CellOf(p), "bypassed")
          [] field = "expectedFootswitch" -> UNION BlockField(snap, CellOf(p), "footswitch")
          [] field = "expectedInputId" -> {snap.routes[p.row].inputId}
          [] field = "expectedOutputId" -> {snap.routes[p.row].outputId}
          [] field = "expectedSplitColumn" -> snap.routes[p.row].splitColumn
          [] field = "expectedMixColumn" -> snap.routes[p.row].mixColumn
          [] field = "expectedMuted" -> {snap.routes[p.row].splitMuted}
Expected(method, p, seen) ==
    [field \in RequiredGuards(method) |-> ExpectedField(method, p, seen, field)]

-----------------------------------------------------------------------------
(***************************************************************************)
(* The call: its phase, its plan, the frames it sent, the device it found  *)
(* (with the frames still on their way to it executed), the reads it waits *)
(* for and what a read has found, and whether the caller had seen an older *)
(* state, a message of a type it reads was already under way, a frame was  *)
(* ignored or somebody touched the device since.                           *)
(***************************************************************************)
NoCall == [phase |-> "idle", number |-> 0, answer |-> "none", stale |-> FALSE, before |-> <<>>,
           frames |-> <<>>, verification |-> None, readback |-> {}, reading |-> {}, news |-> FALSE,
           crossed |-> FALSE, ignored |-> FALSE, touched |-> FALSE]

Answered(answer) == [call EXCEPT !.phase = "idle", !.answer = answer, !.news = FALSE]

(* The details exist and the parameter has the value the caller expects.   *)
Inspected(method, p, expected) ==
    method \in Inspects =>
      LET target == TargetOf(method, p)
      IN  /\ BlockDetails(client.dec, target[1], target[2]) # {}
          /\ AssertExpectedParameter(ParameterValue(client.dec, target), expected)

ControlChangeFrames(o) ==
    IF o.op = "Midi" THEN <<Update(0, <<"controlChange", o.controller>>, o.value)>> ELSE <<>>

(* How a write goes on when it has sent its frames: the reads it asks for  *)
(* and the phase it waits in.                                              *)
SettingsRead(method) == PlanGatewayRead(method, <<>>, 0)
PresetRead == Asking(Read(15), {}, {})

Continuation(method, plan) ==
    CASE method \in Assignments -> [phase |-> "checking", reads |-> {}]
      [] method = "setDeviceName" ->
           [phase |-> "settings", reads |-> SettingsRead("identity")]
      [] method \in Realtime \cup CommandMethods -> [phase |-> "idle", reads |-> {}]
      [] method \notin Realtime \cup CommandMethods \cup Assignments \cup {"setDeviceName"} ->
           IF plan.verification # None THEN [phase |-> "preset", reads |-> {PresetRead}]
           ELSE IF ReadbackMethod(method) # {}
                THEN [phase |-> "settings",
                      reads |-> UNION {SettingsRead(m) : m \in ReadbackMethod(method)}]
                ELSE [phase |-> "idle", reads |-> {}]

(* A message of a type that is to be read is still to come.                *)
Crossed(reads) ==
    \E m \in Range(toDevice \o wire) : \E read \in reads : m.type = read.frame.type

Send(i, plan, stale) ==
    LET frames == Encode(plan.write) \o ControlChangeFrames(plan.write)
        next == Continuation(Calls[i].method, plan)
        reads == SetToSeq({read.frame : read \in next.reads})
    IN  /\ toDevice' = toDevice \o frames \o reads
        /\ call' = [NoCall EXCEPT
                      !.phase = next.phase, !.number = i, !.stale = stale,
                      !.answer = IF next.phase = "idle" THEN "accepted" ELSE "none",
                      !.before = Run(device, toDevice), !.frames = frames,
                      !.verification = plan.verification, !.readback = next.reads,
                      !.crossed = Crossed(next.reads)]

Refuse(i, stale) ==
    /\ call' = [NoCall EXCEPT !.number = i, !.stale = stale, !.answer = "refused",
                              !.before = Run(device, toDevice)]
    /\ UNCHANGED toDevice

MayCall(i) ==
    /\ call.phase = "idle" /\ spent.calls < MaxCalls
    /\ spent.calls > 0 => i \in Followers

(* A write of somebody who has seen the present snapshot, or the first     *)
(* one.  One that asks for details gets them when the decoder has caught   *)
(* up.                                                                     *)
Begin(i, stale) ==
    /\ MayCall(i) /\ Calls[i].method \notin ReadMethods
    /\ stale => client # Synchronized
    /\ LET method == Calls[i].method
           p == Calls[i].p
           expected == Expected(method, p, IF stale THEN Synchronized ELSE client)
           plans == Plan(method, p, expected, client.snap)
       IN  /\ method \in Inspects => lane = <<>>
           /\ IF Inspected(method, p, expected) /\ plans # {}
              THEN \E plan \in plans : Send(i, plan, stale)
              ELSE Refuse(i, stale)
    /\ spent' = [spent EXCEPT !.calls = @ + 1]
    /\ UNCHANGED <<device, wire, lane, client>>

(* A read: its identifier is unlike any before it.                         *)
BeginRead(i) ==
    /\ MayCall(i) /\ Calls[i].method \in ReadMethods
    /\ LET plans == PlanGatewayRead(Calls[i].method, Calls[i].p, spent.calls + 1)
       IN  IF plans = {} THEN Refuse(i, FALSE)
           ELSE \E read \in plans :
                  /\ toDevice' = Append(toDevice, read.frame)
                  /\ call' = [NoCall EXCEPT !.phase = "settings", !.number = i,
                                            !.before = Run(device, toDevice), !.readback = {read},
                                            !.crossed = Crossed({read})]
    /\ spent' = [spent EXCEPT !.calls = @ + 1]
    /\ UNCHANGED <<device, wire, lane, client>>

(***************************************************************************)
(* The device executes a frame, or ignores a write.                        *)
(***************************************************************************)
ExecuteFrame ==
    /\ toDevice # <<>>
    /\ device' = Execute(device, Head(toDevice))
    /\ toDevice' = Tail(toDevice)
    /\ wire' = wire \o Pushes(device', Head(toDevice))
    /\ UNCHANGED <<lane, client, call, spent>>

IgnoreFrame ==
    /\ toDevice # <<>> /\ Head(toDevice).action # "Read"
    /\ spent.disturbed < MaxDisturbed
    /\ toDevice' = Tail(toDevice)
    /\ call' = IF Len(toDevice) > Len(call.frames) + Cardinality(call.readback)
               THEN [call EXCEPT !.touched = TRUE]     \* a frame of the call before this
               ELSE [call EXCEPT !.ignored = TRUE]
    /\ spent' = [spent EXCEPT !.disturbed = @ + 1]
    /\ UNCHANGED <<device, wire, lane, client>>

(* Somebody selects a scene or plugs a jack.                               *)
Touch ==
    /\ spent.disturbed < MaxDisturbed
    /\ \/ \E s \in Scenes \ {Live(device)} :
             /\ device' = [device EXCEPT ![<<"scene">>] = s]
             /\ wire' = Append(wire, SelectScene(s))
       \/ /\ wire' = Append(wire, IoUpdate(<<"plugged", "input", 1>>, TRUE))
          /\ UNCHANGED device
    /\ call' = [call EXCEPT !.touched = TRUE]
    /\ spent' = [spent EXCEPT !.disturbed = @ + 1]
    /\ UNCHANGED <<toDevice, lane, client>>

(***************************************************************************)
(* The worker hands a message to the call that waits for it, then to the   *)
(* decoder.  A read takes the first message of its type that its decoder   *)
(* can make something of; one of a preset's picture, which the worker      *)
(* matches itself, the first that is not of another identifier.            *)
(***************************************************************************)
ReadbackAnswer(readings) ==
    LET method == Calls[call.number].method
        p == Calls[call.number].p
    IN  IF \/ method \in ReadMethods
           \/ \E reading \in readings : IF method = "setDeviceName" THEN reading = p.name
                                         ELSE ReadbackMatches(method, p, reading)
        THEN "verified" ELSE "failed"

Undecodable(read, message) ==
    read.frame.type = 25 /\ \A id \in At1(message.fields, <<"id">>) : id \in read.id

RaiseRaw ==
    /\ wire # <<>>
    /\ LET message == Head(wire)
           asked == {read \in call.readback :
                       call.phase = "settings" /\ read.frame.type = message.type}
           readings == UNION {Projected(read, message.fields) : read \in asked}
           found == IF Calls[call.number].method \in ReadMethods THEN readings ELSE {}
       IN  /\ call' = CASE readings # {} ->
                             [Answered(ReadbackAnswer(readings)) EXCEPT !.reading = found]
                        [] readings = {} /\ \E read \in asked : Undecodable(read, message) ->
                             Answered("failed")
                        [] call.phase = "preset" /\ message.type = 15 ->
                             [call EXCEPT !.phase = "verifying"]
                        [] OTHER -> call
           /\ lane' = Append(lane, message)
    /\ wire' = Tail(wire)
    /\ UNCHANGED <<device, toDevice, client, spent>>

DecodePush ==
    /\ lane # <<>>
    /\ client' = Decode(client, Head(lane))
    /\ call' = [call EXCEPT !.news = @ \/ /\ call.phase \in {"preset", "verifying"}
                                          /\ Announced(Head(lane))]
    /\ lane' = Tail(lane)
    /\ UNCHANGED <<device, toDevice, wire, spent>>

(***************************************************************************)
(* The call looks at the snapshot after every event, and at a parameter's  *)
(* details once more before it answers.                                    *)
(***************************************************************************)
Confirms ==
    LET v == call.verification
    IN  Matches(v, client.snap,
                IF v.kind = "Parameter" THEN ParameterValue(client.dec, v.target) ELSE {})

Verify ==
    /\ call.phase = "verifying" /\ call.news
    /\ call' = IF ~Confirms THEN [call EXCEPT !.news = FALSE]
               ELSE IF call.verification.kind = "Parameter"
                    THEN [call EXCEPT !.phase = "confirming", !.news = FALSE]
                    ELSE Answered("verified")
    /\ UNCHANGED <<device, toDevice, wire, lane, client, spent>>

Confirm ==
    /\ call.phase = "confirming"
    /\ call' = Answered(IF Confirms THEN "verified" ELSE "failed")
    /\ UNCHANGED <<device, toDevice, wire, lane, client, spent>>

(* An assignment is compared with the details of the preset last read.     *)
Assigned(method, p, detail) ==
    CASE method \in {"setParameterSceneMode", "setLaneControlSceneMode"} ->
           detail.sceneMode = p.enabled
      [] method = "setParameterExpression" ->
           /\ detail.expression[1] = p.pedal
           /\ p.pedal # 0 => /\ SameShare(detail.expression[2], p.minimum)
                             /\ SameShare(detail.expression[3], p.maximum)

CheckAssignment ==
    /\ call.phase = "checking" /\ lane = <<>>
    /\ LET method == Calls[call.number].method
           p == Calls[call.number].p
           target == TargetOf(method, p)
           details == BlockDetails(client.dec, target[1], target[2])
       IN  call' = Answered(IF \E d \in details : /\ target[3] \in DOMAIN d
                                                  /\ Assigned(method, p, d[target[3]])
                            THEN "accepted" ELSE "failed")
    /\ UNCHANGED <<device, toDevice, wire, lane, client, spent>>

(* A read may end before its answer comes; the time a write is allowed     *)
(* outlasts whatever the device and the decoder still have to do.          *)
GiveUp ==
    /\ call.phase \in {"settings", "preset", "verifying"} /\ ~call.news
    /\ \/ Calls[call.number].method \in ReadMethods
       \/ toDevice = <<>> /\ wire = <<>> /\ lane = <<>>
    /\ call' = Answered("failed")
    /\ UNCHANGED <<device, toDevice, wire, lane, client, spent>>

-----------------------------------------------------------------------------
Init ==
    /\ device = Factory
    /\ toDevice = <<>> /\ wire = <<>> /\ lane = <<>>
    /\ client = Synchronized
    /\ call = NoCall
    /\ spent = [calls |-> 0, disturbed |-> 0]

Next ==
    \/ \E i \in DOMAIN Calls, stale \in BOOLEAN : Begin(i, stale)
    \/ \E i \in DOMAIN Calls : BeginRead(i)
    \/ ExecuteFrame \/ IgnoreFrame \/ Touch
    \/ RaiseRaw \/ DecodePush
    \/ Verify \/ Confirm \/ CheckAssignment \/ GiveUp

Spec == Init /\ [][Next]_pathVars

-----------------------------------------------------------------------------
(***************************************************************************)
(* Properties                                                              *)
(***************************************************************************)
Undisturbed == ~call.ignored /\ ~call.touched
Done == call.number # 0 /\ call.phase = "idle" /\ toDevice = <<>>
Wanted == Wished(call.before, Calls[call.number].wanted)

(* Calls of which a fresh observation proves nothing: it looks the same    *)
(* whether the write landed or not.                                        *)
Indistinct ==
    LET c == Calls[call.number]
        v == call.verification
    IN  \/ /\ c.method = "moveBlock"
           /\ call.before[<<"block", c.p.toRow, c.p.toColumn>>] =
                call.before[<<"block", c.p.row, c.p.fromColumn>>]
        \/ c.method = "copyScene" /\ v.fromLabel = v.toLabel /\ v.fromColor = v.toColor
        \/ c.method = "setParameter" /\ "text" \in DOMAIN c.p

(* A write that is accepted leaves the device in the state its caller      *)
(* asked for and changes nothing else, a read changes nothing; a call that *)
(* the device cannot be asked is refused; one that can be, by a caller who *)
(* has seen the present state, is not.  A write that is reported verified  *)
(* has landed, even on a device that ignores some; unless it is a settings *)
(* write, whose readback carries no identifier, and an answer of that type *)
(* to an earlier call was still to come when it began                      *)
(* (plan_gateway_write, requires_authoritative_readback, request.rs;       *)
(* commands.rs).                                                           *)
WriteLands ==
    /\ Done /\ Undisturbed =>
         /\ call.answer # "refused" => device = Wanted
         /\ Calls[call.number].refused => call.answer = "refused"
         /\ call.answer = "refused" => call.stale \/ Calls[call.number].refused
    /\ Done /\ ~call.touched /\ call.answer = "verified" =>
         \/ Calls[call.number].method \in ReadMethods
         \/ call.crossed /\ Calls[call.number].method \in Settings
         \/ Indistinct \/ device = Wanted

(* A settings write that landed, with no message of the type it reads back *)
(* under way when it began, is confirmed: the reply is compared with       *)
(* exactly the fields the write changed (gateway_write_readback_matches).  *)
AppliedIsConfirmed ==
    /\ Done /\ Undisturbed /\ ~call.crossed /\ device = Wanted
    /\ Calls[call.number].method \in Settings
    => call.answer \in {"verified", "refused"}

(* What a read finds is what the device held when it was asked.            *)
ReadIsTrue(read) ==
    \E m \in Range(Replies(call.before, read.frame)) : call.reading = Projected(read, m.fields)

(* A read that is answered is true, though an answer to an earlier one     *)
(* comes late; unless nothing in a message that was under way when it was  *)
(* asked says whose answer that is (execute_gateway_read, rpc.rs).         *)
ReadsAreTrue ==
    /\ Done /\ ~call.touched /\ call.answer = "verified"
    /\ Calls[call.number].method \in ReadMethods
    => \A read \in call.readback : read.id # {} \/ ~call.crossed => ReadIsTrue(read)

(* Calls whose landing their readback does not show.                       *)
Unshown ==
    LET c == Calls[call.number]
        p == c.p
    IN  \/ call.crossed
        \/ c.method = "setTempoMetronome"
             /\ (\/ \E q \in Opt(p, "pan") : ~SameShare(q, One)
                 \/ \E b \in Opt(p, "beats") : Len(b) < MaxBeats)
        \/ c.method \in Assignments
        \/ c.method = "setParameter"
             /\ ("text" \in DOMAIN p \/ ParameterValue(client.dec, TargetOf(c.method, p)) = {})
        \/ c.method = "setStompLabel" /\ Driven(client.snap, p.footswitch) # 1
        \/ c.method = "setSceneLabel" /\ Opt(p, "label") = {Blank}

(* A write that landed on an undisturbed device is not reported failed,    *)
(* but for the calls named above (gateway_operation, rpc.rs).              *)
ConfirmedOrUnshown ==
    /\ Done /\ Undisturbed /\ call.answer = "failed"
    /\ Calls[call.number].method \notin ReadMethods
    => Unshown

(* A write that may be repeated changes nothing when it is                 *)
(* (gateway_write_retryable, request.rs).                                  *)
RetryIsIdempotent ==
    /\ Done /\ Undisturbed /\ call.answer # "refused"
    /\ Calls[call.number].method \in Retryable
    => Run(device, call.frames) = device

(* A realtime write is answered before anything is known of it; the state  *)
(* the device pushes then brings the snapshot to what the write was for    *)
(* (gateway_write_is_realtime, request.rs).                                *)
RealtimeReconciles ==
    /\ Done /\ Undisturbed /\ wire = <<>> /\ lane = <<>> /\ call.answer = "accepted"
    /\ Calls[call.number].method \in Realtime /\ call.verification # None
    => Confirms
=============================================================================
