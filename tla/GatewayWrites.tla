---------------------------- MODULE GatewayWrites ----------------------------
(***************************************************************************)
(* How a gateway write is planned and confirmed: the guards a call must    *)
(* bring, what it is checked against, the write it becomes, and what must  *)
(* be read back for it to count as done                                    *)
(* (qc-device-runtime/src/request.rs).                                     *)
(*                                                                         *)
(* Methods are named without their device. prefix.  A call's expectations  *)
(* are a function from guard fields to sets: {v} for a value, {} for null. *)
(***************************************************************************)
EXTENDS GatewayReads

-----------------------------------------------------------------------------
(***************************************************************************)
(* Policy                                                                  *)
(***************************************************************************)
(* A mistake: a write to a scene is taken to be repeatable.                *)
RetryableScenes == {"selectScene", "copyScene"}

(* Writes that may be sent twice before they are confirmed.  The first two *)
(* are stages of their own (Gateway), which no write is planned for.       *)
Retryable ==
    {"recallPreset", "reloadPreset", "selectScene", "toggleBypass", "setParameter", "setLaneControlParameter",
     "setLaneControlSceneMode", "setParameterSceneMode", "setParameterExpression",
     "setExpressionBypass", "setBlockFootswitch", "setStompMomentary", "setStompLabel",
     "setMidiOut", "setPresetLoadMidiOut", "setChainInput", "setChainOutput",
     "setChainSplit", "setSplitMute", "setTempo", "setMasterVolume", "selectModeSlot",
     "showTuner", "showGigView"}

(* Writes that are answered as soon as they are sent.                      *)
Realtime ==
    {"selectScene", "command.scene", "toggleBypass", "command.bypass", "setTempo",
     "command.tempo", "setMasterVolume", "pressFootswitch", "tapTempo", "selectModeSlot",
     "showTuner", "showGigView", "controlLooper"}

Preset == "expectedPresetName"
RequiredGuards(method) ==
    CASE method \in {"selectScene", "copyScene", "setSceneLabel", "setSceneColor",
                     "selectModeSlot", "setParameterSceneMode", "setParameterExpression",
                     "setLaneControlSceneMode", "setExpressionBypass", "addBlock",
                     "setStompMomentary", "setStompLabel", "setMidiOut",
                     "setPresetLoadMidiOut"} -> {Preset}
      [] method \in {"pressFootswitch", "tapTempo"} -> {"expectedMode", Preset}
      [] method = "setMasterVolume" -> {"expectedValue"}
      [] method = "setTempo" -> {"expectedTempo", Preset}
      [] method = "toggleBypass" -> {"expectedBypassed", "expectedScene", Preset}
      [] method \in {"setParameter", "previewParameter"} ->
           {"expectedValue", "expectedScene", Preset}
      [] method \in {"setLaneControlParameter", "previewLaneControlParameter"} ->
           {"expectedValue", Preset}
      [] method \in {"moveBlock", "removeBlock", "loadCapture", "loadIr"} ->
           {"expectedModelId", Preset}
      [] method = "setBlockFootswitch" -> {"expectedFootswitch", "expectedModelId", Preset}
      [] method = "setChainInput" -> {"expectedInputId", Preset}
      [] method = "setChainOutput" -> {"expectedOutputId", Preset}
      [] method = "setChainSplit" -> {"expectedSplitColumn", "expectedMixColumn", Preset}
      [] method = "setSplitMute" -> {"expectedMuted", Preset}
      [] OTHER -> {}

-----------------------------------------------------------------------------
(***************************************************************************)
(* Guards against the snapshot                                             *)
(***************************************************************************)
(* A guard that may be null is compared as it is, one that may not only    *)
(* when there is something to compare.                                     *)
Expects(expected, field, actual) == field \in DOMAIN expected => expected[field] = actual
ExpectsSome(expected, field, actual) == Opt(expected, field) \subseteq actual

BlockField(snap, cell, field) == {snap.blocks[x][field] : x \in DOMAIN snap.blocks \cap {cell}}
CellOf(p) ==
    IF "fromColumn" \in DOMAIN p THEN <<p.row, p.fromColumn>>
    ELSE IF "column" \in DOMAIN p THEN <<p.row, p.column>> ELSE <<p.row, -1>>

AssertExpectedPreset(snap, expected) == ExpectsSome(expected, Preset, {snap.presetName})

AssertExpectedLive(method, snap, expected) ==
    /\ ExpectsSome(expected, "expectedMode", {snap.mode})
    /\ ExpectsSome(expected, "expectedScene", {snap.scene})
    /\ ExpectsSome(expected, "expectedTempo", {snap.tempo})
    /\ method = "setMasterVolume" => ExpectsSome(expected, "expectedValue", {snap.masterVolume})

AssertExpectedBlock(snap, p, expected) ==
    /\ Expects(expected, "expectedModelId", BlockField(snap, CellOf(p), "modelId"))
    /\ "column" \in DOMAIN p =>
         /\ ExpectsSome(expected, "expectedBypassed", BlockField(snap, CellOf(p), "bypassed"))
         /\ Expects(expected, "expectedFootswitch",
                    UNION BlockField(snap, CellOf(p), "footswitch"))

RouteGuards == {"expectedInputId", "expectedOutputId", "expectedSplitColumn",
                "expectedMixColumn", "expectedMuted"}
AssertExpectedRoute(snap, p, expected) ==
    RouteGuards \cap DOMAIN expected # {} =>
      /\ p.row \in DOMAIN snap.routes
      /\ LET route == snap.routes[p.row]
         IN  /\ Expects(expected, "expectedInputId", {route.inputId})
             /\ Expects(expected, "expectedOutputId", {route.outputId})
             /\ Expects(expected, "expectedSplitColumn", route.splitColumn)
             /\ Expects(expected, "expectedMixColumn", route.mixColumn)
             /\ ExpectsSome(expected, "expectedMuted", {route.splitMuted})

AssertExpectedState(method, snap, p, expected) ==
    /\ AssertExpectedLive(method, snap, expected)
    /\ "row" \in DOMAIN p => /\ AssertExpectedBlock(snap, p, expected)
                             /\ AssertExpectedRoute(snap, p, expected)

(* The value of a parameter is checked against the decoder's details; a    *)
(* call that expects null is not checked.                                  *)
AssertExpectedParameter(actual, expected) ==
    \A v \in Opt(expected, "expectedValue") : \E a \in actual : SameShare(a, v)

-----------------------------------------------------------------------------
(***************************************************************************)
(* What proves that a write has landed                                     *)
(***************************************************************************)
None == [kind |-> "None"]

SceneCopy(o, snap) ==
    [kind |-> "SceneCopy", from |-> o.from, to |-> o.to, swap |-> o.swap,
     fromLabel |-> snap.scenes[o.from], toLabel |-> snap.scenes[o.to],
     fromColor |-> snap.sceneColors[o.from], toColor |-> snap.sceneColors[o.to]]

BlockAt(row, column, model, present) ==
    [kind |-> "Block", cell |-> <<row, column>>, modelId |-> model, present |-> present]
Rgb(color) == color % 16777216

VerificationFor(o, expected, snap) ==
    CASE o.op = "AddBlock" -> BlockAt(o.row, o.column, {o.modelId}, TRUE)
      [] o.op = "RemoveBlock" -> BlockAt(o.row, o.column, {}, FALSE)
      [] o.op \in {"LoadCapture", "LoadIr"} /\ o.modelId # {} ->
           BlockAt(o.row, o.column, o.modelId, TRUE)
      [] o.op = "MoveBlock" ->
           BlockAt(o.toRow, o.toColumn, Opt(expected, "expectedModelId"), TRUE)
      [] o.op = "SetFootswitch" ->
           [kind |-> "Footswitch", cell |-> <<o.row, o.column>>, value |-> o.footswitch]
      [] o.op = "SetStompMomentary" ->
           [kind |-> "StompMomentary", footswitch |-> o.footswitch, value |-> o.value]
      [] o.op = "SetStompLabel" ->
           [kind |-> "StompLabel", footswitch |-> o.footswitch, value |-> o.value]
      [] o.op = "SetMidiOut" ->
           [kind |-> "MidiOut", source |-> {o.source}, value |-> o.messages]
      [] o.op = "SetPresetLoadMidiOut" ->
           [kind |-> "MidiOut", source |-> {}, value |-> o.messages]
      [] o.op = "SetExpressionBypass" ->
           [kind |-> "ExpressionBypass", cell |-> <<o.row, o.column>>,
            value |-> [f \in {"pedal", "mode", "invert", "delayMs", "latchEmulation"} |-> o[f]]]
      [] o.op = "SetChainInput" -> [kind |-> "RouteInput", row |-> o.row, value |-> o.value]
      [] o.op = "SetChainOutput" -> [kind |-> "RouteOutput", row |-> o.row, value |-> o.value]
      [] o.op = "SetChainSplit" ->
           [kind |-> "RouteSplit", row |-> o.row, splitColumn |-> o.splitColumn,
            mixColumn |-> o.mixColumn]
      [] o.op = "SetSplitMute" -> [kind |-> "SplitMute", row |-> o.row, value |-> o.value]
      [] o.op = "SetSceneLabel" ->
           [kind |-> "SceneLabel", scene |-> o.scene, value |-> o.value]
      [] o.op = "SetSceneColor" ->
           [kind |-> "SceneColor", scene |-> o.scene, value |-> Rgb(o.value)]
      [] o.op = "CopyScene" -> SceneCopy(o, snap)
      [] OTHER -> None

(* A copied default label becomes the other scene's default.               *)
CopiedLabel(actual, label, labelScene, scene) ==
    \/ actual = label
    \/ label = DefaultSceneLabel(labelScene) /\ actual = DefaultSceneLabel(scene)

MatchesScenes(v, snap) ==
    CASE v.kind = "Scene" -> snap.scene = v.scene
      [] v.kind = "SceneLabel" ->
           IF v.value = {} THEN snap.scenes[v.scene] = DefaultSceneLabel(v.scene)
           ELSE \E label \in v.value : snap.scenes[v.scene] = SceneLabel(label)
      [] v.kind = "SceneColor" -> Rgb(snap.sceneColors[v.scene]) = v.value
      [] v.kind = "SceneCopy" ->
           /\ CopiedLabel(snap.scenes[v.to], v.fromLabel, v.from, v.to)
           /\ snap.sceneColors[v.to] = v.fromColor
           /\ v.swap => /\ CopiedLabel(snap.scenes[v.from], v.toLabel, v.to, v.from)
                        /\ snap.sceneColors[v.from] = v.toColor

Matches(v, snap, parameter) ==
    CASE v.kind = "None" -> FALSE
      [] v.kind \in {"Scene", "SceneLabel", "SceneColor", "SceneCopy"} -> MatchesScenes(v, snap)
      [] v.kind = "Tempo" -> snap.tempo = v.bpm
      [] v.kind = "MasterVolume" -> snap.masterVolume = v.value
      [] v.kind = "Bypass" -> BlockField(snap, v.cell, "bypassed") = {v.value}
      [] v.kind = "Parameter" -> \E q \in parameter : SameShare(q, v.value)
      [] v.kind = "Block" ->
           IF v.present THEN \E m \in BlockField(snap, v.cell, "modelId") : v.modelId \in {{}, {m}}
           ELSE v.cell \notin DOMAIN snap.blocks
      [] v.kind = "Footswitch" -> BlockField(snap, v.cell, "footswitch") = {v.value}
      [] v.kind = "StompMomentary" -> snap.footswitches[v.footswitch].momentary = v.value
      [] v.kind = "StompLabel" -> snap.footswitches[v.footswitch].label = v.value
      [] v.kind = "MidiOut" ->
           IF v.source = {} THEN snap.presetLoadMidiOut = v.value
           ELSE \A source \in v.source :
                  (IF source \in DOMAIN snap.midiOut THEN snap.midiOut[source] ELSE <<>>) = v.value
      [] v.kind = "ExpressionBypass" -> BlockField(snap, v.cell, "bypassExpression") = {v.value}
      [] v.kind = "RouteInput" -> snap.routes[v.row].inputId = v.value
      [] v.kind = "RouteOutput" -> snap.routes[v.row].outputId = v.value
      [] v.kind = "RouteSplit" -> /\ snap.routes[v.row].splitColumn = v.splitColumn
                                  /\ snap.routes[v.row].mixColumn = v.mixColumn
      [] v.kind = "SplitMute" -> snap.routes[v.row].splitMuted = v.value

-----------------------------------------------------------------------------
(***************************************************************************)
(* The plan of a write: what to send and what proves it, or nothing        *)
(***************************************************************************)
Planned(ops, Verification(_)) == {[write |-> o, verification |-> Verification(o)] : o \in ops}
Unverified(o) == None

(* The writes that are commands rather than operations.                    *)
PlanCommand(method, p) ==
    CASE method \in {"selectScene", "command.scene"} ->
           LET Seen(o) == [kind |-> "Scene", scene |-> o.value]
           IN  Planned(Accept(Given(p, "scene", Switches),
                              [op |-> "SelectScene", value |-> p.scene]), Seen)
      [] method \in {"toggleBypass", "command.bypass"} ->
           LET field == IF method = "toggleBypass" THEN "desiredBypassed" ELSE "bypassed"
               Seen(o) == [kind |-> "Bypass", cell |-> <<o.row, o.column>>, value |-> o.value]
           IN  Planned(Accept(Row(p) /\ Column(p, "column") /\ Flag(p, field),
                              At(p, "SetBypass") ++ [value |-> p[field]]), Seen)
      [] method \in {"setTempo", "command.tempo"} ->
           LET Seen(o) == [kind |-> "Tempo", bpm |-> o.value]
           IN  Planned(Accept(Given(p, "bpm", MinimumTempo .. MaximumTempo),
                              [op |-> "SetTempo", value |-> p.bpm]), Seen)
      [] method = "setMasterVolume" ->
           LET Seen(o) == [kind |-> "MasterVolume", value |-> p.value]
           IN  Planned(Accept(Given(p, "value", 0 .. 100),
                              [op |-> "SetMasterVolume", value |-> <<p.value, 100>>]), Seen)

(* A text's verification is of the number the call did not bring, a zero.  *)
PlanParameter(method, p) ==
    LET node == p.column >= GridColumns
        text == "text" \in DOMAIN p
        write == CASE node -> [op |-> "SetRoutingParameter", row |-> p.row,
                               node |-> IF p.column = GridColumns THEN "splitter" ELSE "mixer",
                               parameterIndex |-> p.parameterIndex, value |-> p.value]
                   [] ~node /\ text -> At(p, "SetParameterText")
                        ++ [parameterIndex |-> p.parameterIndex, value |-> p.text]
                   [] ~node /\ ~text -> At(p, "SetParameterNumeric")
                        ++ [parameterIndex |-> p.parameterIndex, value |-> p.value]
        Seen(o) == IF method = "previewParameter" THEN None
                   ELSE [kind |-> "Parameter", target |-> <<p.row, p.column, p.parameterIndex>>,
                         value |-> IF "value" \in DOMAIN p THEN p.value ELSE Zero]
    IN  Planned(Accept(/\ NodeColumn(p) /\ Natural(p, "parameterIndex")
                       /\ node => ~text
                       /\ ~text => Normalized(p, "value"), write), Seen)

(* How many blocks a footswitch drives, as the snapshot has it.            *)
Driven(snap, fs) ==
    Cardinality({x \in DOMAIN snap.blocks : snap.blocks[x].footswitch = {fs}})

PlanStomp(method, p, snap) ==
    LET Seen(o) == VerificationFor(o, <<>>, snap)
        labelled == IF method = "setStompLabel" /\ Given(p, "footswitch", Switches)
                    THEN [single |-> {Driven(snap, p.footswitch) = 1}] ++ p ELSE p
    IN  Planned({o \in SwitchOperation(method, labelled) :
                   method = "setStompMomentary" => Driven(snap, o.footswitch) = 1}, Seen)

Verified == {"addBlock", "removeBlock", "moveBlock", "setBlockFootswitch", "setChainInput",
             "setChainOutput", "setChainSplit", "setSplitMute", "copyScene", "setSceneLabel",
             "setSceneColor", "setMidiOut", "setPresetLoadMidiOut", "setExpressionBypass"}
Assignments == {"setParameterSceneMode", "setParameterExpression", "setLaneControlSceneMode"}
Settings == TunerNames \cup GeneralNames \cup PortNames \cup EqNames
              \cup {"setModeCycle", "setTempoMetronome", "setTempoMode"}
Library == (LibraryNames \ {"setTempoMode"}) \cup PresetFileNames \cup FileBlockNames

PlanGatewayWrite(method, p, expected, snap) ==
    LET name == CASE method = "setBlockFootswitch" -> "setFootswitch"
                  [] method = "previewLaneControlParameter" -> "setLaneControlParameter"
                  [] OTHER -> method
        Seen(o) == VerificationFor(o, expected, snap)
    IN  CASE method \in Settings \cup Library \cup Assignments
                          \cup {"setLaneControlParameter", "previewLaneControlParameter"} ->
               Planned(Operation(name, p), Unverified)
          [] method \in {"selectScene", "command.scene", "toggleBypass", "command.bypass",
                         "setTempo", "command.tempo", "setMasterVolume"} ->
               PlanCommand(method, p)
          [] method \in {"setParameter", "previewParameter", "command.parameter"} ->
               PlanParameter(method, p)
          [] method = "setDeviceName" ->
               Planned(Accept(VisibleText(p, "name"),
                              [op |-> "SetDeviceName", value |-> p.name]), Unverified)
          [] method \in Verified -> Planned(Operation(name, p), Seen)
          [] method \in {"setStompMomentary", "setStompLabel"} -> PlanStomp(method, p, snap)
          [] method = "command.operation" -> Planned(Operation(p.operation, p), Seen)
          [] method \in HostMidiMethods -> Planned(PlanHostMidi(method, p), Unverified)

(* A call is refused when it lacks a guard, when a guard finds the         *)
(* snapshot changed, or when its parameters do not fit.                    *)
Plan(method, p, expected, snap) ==
    LET command == method \in {"command.scene", "command.bypass", "command.parameter",
                               "command.tempo", "command.operation"}
    IN  {plan \in PlanGatewayWrite(method, p, expected, snap) :
           /\ RequiredGuards(method) \subseteq DOMAIN expected
           /\ \/ command
              \/ /\ AssertExpectedPreset(snap, expected)
                 /\ AssertExpectedState(method, snap, p, expected)
           /\ Encodable(plan.write)}

-----------------------------------------------------------------------------
(***************************************************************************)
(* Settings that are read back: the read that reports them, and how its    *)
(* reading is compared with the call                                       *)
(***************************************************************************)
ReadbackMethod(method) ==
    CASE method \in TunerNames -> {"tunerSettings"}
      [] method \in GeneralNames -> {"generalSettings"}
      [] method \in PortNames -> {"ioSettings"}
      [] method = "setModeCycle" -> {"modeCycle"}
      [] method \in EqNames -> {"globalEq"}
      [] method \in {"setTempoMetronome", "setTempoMode"} -> {"globalTempoSettings"}
      [] OTHER -> {}

Same(wanted, actual) == wanted \subseteq actual
(* A mistake: that there is a number is enough.                            *)
SameNumberAny(wanted, actual) == \A q \in wanted : actual # {}
SameNumber(wanted, actual) == \A q \in wanted : \E a \in actual : SameShare(a, q)

EqMatches(method, p, reply) ==
    LET at(i) == At1(reply.parameters, i)
        base == EqBase(p.band)
    IN  CASE method = "setGlobalEqBypassed" -> Same({p.bypassed}, reply.bypassed)
          [] method = "setGlobalEqBand" ->
               /\ \A i \in DOMAIN BandField : SameNumber(Opt(p, BandField[i]), at(base + i - 1))
               /\ SameNumber({<<t, 4>> : t \in Opt(p, "filterType")}, at(base + 3))
               /\ SameNumber({Switched(on) : on \in Opt(p, "enabled")}, at(base + 4))
          [] method = "setGlobalEqOutput" ->
               /\ SameNumber(Opt(p, "level"), at(EqOutput.level))
               /\ \A f \in {"out12", "out34"} :
                     SameNumber({Switched(on) : on \in Opt(p, f)}, at(EqOutput[f]))

MetronomeMatches(p, reply) ==
    /\ \A f \in {"volumeDb", "pan"} : SameNumber(Opt(p, f), reply[f])
    /\ \A f \in {"ledEnabled", "running", "beats"} \cup DOMAIN TempoLabels :
          Same(Opt(p, f), reply[f])

GeneralMatches(method, p, reply) ==
    CASE method = "setGeneralInteger" -> Same({p.value}, reply[p.setting])
      [] method = "setGeneralToggle" -> Same({p.enabled}, reply[p.setting])
      [] method = "setSceneBypassBehavior" -> Same({p.behavior}, reply.sceneBypassBehavior)
      [] method = "setMasterVolumeAssignment" ->
           Same({[f \in VolumeOutputs |-> p[f]]}, reply.masterVolumeAssignment)
      [] method = "setGlobalBypass" -> Same({p.cab}, reply.cab) /\ Same({p.ir}, reply.ir)

PortMatches(method, p, reply) ==
    CASE method = "setInputPort" ->
           /\ p.inputPortId \in DOMAIN reply.inputs
           /\ \A f \in InputFields : SameNumber(Opt(p, f), reply.inputs[p.inputPortId][f])
      [] method = "setOutputPort" ->
           /\ p.outputPortId \in DOMAIN reply.outputs
           /\ \A f \in {"level", "groundLift"} :
                 SameNumber(Opt(p, f), reply.outputs[p.outputPortId][f])
           /\ Same(Opt(p, "mute"), reply.outputs[p.outputPortId].mute)
      [] method = "setUsbPort" -> \A f \in UsbFields : SameNumber(Opt(p, f), reply.usb[f])
      [] method = "setMidiThru" -> SameNumber({Switched(p.enabled)}, reply.thru)
      [] method = "setOutputPairing" -> \A f \in PairingFields : Same(Opt(p, f), reply.linked[f])

ReadbackMatches(method, p, reply) ==
    CASE method = "setTunerInput" -> Same({p.inputPortId}, reply.inputPortId)
      [] method = "setTunerMute" -> Same({p.muted}, reply.muted)
      [] method = "restoreTunerAudio" -> Same({FALSE}, reply.muted)
      [] method = "setTunerReference" -> Same({p.referenceOffsetHz}, reply.referenceOffsetHz)
      [] method = "setModeCycle" -> reply = p.slots
      [] method \in EqNames -> EqMatches(method, p, reply)
      [] method = "setTempoMode" -> Same({p.mode}, reply.mode)
      [] method = "setTempoMetronome" -> MetronomeMatches(p, reply)
      [] method \in GeneralNames -> GeneralMatches(method, p, reply)
      [] method \in PortNames -> PortMatches(method, p, reply)
=============================================================================
