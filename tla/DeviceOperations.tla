-------------------------- MODULE DeviceOperations --------------------------
(***************************************************************************)
(* The named device operations of qc-device-runtime/src/request.rs: which  *)
(* parameters each accepts and the DeviceOperation it makes of them        *)
(* (operation and the validators before it), and the MIDI messages of the  *)
(* performance controls (plan_host_midi).                                  *)
(*                                                                         *)
(* Parameters are records.  An optional field holds a set of at most one   *)
(* value, and absent and null are the empty set.  A number that is not a   *)
(* whole one is a fraction <<n, d>> with d > 0.  A text is one of a few    *)
(* that the validators tell apart.  An operation is a set too: {op} when   *)
(* the parameters are accepted and {} when they are refused.               *)
(***************************************************************************)
EXTENDS Integers, SequencesExt

(* The limits of qc-protocol/src/domain.rs.                                *)
GridRows == 4
GridColumns == 8
SceneCount == 8
MinimumTempo == 40
MaximumTempo == 240

Switches == 0 .. SceneCount - 1

(* A function of one argument, and two functions as one, where the first   *)
(* goes before the second: :> and @@ of TLC, defined.                      *)
Field(path, value) == [x \in {path} |-> value]
f ++ g == [x \in DOMAIN f \cup DOMAIN g |-> IF x \in DOMAIN f THEN f[x] ELSE g[x]]

-----------------------------------------------------------------------------
(***************************************************************************)
(* Reading parameters                                                      *)
(***************************************************************************)
Accept(valid, op) == IF valid THEN {op} ELSE {}

Given(p, f, allowed) == f \in DOMAIN p /\ p[f] \in allowed
Opt(p, f) == IF f \in DOMAIN p THEN p[f] ELSE {}

BoundedU32(p, f, maximum) == Given(p, f, 0 .. maximum)
Natural(p, f) == Given(p, f, Nat)
Flag(p, f) == Given(p, f, BOOLEAN)

Within(q, low, high) == low * q[2] <= q[1] /\ q[1] <= high * q[2]
Normalized(p, f) == f \in DOMAIN p /\ Within(p[f], 0, 1)
OptNormalized(p, f) == \A q \in Opt(p, f) : Within(q, 0, 1)

(* A value of low .. high as the device's number from zero through one.    *)
Share(q, low, high) == <<q[1] - low * q[2], (high - low) * q[2]>>

Zero == <<0, 1>>
One == <<1, 1>>
Switched(on) == IF on THEN One ELSE Zero

(* Texts: one that is empty, too long or has control characters, one of    *)
(* white space only, one that is no name of a file.                        *)
Unfit == ""
Blank == " "
Slashed == "a/b"
UserSetlists == {"/media/p4/Presets/Live"}
SetlistKeys == UserSetlists \cup {"/opt/neuraldsp/Factory"}

VisibleText(p, f) == f \in DOMAIN p /\ p[f] # Unfit
PathComponent(p, f, reserved) == VisibleText(p, f) /\ p[f] \notin {Blank, Slashed} \cup reserved
LibraryKey(p, f) == VisibleText(p, f) /\ p[f] # Blank
SetlistKey(p, f) == LibraryKey(p, f) /\ p[f] \in SetlistKeys
WritableSetlistKey(p, f) == SetlistKey(p, f) /\ p[f] \in UserSetlists

MidiFields == [type |-> 1 .. 3, channel |-> 1 .. 16, param1 |-> 0 .. 127,
               param2 |-> 0 .. 127, param3 |-> 0 .. 127]
MidiMessages(p) ==
    /\ "messages" \in DOMAIN p
    /\ Len(p.messages) <= 12
    /\ \A i \in DOMAIN p.messages :
          \A f \in DOMAIN MidiFields : p.messages[i][f] \in MidiFields[f]

(* The position of a label among the labels of a control, as a share.      *)
Choice(labels, label) ==
    <<(CHOOSE i \in DOMAIN labels : labels[i] = label) - 1, Len(labels) - 1>>
ChoiceOf(p, f, labels) == \A v \in Opt(p, f) : \E i \in DOMAIN labels : labels[i] = v

-----------------------------------------------------------------------------
(***************************************************************************)
(* Device-wide settings                                                    *)
(***************************************************************************)
TunerInputs == {1, 2, 3, 4, 5, 8, 9}

TunerOperation(name, p) ==
    CASE name = "setTunerInput" ->
           Accept(/\ Given(p, "confirmTunerActivation", {TRUE})
                  /\ Given(p, "inputPortId", TunerInputs),
                  [op |-> "SetTuner", setting |-> "inputPortId", value |-> p.inputPortId])
      [] name = "setTunerMute" ->
           Accept(Given(p, "confirmTunerActivation", {TRUE}) /\ Flag(p, "muted"),
                  [op |-> "SetTuner", setting |-> "muted", value |-> p.muted])
      [] name = "restoreTunerAudio" ->
           Accept(Given(p, "confirmPreferenceReset", {TRUE}),
                  [op |-> "SetTuner", setting |-> "muted", value |-> FALSE])
      [] name = "setTunerReference" ->
           Accept(Given(p, "confirmTunerActivation", {TRUE}) /\ "referenceOffsetHz" \in DOMAIN p,
                  [op |-> "SetTuner", setting |-> "referenceOffsetHz",
                   value |-> p.referenceOffsetHz])

GeneralIntegers == [screenBrightness |-> 0 .. 100, ledBrightness |-> 0 .. 100,
                    dimmedLedBrightness |-> 0 .. 100, holdTiming |-> 0 .. 5,
                    midiChannel |-> 0 .. 16]
GeneralToggles == {"midiOverUsb", "ignoreDuplicatePc", "stompModeAutoAssign",
                   "swapTempoTunerAccess", "disableInternetConnectionCheck",
                   "dynamicDelayCompensation", "presetDimmed", "midiClockIn",
                   "gigViewStompAccess"}
Behaviors == <<"alwaysOverwrite", "nonstompOverwrite", "neverOverwrite">>
VolumeOutputs == {"out12", "out34", "send12", "headphones"}

GeneralOperation(name, p) ==
    CASE name = "setGeneralInteger" ->
           Accept(/\ Given(p, "setting", DOMAIN GeneralIntegers)
                  /\ Given(p, "value", GeneralIntegers[p.setting]),
                  [op |-> "SetGeneralInteger", setting |-> p.setting, value |-> p.value])
      [] name = "setGeneralToggle" ->
           Accept(Given(p, "setting", GeneralToggles) /\ Flag(p, "enabled"),
                  [op |-> "SetGeneralToggle", setting |-> p.setting, value |-> p.enabled])
      [] name = "setSceneBypassBehavior" ->
           Accept(Given(p, "behavior", {Behaviors[i] : i \in DOMAIN Behaviors}),
                  [op |-> "SetSceneBypassBehavior",
                   value |-> Choice(Behaviors, p.behavior)[1]])
      [] name = "setMasterVolumeAssignment" ->
           Accept(\A f \in VolumeOutputs : Flag(p, f),
                  [op |-> "SetMasterVolumeAssignment", value |-> [f \in VolumeOutputs |-> p[f]]])
      [] name = "setGlobalBypass" ->
           Accept(\A f \in {"cab", "ir"} : Given(p, f, [1 .. GridRows -> BOOLEAN]),
                  [op |-> "SetGlobalBypass", cab |-> p.cab, ir |-> p.ir])

(* Fields a port call may set, of which it must set one.                   *)
InputFields == {"levelDb", "impedance", "inputType", "groundLift"}
OutputFields == {"level", "groundLift", "mute"}
UsbFields == {"level", "headphonesSource", "dryWet"}
PairingFields == {"xlr12Linked", "out34Linked"}
SetsOne(p, fields) == \E f \in fields : Opt(p, f) # {}

PortOperation(name, p) ==
    CASE name = "setInputPort" ->
           Accept(/\ BoundedU32(p, "inputPortId", 14) /\ p.inputPortId # 0
                  /\ \A q \in Opt(p, "levelDb") : Within(q, -12, 60)
                  /\ \A f \in InputFields \ {"levelDb"} : OptNormalized(p, f)
                  /\ SetsOne(p, InputFields),
                  [op |-> "SetInputPort", port |-> p.inputPortId,
                   level |-> {Share(q, -12, 60) : q \in Opt(p, "levelDb")},
                   impedance |-> Opt(p, "impedance"), inputType |-> Opt(p, "inputType"),
                   groundLift |-> Opt(p, "groundLift")])
      [] name = "setOutputPort" ->
           Accept(/\ BoundedU32(p, "outputPortId", 22) /\ p.outputPortId # 0
                  /\ OptNormalized(p, "level") /\ OptNormalized(p, "groundLift")
                  /\ Opt(p, "mute") \subseteq BOOLEAN
                  /\ SetsOne(p, OutputFields),
                  [op |-> "SetOutputPort", port |-> p.outputPortId, level |-> Opt(p, "level"),
                   groundLift |-> Opt(p, "groundLift"), mute |-> Opt(p, "mute")])
      [] name = "setUsbPort" ->
           Accept((\A f \in UsbFields : OptNormalized(p, f)) /\ SetsOne(p, UsbFields),
                  [op |-> "SetUsbPort", level |-> Opt(p, "level"),
                   headphonesSource |-> Opt(p, "headphonesSource"), dryWet |-> Opt(p, "dryWet")])
      [] name = "setMidiThru" ->
           Accept(Flag(p, "enabled"), [op |-> "SetMidiThru", value |-> p.enabled])
      [] name = "setOutputPairing" ->
           Accept(/\ \A f \in PairingFields : Opt(p, f) \subseteq BOOLEAN
                  /\ SetsOne(p, PairingFields),
                  [op |-> "SetOutputPairing", xlr12Linked |-> Opt(p, "xlr12Linked"),
                   out34Linked |-> Opt(p, "out34Linked")])

(* The Global EQ's parameters: five of each band, then three of the output.*)
BandField == <<"gain", "frequency", "q">>
EqBase(band) == (band - 1) * 5
EqOutput == [level |-> 25, out12 |-> 26, out34 |-> 27]

EqControls(p, base, fields) ==
    UNION {{<<base + i - 1, q>> : q \in Opt(p, fields[i])} : i \in DOMAIN fields}
EqToggles(p, field, index) == {<<index, Switched(on)>> : on \in Opt(p, field)}

EqOperation(name, p) ==
    CASE name = "setGlobalEqBypassed" ->
           Accept(Flag(p, "bypassed"), [op |-> "SetGlobalEqBypassed", value |-> p.bypassed])
      [] name = "setGlobalEqBand" ->
           LET base == EqBase(p.band)
               controls == EqControls(p, base, BandField)
                             \cup {<<base + 3, <<t, 4>>>> : t \in Opt(p, "filterType")}
                             \cup EqToggles(p, "enabled", base + 4)
           IN  Accept(/\ BoundedU32(p, "band", 5) /\ p.band # 0
                      /\ \A i \in DOMAIN BandField : OptNormalized(p, BandField[i])
                      /\ Opt(p, "filterType") \subseteq 0 .. 4
                      /\ controls # {},
                      [op |-> "SetGlobalEqParameters", controls |-> controls])
      [] name = "setGlobalEqOutput" ->
           LET controls == {<<EqOutput.level, q>> : q \in Opt(p, "level")}
                             \cup EqToggles(p, "out12", EqOutput.out12)
                             \cup EqToggles(p, "out34", EqOutput.out34)
           IN  Accept(OptNormalized(p, "level") /\ controls # {},
                      [op |-> "SetGlobalEqParameters", controls |-> controls])

ModeCycleOperation(p) ==
    Accept(/\ Len(p.slots) \in 1 .. 3
           /\ \A i \in DOMAIN p.slots : p.slots[i] \in 0 .. 8
           /\ \A i, j \in DOMAIN p.slots : p.slots[i] = p.slots[j] => i = j,
           [op |-> "SetModeCycle", value |-> p.slots])

-----------------------------------------------------------------------------
(***************************************************************************)
(* The metronome of the Tempo menu                                         *)
(***************************************************************************)
Signatures == <<"2/4", "3/4", "4/4", "5/4", "6/4", "7/4", "8/4", "9/4", "10/4", "11/4",
                "12/4", "13/4", "3/8", "6/8", "9/8", "12/8", "5/8 (3+2)", "5/8 (2+3)",
                "7/8 (3+2+2)", "7/8 (2+3+2)", "7/8 (2+2+3)">>
Subdivisions == <<"1/4", "1/8", "1/8T", "1/16">>
Sounds == <<"BLIP", "BLOCK", "COWBELL", "DIGITAL", "DRUM KIT", "SOFT KIT">>
Routings == <<"MULTI", "HP", "OUT 1/2", "OUT 3/4", "SEND 1/2">>
Beats == <<"OFF", "MUTE", "DOWN", "ON">>

TempoIndex == [ledEnabled |-> 2, volumeDb |-> 3, running |-> 4, pan |-> 5, timeSignature |-> 6,
               subdivision |-> 7, sound |-> 8, routing |-> 9, beats |-> 10]
TempoLabels == [timeSignature |-> Signatures, subdivision |-> Subdivisions,
                sound |-> Sounds, routing |-> Routings]
MaxBeats == 13

(* The accents of the beats are sent last, because the device rewrites     *)
(* them when the time signature changes.                                   *)
TempoControls(p) ==
    LET Each(f, Value(_)) == SetToSeq({<<TempoIndex[f], Value(v)>> : v \in Opt(p, f)})
        Label(f) == LET Value(v) == Choice(TempoLabels[f], v) IN Each(f, Value)
        Decibels(q) == Share(q, -60, 9)
        Balance(q) == Share(q, -1, 1)
    IN  Label("timeSignature") \o Each("ledEnabled", Switched) \o Each("volumeDb", Decibels)
          \o Each("running", Switched) \o Each("pan", Balance)
          \o Label("subdivision") \o Label("sound") \o Label("routing")
TempoBeats(p) ==
    LET beats == IF Opt(p, "beats") = {} THEN <<>> ELSE CHOOSE b \in p.beats : TRUE
    IN  [i \in DOMAIN beats |-> <<TempoIndex.beats + i - 1, Choice(Beats, beats[i])>>]
(* A mistake: the accents are sent first.                                  *)
TempoValuesBeatsFirst(p) == TempoBeats(p) \o TempoControls(p)
TempoValues(p) == TempoControls(p) \o TempoBeats(p)

MetronomeOperation(p) ==
    Accept(/\ \A f \in DOMAIN TempoLabels : ChoiceOf(p, f, TempoLabels[f])
           /\ \A q \in Opt(p, "volumeDb") : Within(q, -60, 9)
           /\ \A q \in Opt(p, "pan") : Within(q, -1, 1)
           /\ \A beats \in Opt(p, "beats") :
                 /\ Len(beats) <= MaxBeats
                 /\ \A i \in DOMAIN beats : \E j \in DOMAIN Beats : Beats[j] = beats[i]
           /\ TempoValues(p) # <<>>,
           [op |-> "SetTempoParameters", values |-> TempoValues(p)])

-----------------------------------------------------------------------------
(***************************************************************************)
(* Favorites, pins and the library                                         *)
(***************************************************************************)
LibraryOperation(name, p) ==
    CASE name = "setTempoMode" ->
           Accept(Given(p, "mode", {"GLOBAL", "PRESET"}),
                  [op |-> "SetTempoMode", value |-> p.mode = "GLOBAL"])
      [] name = "setFavorite" ->
           Accept(/\ PathComponent(p, "name", {}) /\ LibraryKey(p, "folderKey")
                  /\ Flag(p, "isFactory") /\ Flag(p, "favorite"),
                  [op |-> "SetFavorite", name |-> p.name, folderKey |-> p.folderKey,
                   isFactory |-> p.isFactory, favorite |-> p.favorite])
      [] name = "setModelPinned" ->
           Accept(Natural(p, "modelId") /\ p.modelId # 0 /\ Flag(p, "pinned"),
                  [op |-> "SetModelPinned", modelId |-> p.modelId, pinned |-> p.pinned])
      [] name = "createSetlist" ->
           Accept(PathComponent(p, "name", {"My Presets"}),
                  [op |-> "CreateSetlist", name |-> p.name])
      [] name = "deleteSetlist" ->
           Accept(PathComponent(p, "name", {"My Presets"}),
                  [op |-> "DeleteSetlist", name |-> p.name])

PresetFileOperation(name, p) ==
    CASE name = "deletePreset" ->
           Accept(WritableSetlistKey(p, "setlistKey") /\ PathComponent(p, "name", {}),
                  [op |-> "DeletePreset", setlistKey |-> p.setlistKey, name |-> p.name])
      [] name = "movePreset" ->
           Accept(/\ WritableSetlistKey(p, "setlistKey") /\ PathComponent(p, "name", {})
                  /\ BoundedU32(p, "position", 255),
                  [op |-> "MovePreset", setlistKey |-> p.setlistKey, name |-> p.name,
                   position |-> p.position])

SavePresetOperation(p) ==
    Accept(/\ SetlistKey(p, "setlistKey") /\ PathComponent(p, "name", {})
           /\ BoundedU32(p, "position", 255),
           [op |-> "SavePreset", setlistKey |-> p.setlistKey, name |-> p.name,
            position |-> p.position])

-----------------------------------------------------------------------------
(***************************************************************************)
(* The grid: blocks, chains and their controls                             *)
(***************************************************************************)
Row(p) == BoundedU32(p, "row", GridRows - 1)
Column(p, f) == BoundedU32(p, f, GridColumns - 1)
EvenRow(p) == Row(p) /\ p.row % 2 = 0
At(p, op) == [op |-> op, row |-> p.row, column |-> p.column]

FileBlockOperation(name, p) ==
    CASE name = "loadCapture" ->
           Accept(/\ Row(p) /\ Column(p, "column") /\ LibraryKey(p, "key")
                  /\ VisibleText(p, "name") /\ \A m \in Opt(p, "modelId") : m > 0,
                  At(p, "LoadCapture") ++ [key |-> p.key, name |-> p.name, modelId |-> Opt(p, "modelId")])
      [] name = "loadIr" ->
           Accept(/\ Row(p) /\ Column(p, "column") /\ LibraryKey(p, "key")
                  /\ VisibleText(p, "name") /\ BoundedU32(p, "slot", 1)
                  /\ \A m \in Opt(p, "modelId") : m > 0,
                  At(p, "LoadIr") ++ [key |-> p.key, name |-> p.name, slot |-> p.slot,
                                      modelId |-> Opt(p, "modelId")])

BlockOperation(name, p) ==
    CASE name = "addBlock" ->
           Accept(Row(p) /\ Column(p, "column") /\ Natural(p, "modelId") /\ p.modelId > 0,
                  At(p, "AddBlock") ++ [modelId |-> p.modelId])
      [] name = "removeBlock" ->
           Accept(Row(p) /\ Column(p, "column"), At(p, "RemoveBlock"))
      [] name = "moveBlock" ->
           Accept(/\ Row(p) /\ Column(p, "fromColumn")
                  /\ BoundedU32(p, "toRow", GridRows - 1) /\ Column(p, "toColumn"),
                  [op |-> "MoveBlock", fromRow |-> p.row, fromColumn |-> p.fromColumn,
                   toRow |-> p.toRow, toColumn |-> p.toColumn])
      [] name = "setFootswitch" ->
           Accept(Row(p) /\ Column(p, "column") /\ Opt(p, "footswitch") \subseteq Switches,
                  At(p, "SetFootswitch") ++ [footswitch |-> Opt(p, "footswitch")])

(* Where a chain divides and where it joins again, -1 for not at all.      *)
SplitColumns(split, mix) ==
    IF split = {} THEN mix = {}
    ELSE \A s \in split : /\ s \in 0 .. GridColumns - 1
                          /\ mix # {}
                          /\ \A m \in mix : m = -1 \/ m \in s + 1 .. GridColumns - 1

ChainOperation(name, p) ==
    CASE name = "setChainInput" ->
           Accept(Row(p) /\ Natural(p, "inputId"),
                  [op |-> "SetChainInput", row |-> p.row, value |-> p.inputId])
      [] name = "setChainOutput" ->
           Accept(Row(p) /\ Natural(p, "outputId"),
                  [op |-> "SetChainOutput", row |-> p.row, value |-> p.outputId])
      [] name = "setChainSplit" ->
           Accept(EvenRow(p) /\ SplitColumns(Opt(p, "splitColumn"), Opt(p, "mixColumn")),
                  [op |-> "SetChainSplit", row |-> p.row, splitColumn |-> Opt(p, "splitColumn"),
                   mixColumn |-> Opt(p, "mixColumn")])
      [] name = "setSplitMute" ->
           Accept(EvenRow(p) /\ Flag(p, "muted"),
                  [op |-> "SetSplitMute", row |-> p.row, value |-> p.muted])

RoutingNodes == {"splitter", "mixer"}
LaneControls == {"inputGate", "laneOutput"}

(* Columns 8 and 9 of an even row are its splitter and its mixer.          *)
NodeColumn(p) ==
    /\ BoundedU32(p, "column", GridColumns + 1) /\ Row(p)
    /\ p.column >= GridColumns => EvenRow(p)

ControlOperation(name, p) ==
    CASE name = "setRoutingParameter" ->
           Accept(/\ Given(p, "node", RoutingNodes) /\ Row(p) /\ Natural(p, "parameterIndex")
                  /\ Normalized(p, "value"),
                  [op |-> "SetRoutingParameter", row |-> p.row, node |-> p.node,
                   parameterIndex |-> p.parameterIndex, value |-> p.value])
      [] name = "setLaneControlParameter" ->
           Accept(/\ Given(p, "control", LaneControls) /\ Row(p) /\ Natural(p, "parameterIndex")
                  /\ Normalized(p, "value"),
                  [op |-> "SetLaneControlParameter", row |-> p.row, control |-> p.control,
                   parameterIndex |-> p.parameterIndex, value |-> p.value])
      [] name = "setLaneControlSceneMode" ->
           Accept(/\ Given(p, "control", LaneControls) /\ Row(p) /\ Natural(p, "parameterIndex")
                  /\ Flag(p, "enabled"),
                  [op |-> "SetLaneControlSceneMode", row |-> p.row, control |-> p.control,
                   parameterIndex |-> p.parameterIndex, value |-> p.enabled])
      [] name = "setParameterSceneMode" ->
           Accept(NodeColumn(p) /\ Natural(p, "parameterIndex") /\ Flag(p, "enabled"),
                  At(p, "SetParameterSceneMode")
                    ++ [parameterIndex |-> p.parameterIndex, value |-> p.enabled])
      [] name = "setParameterExpression" ->
           Accept(/\ NodeColumn(p) /\ Natural(p, "parameterIndex") /\ BoundedU32(p, "pedal", 2)
                  /\ Normalized(p, "minimum") /\ Normalized(p, "maximum"),
                  At(p, "SetParameterExpression")
                    ++ [parameterIndex |-> p.parameterIndex, pedal |-> p.pedal,
                        minimum |-> p.minimum, maximum |-> p.maximum])

-----------------------------------------------------------------------------
(***************************************************************************)
(* Footswitches, MIDI out, pedals and scenes                               *)
(***************************************************************************)
SwitchOperation(name, p) ==
    CASE name = "setStompMomentary" ->
           Accept(Given(p, "footswitch", Switches) /\ Flag(p, "momentary"),
                  [op |-> "SetStompMomentary", footswitch |-> p.footswitch,
                   value |-> p.momentary])
      [] name = "setStompLabel" ->
           Accept(Given(p, "footswitch", Switches) /\ VisibleText(p, "label"),
                  [op |-> "SetStompLabel", footswitch |-> p.footswitch, value |-> p.label,
                   single |-> Opt(p, "single") = {TRUE}])
      [] name = "setMidiOut" ->
           Accept(BoundedU32(p, "source", 9) /\ MidiMessages(p),
                  [op |-> "SetMidiOut", source |-> p.source, messages |-> p.messages])
      [] name = "setPresetLoadMidiOut" ->
           Accept(MidiMessages(p), [op |-> "SetPresetLoadMidiOut", messages |-> p.messages])
      [] name = "setExpressionBypass" ->
           Accept(/\ Row(p) /\ Column(p, "column") /\ Given(p, "pedal", 1 .. 2)
                  /\ BoundedU32(p, "mode", 2) /\ Flag(p, "invert")
                  /\ BoundedU32(p, "delayMs", 5000) /\ Flag(p, "latchEmulation"),
                  At(p, "SetExpressionBypass")
                    ++ [pedal |-> p.pedal, mode |-> p.mode, invert |-> p.invert,
                        delayMs |-> p.delayMs, latchEmulation |-> p.latchEmulation])

SceneOperation(name, p) ==
    CASE name = "copyScene" ->
           Accept(Given(p, "fromScene", Switches) /\ Given(p, "toScene", Switches),
                  [op |-> "CopyScene", from |-> p.fromScene, to |-> p.toScene,
                   swap |-> Opt(p, "swap") = {TRUE}])
      [] name = "setSceneLabel" ->
           Accept(Given(p, "scene", Switches) /\ Unfit \notin Opt(p, "label"),
                  [op |-> "SetSceneLabel", scene |-> p.scene, value |-> Opt(p, "label")])
      [] name = "setSceneColor" ->
           Accept(Given(p, "scene", Switches) /\ Natural(p, "color"),
                  [op |-> "SetSceneColor", scene |-> p.scene, value |-> p.color])

-----------------------------------------------------------------------------
(***************************************************************************)
(* Every operation a caller may name                                       *)
(***************************************************************************)
TunerNames == {"setTunerInput", "setTunerMute", "restoreTunerAudio", "setTunerReference"}
GeneralNames == {"setGeneralInteger", "setGeneralToggle", "setSceneBypassBehavior",
                 "setMasterVolumeAssignment", "setGlobalBypass"}
PortNames == {"setInputPort", "setOutputPort", "setUsbPort", "setMidiThru", "setOutputPairing"}
EqNames == {"setGlobalEqBypassed", "setGlobalEqBand", "setGlobalEqOutput"}
LibraryNames == {"setTempoMode", "setFavorite", "setModelPinned", "createSetlist",
                 "deleteSetlist"}
PresetFileNames == {"deletePreset", "movePreset"}
FileBlockNames == {"loadCapture", "loadIr"}
BlockNames == {"addBlock", "removeBlock", "moveBlock", "setFootswitch"}
ChainNames == {"setChainInput", "setChainOutput", "setChainSplit", "setSplitMute"}
ControlNames == {"setRoutingParameter", "setLaneControlParameter", "setLaneControlSceneMode",
                 "setParameterSceneMode", "setParameterExpression"}
SwitchNames == {"setStompMomentary", "setStompLabel", "setMidiOut", "setPresetLoadMidiOut",
                "setExpressionBypass"}
SceneNames == {"copyScene", "setSceneLabel", "setSceneColor"}

Operation(name, p) ==
    CASE name \in TunerNames -> TunerOperation(name, p)
      [] name \in GeneralNames -> GeneralOperation(name, p)
      [] name \in PortNames -> PortOperation(name, p)
      [] name \in EqNames -> EqOperation(name, p)
      [] name = "setModeCycle" -> ModeCycleOperation(p)
      [] name = "setTempoMetronome" -> MetronomeOperation(p)
      [] name \in LibraryNames -> LibraryOperation(name, p)
      [] name \in PresetFileNames -> PresetFileOperation(name, p)
      [] name \in FileBlockNames -> FileBlockOperation(name, p)
      [] name \in BlockNames -> BlockOperation(name, p)
      [] name \in ChainNames -> ChainOperation(name, p)
      [] name \in ControlNames -> ControlOperation(name, p)
      [] name \in SwitchNames -> SwitchOperation(name, p)
      [] name \in SceneNames -> SceneOperation(name, p)
      [] name = "savePreset" -> SavePresetOperation(p)
      [] OTHER -> {}

-----------------------------------------------------------------------------
(***************************************************************************)
(* Physical controls, as control-change messages                           *)
(***************************************************************************)
HostMidiMethods == {"pressFootswitch", "tapTempo", "showTuner", "showGigView",
                    "selectModeSlot", "controlLooper"}

LooperButtons == [open |-> <<48, 0>>, close |-> <<48, 127>>, duplicate |-> <<49, 127>>,
                  oneShot |-> <<50, 127>>, halfSpeed |-> <<51, 127>>, punch |-> <<52, 127>>,
                  record |-> <<53, 127>>, play |-> <<54, 127>>, reverse |-> <<55, 127>>,
                  undoRedo |-> <<56, 127>>]
LooperSettings == [duplicateMode |-> <<57, 1>>, quantize |-> <<58, 9>>,
                   midiClockStart |-> <<59, 1>>, performMode |-> <<60, 1>>,
                   routingMode |-> <<61, 13>>]

ControlChange(controller, value) == [op |-> "Midi", controller |-> controller, value |-> value]
Shown(controller, shown) == ControlChange(controller, IF shown THEN 127 ELSE 0)

PlanHostMidi(method, p) ==
    CASE method = "pressFootswitch" ->
           Accept(Given(p, "index", Switches), ControlChange(35 + p.index, 127))
      [] method = "tapTempo" -> {ControlChange(44, 127)}
      [] method = "showTuner" -> Accept(Flag(p, "shown"), Shown(45, p.shown))
      [] method = "showGigView" -> Accept(Flag(p, "shown"), Shown(46, p.shown))
      [] method = "selectModeSlot" ->
           Accept(BoundedU32(p, "slot", 2), ControlChange(47, p.slot))
      [] method = "controlLooper" /\ p.command \in DOMAIN LooperButtons ->
           Accept(Opt(p, "value") = {},
                  ControlChange(LooperButtons[p.command][1], LooperButtons[p.command][2]))
      [] method = "controlLooper" /\ p.command \in DOMAIN LooperSettings ->
           LET setting == LooperSettings[p.command]
           IN  {ControlChange(setting[1], v) : v \in Opt(p, "value") \cap 0 .. setting[2]}
      [] OTHER -> {}
=============================================================================
