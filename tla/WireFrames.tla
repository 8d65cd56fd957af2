----------------------------- MODULE WireFrames -----------------------------
(***************************************************************************)
(* What qc-protocol/src/commands.rs makes of a device command: the sparse  *)
(* frames it sends, in order, and the operations it refuses to encode.     *)
(*                                                                         *)
(* A frame is its message type, its action and the fields it sets, as a    *)
(* function from paths to values.  A path is a tuple that starts with a    *)
(* name; a row's splitter, mixer, input gate and output are columns 8, 9,  *)
(* 10 and 11 of it, the numbers the gateway and the decoder give them.     *)
(***************************************************************************)
EXTENDS DeviceOperations

Frame(type, action, fields) == [type |-> type, action |-> action, fields |-> fields]
Update(type, path, value) == Frame(type, "Update", Field(path, value))
Read(type) == Frame(type, "Read", <<>>)

(* A sparse Grid message: one field of the preset.                         *)
GridUpdate(path, value) == Update(1, path, value)
IoUpdate(path, value) == Update(3, path, value)

-----------------------------------------------------------------------------
(***************************************************************************)
(* Commands                                                                *)
(***************************************************************************)
Clamp(q) == IF q[1] < 0 THEN Zero ELSE IF q[1] > q[2] THEN One ELSE q

ClampTempo(bpm) ==
    IF bpm < MinimumTempo THEN MinimumTempo
    ELSE IF bpm > MaximumTempo THEN MaximumTempo ELSE bpm
SetTempo(bpm) == GridUpdate(<<"tempo", 0>>, Share(<<ClampTempo(bpm), 1>>, MinimumTempo, MaximumTempo))

SetMasterVolume(q) == Update(17, <<"volume">>, Clamp(q))
SelectScene(scene) == Update(13, <<"scene">>, scene)
SetBypass(c) == GridUpdate(<<"bypass", c.row, c.column>>, c.value)

(* A parameter's value is a number or a text.                              *)
Float(q) == <<"float", q>>
Text(t) == <<"text", t>>
ParameterUpdate(row, column, index, value) == GridUpdate(<<"param", row, column, index>>, value)

EncodeCommand(c) ==
    CASE c.op = "SelectScene" -> <<SelectScene(c.value)>>
      [] c.op = "SetBypass" -> <<SetBypass(c)>>
      [] c.op = "SetParameterNumeric" ->
           <<ParameterUpdate(c.row, c.column, c.parameterIndex, Float(c.value))>>
      [] c.op = "SetParameterText" ->
           <<ParameterUpdate(c.row, c.column, c.parameterIndex, Text(c.value))>>
      [] c.op = "SetTempo" -> <<SetTempo(c.value)>>
      [] c.op = "SetMasterVolume" -> <<SetMasterVolume(c.value)>>

-----------------------------------------------------------------------------
(***************************************************************************)
(* Device-wide settings                                                    *)
(***************************************************************************)
SetTuner(o) == <<Update(6, <<"tuner", o.setting>>, o.value)>>

GeneralFrames(o) ==
    CASE o.op \in {"SetGeneralInteger", "SetGeneralToggle"} ->
           <<Update(9, <<"general", o.setting>>, o.value)>>
      [] o.op = "SetSceneBypassBehavior" ->
           <<Update(9, <<"general", "sceneBlockBypass">>, o.value)>>
      [] o.op = "SetMasterVolumeAssignment" ->
           <<Update(9, <<"general", "masterVolumeAssignment">>, o.value)>>
      [] o.op = "SetGlobalBypass" ->
           <<Frame(9, "Update",
                   Field(<<"general", "cab">>, o.cab) ++ Field(<<"general", "ir">>, o.ir))>>

(* One message for every field a port call sets, in the order of fields.   *)
PortMessages(o, port, fields) ==
    FlattenSeq([i \in DOMAIN fields |->
                  SetToSeq({IoUpdate(Append(port, fields[i]), v) : v \in o[fields[i]]})])

PortFrames(o) ==
    CASE o.op = "SetInputPort" ->
           PortMessages(o, <<"in", o.port>>, <<"level", "impedance", "inputType", "groundLift">>)
      [] o.op = "SetOutputPort" ->
           PortMessages(o, <<"out", o.port>>, <<"level", "groundLift", "mute">>)
      [] o.op = "SetUsbPort" ->
           PortMessages(o, <<"usb">>, <<"level", "headphonesSource", "dryWet">>)
      [] o.op = "SetMidiThru" -> <<IoUpdate(<<"midiThru">>, Switched(o.value))>>
      [] o.op = "SetOutputPairing" ->
           <<Frame(3, "Update",
                   [path \in {<<"linked", f>> : f \in {g \in PairingFields : o[g] # {}}} |->
                      CHOOSE v \in o[path[2]] : TRUE])>>

EqFrames(o) ==
    CASE o.op = "SetGlobalEqBypassed" -> <<Update(38, <<"eqBypassed">>, o.value)>>
      [] o.op = "SetGlobalEqParameters" ->
           <<Frame(38, "Update",
                   [path \in {<<"eq", c[1]>> : c \in o.controls} |->
                      (CHOOSE c \in o.controls : c[1] = path[2])[2]])>>
      [] o.op = "SetModeCycle" -> <<Update(14, <<"modeCycle">>, o.value)>>

SetTempoParameters(o) ==
    [i \in DOMAIN o.values |-> GridUpdate(<<"tempo", o.values[i][1]>>, Clamp(o.values[i][2]))]
SetTempoMode(o) == <<Update(33, <<"globalTempo", 1>>, Switched(o.value))>>

-----------------------------------------------------------------------------
(***************************************************************************)
(* The library                                                             *)
(***************************************************************************)
CreateOrDelete(create) == IF create THEN "Create" ELSE "Delete"

FavoriteFrames(o) ==
    CASE o.op = "SetFavorite" ->
           <<Frame(20, CreateOrDelete(o.favorite), Field(<<"favorite", o.name>>, TRUE))>>
      [] o.op = "SetModelPinned" ->
           <<Frame(54, CreateOrDelete(o.pinned), Field(<<"pin", o.modelId>>, TRUE))>>

FileFrames(o) ==
    CASE o.op = "CreateSetlist" -> <<Frame(4, "Create", Field(<<"setlist", o.name>>, TRUE))>>
      [] o.op = "DeleteSetlist" -> <<Frame(4, "Delete", Field(<<"setlist", o.name>>, TRUE))>>
      [] o.op = "DeletePreset" ->
           <<Frame(4, "Delete", Field(<<"preset", o.setlistKey, o.name>>, {}))>>
      [] o.op = "MovePreset" ->
           <<Frame(4, "Move", Field(<<"preset", o.setlistKey, o.name>>, {o.position}))>>

SavePreset(o) == <<Frame(4, "Create", Field(<<"preset", o.setlistKey, o.name>>, {o.position}))>>

-----------------------------------------------------------------------------
(***************************************************************************)
(* The grid and the scenes                                                 *)
(***************************************************************************)
NoModel == 0
SetBlock(o) == <<GridUpdate(<<"block", o.row, o.column>>, o.modelId)>>
RemoveBlock(o) == <<Frame(1, "Delete", Field(<<"block", o.row, o.column>>, NoModel))>>
MoveBlock(o) ==
    <<Frame(12, "Update", Field(<<"block", o.fromRow, o.fromColumn>>, <<o.toRow, o.toColumn>>))>>

(* The old assignment is deleted before the new one is made.               *)
SetFootswitch(o) ==
    LET path == <<"footswitch", o.row, o.column>>
    IN  <<Frame(1, "Delete", Field(path, {}))>>
          \o (IF o.footswitch = {} THEN <<>> ELSE <<GridUpdate(path, o.footswitch)>>)

(* A split at -1 is none, and a mix at -1 one that never joins again.      *)
SetChainSplit(o) ==
    LET Or(s) == IF s = {} THEN -1 ELSE CHOOSE v \in s : TRUE
    IN  <<GridUpdate(<<"split", o.row>>,
                     IF o.splitColumn = {} THEN <<-1, -1>>
                     ELSE <<Or(o.splitColumn), Or(o.mixColumn)>>)>>

ChainFrames(o) ==
    CASE o.op = "SetChainInput" -> <<GridUpdate(<<"input", o.row>>, o.value)>>
      [] o.op = "SetChainOutput" -> <<GridUpdate(<<"output", o.row>>, o.value)>>
      [] o.op = "SetChainSplit" -> SetChainSplit(o)
      [] o.op = "SetSplitMute" -> <<GridUpdate(<<"splitBypass", o.row>>, o.value)>>

ColumnOf == [splitter |-> GridColumns, mixer |-> GridColumns + 1,
             inputGate |-> GridColumns + 2, laneOutput |-> GridColumns + 3]
SetRoutingParameter(o) ==
    <<ParameterUpdate(o.row, ColumnOf[o.node], o.parameterIndex, Float(o.value))>>

(* A capture or an impulse response: the block first, when the call brings *)
(* one, then the file's place and name as text parameters of it.           *)
LoadFile(o, texts) ==
    SetToSeq({GridUpdate(<<"block", o.row, o.column>>, m) : m \in o.modelId})
      \o [i \in DOMAIN texts |-> ParameterUpdate(o.row, o.column, texts[i][1], texts[i][2])]
LoadFrames(o) ==
    CASE o.op = "LoadCapture" -> LoadFile(o, <<<<5, <<"text", o.key, o.name>>>>>>)
      [] o.op = "LoadIr" ->
           LET index == IF o.slot = 0 THEN <<2, 22>> ELSE <<10, 23>>
           IN  LoadFile(o, <<<<index[1], Text(o.key)>>, <<index[2], Text(o.name)>>>>)

SetLaneControlParameter(o) ==
    <<ParameterUpdate(o.row, ColumnOf[o.control], o.parameterIndex, Float(o.value))>>
SetLaneControlSceneMode(o) ==
    <<GridUpdate(<<"sceneMode", o.row, ColumnOf[o.control], o.parameterIndex>>, o.value)>>

(* The flag, or the pedal and its range, travels alone.                    *)
AssignmentFrames(o) ==
    CASE o.op = "SetParameterSceneMode" ->
           <<GridUpdate(<<"sceneMode", o.row, o.column, o.parameterIndex>>, o.value)>>
      [] o.op = "SetParameterExpression" ->
           <<GridUpdate(<<"expression", o.row, o.column, o.parameterIndex>>,
                        <<o.pedal, o.minimum, o.maximum>>)>>

SetStompMomentary(o) == <<GridUpdate(<<"momentary", o.footswitch>>, o.value)>>
SetStompLabel(o) ==
    <<GridUpdate(<<IF o.single THEN "singleStompLabel" ELSE "stompLabel", o.footswitch>>,
                 o.value)>>

MidiOutFrames(o) ==
    CASE o.op = "SetMidiOut" -> <<Update(8, <<"midiOut", o.source>>, o.messages)>>
      [] o.op = "SetPresetLoadMidiOut" -> <<Update(8, <<"presetLoadMidi">>, o.messages)>>

SetExpressionBypass(o) ==
    <<GridUpdate(<<"bypassExpression", o.row, o.column>>,
                 [f \in {"pedal", "mode", "invert", "delayMs", "latchEmulation"} |-> o[f]])>>

(* The device shows a scene without a label as one whose label is a space. *)
SceneFrames(o) ==
    CASE o.op = "CopyScene" -> <<Update(22, <<"copyScene">>, <<o.from, o.to, o.swap>>)>>
      [] o.op = "SetSceneLabel" ->
           <<Update(23, <<"label", o.scene>>,
                    IF o.value = {} THEN Blank ELSE CHOOSE v \in o.value : TRUE)>>
      [] o.op = "SetSceneColor" -> <<Update(48, <<"color", o.scene>>, o.value)>>

-----------------------------------------------------------------------------
(***************************************************************************)
(* What cannot be encoded, and the frames of what can                      *)
(***************************************************************************)
MaxI32 == 2147483647

(* The fields the wire carries as signed numbers and the names it picks a  *)
(* field by.                                                               *)
Encodable(o) ==
    /\ o.op = "SetGeneralInteger" => o.setting \in DOMAIN GeneralIntegers
    /\ o.op = "SetGeneralToggle" => o.setting \in GeneralToggles
    /\ o.op = "SetRoutingParameter" => o.node \in RoutingNodes
    /\ o.op \in {"SetLaneControlParameter", "SetLaneControlSceneMode"} => o.control \in LaneControls
    /\ o.op \in {"SetParameterSceneMode", "SetParameterExpression"} => o.column <= GridColumns + 1
    /\ o.op \in {"MovePreset", "SavePreset"} => o.position <= MaxI32
    /\ o.op = "CopyScene" => o.from <= MaxI32 /\ o.to <= MaxI32
    /\ o.op \in {"SetSceneLabel", "SetSceneColor"} => o.scene <= MaxI32
    /\ o.op \in {"SetParameterExpression", "SetExpressionBypass"} => o.pedal <= MaxI32

Commands == {"SelectScene", "SetBypass", "SetParameterNumeric", "SetParameterText",
             "SetTempo", "SetMasterVolume"}

EncodeOperation(o) ==
    CASE o.op = "SetTuner" -> SetTuner(o)
      [] o.op \in {"SetGeneralInteger", "SetGeneralToggle", "SetSceneBypassBehavior",
                   "SetMasterVolumeAssignment", "SetGlobalBypass"} -> GeneralFrames(o)
      [] o.op \in {"SetInputPort", "SetOutputPort", "SetUsbPort", "SetMidiThru",
                   "SetOutputPairing"} -> PortFrames(o)
      [] o.op \in {"SetGlobalEqBypassed", "SetGlobalEqParameters", "SetModeCycle"} -> EqFrames(o)
      [] o.op = "SetTempoParameters" -> SetTempoParameters(o)
      [] o.op = "SetTempoMode" -> SetTempoMode(o)
      [] o.op \in {"SetFavorite", "SetModelPinned"} -> FavoriteFrames(o)
      [] o.op \in {"CreateSetlist", "DeleteSetlist", "DeletePreset", "MovePreset"} -> FileFrames(o)
      [] o.op = "SavePreset" -> SavePreset(o)
      [] o.op = "AddBlock" -> SetBlock(o)
      [] o.op \in {"LoadCapture", "LoadIr"} -> LoadFrames(o)
      [] o.op = "RemoveBlock" -> RemoveBlock(o)
      [] o.op = "MoveBlock" -> MoveBlock(o)
      [] o.op = "SetFootswitch" -> SetFootswitch(o)
      [] o.op \in {"SetChainInput", "SetChainOutput", "SetChainSplit", "SetSplitMute"} ->
           ChainFrames(o)
      [] o.op = "SetRoutingParameter" -> SetRoutingParameter(o)
      [] o.op = "SetLaneControlParameter" -> SetLaneControlParameter(o)
      [] o.op = "SetLaneControlSceneMode" -> SetLaneControlSceneMode(o)
      [] o.op \in {"SetParameterSceneMode", "SetParameterExpression"} -> AssignmentFrames(o)
      [] o.op = "SetStompMomentary" -> SetStompMomentary(o)
      [] o.op = "SetStompLabel" -> SetStompLabel(o)
      [] o.op \in {"SetMidiOut", "SetPresetLoadMidiOut"} -> MidiOutFrames(o)
      [] o.op = "SetExpressionBypass" -> SetExpressionBypass(o)
      [] o.op \in {"CopyScene", "SetSceneLabel", "SetSceneColor"} -> SceneFrames(o)
      [] o.op = "SetDeviceName" -> <<Update(10, <<"name">>, o.value)>>

(* A control change goes out over MIDI and makes no frame.                 *)
Encode(o) ==
    CASE o.op = "Midi" -> <<>>
      [] o.op \in Commands -> EncodeCommand(o)
      [] OTHER -> EncodeOperation(o)
=============================================================================
