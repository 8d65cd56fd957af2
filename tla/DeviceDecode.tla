---------------------------- MODULE DeviceDecode ----------------------------
(***************************************************************************)
(* What a client makes of the device's messages: the state decoder of      *)
(* qc-protocol/src/state.rs, the snapshot it keeps for the gateway         *)
(* (qc-device-runtime/src/lib.rs) and the decoders of settings replies     *)
(* (qc-protocol/src/responses.rs).                                         *)
(*                                                                         *)
(* A message is a frame.  A preset (type 15) carries every path of the     *)
(* preset; its parameters and bypasses have a value for each scene.  The   *)
(* decoder dec keeps the last preset, the scene, and the parameter values  *)
(* pushed since; the snapshot is what the gateway's calls read.            *)
(***************************************************************************)
EXTENDS WireFrames

CONSTANTS
    Catalog,      \* [parameters of model m] |-> [hidden, options], by <<m, index>>
    Scenes        \* the scenes of the instance, from 0

(* Bindings of a frame's fields to a name and a number of arguments.       *)
PathsOf(fields, name) == {path \in DOMAIN fields : path[1] = name}

(* A share of low .. high, rounded to a whole number.                      *)
Rounded(q, low, high) == low + ((high - low) * q[1] * 2 + q[2]) \div (2 * q[2])
AtLeastHalf(q) == 2 * q[1] >= q[2]
SameShare(q, r) == q[1] * r[2] = r[1] * q[2]

-----------------------------------------------------------------------------
(***************************************************************************)
(* Parameter values                                                        *)
(***************************************************************************)
RoutingOptions == [x \in {<<8, 0>>, <<8, 1>>, <<8, 6>>, <<9, 4>>} |->
                     IF x = <<8, 0>> THEN <<"A/B", "BALANCE", "CROSSOVER">> ELSE <<"0", "1">>]
NodeModel == [c \in 8 .. 11 |-> CASE c = 8 -> 10004 [] c = 9 -> 11000
                                  [] c = 10 -> 28000 [] c = 11 -> 23000]

Specification(model, i) ==
    IF <<model, i>> \in DOMAIN Catalog THEN Catalog[<<model, i>>]
    ELSE [hidden |-> FALSE, options |-> <<>>]
OptionsOf(model, c, i) ==
    LET own == Specification(model, i).options
    IN  IF own = <<>> /\ <<c, i>> \in DOMAIN RoutingOptions THEN RoutingOptions[<<c, i>>] ELSE own

(* The scene's own value of a parameter that has one for each scene.       *)
EffectiveValue(preset, r, c, i, scene) ==
    preset[<<"param", r, c, i>>][IF preset[<<"sceneMode", r, c, i>>] THEN scene ELSE 0]

(* A number as it is; a text by its place among the options, if any.       *)
NormalizedParameter(value, options) ==
    CASE value[1] = "float" -> {value[2]}
      [] value[1] = "text" ->
           {IF Len(options) = 1 THEN Zero ELSE <<k - 1, Len(options) - 1>> :
              k \in {j \in DOMAIN options : Text(options[j]) = value}}

(* Which of the splitter's parameters its type shows.                      *)
SplitterVisible(q) ==
    LET type == (4 * q[1] + q[2]) \div (2 * q[2])
    IN  CASE type = 0 -> {0, 1, 3, 4} [] type = 1 -> {0, 1, 2} [] OTHER -> {0, 1, 5, 6}

ParameterIndices(preset, r, c) ==
    {path[4] : path \in {p \in PathsOf(preset, "param") : p[2] = r /\ p[3] = c}}

CurrentValue(dec, r, c, i, model) ==
    IF <<r, c, i>> \in DOMAIN dec.overrides THEN {dec.overrides[<<r, c, i>>]}
    ELSE NormalizedParameter(EffectiveValue(dec.preset, r, c, i, dec.scene), OptionsOf(model, c, i))

ParameterTargetDetails(dec, r, c, model) ==
    LET value(i) == CurrentValue(dec, r, c, i, model)
        all == ParameterIndices(dec.preset, r, c)
        shown == {i \in all : /\ ~Specification(model, i).hidden
                              /\ value(i) # {}
                              /\ c = 8 /\ 0 \in all =>
                                   \A q \in value(0) : i \in SplitterVisible(q)}
    IN  [i \in shown |-> [value |-> CHOOSE q \in value(i) : TRUE,
                          sceneMode |-> dec.preset[<<"sceneMode", r, c, i>>],
                          expression |-> dec.preset[<<"expression", r, c, i>>]]]

(* The cells of a row that have parameters to show: its blocks, the        *)
(* splitter and the mixer of a split that has them, and its two controls.  *)
HasTarget(preset, r, c) ==
    CASE c \in {8, 9} -> /\ <<"split", r>> \in DOMAIN preset
                         /\ preset[<<"split", r>>][1] >= 0
                         /\ c = 9 => preset[<<"split", r>>][2] >= 0
      [] c \in {10, 11} -> TRUE
      [] OTHER -> <<"block", r, c>> \in DOMAIN preset /\ preset[<<"block", r, c>>] # NoModel

(* The details of a block or a control, as a set of at most one.           *)
BlockDetails(dec, r, c) ==
    IF HasTarget(dec.preset, r, c)
    THEN {ParameterTargetDetails(dec, r, c,
             IF c \in DOMAIN NodeModel THEN NodeModel[c] ELSE dec.preset[<<"block", r, c>>])}
    ELSE {}

-----------------------------------------------------------------------------
(***************************************************************************)
(* The snapshot                                                            *)
(***************************************************************************)
DefaultSceneLabel(scene) == <<"Scene", scene>>
SceneLabel(label) == <<"Named", label>>

TempoOf(q) == Rounded(q, MinimumTempo, MaximumTempo)

(* Everything the client takes from a preset it has read.                  *)
Blocks(preset, scene) ==
    LET cells == {<<path[2], path[3]>> : path \in
                    {p \in PathsOf(preset, "block") : preset[p] # NoModel}}
        at(name, x) == preset[<<name, x[1], x[2]>>]
    IN  [x \in cells |-> [modelId |-> at("block", x), bypassed |-> at("bypass", x)[scene],
                          bypassExpression |-> at("bypassExpression", x),
                          footswitch |-> at("footswitch", x)]]

FootswitchLabel(preset, fs) ==
    IF preset[<<"singleStompLabel", fs>>] # Unfit THEN preset[<<"singleStompLabel", fs>>]
    ELSE preset[<<"stompLabel", fs>>]
FootswitchStates(preset) ==
    [fs \in {path[2] : path \in PathsOf(preset, "momentary")} |->
       [momentary |-> preset[<<"momentary", fs>>], label |-> FootswitchLabel(preset, fs)]]

Routes(preset) ==
    [r \in {path[2] : path \in PathsOf(preset, "input")} |->
       LET split == preset[<<"split", r>>]
       IN  [inputId |-> preset[<<"input", r>>], outputId |-> preset[<<"output", r>>],
            splitColumn |-> IF split[1] >= 0 THEN {split[1]} ELSE {},
            mixColumn |-> IF split[1] >= 0 THEN {split[2]} ELSE {},
            splitMuted |-> preset[<<"mixBypass", r>>]]]

PresetScenes(preset) ==
    [s \in Scenes |-> IF preset[<<"label", s>>] \in {Unfit, Blank} THEN DefaultSceneLabel(s)
                      ELSE SceneLabel(preset[<<"label", s>>])]
MidiOut(preset) ==
    [source \in {path[2] : path \in PathsOf(preset, "midiOut")} |-> preset[<<"midiOut", source>>]]

ApplyPreset(snap, preset, scene) ==
    [snap EXCEPT !.tempo = TempoOf(preset[<<"tempo", 0>>]),
                 !.ledEnabled = AtLeastHalf(preset[<<"tempo", 2>>]),
                 !.scenes = PresetScenes(preset),
                 !.sceneColors = [s \in Scenes |-> preset[<<"color", s>>]],
                 !.footswitches = FootswitchStates(preset),
                 !.midiOut = MidiOut(preset),
                 !.presetLoadMidiOut = preset[<<"presetLoadMidi">>],
                 !.blocks = Blocks(preset, scene),
                 !.routes = Routes(preset)]

-----------------------------------------------------------------------------
(***************************************************************************)
(* Pushes.  The client is [dec, snap].                                     *)
(***************************************************************************)
DecodePreset(client, fields) ==
    [dec |-> [client.dec EXCEPT !.preset = fields, !.overrides = <<>>],
     snap |-> ApplyPreset(client.snap, fields, client.dec.scene)]

(* A mistake: the snapshot does not follow.                                *)
DecodeSceneDecoderOnly(client, fields) ==
    [client EXCEPT !.dec.scene = fields[<<"scene">>]]
DecodeScene(client, fields) ==
    LET scene == fields[<<"scene">>]
    IN  [dec |-> [client.dec EXCEPT !.scene = scene], snap |-> [client.snap EXCEPT !.scene = scene]]

(* The paths of a sparse Grid message that carry a live value.             *)
TempoPush(snap, fields) ==
    [snap EXCEPT
       !.tempo = IF <<"tempo", 0>> \in DOMAIN fields THEN TempoOf(fields[<<"tempo", 0>>]) ELSE @,
       !.ledEnabled = IF <<"tempo", 2>> \in DOMAIN fields
                      THEN AtLeastHalf(fields[<<"tempo", 2>>]) ELSE @]
BypassPush(snap, fields) ==
    [snap EXCEPT !.blocks =
       [x \in DOMAIN @ |-> IF <<"bypass", x[1], x[2]>> \in DOMAIN fields
                           THEN [@[x] EXCEPT !.bypassed = fields[<<"bypass", x[1], x[2]>>]]
                           ELSE @[x]]]
Pushed(fields) ==
    {path \in PathsOf(fields, "param") : path[3] \notin {8, 9} /\ fields[path][1] = "float"}
ParameterPush(dec, fields) ==
    [dec EXCEPT !.overrides =
       [x \in {Tail(path) : path \in Pushed(fields)} |-> fields[<<"param">> \o x][2]] ++ @]

DecodeGrid(client, fields) ==
    [dec |-> ParameterPush(client.dec, fields),
     snap |-> BypassPush(TempoPush(client.snap, fields), fields)]

DecodeMode(snap, fields) == [snap EXCEPT !.modeSlots = fields[<<"modeCycle">>]]
DecodeMasterVolume(snap, fields) == [snap EXCEPT !.masterVolume = Rounded(fields[<<"volume">>], 0, 100)]

(* The GlobalTempo block's tempo is taken for the tempo, whichever of the  *)
(* two the device plays.                                                   *)
DecodeGlobalTempo(snap, fields) ==
    TempoPush(snap, [path \in {<<"tempo", p[2]>> : p \in PathsOf(fields, "globalTempo")} |->
                       fields[<<"globalTempo", path[2]>>]])

(* A pushed label is shown as it came, a space where a preset's default is.*)
DecodeSceneLabel(snap, fields) ==
    [snap EXCEPT !.scenes = [s \in Scenes |-> IF <<"label", s>> \in DOMAIN fields
                                              THEN SceneLabel(fields[<<"label", s>>]) ELSE @[s]]]
DecodeSceneColor(snap, fields) ==
    [snap EXCEPT !.sceneColors = [s \in Scenes |-> IF <<"color", s>> \in DOMAIN fields
                                                   THEN fields[<<"color", s>>] ELSE @[s]]]

Decode(client, message) ==
    LET fields == message.fields
        Snapshot(snap) == [client EXCEPT !.snap = snap]
    IN  CASE message.type = 1 -> DecodeGrid(client, fields)
          [] message.type = 13 -> DecodeScene(client, fields)
          [] message.type = 14 -> Snapshot(DecodeMode(client.snap, fields))
          [] message.type = 15 -> DecodePreset(client, fields)
          [] message.type = 17 -> Snapshot(DecodeMasterVolume(client.snap, fields))
          [] message.type = 23 -> Snapshot(DecodeSceneLabel(client.snap, fields))
          [] message.type = 33 -> Snapshot(DecodeGlobalTempo(client.snap, fields))
          [] message.type = 48 -> Snapshot(DecodeSceneColor(client.snap, fields))
          [] OTHER -> client

(* Messages of which the decoder makes a state, and so an event.           *)
LiveTempo(fields, name) == DOMAIN fields \cap {<<name, 0>>, <<name, 2>>} # {}
Announced(message) ==
    \/ message.type \in {13, 14, 15, 17, 23, 48}
    \/ /\ message.type = 1
       /\ \/ LiveTempo(message.fields, "tempo")
          \/ PathsOf(message.fields, "bypass") # {}
          \/ Pushed(message.fields) # {}
    \/ message.type = 33 /\ LiveTempo(message.fields, "globalTempo")
    \/ message.type = 3 /\ PathsOf(message.fields, "plugged") # {}

-----------------------------------------------------------------------------
(***************************************************************************)
(* Settings replies, each a set of at most one: a message that lacks what  *)
(* its decoder insists on is none.  An absent field is an empty set.       *)
(***************************************************************************)
At1(fields, path) == IF path \in DOMAIN fields THEN {fields[path]} ELSE {}
(* A mistake: the range is taken to start at zero.                         *)
FromShareUnshifted(q, low, high) == <<(high - low) * q[1], q[2]>>
FromShare(q, low, high) == <<low * q[2] + (high - low) * q[1], q[2]>>
Discrete(q, labels) ==
    labels[(2 * q[1] * (Len(labels) - 1) + q[2]) \div (2 * q[2]) + 1]

TunerSettings(fields) ==
    LET own == [f \in {"inputPortId", "muted", "referenceOffsetHz"} |->
                  At1(fields, <<"tuner", f>>)]
    IN  IF \A f \in DOMAIN own : own[f] # {} THEN {own} ELSE {}

GeneralSettings(fields) ==
    LET names == {path[2] : path \in PathsOf(fields, "general")}
    IN  IF "sceneBlockBypass" \in names
        THEN {[f \in names \ {"sceneBlockBypass"} |-> At1(fields, <<"general", f>>)]
                ++ [sceneBypassBehavior |->
                      {Behaviors[fields[<<"general", "sceneBlockBypass">>] + 1]}]}
        ELSE {}

(* Any message that speaks of an input port counts, a plug among them.     *)
IoSettings(fields) ==
    LET ports(tag) == {path[2] : path \in PathsOf(fields, tag)}
        port(tag, id, names) == [f \in names |-> At1(fields, <<tag, id, f>>)]
        inputs == ports("in") \cup {path[3] : path \in
                                       {p \in PathsOf(fields, "plugged") : p[2] = "input"}}
    IN  IF inputs = {} THEN {}
        ELSE {[inputs |-> [id \in inputs |->
                             [levelDb |-> {FromShare(q, -12, 60) : q \in At1(fields, <<"in", id, "level">>)}]
                               ++ port("in", id, InputFields \ {"levelDb"})],
               outputs |-> [id \in ports("out") |-> port("out", id, OutputFields)],
               usb |-> [f \in UsbFields |-> At1(fields, <<"usb", f>>)],
               thru |-> At1(fields, <<"midiThru">>),
               linked |-> [f \in PairingFields |-> At1(fields, <<"linked", f>>)]]}

GlobalEqSettings(fields) ==
    {[parameters |-> [i \in {path[2] : path \in PathsOf(fields, "eq")} |-> fields[<<"eq", i>>]],
      bypassed |-> At1(fields, <<"eqBypassed">>)]}

ModeCycle(fields) == At1(fields, <<"modeCycle">>)

(* The pan stays the device's number from zero through one.                *)
TempoSettings(fields) ==
    LET at(i) == At1(fields, <<"globalTempo", i>>)
        label(f) == {Discrete(q, TempoLabels[f]) : q \in at(TempoIndex[f])}
        beats == SelectSeq([k \in 1 .. MaxBeats |-> TempoIndex.beats + k - 1],
                           LAMBDA i : at(i) # {})
    IN  [mode |-> at(1), ledEnabled |-> {AtLeastHalf(q) : q \in at(TempoIndex.ledEnabled)},
         volumeDb |-> {FromShare(q, -60, 9) : q \in at(TempoIndex.volumeDb)},
         running |-> {AtLeastHalf(q) : q \in at(TempoIndex.running)},
         pan |-> at(TempoIndex.pan),
         timeSignature |-> label("timeSignature"), subdivision |-> label("subdivision"),
         sound |-> label("sound"), routing |-> label("routing"),
         beats |-> {[k \in DOMAIN beats |->
                       Discrete(fields[<<"globalTempo", beats[k]>>], Beats)]}]

GlobalTempoSettings(fields) ==
    IF <<"globalTempo", 1>> \in DOMAIN fields
    THEN {[TempoSettings(fields) EXCEPT
             !.mode = {IF q[1] = 0 THEN "PRESET" ELSE "GLOBAL" : q \in @}]}
    ELSE {}

DeviceIdentity(fields) == At1(fields, <<"name">>)
=============================================================================
