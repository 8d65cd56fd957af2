----------------------------- MODULE MCWritePath -----------------------------
(***************************************************************************)
(* A device with two scenes and one row of four cells, and the calls made  *)
(* of it, each with what its caller wants of the device: the fields that   *)
(* change and their values on the device, nothing for a call that must be  *)
(* refused.                                                                *)
(***************************************************************************)
EXTENDS WritePath

TwoScenes == {0, 1}
Drive == 100
Delay == 200
SomeModels == (<<Drive, 1>> :> [hidden |-> TRUE, options |-> <<>>])
                @@ (<<Drive, 2>> :> [hidden |-> FALSE, options |-> <<"A", "B", "C">>])

OwnSetlist == "/media/p4/Presets/Live"
Note(n) == [type |-> 3, channel |-> 1, param1 |-> n, param2 |-> 127, param3 |-> 0]
Half == <<1, 2>>

Columns == 0 .. 3
Indices == {0, 1, 2, 5, 10, 22, 23}
Parameters == {<<0, c, i>> : <<c, i>> \in (Columns \X Indices)
                 \cup {<<8, 0>>, <<8, 1>>, <<8, 3>>, <<9, 0>>, <<10, 0>>, <<11, 0>>}}
Paths(name, places) == {<<name>> \o x : x \in places}
Fill(paths, value) == [path \in paths |-> value]
Cells == {<<0, c>> : c \in Columns}

GridPaths ==
    (<<"param", 0, 0, 2>> :> [s \in TwoScenes |-> Text("B")])
      @@ (<<"param", 0, 0, 0>> :> [s \in TwoScenes |-> Float(Half)])
      @@ (<<"sceneMode", 0, 0, 0>> :> TRUE)
      @@ (<<"block", 0, 0>> :> Drive) @@ (<<"footswitch", 0, 0>> :> {0})
      @@ (<<"block", 0, 3>> :> NoModel) @@ (<<"footswitch", 0, 3>> :> {})
      @@ (<<"bypass", 0, 0>> :> [s \in TwoScenes |-> s = 1])
      @@ Fill(Paths("param", Parameters), [s \in TwoScenes |-> Float(Zero)])
      @@ Fill(Paths("sceneMode", Parameters), FALSE)
      @@ Fill(Paths("expression", Parameters), <<0, Zero, One>>)
      @@ Fill(Paths("bypass", Cells), [s \in TwoScenes |-> FALSE])
      @@ Fill(Paths("bypassExpression", Cells), NoPedal)
      @@ Fill(Paths("block", Cells), Delay)
      @@ Fill(Paths("footswitch", Cells), {2})

PresetPaths ==
    (<<"split", 0>> :> <<1, 3>>) @@ (<<"mixBypass", 0>> :> FALSE)
      @@ (<<"input", 0>> :> 1) @@ (<<"output", 0>> :> 1)
      @@ (<<"label", 0>> :> "Clean") @@ (<<"label", 1>> :> Unfit)
      @@ (<<"color", 0>> :> 1) @@ (<<"color", 1>> :> 2)
      @@ (<<"midiOut", 0>> :> <<>>) @@ (<<"presetLoadMidi">> :> <<>>)
      @@ Fill(Paths("momentary", {<<0>>, <<1>>, <<2>>}), FALSE)
      @@ Fill(Paths("stompLabel", {<<0>>, <<1>>, <<2>>}), Unfit)
      @@ (<<"singleStompLabel", 2>> :> "Old")
      @@ Fill(Paths("singleStompLabel", {<<0>>, <<1>>}), Unfit)
      @@ (<<"tempo", 0>> :> <<80, 200>>) @@ (<<"tempo", 2>> :> One)
      @@ Fill(Paths("tempo", {<<i>> : i \in 3 .. 9}), Zero)
      @@ Fill(Paths("tempo", {<<i>> : i \in 10 .. 22}), Choice(Beats, "ON"))

SettingPaths ==
    (<<"tuner", "inputPortId">> :> 1) @@ (<<"tuner", "muted">> :> TRUE)
      @@ (<<"tuner", "referenceOffsetHz">> :> 0)
      @@ Fill(Paths("general", {<<f>> : f \in DOMAIN GeneralIntegers}), 1)
      @@ Fill(Paths("general", {<<f>> : f \in GeneralToggles}), FALSE)
      @@ (<<"general", "sceneBlockBypass">> :> 0)
      @@ (<<"general", "masterVolumeAssignment">> :> [f \in VolumeOutputs |-> TRUE])
      @@ Fill(Paths("general", {<<"cab">>, <<"ir">>}), [r \in 1 .. GridRows |-> FALSE])
      @@ Fill(Paths("in", {<<1, f>> : f \in {"level", "impedance", "inputType", "groundLift"}}), Zero)
      @@ (<<"out", 1, "mute">> :> FALSE)
      @@ Fill(Paths("out", {<<1, f>> : f \in {"level", "groundLift"}}), Zero)
      @@ Fill(Paths("usb", {<<f>> : f \in UsbFields}), Zero)
      @@ (<<"midiThru">> :> Zero) @@ Fill(Paths("linked", {<<f>> : f \in PairingFields}), FALSE)
      @@ (<<"eqBypassed">> :> FALSE) @@ Fill(Paths("eq", {<<i>> : i \in (0 .. 9) \cup (25 .. 27)}), Zero)
      @@ (<<"modeCycle">> :> <<0, 1>>) @@ (<<"volume">> :> Half) @@ (<<"scene">> :> 0)
      @@ (<<"name">> :> "Mine")
      @@ (<<"globalTempo", 0>> :> <<40, 200>>) @@ (<<"globalTempo", 1>> :> Zero)

LibraryPaths ==
    (<<"preset", OwnSetlist, "Old">> :> {3}) @@ (<<"preset", OwnSetlist, "New">> :> {})
      @@ (<<"setlist", "Gigs">> :> FALSE) @@ (<<"setlist", "Old">> :> TRUE)
      @@ (<<"favorite", "Old">> :> FALSE) @@ (<<"favorite", "New">> :> TRUE)
      @@ (<<"recent", "Old">> :> TRUE) @@ (<<"pin", Drive>> :> TRUE)
      @@ (<<"files", "local_nc_root">> :> {"Cap"}) @@ (<<"files", "local_ir_root">> :> {"Ir"})
      @@ (<<"files", "Cabs">> :> {"Cab", Unfit}) @@ (<<"presetPicture", 3>> :> "old.png")
      @@ (<<"picture">> :> "screen.png") @@ (<<"looper">> :> "stopped")
      @@ (<<"inhibited", "globalGate">> :> FALSE) @@ (<<"inhibited", "globalEq">> :> TRUE)
      @@ Fill(Paths("controlChange", {<<n>> : n \in {35, 44, 45, 46, 47, 53, 58}}), 0)

Device == GridPaths @@ PresetPaths @@ SettingPaths @@ LibraryPaths

-----------------------------------------------------------------------------
Call(method, p, wanted) == [method |-> method, p |-> p, wanted |-> wanted, refused |-> FALSE]
Refused(method, p) == [Call(method, p, <<>>) EXCEPT !.refused = TRUE]
Reading(method, p) == Call(method, p, <<>>)
Cell(c) == [row |-> 0, column |-> c]
Sets(path, value) == path :> value

BeatsOf(first) == [i \in 1 .. MaxBeats |-> IF i = 1 THEN first ELSE "MUTE"]
WantedBeats(first, rest) ==
    [path \in {<<"tempo", i>> : i \in 10 .. 22} |-> <<IF path[2] = 10 THEN first ELSE rest, 3>>]

SettingCalls == <<
    Call("setTunerInput", [confirmTunerActivation |-> TRUE, inputPortId |-> 8],
         Sets(<<"tuner", "inputPortId">>, 8)),
    Call("setTunerMute", [confirmTunerActivation |-> TRUE, muted |-> FALSE],
         Sets(<<"tuner", "muted">>, FALSE)),
    Call("restoreTunerAudio", [confirmPreferenceReset |-> TRUE], Sets(<<"tuner", "muted">>, FALSE)),
    Call("setTunerReference", [confirmTunerActivation |-> TRUE, referenceOffsetHz |-> -3],
         Sets(<<"tuner", "referenceOffsetHz">>, -3)),
    Call("setGeneralInteger", [setting |-> "holdTiming", value |-> 5],
         Sets(<<"general", "holdTiming">>, 5)),
    Call("setGeneralToggle", [setting |-> "midiClockIn", enabled |-> TRUE],
         Sets(<<"general", "midiClockIn">>, TRUE)),
    Call("setSceneBypassBehavior", [behavior |-> "neverOverwrite"],
         Sets(<<"general", "sceneBlockBypass">>, 2)),
    Call("setMasterVolumeAssignment", [f \in VolumeOutputs |-> f = "headphones"],
         Sets(<<"general", "masterVolumeAssignment">>, [f \in VolumeOutputs |-> f = "headphones"])),
    Call("setGlobalBypass", [cab |-> <<TRUE, FALSE, FALSE, FALSE>>, ir |-> <<FALSE, TRUE, FALSE, FALSE>>],
         Sets(<<"general", "cab">>, <<TRUE, FALSE, FALSE, FALSE>>)
           @@ Sets(<<"general", "ir">>, <<FALSE, TRUE, FALSE, FALSE>>)),
    Call("setInputPort", [inputPortId |-> 1, levelDb |-> {<<24, 1>>}, groundLift |-> {One}],
         Sets(<<"in", 1, "level">>, <<36, 72>>) @@ Sets(<<"in", 1, "groundLift">>, One)),
    Call("setOutputPort", [outputPortId |-> 1, level |-> {Half}, mute |-> {TRUE}],
         Sets(<<"out", 1, "level">>, Half) @@ Sets(<<"out", 1, "mute">>, TRUE)),
    Call("setUsbPort", [dryWet |-> {Half}], Sets(<<"usb", "dryWet">>, Half)),
    Call("setMidiThru", [enabled |-> TRUE], Sets(<<"midiThru">>, One)),
    Call("setOutputPairing", [xlr12Linked |-> {TRUE}, out34Linked |-> {TRUE}],
         Sets(<<"linked", "xlr12Linked">>, TRUE) @@ Sets(<<"linked", "out34Linked">>, TRUE)),
    Call("setModeCycle", [slots |-> <<2, 0>>], Sets(<<"modeCycle">>, <<2, 0>>)),
    Call("setGlobalEqBypassed", [bypassed |-> TRUE], Sets(<<"eqBypassed">>, TRUE)),
    Call("setGlobalEqBand", [band |-> 2, gain |-> {Half}, filterType |-> {3}, enabled |-> {TRUE}],
         Sets(<<"eq", 5>>, Half) @@ Sets(<<"eq", 8>>, <<3, 4>>) @@ Sets(<<"eq", 9>>, One)),
    Call("setGlobalEqOutput", [level |-> {Half}, out34 |-> {TRUE}],
         Sets(<<"eq", 25>>, Half) @@ Sets(<<"eq", 27>>, One)),
    Call("setDeviceName", [name |-> "Yours"], Sets(<<"name">>, "Yours")) >>

TempoCalls == <<
    Call("setTempoMode", [mode |-> "GLOBAL"], Sets(<<"globalTempo", 1>>, One)),
    Call("setTempoMetronome",
         [timeSignature |-> {"3/4"}, beats |-> {BeatsOf("DOWN")}, volumeDb |-> {<<-14, 1>>}],
         Sets(<<"tempo", 6>>, <<1, 20>>) @@ Sets(<<"tempo", 3>>, <<46, 69>>) @@ WantedBeats(2, 1)),
    Call("setTempoMetronome", [sound |-> {"COWBELL"}, running |-> {TRUE}, subdivision |-> {"1/16"},
                               routing |-> {"HP"}, ledEnabled |-> {FALSE}],
         Sets(<<"tempo", 8>>, <<2, 5>>) @@ Sets(<<"tempo", 4>>, One) @@ Sets(<<"tempo", 7>>, <<3, 3>>)
           @@ Sets(<<"tempo", 9>>, <<1, 4>>) @@ Sets(<<"tempo", 2>>, Zero)),
    Call("setTempoMetronome", [beats |-> {<<"OFF">>}], Sets(<<"tempo", 10>>, <<0, 3>>)),
    Call("setTempoMetronome", [pan |-> {<<-1, 2>>}], Sets(<<"tempo", 5>>, <<1, 4>>)) >>

LibraryCalls == <<
    Call("setFavorite", [name |-> "Old", folderKey |-> OwnSetlist, isFactory |-> FALSE, favorite |-> TRUE],
         Sets(<<"favorite", "Old">>, TRUE)),
    Call("setModelPinned", [modelId |-> Drive, pinned |-> FALSE], Sets(<<"pin", Drive>>, FALSE)),
    Call("createSetlist", [name |-> "Gigs"], Sets(<<"setlist", "Gigs">>, TRUE)),
    Call("deleteSetlist", [name |-> "Old"], Sets(<<"setlist", "Old">>, FALSE)),
    Call("deletePreset", [setlistKey |-> OwnSetlist, name |-> "Old"], Sets(<<"preset", OwnSetlist, "Old">>, {})),
    Call("movePreset", [setlistKey |-> OwnSetlist, name |-> "Old", position |-> 7],
         Sets(<<"preset", OwnSetlist, "Old">>, {7})),
    Call("loadCapture", Cell(3) @@ [key |-> "k", name |-> "Cap", modelId |-> {300}],
         Sets(<<"block", 0, 3>>, 300) @@ Sets(<<"param", 0, 3, 5>>, <<"text", "k", "Cap">>)),
    Call("loadIr", Cell(1) @@ [key |-> "k", name |-> "Ir", slot |-> 1],
         Sets(<<"param", 0, 1, 10>>, Text("k")) @@ Sets(<<"param", 0, 1, 23>>, Text("Ir"))),
    Call("command.operation", [operation |-> "savePreset", setlistKey |-> OwnSetlist, name |-> "New",
                               position |-> 9], Sets(<<"preset", OwnSetlist, "New">>, {9})) >>

LiveCalls == <<
    Call("selectScene", [scene |-> 1], Sets(<<"scene">>, 1)),
    Call("toggleBypass", Cell(0) @@ [desiredBypassed |-> TRUE], Sets(<<"bypass", 0, 0>>, TRUE)),
    Call("setTempo", [bpm |-> 90], Sets(<<"tempo", 0>>, <<50, 200>>)),
    Call("setMasterVolume", [value |-> 37], Sets(<<"volume">>, <<37, 100>>)),
    Call("command.tempo", [bpm |-> 240], Sets(<<"tempo", 0>>, <<200, 200>>)),
    Call("pressFootswitch", [index |-> 0], Sets(<<"controlChange", 35>>, 127)),
    Call("tapTempo", <<>>, Sets(<<"controlChange", 44>>, 127)),
    Call("showTuner", [shown |-> TRUE], Sets(<<"controlChange", 45>>, 127)),
    Call("showGigView", [shown |-> TRUE], Sets(<<"controlChange", 46>>, 127)),
    Call("selectModeSlot", [slot |-> 2], Sets(<<"controlChange", 47>>, 2)),
    Call("controlLooper", [command |-> "record"], Sets(<<"controlChange", 53>>, 127)),
    Call("controlLooper", [command |-> "quantize", value |-> {9}], Sets(<<"controlChange", 58>>, 9)) >>

ControlCalls == <<
    Call("setParameter", Cell(0) @@ [parameterIndex |-> 0, value |-> <<3, 4>>],
         Sets(<<"param", 0, 0, 0>>, Float(<<3, 4>>))),
    Call("setParameter", Cell(0) @@ [parameterIndex |-> 1, value |-> <<3, 4>>],
         Sets(<<"param", 0, 0, 1>>, Float(<<3, 4>>))),
    Call("setParameter", Cell(0) @@ [parameterIndex |-> 2, text |-> "C"],
         Sets(<<"param", 0, 0, 2>>, Text("C"))),
    Call("setParameter", Cell(8) @@ [parameterIndex |-> 1, value |-> <<3, 4>>],
         Sets(<<"param", 0, 8, 1>>, Float(<<3, 4>>))),
    Call("previewParameter", Cell(1) @@ [parameterIndex |-> 0, value |-> <<3, 4>>],
         Sets(<<"param", 0, 1, 0>>, Float(<<3, 4>>))),
    Call("setLaneControlParameter",
         [row |-> 0, control |-> "laneOutput", parameterIndex |-> 0, value |-> Half],
         Sets(<<"param", 0, 11, 0>>, Float(Half))),
    Call("setLaneControlSceneMode",
         [row |-> 0, control |-> "inputGate", parameterIndex |-> 0, enabled |-> TRUE],
         Sets(<<"sceneMode", 0, 10, 0>>, TRUE)),
    Call("setParameterSceneMode", Cell(1) @@ [parameterIndex |-> 0, enabled |-> TRUE],
         Sets(<<"sceneMode", 0, 1, 0>>, TRUE)),
    Call("setParameterExpression",
         Cell(9) @@ [parameterIndex |-> 0, pedal |-> 1, minimum |-> Zero, maximum |-> Half],
         Sets(<<"expression", 0, 9, 0>>, <<1, Zero, Half>>)),
    Call("setExpressionBypass",
         Cell(0) @@ [pedal |-> 2, mode |-> 1, invert |-> TRUE, delayMs |-> 250, latchEmulation |-> FALSE],
         Sets(<<"bypassExpression", 0, 0>>,
              [pedal |-> 2, mode |-> 1, invert |-> TRUE, delayMs |-> 250, latchEmulation |-> FALSE])) >>

GridCalls == <<
    Call("addBlock", Cell(3) @@ [modelId |-> Drive], Sets(<<"block", 0, 3>>, Drive)),
    Call("removeBlock", Cell(0), Sets(<<"block", 0, 0>>, NoModel)),
    Call("moveBlock", [row |-> 0, fromColumn |-> 0, toRow |-> 0, toColumn |-> 3],
         Sets(<<"move", 0, 0>>, <<0, 3>>)),
    Call("moveBlock", [row |-> 0, fromColumn |-> 2, toRow |-> 0, toColumn |-> 1],
         Sets(<<"move", 0, 2>>, <<0, 1>>)),
    Call("setBlockFootswitch", Cell(0) @@ [footswitch |-> {1}], Sets(<<"footswitch", 0, 0>>, {1})),
    Call("setBlockFootswitch", Cell(2) @@ [footswitch |-> {}], Sets(<<"footswitch", 0, 2>>, {})),
    Call("setChainInput", [row |-> 0, inputId |-> 4], Sets(<<"input", 0>>, 4)),
    Call("setChainOutput", [row |-> 0, outputId |-> 4], Sets(<<"output", 0>>, 4)),
    Call("setChainSplit", [row |-> 0, splitColumn |-> {2}, mixColumn |-> {-1}],
         Sets(<<"split", 0>>, <<2, -1>>)),
    Call("setChainSplit", [row |-> 0], Sets(<<"split", 0>>, <<-1, -1>>)),
    Call("setSplitMute", [row |-> 0, muted |-> TRUE], Sets(<<"mixBypass", 0>>, TRUE)),
    Call("setStompMomentary", [footswitch |-> 0, momentary |-> TRUE], Sets(<<"momentary", 0>>, TRUE)),
    Call("setStompLabel", [footswitch |-> 0, label |-> "Solo"],
         Sets(<<"singleStompLabel", 0>>, "Solo")),
    Call("setStompLabel", [footswitch |-> 2, label |-> "Both"], Sets(<<"stompLabel", 2>>, "Both")),
    Call("setMidiOut", [source |-> 0, messages |-> <<Note(60)>>], Sets(<<"midiOut", 0>>, <<Note(60)>>)),
    Call("setPresetLoadMidiOut", [messages |-> <<Note(61)>>], Sets(<<"presetLoadMidi">>, <<Note(61)>>)) >>

SceneCalls == <<
    Call("copyScene", [fromScene |-> 0, toScene |-> 1, swap |-> {TRUE}],
         Sets(<<"copyScene">>, <<0, 1, TRUE>>)),
    Call("copyScene", [fromScene |-> 1, toScene |-> 0], Sets(<<"copyScene">>, <<1, 0, FALSE>>)),
    Call("setSceneLabel", [scene |-> 1, label |-> {"Lead"}], Sets(<<"label", 1>>, "Lead")),
    Call("setSceneLabel", [scene |-> 0], Sets(<<"label", 0>>, Blank)),
    Call("setSceneLabel", [scene |-> 0, label |-> {Blank}], Sets(<<"label", 0>>, Blank)),
    Call("setSceneColor", [scene |-> 0, color |-> 7], Sets(<<"color", 0>>, 7)) >>

RefusedCalls == <<
    Refused("setTunerInput", [confirmTunerActivation |-> FALSE, inputPortId |-> 8]),
    Refused("setGeneralInteger", [setting |-> "holdTiming", value |-> 6]),
    Refused("setInputPort", [inputPortId |-> 1]),
    Refused("setInputPort", [inputPortId |-> 1, levelDb |-> {<<61, 1>>}]),
    Refused("setGlobalEqBand", [band |-> 0, gain |-> {Half}]),
    Refused("setModeCycle", [slots |-> <<1, 1>>]),
    Refused("setTempoMetronome", <<>>),
    Refused("createSetlist", [name |-> "My Presets"]),
    Refused("deletePreset", [setlistKey |-> "/opt/neuraldsp/Factory", name |-> "Old"]),
    Refused("setTempo", [bpm |-> 39]),
    Refused("setParameter", [row |-> 1, column |-> 8, parameterIndex |-> 0, value |-> Zero]),
    Refused("setParameter", Cell(3) @@ [parameterIndex |-> 0, value |-> Zero]),
    Refused("setChainSplit", [row |-> 0, splitColumn |-> {3}, mixColumn |-> {3}]),
    Refused("setChainSplit", [row |-> 0, mixColumn |-> {3}]),
    Refused("setStompMomentary", [footswitch |-> 2, momentary |-> TRUE]),
    Refused("setSceneLabel", [scene |-> 0, label |-> {Unfit}]),
    Refused("setExpressionBypass",
            Cell(0) @@ [pedal |-> 0, mode |-> 1, invert |-> TRUE, delayMs |-> 0, latchEmulation |-> FALSE]),
    Refused("controlLooper", [command |-> "midiClockStart", value |-> {2}]) >>

Picture(folder, position) == [folderName |-> folder, position |-> position, isFactory |-> FALSE]
ReadCalls == <<
    Reading("identity", <<>>), Reading("tunerSettings", <<>>), Reading("generalSettings", <<>>),
    Reading("ioSettings", <<>>), Reading("globalEq", <<>>), Reading("modeCycle", <<>>),
    Reading("looperStatus", <<>>), Reading("pinnedModels", <<>>),
    Reading("inhibitedModules", <<>>), Reading("captureScreen", <<>>),
    Reading("recents", <<>>), Reading("captures", <<>>),
    Reading("irs", [folder |-> Unfit]), Reading("irs", [folder |-> "Cabs"]),
    Reading("presetScreenshot", Picture("Live", 3)), Reading("presetScreenshot", Picture("Live", 4)),
    Refused("irs", [folder |-> Blank]),
    Refused("presetScreenshot", Picture("Live", 256)),
    Refused("presetScreenshot", Picture(Slashed, 3)) >>

(* Calls that may come second: of what the others do not take away.        *)
SecondCalls == <<
    Call("toggleBypass", Cell(1) @@ [desiredBypassed |-> TRUE], Sets(<<"bypass", 0, 1>>, TRUE)),
    Call("setParameter", Cell(1) @@ [parameterIndex |-> 0, value |-> Half],
         Sets(<<"param", 0, 1, 0>>, Float(Half))),
    Call("setTempo", [bpm |-> 140], Sets(<<"tempo", 0>>, <<100, 200>>)),
    Call("setTempoMode", [mode |-> "PRESET"], Sets(<<"globalTempo", 1>>, Zero)),
    Call("setSceneLabel", [scene |-> 1, label |-> {"Rhythm"}], Sets(<<"label", 1>>, "Rhythm")),
    Call("setChainInput", [row |-> 0, inputId |-> 5], Sets(<<"input", 0>>, 5)),
    Reading("favorites", <<>>), Reading("globalTempoSettings", <<>>) >>

EveryCall == SecondCalls \o ReadCalls \o SettingCalls \o TempoCalls \o LibraryCalls \o LiveCalls \o ControlCalls
               \o GridCalls \o SceneCalls \o RefusedCalls
Seconds == 1 .. Len(SecondCalls)

(* The metronome's calls that write and read whole settings, and its pan.  *)
MetronomeCalls == <<TempoCalls[3], TempoCalls[5]>>
=============================================================================
