---------------------------- MODULE GatewayReads ----------------------------
(***************************************************************************)
(* The reads a gateway call may ask for: the frame each sends, the message *)
(* type that answers it (qc-device-runtime/src/request.rs, with the frames *)
(* of qc-protocol/src/commands.rs), and what its decoder makes of such a   *)
(* message (qc-protocol/src/responses.rs): a set of one reading, or none   *)
(* when the message is not the answer.                                     *)
(*                                                                         *)
(* Most reads carry no identifier, and any message of their type that can  *)
(* be decoded answers them.  id is the identifier of those that do.        *)
(***************************************************************************)
EXTENDS DeviceDecode

-----------------------------------------------------------------------------
(***************************************************************************)
(* Frames                                                                  *)
(***************************************************************************)
ReadRecentsFavorites(favorites, id) ==
    Frame(20, "Read", Field(<<"favorites">>, favorites) ++ Field(<<"id">>, id))

(* The folder is not sent.                                                 *)
ReadLibraryFiles(fileType, id) ==
    Frame(4, "Read", [path \in {<<"type">> : t \in fileType} |-> CHOOSE t \in fileType : TRUE]
                       ++ [path \in {<<"id">> : n \in id} |-> CHOOSE n \in id : TRUE])

PresetScreenshot(folder, position, isFactory, id) ==
    Frame(25, "Read", Field(<<"target">>, <<folder, position, isFactory>>) ++ Field(<<"id">>, id))

-----------------------------------------------------------------------------
(***************************************************************************)
(* Plans: the frame, the identifier the answer must carry and what it must *)
(* be about                                                                *)
(***************************************************************************)
ReadTypes ==
    [identity |-> 10, tunerSettings |-> 6, generalSettings |-> 9, ioSettings |-> 3,
     globalEq |-> 38, modeCycle |-> 14, globalTempoSettings |-> 33, looperStatus |-> 28,
     pinnedModels |-> 54, inhibitedModules |-> 42, captureScreen |-> 72]

Asking(frame, id, target) == [frame |-> frame, id |-> id, target |-> target]

PlanLibraryFiles(method, p, id) ==
    LET named == IF "folder" \in DOMAIN p /\ p.folder # Unfit THEN p.folder ELSE "local_ir_root"
    IN  IF method = "captures" THEN {Asking(ReadLibraryFiles({}, {}), {}, "local_nc_root")}
        ELSE Accept(LibraryKey([folder |-> named], "folder"),
                    Asking(ReadLibraryFiles({1}, {id}), {id}, named))

PlanScreenshot(p, id) ==
    Accept(PathComponent(p, "folderName", {}) /\ BoundedU32(p, "position", 255) /\ Flag(p, "isFactory"),
           Asking(PresetScreenshot(p.folderName, p.position, p.isFactory, id), {id},
                  <<p.folderName, p.position, p.isFactory>>))

ReadMethods == DOMAIN ReadTypes \cup {"recents", "favorites", "captures", "irs", "presetScreenshot"}

PlanGatewayRead(method, p, id) ==
    CASE method \in DOMAIN ReadTypes -> {Asking(Read(ReadTypes[method]), {}, {})}
      [] method \in {"recents", "favorites"} ->
           {Asking(ReadRecentsFavorites(method = "favorites", id), {id}, {})}
      [] method \in {"captures", "irs"} -> PlanLibraryFiles(method, p, id)
      [] method = "presetScreenshot" -> PlanScreenshot(p, id)

-----------------------------------------------------------------------------
(***************************************************************************)
(* Decoders                                                                *)
(***************************************************************************)
(* A mistake: whose answer it is does not matter.                          *)
RecentsFavoritesOfAnybody(fields, id) == At1(fields, <<"items">>)
(* One entry without a name or a folder spoils the list.                   *)
Entries(fields) == {items \in At1(fields, <<"items">>) : Unfit \notin items}
RecentsFavorites(fields, id) ==
    IF At1(fields, <<"id">>) = id THEN Entries(fields) ELSE {}

LibraryFiles(fields, id, folder) ==
    IF (id # {} => At1(fields, <<"id">>) = id) /\ At1(fields, <<"folder">>) = {folder}
    THEN Entries(fields) ELSE {}

(* Every message of the type is taken, whatever its action.                *)
PinnedModels(fields) == {{path[2] : path \in {x \in PathsOf(fields, "pin") : fields[x]}}}

LooperStatus(fields) == At1(fields, <<"looper">>)

InhibitedModules(fields) ==
    {[globalGate |-> gate, globalEq |-> eq] : gate \in At1(fields, <<"inhibited", "globalGate">>),
                                              eq \in At1(fields, <<"inhibited", "globalEq">>)}

(* A picture that is none is refused.                                      *)
PngImage(picture) == picture \ {Unfit}
DecodePresetScreenshot(fields, id, target) ==
    IF At1(fields, <<"id">>) = id /\ At1(fields, <<"target">>) = {target}
    THEN PngImage(At1(fields, <<"picture">>)) ELSE {}
CapturedScreen(fields) == PngImage(At1(fields, <<"picture">>))

Projected(read, fields) ==
    CASE read.frame.type = 6 -> TunerSettings(fields)
      [] read.frame.type = 9 -> GeneralSettings(fields)
      [] read.frame.type = 3 -> IoSettings(fields)
      [] read.frame.type = 14 -> ModeCycle(fields)
      [] read.frame.type = 38 -> GlobalEqSettings(fields)
      [] read.frame.type = 33 -> GlobalTempoSettings(fields)
      [] read.frame.type = 10 -> DeviceIdentity(fields)
      [] read.frame.type = 28 -> LooperStatus(fields)
      [] read.frame.type = 20 -> RecentsFavorites(fields, read.id)
      [] read.frame.type = 54 -> PinnedModels(fields)
      [] read.frame.type = 4 -> LibraryFiles(fields, read.id, read.target)
      [] read.frame.type = 42 -> InhibitedModules(fields)
      [] read.frame.type = 25 -> DecodePresetScreenshot(fields, read.id, read.target)
      [] read.frame.type = 72 -> CapturedScreen(fields)
=============================================================================
