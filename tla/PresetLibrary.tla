--------------------------- MODULE PresetLibrary ---------------------------
(***************************************************************************)
(* The preset library of qc-device-runtime/src/lib.rs: the latest listing  *)
(* of each folder the device has told of, by the folder's key.  A listing  *)
(* is a function from the occupied positions to the names stored there, so *)
(* the key's trailing slashes and the order of the files are left out.     *)
(***************************************************************************)
EXTENDS Integers, FiniteSets, Functions

CONSTANTS
    Positions,  \* the positions of a setlist: 0 .. 255
    Setlists,   \* the keys of the factory library and of the user's setlists
    NoKey       \* an empty key

Unsaved == 0
Size(listing) == Cardinality(DOMAIN listing)
NoListings == <<>>

(* HashMap::insert: a file at a position, or a listing by its key.         *)
Insert(map, key, value) ==
    [k \in DOMAIN map \cup {key} |-> IF k = key THEN value ELSE map[k]]

(* decode_preset_folder: the listing a directory message carries, as one   *)
(* to take in or none; files at impossible positions are left out.         *)
Decoded(message) ==
    IF message.key = NoKey THEN {}
    ELSE {[key |-> message.key,
           files |-> Restrict(message.files, DOMAIN message.files \cap Positions)]}

(* PresetLibrary::ingest                                                   *)
Ingest(library, key, files) ==
    IF key \in DOMAIN library /\ Size(files) < Size(library[key])
    THEN library ELSE Insert(library, key, files)

(* PresetLibrary::folders: directories that hold other files are not shown.*)
FoldersOf(library) == DOMAIN library \cap Setlists

(* PresetLibrary::list: every position of a setlist, free or not.          *)
ListOf(library, key) ==
    {[p \in Positions |-> IF p \in DOMAIN files THEN files[p] ELSE Unsaved] :
        files \in {library[k] : k \in DOMAIN library \cap {key}}}

(* PresetLibrary::slots                                                    *)
SlotsOf(library, key) ==
    {[p \in Positions |-> [name |-> list[p], occupied |-> list[p] # Unsaved]] :
        list \in ListOf(library, key)}

(* PresetLibrary::entry                                                    *)
Entry(library, key, position) ==
    {library[k][position] : k \in {k \in DOMAIN library \cap {key} :
                                      position \in DOMAIN library[k]}}

(* Mutant: only a preset the listing has is renamed.                       *)
RecordRenamed(library, key, position, name) ==
    [k \in DOMAIN library |->
        IF k = key /\ position \in DOMAIN library[k]
        THEN [library[k] EXCEPT ![position] = name] ELSE library[k]]

(* PresetLibrary::record_saved                                             *)
RecordSaved(library, key, position, name) ==
    [k \in DOMAIN library |->
        IF k = key THEN Insert(library[k], position, name) ELSE library[k]]

=============================================================================
