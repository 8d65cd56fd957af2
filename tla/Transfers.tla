----------------------------- MODULE Transfers -----------------------------
(***************************************************************************)
(* What the broker collects from several messages of the device: the       *)
(* preset library (one message a directory) and a backup (a document in    *)
(* chunks that name no request).                                           *)
(*                                                                         *)
(* The RPC thread has one call at a time and may give it up; the worker    *)
(* takes its commands from a queue all the same.  While a backup is        *)
(* collected (services/device-broker/src/usb.rs, create_backup) the worker *)
(* reads the session itself, sets every other message aside and takes them *)
(* in when the document is complete.  The device's user stores, renames    *)
(* and deletes presets and turns the volume meanwhile, reports are dropped *)
(* and the session is reopened while the device is still sending.          *)
(***************************************************************************)
EXTENDS PresetLibrary, Sequences, SequencesExt

CONSTANTS
    Setlist,    \* the active setlist
    Captures,   \* another directory the device tells of
    Braced,     \* documents whose last chunk begins with a brace
    MaxCalls,   \* calls
    MaxEvents   \* touches, dropped reports, reopened sessions, given up calls

ASSUME TransfersAssumption ==
    /\ Positions \subseteq Nat /\ IsFiniteSet(Positions) /\ Positions # {}
    /\ Setlist \in Setlists /\ Captures \notin Setlists
    /\ NoKey \notin {Setlist, Captures}
    /\ Braced \subseteq Nat
    /\ MaxCalls \in Nat /\ MaxEvents \in Nat

VARIABLES
    dev,        \* the device: its setlist, volume and the chunks it has to send
    toDevice,   \* commands sent to it
    wire,       \* its messages the worker has not read
    dropped,    \* a report was dropped and no read has said so
    worker,     \* what the worker is doing
    inbox,      \* commands the worker has not taken
    library,    \* the preset library
    seen,       \* the volume the state decoder was told
    call,       \* the call the RPC thread executes
    told,       \* what the last call was told
    counts,     \* calls and events so far
    past        \* history

transferVars == <<dev, toDevice, wire, dropped, worker, inbox, library, seen,
                  call, told, counts, past>>

-----------------------------------------------------------------------------
(***************************************************************************)
(* Messages and commands                                                   *)
(***************************************************************************)
Nothing == [kind |-> "nothing", key |-> NoKey, files |-> NoListings, version |-> 0,
            of |-> 0, part |-> 0, volume |-> 0]
Listing(key, files, version) ==
    [Nothing EXCEPT !.kind = "list", !.key = key, !.files = files, !.version = version]
Chunk(of, part) == [Nothing EXCEPT !.kind = "chunk", !.of = of, !.part = part]
Volume(volume) == [Nothing EXCEPT !.kind = "volume", !.volume = volume]
Stored(of) == [Nothing EXCEPT !.kind = "stored", !.of = of]

(* A document has two chunks; the second is marked as the last.  The first *)
(* begins with a brace, and so may the second, wherever the device cuts.   *)
LastPart == 2
Document(of) == [part \in 1 .. LastPart |-> Chunk(of, part)]
Opens(chunk) == chunk.part = 1 \/ chunk.of \in Braced
Terminal(chunk) == chunk.part = LastPart

Command(op, of, position) == [op |-> op, of |-> of, position |-> position]

(* Names: of the presets at first, of the user's and of the caller's.      *)
AtFirst == 1
ByUser == 2
BySave == 3

-----------------------------------------------------------------------------
(***************************************************************************)
(* The assembler of a backup                                               *)
(***************************************************************************)
Parts(doc) == [i \in DOMAIN doc |-> doc[i].part]

(* Mutant: the document is not checked.                                    *)
Unchecked(doc) == doc # <<>>

(* The document is one JSON value of type backup.                          *)
Valid(doc) == Parts(doc) = [part \in 1 .. LastPart |-> part]

(* Mutant: whatever comes first is taken for the start of the document.    *)
PushedUnaligned(doc, chunk) == Append(doc, chunk)

(* BackupAssembler::push: chunks before one that begins with a brace are   *)
(* stale.                                                                  *)
Pushed(doc, chunk) == IF doc = <<>> /\ ~Opens(chunk) THEN doc ELSE Append(doc, chunk)

-----------------------------------------------------------------------------
(***************************************************************************)
(* State                                                                   *)
(***************************************************************************)
Idle == [at |-> "reading", of |-> 0, doc |-> <<>>, todo |-> <<>>, half |-> FALSE,
         crossed |-> FALSE]
NoCall == [kind |-> "none", at |-> "none", of |-> 0, position |-> 0,
           heard |-> FALSE, doc |-> <<>>]
NoAnswer == [kind |-> "none", ok |-> TRUE, doc |-> <<>>, why |-> "none",
             crossed |-> FALSE, dropped |-> FALSE]

TransfersInit ==
    /\ dev = [files |-> [p \in Positions |-> AtFirst], volume |-> 1, sending |-> <<>>]
    /\ toDevice = <<>> /\ wire = <<>> /\ dropped = FALSE
    /\ worker = Idle /\ inbox = <<>>
    /\ library = NoListings /\ seen = dev.volume
    /\ call = NoCall /\ told = NoAnswer
    /\ counts = [calls |-> 0, events |-> 0]
    /\ past = [version |-> 1, offered |-> 0, lost |-> 0, dropped |-> FALSE, saved |-> 0]

Event == /\ counts.events < MaxEvents
         /\ counts' = [counts EXCEPT !.events = @ + 1]

(* History: the device's volume, if it was told in a message that is gone. *)
Lost(messages) == IF \E m \in messages : m.volume = dev.volume THEN dev.volume ELSE past.lost

hostVars == <<worker, inbox, library, seen, call, told>>

-----------------------------------------------------------------------------
(***************************************************************************)
(* The device (external)                                                   *)
(***************************************************************************)
Taking(op) == toDevice # <<>> /\ Head(toDevice).op = op /\ toDevice' = Tail(toDevice)

(* A request for a backup is answered after the one under way or instead.  *)
StartBackup ==
    /\ Taking("backup")
    /\ \E kept \in {<<>>, dev.sending} :
          dev' = [dev EXCEPT !.sending = kept \o Document(Head(toDevice).of)]
    /\ UNCHANGED <<wire, dropped, counts, past, hostVars>>

SendChunk ==
    /\ dev.sending # <<>>
    /\ wire' = Append(wire, Head(dev.sending))
    /\ dev' = [dev EXCEPT !.sending = Tail(@)]
    /\ UNCHANGED <<toDevice, dropped, counts, past, hostVars>>

TellListings ==
    /\ Taking("list")
    /\ wire' = wire \o <<Listing(Captures, NoListings, 0),
                         Listing(Setlist, dev.files, past.version)>>
    /\ UNCHANGED <<dev, dropped, counts, past, hostVars>>

TellVolume ==
    /\ Taking("volume")
    /\ wire' = Append(wire, Volume(dev.volume))
    /\ UNCHANGED <<dev, dropped, counts, past, hostVars>>

StorePreset ==
    /\ Taking("save")
    /\ dev' = [dev EXCEPT !.files = Insert(@, Head(toDevice).position, BySave)]
    /\ past' = [past EXCEPT !.version = @ + 1, !.saved = past.version + 1]
    /\ wire' = Append(wire, Stored(Head(toDevice).of))
    /\ UNCHANGED <<dropped, counts, hostVars>>

(* The user at the device.                                                 *)
TouchPresets ==
    /\ Event
    /\ \E files \in {Insert(dev.files, p, ByUser) : p \in Positions}
                    \cup {Restrict(dev.files, DOMAIN dev.files \ {p}) : p \in Positions} :
          /\ files # dev.files
          /\ dev' = [dev EXCEPT !.files = files]
    /\ past' = [past EXCEPT !.version = @ + 1]
    /\ UNCHANGED <<toDevice, wire, dropped, hostVars>>

TouchVolume ==
    /\ Event
    /\ dev' = [dev EXCEPT !.volume = @ + 1]
    /\ wire' = Append(wire, Volume(dev.volume + 1))
    /\ UNCHANGED <<toDevice, dropped, past, hostVars>>

(* The newest report finds the receive queue full (HidLane).               *)
DropReport ==
    /\ wire # <<>> /\ Event
    /\ wire' = Front(wire)
    /\ dropped' = TRUE
    /\ past' = [past EXCEPT !.dropped = TRUE, !.lost = Lost({Last(wire)})]
    /\ UNCHANGED <<dev, toDevice, hostVars>>

-----------------------------------------------------------------------------
(***************************************************************************)
(* The worker                                                              *)
(***************************************************************************)
deviceVars == <<dev, toDevice, wire, dropped>>
Free == worker.at = "reading" /\ worker.todo = <<>>
Waits(of, at) == call.of = of /\ call.at = at

Answer(ok, why) ==
    /\ told' = [kind |-> call.kind, ok |-> ok, doc |-> call.doc, why |-> why,
                crossed |-> worker.crossed, dropped |-> past.dropped]
    /\ call' = NoCall

(* Command::Send, Command::Request: what waits for the device goes on.     *)
TakeSend ==
    /\ Free /\ inbox # <<>> /\ Head(inbox).op # "backup"
    /\ inbox' = Tail(inbox)
    /\ toDevice' = Append(toDevice, Head(inbox))
    /\ call' = IF Waits(Head(inbox).of, "sending") THEN [call EXCEPT !.at = "sent"] ELSE call
    /\ UNCHANGED <<dev, wire, dropped, worker, library, seen, told, counts, past>>

(* Command::CreateBackup; crossed (history): of an earlier document a      *)
(* chunk that begins with a brace has not been read.                       *)
TakeBackup ==
    /\ Free /\ inbox # <<>> /\ Head(inbox).op = "backup"
    /\ inbox' = Tail(inbox)
    /\ toDevice' = Append(toDevice, Head(inbox))
    /\ worker' = [Idle EXCEPT !.at = "collecting", !.of = Head(inbox).of,
                     !.crossed = \/ \E i \in DOMAIN wire : Opens(wire[i])
                                 \/ \E i \in DOMAIN dev.sending : Opens(dev.sending[i])
                                 \/ \E i \in DOMAIN toDevice : toDevice[i].op = "backup"]
    /\ UNCHANGED <<dev, wire, dropped, library, seen, call, told, counts, past>>

(* One failed read is tolerated, and what was dropped is gone.             *)
ReadFails ==
    /\ Free /\ dropped
    /\ dropped' = FALSE
    /\ UNCHANGED <<dev, toDevice, wire, hostVars, counts, past>>

Read ==
    /\ Free /\ ~dropped /\ wire # <<>>
    /\ worker' = [worker EXCEPT !.todo = <<Head(wire)>>]
    /\ wire' = Tail(wire)
    /\ UNCHANGED <<dev, toDevice, dropped, inbox, library, seen, call, told, counts, past>>

Taken == worker' = [worker EXCEPT !.todo = Tail(@), !.half = FALSE]

(* ingest_incoming: the subscribers and the state decoder hear of it ...   *)
Hears(m) == CASE m.kind = "list"   -> call.at \in {"looking", "waiting"}
              [] m.kind = "volume" -> call.kind = "backup" /\ call.at = "sent"
              [] m.kind = "stored" -> call.at = "sent" /\ m.of = call.of
              [] OTHER             -> FALSE

Tell ==
    /\ worker.at # "collecting" /\ worker.todo # <<>> /\ ~worker.half
    /\ LET m == Head(worker.todo)
       IN /\ seen' = IF m.kind = "volume" THEN m.volume ELSE seen
          /\ call' = IF Hears(m) THEN [call EXCEPT !.heard = TRUE] ELSE call
          /\ IF m.kind = "list" THEN worker' = [worker EXCEPT !.half = TRUE] ELSE Taken
    /\ UNCHANGED <<deviceVars, inbox, library, told, counts, past>>

(* ... before the library takes a directory in.  offered (history): the    *)
(* device's version the library is to show, 0 if it keeps a longer listing.*)
TakeIn ==
    /\ worker.half
    /\ LET m == Head(worker.todo)
       IN \E l \in Decoded(m) :
             /\ library' = Ingest(library, l.key, l.files)
             /\ past' = IF l.key # Setlist THEN past
                        ELSE [past EXCEPT !.offered =
                                IF Setlist \in DOMAIN library
                                   /\ Size(l.files) < Size(library[Setlist])
                                THEN 0 ELSE m.version]
    /\ Taken
    /\ UNCHANGED <<deviceVars, inbox, seen, call, told, counts>>

(* create_backup: a message that is no chunk is set aside ...              *)
SetAside ==
    /\ worker.at = "collecting" /\ ~dropped /\ wire # <<>> /\ Head(wire).kind # "chunk"
    /\ worker' = [worker EXCEPT !.todo = Append(@, Head(wire))]
    /\ wire' = Tail(wire)
    /\ UNCHANGED <<dev, toDevice, dropped, inbox, library, seen, call, told, counts, past>>

NextChunk == /\ worker.at = "collecting" /\ ~dropped /\ wire # <<>>
             /\ Head(wire).kind = "chunk"
             /\ wire' = Tail(wire)
Assembled == Pushed(worker.doc, Head(wire))
Complete == Assembled # <<>> /\ Terminal(Head(wire))

(* ... a chunk joins the document ...                                      *)
Collect ==
    /\ NextChunk /\ ~Complete
    /\ worker' = [worker EXCEPT !.doc = Assembled]
    /\ UNCHANGED <<dev, toDevice, dropped, inbox, library, seen, call, told, counts, past>>

(* Mutant: what was set aside is not taken in.                             *)
CompleteAlone ==
    /\ NextChunk /\ Complete /\ Valid(Assembled)
    /\ worker' = [worker EXCEPT !.at = "delivering", !.doc = Assembled, !.todo = <<>>]
    /\ UNCHANGED <<dev, toDevice, dropped, inbox, library, seen, call, told, counts, past>>

(* ... and the last one completes it: what was set aside is taken in.      *)
CompleteDocument ==
    /\ NextChunk /\ Complete /\ Valid(Assembled)
    /\ worker' = [worker EXCEPT !.at = "delivering", !.doc = Assembled]
    /\ UNCHANGED <<dev, toDevice, dropped, inbox, library, seen, call, told, counts, past>>

(* A backup that fails leaves the session open; what it set aside is gone. *)
FailBackup(why) ==
    /\ worker' = Idle
    /\ past' = [past EXCEPT !.lost = Lost({worker.todo[i] : i \in DOMAIN worker.todo})]
    /\ IF Waits(worker.of, "asking") THEN Answer(FALSE, why) ELSE UNCHANGED <<call, told>>
    /\ UNCHANGED <<dev, toDevice, inbox, library, seen, counts>>

RefuseDocument ==
    /\ NextChunk /\ Complete /\ ~Valid(Assembled)
    /\ FailBackup("invalid")
    /\ UNCHANGED dropped

BackupReadFails ==
    /\ worker.at = "collecting" /\ dropped
    /\ dropped' = FALSE
    /\ FailBackup("read")
    /\ UNCHANGED wire

Stall ==
    /\ worker.at = "collecting" /\ ~dropped /\ wire = <<>>
    /\ FailBackup("stalled")
    /\ UNCHANGED <<wire, dropped>>

(* Everything set aside was taken in: the caller gets the document.        *)
Deliver ==
    /\ worker.at = "delivering" /\ worker.todo = <<>>
    /\ worker' = Idle
    /\ call' = IF Waits(worker.of, "asking")
               THEN [call EXCEPT !.at = "resync", !.doc = worker.doc] ELSE call
    /\ UNCHANGED <<deviceVars, inbox, library, seen, told, counts, past>>

(* The session is opened anew (BrokerWorker): the library is cleared, the  *)
(* handshake asks for the volume.  The device may go on with a transfer.   *)
Reopen ==
    /\ Free /\ Event
    /\ \E left \in {<<>>, dev.sending} : dev' = [dev EXCEPT !.sending = left]
    /\ toDevice' = <<>> /\ wire' = <<>> /\ dropped' = FALSE
    /\ library' = NoListings
    /\ seen' = dev.volume
    /\ past' = [past EXCEPT !.offered = 0]
    /\ UNCHANGED <<worker, inbox, call, told>>

-----------------------------------------------------------------------------
(***************************************************************************)
(* The calls                                                               *)
(***************************************************************************)
workerVars == <<worker, library, seen>>

Begin(kind, at, op, position) ==
    /\ call = NoCall /\ counts.calls < MaxCalls
    /\ counts' = [counts EXCEPT !.calls = @ + 1]
    /\ call' = [NoCall EXCEPT !.kind = kind, !.at = at, !.of = counts.calls + 1,
                              !.position = position]
    /\ inbox' = Append(inbox, Command(op, counts.calls + 1, position))
    /\ told' = NoAnswer
    /\ UNCHANGED <<deviceVars, workerVars, past>>

(* device.createBackup                                                     *)
BeginBackup == Begin("backup", "asking", "backup", 0)

(* device.presetFolders: the library is asked for when it is empty or a    *)
(* refresh is wanted; what is there is answered at once.                   *)
BeginFolders(refresh) ==
    /\ FoldersOf(library) = {} \/ refresh
    /\ Begin("folders", "sending", "list", 0)

(* device.presets                                                          *)
BeginPresets(refresh) ==
    /\ ListOf(library, Setlist) = {} \/ refresh
    /\ Begin("presets", "sending", "list", 0)

(* device.presetSlots: waits for the active setlist when it is not known.  *)
BeginSlots ==
    /\ SlotsOf(library, Setlist) = {}
    /\ Begin("slots", "sending", "list", 0)

(* device.savePresetAs: an occupied slot is to be confirmed.               *)
BeginSave(position, confirmed) ==
    /\ Entry(library, Setlist, position) = {} \/ confirmed
    /\ Begin("save", "sending", "save", position)

AnswerListing ==
    /\ call.at = "sent" /\ call.kind \in {"folders", "presets"}
    /\ Answer(TRUE, "none")
    /\ UNCHANGED <<deviceVars, workerVars, inbox, counts, past>>

(* wait_for_preset_list                                                    *)
Subscribe ==
    /\ call.at = "sent" /\ call.kind = "slots"
    /\ call' = [call EXCEPT !.at = "looking"]
    /\ UNCHANGED <<deviceVars, workerVars, inbox, told, counts, past>>

Look ==
    /\ call.at = "looking"
    /\ IF SlotsOf(library, Setlist) # {} THEN Answer(TRUE, "none")
       ELSE call' = [call EXCEPT !.at = "waiting"] /\ UNCHANGED told
    /\ UNCHANGED <<deviceVars, workerVars, inbox, counts, past>>

WakeUp ==
    /\ call.at = "waiting" /\ call.heard
    /\ call' = [call EXCEPT !.at = "looking", !.heard = FALSE]
    /\ UNCHANGED <<deviceVars, workerVars, inbox, told, counts, past>>

(* The time is up when a look found nothing: there is no other look,       *)
(* whatever was heard meanwhile ...                                        *)
DeadlinePassed ==
    /\ call.at = "waiting"
    /\ Answer(FALSE, "not loaded")
    /\ UNCHANGED <<deviceVars, workerVars, inbox, counts, past>>

(* ... or while nothing comes: the library is looked at once more.         *)
WaitEnds ==
    /\ call.at = "waiting" /\ ~call.heard
    /\ Answer(SlotsOf(library, Setlist) # {}, "not loaded")
    /\ UNCHANGED <<deviceVars, workerVars, inbox, counts, past>>

(* create_backup asks for the master volume and waits for a frame with it. *)
Resynchronize ==
    /\ call.at = "resync"
    /\ call' = [call EXCEPT !.at = "sending"]
    /\ inbox' = Append(inbox, Command("volume", call.of, 0))
    /\ UNCHANGED <<deviceVars, workerVars, told, counts, past>>

Resynchronized ==
    /\ call.kind = "backup" /\ call.heard
    /\ Answer(TRUE, "none")
    /\ UNCHANGED <<deviceVars, workerVars, inbox, counts, past>>

(* The save is verified (Gateway) and recorded.                            *)
RecordSave ==
    /\ call.kind = "save" /\ call.heard
    /\ library' = RecordSaved(library, Setlist, call.position, BySave)
    /\ past' = [past EXCEPT !.offered = IF @ = past.saved - 1 THEN past.saved ELSE @]
    /\ Answer(TRUE, "none")
    /\ UNCHANGED <<deviceVars, worker, inbox, seen, counts>>

(* A wait of the caller ends without its answer.                           *)
GiveUp ==
    /\ call.at \in {"asking", "sending", "sent", "resync"}
    /\ Event
    /\ Answer(FALSE, "gave up")
    /\ UNCHANGED <<deviceVars, workerVars, inbox, past>>

-----------------------------------------------------------------------------
TransfersNext ==
    \/ StartBackup \/ SendChunk \/ TellListings \/ TellVolume \/ StorePreset
    \/ TouchPresets \/ TouchVolume \/ DropReport
    \/ TakeSend \/ TakeBackup \/ ReadFails \/ Read \/ Tell \/ TakeIn
    \/ SetAside \/ Collect \/ CompleteDocument \/ RefuseDocument
    \/ BackupReadFails \/ Stall \/ Deliver \/ Reopen
    \/ BeginBackup \/ BeginSlots
    \/ \E refresh \in BOOLEAN : BeginFolders(refresh) \/ BeginPresets(refresh)
    \/ \E p \in Positions, confirmed \in BOOLEAN : BeginSave(p, confirmed)
    \/ AnswerListing \/ Subscribe \/ Look \/ WakeUp \/ DeadlinePassed \/ WaitEnds
    \/ Resynchronize \/ Resynchronized \/ RecordSave \/ GiveUp

TransfersSpec == TransfersInit /\ [][TransfersNext]_transferVars

-----------------------------------------------------------------------------
(***************************************************************************)
(* Properties                                                              *)
(***************************************************************************)
(* A backup that is handed out is one document of the device from its      *)
(* first to its last chunk, however many transfers the device began,       *)
(* broke off or went on with; unless a report was dropped, which the       *)
(* chunks themselves do not show (create_backup, BackupAssembler::push).   *)
WholeBackup ==
    told.kind = "backup" /\ told.ok =>
        told.dropped \/ \E of \in 1 .. MaxCalls : told.doc = Document(of)

(* Of what is left of earlier transfers only a chunk that begins with a    *)
(* brace, the start of a document or a later chunk that happens to, spoils *)
(* a backup: a document is refused only when such a chunk was still to be  *)
(* read, or to be sent, as the backup was asked for.  Ends and fragments   *)
(* are left out, and a dropped report makes the backup fail otherwise      *)
(* (BackupAssembler::push, create_backup's read error).                    *)
OnlyBracesSpoil ==
    told.why = "invalid" => told.crossed

(* When the worker has read everything, the state decoder knows the volume *)
(* of the device, also after a backup whose messages were set aside;       *)
(* unless the last change was in a dropped report or in what a failed      *)
(* backup had set aside, which nobody asks for again.                      *)
FreshWhenQuiet ==
    Free /\ wire = <<>> => seen = dev.volume \/ past.lost = dev.volume

(* A setlist the device told of after its last change, in a listing no     *)
(* shorter than the known one, or that only the broker's recorded saves    *)
(* changed since, is shown as it is on the device.                         *)
LibraryIsTrue ==
    /\ Setlist \in DOMAIN library
    /\ past.offered = past.version
    => library[Setlist] = dev.files

=============================================================================
