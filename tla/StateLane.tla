----------------------------- MODULE StateLane -----------------------------
(***************************************************************************)
(* The state lane of the native device broker: how a message of the device *)
(* becomes state that a gateway call or a client can see                   *)
(* (services/device-broker/src/worker.rs: ingest_incoming, the connected   *)
(* branch of run, run_state_decoder and its metadata thread,               *)
(* publish_state_frame, and the readers of DeviceController).              *)
(*                                                                         *)
(* Three threads share the lane.  The worker owns the link: it tags what   *)
(* the device sends with its generation and posts it to the decoder.  The  *)
(* decoder applies messages to the gateway snapshot and publishes frames:  *)
(* into a bounded log, which clients poll by sequence number, and to the   *)
(* bounded queues of subscribers.  The metadata thread parses model        *)
(* repositories, at most one of which waits.  Each shared structure has    *)
(* its own lock, so a step here is what happens under one lock.            *)
(*                                                                         *)
(* How the link itself lives is the module BrokerWorker; here it comes and *)
(* goes.                                                                   *)
(***************************************************************************)
EXTENDS Integers, Sequences, FiniteSets

CONSTANTS
    Subscribers,    \* threads that subscribe to state frames
    LogLimit,       \* STATE_EVENT_MAXIMUM_LIMIT
    QueueLimit,     \* SUBSCRIBER_QUEUE_CAPACITY
    MaxMessages,    \* messages the worker reads
    MaxGenerations  \* times the worker starts a generation

ASSUME LaneAssumption ==
    /\ LogLimit \in Nat \ {0}
    /\ QueueLimit \in Nat \ {0}
    /\ MaxMessages \in Nat
    /\ MaxGenerations \in Nat

VARIABLES
    link,       \* the link the worker owns, 0: none
    links,      \* links so far
    generation, \* state_generation
    phase,      \* BrokerStatus.phase
    step,       \* where the worker is
    message,    \* the message it ingests
    library,    \* the preset library holds the listing
    messages,   \* messages read so far
    queue,      \* the decoder's channel
    decoding,   \* the decoder's generation
    at,         \* where the decoder is
    frame,      \* the frame it publishes
    snapshot,   \* gateway_snapshot
    decoder,    \* what the StateDecoder holds: preset and catalog
    next,       \* next_sequence
    log,        \* state_event_log
    waiting,    \* payloads in the metadata thread's channel
    parsing,    \* payloads the metadata thread parses
    subs,       \* the subscribers
    cursor,     \* the last sequence number a polling client has seen
    received    \* the frames it has received

workerVars   == <<link, links, generation, phase, step, message, library, messages>>
decoderVars  == <<queue, decoding, at, frame, snapshot, decoder, next, log>>
metadataVars == <<waiting, parsing>>
readerVars   == <<subs, cursor, received>>
laneVars == <<workerVars, decoderVars, metadataVars, readerVars>>

-----------------------------------------------------------------------------
(* Messages: the active preset, other live state (the tempo, the label or  *)
(* colour of a scene), a model repository, a directory listing.  A message *)
(* is known by its number, and so is the state it tells.                   *)
Kinds == {"preset", "live", "models", "listing"}
Message == [kind : Kinds, link : Nat, number : Nat]
NoMessage == [kind |-> "listing", link |-> 0, number |-> 0]

(* StateDecoderCommand: Reset, Message and Catalog.                        *)
Command ==
    [kind : {"reset", "message", "catalog"}, generation : Nat, body : Message]

(* The snapshot: the message its state was told by, and has_preset.        *)
Snapshot == [link : Nat, number : Nat, preset : BOOLEAN]
NoSnapshot == [link |-> 0, number |-> 0, preset |-> FALSE]

(* The StateDecoder keeps the last preset and the catalog it was given.    *)
Decoder == [preset : Message, catalog : Message]
NewDecoder == [preset |-> NoMessage, catalog |-> NoMessage]

Frame == [sequence : Nat, link : Nat, number : Nat]
NoFrame == [sequence |-> 0, link |-> 0, number |-> 0]

(* A subscriber looks at the snapshot, waits for a frame, looks again; saw *)
(* is what it last looked at.                                              *)
Subscriber ==
    [doing : {"away", "look", "wait"}, queue : Seq(Frame), saw : Snapshot]
Away == [doing |-> "away", queue |-> <<>>, saw |-> NoSnapshot]

TypeOK ==
    /\ {link, links, generation, messages, decoding, next, cursor} \subseteq Nat
    /\ phase \in {"searching", "disconnected", "connecting", "syncing", "ready", "error"}
    /\ step \in {"loop", "started", "shown", "told", "posted", "filed"}
    /\ message \in Message
    /\ library \in BOOLEAN
    /\ queue \in Seq(Command)
    /\ at \in {"receive", "cleared", "applied", "logged"}
    /\ frame \in Frame
    /\ snapshot \in Snapshot
    /\ decoder \in Decoder
    /\ log \in Seq(Frame) /\ Len(log) <= LogLimit
    /\ \A c \in waiting \cup parsing : c \in Command
    /\ Cardinality(waiting) <= 1
    /\ \A s \in Subscribers : subs[s] \in Subscriber /\ Len(subs[s].queue) <= QueueLimit
    /\ received \subseteq Frame

LaneInit ==
    /\ link = 0 /\ links = 0 /\ generation = 0
    /\ phase = "searching" /\ step = "loop"
    /\ message = NoMessage /\ library = FALSE /\ messages = 0
    /\ queue = <<>> /\ decoding = 0 /\ at = "receive" /\ frame = NoFrame
    /\ snapshot = NoSnapshot /\ decoder = NewDecoder /\ next = 1 /\ log = <<>>
    /\ waiting = {} /\ parsing = {}
    /\ subs = [s \in Subscribers |-> Away]
    /\ cursor = 0 /\ received = {}

-----------------------------------------------------------------------------
(***************************************************************************)
(* The worker                                                              *)
(***************************************************************************)
Reset(g) == [kind |-> "reset", generation |-> g, body |-> NoMessage]
Told(g, m) == [kind |-> "message", generation |-> g, body |-> m]

StartGeneration ==
    /\ generation < MaxGenerations
    /\ generation' = generation + 1
    /\ queue' = Append(queue, Reset(generation'))

(* Command::Reconnect that is not satisfied, and Command::Disconnect: the  *)
(* link is closed, the library cleared and the decoder told to start over. *)
CloseSession ==
    /\ step = "loop"
    /\ StartGeneration
    /\ link' = 0
    /\ library' = FALSE
    /\ phase' \in {"searching", "disconnected"}
    /\ UNCHANGED <<links, step, message, messages, decoding, at, frame, snapshot,
                   decoder, next, log, metadataVars, readerVars>>

(* Reads fail: the link is gone, and nothing else is.                      *)
LoseLink ==
    /\ step = "loop" /\ link # 0
    /\ link' = 0
    /\ phase' = "searching"
    /\ UNCHANGED <<links, generation, step, message, library, messages,
                   decoderVars, metadataVars, readerVars>>

(* connect is called, and fails.                                           *)
ConnectFails ==
    /\ step = "loop" /\ link = 0
    /\ phase' \in {"connecting", "searching", "error"}
    /\ UNCHANGED <<link, links, generation, step, message, library, messages,
                   decoderVars, metadataVars, readerVars>>

(* connect returned: the decoder starts over before the status tells.      *)
Connected ==
    /\ step = "loop" /\ link = 0
    /\ StartGeneration
    /\ links' = links + 1
    /\ link' = links'
    /\ step' = "started"
    /\ UNCHANGED <<phase, message, library, messages, decoding, at, frame, snapshot,
                   decoder, next, log, metadataVars, readerVars>>

(* install_connection_status.                                              *)
InstallStatus ==
    /\ step = "started"
    /\ phase' \in {"syncing", "ready"}
    /\ step' = "shown"
    /\ UNCHANGED <<link, links, generation, message, library, messages, decoderVars,
                   metadataVars, readerVars>>

(* The messages of the handshake are posted to the decoder, among them the *)
(* preset when the status says ready.                                      *)
Seed ==
    /\ step = "shown"
    /\ step' = "loop"
    /\ \/ /\ phase # "ready"
          /\ UNCHANGED <<queue, messages>>
       \/ /\ messages' = messages + 1
          /\ queue' = Append(queue, Told(generation,
                         [kind |-> "preset", link |-> link, number |-> messages']))
    /\ UNCHANGED <<link, links, generation, phase, message, library, decoding, at, frame,
                   snapshot, decoder, next, log, metadataVars, readerVars>>

(* ingest_incoming begins: update_message, the caches, the raw log and its *)
(* subscribers.                                                            *)
Ingest(kind) ==
    /\ step = "loop" /\ link # 0
    /\ messages < MaxMessages
    /\ messages' = messages + 1
    /\ message' = [kind |-> kind, link |-> link, number |-> messages']
    /\ phase' = IF kind = "preset" THEN "ready" ELSE phase
    /\ step' = "told"
    /\ UNCHANGED <<link, links, generation, library, decoderVars, metadataVars, readerVars>>

PostMessage ==
    /\ step = "told"
    /\ step' = "posted"
    /\ queue' = Append(queue, Told(generation, message))
    /\ UNCHANGED <<link, links, generation, phase, message, library, messages, decoding, at,
                   frame, snapshot, decoder, next, log, metadataVars, readerVars>>

(* A listing goes into the preset library; then deliver_pending.           *)
FileListing ==
    /\ step = "posted"
    /\ step' = "loop"
    /\ library' = (library \/ message.kind = "listing")
    /\ message' = NoMessage
    /\ UNCHANGED <<link, links, generation, phase, messages, decoderVars, metadataVars,
                   readerVars>>

-----------------------------------------------------------------------------
(***************************************************************************)
(* The decoder                                                             *)
(***************************************************************************)
Receive(kind) ==
    /\ at = "receive" /\ queue # <<>>
    /\ Head(queue).kind = kind
    /\ queue' = Tail(queue)

StartOverCounting ==
    /\ Receive("reset")
    /\ decoding' = Head(queue).generation
    /\ decoder' = NewDecoder
    /\ log' = <<>>
    /\ next' = 1
    /\ at' = "cleared"
    /\ UNCHANGED <<workerVars, frame, snapshot, metadataVars, readerVars>>

(* Reset: the decoder and the log, then the snapshot.                      *)
StartOver ==
    /\ Receive("reset")
    /\ decoding' = Head(queue).generation
    /\ decoder' = NewDecoder
    /\ log' = <<>>
    /\ at' = "cleared"
    /\ UNCHANGED <<workerVars, frame, snapshot, next, metadataVars, readerVars>>

ClearSnapshot ==
    /\ at = "cleared"
    /\ snapshot' = NoSnapshot
    /\ at' = "receive"
    /\ UNCHANGED <<workerVars, queue, decoding, frame, decoder, next, log, metadataVars,
                   readerVars>>

NeverOutdated(command) == FALSE

(* What was told before the current generation is dropped.                 *)
Outdated(command) == command.generation # decoding

DropOutdated ==
    /\ Receive("message") \/ Receive("catalog")
    /\ Outdated(Head(queue))
    /\ UNCHANGED <<workerVars, decoding, at, frame, snapshot, decoder, next, log,
                   metadataVars, readerVars>>

(* A message that is no state: it decodes to nothing, or not at all.       *)
DecodeNothing ==
    /\ Receive("message")
    /\ ~Outdated(Head(queue))
    /\ Head(queue).body.kind # "models"
    /\ UNCHANGED <<workerVars, decoding, at, frame, snapshot, decoder, next, log,
                   metadataVars, readerVars>>

(* The states of a message go into the snapshot, and the frame is made.    *)
Publishing(m) ==
    /\ frame' = [sequence |-> next, link |-> m.link, number |-> m.number]
    /\ at' = "applied"
    /\ UNCHANGED <<workerVars, decoding, next, log, readerVars>>

Applying(m, preset) ==
    /\ snapshot' = [link |-> m.link, number |-> m.number, preset |-> preset]
    /\ Publishing(m)

DecodeState ==
    /\ Receive("message")
    /\ ~Outdated(Head(queue))
    /\ LET m == Head(queue).body
       IN  \/ /\ m.kind = "preset"
              /\ decoder' = [decoder EXCEPT !.preset = m]
              /\ Applying(m, TRUE)
           \/ /\ m.kind = "live"
              /\ UNCHANGED decoder
              /\ Applying(m, snapshot.preset)
    /\ UNCHANGED metadataVars

(* A tick of the tempo clock has a frame of its own and no state.          *)
DecodeClock ==
    /\ Receive("message")
    /\ ~Outdated(Head(queue))
    /\ Head(queue).body.kind = "live"
    /\ Publishing(Head(queue).body)
    /\ UNCHANGED <<snapshot, decoder, metadataVars>>

(* A model repository goes to the metadata thread if its channel has room. *)
OfferModels ==
    /\ Receive("message")
    /\ ~Outdated(Head(queue))
    /\ Head(queue).body.kind = "models"
    /\ waiting' = IF waiting = {} THEN {Head(queue)} ELSE waiting
    /\ UNCHANGED <<workerVars, decoding, at, frame, snapshot, decoder, next, log, parsing,
                   readerVars>>

InstallCatalogQuietly ==
    /\ Receive("catalog")
    /\ ~Outdated(Head(queue))
    /\ decoder' = [decoder EXCEPT !.catalog = Head(queue).body]
    /\ snapshot' = IF decoder.preset = NoMessage THEN snapshot
                   ELSE [link |-> decoder.preset.link, number |-> decoder.preset.number,
                         preset |-> TRUE]
    /\ UNCHANGED <<workerVars, decoding, at, frame, next, log, metadataVars, readerVars>>

(* install_catalog: the preset the decoder keeps is told again.            *)
InstallCatalog ==
    /\ Receive("catalog")
    /\ ~Outdated(Head(queue))
    /\ decoder' = [decoder EXCEPT !.catalog = Head(queue).body]
    /\ \/ /\ decoder.preset # NoMessage
          /\ Applying(decoder.preset, TRUE)
       \/ /\ decoder.preset = NoMessage
          /\ UNCHANGED <<workerVars, decoding, at, frame, snapshot, next, log, readerVars>>
    /\ UNCHANGED metadataVars

(* publish_state_frame.                                                    *)
LastFrames(frames) == SubSeq(frames, Len(frames) - LogLimit + 1, Len(frames))
Trimmed(frames) == IF Len(frames) > LogLimit THEN LastFrames(frames) ELSE frames

LogFrame ==
    /\ at = "applied"
    /\ log' = Trimmed(Append(log, frame))
    /\ at' = "logged"
    /\ UNCHANGED <<workerVars, queue, decoding, frame, snapshot, decoder, next, metadataVars,
                   readerVars>>

(* A subscriber whose queue is full does not get the frame.                *)
Notified(sub) ==
    IF sub.doing # "away" /\ Len(sub.queue) < QueueLimit
    THEN [sub EXCEPT !.queue = Append(@, frame)]
    ELSE sub

NotifySubscribers ==
    /\ at = "logged"
    /\ subs' = [s \in Subscribers |-> Notified(subs[s])]
    /\ next' = next + 1
    /\ frame' = NoFrame
    /\ at' = "receive"
    /\ UNCHANGED <<workerVars, queue, decoding, snapshot, decoder, log, metadataVars, cursor,
                   received>>

-----------------------------------------------------------------------------
(***************************************************************************)
(* The metadata thread                                                     *)
(***************************************************************************)
TakeModelsAtOnce ==
    /\ waiting # {}
    /\ parsing' = parsing \cup waiting
    /\ waiting' = {}
    /\ UNCHANGED <<workerVars, decoderVars, readerVars>>

TakeModels ==
    /\ parsing = {} /\ waiting # {}
    /\ parsing' = waiting
    /\ waiting' = {}
    /\ UNCHANGED <<workerVars, decoderVars, readerVars>>

(* The payload is parsed, or does not parse.                               *)
ParseModels ==
    \E c \in parsing :
        /\ parsing' = parsing \ {c}
        /\ \/ queue' = Append(queue, [c EXCEPT !.kind = "catalog"])
           \/ UNCHANGED queue
        /\ UNCHANGED <<workerVars, decoding, at, frame, snapshot, decoder, next, log, waiting,
                       readerVars>>

-----------------------------------------------------------------------------
(***************************************************************************)
(* The readers                                                             *)
(***************************************************************************)
SetSub(s, sub) ==
    /\ subs' = [subs EXCEPT ![s] = sub]
    /\ UNCHANGED <<workerVars, decoderVars, metadataVars, cursor, received>>

(* wait_for_gateway_snapshot: subscribe, look at the snapshot, wait for a  *)
(* frame, look again; until the snapshot is the one waited for or the time *)
(* is over.                                                                *)
Subscribe(s) ==
    /\ subs[s].doing = "away"
    /\ SetSub(s, [Away EXCEPT !.doing = "look"])

Look(s) ==
    /\ subs[s].doing = "look"
    /\ SetSub(s, [subs[s] EXCEPT !.doing = "wait", !.saw = snapshot])

WakeUp(s) ==
    /\ subs[s].doing = "wait" /\ subs[s].queue # <<>>
    /\ SetSub(s, [subs[s] EXCEPT !.doing = "look", !.queue = Tail(@)])

Leave(s) ==
    /\ subs[s].doing = "wait"
    /\ SetSub(s, Away)

(* state_events_since: a client polls from the last sequence it has seen.  *)
(* It gets the first of them, up to its limit.                             *)
News == {i \in DOMAIN log : log[i].sequence > cursor}

Poll ==
    \E last \in News :
        /\ cursor' = log[last].sequence
        /\ received' = received \cup {log[i] : i \in {n \in News : n <= last}}
        /\ UNCHANGED <<workerVars, decoderVars, metadataVars, subs>>

-----------------------------------------------------------------------------
Worker ==
    \/ CloseSession
    \/ LoseLink
    \/ ConnectFails
    \/ Connected
    \/ InstallStatus
    \/ Seed
    \/ \E kind \in Kinds : Ingest(kind)
    \/ PostMessage
    \/ FileListing

Decode ==
    \/ StartOver
    \/ ClearSnapshot
    \/ DropOutdated
    \/ DecodeNothing
    \/ DecodeState
    \/ DecodeClock
    \/ OfferModels
    \/ InstallCatalog
    \/ LogFrame
    \/ NotifySubscribers

Metadata == TakeModels \/ ParseModels

Readers ==
    \/ \E s \in Subscribers : Subscribe(s) \/ Look(s) \/ WakeUp(s) \/ Leave(s)
    \/ Poll

Init == LaneInit
Next == Worker \/ Decode \/ Metadata \/ Readers
Spec == Init /\ [][Next]_laneVars

-----------------------------------------------------------------------------
(***************************************************************************)
(* Safety                                                                  *)
(***************************************************************************)

(* Once the decoder has caught up with the worker's generation, all that   *)
(* readers can see was told by the link the worker owns: the log, the      *)
(* snapshot, the preset and the catalog the decoder keeps, whatever was in *)
(* the channels or being parsed when the link changed.                     *)
LaneTellsLink ==
    link # 0 /\ decoding = generation =>
        /\ \A i \in DOMAIN log : log[i].link = link
        /\ {decoder.preset.link, decoder.catalog.link} \subseteq {0, link}
        /\ at # "cleared" => snapshot.link \in {0, link}

(* latest_state_sequence, the bound by which a write tells fresh frames    *)
(* from old ones, is the last sequence number published in the generation, *)
(* and the log misses none before it.                                      *)
LatestSequenceIsLast ==
    at # "logged" =>
        \A i \in DOMAIN log : log[i].sequence = next - 1 - (Len(log) - i)

(* A polling client misses no frame the log still holds: none it has not   *)
(* received hides behind its cursor, across generations too.               *)
PollMissesNothing ==
    \A i \in DOMAIN log : log[i].sequence <= cursor => log[i] \in received

(* Nobody sleeps through a change of the snapshot: a waiter with nothing   *)
(* to read has looked at the snapshot as it is, or the decoder is about to *)
(* wake it.                                                                *)
NoMissedWakeup ==
    \A s \in Subscribers :
        subs[s].doing = "wait" /\ subs[s].queue = <<>> /\ at \notin {"applied", "logged"} =>
            subs[s].saw = snapshot \/ at = "cleared" \/ ~snapshot.preset

(* Within a link a catalog is only ever replaced by a later one, although  *)
(* parsing takes its time and refreshes may be dropped.                    *)
CatalogsAdvance ==
    [][decoder'.catalog.link = decoder.catalog.link
          => decoder'.catalog.number >= decoder.catalog.number]_laneVars

(* "Touchscreen changes are treated as authoritative external events and   *)
(* update the UI." (docs/WINDOWS_IMPLEMENTATION_PLAN.md:311): what the     *)
(* device told of its state is not undone by what it told before.          *)
TouchscreenChangesStick ==
    [][snapshot'.link = snapshot.link => snapshot'.number >= snapshot.number]_laneVars

=============================================================================
