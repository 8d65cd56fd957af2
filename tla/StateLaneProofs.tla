-------------------------- MODULE StateLaneProofs --------------------------
(***************************************************************************)
(* Proofs about StateLane, for any subscribers, limits and numbers of      *)
(* messages and generations: the threads of the lane keep their types,     *)
(* frames are numbered without gaps, pollers miss nothing that is kept,    *)
(* what can be seen is of the worker's link, nobody sleeps through a       *)
(* change, and catalogs only advance.                                      *)
(***************************************************************************)
EXTENDS StateLane, SequenceTheorems, FiniteSetTheorems, TLAPS

(* What a queue looks like after its first element is taken, and after an  *)
(* element is added.                                                       *)
LEMMA Taken ==
    ASSUME NEW S, NEW s \in Seq(S), s # <<>>
    PROVE  /\ Head(s) \in S /\ Head(s) = s[1] /\ 1 \in DOMAIN s
           /\ Len(s) \in Nat /\ Len(s) >= 1 /\ DOMAIN s = 1..Len(s)
           /\ Tail(s) \in Seq(S)
           /\ Len(Tail(s)) = Len(s) - 1
           /\ \A j \in DOMAIN Tail(s) :
                 j \in Nat /\ j >= 1 /\ j + 1 \in DOMAIN s /\ Tail(s)[j] = s[j + 1]
<1>1. Tail(s) \in Seq(S) /\ Len(Tail(s)) = Len(s) - 1 /\ Head(s) \in S
      /\ \A i \in 1..Len(Tail(s)) : Tail(s)[i] = s[i + 1]
  BY HeadTailProperties
<1>2. DOMAIN s = 1..Len(s) /\ DOMAIN Tail(s) = 1..Len(Tail(s)) /\ Len(s) \in Nat
  BY <1>1, LenProperties
<1>3. Len(s) >= 1
  BY <1>2, EmptySeq
<1> QED
  BY <1>1, <1>2, <1>3

LEMMA Added ==
    ASSUME NEW S, NEW s \in Seq(S), NEW e \in S
    PROVE  /\ Append(s, e) \in Seq(S)
           /\ Len(s) \in Nat /\ DOMAIN s = 1..Len(s)
           /\ Len(Append(s, e)) = Len(s) + 1
           /\ DOMAIN Append(s, e) = 1..Len(s) + 1
           /\ \A j \in DOMAIN Append(s, e) :
                 \/ j \in DOMAIN s /\ Append(s, e)[j] = s[j]
                 \/ j = Len(s) + 1 /\ Append(s, e)[j] = e
<1>1. Append(s, e) \in Seq(S) /\ Len(Append(s, e)) = Len(s) + 1
  BY AppendProperties
<1>2. DOMAIN s = 1..Len(s) /\ Len(s) \in Nat /\ DOMAIN Append(s, e) = 1..Len(Append(s, e))
  BY <1>1, LenProperties
<1> QED
  BY <1>1, <1>2, AppendProperties

-----------------------------------------------------------------------------
(***************************************************************************)
(* Types                                                                   *)
(***************************************************************************)
WorkerTypes ==
    /\ {link, links, generation, messages} \subseteq Nat
    /\ phase \in {"searching", "disconnected", "connecting", "syncing", "ready", "error"}
    /\ step \in {"loop", "started", "shown", "told", "posted", "filed"}
    /\ message \in Message
    /\ library \in BOOLEAN

DecoderTypes ==
    /\ decoding \in Nat /\ next \in Nat
    /\ at \in {"receive", "cleared", "applied", "logged"}
    /\ frame \in Frame /\ snapshot \in Snapshot /\ decoder \in Decoder

LogTypes == log \in Seq(Frame) /\ Len(log) <= LogLimit

AtMostOne(S) == S = {} \/ \E c \in Command : S = {c}
MetadataTypes == AtMostOne(waiting) /\ AtMostOne(parsing)

ReaderTypes ==
    /\ cursor \in Nat /\ received \subseteq Frame
    /\ subs \in [Subscribers -> Subscriber]
    /\ \A s \in Subscribers : Len(subs[s].queue) <= QueueLimit

Types ==
    WorkerTypes /\ queue \in Seq(Command) /\ DecoderTypes /\ LogTypes /\ MetadataTypes /\ ReaderTypes

LEMMA TypesInit == Init => Types
<1> SUFFICES ASSUME Init
             PROVE  Types
  OBVIOUS
<1> USE DEF Init, LaneInit
<1>1. WorkerTypes
  <2>1. library \in BOOLEAN
    BY Zenon
  <2>2. message \in Message
    BY DEF NoMessage, Message, Kinds
  <2> QED
    BY <2>1, <2>2 DEF WorkerTypes
<1>2. queue \in Seq(Command) /\ LogTypes
  BY LaneAssumption, EmptySeq DEF LogTypes
<1>3. DecoderTypes
  BY DEF DecoderTypes, NoFrame, Frame, NoSnapshot, Snapshot, NewDecoder, Decoder,
         NoMessage, Message, Kinds
<1>4. MetadataTypes
  BY DEF MetadataTypes, AtMostOne
<1>5. ReaderTypes
  <2>1. Away \in Subscriber /\ Len(Away.queue) = 0
    BY EmptySeq DEF Away, Subscriber, NoSnapshot, Snapshot
  <2> QED
    BY <2>1, LaneAssumption DEF ReaderTypes
<1> QED
  BY <1>1, <1>2, <1>3, <1>4, <1>5 DEF Types

LEMMA WorkerTypesStep ==
    ASSUME WorkerTypes, Worker
    PROVE  WorkerTypes'
<1> USE DEF WorkerTypes
<1>1. CASE CloseSession
  <2>1. generation' = generation + 1
    BY <1>1 DEF CloseSession, StartGeneration
  <2>2. library' \in BOOLEAN
    BY <1>1, Zenon DEF CloseSession
  <2> QED
    BY <1>1, <2>1, <2>2 DEF CloseSession
<1>2. CASE LoseLink \/ ConnectFails \/ InstallStatus \/ PostMessage
  BY <1>2 DEF LoseLink, ConnectFails, InstallStatus, PostMessage
<1>3. CASE Connected
  BY <1>3 DEF Connected, StartGeneration
<1>4. CASE Seed
  BY <1>4 DEF Seed
<1>5. ASSUME NEW kind \in Kinds, Ingest(kind)
      PROVE  WorkerTypes'
  <2>1. message' = [kind |-> kind, link |-> link, number |-> messages + 1]
    BY <1>5 DEF Ingest
  <2>2. message' \in Message
    BY <2>1 DEF Message
  <2> QED
    BY <1>5, <2>2 DEF Ingest
<1>6. CASE FileListing
  <2>1. message' \in Message
    BY <1>6 DEF FileListing, NoMessage, Message, Kinds
  <2>2. library' \in BOOLEAN
    BY <1>6, Zenon DEF FileListing
  <2> QED
    BY <1>6, <2>1, <2>2 DEF FileListing
<1> QED
  BY <1>1, <1>2, <1>3, <1>4, <1>5, <1>6 DEF Worker

LEMMA CommandTypes ==
    /\ \A g \in Nat : Reset(g) \in Command
    /\ \A g \in Nat, m \in Message : Told(g, m) \in Command
    /\ \A c \in Command : [c EXCEPT !.kind = "catalog"] \in Command
<1>1. NoMessage \in Message
  BY DEF NoMessage, Message, Kinds
<1> QED
  BY <1>1 DEF Reset, Told, Command

LEMMA QueueTypesStep ==
    ASSUME Types, Next
    PROVE  queue' \in Seq(Command)
<1> USE DEF Types
<1>1. \A c \in Command : Append(queue, c) \in Seq(Command)
  BY Added
<1>2. queue # <<>> => Tail(queue) \in Seq(Command)
  BY Taken
<1>3. CASE Worker
  <2>1. ASSUME StartGeneration
        PROVE  queue' \in Seq(Command)
    BY <2>1, <1>1, CommandTypes DEF StartGeneration, WorkerTypes
  <2>2. CASE CloseSession \/ Connected
    BY <2>1, <2>2 DEF CloseSession, Connected
  <2>3. CASE LoseLink \/ ConnectFails \/ InstallStatus \/ FileListing \/ \E kind \in Kinds : Ingest(kind)
    BY <2>3 DEF LoseLink, ConnectFails, InstallStatus, FileListing, Ingest, decoderVars
  <2>4. CASE Seed
    <3>1. CASE queue' = queue
      BY <3>1
    <3>2. CASE queue' # queue
      <4> DEFINE m == [kind |-> "preset", link |-> link, number |-> messages']
      <4>1. queue' = Append(queue, Told(generation, m)) /\ messages' = messages + 1
        BY <2>4, <3>2 DEF Seed
      <4>2. m \in Message
        BY <4>1 DEF Message, Kinds, WorkerTypes
      <4> HIDE DEF m
      <4> QED
        BY <1>1, <4>1, <4>2, CommandTypes DEF WorkerTypes
    <3> QED
      BY <3>1, <3>2
  <2>5. CASE PostMessage
    BY <1>1, <2>5, CommandTypes DEF PostMessage, WorkerTypes
  <2> QED
    BY <1>3, <2>2, <2>3, <2>4, <2>5 DEF Worker
<1>4. CASE Decode
  <2>1. CASE \E kind \in {"reset", "message", "catalog"} : Receive(kind)
    BY <1>2, <2>1 DEF Receive
  <2>2. CASE ClearSnapshot \/ LogFrame \/ NotifySubscribers
    BY <2>2 DEF ClearSnapshot, LogFrame, NotifySubscribers
  <2> QED
    BY <1>4, <2>1, <2>2
       DEF Decode, StartOver, DropOutdated, DecodeNothing, DecodeState, DecodeClock,
           OfferModels, InstallCatalog
<1>5. CASE Metadata
  <2>1. CASE TakeModels
    BY <2>1 DEF TakeModels, decoderVars
  <2>2. CASE ParseModels
    <3>1. PICK c \in parsing :
            queue' = Append(queue, [c EXCEPT !.kind = "catalog"]) \/ queue' = queue
      BY <2>2 DEF ParseModels
    <3>2. c \in Command
      BY DEF MetadataTypes, AtMostOne
    <3> QED
      BY <1>1, <3>1, <3>2, CommandTypes
  <2> QED
    BY <1>5, <2>1, <2>2 DEF Metadata
<1>6. CASE Readers
  BY <1>6 DEF Readers, Subscribe, Look, WakeUp, Leave, SetSub, Poll, decoderVars
<1> QED
  BY <1>3, <1>4, <1>5, <1>6 DEF Next

(* What the decoder receives, and what follows from it.                    *)
LEMMA DecoderTypesStep ==
    ASSUME Types, Decode
    PROVE  DecoderTypes'
<1> USE DEF Types, DecoderTypes
<1>0. NoMessage \in Message /\ NoFrame \in Frame /\ NoSnapshot \in Snapshot
  BY DEF NoMessage, Message, Kinds, NoFrame, Frame, NoSnapshot, Snapshot
<1>1. queue # <<>> => Head(queue) \in Command
  BY Taken
<1>2. queue # <<>> => Head(queue).generation \in Nat /\ Head(queue).body \in Message
  BY <1>1 DEF Command
<1>3. ASSUME NEW m \in Message, Publishing(m)
      PROVE  /\ frame' \in Frame /\ at' = "applied"
             /\ decoding' = decoding /\ next' = next
  BY <1>3 DEF Publishing, Frame, Message
<1>4. ASSUME NEW m \in Message, NEW preset \in BOOLEAN, Applying(m, preset)
      PROVE  snapshot' \in Snapshot /\ Publishing(m)
  BY <1>4 DEF Applying, Snapshot, Message
<1>5. snapshot.preset \in BOOLEAN /\ decoder.preset \in Message /\ decoder.catalog \in Message
  BY DEF Snapshot, Decoder
<1>6. CASE StartOver
  <2>1. decoder' \in Decoder
    BY <1>0, <1>6 DEF StartOver, NewDecoder, Decoder
  <2> QED
    BY <1>2, <1>6, <2>1 DEF StartOver, Receive
<1>7. CASE ClearSnapshot
  BY <1>0, <1>7 DEF ClearSnapshot
<1>8. CASE DropOutdated \/ DecodeNothing \/ OfferModels
  BY <1>8 DEF DropOutdated, DecodeNothing, OfferModels
<1>9. CASE DecodeState
  <2> DEFINE m == Head(queue).body
  <2>1. m \in Message
    BY <1>2, <1>9 DEF DecodeState, Receive
  <2>2. \/ decoder' = [decoder EXCEPT !.preset = m] /\ Applying(m, TRUE)
        \/ decoder' = decoder /\ Applying(m, snapshot.preset)
    BY <1>9 DEF DecodeState
  <2> HIDE DEF m
  <2>3. decoder' \in Decoder
    BY <2>1, <2>2 DEF Decoder
  <2>4. snapshot' \in Snapshot /\ Publishing(m)
    BY <1>4, <1>5, <2>1, <2>2
  <2> QED
    BY <1>3, <2>1, <2>3, <2>4
<1>10. CASE DecodeClock
  <2>1. Head(queue).body \in Message
    BY <1>2, <1>10 DEF DecodeClock, Receive
  <2>2. Publishing(Head(queue).body) /\ UNCHANGED <<snapshot, decoder>>
    BY <1>10 DEF DecodeClock
  <2> QED
    BY <1>3, <2>1, <2>2
<1>11. CASE InstallCatalog
  <2>1. decoder' \in Decoder
    <3>1. Head(queue).body \in Message /\ decoder' = [decoder EXCEPT !.catalog = Head(queue).body]
      BY <1>2, <1>11 DEF InstallCatalog, Receive
    <3> QED
      BY <3>1 DEF Decoder
  <2>2. CASE Applying(decoder.preset, TRUE)
    BY <1>3, <1>4, <1>5, <2>1, <2>2
  <2>3. CASE UNCHANGED <<decoding, at, frame, snapshot, next>>
    BY <2>1, <2>3
  <2> QED
    BY <1>11, <2>2, <2>3 DEF InstallCatalog
<1>12. CASE LogFrame
  BY <1>12 DEF LogFrame
<1>13. CASE NotifySubscribers
  BY <1>0, <1>13 DEF NotifySubscribers
<1> QED
  BY <1>6, <1>7, <1>8, <1>9, <1>10, <1>11, <1>12, <1>13 DEF Decode

(* Trimmed keeps the last frames, in their order.                          *)
LEMMA TrimmedShape ==
    ASSUME NEW s \in Seq(Frame), Len(s) <= LogLimit + 1
    PROVE  /\ Trimmed(s) \in Seq(Frame)
           /\ Len(Trimmed(s)) <= LogLimit /\ Len(Trimmed(s)) <= Len(s)
           /\ \A i \in DOMAIN Trimmed(s) :
                 /\ i + Len(s) - Len(Trimmed(s)) \in DOMAIN s
                 /\ Trimmed(s)[i] = s[i + Len(s) - Len(Trimmed(s))]
<1>1. Len(s) \in Nat /\ DOMAIN s = 1..Len(s) /\ LogLimit \in Nat \ {0}
  BY LenProperties, LaneAssumption
<1>2. CASE Len(s) <= LogLimit
  BY <1>1, <1>2 DEF Trimmed
<1>3. CASE Len(s) > LogLimit
  <2>1. Trimmed(s) = SubSeq(s, 2, Len(s))
    <3>1. Len(s) - LogLimit + 1 = 2
      BY <1>1, <1>3
    <3> QED
      BY <1>3, <3>1 DEF Trimmed, LastFrames
  <2>2. \A i \in 2..Len(s) : s[i] \in Frame
    BY <1>1, ElementOfSeq
  <2>3. /\ SubSeq(s, 2, Len(s)) \in Seq(Frame)
        /\ Len(SubSeq(s, 2, Len(s))) = IF 2 <= Len(s) THEN Len(s) - 2 + 1 ELSE 0
        /\ \A i \in 1..Len(s) - 2 + 1 : SubSeq(s, 2, Len(s))[i] = s[2 + i - 1]
    BY <1>1, <2>2, SubSeqProperties
  <2>4. Len(Trimmed(s)) = Len(s) - 1 /\ Trimmed(s) \in Seq(Frame)
        /\ \A i \in 1..Len(s) - 1 : Trimmed(s)[i] = s[i + 1]
    BY <1>1, <1>3, <2>1, <2>3
  <2>5. DOMAIN Trimmed(s) = 1..Len(s) - 1
    BY <2>4, LenProperties
  <2> QED
    BY <1>1, <1>3, <2>4, <2>5
<1> QED
  BY <1>1, <1>2, <1>3

LEMMA LogTypesStep ==
    ASSUME Types, Decode
    PROVE  LogTypes'
<1> USE DEF Types, LogTypes
<1>1. CASE StartOver
  BY <1>1, EmptySeq, LaneAssumption DEF StartOver
<1>2. CASE LogFrame
  <2>1. Append(log, frame) \in Seq(Frame) /\ Len(Append(log, frame)) = Len(log) + 1
        /\ Len(log) \in Nat
    BY Added DEF DecoderTypes
  <2>2. log' = Trimmed(Append(log, frame))
    BY <1>2 DEF LogFrame
  <2>3. Len(Append(log, frame)) <= LogLimit + 1
    BY <2>1, LaneAssumption
  <2>4. /\ Trimmed(Append(log, frame)) \in Seq(Frame)
        /\ Len(Trimmed(Append(log, frame))) <= LogLimit
    BY <2>1, <2>3, TrimmedShape
  <2> QED
    BY <2>2, <2>4
<1>3. CASE log' = log
  BY <1>3
<1> QED
  BY <1>1, <1>2, <1>3
     DEF Decode, ClearSnapshot, DropOutdated, DecodeNothing, DecodeState, DecodeClock,
         OfferModels, InstallCatalog, NotifySubscribers, Applying, Publishing

LEMMA MetadataTypesStep ==
    ASSUME Types, Next
    PROVE  MetadataTypes'
<1> USE DEF Types, MetadataTypes, AtMostOne
<1>1. CASE UNCHANGED metadataVars
  BY <1>1 DEF metadataVars
<1>2. CASE OfferModels
  <2>1. Head(queue) \in Command
    BY <1>2, Taken DEF OfferModels, Receive
  <2> QED
    BY <1>2, <2>1 DEF OfferModels
<1>3. CASE TakeModels
  BY <1>3 DEF TakeModels
<1>4. CASE ParseModels
  BY <1>4 DEF ParseModels
<1> QED
  BY <1>1, <1>2, <1>3, <1>4
     DEF Next, Worker, Decode, Metadata, Readers, CloseSession, LoseLink, ConnectFails,
         Connected, InstallStatus, Seed, Ingest, PostMessage, FileListing, StartOver,
         ClearSnapshot, DropOutdated, DecodeNothing, DecodeState, DecodeClock, InstallCatalog,
         LogFrame, NotifySubscribers, Subscribe, Look, WakeUp, Leave, SetSub, Poll, metadataVars

LEMMA ReaderTypesStep ==
    ASSUME Types, Next
    PROVE  ReaderTypes'
<1> USE DEF Types, ReaderTypes
<1>1. ASSUME NEW s \in Subscribers, NEW sub \in Subscriber, SetSub(s, sub),
             Len(sub.queue) <= QueueLimit
      PROVE  ReaderTypes'
  <2>1. subs' = [subs EXCEPT ![s] = sub] /\ cursor' = cursor /\ received' = received
    BY <1>1 DEF SetSub
  <2> QED
    BY <1>1, <2>1
<1>2. CASE UNCHANGED readerVars
  BY <1>2 DEF readerVars
<1>3. CASE NotifySubscribers
  <2>1. /\ subs' = [s \in Subscribers |-> Notified(subs[s])]
        /\ cursor' = cursor /\ received' = received
    BY <1>3 DEF NotifySubscribers
  <2>2. ASSUME NEW s \in Subscribers
        PROVE  Notified(subs[s]) \in Subscriber /\ Len(Notified(subs[s]).queue) <= QueueLimit
    <3> DEFINE sub == subs[s]
    <3>1. sub \in Subscriber /\ Len(sub.queue) <= QueueLimit
      OBVIOUS
    <3> HIDE DEF sub
    <3>2. sub.queue \in Seq(Frame)
      BY <3>1 DEF Subscriber
    <3>3. Append(sub.queue, frame) \in Seq(Frame) /\ Len(sub.queue) \in Nat
          /\ Len(Append(sub.queue, frame)) = Len(sub.queue) + 1
      BY <3>2, Added DEF DecoderTypes
    <3>4. CASE sub.doing # "away" /\ Len(sub.queue) < QueueLimit
      <4>1. Notified(sub) = [sub EXCEPT !.queue = Append(sub.queue, frame)]
        BY <3>4 DEF Notified
      <4>2. Notified(sub) \in Subscriber /\ Notified(sub).queue = Append(sub.queue, frame)
        BY <3>1, <3>3, <4>1 DEF Subscriber
      <4> QED
        BY <3>3, <3>4, <4>2, LaneAssumption DEF sub
    <3>5. CASE ~(sub.doing # "away" /\ Len(sub.queue) < QueueLimit)
      BY <3>1, <3>5 DEF Notified, sub
    <3> QED
      BY <3>4, <3>5
  <2> QED
    BY <2>1, <2>2
<1>4. ASSUME NEW s \in Subscribers, Subscribe(s) \/ Leave(s) \/ Look(s) \/ WakeUp(s)
      PROVE  ReaderTypes'
  <2> DEFINE sub == subs[s]
  <2>1. sub \in Subscriber /\ Len(sub.queue) <= QueueLimit
    OBVIOUS
  <2>2. CASE Subscribe(s) \/ Leave(s)
    <3> DEFINE look == [Away EXCEPT !.doing = "look"]
    <3>1. Away \in Subscriber /\ look \in Subscriber
      BY EmptySeq DEF Away, Subscriber, NoSnapshot, Snapshot
    <3>2. Away.queue = <<>> /\ look.queue = <<>>
      BY DEF Away
    <3>3. Len(Away.queue) <= QueueLimit /\ Len(look.queue) <= QueueLimit
      BY <3>2, EmptySeq, LaneAssumption
    <3>4. SetSub(s, Away) \/ SetSub(s, look)
      BY <2>2 DEF Subscribe, Leave
    <3> HIDE DEF look
    <3> QED
      BY <1>1, <3>1, <3>3, <3>4
  <2>3. CASE Look(s)
    <3>1. [sub EXCEPT !.doing = "wait", !.saw = snapshot] \in Subscriber
          /\ [sub EXCEPT !.doing = "wait", !.saw = snapshot].queue = sub.queue
      BY <2>1 DEF Subscriber, DecoderTypes
    <3> QED
      BY <1>1, <2>1, <2>3, <3>1 DEF Look
  <2>4. CASE WakeUp(s)
    <3>1. sub.queue \in Seq(Frame) /\ sub.queue # <<>>
      BY <2>1, <2>4 DEF WakeUp, Subscriber
    <3>2. Tail(sub.queue) \in Seq(Frame) /\ Len(Tail(sub.queue)) = Len(sub.queue) - 1
          /\ Len(sub.queue) \in Nat
      BY <3>1, Taken
    <3>3. [sub EXCEPT !.doing = "look", !.queue = Tail(@)] \in Subscriber
          /\ [sub EXCEPT !.doing = "look", !.queue = Tail(@)].queue = Tail(sub.queue)
      BY <2>1, <3>2 DEF Subscriber
    <3>4. Len(Tail(sub.queue)) <= QueueLimit
      BY <2>1, <3>2, LaneAssumption
    <3> QED
      BY <1>1, <2>4, <3>3, <3>4 DEF WakeUp
  <2> QED
    BY <1>4, <2>2, <2>3, <2>4
<1>5. CASE Poll
  <2>1. \A i \in DOMAIN log : log[i] \in Frame
    BY ElementOfSeq, LenProperties DEF LogTypes
  <2>2. PICK last \in News :
          /\ cursor' = log[last].sequence
          /\ received' = received \cup {log[i] : i \in {n \in News : n <= last}}
          /\ subs' = subs
    BY <1>5 DEF Poll
  <2>3. cursor' \in Nat
    BY <2>1, <2>2 DEF News, Frame
  <2>4. received' \subseteq Frame
    BY <2>1, <2>2 DEF News
  <2> QED
    BY <2>2, <2>3, <2>4
<1> QED
  BY <1>2, <1>3, <1>4, <1>5
     DEF Next, Worker, Decode, Metadata, Readers, CloseSession, LoseLink, ConnectFails,
         Connected, InstallStatus, Seed, Ingest, PostMessage, FileListing, StartOver,
         ClearSnapshot, DropOutdated, DecodeNothing, DecodeState, DecodeClock, InstallCatalog,
         OfferModels, LogFrame, TakeModels, ParseModels, Applying, Publishing, readerVars

LEMMA TypesStep ==
    ASSUME Types, [Next]_laneVars
    PROVE  Types'
<1>1. CASE UNCHANGED laneVars
  BY <1>1 DEF laneVars, workerVars, decoderVars, metadataVars, readerVars, Types, WorkerTypes,
              DecoderTypes, LogTypes, MetadataTypes, AtMostOne, ReaderTypes
<1>2. CASE Next
  <2>1. WorkerTypes'
    <3>1. CASE Worker
      BY <3>1, WorkerTypesStep DEF Types
    <3>2. CASE UNCHANGED workerVars
      BY <3>2 DEF workerVars, Types, WorkerTypes
    <3> QED
      BY <1>2, <3>1, <3>2
         DEF Next, Decode, Metadata, Readers, StartOver, ClearSnapshot, DropOutdated,
             DecodeNothing, DecodeState, DecodeClock, InstallCatalog, OfferModels, LogFrame,
             NotifySubscribers, TakeModels, ParseModels, Applying, Publishing, Subscribe, Look,
             WakeUp, Leave, SetSub, Poll
  <2>2. DecoderTypes' /\ LogTypes'
    <3>1. CASE Decode
      BY <3>1, DecoderTypesStep, LogTypesStep
    <3>2. CASE UNCHANGED <<decoding, at, frame, snapshot, decoder, next, log>>
      BY <3>2 DEF Types, DecoderTypes, LogTypes
    <3> QED
      BY <1>2, <3>1, <3>2
         DEF Next, Worker, Metadata, Readers, CloseSession, LoseLink, ConnectFails,
             Connected, InstallStatus, Seed, Ingest, PostMessage, FileListing, TakeModels,
             ParseModels, Subscribe, Look, WakeUp, Leave, SetSub, Poll, decoderVars
  <2> QED
    BY <1>2, <2>1, <2>2, QueueTypesStep, MetadataTypesStep, ReaderTypesStep DEF Types
<1> QED
  BY <1>1, <1>2

LEMMA TypesInvariant == Spec => []Types
  BY TypesInit, TypesStep, PTL DEF Spec

(* The worker, the decoder, the metadata thread and the readers keep their *)
(* types; neither the log nor a queue outgrows its limit, and at most one  *)
(* model repository waits.                                                 *)
THEOREM TypeCorrect == Spec => []TypeOK
<1>1. Types => TypeOK
  <2> SUFFICES ASSUME Types
               PROVE  TypeOK
    OBVIOUS
  <2>1. \A c \in waiting \cup parsing : c \in Command
    BY DEF Types, MetadataTypes, AtMostOne
  <2>2. Cardinality(waiting) <= 1
    <3>1. CASE waiting = {}
      BY <3>1, FS_EmptySet
    <3>2. CASE \E c \in Command : waiting = {c}
      BY <3>2, FS_Singleton
    <3> QED
      BY <3>1, <3>2 DEF Types, MetadataTypes, AtMostOne
  <2> QED
    BY <2>1, <2>2 DEF Types, WorkerTypes, DecoderTypes, LogTypes, ReaderTypes, TypeOK
<1> QED
  BY <1>1, TypesInvariant, PTL

-----------------------------------------------------------------------------
(***************************************************************************)
(* Numbers of frames                                                       *)
(***************************************************************************)
Numbered(newest) == \A i \in DOMAIN log : log[i].sequence = newest - (Len(log) - i)

(* The frame that is being published takes the next number; it is in the   *)
(* log before the number is counted up, and until then no client has seen  *)
(* it.                                                                     *)
Numbers ==
    /\ Numbered(IF at = "logged" THEN next ELSE next - 1)
    /\ at = "applied" => frame.sequence = next
    /\ cursor <= IF at = "logged" THEN next ELSE next - 1
    /\ PollMissesNothing

LEMMA NumbersInit == Init => Numbers
  BY EmptySeq DEF Init, LaneInit, Numbers, Numbered, PollMissesNothing

LEMMA SameNumbers ==
    ASSUME Numbers, UNCHANGED <<log, next, at, frame, cursor, received>>
    PROVE  Numbers'
  BY DEF Numbers, Numbered, PollMissesNothing

(* Nothing is published, or the frame is made.                             *)
LEMMA QuietNumbers ==
    ASSUME Types, Numbers, at \in {"receive", "cleared"}, at' \in {"receive", "cleared"},
           UNCHANGED <<log, next, cursor, received>>
    PROVE  Numbers'
  BY DEF Numbers, Numbered, PollMissesNothing

LEMMA MadeNumbers ==
    ASSUME Types, Numbers, at = "receive", NEW m, Publishing(m)
    PROVE  Numbers'
<1>1. /\ at' = "applied" /\ frame'.sequence = next'
      /\ UNCHANGED <<log, next, cursor, received>>
  BY DEF Publishing, readerVars
<1> QED
  BY <1>1 DEF Numbers, Numbered, PollMissesNothing

LEMMA LoggedNumbers ==
    ASSUME Types, Numbers, LogFrame
    PROVE  Numbers'
<1> DEFINE longer == Append(log, frame)
<1>1. /\ at = "applied" /\ at' = "logged" /\ log' = Trimmed(longer)
      /\ UNCHANGED <<frame, next, cursor, received>>
  BY DEF LogFrame, readerVars
<1>2. /\ longer \in Seq(Frame) /\ Len(log) \in Nat /\ DOMAIN log = 1..Len(log)
      /\ Len(longer) = Len(log) + 1
      /\ \A j \in DOMAIN longer :
            \/ j \in DOMAIN log /\ longer[j] = log[j]
            \/ j = Len(log) + 1 /\ longer[j] = frame
  BY Added DEF Types, LogTypes, DecoderTypes
<1>3. Len(longer) <= LogLimit + 1
  BY <1>2, LaneAssumption DEF Types, LogTypes
<1> HIDE DEF longer
<1>4. /\ Trimmed(longer) \in Seq(Frame)
      /\ \A i \in DOMAIN Trimmed(longer) :
            /\ i + Len(longer) - Len(Trimmed(longer)) \in DOMAIN longer
            /\ Trimmed(longer)[i] = longer[i + Len(longer) - Len(Trimmed(longer))]
  BY <1>2, <1>3, TrimmedShape
<1>5. /\ Len(log') \in Nat /\ DOMAIN log' = 1..Len(log')
  BY <1>1, <1>4, LenProperties
<1>6. next \in Nat /\ cursor \in Nat /\ cursor <= next - 1 /\ frame.sequence = next
  BY <1>1 DEF Numbers, Types, DecoderTypes, ReaderTypes
<1>7. ASSUME NEW j \in DOMAIN longer
      PROVE  /\ longer[j].sequence = next - (Len(longer) - j)
             /\ longer[j].sequence <= cursor => longer[j] \in received
  <2>1. CASE j \in DOMAIN log /\ longer[j] = log[j]
    <3>1. log[j].sequence = next - 1 - (Len(log) - j)
      BY <1>1, <2>1 DEF Numbers, Numbered
    <3>2. log[j].sequence <= cursor => log[j] \in received
      BY <2>1 DEF Numbers, PollMissesNothing
    <3>3. next - 1 - (Len(log) - j) = next - (Len(longer) - j)
      BY <1>2, <1>6, <2>1
    <3> QED
      BY <2>1, <3>1, <3>2, <3>3
  <2>2. CASE j = Len(log) + 1 /\ longer[j] = frame
    BY <1>2, <1>6, <2>2
  <2> QED
    BY <1>2, <2>1, <2>2
<1>8. ASSUME NEW i \in DOMAIN log'
      PROVE  /\ log'[i].sequence = next - (Len(log') - i)
             /\ log'[i].sequence <= cursor => log'[i] \in received
  <2> DEFINE j == i + Len(longer) - Len(log')
  <2>1. j \in DOMAIN longer /\ log'[i] = longer[j]
    BY <1>1, <1>4
  <2>2. Len(longer) - j = Len(log') - i
    BY <1>2, <1>5
  <2> HIDE DEF j
  <2> QED
    BY <1>7, <2>1, <2>2
<1> QED
  BY <1>1, <1>6, <1>8 DEF Numbers, Numbered, PollMissesNothing

LEMMA PollNumbers ==
    ASSUME Types, Numbers, Poll
    PROVE  Numbers'
<1>1. PICK last \in News :
        /\ cursor' = log[last].sequence
        /\ received' = received \cup {log[i] : i \in {n \in News : n <= last}}
        /\ UNCHANGED <<log, next, at, frame>>
  BY DEF Poll, decoderVars
<1>2. Len(log) \in Nat /\ DOMAIN log = 1..Len(log) /\ next \in Nat /\ cursor \in Nat
      /\ last \in DOMAIN log
  BY <1>1, LenProperties DEF Types, LogTypes, DecoderTypes, ReaderTypes, News
<1> DEFINE newest == IF at = "logged" THEN next ELSE next - 1
<1>3. newest \in Int /\ newest' = newest
  BY <1>1, <1>2
<1>4. \A i \in DOMAIN log : log[i].sequence = newest - (Len(log) - i)
  BY DEF Numbers, Numbered
<1>5. Numbered(newest)' /\ cursor' <= newest'
  <2> HIDE DEF newest
  <2> QED
    BY <1>1, <1>2, <1>3, <1>4 DEF Numbered
<1>6. ASSUME NEW i \in DOMAIN log, log[i].sequence <= cursor'
      PROVE  log[i] \in received'
  <2>1. CASE log[i].sequence <= cursor
    BY <1>1, <2>1 DEF Numbers, PollMissesNothing
  <2>2. CASE ~(log[i].sequence <= cursor)
    <3> HIDE DEF newest
    <3>1. i <= last /\ log[i].sequence > cursor
      BY <1>1, <1>2, <1>3, <1>4, <1>6, <2>2
    <3> QED
      BY <1>1, <3>1 DEF News
  <2> QED
    BY <2>1, <2>2
<1>7. PollMissesNothing'
  BY <1>1, <1>6 DEF PollMissesNothing
<1>8. (at = "applied" => frame.sequence = next)'
  BY <1>1 DEF Numbers
<1> QED
  BY <1>5, <1>7, <1>8 DEF Numbers

LEMMA NumbersStep ==
    ASSUME Types, Numbers, [Next]_laneVars
    PROVE  Numbers'
<1>1. CASE Poll
  BY <1>1, PollNumbers
<1>2. CASE LogFrame
  BY <1>2, LoggedNumbers
<1>3. CASE NotifySubscribers
  <2>1. /\ at = "logged" /\ at' = "receive" /\ next' = next + 1 /\ next \in Nat
        /\ UNCHANGED <<log, cursor, received>>
    BY <1>3 DEF NotifySubscribers, Types, DecoderTypes
  <2>2. next' - 1 = next
    BY <2>1
  <2> QED
    BY <2>1, <2>2 DEF Numbers, Numbered, PollMissesNothing
<1>4. CASE StartOver
  <2>1. /\ at = "receive" /\ at' = "cleared" /\ log' = <<>>
        /\ UNCHANGED <<next, cursor, received>>
    BY <1>4 DEF StartOver, Receive, readerVars
  <2> QED
    BY <2>1, EmptySeq DEF Numbers, Numbered, PollMissesNothing
<1>5. CASE ClearSnapshot \/ DropOutdated \/ DecodeNothing \/ OfferModels
  BY <1>5, QuietNumbers
     DEF ClearSnapshot, DropOutdated, DecodeNothing, OfferModels, Receive, readerVars
<1>6. CASE DecodeState \/ DecodeClock
  BY <1>6, MadeNumbers DEF DecodeState, DecodeClock, Receive, Applying
<1>7. CASE InstallCatalog
  <2>1. at = "receive"
    BY <1>7 DEF InstallCatalog, Receive
  <2>2. CASE Publishing(decoder.preset)
    BY <2>1, <2>2, MadeNumbers
  <2>3. CASE UNCHANGED <<at, log, next, readerVars>>
    BY <2>1, <2>3, QuietNumbers DEF readerVars
  <2> QED
    BY <1>7, <2>2, <2>3 DEF InstallCatalog, Applying
<1>8. CASE UNCHANGED <<log, next, at, frame, cursor, received>>
  BY <1>8, SameNumbers
<1> QED
  BY <1>1, <1>2, <1>3, <1>4, <1>5, <1>6, <1>7, <1>8
     DEF Next, Worker, Decode, Metadata, Readers, CloseSession, LoseLink, ConnectFails,
         Connected, InstallStatus, Seed, Ingest, PostMessage, FileListing, TakeModels,
         ParseModels, Subscribe, Look, WakeUp, Leave, SetSub, decoderVars, readerVars, laneVars

LEMMA NumbersInvariant == Spec => []Numbers
  BY NumbersInit, NumbersStep, TypesInvariant, PTL DEF Spec

(* For any limit of the log: the newest number in it, by which a write     *)
(* tells fresh frames from old ones, is the last one published, and the    *)
(* log holds the ones before it without a gap.                             *)
THEOREM NumbersHaveNoGap == Spec => []LatestSequenceIsLast
<1>1. Numbers => LatestSequenceIsLast
  BY DEF Numbers, Numbered, LatestSequenceIsLast
<1> QED
  BY <1>1, NumbersInvariant, PTL

(* For any limits: what the log still holds and a polling client has       *)
(* passed by, it has received, across resets too.                          *)
THEOREM PollersMissNothing == Spec => []PollMissesNothing
<1>1. Numbers => PollMissesNothing
  BY DEF Numbers
<1> QED
  BY <1>1, NumbersInvariant, PTL

-----------------------------------------------------------------------------
(***************************************************************************)
(* Waiters                                                                 *)
(***************************************************************************)
LEMMA SetSubWakes ==
    ASSUME Types, NoMissedWakeup, NEW s \in Subscribers, NEW sub, SetSub(s, sub),
           sub.doing = "wait" => sub.saw = snapshot
    PROVE  NoMissedWakeup'
<1>1. /\ subs' = [subs EXCEPT ![s] = sub]
      /\ UNCHANGED <<at, snapshot>>
  BY DEF SetSub, decoderVars
<1>2. subs \in [Subscribers -> Subscriber]
  BY DEF Types, ReaderTypes
<1>3. ASSUME NEW r \in Subscribers, r # s
      PROVE  subs'[r] = subs[r]
  BY <1>1, <1>2, <1>3
<1>4. subs'[s] = sub
  BY <1>1, <1>2
<1> QED
  BY <1>1, <1>3, <1>4 DEF NoMissedWakeup

LEMMA NotifiedHasMail ==
    ASSUME Types, NEW s \in Subscribers, subs[s].doing # "away"
    PROVE  Notified(subs[s]).queue # <<>>
<1> DEFINE sub == subs[s]
<1>1. sub \in Subscriber
  BY DEF Types, ReaderTypes
<1> HIDE DEF sub
<1>2. sub.queue \in Seq(Frame) /\ Len(sub.queue) \in Nat
  BY <1>1, LenProperties DEF Subscriber
<1>3. CASE Len(sub.queue) < QueueLimit
  <2>1. Append(sub.queue, frame) # <<>>
    BY <1>2, AppendProperties DEF Types, DecoderTypes
  <2>2. Notified(sub) = [sub EXCEPT !.queue = Append(sub.queue, frame)]
    BY <1>3 DEF Notified, sub
  <2>3. Notified(sub).queue = Append(sub.queue, frame)
    BY <1>1, <2>2 DEF Subscriber
  <2> QED
    BY <2>1, <2>3 DEF sub
<1>4. CASE ~(Len(sub.queue) < QueueLimit)
  <2>1. Notified(sub) = sub
    BY <1>4 DEF Notified
  <2>2. sub.queue # <<>>
    BY <1>2, <1>4, EmptySeq, LaneAssumption
  <2> QED
    BY <2>1, <2>2 DEF sub
<1> QED
  BY <1>3, <1>4

LEMMA WakeupStep ==
    ASSUME Types, NoMissedWakeup, [Next]_laneVars
    PROVE  NoMissedWakeup'
<1>1. ASSUME NEW s \in Subscribers, Subscribe(s) \/ Look(s) \/ WakeUp(s) \/ Leave(s)
      PROVE  NoMissedWakeup'
  <2>1. subs[s] \in Subscriber
    BY DEF Types, ReaderTypes
  <2>2. PICK sub : SetSub(s, sub) /\ (sub.doing = "wait" => sub.saw = snapshot)
    <3>1. CASE Subscribe(s) \/ Leave(s)
      BY <3>1 DEF Subscribe, Leave, Away
    <3>2. CASE Look(s)
      <4> DEFINE seen == [subs[s] EXCEPT !.doing = "wait", !.saw = snapshot]
      <4>1. SetSub(s, seen)
        BY <3>2 DEF Look
      <4>2. seen.saw = snapshot
        BY <2>1 DEF Subscriber
      <4> HIDE DEF seen
      <4> QED
        BY <4>1, <4>2
    <3>3. CASE WakeUp(s)
      <4> DEFINE woken == [subs[s] EXCEPT !.doing = "look", !.queue = Tail(@)]
      <4>1. SetSub(s, woken)
        BY <3>3 DEF WakeUp
      <4>2. woken.doing = "look"
        BY <2>1 DEF Subscriber
      <4> HIDE DEF woken
      <4> QED
        BY <4>1, <4>2
    <3> QED
      BY <1>1, <3>1, <3>2, <3>3
  <2> QED
    BY <2>2, SetSubWakes
<1>2. CASE NotifySubscribers
  <2>1. subs' = [s \in Subscribers |-> Notified(subs[s])]
    BY <1>2 DEF NotifySubscribers
  <2>2. ASSUME NEW s \in Subscribers, subs'[s].doing = "wait"
        PROVE  subs'[s].queue # <<>>
    <3>1. subs'[s] = Notified(subs[s]) /\ subs[s] \in Subscriber
      BY <2>1 DEF Types, ReaderTypes
    <3>2. subs[s].doing # "away"
      BY <2>2, <3>1 DEF Notified
    <3> QED
      BY <3>1, <3>2, NotifiedHasMail
  <2> QED
    BY <2>2 DEF NoMissedWakeup
<1>3. CASE ClearSnapshot
  BY <1>3 DEF ClearSnapshot, NoSnapshot, NoMissedWakeup, readerVars
<1>4. CASE at' \in {"cleared", "applied", "logged"}
  BY <1>4 DEF NoMissedWakeup
<1>5. CASE UNCHANGED <<at, snapshot, subs>>
  BY <1>5 DEF NoMissedWakeup
<1> QED
  BY <1>1, <1>2, <1>3, <1>4, <1>5
     DEF Next, Worker, Decode, Metadata, Readers, CloseSession, LoseLink, ConnectFails,
         Connected, InstallStatus, Seed, Ingest, PostMessage, FileListing, StartOver,
         DropOutdated, DecodeNothing, DecodeState, DecodeClock, InstallCatalog, OfferModels,
         LogFrame, TakeModels, ParseModels, Poll, Applying, Publishing, decoderVars, readerVars,
         laneVars

(* For any number of subscribers and any limit of their queues: who waits  *)
(* with nothing to read has seen the snapshot as it is.                    *)
THEOREM NobodySleepsThrough == Spec => []NoMissedWakeup
<1>1. Init => NoMissedWakeup
  BY DEF Init, LaneInit, NoMissedWakeup, Away
<1> QED
  BY <1>1, TypesInvariant, WakeupStep, PTL DEF Spec

-----------------------------------------------------------------------------
(***************************************************************************)
(* What can be seen is of the worker's link                                *)
(***************************************************************************)

(* A command that carries a message carries it from a link; if it is of    *)
(* the worker's generation, and the worker has a link, from that one.      *)
Linked(c) ==
    /\ c.generation <= generation
    /\ c.kind # "reset" =>
         /\ c.body.link # 0
         /\ link # 0 /\ c.generation = generation => c.body.link = link

ChannelsLinked ==
    /\ \A i \in DOMAIN queue : Linked(queue[i])
    /\ \A c \in waiting \cup parsing : c.kind = "message" /\ Linked(c)

WorkerLinked ==
    /\ decoding <= generation
    /\ step \in {"started", "shown", "told", "posted"} => link # 0
    /\ step = "told" => message.link = link

OfLink(m) == m = NoMessage \/ m.link = link

DecoderLinked ==
    /\ decoder.catalog = NoMessage \/ decoder.catalog.link # 0
    /\ link # 0 /\ decoding = generation =>
          /\ \A i \in DOMAIN log : log[i].link = link
          /\ OfLink(decoder.preset) /\ OfLink(decoder.catalog)
          /\ at = "applied" => frame.link = link
          /\ at # "cleared" => snapshot.link \in {0, link}

LaneLinked == ChannelsLinked /\ WorkerLinked /\ DecoderLinked

LEMMA LinkedInit == Init => LaneLinked
  BY EmptySeq DEF Init, LaneInit, LaneLinked, ChannelsLinked, WorkerLinked, DecoderLinked,
                  NewDecoder, NoSnapshot, OfLink

(* A generation begins or the link is closed or lost: what is under way    *)
(* stays linked.                                                           *)
LEMMA StillLinked ==
    ASSUME Types, [Next]_laneVars, NEW c \in Command, Linked(c)
    PROVE  Linked(c)'
<1>1. generation \in Nat /\ c.generation \in Nat
  BY DEF Types, WorkerTypes, Command
<1>2. \/ UNCHANGED <<generation, link>>
      \/ generation' = generation /\ link' = 0
      \/ generation' = generation + 1
  BY DEF Next, Worker, Decode, Metadata, Readers, CloseSession, LoseLink, ConnectFails,
         Connected, InstallStatus, Seed, Ingest, PostMessage, FileListing, StartOver,
         ClearSnapshot, DropOutdated, DecodeNothing, DecodeState, DecodeClock, InstallCatalog,
         OfferModels, LogFrame, NotifySubscribers, TakeModels, ParseModels, Applying,
         Publishing, Subscribe, Look, WakeUp, Leave, SetSub, Poll, StartGeneration, workerVars,
         laneVars
<1> QED
  BY <1>1, <1>2 DEF Linked

(* The head of the channel, and what it tells.                             *)
LEMMA HeadLinked ==
    ASSUME Types, LaneLinked, queue # <<>>
    PROVE  /\ Head(queue) \in Command /\ Linked(Head(queue))
           /\ Head(queue).body \in Message
<1>1. Head(queue) \in Command /\ Head(queue) = queue[1] /\ 1 \in DOMAIN queue
  BY Taken DEF Types
<1>2. Linked(queue[1])
  BY <1>1 DEF LaneLinked, ChannelsLinked
<1>3. Head(queue).body \in Message
  BY <1>1 DEF Command
<1> QED
  BY <1>1, <1>2, <1>3

LEMMA QueueStillLinked ==
    ASSUME Types, LaneLinked, [Next]_laneVars, NEW i \in DOMAIN queue, NEW c, c = queue[i]
    PROVE  Linked(c)'
<1>1. c \in Command
  BY LenProperties, ElementOfSeq DEF Types
<1>2. Linked(c)
  BY DEF LaneLinked, ChannelsLinked
<1> QED
  BY <1>1, <1>2, StillLinked

(* The channel afterwards holds what it held, and what is linked.          *)
LEMMA QueueLinked ==
    ASSUME Types, LaneLinked, [Next]_laneVars,
           \/ queue' = queue
           \/ queue # <<>> /\ queue' = Tail(queue)
           \/ \E c \in Command : Linked(c)' /\ queue' = Append(queue, c)
    PROVE  (\A i \in DOMAIN queue : Linked(queue[i]))'
<1>1. ASSUME NEW i \in DOMAIN queue', NEW e, e = queue'[i]
      PROVE  Linked(e)'
  <2>1. CASE queue' = queue
    BY <1>1, <2>1, QueueStillLinked
  <2>2. CASE queue # <<>> /\ queue' = Tail(queue)
    <3>1. i + 1 \in DOMAIN queue /\ e = queue[i + 1]
      BY <1>1, <2>2, Taken DEF Types
    <3> QED
      BY <3>1, QueueStillLinked
  <2>3. ASSUME NEW c \in Command, Linked(c)', queue' = Append(queue, c)
        PROVE  Linked(e)'
    <3>1. \/ i \in DOMAIN queue /\ e = queue[i]
          \/ e = c
      BY <1>1, <2>3, Added DEF Types
    <3>2. CASE e = c
      BY <2>3, <3>2
    <3> QED
      BY <3>1, <3>2, QueueStillLinked
  <2> QED
    BY <2>1, <2>2, <2>3
<1> QED
  BY <1>1 DEF Linked

LEMMA ChannelsLinkedStep ==
    ASSUME Types, LaneLinked, Next
    PROVE  ChannelsLinked'
<1>0. [Next]_laneVars
  OBVIOUS
<1>1. ASSUME NEW c \in waiting \cup parsing
      PROVE  c \in Command /\ c.kind = "message" /\ Linked(c) /\ Linked(c)'
  <2>1. c \in Command /\ c.kind = "message" /\ Linked(c)
    BY DEF Types, MetadataTypes, AtMostOne, LaneLinked, ChannelsLinked
  <2> QED
    BY <1>0, <2>1, StillLinked
<1>2. (\A i \in DOMAIN queue : Linked(queue[i]))'
  <2>1. CASE queue' = queue \/ (queue # <<>> /\ queue' = Tail(queue))
    BY <1>0, <2>1, QueueLinked
  <2>2. ASSUME NEW c \in Command, Linked(c)', queue' = Append(queue, c)
        PROVE  (\A i \in DOMAIN queue : Linked(queue[i]))'
    BY <1>0, <2>2, QueueLinked
  <2>3. CASE StartGeneration
    <3>1. PICK d \in Command : /\ d.kind = "reset" /\ d.generation = generation'
                               /\ queue' = Append(queue, d)
      BY <2>3, CommandTypes DEF StartGeneration, Types, WorkerTypes, Reset
    <3>2. Linked(d)'
      BY <2>3, <3>1 DEF Linked, StartGeneration, Types, WorkerTypes
    <3> QED
      BY <2>2, <3>1, <3>2
  <2>4. CASE Seed /\ queue' # queue
    <3>1. PICK m : /\ m = [kind |-> "preset", link |-> link, number |-> messages']
                   /\ queue' = Append(queue, Told(generation, m))
      BY <2>4 DEF Seed
    <3>2. /\ messages' = messages + 1 /\ link' = link /\ generation' = generation
          /\ step = "shown"
      BY <2>4 DEF Seed
    <3>3. m \in Message /\ m.link = link /\ link # 0
      BY <3>1, <3>2 DEF Message, Kinds, Types, WorkerTypes, LaneLinked, WorkerLinked
    <3>4. PICK d \in Command : /\ d.generation = generation /\ d.body = m
                               /\ queue' = Append(queue, d)
      BY <3>1, <3>3, CommandTypes DEF Types, WorkerTypes, Told
    <3>5. Linked(d)'
      BY <3>2, <3>3, <3>4 DEF Linked, Types, WorkerTypes
    <3> QED
      BY <2>2, <3>4, <3>5
  <2>5. CASE PostMessage
    <3>1. /\ queue' = Append(queue, Told(generation, message))
          /\ link' = link /\ generation' = generation /\ step = "told"
      BY <2>5 DEF PostMessage
    <3>2. message \in Message /\ message.link = link /\ link # 0
      BY <3>1 DEF Types, WorkerTypes, LaneLinked, WorkerLinked
    <3>3. PICK d \in Command : /\ d.generation = generation /\ d.body = message
                               /\ queue' = Append(queue, d)
      BY <3>1, <3>2, CommandTypes DEF Types, WorkerTypes, Told
    <3>4. Linked(d)'
      BY <3>1, <3>2, <3>3 DEF Linked, Types, WorkerTypes
    <3> QED
      BY <2>2, <3>3, <3>4
  <2>6. ASSUME NEW c \in parsing, queue' = Append(queue, [c EXCEPT !.kind = "catalog"]),
               UNCHANGED <<link, generation>>
        PROVE  (\A i \in DOMAIN queue : Linked(queue[i]))'
    <3> DEFINE d == [c EXCEPT !.kind = "catalog"]
    <3>1. c \in Command /\ c.kind = "message" /\ Linked(c)
      BY <1>1
    <3>2. d \in Command /\ d.generation = c.generation /\ d.body = c.body
      BY <3>1 DEF Command
    <3>3. queue' = Append(queue, d)
      BY <2>6
    <3> HIDE DEF d
    <3>4. Linked(d)'
      BY <2>6, <3>1, <3>2 DEF Linked
    <3> QED
      BY <2>2, <3>2, <3>3, <3>4
  <2>7. CASE Worker
    BY <2>1, <2>3, <2>4, <2>5, <2>7
       DEF Worker, CloseSession, LoseLink, ConnectFails, Connected, InstallStatus, Ingest,
           FileListing, decoderVars
  <2>8. CASE Decode
    BY <2>1, <2>8
       DEF Decode, StartOver, ClearSnapshot, DropOutdated, DecodeNothing, DecodeState,
           DecodeClock, OfferModels, InstallCatalog, LogFrame, NotifySubscribers, Receive
  <2>9. CASE Metadata
    BY <2>1, <2>6, <2>9 DEF Metadata, TakeModels, ParseModels, decoderVars, workerVars
  <2>10. CASE Readers
    BY <2>1, <2>10 DEF Readers, Subscribe, Look, WakeUp, Leave, SetSub, Poll, decoderVars
  <2> QED
    BY <2>7, <2>8, <2>9, <2>10 DEF Next
<1>3. ASSUME NEW c \in waiting' \cup parsing'
      PROVE  c.kind = "message" /\ Linked(c)'
  <2>1. CASE c \in waiting \cup parsing
    BY <1>1, <2>1
  <2>2. CASE c \notin waiting \cup parsing
    <3>1. OfferModels /\ c = Head(queue)
      BY <1>3, <2>2
         DEF Next, Worker, Decode, Metadata, Readers, CloseSession, LoseLink, ConnectFails,
             Connected, InstallStatus, Seed, Ingest, PostMessage, FileListing, StartOver,
             ClearSnapshot, DropOutdated, DecodeNothing, DecodeState, DecodeClock,
             InstallCatalog, OfferModels, LogFrame, NotifySubscribers, TakeModels, ParseModels,
             Subscribe, Look, WakeUp, Leave, SetSub, Poll, metadataVars
    <3>2. c.kind = "message" /\ queue # <<>>
      BY <3>1 DEF OfferModels, Receive
    <3> QED
      BY <1>0, <3>1, <3>2, HeadLinked, StillLinked
  <2> QED
    BY <2>1, <2>2
<1> QED
  BY <1>2, <1>3 DEF ChannelsLinked, Linked

LEMMA WorkerLinkedStep ==
    ASSUME Types, LaneLinked, Next
    PROVE  WorkerLinked'
<1> USE DEF WorkerLinked
<1>0. WorkerLinked /\ generation \in Nat /\ links \in Nat /\ decoding \in Nat
  BY DEF LaneLinked, Types, WorkerTypes, DecoderTypes
<1>1. CASE Worker
  <2>1. CASE \E kind \in Kinds : Ingest(kind)
    BY <1>0, <2>1 DEF Ingest, decoderVars
  <2>2. CASE CloseSession \/ LoseLink \/ ConnectFails \/ Connected
    BY <1>0, <2>2
       DEF CloseSession, LoseLink, ConnectFails, Connected, StartGeneration, decoderVars
  <2>3. CASE InstallStatus \/ Seed \/ PostMessage \/ FileListing
    BY <1>0, <2>3 DEF InstallStatus, Seed, PostMessage, FileListing, decoderVars
  <2> QED
    BY <1>1, <2>1, <2>2, <2>3 DEF Worker
<1>2. CASE StartOver
  <2>1. Head(queue).generation <= generation
    BY <1>2, HeadLinked DEF StartOver, Receive, Linked
  <2> QED
    BY <1>0, <1>2, <2>1 DEF StartOver, workerVars
<1>3. CASE UNCHANGED <<workerVars, decoding>>
  BY <1>0, <1>3 DEF workerVars
<1> QED
  BY <1>1, <1>2, <1>3
     DEF Next, Decode, Metadata, Readers, ClearSnapshot, DropOutdated, DecodeNothing,
         DecodeState, DecodeClock, InstallCatalog, OfferModels, LogFrame, NotifySubscribers,
         TakeModels, ParseModels, Applying, Publishing, Subscribe, Look, WakeUp, Leave, SetSub,
         Poll, decoderVars

(* What the decoder gets from the channel when its generation is the       *)
(* worker's.                                                               *)
LEMMA CurrentHead ==
    ASSUME Types, LaneLinked, NEW kind \in {"message", "catalog"}, Receive(kind),
           ~Outdated(Head(queue))
    PROVE  /\ Head(queue).body \in Message /\ Head(queue).body.link # 0
           /\ link # 0 /\ decoding = generation => Head(queue).body.link = link
<1>1. /\ Head(queue).body \in Message /\ Linked(Head(queue))
      /\ Head(queue).kind # "reset" /\ Head(queue).generation = decoding
  BY HeadLinked DEF Receive, Outdated
<1> QED
  BY <1>1 DEF Linked

LEMMA DecoderLinkedDecode ==
    ASSUME Types, LaneLinked, Decode
    PROVE  DecoderLinked'
<1>0. DecoderLinked /\ decoder \in Decoder /\ UNCHANGED <<link, generation>>
  BY DEF LaneLinked, Types, DecoderTypes, Decode, StartOver, ClearSnapshot, DropOutdated,
         DecodeNothing, DecodeState, DecodeClock, InstallCatalog, OfferModels, LogFrame,
         NotifySubscribers, Applying, Publishing, workerVars
<1>1. CASE StartOver
  BY <1>0, <1>1, EmptySeq DEF StartOver, NewDecoder, DecoderLinked, OfLink
<1>2. CASE ClearSnapshot
  BY <1>0, <1>2 DEF ClearSnapshot, NoSnapshot, DecoderLinked, OfLink
<1>3. CASE DropOutdated \/ DecodeNothing \/ OfferModels
  BY <1>0, <1>3 DEF DropOutdated, DecodeNothing, OfferModels, DecoderLinked, OfLink
<1>4. CASE DecodeState
  <2>1. PICK m \in Message :
          /\ m.link # 0 /\ (link # 0 /\ decoding = generation => m.link = link)
          /\ snapshot'.link = m.link /\ frame'.link = m.link
          /\ decoder' = [decoder EXCEPT !.preset = m] \/ decoder' = decoder
    BY <1>4, CurrentHead DEF DecodeState, Applying, Publishing
  <2>2. at' = "applied" /\ UNCHANGED <<decoding, log>>
    BY <1>4 DEF DecodeState, Applying, Publishing
  <2>3. decoder'.catalog = decoder.catalog /\ decoder'.preset \in {decoder.preset, m}
    BY <1>0, <2>1 DEF Decoder
  <2> QED
    BY <1>0, <2>1, <2>2, <2>3 DEF DecoderLinked, OfLink
<1>5. CASE DecodeClock
  <2>1. /\ frame'.link = Head(queue).body.link
        /\ link # 0 /\ decoding = generation => Head(queue).body.link = link
    BY <1>5, CurrentHead DEF DecodeClock, Publishing
  <2>2. at = "receive" /\ at' = "applied" /\ UNCHANGED <<decoding, log, decoder, snapshot>>
    BY <1>5 DEF DecodeClock, Receive, Publishing
  <2> QED
    BY <1>0, <2>1, <2>2 DEF DecoderLinked, OfLink
<1>6. CASE InstallCatalog
  <2>1. PICK m \in Message :
          /\ m.link # 0 /\ (link # 0 /\ decoding = generation => m.link = link)
          /\ decoder' = [decoder EXCEPT !.catalog = m]
    BY <1>6, CurrentHead DEF InstallCatalog
  <2>2. decoder'.catalog = m /\ decoder'.preset = decoder.preset
    BY <1>0, <2>1 DEF Decoder
  <2>3. at = "receive" /\ UNCHANGED <<decoding, log>>
    BY <1>6 DEF InstallCatalog, Receive, Applying, Publishing
  <2>4. CASE decoder.preset # NoMessage /\ Applying(decoder.preset, TRUE)
    <3>1. /\ at' = "applied" /\ frame'.link = decoder.preset.link
          /\ snapshot'.link = decoder.preset.link
      BY <2>4 DEF Applying, Publishing
    <3>2. link # 0 /\ decoding = generation => decoder.preset.link = link
      BY <1>0, <2>4 DEF DecoderLinked, OfLink
    <3> QED
      BY <1>0, <2>1, <2>2, <2>3, <3>1, <3>2 DEF DecoderLinked, OfLink
  <2>5. CASE UNCHANGED <<at, snapshot>>
    BY <1>0, <2>1, <2>2, <2>3, <2>5 DEF DecoderLinked, OfLink
  <2> QED
    BY <1>6, <2>4, <2>5 DEF InstallCatalog
<1>7. CASE LogFrame
  <2>1. /\ at = "applied" /\ at' = "logged" /\ log' = Trimmed(Append(log, frame))
        /\ UNCHANGED <<decoding, frame, decoder, snapshot>>
    BY <1>7 DEF LogFrame
  <2>2. ASSUME NEW i \in DOMAIN log'
        PROVE  log'[i] = frame \/ \E j \in DOMAIN log : log'[i] = log[j]
    <3> DEFINE longer == Append(log, frame)
    <3>1. /\ longer \in Seq(Frame) /\ Len(longer) = Len(log) + 1
          /\ \A j \in DOMAIN longer :
                \/ j \in DOMAIN log /\ longer[j] = log[j]
                \/ j = Len(log) + 1 /\ longer[j] = frame
      BY Added DEF Types, LogTypes, DecoderTypes
    <3>2. Len(longer) <= LogLimit + 1
      BY <3>1, LenProperties, LaneAssumption DEF Types, LogTypes
    <3> HIDE DEF longer
    <3>3. PICK j \in DOMAIN longer : Trimmed(longer)[i] = longer[j]
      BY <2>1, <2>2, <3>1, <3>2, TrimmedShape DEF longer
    <3> QED
      BY <2>1, <3>1, <3>3 DEF longer
  <2> QED
    BY <1>0, <2>1, <2>2 DEF DecoderLinked, OfLink
<1>8. CASE NotifySubscribers
  BY <1>0, <1>8 DEF NotifySubscribers, DecoderLinked, OfLink
<1> QED
  BY <1>1, <1>2, <1>3, <1>4, <1>5, <1>6, <1>7, <1>8 DEF Decode

LEMMA LinkedStep ==
    ASSUME Types, LaneLinked, [Next]_laneVars
    PROVE  LaneLinked'
<1>1. CASE UNCHANGED laneVars
  BY <1>1
     DEF laneVars, workerVars, decoderVars, metadataVars, LaneLinked, ChannelsLinked,
         WorkerLinked, DecoderLinked, Linked, OfLink
<1>2. CASE Next
  <2>1. DecoderLinked'
    <3>1. CASE Decode
      BY <3>1, DecoderLinkedDecode
    <3>2. CASE UNCHANGED <<decoding, at, frame, snapshot, decoder, log>>
      <4>1. \/ link' = link /\ generation' = generation
            \/ link' = 0
            \/ generation' = generation + 1
        BY <1>2, <3>2
           DEF Next, Worker, Metadata, Readers, CloseSession, LoseLink, ConnectFails,
               Connected, InstallStatus, Seed, Ingest, PostMessage, FileListing, TakeModels,
               ParseModels, Subscribe, Look, WakeUp, Leave, SetSub, Poll, StartGeneration,
               workerVars, Decode, StartOver, ClearSnapshot, DropOutdated, DecodeNothing,
               DecodeState, DecodeClock, InstallCatalog, OfferModels, LogFrame,
               NotifySubscribers, Applying, Publishing
      <4>2. decoding <= generation /\ generation \in Nat /\ decoding \in Nat
        BY DEF LaneLinked, WorkerLinked, Types, WorkerTypes, DecoderTypes
      <4> QED
        BY <3>2, <4>1, <4>2 DEF LaneLinked, DecoderLinked, OfLink
    <3> QED
      BY <1>2, <3>1, <3>2
         DEF Next, Worker, Metadata, Readers, CloseSession, LoseLink, ConnectFails,
             Connected, InstallStatus, Seed, Ingest, PostMessage, FileListing, TakeModels,
             ParseModels, Subscribe, Look, WakeUp, Leave, SetSub, Poll, decoderVars
  <2> QED
    BY <1>2, <2>1, ChannelsLinkedStep, WorkerLinkedStep DEF LaneLinked
<1> QED
  BY <1>1, <1>2

LEMMA LinkedInvariant == Spec => []LaneLinked
  BY LinkedInit, LinkedStep, TypesInvariant, PTL DEF Spec

(* For any number of links, generations and messages: once the decoder has *)
(* caught up with the worker, all that readers see is of the worker's      *)
(* link, whatever was in the channels or being parsed when it changed.     *)
THEOREM ReadersSeeTheLink == Spec => []LaneTellsLink
<1>1. LaneLinked => LaneTellsLink
  BY DEF LaneLinked, DecoderLinked, OfLink, NoMessage, LaneTellsLink
<1> QED
  BY <1>1, LinkedInvariant, PTL

-----------------------------------------------------------------------------
(***************************************************************************)
(* Order of catalogs                                                       *)
(***************************************************************************)

(* The places a catalog passes, from the last to the first: kept by the    *)
(* decoder, in its channel, being parsed, waiting to be, in the decoder's  *)
(* channel as the message it came in.                                      *)
Holds(place, number) ==
    \/ place = 1 /\ number = decoder.catalog.number
    \/ \E i \in DOMAIN queue :
          /\ number = queue[i].body.number
          /\ \/ place = 2 /\ queue[i].kind = "catalog"
             \/ place = 5 /\ queue[i].kind = "message"
    \/ place = 3 /\ \E c \in parsing : number = c.body.number
    \/ place = 4 /\ \E c \in waiting : number = c.body.number

(* Whatever is further along was read from the link before.                *)
Placed ==
    \A j, k \in 1..5, m, n \in Nat : Holds(j, m) /\ Holds(k, n) /\ j < k => m <= n
Known == \A k \in 1..5, n \in Nat : Holds(k, n) => n <= messages
Sorted ==
    \A i, j \in DOMAIN queue :
        i < j /\ queue[i].kind = queue[j].kind /\ queue[i].kind # "reset" =>
            queue[i].body.number <= queue[j].body.number

Ordered ==
    /\ Placed /\ Known /\ Sorted
    /\ step = "told" => message.number = messages

LEMMA OrderedInit == Init => Ordered
  BY EmptySeq
     DEF Init, LaneInit, Ordered, Placed, Known, Sorted, Holds, NewDecoder, NoMessage

(* One number comes to a place, and fits there; others may go.             *)
LEMMA OneComes ==
    ASSUME Types, Ordered, NEW k \in 1..5, NEW x \in Nat, messages' \in Nat,
           \A j \in 1..5, m \in Nat : Holds(j, m)' => Holds(j, m) \/ (j = k /\ m = x),
           \A j \in 1..5, m \in Nat : Holds(j, m)' /\ j < k => m <= x,
           \A j \in 1..5, m \in Nat : Holds(j, m)' /\ j > k => x <= m,
           messages <= messages', x <= messages'
    PROVE  Placed' /\ Known'
<1>0. messages \in Nat
  BY DEF Types, WorkerTypes
<1>1. ASSUME NEW i \in 1..5, NEW j \in 1..5, NEW m \in Nat, NEW n \in Nat,
             Holds(i, m)', Holds(j, n)', i < j
      PROVE  m <= n
  BY <1>1 DEF Ordered, Placed
<1>2. ASSUME NEW j \in 1..5, NEW n \in Nat, Holds(j, n)'
      PROVE  n <= messages'
  BY <1>0, <1>2 DEF Ordered, Known
<1> QED
  BY <1>1, <1>2 DEF Placed, Known

LEMMA NoneComes ==
    ASSUME Types, Ordered, messages' \in Nat, messages <= messages',
           \A j \in 1..5, m \in Nat : Holds(j, m)' => Holds(j, m)
    PROVE  Placed' /\ Known'
<1>0. messages \in Nat
  BY DEF Types, WorkerTypes
<1> QED
  BY <1>0 DEF Ordered, Placed, Known

(* The commands of the channel are numbered and in their places.           *)
LEMMA InChannel ==
    ASSUME Types, NEW i \in DOMAIN queue
    PROVE  /\ queue[i].body \in Message /\ queue[i].body.number \in Nat
           /\ queue[i].kind = "catalog" => Holds(2, queue[i].body.number)
           /\ queue[i].kind = "message" => Holds(5, queue[i].body.number)
           /\ queue[i].kind \in {"reset", "message", "catalog"}
<1>1. queue[i] \in Command
  BY LenProperties, ElementOfSeq DEF Types
<1>2. queue[i].body \in Message /\ queue[i].kind \in {"reset", "message", "catalog"}
  BY <1>1 DEF Command
<1>3. queue[i].body.number \in Nat
  BY <1>2 DEF Message
<1> QED
  BY <1>2, <1>3 DEF Holds

LEMMA InMetadata ==
    ASSUME Types, NEW c \in waiting \cup parsing
    PROVE  c \in Command /\ c.body.number \in Nat
<1>1. c \in Command
  BY DEF Types, MetadataTypes, AtMostOne
<1> QED
  BY <1>1 DEF Command, Message

LEMMA TailOrdered ==
    ASSUME Types, Ordered, queue # <<>>, queue' = Tail(queue)
    PROVE  /\ Sorted'
           /\ \A i \in DOMAIN queue' : i + 1 \in DOMAIN queue /\ queue'[i] = queue[i + 1]
           /\ \A i \in DOMAIN queue' :
                 queue[1].kind = queue'[i].kind /\ queue[1].kind # "reset" =>
                     queue[1].body.number <= queue'[i].body.number
<1>1. 1 \in DOMAIN queue /\ \A i \in DOMAIN queue' :
         i \in Nat /\ i >= 1 /\ i + 1 \in DOMAIN queue /\ queue'[i] = queue[i + 1]
  BY Taken DEF Types
<1>2. Sorted'
  <2>1. ASSUME NEW i \in DOMAIN queue', NEW j \in DOMAIN queue', i < j,
               queue'[i].kind = queue'[j].kind, queue'[i].kind # "reset"
        PROVE  queue'[i].body.number <= queue'[j].body.number
    <3>1. i + 1 < j + 1
      BY <1>1, <2>1
    <3> QED
      BY <1>1, <2>1, <3>1 DEF Ordered, Sorted
  <2> QED
    BY <2>1 DEF Sorted
<1>3. ASSUME NEW i \in DOMAIN queue', queue[1].kind = queue'[i].kind, queue[1].kind # "reset"
      PROVE  queue[1].body.number <= queue'[i].body.number
  <2>1. 1 < i + 1
    BY <1>1
  <2> QED
    BY <1>1, <1>3, <2>1 DEF Ordered, Sorted
<1> QED
  BY <1>1, <1>2, <1>3

LEMMA AppendOrdered ==
    ASSUME Types, Ordered, NEW c \in Command, queue' = Append(queue, c),
           \A i \in DOMAIN queue : queue[i].kind = c.kind /\ c.kind # "reset" =>
               queue[i].body.number <= c.body.number
    PROVE  /\ Sorted'
           /\ \A i \in DOMAIN queue' : (i \in DOMAIN queue /\ queue'[i] = queue[i]) \/ queue'[i] = c
<1>1. /\ DOMAIN queue = 1..Len(queue) /\ DOMAIN queue' = 1..Len(queue) + 1
      /\ Len(queue) \in Nat
      /\ \A i \in DOMAIN queue' :
           \/ i \in DOMAIN queue /\ queue'[i] = queue[i]
           \/ i = Len(queue) + 1 /\ queue'[i] = c
  BY Added DEF Types
<1>2. c.body.number \in Nat
  BY DEF Command, Message
<1>3. ASSUME NEW i \in DOMAIN queue', NEW j \in DOMAIN queue', i < j,
             queue'[i].kind = queue'[j].kind, queue'[i].kind # "reset"
      PROVE  queue'[i].body.number <= queue'[j].body.number
  <2>1. i \in DOMAIN queue /\ queue'[i] = queue[i]
    BY <1>1, <1>3
  <2>2. CASE j \in DOMAIN queue /\ queue'[j] = queue[j]
    BY <1>3, <2>1, <2>2 DEF Ordered, Sorted
  <2>3. CASE queue'[j] = c
    BY <1>3, <2>1, <2>3
  <2> QED
    BY <1>1, <2>2, <2>3
<1> QED
  BY <1>1, <1>3 DEF Sorted

(* A command of the worker: it tells of nothing older than what is known.  *)
LEMMA TellOrdered ==
    ASSUME Types, Ordered, NEW c \in Command, queue' = Append(queue, c),
           c.kind = "reset" \/ (c.kind = "message" /\ c.body.number = messages'),
           messages' \in Nat, messages <= messages',
           UNCHANGED <<decoder, waiting, parsing>>
    PROVE  Placed' /\ Known' /\ Sorted'
<1>0. messages \in Nat /\ c.body.number \in Nat
  BY DEF Types, WorkerTypes, Command, Message
<1>1. ASSUME NEW i \in DOMAIN queue, queue[i].kind = c.kind, c.kind # "reset"
      PROVE  queue[i].body.number <= c.body.number
  <2>1. queue[i].body.number <= messages /\ queue[i].body.number \in Nat
    BY <1>1, InChannel DEF Ordered, Known
  <2> QED
    BY <1>0, <1>1, <2>1
<1>2. /\ Sorted'
      /\ \A i \in DOMAIN queue' : (i \in DOMAIN queue /\ queue'[i] = queue[i]) \/ queue'[i] = c
  BY <1>1, AppendOrdered
<1>3. \A j \in 1..5, m \in Nat :
         Holds(j, m)' => Holds(j, m) \/ (j = 5 /\ m = messages' /\ c.kind = "message")
  BY <1>2 DEF Holds
<1>4. ASSUME NEW j \in 1..5, NEW m \in Nat, Holds(j, m)', j < 5
      PROVE  m <= messages'
  BY <1>0, <1>3, <1>4 DEF Ordered, Known
<1>5. Placed' /\ Known'
  <2>1. PICK x \in Nat : x = messages'
    OBVIOUS
  <2>2. \A j \in 1..5, m \in Nat : Holds(j, m)' => Holds(j, m) \/ (j = 5 /\ m = x)
    BY <1>3, <2>1
  <2>3. \A j \in 1..5, m \in Nat : Holds(j, m)' /\ j < 5 => m <= x
    BY <1>4, <2>1
  <2>4. \A j \in 1..5, m \in Nat : Holds(j, m)' /\ j > 5 => x <= m
    OBVIOUS
  <2>5. 5 \in 1..5 /\ x <= messages' /\ messages <= messages' /\ messages' \in Nat
    BY <1>0, <2>1
  <2> QED
    BY <2>2, <2>3, <2>4, <2>5, OneComes
<1> QED
  BY <1>2, <1>5

LEMMA QuietOrdered ==
    ASSUME Types, Ordered, messages' \in Nat, messages <= messages',
           UNCHANGED <<decoder, waiting, parsing>>,
           queue' = queue \/ (queue # <<>> /\ queue' = Tail(queue))
    PROVE  Placed' /\ Known' /\ Sorted'
<1>1. CASE queue' = queue
  <2>1. \A j \in 1..5, m \in Nat : Holds(j, m)' => Holds(j, m)
    BY <1>1 DEF Holds
  <2> QED
    BY <1>1, <2>1, NoneComes DEF Ordered, Sorted
<1>2. CASE queue # <<>> /\ queue' = Tail(queue)
  <2>1. \A j \in 1..5, m \in Nat : Holds(j, m)' => Holds(j, m)
    BY <1>2, TailOrdered DEF Holds
  <2> QED
    BY <1>2, <2>1, NoneComes, TailOrdered
<1> QED
  BY <1>1, <1>2

LEMMA StartOverOrdered ==
    ASSUME Types, Ordered, StartOver
    PROVE  Placed' /\ Known' /\ Sorted'
<1>1. /\ queue # <<>> /\ queue' = Tail(queue) /\ decoder'.catalog.number = 0
      /\ UNCHANGED <<messages, waiting, parsing>> /\ messages \in Nat
  BY DEF StartOver, Receive, NewDecoder, NoMessage, workerVars, metadataVars, Types, WorkerTypes
<1>2. \A j \in 1..5, m \in Nat : Holds(j, m)' => Holds(j, m) \/ (j = 1 /\ m = 0)
  BY <1>1, TailOrdered DEF Holds
<1>3. /\ \A j \in 1..5, m \in Nat : Holds(j, m)' /\ j < 1 => m <= 0
      /\ \A j \in 1..5, m \in Nat : Holds(j, m)' /\ j > 1 => 0 <= m
      /\ 1 \in 1..5 /\ 0 \in Nat /\ 0 <= messages' /\ messages <= messages' /\ messages' \in Nat
  BY <1>1
<1>4. Placed' /\ Known'
  BY <1>2, <1>3, OneComes
<1> QED
  BY <1>1, <1>4, TailOrdered

LEMMA OfferOrdered ==
    ASSUME Types, Ordered, OfferModels, waiting' # waiting
    PROVE  Placed' /\ Known' /\ Sorted'
<1> DEFINE x == queue[1].body.number
<1>1. /\ queue # <<>> /\ queue' = Tail(queue) /\ Head(queue) = queue[1] /\ 1 \in DOMAIN queue
      /\ queue[1].kind = "message" /\ waiting' = {queue[1]}
      /\ UNCHANGED <<messages, decoder, parsing>> /\ messages \in Nat
  BY Taken DEF OfferModels, Receive, workerVars, Types, WorkerTypes
<1>2. x \in Nat /\ Holds(5, x)
  BY <1>1, InChannel
<1>3. \A j \in 1..5, m \in Nat : Holds(j, m)' => Holds(j, m) \/ (j = 4 /\ m = x)
  BY <1>1, TailOrdered DEF Holds
<1>4. ASSUME NEW m \in Nat, Holds(5, m)'
      PROVE  x <= m
  BY <1>1, <1>4, TailOrdered DEF Holds
<1> HIDE DEF x
<1>5. ASSUME NEW j \in 1..5, NEW m \in Nat, Holds(j, m)', j < 4
      PROVE  m <= x
  BY <1>2, <1>3, <1>5 DEF Ordered, Placed
<1>6. x <= messages
  BY <1>2 DEF Ordered, Known
<1>7. \A j \in 1..5, m \in Nat : Holds(j, m)' /\ j > 4 => x <= m
  BY <1>4
<1>8. Placed' /\ Known'
  <2>1. \A j \in 1..5, m \in Nat : Holds(j, m)' /\ j < 4 => m <= x
    BY <1>5
  <2>2. 4 \in 1..5 /\ x <= messages' /\ messages <= messages' /\ messages' \in Nat
    BY <1>1, <1>6
  <2> QED
    BY <1>2, <1>3, <1>7, <2>1, <2>2, OneComes
<1> QED
  BY <1>1, <1>8, TailOrdered

LEMMA InstallOrdered ==
    ASSUME Types, Ordered, InstallCatalog
    PROVE  /\ Placed' /\ Known' /\ Sorted'
           /\ decoder.catalog.number <= decoder'.catalog.number
<1> DEFINE x == queue[1].body.number
<1>1. /\ queue # <<>> /\ queue' = Tail(queue) /\ Head(queue) = queue[1] /\ 1 \in DOMAIN queue
      /\ queue[1].kind = "catalog" /\ decoder \in Decoder
      /\ decoder' = [decoder EXCEPT !.catalog = queue[1].body]
      /\ UNCHANGED <<messages, waiting, parsing>> /\ messages \in Nat
  BY Taken
     DEF InstallCatalog, Receive, Applying, Publishing, workerVars, metadataVars, Types,
         WorkerTypes, DecoderTypes
<1>2. x \in Nat /\ Holds(2, x)
  BY <1>1, InChannel
<1>3. decoder'.catalog.number = x /\ decoder.catalog.number \in Nat
  BY <1>1 DEF Decoder, Message
<1>4. \A j \in 1..5, m \in Nat : Holds(j, m)' => Holds(j, m) \/ (j = 1 /\ m = x)
  BY <1>1, <1>3, TailOrdered DEF Holds
<1>5. ASSUME NEW m \in Nat, Holds(2, m)'
      PROVE  x <= m
  BY <1>1, <1>5, TailOrdered DEF Holds
<1> HIDE DEF x
<1>6. ASSUME NEW j \in 1..5, NEW m \in Nat, Holds(j, m)', j > 1
      PROVE  x <= m
  <2>1. CASE j = 2
    BY <1>5, <1>6, <2>1
  <2>2. CASE j > 2
    BY <1>2, <1>4, <1>6, <2>2 DEF Ordered, Placed
  <2> QED
    BY <1>6, <2>1, <2>2
<1>7. x <= messages
  BY <1>2 DEF Ordered, Known
<1>8. Placed' /\ Known'
  BY <1>1, <1>2, <1>4, <1>6, <1>7, OneComes
<1>9. decoder.catalog.number <= x
  <2>1. Holds(1, decoder.catalog.number)
    BY DEF Holds
  <2> QED
    BY <1>2, <1>3, <2>1 DEF Ordered, Placed
<1> QED
  BY <1>1, <1>3, <1>8, <1>9, TailOrdered

LEMMA TakeOrdered ==
    ASSUME Types, Ordered, TakeModels
    PROVE  Placed' /\ Known' /\ Sorted'
<1>1. PICK c \in Command : waiting = {c}
  BY DEF TakeModels, Types, MetadataTypes, AtMostOne
<1> DEFINE x == c.body.number
<1>2. /\ parsing = {} /\ parsing' = {c} /\ waiting' = {}
      /\ UNCHANGED <<messages, decoder, queue>> /\ messages \in Nat
  BY <1>1 DEF TakeModels, workerVars, decoderVars, Types, WorkerTypes
<1>3. x \in Nat /\ Holds(4, x)
  BY <1>1, InMetadata DEF Holds
<1>4. \A j \in 1..5, m \in Nat : Holds(j, m)' => (Holds(j, m) /\ j # 4) \/ (j = 3 /\ m = x)
  BY <1>2 DEF Holds
<1> HIDE DEF x
<1>5. \A j \in 1..5, m \in Nat : Holds(j, m)' /\ j < 3 => m <= x
  BY <1>3, <1>4 DEF Ordered, Placed
<1>6. \A j \in 1..5, m \in Nat : Holds(j, m)' /\ j > 3 => x <= m
  BY <1>3, <1>4 DEF Ordered, Placed
<1>7. x <= messages
  BY <1>3 DEF Ordered, Known
<1>8. Placed' /\ Known'
  BY <1>2, <1>3, <1>4, <1>5, <1>6, <1>7, OneComes
<1> QED
  BY <1>2, <1>8 DEF Ordered, Sorted

LEMMA ParseOrdered ==
    ASSUME Types, Ordered, ParseModels
    PROVE  Placed' /\ Known' /\ Sorted'
<1>1. PICK c \in parsing :
        /\ parsing' = parsing \ {c}
        /\ queue' = Append(queue, [c EXCEPT !.kind = "catalog"]) \/ queue' = queue
        /\ UNCHANGED <<messages, decoder, waiting>>
  BY DEF ParseModels, workerVars
<1>2. parsing = {c} /\ c \in Command /\ messages \in Nat
  BY DEF Types, WorkerTypes, MetadataTypes, AtMostOne
<1> DEFINE x == c.body.number
<1>3. x \in Nat /\ Holds(3, x)
  BY <1>1, InMetadata DEF Holds
<1>4. PICK d : d = [c EXCEPT !.kind = "catalog"]
  OBVIOUS
<1>5. d \in Command /\ d.kind = "catalog" /\ d.body.number = x
  BY <1>2, <1>4 DEF Command
<1> HIDE DEF x
<1>6. x <= messages
  BY <1>3 DEF Ordered, Known
<1>7. CASE queue' = Append(queue, d)
  <2>1. ASSUME NEW i \in DOMAIN queue, queue[i].kind = "catalog"
        PROVE  queue[i].body.number <= x
    BY <1>3, <2>1, InChannel DEF Ordered, Placed
  <2>2. /\ Sorted'
        /\ \A i \in DOMAIN queue' : (i \in DOMAIN queue /\ queue'[i] = queue[i]) \/ queue'[i] = d
    BY <1>5, <1>7, <2>1, AppendOrdered
  <2>3. parsing' = {}
    BY <1>1, <1>2
  <2>4. \A j \in 1..5, m \in Nat : Holds(j, m)' => (Holds(j, m) /\ j # 3) \/ (j = 2 /\ m = x)
    BY <1>1, <1>5, <2>2, <2>3 DEF Holds
  <2>5. \A j \in 1..5, m \in Nat : Holds(j, m)' /\ j < 2 => m <= x
    BY <1>3, <2>4 DEF Ordered, Placed
  <2>6. \A j \in 1..5, m \in Nat : Holds(j, m)' /\ j > 2 => x <= m
    BY <1>3, <2>4 DEF Ordered, Placed
  <2>7. Placed' /\ Known'
    <3>1. \A j \in 1..5, m \in Nat : Holds(j, m)' => Holds(j, m) \/ (j = 2 /\ m = x)
      BY <2>4
    <3>2. 2 \in 1..5 /\ x <= messages' /\ messages <= messages' /\ messages' \in Nat
      BY <1>1, <1>2, <1>6
    <3> QED
      BY <1>3, <2>5, <2>6, <3>1, <3>2, OneComes
  <2> QED
    BY <2>2, <2>7
<1>8. CASE queue' = queue
  <2>1. \A j \in 1..5, m \in Nat : Holds(j, m)' => Holds(j, m)
    BY <1>1, <1>8 DEF Holds
  <2> QED
    BY <1>1, <1>2, <1>8, <2>1, NoneComes DEF Ordered, Sorted
<1> QED
  BY <1>1, <1>4, <1>7, <1>8

LEMMA OrderedStep ==
    ASSUME Types, Ordered, [Next]_laneVars
    PROVE  Ordered'
<1>0. /\ messages \in Nat /\ generation \in Nat /\ link \in Nat /\ message \in Message
      /\ (step = "told" => message.number = messages)
  BY DEF Types, WorkerTypes, Ordered
<1>1. (step = "told" => message.number = messages)'
  <2>1. CASE \E kind \in Kinds : Ingest(kind)
    <3>1. message'.number = messages'
      BY <2>1 DEF Ingest
    <3> QED
      BY <3>1
  <2> QED
    BY <1>0, <2>1
       DEF Next, Worker, Decode, Metadata, Readers, CloseSession, LoseLink, ConnectFails,
           Connected, InstallStatus, Seed, PostMessage, FileListing, StartOver, ClearSnapshot,
           DropOutdated, DecodeNothing, DecodeState, DecodeClock, InstallCatalog, OfferModels,
           LogFrame, NotifySubscribers, TakeModels, ParseModels, Applying, Publishing,
           Subscribe, Look, WakeUp, Leave, SetSub, Poll, workerVars, laneVars
<1>2. Placed' /\ Known' /\ Sorted'
  <2>1. CASE StartGeneration /\ UNCHANGED <<messages, decoder, waiting, parsing>>
    <3>1. PICK c \in Command : c.kind = "reset" /\ queue' = Append(queue, c)
      BY <1>0, <2>1, CommandTypes DEF StartGeneration, Reset
    <3> QED
      BY <1>0, <2>1, <3>1, TellOrdered
  <2>2. CASE Seed /\ queue' # queue
    <3>1. PICK m : /\ m = [kind |-> "preset", link |-> link, number |-> messages']
                   /\ queue' = Append(queue, Told(generation, m))
      BY <2>2 DEF Seed
    <3>2. /\ messages' = messages + 1 /\ UNCHANGED <<decoder, waiting, parsing>>
      BY <2>2 DEF Seed, metadataVars
    <3>3. m \in Message /\ m.number = messages'
      BY <1>0, <3>1, <3>2 DEF Message, Kinds
    <3>4. PICK c \in Command : /\ c.kind = "message" /\ c.body.number = messages'
                               /\ queue' = Append(queue, c)
      BY <1>0, <3>1, <3>3, CommandTypes DEF Told
    <3> QED
      BY <1>0, <3>2, <3>4, TellOrdered
  <2>3. CASE PostMessage
    <3>1. /\ message.number = messages' /\ UNCHANGED <<messages, decoder, waiting, parsing>>
          /\ queue' = Append(queue, Told(generation, message))
      BY <1>0, <2>3 DEF PostMessage, metadataVars
    <3>2. PICK c \in Command : /\ c.kind = "message" /\ c.body.number = messages'
                               /\ queue' = Append(queue, c)
      BY <1>0, <3>1, CommandTypes DEF Told
    <3> QED
      BY <1>0, <3>1, <3>2, TellOrdered
  <2>4. CASE StartOver
    BY <2>4, StartOverOrdered
  <2>5. CASE OfferModels
    <3>1. CASE waiting' = waiting
      BY <1>0, <2>5, <3>1, QuietOrdered DEF OfferModels, Receive, workerVars
    <3> QED
      BY <2>5, <3>1, OfferOrdered
  <2>6. CASE InstallCatalog
    BY <2>6, InstallOrdered
  <2>7. CASE TakeModels
    BY <2>7, TakeOrdered
  <2>8. CASE ParseModels
    BY <2>8, ParseOrdered
  <2>9. CASE DecodeState
    <3>1. /\ queue # <<>> /\ queue' = Tail(queue) /\ decoder \in Decoder
          /\ UNCHANGED <<messages, waiting, parsing>>
          /\ decoder' = [decoder EXCEPT !.preset = Head(queue).body] \/ decoder' = decoder
      BY <2>9
         DEF DecodeState, Receive, Applying, Publishing, workerVars, metadataVars, Types,
             DecoderTypes
    <3>2. decoder'.catalog = decoder.catalog
      BY <3>1 DEF Decoder
    <3>3. \A j \in 1..5, m \in Nat : Holds(j, m)' => Holds(j, m)
      BY <3>1, <3>2, TailOrdered DEF Holds
    <3> QED
      BY <1>0, <3>1, <3>3, NoneComes, TailOrdered
  <2>10. CASE \E kind \in Kinds : Ingest(kind)
    BY <1>0, <2>10, QuietOrdered DEF Ingest, decoderVars, metadataVars
  <2>11. CASE /\ UNCHANGED <<messages, decoder, waiting, parsing>>
              /\ queue' = queue \/ (queue # <<>> /\ queue' = Tail(queue))
    BY <1>0, <2>11, QuietOrdered
  <2>12. CASE Worker
    BY <2>1, <2>2, <2>3, <2>10, <2>11, <2>12
       DEF Worker, CloseSession, LoseLink, ConnectFails, Connected, InstallStatus, Seed,
           FileListing, decoderVars, metadataVars
  <2>13. CASE Decode
    BY <2>4, <2>5, <2>6, <2>9, <2>11, <2>13
       DEF Decode, ClearSnapshot, DropOutdated, DecodeNothing, DecodeClock, LogFrame,
           NotifySubscribers, Receive, Publishing, workerVars, metadataVars
  <2>14. CASE Readers \/ UNCHANGED laneVars
    BY <2>11, <2>14
       DEF Readers, Subscribe, Look, WakeUp, Leave, SetSub, Poll, workerVars, decoderVars,
           metadataVars, laneVars
  <2> QED
    BY <2>7, <2>8, <2>12, <2>13, <2>14 DEF Next, Metadata
<1> QED
  BY <1>1, <1>2 DEF Ordered

LEMMA OrderedInvariant == Spec => []Ordered
  BY OrderedInit, OrderedStep, TypesInvariant, PTL DEF Spec

(* For any number of messages and links: within a link the catalog is only *)
(* ever replaced by one the device told later, although a refresh may be   *)
(* dropped, and parsing lets other messages pass.                          *)
THEOREM CatalogsOnlyAdvance == Spec => CatalogsAdvance
<1>1. ASSUME Types, LaneLinked, Ordered, [Next]_laneVars,
             decoder'.catalog.link = decoder.catalog.link
      PROVE  decoder'.catalog.number >= decoder.catalog.number
  <2>1. decoder \in Decoder /\ decoder.catalog.number \in Nat
    BY <1>1 DEF Types, DecoderTypes, Decoder, Message
  <2>2. CASE StartOver
    <3>1. decoder'.catalog = NoMessage
      BY <2>2 DEF StartOver, NewDecoder
    <3>2. decoder.catalog = NoMessage
      BY <1>1, <3>1 DEF LaneLinked, DecoderLinked, NoMessage
    <3> QED
      BY <2>1, <3>1, <3>2
  <2>3. CASE InstallCatalog
    <3>1. decoder.catalog.number <= decoder'.catalog.number
      BY <1>1, <2>3, InstallOrdered
    <3>2. decoder'.catalog.number \in Nat
      BY <1>1, TypesStep DEF Types, DecoderTypes, Decoder, Message
    <3> QED
      BY <2>1, <3>1, <3>2
  <2>4. CASE decoder'.catalog = decoder.catalog
    BY <2>1, <2>4
  <2>5. CASE DecodeState
    BY <2>1, <2>4, <2>5 DEF DecodeState, Decoder
  <2> QED
    BY <1>1, <2>2, <2>3, <2>4, <2>5
       DEF Next, Worker, Decode, Metadata, Readers, CloseSession, LoseLink, ConnectFails,
           Connected, InstallStatus, Seed, Ingest, PostMessage, FileListing, ClearSnapshot,
           DropOutdated, DecodeNothing, DecodeClock, OfferModels, LogFrame, NotifySubscribers,
           TakeModels, ParseModels, Applying, Publishing, Subscribe, Look, WakeUp, Leave,
           SetSub, Poll, decoderVars, laneVars
<1> QED
  BY <1>1, TypesInvariant, LinkedInvariant, OrderedInvariant, PTL DEF Spec, CatalogsAdvance

=============================================================================
