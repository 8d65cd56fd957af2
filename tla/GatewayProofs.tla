---------------------------- MODULE GatewayProofs ----------------------------
(***************************************************************************)
(* Proofs about Gateway, for every set of slots and any number of calls,   *)
(* touches and losses.                                                     *)
(*                                                                         *)
(* First the mutations: the command of a stage is on its way, was lost, or *)
(* is executed, and until its own position has come the snapshot cannot be *)
(* taken for its confirmation.  Then the edits and recalls: until the      *)
(* device has executed the call, nothing on its way shows what the call    *)
(* waits for, and the snapshot cannot be taken for it either.              *)
(***************************************************************************)
EXTENDS Gateway, SequenceTheorems, FiniteSetTheorems, TLAPS

(***************************************************************************)
(* Types                                                                   *)
(***************************************************************************)
DeviceType == [pos : Places, name : Names, content : Contents, edited : BOOLEAN]
LaneType == Message \cup {ResetItem}
SnapshotType == [has : BOOLEAN, pos : Places \cup {Empty}, name : Names,
                 content : Contents, dirty : BOOLEAN]

(* A recall and a save name a slot.                                        *)
CommandType ==
    {c \in [op : {"recall", "edit", "save", "create", "readPreset", "readPosition"},
            pos : Places \cup {Empty}, name : Names, content : Contents, id : 0 .. MaxCalls] :
        c.op \in {"recall", "save"} => c.pos # Empty}
VerificationType ==
    [pos : Places \cup {Empty}, name : Names, content : Contents, clean : BOOLEAN]
StageType == [command : CommandType, verification : VerificationType]
RecordType == [place : Places, name : Names, content : Contents]
CallType ==
    [kind : {"none", "edit", "recall", "mutation"}, stages : Seq(StageType),
     records : SUBSET RecordType,
     at : {"idle", "planned", "armed", "push", "read", "asking", "confirm", "resetting",
           "replay", "recovered", "done", "failed"},
     moved : BOOLEAN, answered : BOOLEAN, told : BOOLEAN, quiet : BOOLEAN, stale : BOOLEAN,
     ran : BOOLEAN]

GatewayTypeOK ==
    /\ dev \in DeviceType
    /\ stored \in [Places -> [name : Names, content : Contents]]
    /\ out \in Seq(CommandType)
    /\ lane \in Seq(LaneType)
    /\ snap \in SnapshotType
    /\ up \in BOOLEAN
    /\ lib \in [Places -> Names]
    /\ call \in CallType
    /\ calls \in 0 .. MaxCalls
    /\ events \in 0 .. MaxEvents

-----------------------------------------------------------------------------
(* While a call has stages left it is at one of them.                      *)
Working == call.at \notin {"idle", "done", "failed"}
StagesLeft ==
    /\ Working => call.stages # <<>> /\ call.kind # "none"
    /\ call.at = "idle" => call.stages = <<>> /\ call.kind = "none"

CallInv == GatewayTypeOK /\ StagesLeft

-----------------------------------------------------------------------------
(* A mutation nobody interfered with.                                      *)
Tracked == call.kind = "mutation" /\ call.quiet /\ ~call.stale
Faithful(r) == stored[r.place] = [name |-> r.name, content |-> r.content]

Recalls(s) == s.command.op = "recall"
Saves(s) == s.command.op = "save"
Waits(s) == s.verification.pos # Empty

(* The stages of a mutation: a new setlist first, if any, then recalls and *)
(* saves that wait for their slot, each another than the one before, and   *)
(* for no content; a save follows its source's recall, unless it saves     *)
(* what is there, and no save overwrites a source.                         *)
StagesFit(stages) ==
    /\ \A i \in DOMAIN stages :
          \/ i = 1 /\ stages[i] = CreateStage
          \/ /\ Recalls(stages[i]) \/ Saves(stages[i])
             /\ stages[i].verification.pos = stages[i].command.pos
             /\ Waits(stages[i])
    /\ \A i \in DOMAIN stages : stages[i].verification.content = Empty
    /\ \A i \in DOMAIN stages :
          i > 1 => /\ stages[i - 1].verification.pos # stages[i].verification.pos
                   /\ Saves(stages[i]) => Recalls(stages[i - 1])
    /\ \A i, j \in DOMAIN stages :
          Saves(stages[i]) /\ Recalls(stages[j]) => stages[i].command.pos # stages[j].command.pos

(* A record is stored or its save is still to come; a save to come will    *)
(* find at its source, or in the device, what its record says.             *)
RecordsFit(stages, records) ==
    /\ \A r \in records :
          \/ Faithful(r)
          \/ \E i \in DOMAIN stages : Saves(stages[i]) /\ stages[i].command.pos = r.place
    /\ \A i \in DOMAIN stages, r \in records :
          Saves(stages[i]) /\ stages[i].command.pos = r.place =>
              /\ stages[i].command.name = r.name
              /\ r.content = IF i = 1 THEN dev.content
                             ELSE stored[stages[i - 1].command.pos].content

IsPosition(m) == m.kind = "position"
NoPosition == \A k \in DOMAIN lane : ~IsPosition(lane[k])
Creates(c) == c.op = "create"

(* The stage's slot cannot be taken for reached: the snapshot shows        *)
(* another, or does not match and nothing is on its way.                   *)
Hidden(v) ==
    /\ NoPosition
    /\ snap.pos # v.pos \/ (lane = <<>> /\ ~Matches(v, snap))

(* The device has executed the stage: only its own position is on its way, *)
(* and the stage does not match before it has come.                        *)
Executed(c, v) ==
    /\ \A k \in DOMAIN out : Creates(out[k])
    /\ \/ NoPosition
       \/ \E k \in DOMAIN lane :
             /\ IsPosition(lane[k]) /\ \A j \in DOMAIN lane : IsPosition(lane[j]) => j = k
             /\ snap.pos # v.pos \/ (k = 1 /\ ~Matches(v, snap))
    /\ dev.pos = v.pos
    /\ c.op = "recall" => dev.content = stored[c.pos].content
    /\ c.op = "save" => \A r \in call.records : r.place = c.pos => Faithful(r)

(* The stage's command is on its way, or was lost, or is not sent yet.     *)
NotExecuted(c, v) ==
    /\ Hidden(v)
    /\ \A k \in DOMAIN out :
          Creates(out[k]) \/ (call.at = "push" /\ k = Len(out) /\ out[k] = c)

(* A stage that waits for nothing leaves the lane empty and the snapshot   *)
(* without what the later stages wait for.                                 *)
NothingMoves ==
    /\ lane = <<>>
    /\ \A k \in DOMAIN out : Creates(out[k])
    /\ \A i \in DOMAIN call.stages : i > 1 => ~Matches(call.stages[i].verification, snap)

StageRuns(stage) ==
    IF Waits(stage)
    THEN \/ NotExecuted(stage.command, stage.verification)
         \/ call.at = "push" /\ Executed(stage.command, stage.verification)
    ELSE NothingMoves

Running ==
    /\ up
    /\ call.at \in {"planned", "armed", "push"}
    /\ StagesFit(call.stages)
    /\ RecordsFit(call.stages, call.records)
    /\ StageRuns(call.stages[1])

MutationRuns == Tracked /\ Working => Running

MutationEnds ==
    /\ Tracked /\ call.told => call.at = "done"
    /\ Tracked /\ call.at = "done" =>
          /\ \A k \in DOMAIN out : Creates(out[k])
          /\ \A r \in call.records : Faithful(r)

MutationInv == CallInv /\ MutationRuns /\ MutationEnds

-----------------------------------------------------------------------------
(* An edit, or a recall: one stage, whose command makes the device show    *)
(* what the stage waits for.                                               *)
SingleFits(kind, stage) ==
    /\ stage.command.op = kind
    /\ stage.verification.name = Empty
    /\ kind = "edit" => /\ stage.command.content = stage.verification.content
                        /\ stage.verification.pos = Empty /\ ~stage.verification.clean
    /\ kind = "recall" => /\ stage.command.pos = stage.verification.pos
                          /\ stage.verification.content = Empty

Single == /\ call.kind \in {"edit", "recall"} /\ call.quiet
          /\ call.kind = "edit" => ~call.stale
Part == IF call.kind = "edit" THEN "content" ELSE "pos"
ReadOp == IF call.kind = "edit" THEN "readPreset" ELSE "readPosition"

(* Nothing on its way shows it, and the snapshot cannot be taken for it: a *)
(* recall that found its slot shown waits for a position, and one that     *)
(* did not match is shown nothing before a position or a reset.            *)
Unseen(v) ==
    /\ v[Part] # Empty
    /\ \A k \in DOMAIN lane : lane[k][Part] # v[Part]
    /\ snap[Part] = v[Part] =>
          /\ call.kind = "recall" /\ ~call.moved
          /\ ~call.stale => /\ v.clean /\ snap.dirty
                            /\ lane = <<>> \/ IsPosition(lane[1]) \/ lane[1] = ResetItem

Holds(stage) ==
    /\ Len(call.stages) = 1
    /\ SingleFits(call.kind, stage)
    /\ \A k \in DOMAIN out : out[k] = stage.command \/ out[k].op = ReadOp
    /\ stage.verification[Part] \in {Empty, dev[Part]} \/ Unseen(stage.verification)

SingleHolds == Single /\ Working => Holds(call.stages[1])

VerifiedInv == MutationInv /\ SingleHolds

-----------------------------------------------------------------------------
(***************************************************************************)
(* The operators keep their types                                          *)
(***************************************************************************)
LEMMA ValuesTyped ==
    /\ Empty \in Names /\ Chosen \in Names /\ Empty \in Contents /\ Edit \in Contents
    /\ 0 \in 0 .. MaxCalls
    /\ \A p \in Slots : p \in Places /\ p \in Names /\ p \in Contents /\ p # Empty
    /\ \A p \in Places : p # Empty
  BY PlacesAssumption DEF Names, Contents, Chosen, Places, Empty

(* What the device sends is a message.                                     *)
LEMMA MessagesTyped ==
    /\ \A pos \in Places \cup {Empty}, id \in 0 .. MaxCalls : PositionMessage(pos, id) \in Message
    /\ \A name \in Names, content \in Contents, id \in 0 .. MaxCalls :
          PresetMessage(name, content, id) \in Message
    /\ \A dirty \in BOOLEAN : DirtyMessage(dirty) \in Message
    /\ \A content \in Contents : EditMessage(content) \in Message
<1> USE ValuesTyped DEF Message
<1>1. \A pos \in Places \cup {Empty}, id \in 0 .. MaxCalls : PositionMessage(pos, id) \in Message
  BY DEF PositionMessage
<1>2. \A name \in Names, content \in Contents, id \in 0 .. MaxCalls :
          PresetMessage(name, content, id) \in Message
  BY DEF PresetMessage
<1>3. \A dirty \in BOOLEAN : DirtyMessage(dirty) \in Message
  BY DEF DirtyMessage
<1>4. \A content \in Contents : EditMessage(content) \in Message
  BY DEF EditMessage
<1> QED
  BY <1>1, <1>2, <1>3, <1>4

LEMMA AppliedTyped ==
    ASSUME NEW s \in SnapshotType, NEW m \in Message
    PROVE  Applied(s, m) \in SnapshotType
<1> USE DEF SnapshotType
<1>1. m.kind \in {"position", "preset", "dirty", "edit"}
  BY DEF Message
<1>2. /\ m.pos \in Places \cup {Empty} /\ m.name \in Names
      /\ m.content \in Contents /\ m.dirty \in BOOLEAN
  BY DEF Message
<1>3. CASE m.kind = "position"
  BY <1>2, <1>3 DEF Applied
<1>4. CASE m.kind = "preset"
  BY <1>2, <1>4 DEF Applied
<1>5. CASE m.kind = "dirty"
  BY <1>2, <1>5 DEF Applied
<1>6. CASE m.kind = "edit"
  BY <1>2, <1>6 DEF Applied
<1> QED
  BY <1>1, <1>3, <1>4, <1>5, <1>6

(* A call with one field replaced by a value of its type is a call.        *)
LEMMA SetCallField ==
    ASSUME NEW c \in CallType
    PROVE  /\ \A v \in Seq(StageType) : [c EXCEPT !.stages = v] \in CallType
           /\ \A v \in {"idle", "planned", "armed", "push", "read", "asking", "confirm",
                        "resetting", "replay", "recovered", "done", "failed"} :
                 [c EXCEPT !.at = v] \in CallType
           /\ \A v \in BOOLEAN : [c EXCEPT !.moved = v] \in CallType
           /\ \A v \in BOOLEAN : [c EXCEPT !.answered = v] \in CallType
           /\ \A v \in BOOLEAN : [c EXCEPT !.told = v] \in CallType
           /\ \A v \in BOOLEAN : [c EXCEPT !.quiet = v] \in CallType
           /\ \A v \in BOOLEAN : [c EXCEPT !.ran = v] \in CallType
  BY DEF CallType

LEMMA NoCallTyped == NoCall \in CallType
<1>1. <<>> \in Seq(StageType)
  OBVIOUS
<1> QED
  BY <1>1 DEF NoCall, CallType

LEMMA CommandTyped ==
    ASSUME NEW op \in {"recall", "edit", "save", "create", "readPreset", "readPosition"},
           NEW pos \in Places \cup {Empty}, NEW name \in Names, NEW content \in Contents,
           NEW id \in 0 .. MaxCalls, op \in {"recall", "save"} => pos # Empty
    PROVE  Command(op, pos, name, content, id) \in CommandType
  BY DEF Command, CommandType

LEMMA ShowsTyped ==
    ASSUME NEW pos \in Places \cup {Empty}, NEW name \in Names, NEW content \in Contents,
           NEW clean \in BOOLEAN
    PROVE  Shows(pos, name, content, clean) \in VerificationType
  BY DEF Shows, VerificationType

LEMMA StageTyped ==
    ASSUME NEW c \in CommandType, NEW v \in VerificationType
    PROVE  Stage(c, v) \in StageType
  BY DEF Stage, StageType

LEMMA StagesTyped ==
    /\ \A place \in Places, name \in Names : SaveStage(place, name) \in StageType
    /\ CreateStage \in StageType
    /\ lib \in [Places -> Names] => \A place \in Places : RecallStage(place) \in StageType
<1>1. ASSUME NEW place \in Places, NEW name \in Names
      PROVE  SaveStage(place, name) \in StageType
  BY ValuesTyped, CommandTyped, ShowsTyped, StageTyped DEF SaveStage
<1>2. CreateStage \in StageType
  BY ValuesTyped, CommandTyped, ShowsTyped, StageTyped DEF CreateStage, Unverified
<1>3. ASSUME lib \in [Places -> Names], NEW place \in Places
      PROVE  RecallStage(place) \in StageType
  <2>1. lib[place] \in Names
    BY <1>3
  <2> QED
    BY <2>1, ValuesTyped, CommandTyped, ShowsTyped, StageTyped DEF RecallStage
<1> QED
  BY <1>1, <1>2, <1>3

(* A plan starts with its stages, and remembers whether something is under *)
(* way and whether the snapshot shows what it waits for.                   *)
LEMMA PlanFields ==
    ASSUME NEW kind, NEW stages, NEW records
    PROVE  /\ Plan(kind, stages, records).kind = kind
           /\ Plan(kind, stages, records).stages = stages
           /\ Plan(kind, stages, records).records = records
           /\ Plan(kind, stages, records).at = "planned"
           /\ ~Plan(kind, stages, records).told /\ ~Plan(kind, stages, records).moved
  BY DEF Plan

LEMMA PlanQuiet ==
    ASSUME NEW kind, NEW stages, NEW records, Plan(kind, stages, records).quiet
    PROVE  out = <<>> /\ lane = <<>>
  BY DEF Plan

LEMMA PlanStale ==
    ASSUME NEW kind, NEW stages, NEW records, ~Plan(kind, stages, records).stale,
           NEW i \in DOMAIN stages, stages[i].verification # Unverified
    PROVE  ~Matches(stages[i].verification, snap)
<1> DEFINE stale == \E j \in DOMAIN stages : /\ stages[j].verification # Unverified
                                             /\ Matches(stages[j].verification, snap)
<1>1. Plan(kind, stages, records).stale = stale
  <2> HIDE DEF stale
  <2>1. Plan(kind, stages, records)
        = [kind |-> kind, stages |-> stages, records |-> records, at |-> "planned",
           moved |-> FALSE, answered |-> FALSE, told |-> FALSE,
           quiet |-> out = <<>> /\ lane = <<>>, stale |-> stale, ran |-> FALSE]
    BY Zenon DEF Plan, stale
  <2> QED
    BY <2>1
<1> HIDE DEF stale
<1>2. ~stale
  BY <1>1
<1> QED
  BY <1>2 DEF stale

LEMMA PlanTyped ==
    ASSUME NEW kind \in {"edit", "recall", "mutation"}, NEW stages \in Seq(StageType),
           NEW records \in SUBSET RecordType
    PROVE  Plan(kind, stages, records) \in CallType
<1> DEFINE quiet == out = <<>> /\ lane = <<>>
           stale == \E i \in DOMAIN stages : /\ stages[i].verification # Unverified
                                             /\ Matches(stages[i].verification, snap)
<1>1. quiet \in BOOLEAN /\ stale \in BOOLEAN
  OBVIOUS
<1>2. Plan(kind, stages, records)
        = [kind |-> kind, stages |-> stages, records |-> records, at |-> "planned",
           moved |-> FALSE, answered |-> FALSE, told |-> FALSE,
           quiet |-> quiet, stale |-> stale, ran |-> FALSE]
  BY Zenon DEF Plan
<1> HIDE DEF quiet, stale
<1> QED
  BY <1>1, <1>2 DEF CallType

LEMMA OneStage ==
    ASSUME NEW s \in StageType
    PROVE  <<s>> \in Seq(StageType) /\ <<s>> # <<>> /\ Len(<<s>>) = 1 /\ <<s>>[1] = s
  OBVIOUS

-----------------------------------------------------------------------------
(***************************************************************************)
(* Plans                                                                   *)
(***************************************************************************)
LEMMA Halves ==
    ASSUME NEW n \in Nat, NEW i \in 2 .. 2 * n + 1
    PROVE  /\ i \div 2 \in 1 .. n
           /\ i % 2 # 0 => /\ i > 2 /\ (i - 1) % 2 = 0 /\ (i - 1) \div 2 = i \div 2
           /\ i % 2 = 0 => (i - 1) % 2 # 0 \/ i = 2
  OBVIOUS

LEMMA RecordTyped ==
    ASSUME NEW place \in Places, NEW name \in Names, NEW content \in Contents
    PROVE  Saved(place, name, content) \in RecordType
  BY DEF Saved, RecordType

(* Any plan for a call of this kind.                                       *)
Plans(kind, plan) ==
    \E stages \in Seq(StageType), records \in SUBSET RecordType :
        /\ stages # <<>>
        /\ plan = Plan(kind, stages, records)
        /\ kind = "mutation" => StagesFit(stages) /\ RecordsFit(stages, records)
        /\ kind # "mutation" => Len(stages) = 1 /\ SingleFits(kind, stages[1])

LEMMA EditPlanned ==
    ASSUME GatewayTypeOK
    PROVE  Plans("edit", EditPlan)
<1> DEFINE s == Stage(Command("edit", Empty, Empty, Edit, 0), Shows(Empty, Empty, Edit, FALSE))
<1>1. s \in StageType
  BY ValuesTyped, CommandTyped, ShowsTyped, StageTyped
<1>2. EditPlan = Plan("edit", <<s>>, {})
  BY DEF EditPlan
<1>5. SingleFits("edit", s)
  BY DEF SingleFits, Stage, Command, Shows
<1> HIDE DEF s
<1>3. /\ <<s>> \in Seq(StageType) /\ <<s>> # <<>> /\ {} \in SUBSET RecordType
      /\ Len(<<s>>) = 1 /\ SingleFits("edit", <<s>>[1])
  BY <1>1, <1>5
<1>4. "edit" # "mutation"
  OBVIOUS
<1> QED
  BY <1>2, <1>3, <1>4, Zenon DEF Plans

LEMMA RecallPlanned ==
    ASSUME GatewayTypeOK, calls < MaxCalls, NEW place \in Slots
    PROVE  Plans("recall", RecallPlan(place))
<1> DEFINE s == Stage(Command("recall", place, Empty, Empty, calls + 1),
                   Shows(place, Empty, Empty, FALSE))
<1>1. calls + 1 \in 0 .. MaxCalls
  BY PlacesAssumption DEF GatewayTypeOK
<1>2. s \in StageType
  BY <1>1, ValuesTyped, CommandTyped, ShowsTyped, StageTyped
<1>3. RecallPlan(place) = Plan("recall", <<s>>, {})
  BY DEF RecallPlan
<1>6. SingleFits("recall", s)
  BY DEF SingleFits, Stage, Command, Shows
<1> HIDE DEF s
<1>4. /\ <<s>> \in Seq(StageType) /\ <<s>> # <<>> /\ {} \in SUBSET RecordType
      /\ Len(<<s>>) = 1 /\ SingleFits("recall", <<s>>[1])
  BY <1>2, <1>6
<1>5. "recall" # "mutation"
  OBVIOUS
<1> QED
  BY <1>3, <1>4, <1>5, Zenon DEF Plans

LEMMA ReloadPlanned ==
    ASSUME GatewayTypeOK, calls < MaxCalls, snap.pos # Empty
    PROVE  Plans("recall", ReloadPlan)
<1> DEFINE s == Stage(Command("recall", snap.pos, Empty, Empty, calls + 1),
                   Shows(snap.pos, Empty, Empty, TRUE))
<1>1. calls + 1 \in 0 .. MaxCalls
  BY PlacesAssumption DEF GatewayTypeOK
<1>2. snap.pos \in Places \cup {Empty}
  BY DEF GatewayTypeOK, SnapshotType
<1>3. s \in StageType
  BY <1>1, <1>2, ValuesTyped, CommandTyped, ShowsTyped, StageTyped
<1>4. ReloadPlan = Plan("recall", <<s>>, {})
  BY DEF ReloadPlan
<1>7. SingleFits("recall", s)
  BY DEF SingleFits, Stage, Command, Shows
<1> HIDE DEF s
<1>5. /\ <<s>> \in Seq(StageType) /\ <<s>> # <<>> /\ {} \in SUBSET RecordType
      /\ Len(<<s>>) = 1 /\ SingleFits("recall", <<s>>[1])
  BY <1>3, <1>7
<1>6. "recall" # "mutation"
  OBVIOUS
<1> QED
  BY <1>4, <1>5, <1>6, Zenon DEF Plans

(* What a save and a recall of a plan are.                                 *)
LEMMA SaveStageFacts ==
    ASSUME NEW place, NEW name
    PROVE  /\ Saves(SaveStage(place, name)) /\ ~Recalls(SaveStage(place, name))
           /\ SaveStage(place, name).command.pos = place
           /\ SaveStage(place, name).command.name = name
           /\ SaveStage(place, name).verification.pos = place
           /\ SaveStage(place, name).verification.content = Empty
  BY DEF SaveStage, Stage, Command, Shows, Saves, Recalls

LEMMA RecallStageFacts ==
    ASSUME NEW place
    PROVE  /\ Recalls(RecallStage(place)) /\ ~Saves(RecallStage(place))
           /\ RecallStage(place).command.pos = place
           /\ RecallStage(place).verification.pos = place
           /\ RecallStage(place).verification.content = Empty
  BY DEF RecallStage, Stage, Command, Shows, Saves, Recalls

LEMMA CreateStageFacts ==
    /\ ~Saves(CreateStage) /\ ~Recalls(CreateStage)
    /\ CreateStage.verification = Unverified
    /\ CreateStage.verification.pos = Empty /\ CreateStage.verification.content = Empty
    /\ Creates(CreateStage.command)
  BY DEF CreateStage, Stage, Command, Unverified, Shows, Saves, Recalls, Creates

LEMMA SavePlanned ==
    ASSUME GatewayTypeOK, NEW place \in Places, NEW name \in Names
    PROVE  Plans("mutation", SavePlan(place, name))
<1> DEFINE stages == <<SaveStage(place, name)>>
           records == {Saved(place, name, dev.content)}
<1>1. SaveStage(place, name) \in StageType
  BY StagesTyped
<1>2. /\ stages \in Seq(StageType) /\ stages # <<>>
      /\ DOMAIN stages = {1} /\ stages[1] = SaveStage(place, name)
  BY <1>1
<1>3. records \in SUBSET RecordType
  BY RecordTyped DEF GatewayTypeOK, DeviceType
<1> HIDE DEF stages
<1>4. StagesFit(stages)
  BY <1>2, SaveStageFacts, ValuesTyped DEF StagesFit, Waits
<1>5. RecordsFit(stages, records)
  BY <1>2, SaveStageFacts DEF RecordsFit, Saved
<1>6. SavePlan(place, name) = Plan("mutation", stages, records)
  BY DEF SavePlan, stages
<1> HIDE DEF records
<1> QED
  BY <1>2, <1>3, <1>4, <1>5, <1>6, Zenon DEF Plans

LEMMA CopyPlanned ==
    ASSUME GatewayTypeOK, NEW from \in Slots, snap.pos \notin {Empty, from}
    PROVE  Plans("mutation", CopyPlan(from))
<1> DEFINE stages == <<RecallStage(from), SaveStage(snap.pos, lib[from])>>
           records == {Saved(snap.pos, lib[from], stored[from].content)}
<1>0. /\ from \in Places /\ from # Empty /\ snap.pos \in Places
      /\ lib[from] \in Names /\ stored[from].content \in Contents
  BY ValuesTyped DEF GatewayTypeOK, SnapshotType
<1>1. SaveStage(snap.pos, lib[from]) \in StageType /\ RecallStage(from) \in StageType
  BY <1>0, StagesTyped DEF GatewayTypeOK
<1>2. /\ stages \in Seq(StageType) /\ stages # <<>>
      /\ DOMAIN stages = {1, 2} /\ stages[1] = RecallStage(from)
      /\ stages[2] = SaveStage(snap.pos, lib[from])
  BY <1>1
<1>3. records \in SUBSET RecordType
  BY <1>0, RecordTyped
<1> HIDE DEF stages
<1>4. StagesFit(stages)
  BY <1>0, <1>2, SaveStageFacts, RecallStageFacts, ValuesTyped DEF StagesFit, Waits
<1>5. RecordsFit(stages, records)
  BY <1>0, <1>2, SaveStageFacts, RecallStageFacts DEF RecordsFit, Saved
<1>6. CopyPlan(from) = Plan("mutation", stages, records)
  BY DEF CopyPlan, stages
<1> HIDE DEF records
<1> QED
  BY <1>2, <1>3, <1>4, <1>5, <1>6, Zenon DEF Plans

LEMMA DuplicatePlanned ==
    ASSUME GatewayTypeOK, NEW n \in Nat,
           NEW from \in [1 .. n -> Slots], NEW to \in [1 .. n -> NewSlots],
           \A i, j \in 1 .. n : i < j => from[i] < from[j],
           \A i, j \in 1 .. n : i < j => to[i] < to[j]
    PROVE  Plans("mutation", DuplicatePlan(from, to, n))
<1> DEFINE stage(i) == IF i = 1 THEN CreateStage
                       ELSE IF i % 2 = 0 THEN RecallStage(from[i \div 2])
                       ELSE SaveStage(to[i \div 2], lib[from[i \div 2]])
           stages == [i \in 1 .. 2 * n + 1 |-> stage(i)]
           records == {Saved(to[i], lib[from[i]], stored[from[i]].content) : i \in 1 .. n}
<1>0. \A i \in 1 .. n : /\ from[i] \in Places /\ from[i] # Empty /\ from[i] \in Slots
                        /\ to[i] \in Places /\ to[i] # Empty /\ to[i] \notin Slots
                        /\ lib[from[i]] \in Names /\ stored[from[i]].content \in Contents
  BY ValuesTyped, PlacesAssumption DEF GatewayTypeOK, Places
<1>1. \A i, j \in 1 .. n : to[i] = to[j] => i = j
  <2>1. \A i \in 1 .. n : to[i] \in Nat
    BY PlacesAssumption
  <2>2. \A i, j \in 1 .. n : i < j => to[i] # to[j]
    BY <2>1
  <2> QED
    BY <2>2
<1>2. \A i \in 1 .. 2 * n + 1 :
         \/ i = 1 /\ stage(i) = CreateStage
         \/ /\ i > 1 /\ i % 2 = 0 /\ i \div 2 \in 1 .. n
            /\ stage(i) = RecallStage(from[i \div 2])
         \/ /\ i > 1 /\ i % 2 # 0 /\ i \div 2 \in 1 .. n
            /\ stage(i) = SaveStage(to[i \div 2], lib[from[i \div 2]])
  BY Halves
<1>3. \A i \in 1 .. 2 * n + 1 : stage(i) \in StageType
  <2> TAKE i \in 1 .. 2 * n + 1
  <2>1. lib \in [Places -> Names]
    BY DEF GatewayTypeOK
  <2> HIDE DEF stage
  <2>2. CASE i = 1 /\ stage(i) = CreateStage
    BY <2>2, StagesTyped
  <2>3. CASE i \div 2 \in 1 .. n /\ stage(i) = RecallStage(from[i \div 2])
    BY <1>0, <2>1, <2>3, StagesTyped
  <2>4. CASE i \div 2 \in 1 .. n /\ stage(i) = SaveStage(to[i \div 2], lib[from[i \div 2]])
    BY <1>0, <2>4, StagesTyped
  <2> QED
    BY <1>2, <2>2, <2>3, <2>4
<1>4. /\ stages \in Seq(StageType) /\ stages # <<>> /\ DOMAIN stages = 1 .. 2 * n + 1
      /\ \A i \in 1 .. 2 * n + 1 : stages[i] = stage(i)
  <2>1. 2 * n + 1 \in Nat
    OBVIOUS
  <2> HIDE DEF stage
  <2>2. stages \in [1 .. 2 * n + 1 -> StageType]
    BY <1>3
  <2>3. stages \in Seq(StageType)
    BY <2>1, <2>2, IsASeq
  <2> QED
    BY <2>1, <2>2, <2>3
<1>5. records \in SUBSET RecordType
  BY <1>0, RecordTyped
<1> HIDE DEF stage, stages
<1>6. \A i \in 1 .. 2 * n + 1 :
         \/ i = 1 /\ stages[i] = CreateStage
         \/ /\ i > 1 /\ i % 2 = 0 /\ i \div 2 \in 1 .. n
            /\ stages[i] = RecallStage(from[i \div 2])
         \/ /\ i > 1 /\ i % 2 # 0 /\ i \div 2 \in 1 .. n
            /\ stages[i] = SaveStage(to[i \div 2], lib[from[i \div 2]])
  BY <1>2, <1>4, Zenon
<1>7. StagesFit(stages)
  <2>1. \A i \in DOMAIN stages :
          \/ i = 1 /\ stages[i] = CreateStage
          \/ /\ Recalls(stages[i]) \/ Saves(stages[i])
             /\ stages[i].verification.pos = stages[i].command.pos
             /\ Waits(stages[i])
    BY <1>0, <1>2, <1>4, SaveStageFacts, RecallStageFacts DEF Waits
  <2>2. ASSUME NEW i \in DOMAIN stages, i > 1
        PROVE  /\ stages[i - 1].verification.pos # stages[i].verification.pos
               /\ Saves(stages[i]) => Recalls(stages[i - 1])
    <3>0. i \in 2 .. 2 * n + 1 /\ i - 1 \in 1 .. 2 * n + 1 /\ i \in 1 .. 2 * n + 1
      BY <1>4, <2>2
    <3>1. CASE i % 2 = 0
      <4>1. stages[i] = RecallStage(from[i \div 2]) /\ i \div 2 \in 1 .. n
        BY <1>6, <2>2, <3>0, <3>1
      <4>2. \/ stages[i - 1] = CreateStage
            \/ /\ (i - 1) \div 2 \in 1 .. n
               /\ stages[i - 1] = SaveStage(to[(i - 1) \div 2], lib[from[(i - 1) \div 2]])
        <5> DEFINE j == i - 1
        <5>1. j \in 1 .. 2 * n + 1 /\ (j = 1 \/ j % 2 # 0)
          BY <3>0, <3>1, Halves
        <5> HIDE DEF j
        <5>2. \/ stages[j] = CreateStage
              \/ j \div 2 \in 1 .. n /\ stages[j] = SaveStage(to[j \div 2], lib[from[j \div 2]])
          BY <1>6, <5>1
        <5> QED
          BY <5>2 DEF j
      <4> QED
        BY <1>0, <4>1, <4>2, CreateStageFacts, SaveStageFacts, RecallStageFacts
    <3>2. CASE i % 2 # 0
      <4>1. /\ stages[i] = SaveStage(to[i \div 2], lib[from[i \div 2]])
            /\ i \div 2 \in 1 .. n
        <5>1. i \in 1 .. 2 * n + 1 /\ i # 1
          BY <2>2, <3>0
        <5> QED
          BY <1>6, <3>2, <5>1, Zenon
      <4>2. i > 2 /\ (i - 1) % 2 = 0 /\ (i - 1) \div 2 = i \div 2
        BY <3>0, <3>2, Halves
      <4>3. stages[i - 1] = RecallStage(from[i \div 2])
        <5> DEFINE j == i - 1
        <5>1. j \in 1 .. 2 * n + 1 /\ j > 1 /\ j % 2 = 0 /\ j \div 2 = i \div 2
          BY <3>0, <4>2
        <5> HIDE DEF j
        <5>2. stages[j] = RecallStage(from[j \div 2])
          BY <1>6, <5>1
        <5> QED
          BY <5>1, <5>2 DEF j
      <4> QED
        BY <1>0, <4>1, <4>3, SaveStageFacts, RecallStageFacts
    <3> QED
      BY <3>1, <3>2
  <2>3. ASSUME NEW i \in DOMAIN stages, NEW j \in DOMAIN stages,
               Saves(stages[i]), Recalls(stages[j])
        PROVE  stages[i].command.pos # stages[j].command.pos
    <3>1. i \div 2 \in 1 .. n /\ stages[i] = SaveStage(to[i \div 2], lib[from[i \div 2]])
      BY <1>2, <1>4, <2>3, CreateStageFacts, RecallStageFacts
    <3>2. j \div 2 \in 1 .. n /\ stages[j] = RecallStage(from[j \div 2])
      BY <1>2, <1>4, <2>3, CreateStageFacts, SaveStageFacts
    <3> QED
      BY <1>0, <3>1, <3>2, SaveStageFacts, RecallStageFacts
  <2>4. \A i \in DOMAIN stages : stages[i].verification.content = Empty
    BY <1>4, <1>6, CreateStageFacts, SaveStageFacts, RecallStageFacts
  <2> QED
    BY <2>1, <2>2, <2>3, <2>4 DEF StagesFit
<1>8. RecordsFit(stages, records)
  <2>1. ASSUME NEW r \in records
        PROVE  \E i \in DOMAIN stages : Saves(stages[i]) /\ stages[i].command.pos = r.place
    <3>1. PICK k \in 1 .. n : r = Saved(to[k], lib[from[k]], stored[from[k]].content)
      OBVIOUS
    <3>2. PICK m \in 1 .. 2 * n + 1 : m > 1 /\ m % 2 # 0 /\ m \div 2 = k
      <4>1. /\ 2 * k + 1 \in 1 .. 2 * n + 1 /\ 2 * k + 1 > 1
            /\ (2 * k + 1) % 2 # 0 /\ (2 * k + 1) \div 2 = k
        OBVIOUS
      <4> QED
        BY <4>1
    <3>3. stages[m] = SaveStage(to[k], lib[from[k]])
      <4>1. stage(m) = SaveStage(to[m \div 2], lib[from[m \div 2]])
        BY <1>2, <3>2
      <4> QED
        BY <1>4, <3>2, <4>1
    <3>4. r.place = to[k]
      BY <3>1 DEF Saved
    <3> QED
      <4>1. Saves(stages[m]) /\ stages[m].command.pos = to[k]
        BY <3>3, SaveStageFacts
      <4>2. m \in DOMAIN stages
        BY <1>4, <3>2
      <4> QED
        BY <3>4, <4>1, <4>2, Zenon
  <2>2. ASSUME NEW i \in DOMAIN stages, NEW r \in records,
               Saves(stages[i]), stages[i].command.pos = r.place
        PROVE  /\ stages[i].command.name = r.name
               /\ r.content = IF i = 1 THEN dev.content
                              ELSE stored[stages[i - 1].command.pos].content
    <3>1. PICK k \in 1 .. n : r = Saved(to[k], lib[from[k]], stored[from[k]].content)
      OBVIOUS
    <3>2. /\ i > 1 /\ i % 2 # 0 /\ i \div 2 \in 1 .. n
          /\ stages[i] = SaveStage(to[i \div 2], lib[from[i \div 2]])
      BY <1>2, <1>4, <2>2, CreateStageFacts, RecallStageFacts
    <3>3. i \div 2 = k
      BY <1>1, <2>2, <3>1, <3>2, SaveStageFacts DEF Saved
    <3>4. i \in 2 .. 2 * n + 1 /\ i - 1 \in 1 .. 2 * n + 1
      BY <1>4, <3>2
    <3> DEFINE j == i - 1
    <3>5. j \in 1 .. 2 * n + 1 /\ j > 1 /\ j % 2 = 0 /\ j \div 2 = k
      <4>1. j % 2 = 0 /\ i > 2 /\ j \div 2 = i \div 2
        BY <3>2, <3>4, Halves
      <4> QED
        BY <3>3, <3>4, <4>1
    <3>6. stages[j] = RecallStage(from[k])
      <4> HIDE DEF j
      <4> QED
        BY <1>6, <3>5
    <3> QED
      BY <3>1, <3>2, <3>3, <3>6, SaveStageFacts, RecallStageFacts DEF Saved
  <2> QED
    BY <2>1, <2>2, Zenon DEF RecordsFit
<1>9. DuplicatePlan(from, to, n) = Plan("mutation", stages, records)
  BY Zenon DEF DuplicatePlan, stages, stage
<1> HIDE DEF records
<1> QED
  BY <1>4, <1>5, <1>7, <1>8, <1>9, Zenon DEF Plans

-----------------------------------------------------------------------------
(***************************************************************************)
(* Steps of the same shape                                                 *)
(***************************************************************************)
BeginsCall ==
    \/ \E p \in Slots : BeginRecall(p) \/ BeginCopy(p)
    \/ \E p \in Slots, n \in {Chosen, snap.name} : n # Empty /\ BeginSave(p, n)
    \/ \E n \in 1 .. Cardinality(NewSlots) : BeginDuplicate(n)
    \/ BeginEdit \/ BeginReload

(* Every call begins with a plan of at least one stage.                    *)
LEMMA BeginsPlan ==
    ASSUME GatewayTypeOK, BeginsCall
    PROVE  \E kind \in {"edit", "recall", "mutation"} : \E plan : Plans(kind, plan) /\ Begin(plan)
<1> DEFINE Goal == \E kind \in {"edit", "recall", "mutation"} :
                      \E plan : Plans(kind, plan) /\ Begin(plan)
<1>0. \A plan : Begin(plan) => calls < MaxCalls
  BY Zenon DEF Begin
<1>1. ASSUME NEW p \in Slots, BeginRecall(p)
      PROVE  Goal
  BY <1>0, <1>1, RecallPlanned, Zenon DEF BeginRecall
<1>2. ASSUME NEW p \in Slots, BeginCopy(p)
      PROVE  Goal
  BY <1>2, CopyPlanned, Zenon DEF BeginCopy
<1>3. ASSUME NEW p \in Slots, NEW n \in {Chosen, snap.name}, BeginSave(p, n)
      PROVE  Goal
  <2>1. p \in Places /\ n \in Names
    BY <1>3, ValuesTyped DEF GatewayTypeOK, SnapshotType
  <2> QED
    BY <1>3, <2>1, SavePlanned, Zenon DEF BeginSave
<1>4. ASSUME NEW limit \in 1 .. Cardinality(NewSlots), BeginDuplicate(limit)
      PROVE  Goal
  <2> DEFINE named == {p \in Slots : lib[p] # Empty}
             n == IF limit < Cardinality(named) THEN limit ELSE Cardinality(named)
  <2>1. IsFiniteSet(named)
    <3>1. named \subseteq Slots \cup NewSlots
      OBVIOUS
    <3> QED
      BY <3>1, PlacesAssumption, FS_Subset
  <2>2. n \in Nat
    <3>1. Cardinality(named) \in Nat
      BY <2>1, FS_CardinalityType
    <3> HIDE DEF named
    <3> QED
      BY <3>1
  <2>3. PICK from \in Lowest(named, n), to \in Lowest(NewSlots, n) :
           Begin(DuplicatePlan(from, to, n))
    BY <1>4, Zenon DEF BeginDuplicate
  <2> HIDE DEF n
  <2>4. /\ from \in [1 .. n -> Slots] /\ to \in [1 .. n -> NewSlots]
        /\ \A i, j \in 1 .. n : i < j => from[i] < from[j]
        /\ \A i, j \in 1 .. n : i < j => to[i] < to[j]
    BY <2>3 DEF Lowest
  <2>5. Plans("mutation", DuplicatePlan(from, to, n))
    BY <2>2, <2>4, DuplicatePlanned
  <2> QED
    BY <2>3, <2>5
<1>5. CASE BeginEdit
  BY <1>5, EditPlanned, Zenon DEF BeginEdit
<1>6. CASE BeginReload
  BY <1>0, <1>6, ReloadPlanned, Zenon DEF BeginReload
<1> QED
  BY <1>1, <1>2, <1>3, <1>4, <1>5, <1>6, Zenon DEF BeginsCall

(* A call that is the same but for what the device has done about it.      *)
SameCall(c) ==
    /\ c \in CallType
    /\ c.kind = call.kind /\ c.stages = call.stages /\ c.records = call.records
    /\ c.at = call.at /\ c.told = call.told /\ c.stale = call.stale
    /\ c.quiet => call.quiet

(* What a message may say of the device's state.                           *)
Parts == {"pos", "name", "content"}

(* The device does something and tells of it by these messages, none of    *)
(* them about anything but its new state and the position first.           *)
Acts(d, messages) ==
    /\ dev' = d /\ d \in DeviceType
    /\ messages \in Seq(Message)
    /\ \A k \in DOMAIN messages :
          /\ \A part \in Parts : messages[k][part] \in {Empty, d[part]}
          /\ IsPosition(messages[k]) => k = 1
    /\ lane' = lane \/ lane' = lane \o messages
    /\ snap' = snap /\ up' = up /\ lib' = lib /\ calls' = calls
    /\ events' \in 0 .. MaxEvents
    /\ SameCall(call') /\ call'.moved = call.moved

LEMMA EventCounts ==
    ASSUME GatewayTypeOK, Event
    PROVE  events' \in 0 .. MaxEvents
  BY PlacesAssumption DEF GatewayTypeOK, Event

LEMMA SendsFacts ==
    ASSUME call \in CallType, NEW messages, Sends(messages)
    PROVE  /\ SameCall(call') /\ call'.moved = call.moved /\ call'.quiet = call.quiet
           /\ lane' = lane \/ lane' = lane \o messages
<1> DEFINE ran == call.ran \/ Ran
           c == [call EXCEPT !.ran = ran]
<1>1. ran \in BOOLEAN
  OBVIOUS
<1>2. call' = c \/ call' = [c EXCEPT !.answered = TRUE]
  BY Zenon DEF Sends
<1>3. lane' = lane \/ lane' = lane \o messages
  BY Zenon DEF Sends
<1> HIDE DEF ran
<1>4. c \in CallType
  BY <1>1, SetCallField, Zenon
<1>5. /\ c.kind = call.kind /\ c.stages = call.stages /\ c.records = call.records
      /\ c.at = call.at /\ c.told = call.told /\ c.stale = call.stale
      /\ c.quiet = call.quiet /\ c.moved = call.moved
  BY DEF CallType
<1> HIDE DEF c
<1>6. [c EXCEPT !.answered = TRUE] \in CallType
  BY <1>4, SetCallField, Zenon
<1>7. call' \in CallType
  BY <1>2, <1>4, <1>6
<1>8. /\ call'.kind = c.kind /\ call'.stages = c.stages /\ call'.records = c.records
      /\ call'.at = c.at /\ call'.told = c.told /\ call'.stale = c.stale
      /\ call'.quiet = c.quiet /\ call'.moved = c.moved
  BY <1>2, <1>4 DEF CallType
<1> QED
  BY <1>3, <1>5, <1>7, <1>8 DEF SameCall

(* An answer of one or two messages, or what is left of it.                *)
LEMMA AnswersFacts ==
    ASSUME GatewayTypeOK, NEW d \in DeviceType, NEW messages \in Seq(Message),
           messages # <<>>, Answers(d, messages),
           \A k \in DOMAIN messages :
              /\ \A part \in Parts : messages[k][part] \in {Empty, d[part]}
              /\ IsPosition(messages[k]) => k = 1
    PROVE  \E ms \in {messages, Tail(messages)} : Acts(d, ms) /\ call'.quiet = call.quiet
<1>0. /\ dev' = d /\ snap' = snap /\ up' = up /\ lib' = lib /\ calls' = calls
      /\ call \in CallType
  BY DEF Answers, GatewayTypeOK
<1>1. CASE Sends(messages) /\ UNCHANGED events
  <2>1. events' \in 0 .. MaxEvents
    BY <1>1 DEF GatewayTypeOK
  <2>2. Acts(d, messages) /\ call'.quiet = call.quiet
    BY <1>0, <1>1, <2>1, SendsFacts, Zenon DEF Acts
  <2> QED
    BY <2>2
<1>2. CASE Sends(Tail(messages)) /\ Event
  <2>1. events' \in 0 .. MaxEvents
    BY <1>2, EventCounts
  <2>2. /\ Tail(messages) \in Seq(Message)
        /\ \A k \in DOMAIN Tail(messages) :
              /\ k + 1 \in DOMAIN messages /\ k + 1 # 1
              /\ Tail(messages)[k] = messages[k + 1]
    OBVIOUS
  <2>3. \A k \in DOMAIN Tail(messages) :
              /\ \A part \in Parts : Tail(messages)[k][part] \in {Empty, d[part]}
              /\ IsPosition(Tail(messages)[k]) => k = 1
    BY <2>2, Zenon
  <2>4. Acts(d, Tail(messages)) /\ call'.quiet = call.quiet
    BY <1>0, <1>2, <2>1, <2>2, <2>3, SendsFacts, Zenon DEF Acts
  <2> QED
    BY <2>4
<1> QED
  BY <1>1, <1>2, Zenon DEF Answers

(* The messages of what the device does are about what it then is.         *)
PlacedMessages(d) == <<PositionMessage(d.pos, 0), PresetMessage(d.name, d.content, 0)>>
EditedMessages(d) == <<EditMessage(d.content), DirtyMessage(TRUE)>>

LEMMA MessagesAreAbout ==
    ASSUME NEW d \in DeviceType
    PROVE  /\ PlacedMessages(d) \in Seq(Message) /\ PlacedMessages(d) # <<>>
           /\ \A k \in DOMAIN PlacedMessages(d) :
                 /\ \A part \in Parts : PlacedMessages(d)[k][part] \in {Empty, d[part]}
                 /\ IsPosition(PlacedMessages(d)[k]) => k = 1
           /\ EditedMessages(d) \in Seq(Message) /\ EditedMessages(d) # <<>>
           /\ \A k \in DOMAIN EditedMessages(d) :
                 /\ \A part \in Parts : EditedMessages(d)[k][part] \in {Empty, d[part]}
                 /\ IsPosition(EditedMessages(d)[k]) => k = 1
<1>0. d.pos \in Places \cup {Empty} /\ d.name \in Names /\ d.content \in Contents
  BY DEF DeviceType
<1> DEFINE a == PositionMessage(d.pos, 0)
           b == PresetMessage(d.name, d.content, 0)
           e == EditMessage(d.content)
           f == DirtyMessage(TRUE)
<1>1. a \in Message /\ b \in Message /\ e \in Message /\ f \in Message
  BY <1>0, ValuesTyped, MessagesTyped
<1>2. ASSUME NEW m \in {a, b, e, f}, NEW part \in Parts
      PROVE  m[part] \in {Empty, d[part]}
  BY <1>2 DEF Parts, PositionMessage, PresetMessage, EditMessage, DirtyMessage
<1>3. ~IsPosition(b) /\ ~IsPosition(e) /\ ~IsPosition(f)
  BY DEF IsPosition, PresetMessage, EditMessage, DirtyMessage
<1>4. PlacedMessages(d) = <<a, b>> /\ EditedMessages(d) = <<e, f>>
  BY DEF PlacedMessages, EditedMessages
<1> HIDE DEF a, b, e, f
<1>5. /\ <<a, b>> \in Seq(Message) /\ <<a, b>> # <<>>
      /\ \A k \in DOMAIN <<a, b>> : \/ k = 1 /\ <<a, b>>[k] = a
                                    \/ k = 2 /\ <<a, b>>[k] = b
  BY <1>1
<1>6. /\ <<e, f>> \in Seq(Message) /\ <<e, f>> # <<>>
      /\ \A k \in DOMAIN <<e, f>> : \/ k = 1 /\ <<e, f>>[k] = e
                                    \/ k = 2 /\ <<e, f>>[k] = f
  BY <1>1
<1>7. \A k \in DOMAIN <<a, b>> :
         /\ \A part \in Parts : <<a, b>>[k][part] \in {Empty, d[part]}
         /\ IsPosition(<<a, b>>[k]) => k = 1
  BY <1>2, <1>3, <1>5, Zenon
<1>8. \A k \in DOMAIN <<e, f>> :
         /\ \A part \in Parts : <<e, f>>[k][part] \in {Empty, d[part]}
         /\ IsPosition(<<e, f>>[k]) => k = 1
  BY <1>2, <1>3, <1>6, Zenon
<1> QED
  BY <1>4, <1>5, <1>6, <1>7, <1>8, Zenon

LEMMA HeadTyped ==
    ASSUME out \in Seq(CommandType), out # <<>>
    PROVE  Head(out) \in CommandType /\ Tail(out) \in Seq(CommandType)
  OBVIOUS

LEMMA RecalledTyped ==
    ASSUME GatewayTypeOK, NEW place \in Places
    PROVE  /\ Recalled(place) \in DeviceType
           /\ Recalled(place).pos = place /\ Recalled(place).name = stored[place].name
           /\ Recalled(place).content = stored[place].content
<1>1. stored[place] \in [name : Names, content : Contents]
  BY DEF GatewayTypeOK
<1> QED
  BY <1>1 DEF Recalled, DeviceType

(* The user acts: the call is not quiet any more.                          *)
LEMMA TouchesAct ==
    ASSUME GatewayTypeOK, TouchEdit \/ \E p \in Slots : TouchRecall(p)
    PROVE  /\ \E d, ms : Acts(d, ms)
           /\ ~call'.quiet /\ stored' = stored /\ out' = out
<1>1. ASSUME NEW d \in DeviceType, NEW ms \in Seq(Message), Touched(d, ms),
             \A k \in DOMAIN ms :
                /\ \A part \in Parts : ms[k][part] \in {Empty, d[part]}
                /\ IsPosition(ms[k]) => k = 1
      PROVE  Acts(d, ms) /\ ~call'.quiet /\ stored' = stored /\ out' = out
  <2>1. events' \in 0 .. MaxEvents
    BY <1>1, EventCounts DEF Touched
  <2>2. call \in CallType
    BY DEF GatewayTypeOK
  <2>3. call' = [call EXCEPT !.quiet = FALSE]
    BY <1>1 DEF Touched
  <2>4. call' \in CallType
    BY <2>2, <2>3, SetCallField, Zenon
  <2>5. /\ SameCall(call') /\ call'.moved = call.moved /\ ~call'.quiet
    BY <2>2, <2>3, <2>4 DEF SameCall, CallType
  <2>6. /\ dev' = d /\ snap' = snap /\ up' = up /\ lib' = lib /\ calls' = calls
        /\ stored' = stored /\ out' = out /\ (lane' = lane \/ lane' = lane \o ms)
    BY <1>1 DEF Touched
  <2> QED
    BY <1>1, <2>1, <2>5, <2>6, Zenon DEF Acts
<1>2. CASE TouchEdit
  <2> DEFINE d == [dev EXCEPT !.content = Edit, !.edited = TRUE]
  <2>1. d \in DeviceType /\ d.content = Edit
    BY ValuesTyped DEF GatewayTypeOK, DeviceType
  <2>2. Touched(d, EditedMessages(d))
    BY <1>2, <2>1 DEF TouchEdit, EditedMessages
  <2> HIDE DEF d
  <2> QED
    BY <1>1, <2>1, <2>2, MessagesAreAbout
<1>3. ASSUME NEW p \in Slots, TouchRecall(p)
      PROVE  \E d \in DeviceType : Touched(d, PlacedMessages(d))
  <2> DEFINE d == Recalled(p)
  <2>1. d \in DeviceType /\ d.pos = p
    BY ValuesTyped, RecalledTyped
  <2>2. Touched(d, PlacedMessages(d))
    BY <1>3, <2>1 DEF TouchRecall, PlacedMessages
  <2> QED
    BY <2>1, <2>2
<1>4. CASE \E p \in Slots : TouchRecall(p)
  BY <1>1, <1>3, <1>4, MessagesAreAbout
<1> QED
  BY <1>2, <1>4

(* The device executes a recall, or a save.                                *)
LEMMA RecallActs ==
    ASSUME GatewayTypeOK, ExecuteRecall
    PROVE  /\ \E ms : Acts(Recalled(Head(out).pos), ms)
           /\ call'.quiet = call.quiet /\ stored' = stored
           /\ out # <<>> /\ out' = Tail(out) /\ Head(out).op = "recall"
           /\ Head(out).pos \in Places
<1>1. /\ out # <<>> /\ out' = Tail(out) /\ Head(out).op = "recall" /\ stored' = stored
      /\ Answers(Recalled(Head(out).pos), PlacedMessages(Recalled(Head(out).pos)))
  BY Zenon DEF ExecuteRecall, Executing, PlacedMessages
<1>2. Head(out).pos \in Places
  BY <1>1, HeadTyped DEF GatewayTypeOK, CommandType
<1>3. Recalled(Head(out).pos) \in DeviceType
  BY <1>2, RecalledTyped
<1>4. PICK ms : Acts(Recalled(Head(out).pos), ms) /\ call'.quiet = call.quiet
  BY <1>1, <1>3, AnswersFacts, MessagesAreAbout
<1> QED
  BY <1>1, <1>2, <1>4

SavedDevice(c) == [pos |-> c.pos, name |-> c.name, content |-> dev.content, edited |-> FALSE]

LEMMA SaveActs ==
    ASSUME GatewayTypeOK, ExecuteSave
    PROVE  /\ \E ms : Acts(SavedDevice(Head(out)), ms)
           /\ call'.quiet = call.quiet
           /\ stored' = [stored EXCEPT ![Head(out).pos] = [name |-> Head(out).name,
                                                           content |-> dev.content]]
           /\ out # <<>> /\ out' = Tail(out) /\ Head(out).op = "save"
           /\ Head(out).pos \in Places /\ Head(out).name \in Names
<1> DEFINE c == Head(out)
           d == SavedDevice(c)
<1>1. /\ out # <<>> /\ out' = Tail(out) /\ Head(out).op = "save"
      /\ stored' = [stored EXCEPT ![c.pos] = [name |-> c.name, content |-> dev.content]]
      /\ Answers([pos |-> c.pos, name |-> c.name, content |-> dev.content, edited |-> FALSE],
                   <<PositionMessage(c.pos, 0), PresetMessage(c.name, dev.content, 0)>>)
  BY Zenon DEF ExecuteSave, Executing
<1>2. c.pos \in Places /\ c.name \in Names
  BY <1>1, HeadTyped DEF GatewayTypeOK, CommandType
<1> HIDE DEF c
<1>3. d \in DeviceType /\ d.pos = c.pos /\ d.name = c.name /\ d.content = dev.content
  BY <1>2 DEF SavedDevice, GatewayTypeOK, DeviceType
<1>4. Answers(d, PlacedMessages(d))
  BY <1>1, <1>3, Zenon DEF SavedDevice, PlacedMessages
<1> HIDE DEF d
<1>5. PICK ms : Acts(d, ms) /\ call'.quiet = call.quiet
  BY <1>3, <1>4, AnswersFacts, MessagesAreAbout
<1> QED
  BY <1>1, <1>2, <1>5 DEF d, c

(* The device executes an edit or answers a read.                          *)
LEMMA OthersAct ==
    ASSUME GatewayTypeOK, ExecuteEdit \/ ExecuteReadPreset \/ ExecuteReadPosition
    PROVE  /\ \E d, ms : Acts(d, ms)
           /\ call'.quiet = call.quiet /\ stored' = stored
           /\ out # <<>> /\ out' = Tail(out)
           /\ Head(out).op \in {"edit", "readPreset", "readPosition"}
           /\ dev' = IF Head(out).op = "edit"
                     THEN [dev EXCEPT !.content = Head(out).content, !.edited = TRUE] ELSE dev
           /\ Head(out).op = "readPosition" =>
                 \E d, ms : Acts(d, ms) /\ \A k \in DOMAIN ms : IsPosition(ms[k])
<1>0. dev \in DeviceType
  BY DEF GatewayTypeOK
<1>1. CASE ExecuteEdit
  <2> DEFINE d == [dev EXCEPT !.content = Head(out).content, !.edited = TRUE]
  <2>1. /\ out # <<>> /\ out' = Tail(out) /\ Head(out).op = "edit" /\ stored' = stored
        /\ Answers(d, <<EditMessage(Head(out).content), DirtyMessage(TRUE)>>)
    BY <1>1, Zenon DEF ExecuteEdit, Executing
  <2>2. Head(out).content \in Contents
    BY <2>1, HeadTyped DEF GatewayTypeOK, CommandType
  <2>3. d \in DeviceType /\ d.content = Head(out).content
    BY <1>0, <2>2 DEF DeviceType
  <2> HIDE DEF d
  <2>4. Answers(d, EditedMessages(d))
    BY <2>1, <2>3, Zenon DEF EditedMessages
  <2>5. PICK ms : Acts(d, ms) /\ call'.quiet = call.quiet
    BY <2>3, <2>4, AnswersFacts, MessagesAreAbout
  <2>6. dev' = d
    BY <2>5 DEF Acts
  <2> QED
    BY <2>1, <2>5, <2>6 DEF d
<1>2. ASSUME NEW m \in Message, Answers(dev, <<m>>),
             \A part \in Parts : m[part] \in {Empty, dev[part]}
      PROVE  \E ms \in {<<m>>, <<>>} : /\ Acts(dev, ms) /\ call'.quiet = call.quiet
                                      /\ dev' = dev
  <2>1. /\ <<m>> \in Seq(Message) /\ <<m>> # <<>>
        /\ \A k \in DOMAIN <<m>> : k = 1 /\ <<m>>[k] = m
    BY <1>2
  <2>2. \A k \in DOMAIN <<m>> :
          /\ \A part \in Parts : <<m>>[k][part] \in {Empty, dev[part]}
          /\ IsPosition(<<m>>[k]) => k = 1
    BY <1>2, <2>1, Zenon
  <2>3. PICK ms \in {<<m>>, Tail(<<m>>)} : Acts(dev, ms) /\ call'.quiet = call.quiet
    BY <1>0, <1>2, <2>1, <2>2, AnswersFacts
  <2>4. Tail(<<m>>) = <<>> /\ dev' = dev
    BY <2>3 DEF Acts
  <2> QED
    BY <2>3, <2>4
<1>3. CASE ExecuteReadPreset
  <2> DEFINE m == PresetMessage(dev.name, dev.content, Head(out).id)
  <2>1. /\ out # <<>> /\ out' = Tail(out) /\ Head(out).op = "readPreset" /\ stored' = stored
        /\ Answers(dev, <<m>>)
    BY <1>3, Zenon DEF ExecuteReadPreset, Executing
  <2>2. Head(out).id \in 0 .. MaxCalls
    BY <2>1, HeadTyped DEF GatewayTypeOK, CommandType
  <2>3. m \in Message
    BY <1>0, <2>2, MessagesTyped DEF DeviceType
  <2>4. \A part \in Parts : m[part] \in {Empty, dev[part]}
    BY DEF Parts, PresetMessage
  <2> HIDE DEF m
  <2> QED
    BY <1>2, <2>1, <2>3, <2>4
<1>4. CASE ExecuteReadPosition
  <2> DEFINE m == PositionMessage(dev.pos, Head(out).id)
  <2>1. /\ out # <<>> /\ out' = Tail(out) /\ Head(out).op = "readPosition" /\ stored' = stored
        /\ Answers(dev, <<m>>)
    BY <1>4, Zenon DEF ExecuteReadPosition, Executing
  <2>2. Head(out).id \in 0 .. MaxCalls
    BY <2>1, HeadTyped DEF GatewayTypeOK, CommandType
  <2>3. m \in Message
    BY <1>0, <2>2, MessagesTyped DEF DeviceType
  <2>4. IsPosition(m) /\ \A part \in Parts : m[part] \in {Empty, dev[part]}
    BY DEF Parts, PositionMessage, IsPosition
  <2> HIDE DEF m
  <2>5. PICK ms \in {<<m>>, <<>>} : Acts(dev, ms) /\ call'.quiet = call.quiet /\ dev' = dev
    BY <1>2, <2>1, <2>3, <2>4
  <2>6. \A k \in DOMAIN ms : IsPosition(ms[k])
    BY <2>4
  <2> QED
    BY <2>1, <2>5, <2>6
<1> QED
  BY <1>1, <1>3, <1>4

LEMMA ActsTyped ==
    ASSUME GatewayTypeOK, NEW d, NEW ms, Acts(d, ms),
           stored' \in [Places -> [name : Names, content : Contents]],
           out' \in Seq(CommandType)
    PROVE  GatewayTypeOK'
<1>1. lane' \in Seq(LaneType)
  <2>1. ms \in Seq(LaneType) /\ lane \in Seq(LaneType)
    BY DEF Acts, GatewayTypeOK, LaneType
  <2>2. lane \o ms \in Seq(LaneType)
    BY <2>1, ConcatProperties
  <2> QED
    BY <2>1, <2>2, Zenon DEF Acts
<1> QED
  BY <1>1, Zenon DEF Acts, SameCall, GatewayTypeOK

-----------------------------------------------------------------------------
(***************************************************************************)
(* Every step keeps the types                                              *)
(***************************************************************************)
LEMMA InitTyped == GatewayInit => GatewayTypeOK
<1> SUFFICES ASSUME GatewayInit
             PROVE  GatewayTypeOK
  OBVIOUS
<1>1. PICK s \in Slots :
        /\ dev = [pos |-> s, name |-> s, content |-> s, edited |-> FALSE]
        /\ stored = [p \in Places |-> IF p \in Slots THEN [name |-> p, content |-> p]
                                      ELSE [name |-> Empty, content |-> Empty]]
        /\ out = <<>> /\ lane = <<>>
        /\ snap = [has |-> TRUE, pos |-> s, name |-> s, content |-> s, dirty |-> FALSE]
        /\ up = TRUE
        /\ lib = [p \in Places |-> stored[p].name]
        /\ call = NoCall
        /\ calls = 0 /\ events = 0
  BY Zenon DEF GatewayInit
<1>2. dev \in DeviceType /\ snap \in SnapshotType
  BY <1>1, ValuesTyped DEF DeviceType, SnapshotType
<1>3. stored \in [Places -> [name : Names, content : Contents]]
  BY <1>1, ValuesTyped
<1>4. lib \in [Places -> Names]
  BY <1>1, <1>3
<1>5. out \in Seq(CommandType) /\ lane \in Seq(LaneType)
  BY <1>1
<1>6. call \in CallType
  BY <1>1, NoCallTyped
<1>7. calls \in 0 .. MaxCalls /\ events \in 0 .. MaxEvents /\ up \in BOOLEAN
  BY <1>1, PlacesAssumption
<1> QED
  BY <1>2, <1>3, <1>4, <1>5, <1>6, <1>7 DEF GatewayTypeOK

(* A step that only takes the call further.                                *)
Goes(at) ==
    /\ call' \in CallType
    /\ call'.kind = call.kind /\ call'.stages = call.stages /\ call'.records = call.records
    /\ call'.stale = call.stale /\ call'.quiet = call.quiet /\ call'.moved = call.moved
    /\ call'.at = at

CallStates == {"idle", "planned", "armed", "push", "read", "asking", "confirm",
               "resetting", "replay", "recovered", "done", "failed"}

LEMMA AdvanceGoes ==
    ASSUME call \in CallType, NEW at \in CallStates
    PROVE  /\ Advance(at) => Goes(at) /\ call'.told = call.told
           /\ call' = [call EXCEPT !.at = at, !.told = TRUE] => Goes(at)
           /\ call' = [call EXCEPT !.at = at, !.answered = FALSE]
                 => Goes(at) /\ call'.told = call.told
  BY DEF Advance, Goes, CallType, CallStates

LEMMA LeavesType ==
    ASSUME GatewayTypeOK, UNCHANGED <<dev, stored, snap, up, lib, calls, events>>,
           out' \in Seq(CommandType), lane' \in Seq(LaneType), call' \in CallType
    PROVE  GatewayTypeOK'
  BY DEF GatewayTypeOK

LEMMA OutTyped ==
    ASSUME out \in Seq(CommandType), NEW c \in CommandType
    PROVE  Append(out, c) \in Seq(CommandType)
  OBVIOUS

LEMMA CurrentStageTyped ==
    ASSUME call \in CallType, call.stages # <<>>
    PROVE  /\ Head(call.stages) \in StageType
           /\ Head(call.stages) = call.stages[1] /\ 1 \in DOMAIN call.stages
           /\ Head(call.stages).command \in CommandType
           /\ Wanted \in VerificationType
           /\ Tail(call.stages) \in Seq(StageType)
           /\ Len(call.stages) > 1 => Tail(call.stages) # <<>>
<1>1. call.stages \in Seq(StageType)
  BY DEF CallType
<1>2. Head(call.stages) \in StageType
  BY <1>1
<1>3. /\ Tail(call.stages) \in Seq(StageType)
      /\ Len(call.stages) > 1 => Tail(call.stages) # <<>>
  <2> DEFINE n == Len(call.stages)
             t == Tail(call.stages)
  <2>1. t \in Seq(StageType) /\ Len(t) = n - 1
    BY <1>1, HeadTailProperties, Zenon
  <2>2. n \in Nat
    BY <1>1, LenProperties
  <2> HIDE DEF n, t
  <2>3. t = <<>> => Len(t) = 0
    OBVIOUS
  <2>4. n > 1 => t # <<>>
    BY <2>1, <2>2, <2>3
  <2> QED
    BY <2>1, <2>4 DEF n, t
<1>4. /\ Head(call.stages) = call.stages[1] /\ 1 \in DOMAIN call.stages
  <2>1. Len(call.stages) \in Nat /\ Len(call.stages) > 0
    BY <1>1, EmptySeq, LenProperties
  <2> QED
    BY <1>1, <2>1, LenProperties
<1> QED
  BY <1>2, <1>3, <1>4 DEF StageType, Wanted

LEMMA NextStageTyped ==
    ASSUME call \in CallType, call.stages # <<>>
    PROVE  /\ NextStage \in CallType
           /\ NextStage.kind = call.kind /\ NextStage.stages = Tail(call.stages)
           /\ NextStage.records = call.records /\ NextStage.stale = call.stale
           /\ NextStage.quiet = call.quiet /\ NextStage.told = call.told
           /\ NextStage.at = "planned"
<1>1. Tail(call.stages) \in Seq(StageType)
  BY CurrentStageTyped
<1> QED
  BY <1>1 DEF NextStage, CallType

LEMMA RecordedTyped ==
    ASSUME GatewayTypeOK
    PROVE  Recorded \in [Places -> Names]
<1>1. ASSUME NEW p \in Places
      PROVE  (IF Loaded(p) /\ \E r \in call.records : r.place = p
              THEN (CHOOSE r \in call.records : r.place = p).name ELSE lib[p]) \in Names
  <2>1. lib[p] \in Names
    BY DEF GatewayTypeOK
  <2>2. ASSUME \E r \in call.records : r.place = p
        PROVE  (CHOOSE r \in call.records : r.place = p).name \in Names
    <3>1. (CHOOSE r \in call.records : r.place = p) \in call.records
      BY <2>2
    <3>2. call.records \subseteq RecordType
      BY DEF GatewayTypeOK, CallType
    <3> QED
      BY <3>1, <3>2 DEF RecordType
  <2> QED
    BY <2>1, <2>2
<1> QED
  BY <1>1, Zenon DEF Recorded

LEMMA BeginTyped ==
    ASSUME GatewayTypeOK, NEW kind \in {"edit", "recall", "mutation"}, NEW plan,
           Plans(kind, plan), Begin(plan)
    PROVE  GatewayTypeOK'
<1>1. PICK stages \in Seq(StageType), records \in SUBSET RecordType :
         plan = Plan(kind, stages, records)
  BY Zenon DEF Plans
<1>2. plan \in CallType
  BY <1>1, PlanTyped
<1>3. calls' \in 0 .. MaxCalls
  BY PlacesAssumption DEF Begin, GatewayTypeOK
<1> QED
  BY <1>2, <1>3 DEF Begin, GatewayTypeOK, deviceVars

LEMMA DecodeTyped ==
    ASSUME GatewayTypeOK, Decode
    PROVE  /\ GatewayTypeOK' /\ SameCall(call') /\ call'.quiet = call.quiet
           /\ Head(lane).kind # "position" => call'.moved = call.moved
<1>1. Head(lane) \in LaneType /\ Tail(lane) \in Seq(LaneType)
  BY DEF Decode, GatewayTypeOK
<1>2. UNCHANGED <<dev, stored, out, up, lib, calls, events>> /\ lane' = Tail(lane)
  BY DEF Decode, deviceVars
<1>3. snap' \in SnapshotType
  <2>1. CASE Head(lane).kind = "reset"
    <3>1. snap' = NoSnapshot
      BY <2>1 DEF Decode
    <3> QED
      BY <3>1, ValuesTyped DEF NoSnapshot, SnapshotType
  <2>2. CASE Head(lane).kind # "reset"
    <3>1. Head(lane) \in Message
      BY <1>1, <2>2 DEF LaneType, ResetItem
    <3>2. snap' = Applied(snap, Head(lane))
      BY <2>2 DEF Decode
    <3> QED
      BY <3>1, <3>2, AppliedTyped DEF GatewayTypeOK
  <2> QED
    BY <2>1, <2>2
<1>4. call' = call \/ call' = [call EXCEPT !.moved = TRUE]
  BY DEF Decode
<1>5. call \in CallType
  BY DEF GatewayTypeOK
<1>6. call' \in CallType
  BY <1>4, <1>5, SetCallField, Zenon
<1>7. SameCall(call') /\ call'.quiet = call.quiet
  BY <1>4, <1>5, <1>6 DEF SameCall, CallType
<1>8. Head(lane).kind # "position" => call'.moved = call.moved
  BY DEF Decode
<1> QED
  BY <1>1, <1>2, <1>3, <1>6, <1>7, <1>8 DEF GatewayTypeOK

(* The first messages of the next session.                                 *)
LEMMA ReopenFacts ==
    ASSUME GatewayTypeOK, Reopen
    PROVE  \E ms \in Seq(Message) :
              /\ lane' = lane \o ms
              /\ \A k \in DOMAIN ms : \A part \in Parts : ms[k][part] \in {Empty, dev[part]}
              /\ ms # <<>> /\ IsPosition(ms[1])
<1>1. PICK dirty \in {<<>>, <<DirtyMessage(dev.edited)>>} :
         lane' = lane \o PlacedMessages(dev) \o dirty
  BY Zenon DEF Reopen, PlacedMessages
<1>2. dev \in DeviceType /\ dev.edited \in BOOLEAN
  BY DEF GatewayTypeOK, DeviceType
<1> DEFINE f == DirtyMessage(dev.edited)
<1>3. f \in Message /\ \A part \in Parts : f[part] \in {Empty, dev[part]}
  BY <1>2, MessagesTyped DEF DirtyMessage, Parts
<1> HIDE DEF f
<1>4. /\ dirty \in Seq(Message)
      /\ \A k \in DOMAIN dirty : \A part \in Parts : dirty[k][part] \in {Empty, dev[part]}
  <2>1. <<f>> \in Seq(Message) /\ \A k \in DOMAIN <<f>> : <<f>>[k] = f
    BY <1>3
  <2>2. CASE dirty = <<>>
    BY <2>2
  <2>3. CASE dirty = <<f>>
    BY <1>3, <2>1, <2>3, Zenon
  <2> QED
    BY <1>1, <2>2, <2>3 DEF f
<1> DEFINE placed == PlacedMessages(dev)
           ms == placed \o dirty
<1>5. /\ placed \in Seq(Message)
      /\ \A k \in DOMAIN placed : \A part \in Parts : placed[k][part] \in {Empty, dev[part]}
  BY <1>2, MessagesAreAbout, Zenon
<1>9. placed # <<>> /\ IsPosition(placed[1])
  BY DEF placed, PlacedMessages, PositionMessage, IsPosition
<1> HIDE DEF placed
<1>6. /\ ms \in Seq(Message)
      /\ \A k \in DOMAIN ms : \/ k \in DOMAIN placed /\ ms[k] = placed[k]
                              \/ k - Len(placed) \in DOMAIN dirty /\ ms[k] = dirty[k - Len(placed)]
  BY <1>4, <1>5
<1>7. \A k \in DOMAIN ms : \A part \in Parts : ms[k][part] \in {Empty, dev[part]}
  BY <1>4, <1>5, <1>6, Zenon
<1>8. lane' = lane \o ms
  <2>1. lane \in Seq(LaneType) /\ placed \in Seq(LaneType) /\ dirty \in Seq(LaneType)
    BY <1>4, <1>5 DEF GatewayTypeOK, LaneType
  <2>2. lane' = lane \o placed \o dirty
    BY <1>1 DEF placed
  <2>3. (lane \o placed) \o dirty = lane \o (placed \o dirty)
    BY <2>1, ConcatAssociative
  <2> QED
    BY <2>2, <2>3
<1>10. ms # <<>> /\ IsPosition(ms[1])
  BY <1>4, <1>5, <1>9
<1> QED
  BY <1>6, <1>7, <1>8, <1>10

LEMMA TypeStep == GatewayTypeOK /\ StagesLeft /\ [GatewayNext]_gatewayVars => GatewayTypeOK'
<1> SUFFICES ASSUME GatewayTypeOK, StagesLeft, [GatewayNext]_gatewayVars
             PROVE  GatewayTypeOK'
  OBVIOUS
<1>0. /\ call \in CallType /\ out \in Seq(CommandType) /\ lane \in Seq(LaneType)
      /\ stored \in [Places -> [name : Names, content : Contents]]
      /\ dev \in DeviceType
  BY DEF GatewayTypeOK
<1>1. CASE BeginsCall
  BY <1>1, BeginsPlan, BeginTyped, Zenon
<1>2. CASE TouchEdit \/ \E p \in Slots : TouchRecall(p)
  <2>1. /\ \E d, ms : Acts(d, ms)
        /\ stored' = stored /\ out' = out
    BY <1>2, TouchesAct
  <2> QED
    BY <1>0, <2>1, ActsTyped
<1>3. CASE ExecuteRecall
  <2>1. /\ \E ms : Acts(Recalled(Head(out).pos), ms)
        /\ stored' = stored /\ out # <<>> /\ out' = Tail(out)
    BY <1>3, RecallActs
  <2>2. out' \in Seq(CommandType)
    BY <1>0, <2>1, HeadTyped
  <2> QED
    BY <1>0, <2>1, <2>2, ActsTyped
<1>4. CASE ExecuteSave
  <2>1. /\ \E ms : Acts(SavedDevice(Head(out)), ms)
        /\ stored' = [stored EXCEPT ![Head(out).pos] = [name |-> Head(out).name,
                                                        content |-> dev.content]]
        /\ out # <<>> /\ out' = Tail(out) /\ Head(out).name \in Names
    BY <1>4, SaveActs
  <2>2. out' \in Seq(CommandType)
    BY <1>0, <2>1, HeadTyped
  <2>3. stored' \in [Places -> [name : Names, content : Contents]]
    <3>1. [name |-> Head(out).name, content |-> dev.content] \in [name : Names, content : Contents]
      BY <1>0, <2>1 DEF DeviceType
    <3> QED
      BY <1>0, <2>1, <3>1
  <2> QED
    BY <2>1, <2>2, <2>3, ActsTyped
<1>5. CASE ExecuteEdit \/ ExecuteReadPreset \/ ExecuteReadPosition
  <2>1. /\ \E d, ms : Acts(d, ms)
        /\ stored' = stored /\ out # <<>> /\ out' = Tail(out)
    BY <1>5, OthersAct
  <2>2. out' \in Seq(CommandType)
    BY <1>0, <2>1, HeadTyped
  <2> QED
    BY <1>0, <2>1, <2>2, ActsTyped
<1>6. CASE ExecuteCreate
  <2>1. out # <<>> /\ out' = Tail(out)
    BY <1>6, Zenon DEF ExecuteCreate, Executing
  <2>2. out' \in Seq(CommandType)
    BY <1>0, <2>1, HeadTyped
  <2> QED
    BY <1>6, <2>2 DEF ExecuteCreate, deviceVars, GatewayTypeOK
<1>7. CASE LoseCommand
  <2>1. out' \in Seq(CommandType)
    BY <1>0, <1>7, HeadTyped DEF LoseCommand
  <2>2. events' \in 0 .. MaxEvents
    BY <1>7, EventCounts DEF LoseCommand
  <2> QED
    BY <1>7, <2>1, <2>2 DEF LoseCommand, deviceVars, GatewayTypeOK
<1>8. CASE Decode
  BY <1>8, DecodeTyped
<1>9. CASE Reopen
  <2>1. PICK ms \in Seq(Message) : lane' = lane \o ms
    BY <1>9, ReopenFacts
  <2>2. ms \in Seq(LaneType)
    BY DEF LaneType
  <2>3. lane' \in Seq(LaneType)
    BY <1>0, <2>1, <2>2, ConcatProperties
  <2> QED
    BY <1>9, <2>3 DEF Reopen, deviceVars, GatewayTypeOK
<1>10. CASE List
  BY <1>0, <1>10 DEF List, deviceVars, GatewayTypeOK
<1>11. CASE Arm
  <2>1. call' \in CallType
    BY <1>0, <1>11, AdvanceGoes DEF Arm, Goes, CallStates
  <2> QED
    BY <1>0, <1>11, <2>1, LeavesType DEF Arm, deviceVars
<1>12. CASE Send \/ Replay
  <2>1. call.stages # <<>>
    BY <1>12 DEF Send, Replay, At, StagesLeft, Working
  <2>2. out' \in Seq(CommandType)
    BY <1>0, <1>12, <2>1, CurrentStageTyped, OutTyped DEF Send, Replay
  <2>3. call' \in CallType
    <3>1. \E at \in CallStates : Advance(at)
      BY <1>12, Zenon DEF Send, Replay, CallStates
    <3> QED
      BY <1>0, <3>1, AdvanceGoes DEF Goes
  <2> QED
    BY <1>0, <1>12, <2>2, <2>3, LeavesType DEF Send, Replay, deviceVars
<1>13. CASE Ask
  <2> DEFINE op == IF call.kind = "edit" THEN "readPreset" ELSE "readPosition"
             c == Command(op, Empty, Empty, Empty, calls)
  <2>1. c \in CommandType
    <3>1. op \in {"readPreset", "readPosition"}
      OBVIOUS
    <3> HIDE DEF op
    <3>2. calls \in 0 .. MaxCalls
      BY DEF GatewayTypeOK
    <3> QED
      BY <3>1, <3>2, ValuesTyped, CommandTyped
  <2>2. out' = Append(out, c)
    BY <1>13 DEF Ask
  <2> HIDE DEF c
  <2>3. out' \in Seq(CommandType)
    BY <1>0, <2>1, <2>2, OutTyped
  <2>4. call' \in CallType
    BY <1>0, <1>13, AdvanceGoes DEF Ask, Goes, CallStates
  <2> QED
    BY <1>0, <1>13, <2>3, <2>4, LeavesType DEF Ask, deviceVars
<1>14. CASE Answered \/ Fail \/ Ready \/ NotReady \/ NotRecovered
  <2>1. \E at \in CallStates : Advance(at)
    BY <1>14, Zenon DEF Answered, Fail, Ready, NotReady, NotRecovered, CallStates
  <2>2. call' \in CallType
    BY <1>0, <2>1, AdvanceGoes DEF Goes
  <2> QED
    BY <1>0, <1>14, <2>2, LeavesType
       DEF Answered, Fail, Ready, NotReady, NotRecovered, deviceVars
<1>15. CASE Finish
  <2>1. call' \in CallType
    BY <1>0, <1>15, AdvanceGoes DEF Finish, Goes, CallStates
  <2>2. lib' \in [Places -> Names]
    BY <1>15, RecordedTyped DEF Finish
  <2> QED
    BY <1>15, <2>1, <2>2 DEF Finish, deviceVars, GatewayTypeOK
<1>16. CASE Continue
  <2>1. call.stages # <<>>
    BY <1>16 DEF Continue, Confirmed, Seen, At, StagesLeft, Working
  <2>2. call' \in CallType
    BY <1>0, <1>16, <2>1, NextStageTyped DEF Continue
  <2> QED
    BY <1>0, <1>16, <2>2, LeavesType DEF Continue, deviceVars
<1>17. CASE Settle
  <2>1. call.stages # <<>>
    BY <1>17 DEF Settle, At, StagesLeft, Working
  <2>2. call' = NextStage \/ call' = [call EXCEPT !.at = "done", !.told = TRUE]
    BY <1>17, Zenon DEF Settle
  <2>3. call' \in CallType
    BY <1>0, <2>1, <2>2, NextStageTyped, AdvanceGoes DEF Goes, CallStates
  <2>4. lib' \in [Places -> Names]
    BY <1>17, RecordedTyped DEF Settle, GatewayTypeOK
  <2> QED
    BY <1>17, <2>3, <2>4 DEF Settle, deviceVars, GatewayTypeOK
<1>18. CASE ResetSession
  <2>1. call' \in CallType
    BY <1>0, <1>18, AdvanceGoes DEF ResetSession, Goes, CallStates
  <2>2. out' \in Seq(CommandType) /\ lane' \in Seq(LaneType)
    BY <1>0, <1>18 DEF ResetSession, LaneType
  <2>3. lib' \in [Places -> Names]
    BY <1>18, ValuesTyped DEF ResetSession
  <2> QED
    BY <1>18, <2>1, <2>2, <2>3 DEF ResetSession, deviceVars, GatewayTypeOK
<1>19. CASE Recovered
  <2>1. call' \in CallType
    BY <1>0, <1>19, AdvanceGoes DEF Recovered, Goes, CallStates
  <2> QED
    BY <1>0, <1>19, <2>1, LeavesType DEF Recovered, deviceVars
<1>20. CASE Return
  <2>1. call' \in CallType
    BY <1>20, NoCallTyped DEF Return
  <2> QED
    BY <1>0, <1>20, <2>1, LeavesType DEF Return, deviceVars
<1>21. CASE UNCHANGED gatewayVars
  BY <1>21 DEF gatewayVars, deviceVars, GatewayTypeOK
<1> QED
  BY <1>1, <1>2, <1>3, <1>4, <1>5, <1>6, <1>7, <1>8, <1>9, <1>10, <1>11, <1>12, <1>13,
     <1>14, <1>15, <1>16, <1>17, <1>18, <1>19, <1>20, <1>21, Zenon
     DEF GatewayNext, BeginsCall

-----------------------------------------------------------------------------
(***************************************************************************)
(* A call has stages left as long as it is at one                          *)
(***************************************************************************)
LEMMA CallStep == CallInv /\ [GatewayNext]_gatewayVars => CallInv'
<1> SUFFICES ASSUME GatewayTypeOK, StagesLeft, [GatewayNext]_gatewayVars
             PROVE  StagesLeft'
  BY TypeStep DEF CallInv
<1>0. call \in CallType
  BY DEF GatewayTypeOK
<1>1. CASE BeginsCall
  <2>1. PICK kind \in {"edit", "recall", "mutation"}, stages \in Seq(StageType),
             records \in SUBSET RecordType :
           stages # <<>> /\ call' = Plan(kind, stages, records)
    BY <1>1, BeginsPlan, Zenon DEF Plans, Begin
  <2>2. call'.at = "planned" /\ call'.stages # <<>> /\ call'.kind # "none"
    BY <2>1, PlanFields
  <2> QED
    BY <2>2 DEF StagesLeft
<1>2. ASSUME SameCall(call')
      PROVE  StagesLeft'
  BY <1>2 DEF SameCall, StagesLeft, Working
<1>3. CASE TouchEdit \/ \E p \in Slots : TouchRecall(p)
  BY <1>2, <1>3, TouchesAct DEF Acts
<1>4. CASE ExecuteRecall
  BY <1>2, <1>4, RecallActs DEF Acts
<1>5. CASE ExecuteSave
  BY <1>2, <1>5, SaveActs DEF Acts
<1>6. CASE ExecuteEdit \/ ExecuteReadPreset \/ ExecuteReadPosition
  BY <1>2, <1>6, OthersAct DEF Acts
<1>7. CASE Decode
  BY <1>2, <1>7, DecodeTyped
<1>8. CASE ExecuteCreate \/ LoseCommand \/ Reopen \/ List \/ UNCHANGED gatewayVars
  <2>1. call' = call
    BY <1>8 DEF ExecuteCreate, LoseCommand, Reopen, List, gatewayVars
  <2> QED
    BY <2>1 DEF StagesLeft, Working
<1>9. ASSUME NEW at \in CallStates \ {"idle"}, Goes(at), Working
      PROVE  StagesLeft'
  BY <1>9 DEF Goes, StagesLeft, Working, CallStates
<1>10. CASE Arm \/ Send \/ Replay \/ Answered \/ Fail \/ Ready \/ NotReady \/ NotRecovered
            \/ ResetSession
  <2>1. PICK at \in CallStates \ {"idle"} : Advance(at)
    BY <1>10 DEF Arm, Send, Replay, Answered, Fail, Ready, NotReady, NotRecovered,
                 ResetSession, CallStates
  <2>2. Goes(at)
    BY <1>0, <2>1, AdvanceGoes
  <2>3. Working
    BY <1>10 DEF Arm, Send, Replay, Answered, Fail, Ready, NotReady, NotRecovered,
                 ResetSession, At, Working
  <2> QED
    BY <1>9, <2>2, <2>3
<1>11. CASE Ask
  <2>1. Goes("asking") /\ Working
    BY <1>0, <1>11, AdvanceGoes DEF Ask, CallStates, At, Working
  <2> QED
    BY <1>9, <2>1 DEF CallStates
<1>12. CASE Finish \/ Recovered
  <2>1. Goes("done") /\ Working
    BY <1>0, <1>12, AdvanceGoes
       DEF Finish, Recovered, Confirmed, Seen, CallStates, At, Working
  <2> QED
    BY <1>9, <2>1 DEF CallStates
<1>13. CASE Continue \/ Settle
  <2>1. Working /\ call.stages # <<>> /\ call.kind # "none"
    BY <1>13 DEF Continue, Settle, Confirmed, Seen, At, StagesLeft, Working
  <2>2. CASE Len(call.stages) > 1
    <3>1. call' = NextStage
      BY <1>13, <2>2 DEF Continue, Settle
    <3>2. call'.at = "planned" /\ call'.stages # <<>> /\ call'.kind # "none"
      BY <1>0, <2>1, <2>2, <3>1, NextStageTyped, CurrentStageTyped
    <3> QED
      BY <3>2 DEF StagesLeft
  <2>3. CASE ~(Len(call.stages) > 1)
    <3>1. Goes("done")
      BY <1>0, <1>13, <2>3, AdvanceGoes DEF Continue, Settle, CallStates
    <3> QED
      BY <1>9, <2>1, <3>1 DEF CallStates
  <2> QED
    BY <2>2, <2>3
<1>14. CASE Return
  BY <1>14 DEF Return, NoCall, StagesLeft, Working
<1> QED
  BY <1>1, <1>3, <1>4, <1>5, <1>6, <1>7, <1>8, <1>10, <1>11, <1>12, <1>13, <1>14, Zenon
     DEF GatewayNext, BeginsCall

LEMMA CallInit == GatewayInit => CallInv
<1> SUFFICES ASSUME GatewayInit
             PROVE  CallInv
  OBVIOUS
<1>1. call = NoCall
  BY DEF GatewayInit
<1> QED
  BY <1>1, InitTyped
     DEF CallInv, NoCall, StagesLeft, Working

LEMMA CallInvariant == Spec => []CallInv
  BY CallInit, CallStep, PTL DEF Spec

(* The device, the messages, the snapshot, the library and the call keep   *)
(* their types.                                                            *)
THEOREM GatewayTyped == Spec => []GatewayTypeOK
<1>1. CallInv => GatewayTypeOK
  BY DEF CallInv
<1> QED
  BY CallInvariant, <1>1, PTL

-----------------------------------------------------------------------------
(***************************************************************************)
(* Mutations                                                               *)
(***************************************************************************)
(* The stage a running mutation is at.                                     *)
LEMMA CurrentStage ==
    ASSUME GatewayTypeOK, StagesLeft, Working
    PROVE  /\ call.stages \in Seq(StageType) /\ call.stages # <<>>
           /\ 1 \in DOMAIN call.stages
           /\ Wanted = call.stages[1].verification
           /\ Head(call.stages) = call.stages[1]
           /\ call.stages[1].command \in CommandType
           /\ call.stages[1].verification \in VerificationType
<1>1. call \in CallType /\ call.stages # <<>>
  BY DEF GatewayTypeOK, StagesLeft
<1>2. /\ 1 \in DOMAIN call.stages /\ Head(call.stages) = call.stages[1]
      /\ Head(call.stages).command \in CommandType /\ Wanted \in VerificationType
  BY <1>1, CurrentStageTyped
<1> QED
  BY <1>1, <1>2 DEF Wanted, CallType

LEMMA FirstStageFits ==
    ASSUME NEW stages, StagesFit(stages), 1 \in DOMAIN stages
    PROVE  /\ ~Waits(stages[1]) => stages[1] = CreateStage
           /\ Waits(stages[1]) =>
                 /\ stages[1].command.op \in {"recall", "save"}
                 /\ stages[1].verification.pos = stages[1].command.pos
                 /\ ~Creates(stages[1].command)
<1>1. CASE stages[1] = CreateStage
  BY <1>1, CreateStageFacts DEF Waits
<1>2. CASE /\ Recalls(stages[1]) \/ Saves(stages[1])
           /\ stages[1].verification.pos = stages[1].command.pos
           /\ Waits(stages[1])
  BY <1>2 DEF Recalls, Saves, Creates
<1> QED
  BY <1>1, <1>2 DEF StagesFit

(* While a mutation runs the first command on its way is a new setlist's,  *)
(* or the stage's own, alone, and nothing can be taken for its echo.       *)
LEMMA HeadOfRunning ==
    ASSUME GatewayTypeOK, StagesLeft, Working, Running, out # <<>>, ~Creates(Head(out))
    PROVE  /\ Waits(call.stages[1]) /\ call.at = "push"
           /\ Head(out) = call.stages[1].command /\ Len(out) = 1
           /\ Hidden(call.stages[1].verification)
<1>1. out \in Seq(CommandType)
  BY DEF GatewayTypeOK
<1>2. 1 \in DOMAIN out /\ Head(out) = out[1] /\ Len(out) \in Nat
  BY <1>1
<1>3. ~ \A k \in DOMAIN out : Creates(out[k])
  BY <1>2
<1>4. Waits(call.stages[1])
  BY <1>3 DEF Running, StageRuns, NothingMoves
<1>5. NotExecuted(call.stages[1].command, call.stages[1].verification)
  BY <1>3, <1>4 DEF Running, StageRuns, Executed
<1>6. call.at = "push" /\ 1 = Len(out) /\ out[1] = call.stages[1].command
  BY <1>2, <1>5 DEF NotExecuted
<1> QED
  BY <1>2, <1>4, <1>5, <1>6 DEF NotExecuted

(* What the device told when it executed a stage is its own position, at   *)
(* the end of the lane, or no position.                                    *)
LEMMA PositionOnLane ==
    ASSUME GatewayTypeOK, NEW v, Hidden(v), NEW d, NEW ms, Acts(d, ms)
    PROVE  \/ \A k \in DOMAIN lane' : ~IsPosition(lane'[k])
           \/ \E k \in DOMAIN lane' :
                 /\ IsPosition(lane'[k])
                 /\ \A j \in DOMAIN lane' : IsPosition(lane'[j]) => j = k
                 /\ snap'.pos # v.pos \/ (k = 1 /\ ~Matches(v, snap'))
<1>1. /\ lane \in Seq(LaneType) /\ ms \in Seq(LaneType)
      /\ snap' = snap /\ (lane' = lane \/ lane' = lane \o ms)
      /\ \A k \in DOMAIN ms : IsPosition(ms[k]) => k = 1
  BY DEF GatewayTypeOK, LaneType, Acts
<1>2. /\ \A k \in DOMAIN lane : ~IsPosition(lane[k])
      /\ snap.pos # v.pos \/ (lane = <<>> /\ ~Matches(v, snap))
  BY DEF Hidden, NoPosition
<1>3. CASE lane' = lane
  BY <1>2, <1>3
<1>4. CASE lane' = lane \o ms
  <2> DEFINE k == Len(lane) + 1
  <2>1. /\ Len(lane) \in Nat /\ Len(ms) \in Nat
        /\ DOMAIN (lane \o ms) = 1 .. Len(lane) + Len(ms)
        /\ DOMAIN lane = 1 .. Len(lane) /\ DOMAIN ms = 1 .. Len(ms)
        /\ \A i \in DOMAIN (lane \o ms) :
              (lane \o ms)[i] = IF i <= Len(lane) THEN lane[i] ELSE ms[i - Len(lane)]
        /\ lane = <<>> => Len(lane) = 0
    BY <1>1
  <2>2. \A j \in DOMAIN lane' : IsPosition(lane'[j]) => j = k
    BY <1>1, <1>2, <1>4, <2>1
  <2>3. CASE \A j \in DOMAIN lane' : ~IsPosition(lane'[j])
    BY <2>3
  <2>4. CASE \E j \in DOMAIN lane' : IsPosition(lane'[j])
    <3>1. k \in DOMAIN lane' /\ IsPosition(lane'[k])
      BY <2>2, <2>4
    <3>2. snap'.pos # v.pos \/ (k = 1 /\ ~Matches(v, snap'))
      BY <1>1, <1>2, <2>1
    <3> HIDE DEF k
    <3> QED
      BY <2>2, <3>1, <3>2
  <2> QED
    BY <2>3, <2>4
<1> QED
  BY <1>1, <1>3, <1>4

(* Nothing but its stage's own command changes what a mutation sees.       *)
LEMMA RunningKept ==
    ASSUME StagesFit(call.stages), RecordsFit(call.stages, call.records),
           call'.stages = call.stages, call'.records = call.records,
           dev'.content = dev.content, stored' = stored
    PROVE  StagesFit(call.stages)' /\ RecordsFit(call.stages, call.records)'
<1>1. StagesFit(call.stages)'
  BY DEF StagesFit, Recalls, Saves, Waits, CreateStage
<1>2. RecordsFit(call.stages, call.records)'
  BY DEF RecordsFit, Faithful, Saves
<1> QED
  BY <1>1, <1>2

(* A call that cannot be tracked has nothing to keep.                      *)
LEMMA Untracked ==
    ASSUME ~Tracked'
    PROVE  MutationRuns' /\ MutationEnds'
  BY DEF MutationRuns, MutationEnds

LEMMA StaysTracked ==
    ASSUME SameCall(call'), Tracked'
    PROVE  /\ Tracked /\ (Working' <=> Working) /\ call'.at = call.at
           /\ call'.told = call.told /\ call'.stages = call.stages
           /\ call'.records = call.records
  BY DEF SameCall, Tracked, Working

(* The end of a mutation, while its call stays the same.                   *)
LEMMA EndKept ==
    ASSUME MutationEnds, SameCall(call'),
           Tracked /\ call.at = "done" =>
              stored' = stored /\ \A k \in DOMAIN out' : Creates(out'[k])
    PROVE  MutationEnds'
<1> SUFFICES ASSUME Tracked'
             PROVE  /\ call'.told => call'.at = "done"
                    /\ call'.at = "done" =>
                          /\ \A k \in DOMAIN out' : Creates(out'[k])
                          /\ \A r \in call'.records : Faithful(r)'
  BY DEF MutationEnds
<1> QED
  BY StaysTracked DEF MutationEnds, Faithful

LEMMA HeadAfterEnd ==
    ASSUME GatewayTypeOK, MutationEnds, Tracked, call.at = "done", out # <<>>
    PROVE  Creates(Head(out))
<1>1. out \in Seq(CommandType)
  BY DEF GatewayTypeOK
<1>2. 1 \in DOMAIN out /\ Head(out) = out[1]
  BY <1>1
<1> QED
  BY <1>2 DEF MutationEnds

LEMMA LastIsTaken ==
    ASSUME GatewayTypeOK, Len(out) = 1, out' = Tail(out)
    PROVE  out' = <<>> /\ \A k \in DOMAIN out' : Creates(out'[k])
<1>1. out \in Seq(CommandType)
  BY DEF GatewayTypeOK
<1>2. Tail(out) = <<>>
  BY <1>1
<1> QED
  BY <1>2

(* The device executes a recall: the stage's, if a mutation runs.          *)
LEMMA RecallRuns ==
    ASSUME CallInv, MutationRuns, MutationEnds, ExecuteRecall
    PROVE  MutationRuns' /\ MutationEnds'
<1> USE DEF CallInv
<1> DEFINE d == Recalled(Head(out).pos)
<1>1. PICK ms : Acts(d, ms)
  BY RecallActs
<1>2. /\ stored' = stored /\ out # <<>> /\ out' = Tail(out) /\ Head(out).op = "recall"
      /\ Head(out).pos \in Places /\ ~Creates(Head(out))
  BY RecallActs DEF Creates
<1>3. SameCall(call') /\ dev' = d /\ snap' = snap /\ up' = up
  BY <1>1 DEF Acts
<1>4. d.content = stored[Head(out).pos].content /\ d.pos = Head(out).pos
  BY <1>2, RecalledTyped
<1> HIDE DEF d
<1>5. MutationEnds'
  BY <1>2, <1>3, HeadAfterEnd, EndKept
<1>6. ASSUME Tracked', Working'
      PROVE  Running'
  <2> DEFINE stage == call.stages[1]
             c == stage.command
             v == stage.verification
  <2>1. Tracked /\ Working /\ Running
    BY <1>3, <1>6, StaysTracked DEF MutationRuns
  <2>2. /\ call'.stages = call.stages /\ call'.records = call.records /\ call'.at = call.at
    BY <1>3, <1>6, StaysTracked
  <2>3. Waits(stage) /\ call.at = "push" /\ Head(out) = c /\ Len(out) = 1 /\ Hidden(v)
    BY <1>2, <2>1, HeadOfRunning
  <2>4. c.op = "recall" /\ ~Saves(stage)
    BY <1>2, <2>3 DEF Saves
  <2>5. StagesFit(call.stages)'
    BY <2>1, <2>2 DEF Running, StagesFit, Recalls, Saves, Waits, CreateStage
  <2>6. RecordsFit(call.stages, call.records)'
    <3>1. \A r : Faithful(r)' <=> Faithful(r)
      BY <1>2 DEF Faithful
    <3>2. \A s : Saves(s)' <=> Saves(s)
      BY DEF Saves
    <3> QED
      BY <1>2, <2>1, <2>2, <2>4, <3>1, <3>2 DEF Running, RecordsFit
  <2>7. StageRuns(call.stages[1])'
    <3>1. \A k \in DOMAIN out' : Creates(out'[k])
      BY <1>2, <2>3, LastIsTaken
    <3>2. \/ \A k \in DOMAIN lane' : ~IsPosition(lane'[k])
          \/ \E k \in DOMAIN lane' :
                /\ IsPosition(lane'[k])
                /\ \A j \in DOMAIN lane' : IsPosition(lane'[j]) => j = k
                /\ snap'.pos # v.pos \/ (k = 1 /\ ~Matches(v, snap'))
      BY <1>1, <2>3, PositionOnLane
    <3>3. dev'.content = stored'[c.pos].content /\ dev'.pos = v.pos
      BY <1>2, <1>3, <1>4, <2>1, <2>3, CurrentStage, FirstStageFits DEF Running
    <3>4. c' = c /\ v' = v /\ stage' = stage
      BY <2>2
    <3> HIDE DEF stage, c, v
    <3>5. c.op # "save"
      BY <2>4
    <3>6. Executed(c, v)'
      BY <3>1, <3>2, <3>3, <3>4, <3>5 DEF Executed, NoPosition, IsPosition, Creates
    <3> QED
      BY <2>2, <2>3, <3>4, <3>6 DEF StageRuns, Waits, stage, c, v
  <2> QED
    BY <1>3, <2>1, <2>2, <2>5, <2>6, <2>7 DEF Running
<1> QED
  BY <1>5, <1>6 DEF MutationRuns

(* The device executes a save: every record of its slot is stored, and no  *)
(* source of a save to come is overwritten.                                *)
LEMMA SaveRuns ==
    ASSUME CallInv, MutationRuns, MutationEnds, ExecuteSave
    PROVE  MutationRuns' /\ MutationEnds'
<1> USE DEF CallInv
<1> DEFINE h == Head(out)
           d == SavedDevice(h)
<1>1. PICK ms : Acts(d, ms)
  BY SaveActs
<1>2. /\ stored' = [stored EXCEPT ![h.pos] = [name |-> h.name, content |-> dev.content]]
      /\ out # <<>> /\ out' = Tail(out) /\ h.op = "save"
      /\ h.pos \in Places /\ ~Creates(h)
  BY SaveActs DEF Creates
<1>3. SameCall(call') /\ dev' = d /\ snap' = snap /\ up' = up
  BY <1>1 DEF Acts
<1>4. d.content = dev.content /\ d.pos = h.pos
  BY DEF SavedDevice
<1> HIDE DEF d
<1>5. MutationEnds'
  BY <1>2, <1>3, HeadAfterEnd, EndKept
<1>6. ASSUME Tracked', Working'
      PROVE  Running'
  <2> DEFINE stage == call.stages[1]
             c == stage.command
             v == stage.verification
             stages == call.stages
  <2>1. Tracked /\ Working /\ Running
    BY <1>3, <1>6, StaysTracked DEF MutationRuns
  <2>2. /\ call'.stages = call.stages /\ call'.records = call.records /\ call'.at = call.at
    BY <1>3, <1>6, StaysTracked
  <2>3. Waits(stage) /\ call.at = "push" /\ h = c /\ Len(out) = 1 /\ Hidden(v)
    BY <1>2, <2>1, HeadOfRunning
  <2>4. 1 \in DOMAIN stages /\ Saves(stage) /\ c.op = "save"
    BY <1>2, <2>1, <2>3, CurrentStage DEF Saves
  <2>5. StagesFit(call.stages)'
    BY <2>1, <2>2 DEF Running, StagesFit, Recalls, Saves, Waits, CreateStage
  <2>6. stored'[h.pos] = [name |-> h.name, content |-> dev.content] /\ h.pos = c.pos /\ h.name = c.name
    BY <1>2, <2>3 DEF GatewayTypeOK
  <2>7. \A p \in Places : p # c.pos => stored'[p] = stored[p]
    BY <1>2, <2>3 DEF GatewayTypeOK
  <2>8. ASSUME NEW r \in call.records, r.place = c.pos
        PROVE  Faithful(r)'
    <3>1. c.name = r.name /\ r.content = dev.content
      BY <2>1, <2>4, <2>8 DEF Running, RecordsFit
    <3>2. stored'[r.place] = [name |-> r.name, content |-> r.content]
      BY <2>6, <2>8, <3>1
    <3> QED
      BY <3>2 DEF Faithful
  <2>9. ASSUME NEW r \in call.records
        PROVE  \/ Faithful(r)'
               \/ \E i \in DOMAIN stages : Saves(stages[i]) /\ stages[i].command.pos = r.place
    <3>1. r.place \in Places
      BY DEF GatewayTypeOK, CallType, RecordType
    <3>2. CASE r.place = c.pos
      BY <2>8, <3>2
    <3>3. CASE r.place # c.pos
      <4>1. Faithful(r) => Faithful(r)'
        BY <2>7, <3>1, <3>3 DEF Faithful
      <4> QED
        BY <2>1, <4>1 DEF Running, RecordsFit
    <3> QED
      BY <3>2, <3>3
  <2>10. ASSUME NEW i \in DOMAIN stages, NEW r \in call.records,
                Saves(stages[i]), stages[i].command.pos = r.place
         PROVE  /\ stages[i].command.name = r.name
                /\ r.content = IF i = 1 THEN dev'.content
                               ELSE stored'[stages[i - 1].command.pos].content
    <3>1. /\ stages[i].command.name = r.name
          /\ r.content = IF i = 1 THEN dev.content
                         ELSE stored[stages[i - 1].command.pos].content
      BY <2>1, <2>10 DEF Running, RecordsFit
    <3>2. CASE i = 1
      BY <1>3, <1>4, <3>1, <3>2
    <3>3. CASE i # 1
      <4>1. stages \in Seq(StageType)
        BY <2>1, CurrentStage
      <4>2. i > 1 /\ i - 1 \in DOMAIN stages
        BY <3>3, <4>1
      <4>3. Recalls(stages[i - 1])
        BY <2>1, <2>10, <4>2 DEF Running, StagesFit
      <4>4. stages[i - 1].command.pos # c.pos
        BY <2>1, <2>4, <4>2, <4>3 DEF Running, StagesFit
      <4>5. stages[i - 1].command.pos \in Places
        <5> HIDE DEF stages
        <5>1. stages[i - 1] \in StageType
          BY <4>1, <4>2
        <5>2. stages[i - 1].command \in CommandType
          BY <5>1 DEF StageType
        <5> QED
          BY <4>3, <5>2 DEF CommandType, Recalls
      <4>6. stored'[stages[i - 1].command.pos] = stored[stages[i - 1].command.pos]
        BY <2>7, <4>4, <4>5
      <4> QED
        BY <3>1, <3>3, <4>6
    <3> QED
      BY <3>2, <3>3
  <2>11. RecordsFit(call.stages, call.records)'
    BY <2>2, <2>9, <2>10 DEF RecordsFit, Saves
  <2>12. StageRuns(call.stages[1])'
    <3>1. \A k \in DOMAIN out' : Creates(out'[k])
      BY <1>2, <2>3, LastIsTaken
    <3>2. \/ \A k \in DOMAIN lane' : ~IsPosition(lane'[k])
          \/ \E k \in DOMAIN lane' :
                /\ IsPosition(lane'[k])
                /\ \A j \in DOMAIN lane' : IsPosition(lane'[j]) => j = k
                /\ snap'.pos # v.pos \/ (k = 1 /\ ~Matches(v, snap'))
      BY <1>1, <2>3, PositionOnLane
    <3>3. /\ c' = c /\ v' = v /\ stage' = stage /\ call'.records = call.records
          /\ dev'.pos = v.pos
      BY <1>3, <1>4, <2>1, <2>2, <2>3, CurrentStage, FirstStageFits DEF Running
    <3>4. \A r \in call.records : r.place = c.pos => Faithful(r)'
      BY <2>8
    <3> HIDE DEF stage, c, v
    <3>5. c.op # "recall"
      BY <2>4
    <3>6. Executed(c, v)'
      BY <3>1, <3>2, <3>3, <3>4, <3>5 DEF Executed, NoPosition, IsPosition, Creates
    <3> QED
      BY <2>2, <2>3, <3>3, <3>6 DEF StageRuns, Waits, stage, c, v
  <2> QED
    BY <1>3, <2>1, <2>2, <2>5, <2>11, <2>12 DEF Running
<1> QED
  BY <1>5, <1>6 DEF MutationRuns

(* No edit and no read is on its way while a mutation runs.                *)
LEMMA OthersRun ==
    ASSUME CallInv, MutationRuns, MutationEnds,
           ExecuteEdit \/ ExecuteReadPreset \/ ExecuteReadPosition
    PROVE  MutationRuns' /\ MutationEnds'
<1> USE DEF CallInv
<1>1. /\ \E d, ms : Acts(d, ms)
      /\ stored' = stored /\ out # <<>> /\ out' = Tail(out)
      /\ Head(out).op \in {"edit", "readPreset", "readPosition"}
  BY OthersAct
<1>2. ~Creates(Head(out)) /\ SameCall(call')
  BY <1>1 DEF Creates, Acts
<1>3. MutationEnds'
  BY <1>1, <1>2, HeadAfterEnd, EndKept
<1>4. ASSUME Tracked', Working'
      PROVE  FALSE
  <2>1. Tracked /\ Working /\ Running
    BY <1>2, <1>4, StaysTracked DEF MutationRuns
  <2>2. Waits(call.stages[1]) /\ Head(out) = call.stages[1].command
    BY <1>1, <1>2, <2>1, HeadOfRunning
  <2>3. call.stages[1].command.op \in {"recall", "save"}
    BY <2>1, <2>2, CurrentStage, FirstStageFits DEF Running
  <2> QED
    BY <1>1, <2>2, <2>3
<1> QED
  BY <1>3, <1>4 DEF MutationRuns

(* A command is taken or lost and nothing else changes.                    *)
LEMMA TakenRuns ==
    ASSUME CallInv, MutationRuns, MutationEnds, ExecuteCreate \/ LoseCommand
    PROVE  MutationRuns' /\ MutationEnds'
<1> USE DEF CallInv
<1>1. out # <<>> /\ out' = Tail(out) /\ UNCHANGED <<dev, stored, lane, snap, up, call>>
  BY Zenon DEF ExecuteCreate, Executing, LoseCommand, deviceVars
<1>2. out \in Seq(CommandType)
  BY DEF GatewayTypeOK
<1>3. /\ \A k \in DOMAIN out' : k + 1 \in DOMAIN out /\ out'[k] = out[k + 1]
      /\ \A k \in DOMAIN out' : k + 1 = Len(out) => k = Len(out')
  BY <1>1, <1>2
<1>4. (\A k \in DOMAIN out : Creates(out[k])) => (\A k \in DOMAIN out' : Creates(out'[k]))
  BY <1>3
<1>5. MutationEnds'
  BY <1>1, <1>4 DEF MutationEnds, Tracked, Faithful, Creates
<1>6. ASSUME Tracked', Working'
      PROVE  Running'
  <2> DEFINE stage == call.stages[1]
             c == stage.command
             v == stage.verification
  <2>1. Running
    BY <1>1, <1>6 DEF MutationRuns, Tracked, Working
  <2>2. StagesFit(call.stages)' /\ RecordsFit(call.stages, call.records)'
    BY <1>1, <2>1, RunningKept DEF Running
  <2>3. c' = c /\ v' = v /\ stage' = stage
    BY <1>1
  <2>4. NothingMoves => NothingMoves'
    BY <1>1, <1>4 DEF NothingMoves, Matches, Creates
  <2> HIDE DEF stage, c, v
  <2>5. Executed(c, v) => Executed(c, v)'
    <3>1. (\A r \in call.records : r.place = c.pos => Faithful(r))
             => (\A r \in call.records : r.place = c.pos => Faithful(r))'
      BY <1>1, <2>3 DEF Faithful
    <3>2. Matches(v, snap)' <=> Matches(v, snap)
      BY <1>1, <2>3 DEF Matches
    <3> QED
      BY <1>1, <1>4, <2>3, <3>1, <3>2 DEF Executed, NoPosition, IsPosition, Creates
  <2>6. NotExecuted(c, v) => NotExecuted(c, v)'
    <3>1. Hidden(v)' <=> Hidden(v)
      BY <1>1, <2>3 DEF Hidden, NoPosition, IsPosition, Matches
    <3> QED
      BY <1>1, <1>3, <2>3, <3>1 DEF NotExecuted, Creates
  <2> QED
    BY <1>1, <2>1, <2>2, <2>3, <2>4, <2>5, <2>6 DEF Running, StageRuns, Waits, stage, c, v
<1> QED
  BY <1>5, <1>6 DEF MutationRuns

(* Decoding takes the lane's first message; no other message than a        *)
(* position makes the snapshot show a place it did not.                    *)
LEMMA DecodedLane ==
    ASSUME GatewayTypeOK, Decode, NEW v, v.pos # Empty
    PROVE  /\ 1 \in DOMAIN lane
           /\ \A k \in DOMAIN lane' : k + 1 \in DOMAIN lane /\ lane'[k] = lane[k + 1]
           /\ \A k \in DOMAIN lane : k # 1 => k - 1 \in DOMAIN lane' /\ lane'[k - 1] = lane[k]
           /\ ~IsPosition(lane[1]) /\ snap.pos # v.pos => snap'.pos # v.pos
<1>1. lane \in Seq(LaneType) /\ lane # <<>> /\ lane' = Tail(lane)
  BY DEF GatewayTypeOK, Decode
<1>2. /\ 1 \in DOMAIN lane /\ Head(lane) = lane[1] /\ Head(lane) \in LaneType
      /\ \A k \in DOMAIN lane' : k + 1 \in DOMAIN lane /\ lane'[k] = lane[k + 1]
      /\ \A k \in DOMAIN lane : k # 1 => k - 1 \in DOMAIN lane' /\ lane'[k - 1] = lane[k]
  BY <1>1
<1>3. ASSUME ~IsPosition(lane[1]), snap.pos # v.pos
      PROVE  snap'.pos # v.pos
  <2>1. CASE Head(lane).kind = "reset"
    BY <2>1 DEF Decode, NoSnapshot
  <2>2. CASE Head(lane).kind # "reset"
    <3>1. Head(lane) \in Message /\ Head(lane).kind # "position"
      BY <1>2, <1>3, <2>2 DEF LaneType, ResetItem, IsPosition
    <3>2. snap' = Applied(snap, Head(lane)) /\ snap \in SnapshotType
      BY <2>2 DEF Decode, GatewayTypeOK
    <3>3. Head(lane).kind \in {"preset", "dirty", "edit"}
      BY <3>1 DEF Message
    <3>4. Applied(snap, Head(lane)).pos = snap.pos
      BY <3>2, <3>3 DEF Applied, SnapshotType
    <3> QED
      BY <1>3, <3>2, <3>4
  <2> QED
    BY <2>1, <2>2
<1> QED
  BY <1>2, <1>3

(* The position a stage's execution told of moves up in the lane, or is    *)
(* decoded; before it nothing can be taken for it.                         *)
LEMMA DecodeRuns ==
    ASSUME CallInv, MutationRuns, MutationEnds, Decode
    PROVE  MutationRuns' /\ MutationEnds'
<1> USE DEF CallInv
<1>1. SameCall(call') /\ lane # <<>>
  BY DecodeTyped DEF Decode
<1>2. dev' = dev /\ stored' = stored /\ out' = out /\ up' = up
  BY DEF Decode, deviceVars
<1>3. MutationEnds'
  BY <1>1, <1>2, EndKept DEF MutationEnds
<1>4. ASSUME Tracked', Working'
      PROVE  Running'
  <2> DEFINE stage == call.stages[1]
             c == stage.command
             v == stage.verification
  <2>1. Tracked /\ Working /\ Running
    BY <1>1, <1>4, StaysTracked DEF MutationRuns
  <2>2. /\ call'.stages = call.stages /\ call'.records = call.records /\ call'.at = call.at
    BY <1>1, <1>4, StaysTracked
  <2>3. Waits(stage)
    BY <1>1, <2>1 DEF Running, StageRuns, NothingMoves
  <2>4. StagesFit(call.stages)' /\ RecordsFit(call.stages, call.records)'
    BY <1>2, <2>1, <2>2, RunningKept DEF Running
  <2>5. c' = c /\ v' = v /\ stage' = stage
    BY <2>2
  <2>6. v.pos # Empty
    BY <2>3 DEF Waits
  <2>7. \/ NotExecuted(c, v)
        \/ call.at = "push" /\ Executed(c, v)
    BY <2>1, <2>3 DEF Running, StageRuns
  <2> HIDE DEF stage, c, v
  <2>8. /\ 1 \in DOMAIN lane
        /\ \A k \in DOMAIN lane' : k + 1 \in DOMAIN lane /\ lane'[k] = lane[k + 1]
        /\ \A k \in DOMAIN lane : k # 1 => k - 1 \in DOMAIN lane' /\ lane'[k - 1] = lane[k]
        /\ ~IsPosition(lane[1]) /\ snap.pos # v.pos => snap'.pos # v.pos
    BY <2>6, DecodedLane
  <2>9. ASSUME NotExecuted(c, v)
        PROVE  NotExecuted(c, v)'
    <3>1. NoPosition /\ snap.pos # v.pos
      BY <1>1, <2>9 DEF NotExecuted, Hidden
    <3>2. NoPosition' /\ snap'.pos # v.pos
      BY <2>8, <3>1 DEF NoPosition
    <3> QED
      BY <1>2, <2>2, <2>5, <2>9, <3>2 DEF NotExecuted, Hidden, Creates
  <2>10. ASSUME Executed(c, v)
         PROVE  Executed(c, v)'
    <3>1. \/ NoPosition'
          \/ \E k \in DOMAIN lane' :
                /\ IsPosition(lane'[k]) /\ \A j \in DOMAIN lane' : IsPosition(lane'[j]) => j = k
                /\ snap'.pos # v.pos
      <4>1. CASE NoPosition
        BY <2>8, <4>1 DEF NoPosition
      <4>2. ASSUME NEW k \in DOMAIN lane, IsPosition(lane[k]),
                   \A j \in DOMAIN lane : IsPosition(lane[j]) => j = k,
                   snap.pos # v.pos \/ k = 1
            PROVE  \/ NoPosition'
                   \/ \E i \in DOMAIN lane' :
                         /\ IsPosition(lane'[i])
                         /\ \A j \in DOMAIN lane' : IsPosition(lane'[j]) => j = i
                         /\ snap'.pos # v.pos
        <5>1. lane \in Seq(LaneType) /\ lane' \in Seq(LaneType)
          BY DecodeTyped DEF GatewayTypeOK
        <5>2. CASE k = 1
          <6>1. \A j \in DOMAIN lane' : j \in Nat /\ j + 1 # 1
            BY <5>1
          <6> QED
            BY <2>8, <4>2, <5>2, <6>1 DEF NoPosition
        <5>3. CASE k # 1
          <6>1. ~IsPosition(lane[1]) /\ snap.pos # v.pos
            BY <2>8, <4>2, <5>3
          <6>2. k - 1 \in DOMAIN lane' /\ IsPosition(lane'[k - 1]) /\ snap'.pos # v.pos
            BY <2>8, <4>2, <5>3, <6>1
          <6>3. ASSUME NEW j \in DOMAIN lane', IsPosition(lane'[j])
                PROVE  j = k - 1
            <7>1. j + 1 = k /\ j \in Int
              BY <2>8, <4>2, <5>1, <6>3
            <7> QED
              BY <7>1
          <6> QED
            BY <6>2, <6>3
        <5> QED
          BY <5>2, <5>3
      <4> QED
        BY <2>10, <4>1, <4>2 DEF Executed
    <3>2. (\A r \in call.records : r.place = c.pos => Faithful(r))
             => (\A r \in call.records : r.place = c.pos => Faithful(r))'
      BY <1>2, <2>2, <2>5 DEF Faithful
    <3> QED
      BY <1>2, <2>5, <2>10, <3>1, <3>2 DEF Executed, Creates, IsPosition
  <2> QED
    BY <1>2, <2>1, <2>2, <2>3, <2>4, <2>5, <2>7, <2>9, <2>10
       DEF Running, StageRuns, Waits, stage, c, v
<1> QED
  BY <1>3, <1>4 DEF MutationRuns

(* What a stage that is verified, or waits for nothing, leaves behind.     *)
StageIsDone(stage) ==
    /\ NoPosition
    /\ stage.verification.pos \in {Empty, dev.pos}
    /\ \A k \in DOMAIN out : Creates(out[k])
    /\ Recalls(stage) => dev.content = stored[stage.command.pos].content
    /\ Saves(stage) => \A r \in call.records : r.place = stage.command.pos => Faithful(r)
    /\ \/ Waits(stage) /\ snap.pos = stage.verification.pos
       \/ NothingMoves

LEMMA VerifiedIsDone ==
    ASSUME GatewayTypeOK, StagesLeft, Working, Running, call.at = "push",
           Matches(Wanted, snap) \/ Wanted = Unverified
    PROVE  StageIsDone(call.stages[1])
<1> DEFINE stage == call.stages[1]
           c == stage.command
           v == stage.verification
<1>1. /\ StagesFit(call.stages) /\ 1 \in DOMAIN call.stages /\ Wanted = v
  BY CurrentStage DEF Running
<1>2. CASE Waits(stage)
  <2>1. v.pos # Empty
    BY <1>2 DEF Waits
  <2>2. v # Unverified
    BY <2>1 DEF Unverified, Shows
  <2>3. Matches(v, snap) /\ snap.pos = v.pos
    BY <1>1, <2>1, <2>2 DEF Matches
  <2>4. NotExecuted(c, v) \/ Executed(c, v)
    BY <1>2 DEF Running, StageRuns
  <2> HIDE DEF v, c, stage
  <2>5. ~Hidden(v)
    BY <2>3 DEF Hidden
  <2>6. Executed(c, v)
    BY <2>4, <2>5 DEF NotExecuted
  <2>7. NoPosition
    BY <2>3, <2>6 DEF Executed
  <2> QED
    BY <1>2, <2>3, <2>6, <2>7 DEF Executed, StageIsDone, Recalls, Saves, v, c, stage
<1>3. CASE ~Waits(stage)
  <2>1. stage = CreateStage /\ NothingMoves
    BY <1>1, <1>3, FirstStageFits DEF Running, StageRuns
  <2>2. ~Saves(stage) /\ ~Recalls(stage) /\ stage.verification.pos = Empty
    BY <2>1, CreateStageFacts
  <2>3. NoPosition
    BY <2>1 DEF NothingMoves, NoPosition
  <2> HIDE DEF stage
  <2> QED
    BY <2>1, <2>2, <2>3 DEF NothingMoves, StageIsDone, stage
<1> QED
  BY <1>2, <1>3

(* The last stage is done: every record is stored.                         *)
LEMMA LastStageIsDone ==
    ASSUME GatewayTypeOK, Running, Len(call.stages) = 1, StageIsDone(call.stages[1])
    PROVE  \A r \in call.records : Faithful(r)
<1>1. call.stages \in Seq(StageType)
  BY DEF GatewayTypeOK, CallType
<1>2. \A i \in DOMAIN call.stages : i = 1
  BY <1>1
<1> QED
  BY <1>2 DEF Running, RecordsFit, StageIsDone

(* The stages after the first fit as well.                                 *)
LEMMA TailFacts ==
    ASSUME NEW stages \in Seq(StageType), Len(stages) > 1
    PROVE  /\ Tail(stages) \in Seq(StageType) /\ 1 \in DOMAIN Tail(stages)
           /\ Tail(stages)[1] = stages[2] /\ 2 \in DOMAIN stages /\ 1 \in DOMAIN stages
           /\ \A i \in DOMAIN Tail(stages) :
                 /\ i + 1 \in DOMAIN stages /\ i + 1 > 1 /\ i + 1 - 1 = i
                 /\ i \in DOMAIN stages /\ i \in Nat \ {0}
                 /\ Tail(stages)[i] = stages[i + 1]
                 /\ i > 1 => i - 1 \in DOMAIN Tail(stages) /\ Tail(stages)[i - 1] = stages[i]
           /\ \A i \in DOMAIN stages :
                 i # 1 => i - 1 \in DOMAIN Tail(stages) /\ Tail(stages)[i - 1] = stages[i]
  OBVIOUS

LEMMA TailFits ==
    ASSUME NEW stages \in Seq(StageType), Len(stages) > 1, StagesFit(stages)
    PROVE  StagesFit(Tail(stages)) /\ Waits(stages[2])
<1> DEFINE t == Tail(stages)
<1>1. /\ 2 \in DOMAIN stages
      /\ \A i \in DOMAIN t :
            /\ i + 1 \in DOMAIN stages /\ i + 1 > 1 /\ i + 1 - 1 = i /\ i + 1 # 1
            /\ i \in DOMAIN stages /\ t[i] = stages[i + 1]
            /\ i > 1 => i - 1 \in DOMAIN t /\ t[i - 1] = stages[i]
  BY TailFacts
<1> HIDE DEF t
<1>2. ASSUME NEW i \in DOMAIN t
      PROVE  \E n \in DOMAIN stages : n # 1 /\ n > 1 /\ n - 1 = i /\ t[i] = stages[n]
  BY <1>1
<1>3. ASSUME NEW n \in DOMAIN stages, n # 1
      PROVE  /\ Recalls(stages[n]) \/ Saves(stages[n])
             /\ stages[n].verification.pos = stages[n].command.pos
             /\ Waits(stages[n]) /\ stages[n].verification.content = Empty
  BY <1>3, Zenon DEF StagesFit
<1>4. \A i \in DOMAIN t :
         /\ Recalls(t[i]) \/ Saves(t[i])
         /\ t[i].verification.pos = t[i].command.pos
         /\ Waits(t[i]) /\ t[i].verification.content = Empty
  BY <1>2, <1>3
<1>5. ASSUME NEW i \in DOMAIN t, i > 1
      PROVE  /\ t[i - 1].verification.pos # t[i].verification.pos
             /\ Saves(t[i]) => Recalls(t[i - 1])
  <2>1. PICK n \in DOMAIN stages : n > 1 /\ n - 1 = i /\ t[i] = stages[n]
    BY <1>2
  <2>2. /\ stages[n - 1].verification.pos # stages[n].verification.pos
        /\ Saves(stages[n]) => Recalls(stages[n - 1])
    BY <2>1, Zenon DEF StagesFit
  <2>3. t[i - 1] = stages[n - 1]
    BY <1>1, <1>5, <2>1
  <2> QED
    BY <2>1, <2>2, <2>3
<1>6. ASSUME NEW i \in DOMAIN t, NEW j \in DOMAIN t, Saves(t[i]), Recalls(t[j])
      PROVE  t[i].command.pos # t[j].command.pos
  <2>1. PICK m \in DOMAIN stages, n \in DOMAIN stages : t[i] = stages[m] /\ t[j] = stages[n]
    BY <1>2
  <2>2. Saves(stages[m]) /\ Recalls(stages[n])
    BY <1>6, <2>1, Zenon
  <2>3. stages[m].command.pos # stages[n].command.pos
    BY <2>2, Zenon DEF StagesFit
  <2> QED
    BY <2>1, <2>3
<1>7. StagesFit(t)
  <2>1. \A i \in DOMAIN t :
           i > 1 => /\ t[i - 1].verification.pos # t[i].verification.pos
                    /\ Saves(t[i]) => Recalls(t[i - 1])
    BY <1>5, Zenon
  <2>2. \A i, j \in DOMAIN t : Saves(t[i]) /\ Recalls(t[j]) => t[i].command.pos # t[j].command.pos
    BY <1>6, Zenon
  <2> QED
    BY <1>4, <2>1, <2>2 DEF StagesFit
<1>8. Waits(stages[2])
  BY <1>1, <1>3
<1> QED
  BY <1>7, <1>8 DEF t

(* The records of the stages after a first that is done.                   *)
LEMMA TailRecords ==
    ASSUME NEW stages \in Seq(StageType), Len(stages) > 1, StagesFit(stages),
           RecordsFit(stages, call.records), StageIsDone(stages[1])
    PROVE  RecordsFit(Tail(stages), call.records)
<1> DEFINE t == Tail(stages)
<1>1. /\ \A i \in DOMAIN t :
            /\ i + 1 \in DOMAIN stages /\ i + 1 > 1 /\ i + 1 - 1 = i /\ i + 1 # 1
            /\ i \in Nat \ {0} /\ t[i] = stages[i + 1]
            /\ i > 1 => t[i - 1] = stages[i]
      /\ \A i \in DOMAIN stages : i # 1 => i - 1 \in DOMAIN t /\ t[i - 1] = stages[i]
  BY TailFacts
<1> HIDE DEF t
<1>2. ASSUME NEW r \in call.records
      PROVE  \/ Faithful(r)
             \/ \E i \in DOMAIN t : Saves(t[i]) /\ t[i].command.pos = r.place
  <2>1. CASE Faithful(r)
    BY <2>1
  <2>2. ASSUME NEW n \in DOMAIN stages, Saves(stages[n]), stages[n].command.pos = r.place
        PROVE  \/ Faithful(r)
               \/ \E i \in DOMAIN t : Saves(t[i]) /\ t[i].command.pos = r.place
    <3>1. CASE n = 1
      BY <2>2, <3>1 DEF StageIsDone
    <3>2. CASE n # 1
      <4>1. n - 1 \in DOMAIN t /\ t[n - 1] = stages[n]
        BY <1>1, <3>2
      <4> QED
        BY <2>2, <4>1
    <3> QED
      BY <3>1, <3>2
  <2> QED
    BY <2>1, <2>2, Zenon DEF RecordsFit
<1>3. ASSUME NEW i \in DOMAIN t, NEW r \in call.records,
             Saves(t[i]), t[i].command.pos = r.place
      PROVE  /\ t[i].command.name = r.name
             /\ r.content = IF i = 1 THEN dev.content
                            ELSE stored[t[i - 1].command.pos].content
  <2>0. /\ i + 1 \in DOMAIN stages /\ i + 1 > 1 /\ i + 1 - 1 = i /\ i + 1 # 1
        /\ t[i] = stages[i + 1]
    BY <1>1
  <2>1. PICK n \in DOMAIN stages : n # 1 /\ n > 1 /\ n - 1 = i /\ t[i] = stages[n]
    BY <2>0
  <2>2. /\ stages[n].command.name = r.name
        /\ r.content = stored[stages[n - 1].command.pos].content
    <3>1. Saves(stages[n]) /\ stages[n].command.pos = r.place
      BY <1>3, <2>1
    <3> QED
      BY <2>1, <3>1 DEF RecordsFit
  <2>3. t[i].command.name = r.name /\ r.content = stored[stages[i].command.pos].content
    BY <2>1, <2>2, Zenon
  <2>4. CASE i = 1
    <3>1. Recalls(stages[n - 1])
      BY <1>3, <2>1, Zenon DEF StagesFit
    <3>2. Recalls(stages[1])
      BY <2>1, <2>4, <3>1, Zenon
    <3>3. dev.content = stored[stages[1].command.pos].content
      BY <3>2 DEF StageIsDone
    <3> QED
      BY <2>3, <2>4, <3>3
  <2>5. CASE i # 1
    <3>1. t[i - 1] = stages[i]
      BY <1>1, <2>5
    <3> QED
      BY <2>3, <2>5, <3>1
  <2> QED
    BY <2>4, <2>5
<1>4. RecordsFit(t, call.records)
  BY <1>2, <1>3, Zenon DEF RecordsFit
<1> QED
  BY <1>4 DEF t

(* The next stage starts where it cannot be taken for reached.             *)
LEMMA NextRuns ==
    ASSUME GatewayTypeOK, Running, Len(call.stages) > 1, StageIsDone(call.stages[1])
    PROVE  /\ Waits(call.stages[2])
           /\ Hidden(call.stages[2].verification)
<1>1. call.stages \in Seq(StageType)
  BY DEF GatewayTypeOK, CallType
<1>2. Waits(call.stages[2]) /\ 2 \in DOMAIN call.stages /\ 1 \in DOMAIN call.stages
  BY <1>1, TailFits, TailFacts DEF Running
<1>3. CASE Waits(call.stages[1]) /\ snap.pos = call.stages[1].verification.pos
  <2>1. \A i \in DOMAIN call.stages :
           i > 1 => call.stages[i - 1].verification.pos # call.stages[i].verification.pos
    BY Zenon DEF Running, StagesFit
  <2>2. call.stages[2 - 1].verification.pos # call.stages[2].verification.pos
    BY <1>2, <2>1, 2 > 1
  <2>3. 2 - 1 = 1
    OBVIOUS
  <2> QED
    BY <1>2, <1>3, <2>2, <2>3 DEF StageIsDone, Hidden
<1>4. CASE NothingMoves
  BY <1>2, <1>4 DEF StageIsDone, Hidden, NothingMoves
<1> QED
  BY <1>2, <1>3, <1>4 DEF StageIsDone

LEMMA NextStageRuns ==
    ASSUME CallInv, MutationRuns, MutationEnds, call' = NextStage,
           Len(call.stages) > 1, Working, UNCHANGED <<dev, stored, out, lane, snap, up>>,
           Tracked /\ Working /\ Running => StageIsDone(call.stages[1])
    PROVE  MutationRuns' /\ MutationEnds'
<1> USE DEF CallInv
<1>1. call \in CallType /\ call.stages # <<>> /\ call.stages \in Seq(StageType)
  BY DEF GatewayTypeOK, CallType, StagesLeft
<1>2. /\ call'.kind = call.kind /\ call'.stages = Tail(call.stages)
      /\ call'.records = call.records /\ call'.stale = call.stale
      /\ call'.quiet = call.quiet /\ call'.told = call.told /\ call'.at = "planned"
  BY <1>1, NextStageTyped
<1>3. Tracked' <=> Tracked
  BY <1>2 DEF Tracked
<1>4. MutationEnds'
  BY <1>2, <1>3 DEF MutationEnds, Working
<1>5. ASSUME Tracked'
      PROVE  Running'
  <2>1. Running /\ StageIsDone(call.stages[1])
    BY <1>3, <1>5 DEF MutationRuns
  <2>2. StagesFit(Tail(call.stages)) /\ RecordsFit(Tail(call.stages), call.records)
    BY <1>1, <2>1, TailFits, TailRecords DEF Running
  <2>3. StagesFit(call.stages)' /\ RecordsFit(call.stages, call.records)'
    <3>1. StagesFit(call.stages)'
      BY <1>2, <2>2
    <3>2. RecordsFit(call.stages, call.records)'
      <4> DEFINE t == Tail(call.stages)
      <4>1. RecordsFit(t, call.records)
        BY <2>2
      <4>2. call'.stages = t
        BY <1>2
      <4>3. \A r : Faithful(r)' <=> Faithful(r)
        BY DEF Faithful
      <4>4. dev'.content = dev.content /\ stored' = stored /\ call'.records = call.records
        BY <1>2
      <4> HIDE DEF t
      <4>5. \A r \in call.records :
               \/ Faithful(r)'
               \/ \E i \in DOMAIN t : Saves(t[i]) /\ t[i].command.pos = r.place
        BY <4>1, <4>3, Zenon DEF RecordsFit
      <4>6. \A i \in DOMAIN t, r \in call.records :
               Saves(t[i]) /\ t[i].command.pos = r.place =>
                   /\ t[i].command.name = r.name
                   /\ r.content = IF i = 1 THEN dev'.content
                                  ELSE stored'[t[i - 1].command.pos].content
        BY <4>1, <4>4 DEF RecordsFit
      <4> QED
        BY <4>2, <4>4, <4>5, <4>6 DEF RecordsFit
    <3> QED
      BY <3>1, <3>2
  <2> DEFINE c == call.stages[2].command
             v == call.stages[2].verification
  <2>4. call'.stages[1].command = c /\ call'.stages[1].verification = v
    BY <1>1, <1>2, TailFacts
  <2>5. v.pos # Empty /\ Hidden(v)
    BY <2>1, NextRuns DEF Waits
  <2>6. \A k \in DOMAIN out : Creates(out[k])
    BY <2>1 DEF StageIsDone
  <2> HIDE DEF c, v
  <2>7. NotExecuted(call.stages[1].command, call.stages[1].verification)'
    BY <2>4, <2>5, <2>6 DEF NotExecuted, Hidden, NoPosition, IsPosition, Matches, Creates
  <2> QED
    BY <1>2, <2>1, <2>3, <2>4, <2>5, <2>7 DEF Running, StageRuns, Waits
<1> QED
  BY <1>4, <1>5 DEF MutationRuns

(* A mutation that begins where nothing is under way and nothing matches.  *)
LEMMA BeginRuns ==
    ASSUME NEW kind \in {"edit", "recall", "mutation"}, NEW plan, Plans(kind, plan), Begin(plan)
    PROVE  MutationRuns' /\ MutationEnds'
<1>1. PICK stages \in Seq(StageType), records \in SUBSET RecordType :
         /\ stages # <<>> /\ plan = Plan(kind, stages, records)
         /\ kind = "mutation" => StagesFit(stages) /\ RecordsFit(stages, records)
  BY Zenon DEF Plans
<1>2. /\ Plan(kind, stages, records).kind = kind
      /\ Plan(kind, stages, records).stages = stages
      /\ Plan(kind, stages, records).records = records
      /\ Plan(kind, stages, records).at = "planned"
      /\ ~Plan(kind, stages, records).told
  BY PlanFields
<1>3. /\ call'.kind = kind /\ call'.stages = stages /\ call'.records = records
      /\ call'.at = "planned" /\ ~call'.told /\ call' = Plan(kind, stages, records)
  BY <1>1, <1>2 DEF Begin
<1>4. up /\ UNCHANGED <<dev, stored, out, lane, snap, up>>
  BY DEF Begin, deviceVars
<1>5. SUFFICES ASSUME Tracked' PROVE Running'
  BY <1>3 DEF MutationRuns, MutationEnds
<1>6. StagesFit(stages) /\ RecordsFit(stages, records)
  BY <1>1, <1>3, <1>5 DEF Tracked
<1>7. out = <<>> /\ lane = <<>>
  BY <1>3, <1>5, PlanQuiet DEF Tracked
<1>8. ASSUME NEW i \in DOMAIN stages, Waits(stages[i])
      PROVE  ~Matches(stages[i].verification, snap)
  <2>1. stages[i].verification # Unverified
    BY <1>8 DEF Waits, Unverified, Shows
  <2> QED
    BY <1>3, <1>5, <2>1, PlanStale DEF Tracked
<1>9. StagesFit(call.stages)' /\ RecordsFit(call.stages, call.records)'
  BY <1>3, <1>4, <1>6 DEF StagesFit, Recalls, Saves, Waits, CreateStage, RecordsFit, Faithful
<1>10. 1 \in DOMAIN stages /\ DOMAIN out = {} /\ DOMAIN lane = {} /\ DOMAIN stages \subseteq Int
  BY <1>1, <1>7
<1>11. ASSUME Waits(stages[1])
       PROVE  NotExecuted(call.stages[1].command, call.stages[1].verification)'
  <2>1. ~Matches(stages[1].verification, snap)
    BY <1>8, <1>10, <1>11
  <2> DEFINE v == stages[1].verification
  <2>2. call'.stages[1].verification = v /\ ~Matches(v, snap')
    BY <1>3, <1>4, <2>1
  <2> HIDE DEF v
  <2>3. lane' = <<>> /\ DOMAIN lane' = {} /\ DOMAIN out' = {}
    BY <1>4, <1>7, <1>10
  <2> QED
    BY <2>2, <2>3 DEF NotExecuted, Hidden, NoPosition
<1>12. ASSUME ~Waits(stages[1])
       PROVE  NothingMoves'
  <2>1. ASSUME NEW i \in DOMAIN stages, i > 1
        PROVE  ~Matches(stages[i].verification, snap)
    <3>1. i # 1
      BY <2>1
    <3>2. Waits(stages[i])
      BY <1>6, <3>1, Zenon DEF StagesFit
    <3> QED
      BY <1>8, <3>2
  <2>2. \A i \in DOMAIN call'.stages : i > 1 => ~Matches(call'.stages[i].verification, snap')
    BY <1>3, <1>4, <2>1
  <2> QED
    BY <1>4, <1>7, <1>10, <2>2 DEF NothingMoves
<1> QED
  BY <1>3, <1>4, <1>9, <1>11, <1>12 DEF Running, StageRuns, Waits

(* Looking begins, or the stage's command is sent.                         *)
LEMMA ArmRuns ==
    ASSUME CallInv, MutationRuns, MutationEnds, Arm
    PROVE  MutationRuns' /\ MutationEnds'
<1> USE DEF CallInv
<1>1. /\ call'.kind = call.kind /\ call'.stages = call.stages /\ call'.records = call.records
      /\ call'.quiet = call.quiet /\ call'.stale = call.stale /\ call'.told = call.told
      /\ call'.at = "armed" /\ call.at = "planned"
  BY DEF Arm, At, Advance, GatewayTypeOK, CallType
<1>2. UNCHANGED <<dev, stored, out, lane, snap, up>>
  BY DEF Arm, deviceVars
<1>3. MutationEnds'
  BY <1>1 DEF MutationEnds, Tracked
<1>4. ASSUME Tracked'
      PROVE  Running'
  <2>1. Running
    BY <1>1, <1>4 DEF MutationRuns, Tracked, Working
  <2>2. StagesFit(call.stages)' /\ RecordsFit(call.stages, call.records)'
    BY <1>1, <1>2, <2>1, RunningKept DEF Running
  <2> DEFINE stage == call.stages[1]
             c == stage.command
             v == stage.verification
  <2>3. c' = c /\ v' = v /\ stage' = stage
    BY <1>1
  <2>4. NothingMoves => NothingMoves'
    BY <1>1, <1>2 DEF NothingMoves, Matches, Creates
  <2>5. Waits(stage) => NotExecuted(c, v)
    BY <1>1, <2>1 DEF Running, StageRuns
  <2> HIDE DEF stage, c, v
  <2>6. NotExecuted(c, v) => NotExecuted(c, v)'
    BY <1>1, <1>2, <2>3 DEF NotExecuted, Hidden, NoPosition, IsPosition, Matches, Creates
  <2> QED
    BY <1>1, <1>2, <2>1, <2>2, <2>3, <2>4, <2>5, <2>6
       DEF Running, StageRuns, Waits, stage, c, v
<1> QED
  BY <1>3, <1>4 DEF MutationRuns

LEMMA LastSent ==
    ASSUME NEW s \in Seq(CommandType), NEW x \in CommandType
    PROVE  \A k \in DOMAIN Append(s, x) :
              \/ k \in DOMAIN s /\ Append(s, x)[k] = s[k]
              \/ k = Len(Append(s, x)) /\ Append(s, x)[k] = x
  OBVIOUS

LEMMA SendRuns ==
    ASSUME CallInv, MutationRuns, MutationEnds, Send
    PROVE  MutationRuns' /\ MutationEnds'
<1> USE DEF CallInv
<1> DEFINE stage == call.stages[1]
           c == stage.command
           v == stage.verification
<1>1. /\ call'.kind = call.kind /\ call'.stages = call.stages /\ call'.records = call.records
      /\ call'.quiet = call.quiet /\ call'.stale = call.stale /\ call'.told = call.told
      /\ call.kind = "mutation" => call'.at = "push"
      /\ call.at = "armed" /\ Working /\ call'.at # "done"
  BY DEF Send, At, Advance, GatewayTypeOK, CallType, Working
<1>2. UNCHANGED <<dev, stored, lane, snap, up>> /\ up
  BY DEF Send, deviceVars
<1>3. /\ out' = Append(out, c) /\ out \in Seq(CommandType) /\ c \in CommandType
  BY <1>1, CurrentStage DEF Send, GatewayTypeOK
<1>4. MutationEnds'
  BY <1>1 DEF MutationEnds, Tracked
<1>5. ASSUME Tracked'
      PROVE  Running'
  <2>1. Running /\ call'.at = "push" /\ 1 \in DOMAIN call.stages
    BY <1>1, <1>5, CurrentStage DEF MutationRuns, Tracked
  <2>2. StagesFit(call.stages)' /\ RecordsFit(call.stages, call.records)'
    BY <1>1, <1>2, <2>1, RunningKept DEF Running
  <2>3. c' = c /\ v' = v /\ stage' = stage
    BY <1>1
  <2>4. Waits(stage) => NotExecuted(c, v)
    BY <1>1, <2>1 DEF Running, StageRuns
  <2>5. ~Waits(stage) => NothingMoves /\ Creates(c)
    BY <2>1, FirstStageFits, CreateStageFacts DEF Running, StageRuns
  <2> HIDE DEF c, v, stage
  <2>6. \A k \in DOMAIN out' :
           \/ k \in DOMAIN out /\ out'[k] = out[k]
           \/ k = Len(out') /\ out'[k] = c
    BY <1>3, LastSent
  <2>7. NotExecuted(c, v) => NotExecuted(c, v)'
    <3>1. Hidden(v)' <=> Hidden(v)
      BY <1>2, <2>3 DEF Hidden, NoPosition, IsPosition, Matches
    <3> QED
      BY <1>1, <2>1, <2>3, <2>6, <3>1 DEF NotExecuted, Creates
  <2>8. NothingMoves /\ Creates(c) => NothingMoves'
    <3>1. ASSUME NothingMoves, Creates(c)
          PROVE  \A k \in DOMAIN out' : Creates(out'[k])
      BY <2>6, <3>1 DEF NothingMoves
    <3> QED
      BY <1>1, <1>2, <3>1 DEF NothingMoves, Matches, Creates
  <2> QED
    BY <1>1, <1>2, <2>1, <2>2, <2>3, <2>4, <2>5, <2>7, <2>8
       DEF Running, StageRuns, Waits, stage, c, v
<1> QED
  BY <1>4, <1>5 DEF MutationRuns

(* The last stage is verified or settled.                                  *)
LEMMA DoneRuns ==
    ASSUME CallInv, MutationRuns, MutationEnds, Goes("done"), Working,
           Len(call.stages) = 1, UNCHANGED <<dev, stored, out, lane, snap, up>>,
           Tracked /\ Working /\ Running => StageIsDone(call.stages[1])
    PROVE  MutationRuns' /\ MutationEnds'
<1> USE DEF CallInv
<1>1. ~Working' /\ call'.at = "done"
  BY DEF Goes, Working
<1>2. ASSUME Tracked'
      PROVE  /\ \A k \in DOMAIN out' : Creates(out'[k])
             /\ \A r \in call'.records : Faithful(r)'
  <2>1. Tracked /\ Running
    BY <1>2 DEF Tracked, Goes, MutationRuns
  <2>2. StageIsDone(call.stages[1])
    BY <2>1
  <2>3. \A r \in call.records : Faithful(r)
    BY <2>1, <2>2, LastStageIsDone
  <2> QED
    BY <2>2, <2>3 DEF StageIsDone, Goes, Faithful
<1> QED
  BY <1>1, <1>2 DEF MutationRuns, MutationEnds, Creates, Faithful

(* What only an edit or a recall does.                                     *)
LEMMA ElseRuns ==
    ASSUME CallInv, MutationRuns, NEW at \in CallStates, Goes(at),
           Working, call.at = "push" => call.kind = "recall",
           call.at \notin {"planned", "armed"}
    PROVE  MutationRuns' /\ MutationEnds'
<1>1. ~Tracked
  BY DEF MutationRuns, Running, Tracked
<1>2. ~Tracked'
  BY <1>1 DEF Tracked, Goes
<1> QED
  BY <1>2, Untracked

-----------------------------------------------------------------------------
(***************************************************************************)
(* The inductive step                                                      *)
(***************************************************************************)
LEMMA MutationStep == MutationInv /\ [GatewayNext]_gatewayVars => MutationInv'
<1> SUFFICES ASSUME CallInv, MutationRuns, MutationEnds, [GatewayNext]_gatewayVars
             PROVE  MutationRuns' /\ MutationEnds'
  BY CallStep DEF MutationInv
<1>0. call \in CallType /\ GatewayTypeOK /\ StagesLeft
  BY DEF CallInv, GatewayTypeOK
<1>1. CASE BeginsCall
  BY <1>0, <1>1, BeginsPlan, BeginRuns, Zenon
<1>2. CASE TouchEdit \/ \E p \in Slots : TouchRecall(p)
  <2>1. ~Tracked'
    BY <1>0, <1>2, TouchesAct DEF Tracked
  <2> QED
    BY <2>1, Untracked
<1>3. CASE ExecuteRecall
  BY <1>3, RecallRuns
<1>4. CASE ExecuteSave
  BY <1>4, SaveRuns
<1>5. CASE ExecuteEdit \/ ExecuteReadPreset \/ ExecuteReadPosition
  BY <1>5, OthersRun
<1>6. CASE ExecuteCreate \/ LoseCommand
  BY <1>6, TakenRuns
<1>7. CASE Decode
  BY <1>7, DecodeRuns
<1>8. CASE Reopen
  <2>1. ~up /\ UNCHANGED <<stored, out, call>>
    BY <1>8 DEF Reopen, deviceVars
  <2>2. ~(Tracked /\ Working)
    BY <2>1 DEF MutationRuns, Running
  <2>3. MutationRuns'
    BY <2>1, <2>2 DEF MutationRuns, Tracked, Working
  <2>4. MutationEnds'
    BY <2>1 DEF MutationEnds, Tracked, Faithful, Creates
  <2> QED
    BY <2>3, <2>4
<1>9. CASE List \/ UNCHANGED gatewayVars
  <2>1. UNCHANGED <<dev, stored, out, lane, snap, up, call>>
    BY <1>9 DEF List, gatewayVars, deviceVars
  <2>2. MutationEnds' /\ (Tracked' <=> Tracked) /\ (Working' <=> Working)
    BY <2>1 DEF MutationEnds, Tracked, Working, Faithful
  <2>3. Running => StagesFit(call.stages)' /\ RecordsFit(call.stages, call.records)'
    BY <2>1, RunningKept DEF Running
  <2>4. StageRuns(call.stages[1])' <=> StageRuns(call.stages[1])
    BY <2>1 DEF StageRuns, NothingMoves, NotExecuted, Executed, Hidden, NoPosition, Faithful
  <2> QED
    BY <2>1, <2>2, <2>3, <2>4 DEF MutationRuns, Running
<1>10. CASE Arm
  BY <1>10, ArmRuns
<1>11. CASE Send
  BY <1>11, SendRuns
<1>12. CASE Fail
  <2>1. /\ Goes("failed") /\ call'.told = call.told
        /\ Working /\ call.at # "done"
    BY <1>0, <1>12, AdvanceGoes DEF Fail, At, CallStates, Working
  <2> QED
    BY <2>1 DEF MutationRuns, MutationEnds, Tracked, Working, Goes
<1>13. CASE Ask
  <2>1. Goes("asking")
    BY <1>0, <1>13, AdvanceGoes DEF Ask, CallStates
  <2> QED
    BY <1>13, <2>1, ElseRuns DEF Ask, At, Working, CallStates
<1>14. CASE Answered \/ ResetSession \/ Ready \/ NotReady \/ Replay \/ NotRecovered
  <2>1. PICK at \in CallStates : Advance(at)
    BY <1>14 DEF Answered, ResetSession, Ready, NotReady, Replay, NotRecovered, CallStates
  <2>2. Goes(at)
    BY <1>0, <2>1, AdvanceGoes
  <2>3. /\ Working /\ call.at \notin {"planned", "armed"}
        /\ call.at = "push" => call.kind = "recall"
    BY <1>14 DEF Answered, ResetSession, Ready, NotReady, Replay, NotRecovered, At, Working
  <2> QED
    BY <2>2, <2>3, ElseRuns
<1>15. CASE Recovered
  <2>1. Goes("done")
    BY <1>0, <1>15, AdvanceGoes DEF Recovered, CallStates
  <2> QED
    BY <1>15, <2>1, ElseRuns DEF Recovered, At, Working, CallStates
<1>16. CASE Finish \/ Continue \/ Settle
  <2>1. Working /\ call.at \in {"push", "confirm"} /\ call.stages # <<>>
    BY <1>0, <1>16 DEF Finish, Continue, Settle, Confirmed, Seen, At, Working, StagesLeft
  <2>2. UNCHANGED <<dev, stored, out, lane, snap, up>>
    BY <1>16 DEF Finish, Continue, Settle, deviceVars
  <2>3. Matches(Wanted, snap) \/ Wanted = Unverified
    BY <1>16 DEF Finish, Continue, Settle, Confirmed
  <2>4. Tracked /\ Working /\ Running => StageIsDone(call.stages[1])
    <3>1. Running => call.at = "push"
      BY <2>1 DEF Running
    <3> QED
      BY <1>0, <2>1, <2>3, <3>1, VerifiedIsDone
  <2>5. Finish => Len(call.stages) = 1
    BY Zenon DEF Finish
  <2> DEFINE n == Len(call.stages)
  <2>6. n \in Nat /\ n # 0
    BY <1>0, <2>1 DEF CallType
  <2>7. CASE Len(call.stages) > 1
    <3>1. ~Finish
      <4> HIDE DEF n
      <4>1. n > 1 => n # 1
        BY <2>6
      <4> QED
        BY <2>5, <2>7, <4>1 DEF n
    <3>2. call' = NextStage
      BY <1>16, <2>7, <3>1, Zenon DEF Continue, Settle
    <3> QED
      BY <2>1, <2>2, <2>4, <2>7, <3>2, NextStageRuns
  <2>8. CASE ~(Len(call.stages) > 1)
    <3>1. Len(call.stages) = 1
      <4> HIDE DEF n
      <4>1. ~(n > 1) => n = 1
        BY <2>6
      <4> QED
        BY <2>8, <4>1 DEF n
    <3>2. call' = [call EXCEPT !.at = "done", !.told = TRUE]
      BY <1>16, <2>8 DEF Finish, Continue, Settle
    <3>3. Goes("done")
      BY <1>0, <3>2, AdvanceGoes DEF CallStates
    <3> QED
      BY <2>1, <2>2, <2>4, <3>1, <3>3, DoneRuns
  <2> QED
    BY <2>7, <2>8
<1>17. CASE Return
  <2>1. ~Tracked'
    BY <1>17 DEF Return, NoCall, Tracked
  <2> QED
    BY <2>1, Untracked
<1> QED
  BY <1>1, <1>2, <1>3, <1>4, <1>5, <1>6, <1>7, <1>8, <1>9, <1>10, <1>11, <1>12, <1>13,
     <1>14, <1>15, <1>16, <1>17, Zenon DEF GatewayNext, BeginsCall

LEMMA MutationInit == GatewayInit => MutationInv
<1> SUFFICES ASSUME GatewayInit
             PROVE  MutationInv
  OBVIOUS
<1>1. call = NoCall
  BY DEF GatewayInit
<1>2. ~Tracked
  BY <1>1 DEF NoCall, Tracked
<1> QED
  BY <1>2, CallInit DEF MutationInv, MutationRuns, MutationEnds

LEMMA MutationInvariant == Spec => []MutationInv
  BY MutationInit, MutationStep, PTL DEF Spec

(* A save, a copy or a duplication that reports success has stored at each *)
(* of its slots what its plan named, unless the device was touched, some-  *)
(* thing was under way, or a stage matched before it began.                *)
THEOREM MutationsStoreTheirPlan == Spec => []MutationsAreFaithful
<1>1. MutationInv => MutationsAreFaithful
  BY DEF MutationInv, MutationEnds, Tracked, Faithful, MutationsAreFaithful
<1> QED
  BY MutationInvariant, <1>1, PTL
-----------------------------------------------------------------------------
(***************************************************************************)
(* Edits and recalls                                                       *)
(***************************************************************************)
(* A part of a message, a device and a snapshot.                           *)
LEMMA PartFacts ==
    /\ Part \in Parts /\ Part \in {"pos", "content"}
    /\ ResetItem[Part] = Empty /\ NoSnapshot[Part] = Empty
  BY DEF Part, Parts, ResetItem, NoSnapshot

(* Nobody interfered with the call if nobody has after the step.           *)
LEMMA SingleKept ==
    ASSUME SameCall(call'), Single', Working'
    PROVE  /\ Single /\ Working /\ call'.stages = call.stages /\ call'.kind = call.kind
           /\ call'.stale = call.stale /\ Part' = Part /\ ReadOp' = ReadOp
  BY DEF SameCall, Single, Working, Part, ReadOp

(* What the device tells of another state than the one that is waited for. *)
LEMMA UnseenTold ==
    ASSUME GatewayTypeOK, NEW v, Unseen(v), snap' = snap,
           call'.kind = call.kind, call'.stale = call.stale, call'.moved = call.moved,
           NEW ms \in Seq(Message), lane' = lane \/ lane' = lane \o ms,
           \A k \in DOMAIN ms : ms[k][Part] # v[Part],
           call.kind = "recall" => ms = <<>> \/ IsPosition(ms[1])
    PROVE  Unseen(v)'
<1>1. Part' = Part /\ lane \in Seq(LaneType) /\ ms \in Seq(LaneType)
  BY DEF Part, GatewayTypeOK, LaneType
<1>2. CASE lane' = lane
  BY <1>1, <1>2 DEF Unseen, IsPosition, ResetItem
<1>3. CASE lane' = lane \o ms
  <2>1. \A k \in DOMAIN (lane \o ms) :
           \/ k \in DOMAIN lane /\ (lane \o ms)[k] = lane[k]
           \/ k - Len(lane) \in DOMAIN ms /\ (lane \o ms)[k] = ms[k - Len(lane)]
    BY <1>1
  <2>2. \A k \in DOMAIN lane' : lane'[k][Part] # v[Part]
    BY <1>3, <2>1 DEF Unseen
  <2>3. /\ lane = <<>> => lane' = ms
        /\ lane # <<>> => lane'[1] = lane[1]
    BY <1>1, <1>3
  <2>4. ASSUME snap[Part] = v[Part], ~call.stale
        PROVE  lane' = <<>> \/ IsPosition(lane'[1]) \/ lane'[1] = ResetItem
    BY <2>3, <2>4 DEF Unseen
  <2>5. snap'[Part] = v[Part] =>
          /\ call'.kind = "recall" /\ ~call'.moved
          /\ ~call'.stale => /\ v.clean /\ snap'.dirty
                             /\ lane' = <<>> \/ IsPosition(lane'[1]) \/ lane'[1] = ResetItem
    BY <2>4 DEF Unseen
  <2>6. v[Part] # Empty
    BY DEF Unseen
  <2> QED
    BY <1>1, <2>2, <2>5, <2>6 DEF Unseen, IsPosition, ResetItem
<1> QED
  BY <1>2, <1>3

(* A message changes a part of the snapshot to its own, or not at all.     *)
LEMMA AppliedShows ==
    ASSUME NEW s \in SnapshotType, NEW m \in Message, NEW part \in Parts
    PROVE  /\ Applied(s, m)[part] \in {s[part], m[part]}
           /\ IsPosition(m) => Applied(s, m).pos = m.pos
<1> USE DEF SnapshotType, Parts, IsPosition
<1>1. m.kind \in {"position", "preset", "dirty", "edit"}
  BY DEF Message
<1>2. CASE m.kind = "position"
  BY <1>2 DEF Applied
<1>3. CASE m.kind = "preset"
  BY <1>3 DEF Applied
<1>4. CASE m.kind = "dirty"
  BY <1>4 DEF Applied
<1>5. CASE m.kind = "edit"
  BY <1>5 DEF Applied
<1> QED
  BY <1>1, <1>2, <1>3, <1>4, <1>5

(* What is decoded does not show it, and a position or a reset makes the   *)
(* snapshot show something else.                                           *)
LEMMA UnseenDecoded ==
    ASSUME GatewayTypeOK, NEW v, Unseen(v), Decode, call.kind # "none"
    PROVE  Unseen(v)'
<1>1. /\ call'.kind = call.kind /\ call'.stale = call.stale
      /\ Head(lane).kind # "position" => call'.moved = call.moved
  BY DecodeTyped DEF SameCall
<1>2. Part' = Part /\ lane' = Tail(lane) /\ lane # <<>> /\ lane \in Seq(LaneType)
  BY <1>1 DEF Part, Decode, GatewayTypeOK
<1>3. /\ 1 \in DOMAIN lane /\ Head(lane) = lane[1] /\ Head(lane) \in LaneType
      /\ \A k \in DOMAIN Tail(lane) : k + 1 \in DOMAIN lane /\ Tail(lane)[k] = lane[k + 1]
  BY <1>2
<1>4. /\ v[Part] # Empty /\ lane[1][Part] # v[Part]
      /\ \A k \in DOMAIN lane' : lane'[k][Part] # v[Part]
  BY <1>2, <1>3 DEF Unseen
<1>5. CASE Head(lane).kind = "reset"
  <2>1. snap'[Part] # v[Part]
    BY <1>4, <1>5, PartFacts DEF Decode
  <2> QED
    BY <1>2, <1>4, <2>1 DEF Unseen
<1>6. CASE Head(lane).kind # "reset"
  <2>1. Head(lane) \in Message /\ snap \in SnapshotType
    BY <1>3, <1>6 DEF LaneType, ResetItem, GatewayTypeOK
  <2>2. snap' = Applied(snap, Head(lane))
    BY <1>6 DEF Decode
  <2>3. /\ snap'[Part] \in {snap[Part], lane[1][Part]}
        /\ IsPosition(lane[1]) => snap'.pos = lane[1].pos
    BY <1>3, <2>1, <2>2, AppliedShows, PartFacts
  <2>4. CASE snap'[Part] # v[Part]
    BY <1>2, <1>4, <2>4 DEF Unseen
  <2>5. CASE snap'[Part] = v[Part]
    <3>1. snap[Part] = v[Part]
      BY <1>4, <2>3, <2>5
    <3>2. call.kind = "recall" /\ ~call.moved /\ Part = "pos"
      BY <3>1 DEF Unseen, Part
    <3>3. ~IsPosition(lane[1])
      BY <1>4, <2>3, <2>5, <3>2
    <3>4. lane[1] # ResetItem
      BY <1>3, <1>6 DEF ResetItem
    <3>5. call.stale
      BY <1>2, <3>1, <3>3, <3>4 DEF Unseen
    <3>6. ~call'.moved
      BY <1>1, <1>3, <3>2, <3>3 DEF IsPosition
    <3> QED
      BY <1>1, <1>2, <1>4, <3>2, <3>5, <3>6 DEF Unseen
  <2> QED
    BY <2>4, <2>5
<1> QED
  BY <1>5, <1>6

(* The call goes on, and perhaps resets the session.                       *)
LEMMA UnseenGoes ==
    ASSUME GatewayTypeOK, NEW v, Unseen(v), snap' = snap,
           call'.kind = call.kind, call'.stale = call.stale, call'.moved = call.moved,
           lane' = lane \/ lane' = Append(lane, ResetItem)
    PROVE  Unseen(v)'
<1>1. Part' = Part /\ lane \in Seq(LaneType) /\ ResetItem \in LaneType
  BY DEF Part, GatewayTypeOK, LaneType
<1>2. CASE lane' = lane
  BY <1>1, <1>2 DEF Unseen, IsPosition, ResetItem
<1>3. CASE lane' = Append(lane, ResetItem)
  <2>0. v[Part] # Empty /\ ResetItem[Part] # v[Part]
    BY PartFacts DEF Unseen
  <2> DEFINE item == ResetItem
  <2>1. item \in LaneType /\ lane' = Append(lane, item) /\ item[Part] # v[Part]
    BY <1>1, <1>3, <2>0
  <2>2. item' = item
    BY DEF ResetItem
  <2> HIDE DEF item
  <2>3. \A k \in DOMAIN lane' : \/ k \in DOMAIN lane /\ lane'[k] = lane[k]
                                \/ lane'[k] = item
    BY <1>1, <2>1
  <2>4. \A k \in DOMAIN lane' : lane'[k][Part] # v[Part]
    BY <2>1, <2>3 DEF Unseen
  <2>5. /\ lane = <<>> => lane'[1] = item
        /\ lane # <<>> => lane'[1] = lane[1]
    BY <1>1, <2>1
  <2>6. ASSUME snap[Part] = v[Part], ~call.stale
        PROVE  IsPosition(lane'[1]) \/ lane'[1] = item
    BY <2>5, <2>6 DEF Unseen, item
  <2>7. snap'[Part] = v[Part] =>
          /\ call'.kind = "recall" /\ ~call'.moved
          /\ ~call'.stale => /\ v.clean /\ snap'.dirty
                             /\ IsPosition(lane'[1]) \/ lane'[1] = item
    BY <2>6 DEF Unseen
  <2> QED
    BY <1>1, <2>0, <2>2, <2>4, <2>7 DEF Unseen, IsPosition, item
<1> QED
  BY <1>2, <1>3

(* The stage of an edit or a recall that runs.                             *)
LEMMA SingleStage ==
    ASSUME CallInv, Single, Working, SingleHolds
    PROVE  /\ Holds(call.stages[1])
           /\ Wanted = call.stages[1].verification
           /\ Head(call.stages) = call.stages[1]
           /\ call.stages[1].command.op = call.kind
           /\ call.stages[1].command[Part] = call.stages[1].verification[Part]
<1>1. Holds(call.stages[1])
  BY DEF SingleHolds
<1>2. Wanted = call.stages[1].verification /\ Head(call.stages) = call.stages[1]
  BY CurrentStage DEF CallInv
<1> QED
  BY <1>1, <1>2 DEF Holds, SingleFits, Single, Part

LEMMA TailOfOut ==
    ASSUME out \in Seq(CommandType), out # <<>>
    PROVE  /\ Head(out) = out[1] /\ 1 \in DOMAIN out
           /\ \A k \in DOMAIN Tail(out) : k + 1 \in DOMAIN out /\ Tail(out)[k] = out[k + 1]
  OBVIOUS

(* The device executes the stage, or answers a read.                       *)
LEMMA SingleExecuted ==
    ASSUME CallInv, SingleHolds, NEW d, NEW ms, Acts(d, ms),
           out # <<>>, out' = Tail(out),
           Single /\ Working => Head(out).op \in {call.kind, ReadOp},
           Head(out).op \in {"edit", "recall"} /\ Head(out).op = call.kind
              => d[Part] = Head(out)[Part],
           Head(out).op = ReadOp =>
              dev' = dev /\ (call.kind = "recall" => ms = <<>> \/ IsPosition(ms[1]))
    PROVE  SingleHolds'
<1> USE DEF CallInv
<1>0. /\ SameCall(call') /\ call'.moved = call.moved /\ snap' = snap /\ dev' = d
      /\ d \in DeviceType /\ ms \in Seq(Message) /\ (lane' = lane \/ lane' = lane \o ms)
      /\ \A k \in DOMAIN ms : \A part \in Parts : ms[k][part] \in {Empty, d[part]}
      /\ out \in Seq(CommandType)
  BY DEF Acts, GatewayTypeOK
<1> SUFFICES ASSUME Single', Working'
             PROVE  Holds(call.stages[1])'
  BY DEF SingleHolds
<1>1. /\ Single /\ Working /\ call'.stages = call.stages /\ call'.kind = call.kind
      /\ call'.stale = call.stale /\ Part' = Part /\ ReadOp' = ReadOp
  BY <1>0, SingleKept
<1> DEFINE s == call.stages[1]
           c == s.command
           v == s.verification
<1>2. Holds(s) /\ c.op = call.kind /\ c[Part] = v[Part] /\ s' = s
  BY <1>1, SingleStage
<1>3. v[Part] \in {Empty, dev'[Part]} \/ Unseen(v)'
  <2>1. CASE Head(out).op = call.kind
    <3>1. /\ Head(out) = out[1] /\ 1 \in DOMAIN out
          /\ call.kind \in {"edit", "recall"}
      BY <1>0, <1>1, TailOfOut DEF Single
    <3>2. Head(out) = c
      BY <1>2, <2>1, <3>1 DEF Holds, ReadOp
    <3>3. d[Part] = v[Part]
      BY <1>2, <2>1, <3>1, <3>2
    <3> QED
      BY <1>0, <3>3
  <2>2. CASE Head(out).op = ReadOp
    <3>1. dev' = dev /\ (call.kind = "recall" => ms = <<>> \/ IsPosition(ms[1]))
      BY <2>2
    <3> HIDE DEF s, c, v
    <3>2. CASE v[Part] \in {Empty, dev[Part]}
      BY <3>1, <3>2
    <3>3. CASE v[Part] \notin {Empty, dev[Part]}
      <4>1. Unseen(v)
        BY <1>2, <3>3 DEF Holds, v
      <4>2. PICK w : w = v
        OBVIOUS
      <4>3. Unseen(w) /\ w[Part] \notin {Empty, dev[Part]}
        BY <3>3, <4>1, <4>2
      <4>4. \A k \in DOMAIN ms : ms[k][Part] # w[Part]
        BY <1>0, <3>1, <4>3, PartFacts
      <4>5. Unseen(w)'
        BY <1>0, <1>1, <3>1, <4>3, <4>4, UnseenTold
      <4>6. v' = w
        BY <1>2, <4>2 DEF v, s
      <4> QED
        BY <4>5, <4>6 DEF Unseen
    <3> QED
      BY <3>2, <3>3
  <2> QED
    BY <1>1, <2>1, <2>2
<1>4. \A k \in DOMAIN out' : out'[k] = c \/ out'[k].op = ReadOp
  BY <1>0, <1>2, TailOfOut DEF Holds
<1>5. SingleFits(call.kind, s)' /\ Len(call'.stages) = 1
  BY <1>1, <1>2 DEF Holds, SingleFits
<1>6. c' = c /\ v' = v
  BY <1>2
<1> HIDE DEF s, c, v
<1> QED
  BY <1>1, <1>3, <1>4, <1>5, <1>6 DEF Holds, s, c, v

(* What is on its way, when an edit or a recall runs.                      *)
LEMMA HeadOfSingle ==
    ASSUME CallInv, Single, Working, SingleHolds, out # <<>>
    PROVE  Head(out).op \in {call.kind, ReadOp}
<1>1. out \in Seq(CommandType)
  BY DEF CallInv, GatewayTypeOK
<1> QED
  BY <1>1, SingleStage, TailOfOut DEF Holds

LEMMA SingleExecutes ==
    ASSUME CallInv, SingleHolds,
           \/ ExecuteRecall \/ ExecuteSave
           \/ ExecuteEdit \/ ExecuteReadPreset \/ ExecuteReadPosition
    PROVE  SingleHolds'
<1> USE DEF CallInv
<1>0. ReadOp \in {"readPreset", "readPosition"} /\ (call.kind = "recall" => ReadOp = "readPosition")
  BY DEF ReadOp
<1>1. CASE ExecuteRecall
  <2> DEFINE h == Head(out)
             d == Recalled(h.pos)
  <2>1. /\ \E ms : Acts(d, ms)
        /\ out # <<>> /\ out' = Tail(out) /\ h.op = "recall" /\ h.pos \in Places
    BY <1>1, RecallActs
  <2>2. d.pos = h.pos
    BY <2>1, RecalledTyped
  <2>3. call.kind = "recall" => Part = "pos"
    BY DEF Part
  <2> HIDE DEF d
  <2> QED
    BY <1>0, <2>1, <2>2, <2>3, HeadOfSingle, SingleExecuted
<1>2. CASE ExecuteSave
  <2>1. /\ \E d, ms : Acts(d, ms)
        /\ out # <<>> /\ Head(out).op = "save"
    BY <1>2, SaveActs
  <2>2. ~(Single /\ Working)
    BY <1>0, <2>1, HeadOfSingle DEF Single
  <2>3. ~(Single' /\ Working')
    BY <2>1, <2>2, SingleKept DEF Acts
  <2> QED
    BY <2>3 DEF SingleHolds
<1>3. CASE ExecuteEdit \/ ExecuteReadPreset \/ ExecuteReadPosition
  <2> DEFINE h == Head(out)
  <2>1. /\ \E d, ms : Acts(d, ms)
        /\ out # <<>> /\ out' = Tail(out) /\ h.op \in {"edit", "readPreset", "readPosition"}
        /\ dev' = IF h.op = "edit" THEN [dev EXCEPT !.content = h.content, !.edited = TRUE] ELSE dev
        /\ h.op = "readPosition" => \E d, ms : Acts(d, ms) /\ \A k \in DOMAIN ms : IsPosition(ms[k])
    BY <1>3, OthersAct
  <2>2. h.op = "edit" => dev'.content = h.content
    BY <2>1 DEF GatewayTypeOK, DeviceType
  <2>3. PICK d, ms : /\ Acts(d, ms)
                     /\ h.op = "readPosition" => \A k \in DOMAIN ms : IsPosition(ms[k])
    BY <2>1
  <2>4. dev' = d /\ ms \in Seq(Message)
    BY <2>3 DEF Acts
  <2>5. h.op = "readPosition" => ms = <<>> \/ IsPosition(ms[1])
    <3>1. ms # <<>> => 1 \in DOMAIN ms
      BY <2>4
    <3> QED
      BY <2>3, <3>1
  <2>6. call.kind = "edit" => Part = "content"
    BY DEF Part
  <2> HIDE DEF h
  <2>7. Single /\ Working => h.op \in {call.kind, ReadOp}
    BY <2>1, HeadOfSingle DEF h
  <2>8. h.op \in {"edit", "recall"} /\ h.op = call.kind => d[Part] = h[Part]
    <3>1. h.op # "recall"
      BY <2>1
    <3>2. h.op = "edit" => d.content = h.content
      BY <2>2, <2>4
    <3> QED
      BY <2>6, <3>1, <3>2
  <2>9. h.op = ReadOp => dev' = dev /\ (call.kind = "recall" => ms = <<>> \/ IsPosition(ms[1]))
    BY <1>0, <2>1, <2>5
  <2> QED
    BY <2>1, <2>3, <2>7, <2>8, <2>9, SingleExecuted DEF h
<1> QED
  BY <1>1, <1>2, <1>3

LEMMA SingleTaken ==
    ASSUME CallInv, SingleHolds, ExecuteCreate \/ LoseCommand \/ List \/ UNCHANGED gatewayVars
    PROVE  SingleHolds'
<1> USE DEF CallInv
<1>0. /\ UNCHANGED <<dev, lane, snap, call>>
      /\ out' = out \/ (out # <<>> /\ out' = Tail(out))
  BY Zenon DEF ExecuteCreate, Executing, LoseCommand, List, gatewayVars, deviceVars
<1>1. \A k \in DOMAIN out' : \E j \in DOMAIN out : out'[k] = out[j]
  BY <1>0, TailOfOut DEF GatewayTypeOK
<1>2. (Single' <=> Single) /\ (Working' <=> Working) /\ Part' = Part /\ ReadOp' = ReadOp
  BY <1>0 DEF Single, Working, Part, ReadOp
<1> SUFFICES ASSUME Single, Working
             PROVE  Holds(call.stages[1])'
  BY <1>2 DEF SingleHolds
<1> DEFINE s == call.stages[1]
<1>3. Holds(s) /\ s' = s
  BY <1>0, SingleStage
<1> HIDE DEF s
<1>4. \A k \in DOMAIN out' : out'[k] = s.command \/ out'[k].op = ReadOp
  BY <1>1, <1>3 DEF Holds
<1>5. Unseen(s.verification) => Unseen(s.verification)'
  BY <1>0, <1>2, <1>3 DEF Unseen, IsPosition, ResetItem
<1> QED
  BY <1>0, <1>2, <1>3, <1>4, <1>5 DEF Holds, SingleFits, s

LEMMA SingleDecoded ==
    ASSUME CallInv, SingleHolds, Decode
    PROVE  SingleHolds'
<1> USE DEF CallInv
<1>0. SameCall(call') /\ dev' = dev /\ out' = out
  BY DecodeTyped DEF Decode, deviceVars
<1> SUFFICES ASSUME Single', Working'
             PROVE  Holds(call.stages[1])'
  BY DEF SingleHolds
<1>1. /\ Single /\ Working /\ call'.stages = call.stages /\ call'.kind = call.kind
      /\ Part' = Part /\ ReadOp' = ReadOp
  BY <1>0, SingleKept
<1> DEFINE s == call.stages[1]
<1>2. Holds(s) /\ s' = s
  BY <1>1, SingleStage
<1> HIDE DEF s
<1>3. Unseen(s.verification) => Unseen(s.verification)'
  <2>1. PICK v : v = s.verification
    OBVIOUS
  <2>2. Unseen(v) => Unseen(v)'
    BY <1>1, UnseenDecoded DEF Single
  <2> QED
    BY <1>2, <2>1, <2>2 DEF Unseen
<1> QED
  BY <1>0, <1>1, <1>2, <1>3 DEF Holds, SingleFits, s

LEMMA SingleReopened ==
    ASSUME CallInv, SingleHolds, Reopen
    PROVE  SingleHolds'
<1> USE DEF CallInv
<1>0. UNCHANGED <<dev, out, snap, call>>
  BY DEF Reopen, deviceVars
<1>1. (Single' <=> Single) /\ (Working' <=> Working) /\ Part' = Part /\ ReadOp' = ReadOp
  BY <1>0 DEF Single, Working, Part, ReadOp
<1> SUFFICES ASSUME Single, Working
             PROVE  Holds(call.stages[1])'
  BY <1>1 DEF SingleHolds
<1>2. PICK ms \in Seq(Message) :
         /\ lane' = lane \o ms
         /\ \A k \in DOMAIN ms : \A part \in Parts : ms[k][part] \in {Empty, dev[part]}
         /\ ms # <<>> /\ IsPosition(ms[1])
  BY ReopenFacts
<1> DEFINE s == call.stages[1]
<1>3. Holds(s) /\ s' = s
  BY <1>0, SingleStage
<1> HIDE DEF s
<1>4. CASE s.verification[Part] \in {Empty, dev[Part]}
  BY <1>0, <1>1, <1>3, <1>4 DEF Holds, SingleFits, s
<1>5. CASE s.verification[Part] \notin {Empty, dev[Part]}
  <2>1. PICK v : v = s.verification
    OBVIOUS
  <2>2. Unseen(v) /\ \A k \in DOMAIN ms : ms[k][Part] # v[Part]
    BY <1>2, <1>3, <1>5, <2>1, PartFacts DEF Holds
  <2>3. Unseen(v)'
    BY <1>0, <1>2, <2>2, UnseenTold
  <2>4. Unseen(s.verification)'
    BY <1>3, <2>1, <2>3 DEF Unseen
  <2> QED
    BY <1>0, <1>1, <1>3, <2>4 DEF Holds, SingleFits, s
<1> QED
  BY <1>4, <1>5

(* It begins where nothing is on its way, and nothing is mistaken for it.  *)
LEMMA SingleBegins ==
    ASSUME NEW kind \in {"edit", "recall", "mutation"}, NEW plan, Plans(kind, plan), Begin(plan)
    PROVE  SingleHolds'
<1>1. PICK stages \in Seq(StageType), records \in SUBSET RecordType :
         /\ stages # <<>> /\ plan = Plan(kind, stages, records)
         /\ kind # "mutation" => Len(stages) = 1 /\ SingleFits(kind, stages[1])
  BY Zenon DEF Plans
<1>2. /\ call'.kind = kind /\ call'.stages = stages /\ ~call'.moved
      /\ call' = Plan(kind, stages, records)
  BY <1>1, PlanFields DEF Begin
<1>3. UNCHANGED <<dev, out, lane, snap>>
  BY DEF Begin, deviceVars
<1> SUFFICES ASSUME Single'
             PROVE  Holds(call.stages[1])'
  BY DEF SingleHolds
<1>4. kind \in {"edit", "recall"} /\ call'.quiet /\ (kind = "edit" => ~call'.stale)
  BY <1>2 DEF Single
<1>5. out = <<>> /\ lane = <<>>
  BY <1>2, <1>4, PlanQuiet
<1> DEFINE s == stages[1]
           part == IF kind = "edit" THEN "content" ELSE "pos"
<1>6. /\ Len(stages) = 1 /\ SingleFits(kind, s) /\ 1 \in DOMAIN stages
      /\ call'.stages[1] = s /\ Part' = part
  BY <1>1, <1>2, <1>4 DEF Part
<1>7. ASSUME s.verification[part] # Empty, ~call'.stale
      PROVE  /\ snap[part] = s.verification[part] =>
                  kind = "recall" /\ s.verification.clean /\ snap.dirty
  <2>1. s.verification # Unverified
    BY <1>7 DEF Unverified, Shows
  <2>2. ~Matches(s.verification, snap)
    BY <1>2, <1>6, <1>7, <2>1, PlanStale
  <2> QED
    BY <1>4, <1>6, <1>7, <2>2 DEF Matches, SingleFits
<1> HIDE DEF s, part
<1>8. s.verification[part] = Empty \/ Unseen(s.verification)'
  <2>1. PICK v : v = s.verification
    OBVIOUS
  <2>2. ASSUME v[part] # Empty
        PROVE  Unseen(v)'
    <3>1. lane' = <<>> /\ DOMAIN lane' = {} /\ snap' = snap
      BY <1>3, <1>5
    <3>2. snap[part] = v[part] =>
             kind = "recall" /\ (~call'.stale => v.clean /\ snap.dirty)
      BY <1>4, <1>7, <2>1, <2>2
    <3> QED
      BY <1>2, <1>6, <2>2, <3>1, <3>2 DEF Unseen
  <2>3. s' = s
    BY DEF s
  <2> QED
    BY <2>1, <2>2, <2>3 DEF Unseen
<1>9. out' = <<>> /\ DOMAIN out' = {}
  BY <1>3, <1>5
<1>10. s' = s
  BY DEF s
<1> QED
  BY <1>2, <1>6, <1>8, <1>9, <1>10 DEF Holds, SingleFits

(* The call goes on: it sends its command or a read, or resets the session *)
(* or waits.                                                               *)
LEMMA SingleGoes ==
    ASSUME CallInv, SingleHolds, NEW at \in CallStates, Goes(at), dev' = dev, snap' = snap, Working,
           lane' = lane \/ lane' = Append(lane, ResetItem),
           \A k \in DOMAIN out' : \/ k \in DOMAIN out /\ out'[k] = out[k]
                                  \/ out'[k] = Head(call.stages).command
                                  \/ out'[k].op = ReadOp
    PROVE  SingleHolds'
<1> USE DEF CallInv
<1> SUFFICES ASSUME Single', Working'
             PROVE  Holds(call.stages[1])'
  BY DEF SingleHolds
<1>1. /\ Single /\ call'.stages = call.stages /\ call'.kind = call.kind
      /\ call'.stale = call.stale /\ call'.moved = call.moved
      /\ Part' = Part /\ ReadOp' = ReadOp
  BY DEF Goes, Single, Part, ReadOp
<1> DEFINE s == call.stages[1]
<1>2. Holds(s) /\ s' = s /\ Head(call.stages) = s
  BY <1>1, SingleStage
<1> HIDE DEF s
<1>3. Unseen(s.verification) => Unseen(s.verification)'
  <2>1. PICK v : v = s.verification
    OBVIOUS
  <2>2. Unseen(v) => Unseen(v)'
    BY <1>1, UnseenGoes
  <2> QED
    BY <1>2, <2>1, <2>2 DEF Unseen
<1>4. \A k \in DOMAIN out' : out'[k] = s.command \/ out'[k].op = ReadOp
  BY <1>2 DEF Holds
<1> QED
  BY <1>1, <1>2, <1>3, <1>4 DEF Holds, SingleFits, s

LEMMA LastOfAny ==
    ASSUME NEW q \in Seq(CommandType), NEW x
    PROVE  \A k \in DOMAIN Append(q, x) :
              \/ k \in DOMAIN q /\ Append(q, x)[k] = q[k]
              \/ Append(q, x)[k] = x
  OBVIOUS

LEMMA SingleStep == VerifiedInv /\ [GatewayNext]_gatewayVars => SingleHolds'
<1> SUFFICES ASSUME CallInv, SingleHolds, [GatewayNext]_gatewayVars
             PROVE  SingleHolds'
  BY DEF VerifiedInv, MutationInv
<1>0. call \in CallType /\ out \in Seq(CommandType) /\ GatewayTypeOK /\ StagesLeft
  BY DEF CallInv, GatewayTypeOK
<1>1. CASE BeginsCall
  BY <1>0, <1>1, BeginsPlan, SingleBegins, Zenon
<1>2. CASE TouchEdit \/ \E p \in Slots : TouchRecall(p)
  BY <1>0, <1>2, TouchesAct DEF SingleHolds, Single
<1>3. CASE \/ ExecuteRecall \/ ExecuteSave
           \/ ExecuteEdit \/ ExecuteReadPreset \/ ExecuteReadPosition
  BY <1>3, SingleExecutes
<1>4. CASE ExecuteCreate \/ LoseCommand \/ List \/ UNCHANGED gatewayVars
  BY <1>4, SingleTaken
<1>5. CASE Decode
  BY <1>5, SingleDecoded
<1>6. CASE Reopen
  BY <1>6, SingleReopened
<1>7. CASE Send \/ Replay
  <2>1. PICK at \in CallStates : Goes(at)
    BY <1>0, <1>7, AdvanceGoes DEF Send, Replay, CallStates
  <2>2. /\ Working /\ dev' = dev /\ snap' = snap /\ lane' = lane
        /\ out' = Append(out, Head(call.stages).command)
    BY <1>7 DEF Send, Replay, At, Working, deviceVars
  <2> QED
    BY <1>0, <2>1, <2>2, SingleGoes, LastOfAny
<1>8. CASE Ask
  <2>1. Goes("asking")
    BY <1>0, <1>8, AdvanceGoes DEF Ask, CallStates
  <2> DEFINE c == Command(ReadOp, Empty, Empty, Empty, calls)
  <2>2. /\ Working /\ dev' = dev /\ snap' = snap /\ lane' = lane
        /\ out' = Append(out, c) /\ c.op = ReadOp
    BY <1>8 DEF Ask, At, Working, deviceVars, ReadOp, Command
  <2> HIDE DEF c
  <2>3. \A k \in DOMAIN out' :
           \/ k \in DOMAIN out /\ out'[k] = out[k]
           \/ out'[k].op = ReadOp
    BY <1>0, <2>2, LastOfAny
  <2> QED
    BY <2>1, <2>2, <2>3, SingleGoes DEF CallStates
<1>9. CASE Arm \/ Answered \/ Fail \/ Ready \/ NotReady \/ NotRecovered
  <2>1. PICK at \in CallStates : Goes(at)
    BY <1>0, <1>9, AdvanceGoes DEF Arm, Answered, Fail, Ready, NotReady, NotRecovered, CallStates
  <2>2. Working /\ dev' = dev /\ snap' = snap /\ lane' = lane /\ out' = out
    BY <1>9 DEF Arm, Answered, Fail, Ready, NotReady, NotRecovered, At, Working, deviceVars
  <2> QED
    BY <2>1, <2>2, SingleGoes
<1>10. CASE ResetSession
  <2>1. Goes("resetting")
    BY <1>0, <1>10, AdvanceGoes DEF ResetSession, CallStates
  <2>2. /\ Working /\ dev' = dev /\ snap' = snap /\ lane' = Append(lane, ResetItem)
        /\ out' = <<>> /\ DOMAIN out' = {}
    BY <1>10 DEF ResetSession, At, Working, deviceVars
  <2> QED
    BY <2>1, <2>2, SingleGoes DEF CallStates
<1>11. CASE Finish \/ Recovered
  <2>1. Goes("done")
    BY <1>0, <1>11, AdvanceGoes DEF Finish, Recovered, CallStates
  <2> QED
    BY <2>1 DEF SingleHolds, Goes, Working
<1>12. CASE Continue \/ Settle
  <2>1. Working
    BY <1>12 DEF Continue, Settle, Confirmed, Seen, At, Working
  <2>2. CASE Len(call.stages) > 1
    <3>1. call' = NextStage /\ call.stages # <<>>
      BY <1>0, <1>12, <2>1, <2>2 DEF Continue, Settle, StagesLeft
    <3>2. ~Single
      <4>1. Single => Len(call.stages) = 1
        BY <2>1, SingleStage DEF Holds
      <4>2. ~(1 > 1)
        OBVIOUS
      <4> QED
        BY <2>2, <4>1, <4>2, Zenon
    <3>3. ~Single'
      BY <1>0, <3>1, <3>2, NextStageTyped DEF Single
    <3> QED
      BY <3>3 DEF SingleHolds
  <2>3. CASE ~(Len(call.stages) > 1)
    <3>1. Goes("done")
      BY <1>0, <1>12, <2>3, AdvanceGoes DEF Continue, Settle, CallStates
    <3> QED
      BY <3>1 DEF SingleHolds, Goes, Working
  <2> QED
    BY <2>2, <2>3
<1>13. CASE Return
  BY <1>13 DEF Return, NoCall, SingleHolds, Single
<1> QED
  BY <1>1, <1>2, <1>3, <1>4, <1>5, <1>6, <1>7, <1>8, <1>9, <1>10, <1>11, <1>12, <1>13, Zenon
     DEF GatewayNext, BeginsCall

LEMMA VerifiedInvariant == Spec => []VerifiedInv
<1>1. GatewayInit => VerifiedInv
  <2> SUFFICES ASSUME GatewayInit
               PROVE  VerifiedInv
    OBVIOUS
  <2>1. call = NoCall
    BY DEF GatewayInit
  <2>2. ~Single
    BY <2>1 DEF NoCall, Single
  <2> QED
    BY <2>2, MutationInit DEF VerifiedInv, SingleHolds
<1>2. VerifiedInv /\ [GatewayNext]_gatewayVars => VerifiedInv'
  BY MutationStep, SingleStep DEF VerifiedInv
<1> QED
  BY <1>1, <1>2, PTL DEF Spec

(* What a call that began with nothing under way reports verified is what  *)
(* the device holds, whatever was lost, unless somebody touched the device *)
(* or the snapshot showed what a stage waits for before the call began.    *)
THEOREM VerifiedIsTrue == Spec => VerifiedIsOnTheDevice
<1>1. ASSUME VerifiedInv, Finish \/ Continue \/ Recovered, call.quiet,
             ~call.stale \/ (call.kind = "recall" /\ call.at # "recovered")
      PROVE  Wanted.pos \in {Empty, dev.pos} /\ Wanted.content \in {Empty, dev.content}
  <2>0. /\ CallInv /\ GatewayTypeOK /\ StagesLeft /\ MutationRuns /\ SingleHolds
        /\ call \in CallType
    BY <1>1 DEF VerifiedInv, MutationInv, CallInv, GatewayTypeOK
  <2>1. Working /\ Matches(Wanted, snap)
    BY <1>1 DEF Finish, Continue, Recovered, Confirmed, Seen, At, Working
  <2>2. CASE call.kind = "mutation"
    <3>1. Tracked /\ Running
      BY <1>1, <2>0, <2>1, <2>2 DEF Tracked, MutationRuns
    <3>2. call.at = "push"
      BY <1>1, <3>1 DEF Running, Finish, Continue, Recovered, Confirmed, Seen, At
    <3>3. /\ StageIsDone(call.stages[1]) /\ 1 \in DOMAIN call.stages
          /\ Wanted = call.stages[1].verification
      BY <2>0, <2>1, <3>1, <3>2, VerifiedIsDone, CurrentStage
    <3> QED
      BY <3>1, <3>3 DEF StageIsDone, Running, StagesFit
  <2>3. CASE call.kind # "mutation"
    <3>1. Single
      BY <1>1, <2>0, <2>1, <2>3 DEF Single, StagesLeft, CallType
    <3>2. Holds(call.stages[1]) /\ Wanted = call.stages[1].verification
      BY <2>0, <2>1, <3>1, SingleStage
    <3> DEFINE v == Wanted
    <3>3. v[Part] \in {Empty, snap[Part]}
      BY <2>1 DEF Matches, Part
    <3>4. ~Unseen(v)
      <4>1. SUFFICES ASSUME Unseen(v) PROVE FALSE
        OBVIOUS
      <4>2. /\ call.kind = "recall" /\ ~call.moved
            /\ ~call.stale => v.clean /\ snap.dirty
        BY <3>3, <4>1 DEF Unseen
      <4>3. CASE Recovered
        <5>1. ~call.stale
          BY <1>1, <4>3 DEF Recovered, At
        <5> QED
          BY <2>1, <4>2, <5>1 DEF Matches
      <4>4. CASE Finish \/ Continue
        BY <4>2, <4>4 DEF Finish, Continue, Confirmed, RecallConfirmed
      <4> QED
        BY <1>1, <4>3, <4>4
    <3>5. v[Part] \in {Empty, dev[Part]}
      BY <3>2, <3>4 DEF Holds
    <3>6. /\ call.kind = "edit" => v.pos = Empty /\ Part = "content"
          /\ call.kind = "recall" => v.content = Empty /\ Part = "pos"
      BY <3>2 DEF Holds, SingleFits, Part
    <3> QED
      BY <3>1, <3>5, <3>6 DEF Single
  <2> QED
    BY <2>2, <2>3
<1>2. VerifiedInv =>
        [ /\ Finish \/ Continue \/ Recovered
          /\ call.quiet
          /\ ~call.stale \/ (call.kind = "recall" /\ call.at # "recovered")
          => Wanted.pos \in {Empty, dev.pos} /\ Wanted.content \in {Empty, dev.content} ]_gatewayVars
  BY <1>1
<1> QED
  BY VerifiedInvariant, <1>2, PTL DEF VerifiedIsOnTheDevice

=============================================================================
