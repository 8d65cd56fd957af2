------------------------------ MODULE Gateway ------------------------------
(***************************************************************************)
(* The broker's verified writes (services/device-broker/src/rpc.rs) over   *)
(* the plans of qc-device-runtime/src/request.rs and the snapshot of       *)
(* qc-device-runtime/src/lib.rs.                                           *)
(*                                                                         *)
(* The RPC thread plans a call on the snapshot, subscribes to state        *)
(* frames, sends a command and waits for a frame after which the snapshot  *)
(* satisfies the call's verification.  A recall that is not confirmed      *)
(* resets the session and is sent again.  A preset mutation is a sequence  *)
(* of such stages.  Meanwhile the device executes commands, its user       *)
(* touches it, its messages travel to the worker and from there to the     *)
(* state decoder, and commands and echoes get lost.                        *)
(***************************************************************************)
EXTENDS Integers, Sequences, FiniteSets, Functions

CONSTANTS
    Slots,      \* the slots of the user's setlist
    NewSlots,   \* the slots of the setlist a duplication creates
    MaxCalls,   \* calls
    MaxEvents   \* touches, lost commands and omitted echoes

ASSUME PlacesAssumption ==
    /\ Slots \subseteq Nat /\ Slots # {} /\ NewSlots \subseteq Nat
    /\ Slots \cap NewSlots = {}
    /\ 0 \notin Slots \cup NewSlots
    /\ IsFiniteSet(Slots \cup NewSlots)
    /\ MaxCalls \in Nat /\ MaxEvents \in Nat

Places == Slots \cup NewSlots

(* The preset stored at a slot is named and filled like the slot at first; *)
(* Edit is a content only editing makes, Chosen a name a caller gives.     *)
Empty == 0
Edit == 1 + CHOOSE m \in Places : \A p \in Places : p <= m
Chosen == Edit
Names == Places \cup {Empty, Chosen}
Contents == Places \cup {Empty, Edit}

VARIABLES
    dev,        \* the device's active slot, its edit buffer, edited or not
    stored,     \* its slots
    out,        \* commands on their way to it
    lane,       \* its messages on their way to the state decoder
    snap,       \* the gateway snapshot
    up,         \* there is a session
    lib,        \* the names in the preset library
    call,       \* the call the RPC thread executes
    calls,      \* calls so far
    events      \* touches, losses and omissions so far

deviceVars == <<dev, stored>>
gatewayVars == <<deviceVars, out, lane, snap, up, lib, call, calls, events>>

-----------------------------------------------------------------------------
(***************************************************************************)
(* Messages and the snapshot                                               *)
(***************************************************************************)
PositionMessage(pos, id) ==
    [kind |-> "position", pos |-> pos, name |-> Empty, content |-> Empty, dirty |-> FALSE, id |-> id]
PresetMessage(name, content, id) ==
    [kind |-> "preset", pos |-> Empty, name |-> name, content |-> content, dirty |-> FALSE, id |-> id]
DirtyMessage(dirty) ==
    [kind |-> "dirty", pos |-> Empty, name |-> Empty, content |-> Empty, dirty |-> dirty, id |-> 0]
EditMessage(content) ==
    [kind |-> "edit", pos |-> Empty, name |-> Empty, content |-> content, dirty |-> FALSE, id |-> 0]
ResetItem ==
    [kind |-> "reset", pos |-> Empty, name |-> Empty, content |-> Empty, dirty |-> FALSE, id |-> 0]

Message == [kind : {"position", "preset", "dirty", "edit"}, pos : Places \cup {Empty},
            name : Names, content : Contents, dirty : BOOLEAN, id : 0 .. MaxCalls]

(* GatewaySnapshot::default                                                *)
NoSnapshot == [has |-> FALSE, pos |-> Empty, name |-> Empty, content |-> Empty, dirty |-> FALSE]

(* GatewaySnapshot::apply.  The content stands for what the preset's       *)
(* parts say; an edit's echo carries the part it changed.                  *)
Applied(s, m) ==
    CASE m.kind = "position" -> [s EXCEPT !.pos = m.pos]
      [] m.kind = "preset"   -> [s EXCEPT !.has = TRUE, !.dirty = FALSE,
                                          !.name = m.name, !.content = m.content]
      [] m.kind = "dirty"    -> [s EXCEPT !.dirty = m.dirty]
      [] m.kind = "edit"     -> [s EXCEPT !.content = m.content]

-----------------------------------------------------------------------------
(***************************************************************************)
(* Plans                                                                   *)
(***************************************************************************)
Command(op, pos, name, content, id) ==
    [op |-> op, pos |-> pos, name |-> name, content |-> content, id |-> id]

(* A verification: what the snapshot must show.  Empty is any.             *)
Shows(pos, name, content, clean) ==
    [pos |-> pos, name |-> name, content |-> content, clean |-> clean]

(* GatewayVerification::matches                                            *)
Matches(v, s) ==
    /\ v.pos \in {Empty, s.pos}
    /\ v.name \in {Empty, s.name}
    /\ v.content \in {Empty, s.content}
    /\ v.clean => ~s.dirty

Unverified == Shows(Empty, Empty, Empty, FALSE)
Stage(command, verification) == [command |-> command, verification |-> verification]

(* save_stage: saves what the device holds.                                *)
SaveStage(place, name) ==
    Stage(Command("save", place, name, Empty, 0), Shows(place, name, Empty, TRUE))
(* Mutant: a copy does not wait for its source.                            *)
RecallStageAtOnce(place) == Stage(Command("recall", place, Empty, Empty, 0), Unverified)

RecallStage(place) ==
    Stage(Command("recall", place, Empty, Empty, 0), Shows(place, lib[place], Empty, FALSE))
CreateStage == Stage(Command("create", Empty, Empty, Empty, 0), Unverified)

(* PresetMutationRecord, with the content the slot should get (history).   *)
Saved(place, name, content) == [place |-> place, name |-> name, content |-> content]

Plan(kind, stages, records) ==
    [kind |-> kind, stages |-> stages, records |-> records, at |-> "planned",
     moved |-> FALSE, answered |-> FALSE, told |-> FALSE,
     quiet |-> out = <<>> /\ lane = <<>>,
     stale |-> \E i \in DOMAIN stages : /\ stages[i].verification # Unverified
                                        /\ Matches(stages[i].verification, snap),
     ran |-> FALSE]

(* A write whose effect shows in the preset (plan_gateway_write).          *)
EditPlan ==
    Plan("edit", <<Stage(Command("edit", Empty, Empty, Edit, 0),
                         Shows(Empty, Empty, Edit, FALSE))>>, {})

(* plan_preset_recall                                                      *)
RecallPlan(place) ==
    Plan("recall", <<Stage(Command("recall", place, Empty, Empty, calls + 1),
                           Shows(place, Empty, Empty, FALSE))>>, {})
ReloadPlan ==
    Plan("recall", <<Stage(Command("recall", snap.pos, Empty, Empty, calls + 1),
                           Shows(snap.pos, Empty, Empty, TRUE))>>, {})

(* plan_preset_mutation                                                    *)
SavePlan(place, name) ==
    Plan("mutation", <<SaveStage(place, name)>>, {Saved(place, name, dev.content)})
CopyPlan(from) ==
    Plan("mutation", <<RecallStage(from), SaveStage(snap.pos, lib[from])>>,
         {Saved(snap.pos, lib[from], stored[from].content)})

(* The n lowest members of S, in order.                                    *)
Lowest(S, n) ==
    {f \in [1 .. n -> S] : /\ \A i, j \in 1 .. n : i < j => f[i] < f[j]
                          /\ \A x \in S : (\E i \in 1 .. n : f[i] = x) \/ \A i \in 1 .. n : f[i] < x}

DuplicatePlan(from, to, n) ==
    LET stage(i) == IF i = 1 THEN CreateStage
                    ELSE IF i % 2 = 0 THEN RecallStage(from[i \div 2])
                    ELSE SaveStage(to[i \div 2], lib[from[i \div 2]])
    IN  Plan("mutation", [i \in 1 .. 2 * n + 1 |-> stage(i)],
             {Saved(to[i], lib[from[i]], stored[from[i]].content) : i \in 1 .. n})

NoCall == [kind |-> "none", stages |-> <<>>, records |-> {}, at |-> "idle", moved |-> FALSE,
           answered |-> FALSE, told |-> FALSE, quiet |-> FALSE, stale |-> FALSE, ran |-> FALSE]

-----------------------------------------------------------------------------
GatewayInit ==
    \E s \in Slots :
        /\ dev = [pos |-> s, name |-> s, content |-> s, edited |-> FALSE]
        /\ stored = [p \in Places |-> IF p \in Slots THEN [name |-> p, content |-> p]
                                      ELSE [name |-> Empty, content |-> Empty]]
        /\ out = <<>> /\ lane = <<>>
        /\ snap = [has |-> TRUE, pos |-> s, name |-> s, content |-> s, dirty |-> FALSE]
        /\ up = TRUE
        /\ lib = [p \in Places |-> stored[p].name]
        /\ call = NoCall
        /\ calls = 0 /\ events = 0

-----------------------------------------------------------------------------
(***************************************************************************)
(* The device                                                              *)
(***************************************************************************)
Event == events < MaxEvents /\ events' = events + 1

(* The device executes the recall the call sent (history).                 *)
Ran == call.kind = "recall" /\ Head(out).op = "recall" /\ Head(out).id = calls

Recalled(place) ==
    [pos |-> place, name |-> stored[place].name, content |-> stored[place].content, edited |-> FALSE]

(* What the device sends goes to the worker, which posts it to the         *)
(* decoder (ingest_incoming) and answers a request it fits                 *)
(* (deliver_pending): of its type, and of its number if the message has    *)
(* one.  Without a session it goes nowhere.                                *)
Expected == IF call.kind = "edit" THEN "preset" ELSE "position"
Sends(messages) ==
    LET c == [call EXCEPT !.ran = @ \/ Ran] IN
    /\ lane' = IF up THEN lane \o messages ELSE lane
    /\ call' = IF /\ up /\ call.at = "asking"
                  /\ \E m \in Range(messages) : m.kind = Expected /\ m.id \in {0, calls}
               THEN [c EXCEPT !.answered = TRUE] ELSE c

(* The user touches the device.                                            *)
Touched(d, messages) ==
    /\ Event
    /\ dev' = d
    /\ lane' = IF up THEN lane \o messages ELSE lane
    /\ call' = [call EXCEPT !.quiet = FALSE]
    /\ UNCHANGED <<stored, out, snap, up, lib, calls>>

TouchRecall(place) ==
    LET d == Recalled(place) IN
    Touched(d, <<PositionMessage(place, 0), PresetMessage(d.name, d.content, 0)>>)

TouchEdit ==
    Touched([dev EXCEPT !.content = Edit, !.edited = TRUE],
            <<EditMessage(Edit), DirtyMessage(TRUE)>>)

Executing(op) == out # <<>> /\ Head(out).op = op /\ out' = Tail(out)

(* The first message of the answer may be lost: some CorOS builds apply a  *)
(* recall but omit its position push.                                      *)
Answers(d, messages) ==
    /\ dev' = d
    /\ \/ Sends(messages) /\ UNCHANGED events
       \/ Sends(Tail(messages)) /\ Event
    /\ UNCHANGED <<snap, up, lib, calls>>

ExecuteRecall ==
    /\ Executing("recall")
    /\ LET d == Recalled(Head(out).pos) IN
       Answers(d, <<PositionMessage(d.pos, 0), PresetMessage(d.name, d.content, 0)>>)
    /\ UNCHANGED stored

ExecuteEdit ==
    /\ Executing("edit")
    /\ Answers([dev EXCEPT !.content = Head(out).content, !.edited = TRUE],
               <<EditMessage(Head(out).content), DirtyMessage(TRUE)>>)
    /\ UNCHANGED stored

ExecuteSave ==
    /\ Executing("save")
    /\ LET c == Head(out) IN
        /\ stored' = [stored EXCEPT ![c.pos] = [name |-> c.name, content |-> dev.content]]
        /\ Answers([pos |-> c.pos, name |-> c.name, content |-> dev.content, edited |-> FALSE],
                   <<PositionMessage(c.pos, 0), PresetMessage(c.name, dev.content, 0)>>)

ExecuteCreate ==
    /\ Executing("create")
    /\ UNCHANGED <<deviceVars, lane, snap, up, lib, call, calls, events>>

ExecuteReadPreset ==
    /\ Executing("readPreset")
    /\ Answers(dev, <<PresetMessage(dev.name, dev.content, Head(out).id)>>)
    /\ UNCHANGED stored

ExecuteReadPosition ==
    /\ Executing("readPosition")
    /\ Answers(dev, <<PositionMessage(dev.pos, Head(out).id)>>)
    /\ UNCHANGED stored

(* The command channel is wedged, or the report is lost.                   *)
LoseCommand ==
    /\ out # <<>>
    /\ Event
    /\ out' = Tail(out)
    /\ UNCHANGED <<deviceVars, lane, snap, up, lib, call, calls>>

-----------------------------------------------------------------------------
(***************************************************************************)
(* The state decoder                                                       *)
(***************************************************************************)
(* run_state_decoder: a message changes the snapshot, then its frame is    *)
(* published; a reset empties the snapshot.                                *)
Decode ==
    /\ lane # <<>>
    /\ lane' = Tail(lane)
    /\ LET m == Head(lane) IN
       IF m.kind = "reset"
       THEN snap' = NoSnapshot /\ UNCHANGED call
       ELSE /\ snap' = Applied(snap, m)
            /\ call' = IF m.kind = "position" THEN [call EXCEPT !.moved = TRUE] ELSE call
    /\ UNCHANGED <<deviceVars, out, up, lib, calls, events>>

(* The next session: its first messages show what the device holds.        *)
Reopen ==
    /\ ~up
    /\ up' = TRUE
    /\ \E dirty \in {<<>>, <<DirtyMessage(dev.edited)>>} :
        lane' = lane \o <<PositionMessage(dev.pos, 0), PresetMessage(dev.name, dev.content, 0)>> \o dirty
    /\ UNCHANGED <<deviceVars, out, snap, lib, call, calls, events>>

(* The listings arrive: refresh_preset_library, PresetLibrary::ingest.     *)
List ==
    /\ up /\ call.at = "idle" /\ calls < MaxCalls
    /\ lib' = [p \in Places |-> stored[p].name]
    /\ UNCHANGED <<deviceVars, out, lane, snap, up, call, calls, events>>

-----------------------------------------------------------------------------
(***************************************************************************)
(* Calls                                                                   *)
(***************************************************************************)
Begin(plan) ==
    /\ call.at = "idle" /\ calls < MaxCalls /\ up
    /\ calls' = calls + 1
    /\ call' = plan
    /\ UNCHANGED <<deviceVars, out, lane, snap, up, lib, events>>

BeginEdit == snap.has /\ Begin(EditPlan)

BeginRecall(place) ==
    /\ snap.has /\ ~snap.dirty
    /\ Begin(RecallPlan(place))

BeginReload == snap.has /\ snap.pos # Empty /\ Begin(ReloadPlan)

BeginSave(place, name) ==
    /\ snap.has /\ snap.pos # Empty
    /\ Begin(SavePlan(place, name))

BeginCopy(from) ==
    /\ snap.has /\ ~snap.dirty
    /\ snap.pos \notin {Empty, from}
    /\ lib[from] # Empty
    /\ Begin(CopyPlan(from))

BeginDuplicate(limit) ==
    /\ snap.has /\ limit <= Cardinality(NewSlots)
    /\ \A p \in NewSlots : lib[p] = Empty
    /\ LET named == {p \in Slots : lib[p] # Empty}
           n == IF limit < Cardinality(named) THEN limit ELSE Cardinality(named)
       IN  \E from \in Lowest(named, n), to \in Lowest(NewSlots, n) : Begin(DuplicatePlan(from, to, n))

At(pc) == call.at = pc
Advance(pc) == call' = [call EXCEPT !.at = pc]

(* What the stage that is being executed is to show.                       *)
Wanted == Head(call.stages).verification

(* subscribe_state_events and latest_state_sequence: frames of before do   *)
(* not count.                                                              *)
Arm ==
    /\ At("planned")
    /\ Advance("armed")
    /\ UNCHANGED <<deviceVars, out, lane, snap, up, lib, calls, events>>

(* execute_planned_write.  Without a session the write is refused.         *)
Send ==
    /\ At("armed") /\ up
    /\ out' = Append(out, Head(call.stages).command)
    /\ Advance(IF call.kind = "edit" THEN "read" ELSE "push")
    /\ UNCHANGED <<deviceVars, lane, snap, up, lib, calls, events>>

(* A correlated read: of the preset after an edit, of the position when    *)
(* the wait for a recall's push has ended.                                 *)
Ask ==
    /\ \/ At("read")
       \/ At("push") /\ call.kind = "recall"
    /\ out' = Append(out, Command(IF call.kind = "edit" THEN "readPreset" ELSE "readPosition",
                                  Empty, Empty, Empty, calls))
    /\ call' = [call EXCEPT !.at = "asking", !.answered = FALSE]
    /\ UNCHANGED <<deviceVars, lane, snap, up, lib, calls, events>>

Answered ==
    /\ At("asking") /\ call.answered
    /\ Advance("confirm")
    /\ UNCHANGED <<deviceVars, out, lane, snap, up, lib, calls, events>>

(* Mutant: what the snapshot showed before the recall confirms it.         *)
ConfirmedAsItWas == TRUE

(* PresetRecallPlan::matches asks for a position of after the plan too.    *)
RecallConfirmed == call.kind = "recall" => call.moved

(* wait_for_transaction_event takes the next frame and looks at the        *)
(* snapshot, not at the frame.  One may come at any time: the tempo clock  *)
(* publishes frames that change nothing.                                   *)
Seen == At("push") \/ At("confirm")
Confirmed == Seen /\ snap.has /\ Matches(Wanted, snap) /\ RecallConfirmed

NextStage == [call EXCEPT !.stages = Tail(@), !.at = "planned"]

(* record_saved changes a listing that has been loaded.                    *)
Loaded(place) == \E p \in IF place \in Slots THEN Slots ELSE NewSlots : lib[p] # Empty
Recorded ==
    [p \in Places |->
        IF Loaded(p) /\ \E r \in call.records : r.place = p
        THEN (CHOOSE r \in call.records : r.place = p).name ELSE lib[p]]

(* The last stage is verified: the call is done.                           *)
Finish ==
    /\ Confirmed
    /\ Len(call.stages) = 1
    /\ call' = [call EXCEPT !.at = "done", !.told = TRUE]
    /\ lib' = Recorded
    /\ UNCHANGED <<deviceVars, out, lane, snap, up, calls, events>>

Continue ==
    /\ Confirmed
    /\ Len(call.stages) > 1
    /\ call' = NextStage
    /\ UNCHANGED <<deviceVars, out, lane, snap, up, lib, calls, events>>

(* A stage without verification has settled.                               *)
Settle ==
    /\ At("push") /\ Wanted = Unverified
    /\ call' = IF Len(call.stages) > 1 THEN NextStage ELSE [call EXCEPT !.at = "done", !.told = TRUE]
    /\ lib' = IF Len(call.stages) > 1 THEN lib ELSE Recorded
    /\ UNCHANGED <<deviceVars, out, lane, snap, up, calls, events>>

(* The wait or the request timed out: an edit or a mutation has failed.    *)
Fail ==
    /\ \/ call.kind # "recall" /\ (At("confirm") \/ At("asking"))
       \/ call.kind = "mutation" /\ At("push") /\ Wanted # Unverified
       \/ At("armed") /\ ~up
    /\ Advance("failed")
    /\ UNCHANGED <<deviceVars, out, lane, snap, up, lib, calls, events>>

(* A recall is not confirmed: reset_session.  What is on its way is lost.  *)
ResetSession ==
    /\ call.kind = "recall"
    /\ \/ At("asking") \/ At("confirm")
       \/ At("push") /\ snap.has /\ Matches(Wanted, snap) /\ ~RecallConfirmed
    /\ out' = <<>>
    /\ lane' = Append(lane, ResetItem)
    /\ up' = FALSE
    /\ lib' = [p \in Places |-> Empty]
    /\ Advance("resetting")
    /\ UNCHANGED <<deviceVars, snap, calls, events>>

Ready ==
    /\ At("resetting") /\ up
    /\ Advance("replay")
    /\ UNCHANGED <<deviceVars, out, lane, snap, up, lib, calls, events>>

(* wait_for_ready timed out, or the handshake failed.                      *)
NotReady ==
    /\ At("resetting") /\ ~up
    /\ Advance("failed")
    /\ UNCHANGED <<deviceVars, out, lane, snap, up, lib, calls, events>>

Replay ==
    /\ At("replay")
    /\ out' = Append(out, Head(call.stages).command)
    /\ Advance("recovered")
    /\ UNCHANGED <<deviceVars, lane, snap, up, lib, calls, events>>

(* wait_for_recovered_position                                             *)
Recovered ==
    /\ At("recovered")
    /\ snap.has /\ Matches(Wanted, snap)
    /\ call' = [call EXCEPT !.at = "done", !.told = TRUE]
    /\ UNCHANGED <<deviceVars, out, lane, snap, up, lib, calls, events>>

NotRecovered ==
    /\ At("recovered")
    /\ ~(snap.has /\ Matches(Wanted, snap))
    /\ Advance("failed")
    /\ UNCHANGED <<deviceVars, out, lane, snap, up, lib, calls, events>>

Return ==
    /\ At("done") \/ At("failed")
    /\ call' = NoCall
    /\ UNCHANGED <<deviceVars, out, lane, snap, up, lib, calls, events>>

-----------------------------------------------------------------------------
GatewayNext ==
    \/ \E p \in Slots : TouchRecall(p) \/ BeginRecall(p) \/ BeginCopy(p)
    \/ \E p \in Slots, n \in {Chosen, snap.name} : n # Empty /\ BeginSave(p, n)
    \/ \E n \in 1 .. Cardinality(NewSlots) : BeginDuplicate(n)
    \/ TouchEdit \/ BeginEdit \/ BeginReload
    \/ ExecuteRecall \/ ExecuteEdit \/ ExecuteSave \/ ExecuteCreate
    \/ ExecuteReadPreset \/ ExecuteReadPosition \/ LoseCommand
    \/ Decode \/ Reopen \/ List
    \/ Arm \/ Send \/ Ask \/ Answered \/ Finish \/ Continue \/ Settle \/ Fail
    \/ ResetSession \/ Ready \/ NotReady \/ Replay \/ Recovered \/ NotRecovered \/ Return

Spec == GatewayInit /\ [][GatewayNext]_gatewayVars

-----------------------------------------------------------------------------
(* What a call that began with nothing under way reports verified is what  *)
(* the device holds, its position and the content of an edit, if nobody    *)
(* touched the device meanwhile: no frame of an earlier stage, or of the   *)
(* session before its recovery, is taken for its echo, whatever was lost.  *)
(* A frame of an earlier call still on its way would be taken for it and   *)
(* is exempted, and so is a snapshot that showed what a stage waits for    *)
(* before the call, except to a recall, which waits for a position of      *)
(* after its plan unless it had to be recovered.                           *)
VerifiedIsOnTheDevice ==
    [][ /\ Finish \/ Continue \/ Recovered
        /\ call.quiet
        /\ ~call.stale \/ (call.kind = "recall" /\ call.at # "recovered")
        => Wanted.pos \in {Empty, dev.pos} /\ Wanted.content \in {Empty, dev.content}
      ]_gatewayVars

(* A save, copy or duplication that reports success stored what the plan   *)
(* named at every slot it records, if nobody touched the device meanwhile, *)
(* nothing was under way, and the snapshot did not show what one of its    *)
(* stages waits for already.                                               *)
MutationsAreFaithful ==
    (call.told /\ call.kind = "mutation" /\ call.quiet /\ ~call.stale) =>
        \A r \in call.records : stored[r.place] = [name |-> r.name, content |-> r.content]

(* "An interrupted or uncertain mutation is never blindly replayed":       *)
(* the recovery of a recall sends it again only if the device has not      *)
(* executed it.                                                            *)
NoBlindReplay == [][Replay => ~call.ran]_gatewayVars
=============================================================================
