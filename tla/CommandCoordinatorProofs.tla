---------------------- MODULE CommandCoordinatorProofs ----------------------
(***************************************************************************)
(* Proofs about CommandCoordinator, for any fields, values, grace period   *)
(* and number of commands, touches and ticks.                              *)
(*                                                                         *)
(* What the user sees (the desk) is proved apart from what is on the way   *)
(* (the wire).  On the desk, that the pending command stays on screen is   *)
(* inductive as it stands.  That a failure undoes only its own preview     *)
(* needs two more facts: the owner of a pending intent is the writer of    *)
(* what its field shows, and ids start at 1, so that a field without an    *)
(* intent (id 0) is owned by no command.  That a press shows more than it  *)
(* intends needs to know that no light is ever pending.  On the wire, types need to know  *)
(* that an answered move is the first of the queue of moves, which is then *)
(* not empty: the two are proved together.  Of the link, that nothing      *)
(* pends without one: the first snapshot of a link is shown as it is.      *)
(***************************************************************************)
EXTENDS CommandCoordinator, SequenceTheorems, TLAPS

Ids == Nat \ {0}

(* What an observation tells has values of the fields it tells.            *)
Tolds == {t \in Told : \A f \in DOMAIN t : t[f] \in Values(f)}

(* A command changes some of the fields it sets.                           *)
Commands == [id : Ids, kind : {"set", "move", "press"}, target : Tolds, previous : Tolds]

-----------------------------------------------------------------------------
(***************************************************************************)
(* The desk                                                                *)
(***************************************************************************)
DeskTypes ==
    /\ nextId \in Ids
    /\ shown \in State
    /\ intents \in [Fields -> Intent]
    /\ \A f \in Fields : intents[f].target \in Values(f)
    /\ writer \in [Fields -> Nat]
    /\ \A f \in Fields : writer[f] < nextId

WriterOwnsIntent ==
    \A f \in Fields : Pending(f) => intents[f].id \in Ids /\ writer[f] = intents[f].id

LightsNeverPend == \A l \in Lights : intents[l] = NoIntent

Desk == DeskTypes /\ PendingIsShown /\ WriterOwnsIntent /\ LightsNeverPend

LEMMA LightsAreFields == Lights \subseteq Fields /\ Settings \subseteq Fields
BY DEF Fields

LEMMA ValuesAreSmall ==
    ASSUME NEW f \in Fields
    PROVE  0 \in Values(f) /\ Values(f) \subseteq 0..MaxValue /\ Values(f) \subseteq Nat
BY CoordinatorAssumption DEF Values

LEMMA StateOfValues ==
    ASSUME NEW s, s = [f \in Fields |-> s[f]], \A f \in Fields : s[f] \in Values(f)
    PROVE  s \in State
BY ValuesAreSmall DEF State

LEMMA ValuesOfState ==
    ASSUME NEW s \in State
    PROVE  s = [f \in Fields |-> s[f]] /\ \A f \in Fields : s[f] \in Values(f)
BY DEF State

LEMMA NoIntentType ==
    NoIntent \in Intent /\ NoIntent.id = 0 /\ NoIntent.target = 0
BY DEF NoIntent, Intent

LEMMA StartType == Start \in State
<1>1. Start = [f \in Fields |-> Start[f]] /\ \A f \in Fields : Start[f] \in Values(f)
  BY ValuesAreSmall DEF Start
<1> QED
  BY <1>1, StateOfValues

LEMMA DeskInit == Init => Desk
<1> SUFFICES ASSUME Init
             PROVE  Desk
  OBVIOUS
<1>1. \A f \in Fields : intents[f] = NoIntent /\ writer[f] = 0 /\ shown[f] = 0
  BY DEF Init, Start
<1>2. nextId = 1 /\ nextId \in Ids
  BY DEF Init, Ids
<1>3. shown \in State
  BY StartType DEF Init
<1>4. intents \in [Fields -> Intent] /\ writer \in [Fields -> Nat]
  BY NoIntentType DEF Init
<1>5. DeskTypes
  BY <1>1, <1>2, <1>3, <1>4, NoIntentType, ValuesAreSmall DEF DeskTypes
<1>6. PendingIsShown /\ WriterOwnsIntent
  BY <1>1 DEF PendingIsShown, WriterOwnsIntent, Pending
<1>7. LightsNeverPend
  BY <1>1, LightsAreFields DEF LightsNeverPend
<1> QED
  BY <1>5, <1>6, <1>7 DEF Desk

LEMMA DomainOfTold ==
    ASSUME NEW t \in Tolds
    PROVE  DOMAIN t \subseteq Fields /\ \A f \in DOMAIN t : t[f] \in Values(f)
BY DEF Tolds, Told

LEMMA ToldOfValues ==
    ASSUME NEW F \in SUBSET Fields, NEW t, t = [f \in F |-> t[f]],
           \A f \in F : t[f] \in Values(f)
    PROVE  t \in Tolds /\ DOMAIN t = F
<1>1. t \in [F -> 0..MaxValue]
  BY ValuesAreSmall
<1>2. t \in Told
  BY <1>1 DEF Told
<1>3. DOMAIN t = F
  OBVIOUS
<1> QED
  BY <1>2, <1>3 DEF Tolds

LEMMA StateIsTold == State \subseteq Tolds
<1> SUFFICES ASSUME NEW s \in State
             PROVE  s \in Tolds
  OBVIOUS
<1> QED
  BY ValuesOfState, ToldOfValues

(* Telling values of some fields gives a state again.                      *)
LEMMA WithType ==
    ASSUME NEW values \in State, NEW told \in Tolds
    PROVE  /\ With(values, told) \in State
           /\ \A f \in Fields : With(values, told)[f] = IF f \in DOMAIN told THEN told[f] ELSE values[f]
<1> DEFINE new == With(values, told)
<1>1. \A f \in Fields : new[f] = IF f \in DOMAIN told THEN told[f] ELSE values[f]
  BY DEF With
<1>2. new = [f \in Fields |-> new[f]]
  BY DEF With
<1> HIDE DEF new
<1>3. \A f \in Fields : new[f] \in Values(f)
  BY <1>1, DomainOfTold, ValuesOfState
<1>4. new \in State
  BY <1>2, <1>3, StateOfValues
<1> QED
  BY <1>1, <1>4 DEF new

(* A command given is shown and owns the intents of its fields.            *)
LEMMA PreviewDesk ==
    ASSUME Desk, clock \in Nat, NEW target \in Tolds, NEW fields \in SUBSET DOMAIN target,
           fields \cap Lights = {}, Changed(target) \ Lights \subseteq fields,
           Preview(target, fields)
    PROVE  Desk'
<1> DEFINE intent(f) == [id |-> nextId, target |-> target[f], issued |-> clock, grid |-> Grid]
<1>1. nextId \in Ids /\ nextId' = nextId + 1 /\ nextId' \in Ids
  BY DEF Desk, DeskTypes, Preview, Ids
<1>2. Grid \in Nat
  BY ValuesOfState, ValuesAreSmall DEF Desk, DeskTypes, Grid, Fields, Settings
<1>3. \A f \in fields : f \in Fields /\ f \in DOMAIN target /\ target[f] \in Values(f) /\ target[f] \in Nat
  BY DomainOfTold, ValuesAreSmall
<1>4. \A f \in fields : intent(f) \in Intent
  BY <1>1, <1>2, <1>3 DEF Intent, Ids
<1>5. \A f \in Fields : intents'[f] = IF f \in fields THEN intent(f) ELSE intents[f]
  BY DEF Preview
<1>6. \A f \in fields : intent(f).id = nextId /\ intent(f).target = target[f]
  OBVIOUS
<1>7. intents' = [f \in Fields |-> intents'[f]]
  BY DEF Preview
<1> HIDE DEF intent
<1>8. /\ shown' \in State
      /\ \A g \in Fields : shown'[g] = IF g \in DOMAIN target THEN target[g] ELSE shown[g]
  BY WithType DEF Desk, DeskTypes, Preview
<1>9. intents' \in [Fields -> Intent]
  BY <1>4, <1>5, <1>7 DEF Desk, DeskTypes
<1>10. /\ writer' \in [Fields -> Nat]
       /\ \A g \in Fields : writer'[g] = IF g \in fields \cup Changed(target) THEN nextId ELSE writer[g]
  BY <1>1 DEF Desk, DeskTypes, Preview, Ids
<1>11. \A g \in Fields : intents'[g].target \in Values(g)
  BY <1>3, <1>5, <1>6 DEF Desk, DeskTypes
<1>12. \A g \in Fields : writer'[g] < nextId'
  BY <1>1, <1>10 DEF Desk, DeskTypes, Ids
<1>13. DeskTypes'
  BY <1>1, <1>8, <1>9, <1>10, <1>11, <1>12 DEF DeskTypes
<1>14. PendingIsShown'
  <2> SUFFICES ASSUME NEW g \in Fields, Pending(g)'
               PROVE  shown'[g] = intents'[g].target
    BY DEF PendingIsShown
  <2>1. CASE g \in fields
    BY <1>3, <1>5, <1>6, <1>8, <2>1
  <2>2. CASE g \notin fields /\ g \notin DOMAIN target
    BY <1>5, <1>8, <2>2 DEF Desk, PendingIsShown, Pending
  <2>3. CASE g \notin fields /\ g \in DOMAIN target
    <3>1. g \notin Lights
      BY <1>5, <2>3 DEF Desk, LightsNeverPend, Pending
    <3>2. target[g] = shown[g]
      BY <2>3, <3>1 DEF Changed
    <3> QED
      BY <1>5, <1>8, <2>3, <3>2 DEF Desk, PendingIsShown, Pending
  <2> QED
    BY <2>1, <2>2, <2>3
<1>15. WriterOwnsIntent'
  <2> SUFFICES ASSUME NEW g \in Fields, Pending(g)'
               PROVE  intents'[g].id \in Ids /\ writer'[g] = intents'[g].id
    BY DEF WriterOwnsIntent
  <2>1. CASE g \in fields
    BY <1>1, <1>5, <1>6, <1>10, <2>1
  <2>2. CASE g \notin fields
    <3>1. intents'[g] = intents[g] /\ g \notin Lights
      BY <1>5, <2>2 DEF Desk, LightsNeverPend, Pending
    <3>2. g \notin Changed(target)
      BY <2>2, <3>1
    <3> QED
      BY <1>10, <2>2, <3>1, <3>2 DEF Desk, WriterOwnsIntent, Pending
  <2> QED
    BY <2>1, <2>2
<1>16. LightsNeverPend'
  BY <1>5, LightsAreFields DEF Desk, LightsNeverPend
<1> QED
  BY <1>13, <1>14, <1>15, <1>16 DEF Desk

(* Forgetting an intent leaves the others as they are.                     *)
LEMMA ForgetType ==
    ASSUME Desk, NEW fields, Forget(fields)
    PROVE  /\ intents' \in [Fields -> Intent]
           /\ \A f \in Fields : intents'[f] = IF f \in fields THEN NoIntent ELSE intents[f]
           /\ \A f \in Fields : intents'[f].target \in Values(f)
           /\ LightsNeverPend'
<1>1. \A f \in Fields : intents'[f] = IF f \in fields THEN NoIntent ELSE intents[f]
  BY DEF Forget
<1>2. intents' \in [Fields -> Intent]
  BY NoIntentType DEF Forget, Desk, DeskTypes
<1>3. \A f \in Fields : intents'[f].target \in Values(f)
  BY <1>1, NoIntentType, ValuesAreSmall DEF Desk, DeskTypes
<1>4. LightsNeverPend'
  BY <1>1, LightsAreFields DEF Desk, LightsNeverPend
<1> QED
  BY <1>1, <1>2, <1>3, <1>4

(* A command without a connection is shown and leaves no intent.           *)
LEMMA DemonstrateDesk ==
    ASSUME Desk, NEW target \in Tolds, NEW fields \in SUBSET DOMAIN target,
           Changed(target) \subseteq fields, Demonstrate(target, fields)
    PROVE  Desk'
<1>1. nextId \in Ids /\ nextId' = nextId + 1 /\ nextId' \in Ids
  BY DEF Desk, DeskTypes, Demonstrate, Ids
<1>2. /\ shown' \in State
      /\ \A g \in Fields : shown'[g] = IF g \in DOMAIN target THEN target[g] ELSE shown[g]
  BY WithType DEF Desk, DeskTypes, Demonstrate
<1>3. Forget(fields)
  BY DEF Demonstrate, Forget
<1>4. /\ writer' \in [Fields -> Nat]
      /\ \A g \in Fields : writer'[g] = IF g \in fields THEN nextId ELSE writer[g]
  BY <1>1 DEF Desk, DeskTypes, Demonstrate, Ids
<1>5. \A g \in Fields : writer'[g] < nextId'
  BY <1>1, <1>4 DEF Desk, DeskTypes, Ids
<1>6. DeskTypes'
  BY <1>1, <1>2, <1>3, <1>4, <1>5, ForgetType DEF DeskTypes
<1>7. \A g \in Fields : intents'[g] # NoIntent => intents'[g] = intents[g] /\ g \notin fields
  BY <1>3, ForgetType
<1>8. PendingIsShown'
  <2> SUFFICES ASSUME NEW g \in Fields, Pending(g)'
               PROVE  shown'[g] = intents'[g].target
    BY DEF PendingIsShown
  <2>1. intents'[g] = intents[g] /\ g \notin fields /\ shown[g] = intents[g].target
    BY <1>7 DEF Desk, PendingIsShown, Pending
  <2>2. g \in DOMAIN target => target[g] = shown[g]
    BY <2>1 DEF Changed
  <2> QED
    BY <1>2, <2>1, <2>2
<1>9. WriterOwnsIntent'
  BY <1>4, <1>7 DEF Desk, WriterOwnsIntent, Pending
<1> QED
  BY <1>3, <1>6, <1>8, <1>9, ForgetType DEF Desk

(* What is shown without intents leaves nothing pending to be shown.       *)
LEMMA AfreshDesk ==
    ASSUME Desk, nextId' = nextId, shown' \in State, writer' \in [Fields -> Nat],
           \A f \in Fields : writer'[f] = writer[f] \/ writer'[f] = 0,
           intents' \in [Fields -> Intent], \A f \in Fields : intents'[f] = NoIntent
    PROVE  Desk'
<1>1. DeskTypes'
  BY NoIntentType, ValuesAreSmall DEF Desk, DeskTypes, Ids
<1>2. PendingIsShown' /\ WriterOwnsIntent'
  BY DEF PendingIsShown, WriterOwnsIntent, Pending
<1>3. LightsNeverPend'
  BY LightsAreFields DEF LightsNeverPend
<1> QED
  BY <1>1, <1>2, <1>3 DEF Desk

(* An observation is shown where no younger intent stands against it.      *)
LEMMA ObserveDesk ==
    ASSUME Desk, nextId' = nextId,
           NEW told \in Tolds, NEW at, NEW now, NEW overlaid, NEW forgotten,
           Observe(told, at, now, overlaid, forgotten)
    PROVE  Desk'
<1> DEFINE accepted == Accepted(told, at, now)
<1>1. \A f \in accepted : told[f] \in Values(f)
  BY DEF Accepted, Tolds
<1> HIDE DEF accepted
<1>2. \A f \in Fields : shown'[f] = IF f \in accepted THEN told[f]
                                    ELSE IF f \in overlaid THEN intents[f].target
                                    ELSE shown[f]
  BY DEF Observe, Reconciled, accepted
<1>3. Forget(accepted \cup forgotten)
  BY DEF Observe, accepted
<1>4. \A f \in Fields : writer'[f] = IF f \in accepted THEN 0 ELSE writer[f]
  BY DEF Observe, accepted
<1>5. shown' = [f \in Fields |-> shown'[f]]
  BY DEF Observe, Reconciled
<1>6. shown' \in State
  <2>1. \A f \in Fields : shown'[f] \in Values(f)
    BY <1>1, <1>2, ValuesOfState DEF Desk, DeskTypes
  <2> QED
    BY <1>5, <2>1, StateOfValues
<1>7. writer' \in [Fields -> Nat] /\ \A f \in Fields : writer'[f] < nextId'
  BY <1>4 DEF Observe, Desk, DeskTypes, Ids
<1>8. DeskTypes'
  BY <1>3, <1>6, <1>7, ForgetType DEF Desk, DeskTypes
<1>9. \A f \in Fields : intents'[f] # NoIntent =>
          intents'[f] = intents[f] /\ f \notin accepted
  BY <1>3, ForgetType
<1>10. PendingIsShown'
  BY <1>2, <1>9 DEF Desk, PendingIsShown, Pending
<1>11. WriterOwnsIntent'
  BY <1>4, <1>9 DEF Desk, WriterOwnsIntent, Pending
<1> QED
  BY <1>3, <1>8, <1>10, <1>11, ForgetType DEF Desk

(* A rollback shows what was shown before a command that restores it.      *)
LEMMA RollBackDesk ==
    ASSUME Desk, nextId' = nextId, NEW commands \in SUBSET Commands, RollBack(commands)
    PROVE  Desk'
<1> DEFINE restored == {f \in Fields : \E c \in commands : Restores(c, f)}
           source(f) == CHOOSE c \in commands : Restores(c, f)
           back == [f \in restored |-> source(f).previous[f]]
<1>1. \A f \in restored : source(f) \in commands /\ Restores(source(f), f)
  OBVIOUS
<1>2. \A f \in restored : source(f).previous[f] \in Values(f)
  BY <1>1, DomainOfTold DEF Commands, Owns, Restores
<1>3. back \in Tolds /\ DOMAIN back = restored
  <2>1. restored \in SUBSET Fields /\ back = [f \in restored |-> back[f]]
        /\ \A f \in restored : back[f] \in Values(f)
    BY <1>2
  <2> HIDE DEF restored, back
  <2> QED
    BY <2>1, ToldOfValues
<1>4. shown' = With(shown, back) /\ Forget(restored)
  BY DEF RollBack
<1>5. \A f \in Fields : writer'[f] = IF f \in restored THEN 0 ELSE writer[f]
  BY DEF RollBack
<1>6. writer' \in [Fields -> Nat]
  BY DEF RollBack, Desk, DeskTypes
<1> HIDE DEF restored, back
<1>7. /\ shown' \in State
      /\ \A f \in Fields : f \notin restored => shown'[f] = shown[f]
  BY <1>3, <1>4, WithType DEF Desk, DeskTypes
<1>8. \A f \in Fields : writer'[f] < nextId'
  BY <1>5 DEF Desk, DeskTypes, Ids
<1>9. DeskTypes'
  BY <1>4, <1>6, <1>7, <1>8, ForgetType DEF Desk, DeskTypes
<1>10. \A f \in Fields : intents'[f] # NoIntent =>
          intents'[f] = intents[f] /\ f \notin restored
  BY <1>4, ForgetType
<1>11. PendingIsShown'
  BY <1>7, <1>10 DEF Desk, PendingIsShown, Pending
<1>12. WriterOwnsIntent'
  BY <1>5, <1>10 DEF Desk, WriterOwnsIntent, Pending
<1> QED
  BY <1>4, <1>9, <1>11, <1>12, ForgetType DEF Desk

(* A step that leaves the desk alone.                                      *)
LEMMA SameDesk ==
    ASSUME Desk, UNCHANGED <<shown, intents, nextId, writer>>
    PROVE  Desk'
BY DEF Desk, DeskTypes, PendingIsShown, WriterOwnsIntent, LightsNeverPend, Pending

-----------------------------------------------------------------------------
(***************************************************************************)
(* The wire                                                                *)
(***************************************************************************)
Results ==
    [command : Commands, answer : {"read", "accepted", "error"}, snapshot : State, at : Nat]

Frames == [kind : {"field", "preset"}, told : Tolds, at : Nat]

QueueTypes ==
    /\ moves \in Seq(Commands)
    /\ \A i \in DOMAIN moves : moves[i].kind = "move" /\ DOMAIN moves[i].previous = {"position"}
    /\ requests \in Seq(Commands)
    /\ recalling \in BOOLEAN
    /\ recalling => requests # <<>>
    /\ results \in Seq(Results)

ToldTypes ==
    /\ frames \in Seq(Frames)
    /\ learned \in 0..Len(frames)
    /\ known \in State
    /\ actual \in State

Counters == {clock, touches, breaks} \subseteq Nat

Queues == QueueTypes /\ MovesAreSerial

LEMMA HeadOfSeq ==
    ASSUME NEW S, NEW s \in Seq(S), s # <<>>
    PROVE  /\ Head(s) \in S /\ Head(s) = s[1]
           /\ Len(s) \in Nat /\ Len(s) >= 1 /\ DOMAIN s = 1..Len(s)
           /\ Tail(s) \in Seq(S)
           /\ DOMAIN Tail(s) = 1..Len(s) - 1
           /\ \A j \in DOMAIN Tail(s) : j + 1 \in DOMAIN s /\ Tail(s)[j] = s[j + 1]
<1>1. Tail(s) \in Seq(S) /\ Len(Tail(s)) = Len(s) - 1 /\ Head(s) \in S
      /\ \A i \in 1..Len(Tail(s)) : Tail(s)[i] = s[i + 1]
  BY HeadTailProperties
<1>2. DOMAIN s = 1..Len(s) /\ DOMAIN Tail(s) = 1..Len(Tail(s)) /\ Len(s) \in Nat
  BY <1>1, LenProperties
<1>3. Len(s) >= 1
  BY <1>2, EmptySeq
<1> QED
  BY <1>1, <1>2, <1>3

LEMMA AppendToSeq ==
    ASSUME NEW S, NEW s \in Seq(S), NEW e \in S
    PROVE  /\ Append(s, e) \in Seq(S) /\ Append(s, e) # <<>>
           /\ Len(s) \in Nat /\ DOMAIN s = 1..Len(s)
           /\ DOMAIN Append(s, e) = 1..Len(s) + 1
           /\ \A j \in DOMAIN s : Append(s, e)[j] = s[j]
           /\ Append(s, e)[Len(s) + 1] = e
<1>1. Append(s, e) \in Seq(S) /\ Len(Append(s, e)) = Len(s) + 1
  BY AppendProperties
<1>2. DOMAIN s = 1..Len(s) /\ Len(s) \in Nat /\ DOMAIN Append(s, e) = 1..Len(Append(s, e))
  BY <1>1, LenProperties
<1> QED
  BY <1>1, <1>2, AppendProperties

LEMMA QueuesInit == Init => Queues
<1> SUFFICES ASSUME Init
             PROVE  Queues
  OBVIOUS
<1>1. moves \in Seq(Commands) /\ requests \in Seq(Commands) /\ results \in Seq(Results)
  BY EmptySeq DEF Init
<1>2. recalling \in BOOLEAN /\ (recalling => requests # <<>>)
  BY Zenon DEF Init
<1>3. DOMAIN moves = {} /\ DOMAIN requests = {} /\ DOMAIN results = {}
  BY DEF Init
<1>4. QueueTypes
  BY <1>1, <1>2, <1>3 DEF QueueTypes
<1>5. MovesAreSerial
  BY <1>3 DEF Init, MovesAreSerial, MovesAtGateway, MovesAnswered
<1> QED
  BY <1>4, <1>5 DEF Queues

(* A new command that is not a move.                                       *)
LEMMA RunQueues ==
    ASSUME Queues, NEW c \in Commands, c.kind # "move",
           requests' = Append(requests, c), UNCHANGED <<moves, recalling, results>>
    PROVE  Queues'
<1>1. /\ requests' \in Seq(Commands) /\ requests' # <<>>
      /\ DOMAIN requests = 1..Len(requests) /\ Len(requests) \in Nat
      /\ DOMAIN requests' = 1..Len(requests) + 1
      /\ \A j \in DOMAIN requests : requests'[j] = requests[j]
      /\ requests'[Len(requests) + 1] = c
  BY AppendToSeq DEF Queues, QueueTypes
<1>2. QueueTypes'
  BY <1>1, Zenon DEF Queues, QueueTypes
<1>3. \A j \in DOMAIN requests' : requests'[j].kind = "move" => j \in DOMAIN requests
  BY <1>1
<1>4. MovesAtGateway' = MovesAtGateway
  BY <1>1, <1>3 DEF MovesAtGateway
<1>5. MovesAreSerial'
  BY <1>1, <1>4 DEF Queues, MovesAreSerial, MovesAnswered
<1> QED
  BY <1>2, <1>5 DEF Queues

(* A new move.                                                             *)
LEMMA MoveQueues ==
    ASSUME Queues, NEW c \in Commands, c.kind = "move", DOMAIN c.previous = {"position"},
           QueueMove(c), UNCHANGED <<recalling, results>>
    PROVE  Queues'
<1>1. /\ moves' \in Seq(Commands) /\ moves' # <<>>
      /\ DOMAIN moves = 1..Len(moves) /\ Len(moves) \in Nat
      /\ DOMAIN moves' = 1..Len(moves) + 1
      /\ \A j \in DOMAIN moves : moves'[j] = moves[j]
      /\ moves'[Len(moves) + 1] = c
  BY AppendToSeq DEF Queues, QueueTypes, QueueMove
<1>2. \A i \in DOMAIN moves' :
          moves'[i].kind = "move" /\ DOMAIN moves'[i].previous = {"position"}
  BY <1>1 DEF Queues, QueueTypes
<1>3. CASE moves = <<>>
  <2>1. /\ requests' \in Seq(Commands) /\ requests' # <<>>
        /\ DOMAIN requests = 1..Len(requests) /\ Len(requests) \in Nat
        /\ DOMAIN requests' = 1..Len(requests) + 1
        /\ \A j \in DOMAIN requests : requests'[j] = requests[j]
        /\ requests'[Len(requests) + 1] = c
    BY <1>3, AppendToSeq DEF Queues, QueueTypes, QueueMove
  <2>2. QueueTypes'
    BY <1>1, <1>2, <2>1, Zenon DEF Queues, QueueTypes
  <2>3. MovesAtGateway = {} /\ MovesAnswered = {}
    BY <1>3 DEF Queues, MovesAreSerial
  <2>4. MovesAtGateway' = {Len(requests) + 1}
    BY <2>1, <2>3 DEF MovesAtGateway
  <2>5. Len(moves) = 0 /\ moves'[1] = c
    BY <1>1, <1>3
  <2>6. MovesAnswered' = {}
    BY <2>3 DEF MovesAnswered
  <2>7. Len(requests) + 1 \in DOMAIN requests'
    BY <2>1
  <2>8. requests'[Len(requests) + 1] = moves'[1]
    BY <2>1, <2>5
  <2>9. MovesAreSerial'
    BY <1>1, <2>4, <2>6, <2>7, <2>8 DEF MovesAreSerial
  <2> QED
    BY <2>2, <2>9 DEF Queues
<1>4. CASE moves # <<>>
  <2>1. requests' = requests
    BY <1>4 DEF QueueMove
  <2>2. QueueTypes'
    BY <1>1, <1>2, <2>1, Zenon DEF Queues, QueueTypes
  <2>3. moves'[1] = moves[1]
    BY <1>1, <1>4, EmptySeq DEF Queues, QueueTypes
  <2>4. MovesAtGateway' = MovesAtGateway /\ MovesAnswered' = MovesAnswered
    BY <2>1 DEF MovesAtGateway, MovesAnswered
  <2>5. MovesAreSerial'
    BY <1>1, <1>4, <2>1, <2>3, <2>4 DEF Queues, MovesAreSerial
  <2> QED
    BY <2>2, <2>5 DEF Queues
<1> QED
  BY <1>3, <1>4

(* An answer takes the first request away and is on its way.               *)
LEMMA AnswerQueues ==
    ASSUME Queues, clock \in Nat, requests # <<>>,
           NEW answer \in {"read", "accepted", "error"}, NEW snapshot \in State,
           Answer(answer, snapshot), UNCHANGED moves, recalling' = FALSE
    PROVE  Queues'
<1> DEFINE result == [command |-> Head(requests), answer |-> answer,
                      snapshot |-> snapshot, at |-> IF answer = "read" THEN clock ELSE 0]
<1>1. /\ Head(requests) \in Commands /\ Head(requests) = requests[1]
      /\ requests' \in Seq(Commands) /\ Len(requests) \in Nat
      /\ DOMAIN requests = 1..Len(requests) /\ Len(requests) >= 1
      /\ DOMAIN requests' = 1..Len(requests) - 1
      /\ \A j \in DOMAIN requests' : j + 1 \in DOMAIN requests /\ requests'[j] = requests[j + 1]
  BY HeadOfSeq DEF Queues, QueueTypes, Answer
<1>2. result \in Results /\ result.command = requests[1]
  BY <1>1 DEF Results
<1>3. results' = Append(results, result)
  BY DEF Answer
<1> HIDE DEF result
<1>4. /\ results' \in Seq(Results) /\ Len(results) \in Nat
      /\ DOMAIN results = 1..Len(results)
      /\ DOMAIN results' = 1..Len(results) + 1
      /\ \A j \in DOMAIN results : results'[j] = results[j]
      /\ results'[Len(results) + 1].command = requests[1]
  BY <1>2, <1>3, AppendToSeq DEF Queues, QueueTypes
<1>5. recalling' \in BOOLEAN /\ ~recalling'
  BY Zenon
<1>6. QueueTypes'
  BY <1>1, <1>4, <1>5, Zenon DEF Queues, QueueTypes
<1>7. ASSUME requests[1].kind # "move"
      PROVE  MovesAnswered' = MovesAnswered
  BY <1>4, <1>7 DEF MovesAnswered
<1>8. CASE moves = <<>>
  <2>1. MovesAtGateway = {} /\ MovesAnswered = {}
    BY <1>8 DEF Queues, MovesAreSerial
  <2>2. requests[1].kind # "move"
    BY <1>1, <2>1 DEF MovesAtGateway
  <2>3. MovesAtGateway' = {}
    BY <1>1, <2>1 DEF MovesAtGateway
  <2> QED
    BY <1>6, <1>7, <1>8, <2>1, <2>2, <2>3 DEF Queues, MovesAreSerial
<1>9. ASSUME moves # <<>>, MovesAnswered = {},
             NEW i \in DOMAIN requests, MovesAtGateway = {i}, requests[i] = moves[1]
      PROVE  MovesAreSerial'
  <2>1. CASE i = 1
    <3>1. MovesAtGateway' = {}
      BY <1>1, <1>9, <2>1 DEF MovesAtGateway
    <3>2. requests[1].kind = "move"
      BY <1>9, <2>1 DEF MovesAtGateway
    <3>3. MovesAnswered' = {Len(results) + 1}
      BY <1>4, <1>9, <3>2 DEF MovesAnswered
    <3>4. Len(results) + 1 \in DOMAIN results' /\ results'[Len(results) + 1].command = moves'[1]
      BY <1>4, <1>9, <2>1
    <3> QED
      BY <1>9, <3>1, <3>3, <3>4 DEF MovesAreSerial
  <2>2. CASE i # 1
    <3>1. requests[1].kind # "move"
      BY <1>1, <1>9, <2>2 DEF MovesAtGateway
    <3>2. i - 1 \in DOMAIN requests' /\ requests'[i - 1] = requests[i]
      BY <1>1, <1>9, <2>2
    <3>3. \A j \in DOMAIN requests' : requests'[j].kind = "move" <=> j + 1 \in MovesAtGateway
      BY <1>1 DEF MovesAtGateway
    <3>4. MovesAtGateway' = {i - 1}
      BY <1>1, <1>9, <3>2, <3>3 DEF MovesAtGateway
    <3> QED
      BY <1>7, <1>9, <3>1, <3>2, <3>4 DEF MovesAreSerial
  <2> QED
    BY <2>1, <2>2
<1>10. ASSUME moves # <<>>, MovesAtGateway = {},
              NEW i \in DOMAIN results, MovesAnswered = {i}, results[i].command = moves[1]
       PROVE  MovesAreSerial'
  <2>1. requests[1].kind # "move"
    BY <1>1, <1>10 DEF MovesAtGateway
  <2>2. MovesAtGateway' = {}
    BY <1>1, <1>10 DEF MovesAtGateway
  <2>3. i \in DOMAIN results' /\ results'[i] = results[i]
    BY <1>4, <1>10
  <2> QED
    BY <1>7, <1>10, <2>1, <2>2, <2>3 DEF MovesAreSerial
<1> QED
  BY <1>6, <1>8, <1>9, <1>10 DEF Queues, MovesAreSerial

(* An answer that is taken off the wire.                                   *)
LEMMA TakeResult ==
    ASSUME Queues, results # <<>>, results' = Tail(results)
    PROVE  /\ Head(results) \in Results /\ Head(results) = results[1]
           /\ results' \in Seq(Results)
           /\ \A j \in DOMAIN results' : j + 1 \in DOMAIN results /\ results'[j] = results[j + 1]
           /\ \A j \in DOMAIN results : j # 1 => j - 1 \in DOMAIN results'
           /\ 1 \in DOMAIN results
BY HeadOfSeq DEF Queues, QueueTypes

(* An answer to a command that is no move leaves the moves as they are.    *)
LEMMA OtherAnswer ==
    ASSUME Queues, results # <<>>, results' = Tail(results),
           Head(results).command.kind # "move",
           UNCHANGED <<moves, requests, recalling>>
    PROVE  Queues'
<1>1. QueueTypes'
  BY TakeResult, Zenon DEF Queues, QueueTypes
<1>2. MovesAtGateway' = MovesAtGateway
  BY DEF MovesAtGateway
<1>3. ASSUME MovesAnswered = {}
      PROVE  MovesAnswered' = {}
  BY <1>3, TakeResult DEF MovesAnswered
<1>4. ASSUME NEW i \in DOMAIN results, MovesAnswered = {i}
      PROVE  /\ i - 1 \in DOMAIN results' /\ results'[i - 1] = results[i]
             /\ MovesAnswered' = {i - 1}
  <2>1. i # 1 /\ DOMAIN results = 1..Len(results)
    BY <1>4, TakeResult, LenProperties DEF MovesAnswered, Queues, QueueTypes
  <2>2. i - 1 \in DOMAIN results' /\ results'[i - 1] = results[i]
    BY <2>1, TakeResult
  <2>3. \A j \in DOMAIN results' : results'[j].command.kind = "move" <=> j + 1 \in MovesAnswered
    BY TakeResult DEF MovesAnswered
  <2>4. DOMAIN results' = 1..Len(results')
    BY TakeResult, LenProperties
  <2>5. MovesAnswered' = {i - 1}
    BY <1>4, <2>1, <2>2, <2>3, <2>4 DEF MovesAnswered
  <2> QED
    BY <2>2, <2>5
<1>5. MovesAreSerial'
  BY <1>2, <1>3, <1>4 DEF Queues, MovesAreSerial
<1> QED
  BY <1>1, <1>5 DEF Queues

(* An answered move is the only one under way.                             *)
LEMMA AnsweredMove ==
    ASSUME Queues, results # <<>>, results' = Tail(results),
           Head(results).command.kind = "move"
    PROVE  moves # <<>> /\ MovesAtGateway = {} /\ MovesAnswered' = {}
<1>1. 1 \in MovesAnswered
  BY TakeResult DEF MovesAnswered
<1>2. moves # <<>> /\ MovesAtGateway = {} /\ MovesAnswered = {1}
  BY <1>1 DEF Queues, MovesAreSerial
<1>3. DOMAIN results' = 1..Len(results') /\ Len(results') \in Nat
  BY TakeResult, LenProperties
<1>4. MovesAnswered' = {}
  BY <1>2, <1>3, TakeResult DEF MovesAnswered
<1> QED
  BY <1>2, <1>4

(* After a move the next one is sent.                                      *)
LEMMA NextMoveQueues ==
    ASSUME Queues, results # <<>>, results' = Tail(results),
           NextMove(Head(results).command), UNCHANGED recalling
    PROVE  Queues'
<1>1. CASE Head(results).command.kind # "move"
  BY <1>1, OtherAnswer DEF NextMove
<1>2. CASE Head(results).command.kind = "move"
  <2>1. moves # <<>> /\ MovesAtGateway = {} /\ MovesAnswered' = {}
    BY <1>2, AnsweredMove
  <2>2. /\ moves' = Tail(moves) /\ moves' \in Seq(Commands)
        /\ Len(moves) \in Nat /\ Len(moves) >= 1 /\ DOMAIN moves = 1..Len(moves)
        /\ DOMAIN moves' = 1..Len(moves) - 1
        /\ \A j \in DOMAIN moves' : j + 1 \in DOMAIN moves /\ moves'[j] = moves[j + 1]
    <3>1. moves' = Tail(moves) /\ moves \in Seq(Commands)
      BY <1>2 DEF NextMove, Queues, QueueTypes
    <3> QED
      BY <2>1, <3>1, HeadOfSeq, Zenon
  <2>3. \A i \in DOMAIN moves' :
          moves'[i].kind = "move" /\ DOMAIN moves'[i].previous = {"position"}
    BY <2>2 DEF Queues, QueueTypes
  <2>4. CASE Len(moves) > 1
    <3>1. moves[2] \in Commands /\ moves[2].kind = "move" /\ moves'[1] = moves[2]
      <4>1. 2 \in DOMAIN moves /\ 2 \in 1..Len(moves) /\ 1 \in DOMAIN moves'
        BY <2>2, <2>4
      <4>2. moves[2] \in Commands
        BY <4>1, ElementOfSeq DEF Queues, QueueTypes
      <4>3. moves[2].kind = "move"
        BY <4>1 DEF Queues, QueueTypes
      <4>4. moves'[1] = moves[1 + 1]
        BY <2>2, <4>1
      <4> QED
        BY <4>2, <4>3, <4>4
    <3>2. requests' = Append(requests, moves[2])
      BY <1>2, <2>4 DEF NextMove
    <3>3. /\ requests' \in Seq(Commands) /\ requests' # <<>>
          /\ DOMAIN requests = 1..Len(requests) /\ Len(requests) \in Nat
          /\ DOMAIN requests' = 1..Len(requests) + 1
          /\ \A j \in DOMAIN requests : requests'[j] = requests[j]
          /\ requests'[Len(requests) + 1] = moves[2]
      <4>1. requests \in Seq(Commands) /\ moves[2] \in Commands
        BY <3>1 DEF Queues, QueueTypes
      <4> QED
        BY ONLY <3>2, <4>1, AppendToSeq
    <3>4. QueueTypes'
      BY <2>2, <2>3, <3>3, TakeResult, Zenon DEF Queues, QueueTypes
    <3>5. MovesAtGateway' = {Len(requests) + 1}
      <4>1. \A j \in DOMAIN requests' :
                requests'[j].kind = "move" <=> j = Len(requests) + 1
        BY <2>1, <3>1, <3>3 DEF MovesAtGateway
      <4>2. Len(requests) + 1 \in DOMAIN requests'
        BY <3>3
      <4> QED
        BY <4>1, <4>2 DEF MovesAtGateway
    <3>6. moves' # <<>>
      <4>1. 1 \in DOMAIN moves'
        BY <2>2, <2>4
      <4> QED
        BY <4>1
    <3>7. Len(requests) + 1 \in DOMAIN requests' /\ requests'[Len(requests) + 1] = moves'[1]
      BY <3>1, <3>3
    <3>8. MovesAreSerial'
      BY <2>1, <3>5, <3>6, <3>7 DEF MovesAreSerial
    <3> QED
      BY <3>4, <3>8 DEF Queues
  <2>5. CASE ~(Len(moves) > 1)
    <3>1. requests' = requests
      BY <1>2, <2>5 DEF NextMove
    <3>2. QueueTypes'
      BY <2>2, <2>3, <3>1, TakeResult, Zenon DEF Queues, QueueTypes
    <3>3. moves' = <<>>
      BY <2>2, <2>5, EmptySeq, LenProperties
    <3>4. MovesAtGateway' = {}
      BY <2>1, <3>1 DEF MovesAtGateway
    <3> QED
      BY <2>1, <3>2, <3>3, <3>4 DEF Queues, MovesAreSerial
  <2> QED
    BY <2>4, <2>5
<1> QED
  BY <1>1, <1>2

(* A move that fails takes the waiting ones with it.                       *)
LEMMA FailedMoveQueues ==
    ASSUME Queues, results # <<>>, results' = Tail(results),
           Head(results).command.kind = "move",
           moves' = <<>>, UNCHANGED <<requests, recalling>>
    PROVE  Queues'
<1>1. MovesAtGateway = {} /\ MovesAnswered' = {}
  BY AnsweredMove
<1>2. moves' \in Seq(Commands) /\ DOMAIN moves' = {}
  BY EmptySeq
<1>3. QueueTypes'
  BY <1>2, TakeResult, Zenon DEF Queues, QueueTypes
<1>4. MovesAtGateway' = {}
  BY <1>1 DEF MovesAtGateway
<1> QED
  BY <1>1, <1>3, <1>4 DEF Queues, MovesAreSerial

-----------------------------------------------------------------------------
(***************************************************************************)
(* The device and the gateway                                              *)
(***************************************************************************)
(* The device tells what it has been set to.                               *)
LEMMA DeviceTypes ==
    ASSUME ToldTypes, clock \in Nat, NEW f \in Fields, NEW value \in Values(f),
           DeviceSets(f, value), UNCHANGED <<learned, known>>
    PROVE  ToldTypes'
<1> DEFINE one == Tells("field", [g \in {f} |-> value])
<1>1. [g \in {f} |-> value] \in Tolds
  <2> DEFINE t == [g \in {f} |-> value]
  <2>1. t = [g \in {f} |-> t[g]] /\ \A g \in {f} : t[g] \in Values(g)
    OBVIOUS
  <2> HIDE DEF t
  <2>2. t \in Tolds
    BY <2>1, ToldOfValues
  <2> QED
    BY <2>2 DEF t
<1>2. one \in Frames
  BY <1>1 DEF Tells, Frames
<1> HIDE DEF one
<1>3. CASE f # "position"
  <2>1. actual' = [actual EXCEPT ![f] = value] /\ frames' = Append(frames, one)
    BY <1>3 DEF DeviceSets, one
  <2>2. actual' \in State
    <3>1. actual' = [g \in Fields |-> actual'[g]]
      BY <2>1, ValuesOfState DEF ToldTypes
    <3>2. \A g \in Fields : actual'[g] \in Values(g)
      BY <2>1, ValuesOfState DEF ToldTypes
    <3> QED
      BY <3>1, <3>2, StateOfValues
  <2>3. frames' \in Seq(Frames) /\ Len(frames') = Len(frames) + 1 /\ Len(frames) \in Nat
    BY <1>2, <2>1, AppendProperties, LenProperties DEF ToldTypes
  <2> QED
    BY <2>2, <2>3 DEF ToldTypes
<1>4. CASE f = "position"
  <2>1. PICK preset \in State :
            /\ actual' = preset
            /\ frames' = frames \o
                   <<one, Tells("preset", [g \in Blocks \cup Lights \cup (Scalars \cap {"tempo"}) |-> preset[g]])>>
    BY <1>4 DEF DeviceSets, one
  <2> DEFINE T == Blocks \cup Lights \cup (Scalars \cap {"tempo"})
             t == [g \in T |-> preset[g]]
             two == <<one, Tells("preset", t)>>
  <2>2. T \in SUBSET Fields
    BY DEF Fields, Settings
  <2>3. t = [g \in T |-> t[g]] /\ \A g \in T : t[g] \in Values(g)
    BY <2>2, ValuesOfState
  <2>4. frames' = frames \o two
    BY <2>1
  <2> HIDE DEF t, T
  <2>5. t \in Tolds
    BY <2>2, <2>3, ToldOfValues
  <2>6. Tells("preset", t) \in Frames
    BY <2>5 DEF Tells, Frames
  <2>7. two \in Seq(Frames)
    BY <1>2, <2>6
  <2>8. frames' \in Seq(Frames) /\ Len(frames') = Len(frames) + Len(two)
    BY <2>4, <2>7, ConcatProperties DEF ToldTypes
  <2>9. Len(frames) \in Nat /\ Len(two) \in Nat
    BY <2>7, LenProperties DEF ToldTypes
  <2> QED
    BY <2>1, <2>8, <2>9 DEF ToldTypes
<1> QED
  BY <1>3, <1>4

LEMMA ToggleTypes ==
    ASSUME ToldTypes, clock \in Nat, NEW blocks \in SUBSET Blocks,
           DeviceToggles(blocks), UNCHANGED <<learned, known>>
    PROVE  ToldTypes'
<1> DEFINE t == [b \in blocks |-> 1 - actual[b]]
<1>1. blocks \in SUBSET Fields /\ \A b \in blocks : b \notin Scalars
  BY CoordinatorAssumption DEF Fields, Settings
<1>2. \A b \in blocks : actual[b] \in 0..1 /\ 1 - actual[b] \in Values(b)
  BY <1>1, ValuesOfState DEF ToldTypes, Values
<1>3. t = [b \in blocks |-> t[b]] /\ \A b \in blocks : t[b] \in Values(b)
  BY <1>2
<1>4. actual' = With(actual, t) /\ frames' = Append(frames, Tells("field", t))
  BY DEF DeviceToggles
<1> HIDE DEF t
<1>5. t \in Tolds
  BY <1>1, <1>3, ToldOfValues
<1>6. Tells("field", t) \in Frames
  BY <1>5 DEF Tells, Frames
<1>7. actual' \in State
  BY <1>4, <1>5, WithType DEF ToldTypes
<1>8. frames' \in Seq(Frames) /\ Len(frames') = Len(frames) + 1 /\ Len(frames) \in Nat
  BY <1>4, <1>6, AppendProperties, LenProperties DEF ToldTypes
<1> QED
  BY <1>7, <1>8 DEF ToldTypes

LEMMA ObeyTypes ==
    ASSUME ToldTypes, clock \in Nat, NEW command \in Commands,
           DeviceObeys(command), UNCHANGED <<learned, known>>
    PROVE  ToldTypes'
<1>1. CASE \E switch \in Stomps : DeviceToggles(switch \cap Blocks)
  BY <1>1, ToggleTypes
<1>2. CASE \E f \in DOMAIN command.target : DeviceSets(f, command.target[f])
  <2>1. PICK f \in DOMAIN command.target : DeviceSets(f, command.target[f])
    BY <1>2
  <2>2. command.target \in Tolds
    BY DEF Commands
  <2>3. f \in Fields /\ command.target[f] \in Values(f)
    BY <2>2, DomainOfTold
  <2> QED
    BY <2>1, <2>3, DeviceTypes
<1> QED
  BY <1>1, <1>2 DEF DeviceObeys

LEMMA LearnTypes ==
    ASSUME ToldTypes, Learn
    PROVE  ToldTypes'
<1>1. Len(frames) \in Nat /\ learned' = learned + 1 /\ learned' \in 1..Len(frames)
  BY LenProperties DEF ToldTypes, Learn
<1>2. frames[learned'] \in Frames
  BY <1>1, ElementOfSeq DEF ToldTypes
<1> DEFINE told == frames[learned'].told
<1>3. told \in Tolds
  BY <1>2 DEF Frames
<1>4. known' = With(known, told)
  BY DEF Learn
<1> HIDE DEF told
<1>6. known' \in State
  BY <1>3, <1>4, WithType DEF ToldTypes
<1>7. frames' = frames /\ actual' = actual
  BY DEF Learn
<1> QED
  BY <1>1, <1>6, <1>7 DEF ToldTypes

LEMMA TakeFrame ==
    ASSUME ToldTypes, ReceiveFrame
    PROVE  Head(frames) \in Frames /\ ToldTypes'
<1>1. frames # <<>> /\ Len(frames) \in Nat
  BY LenProperties, EmptySeq DEF ToldTypes, ReceiveFrame
<1>2. Head(frames) \in Frames /\ frames' \in Seq(Frames) /\ Len(frames') = Len(frames) - 1
  BY <1>1, HeadTailProperties DEF ToldTypes, ReceiveFrame
<1>3. learned' \in 0..Len(frames')
  BY <1>1, <1>2 DEF ToldTypes, ReceiveFrame
<1>4. known' = known /\ actual' = actual
  BY DEF ReceiveFrame
<1> QED
  BY <1>2, <1>3, <1>4 DEF ToldTypes

-----------------------------------------------------------------------------
(***************************************************************************)
(* The invariant                                                           *)
(***************************************************************************)
(* Nothing pends while there is no connection, so that the snapshot of a   *)
(* new one may be shown as it is.                                          *)
Line ==
    /\ link \in {"live", "lost", "connecting", "off"}
    /\ link \in {"connecting", "off"} => \A f \in Fields : ~Pending(f)

Polls == poll \in Poll /\ native \in BOOLEAN

IInv == Counters /\ Desk /\ Queues /\ ToldTypes /\ Polls /\ Line

LEMMA RestType == \A doing \in {"idle", "stopped"} : Rest(doing) \in Poll
BY StartType DEF Rest, Poll

LEMMA InitInvariant == Init => IInv
<1> SUFFICES ASSUME Init
             PROVE  IInv
  OBVIOUS
<1>1. Counters
  BY DEF Init, Counters
<1>2. frames \in Seq(Frames) /\ Len(frames) = 0
  BY EmptySeq DEF Init
<1>3. ToldTypes
  BY <1>2, StartType DEF Init, ToldTypes
<1>4. Polls
  BY RestType, Zenon DEF Init, Idle, Polls
<1>5. Line
  BY DEF Init, Line
<1> QED
  BY <1>1, <1>3, <1>4, <1>5, DeskInit, QueuesInit DEF IInv

(* A link that stays as it is, with no intent that was not there.          *)
LEMMA SameLine ==
    ASSUME Line, link' = link,
           \A f \in Fields : intents'[f] = intents[f] \/ intents'[f] = NoIntent
    PROVE  Line'
BY DEF Line, Pending

LEMMA SameQueues ==
    ASSUME Queues, UNCHANGED <<moves, requests, recalling, results>>
    PROVE  Queues'
BY DEF Queues, QueueTypes, MovesAreSerial, MovesAtGateway, MovesAnswered

LEMMA NewCommandType ==
    ASSUME IInv, NEW kind \in {"set", "move", "press"}, NEW target \in Tolds,
           NEW fields \in SUBSET Fields
    PROVE  /\ NewCommand(kind, target, fields) \in Commands
           /\ NewCommand(kind, target, fields).kind = kind
           /\ DOMAIN NewCommand(kind, target, fields).previous = fields
<1> DEFINE before == [f \in fields |-> shown[f]]
<1>1. nextId \in Ids
  BY DEF IInv, Desk, DeskTypes
<1>2. before = [f \in fields |-> before[f]] /\ \A f \in fields : before[f] \in Values(f)
  BY <1>1, ValuesOfState DEF IInv, Desk, DeskTypes
<1>3. NewCommand(kind, target, fields) =
          [id |-> nextId, kind |-> kind, target |-> target, previous |-> before]
  BY DEF NewCommand
<1> HIDE DEF before
<1>4. before \in Tolds /\ DOMAIN before = fields
  BY <1>1, <1>2, ToldOfValues
<1> QED
  BY <1>1, <1>3, <1>4 DEF Commands

LEMMA RunStep ==
    ASSUME IInv, NEW kind \in {"set", "press"}, NEW target \in Tolds,
           NEW fields \in SUBSET (DOMAIN target \cup Lights), Changed(target) \subseteq fields,
           Run(kind, target, fields)
    PROVE  IInv'
<1>1. Desk'
  <2> DEFINE intended == fields \ Lights
  <2>1. /\ intended \in SUBSET DOMAIN target /\ intended \cap Lights = {}
        /\ Changed(target) \ Lights \subseteq intended
    OBVIOUS
  <2>2. Preview(target, intended)
    BY DEF Run
  <2> HIDE DEF intended
  <2> QED
    BY <2>1, <2>2, PreviewDesk DEF IInv, Counters
<1>2. Queues'
  <2>1. fields \in SUBSET Fields
    BY DomainOfTold, LightsAreFields
  <2> QED
    BY <2>1, NewCommandType, RunQueues DEF IInv, Run
<1>3. Counters' /\ ToldTypes' /\ Polls'
  BY DEF Polls, IInv, Run, Counters, ToldTypes, toldVars, linkVars
<1>4. Line'
  BY DEF Run, Line, linkVars
<1> QED
  BY <1>1, <1>2, <1>3, <1>4 DEF IInv

LEMMA DemonstrateStep ==
    ASSUME IInv, NEW target \in Tolds,
           NEW fields \in SUBSET DOMAIN target, Changed(target) \subseteq fields,
           Demonstrate(target, fields)
    PROVE  IInv'
<1>1. Desk'
  BY DemonstrateDesk DEF IInv
<1>2. Queues'
  BY SameQueues DEF IInv, Demonstrate, wireVars
<1>3. Counters' /\ ToldTypes' /\ Polls'
  BY DEF Polls, IInv, Demonstrate, Counters, ToldTypes, wireVars, toldVars, linkVars
<1>4. Line'
  BY SameLine DEF IInv, Demonstrate, linkVars
<1> QED
  BY <1>1, <1>2, <1>3, <1>4 DEF IInv

(* A field is set to one value.                                            *)
LEMMA OneType ==
    ASSUME NEW f \in Fields, NEW value \in Values(f)
    PROVE  LET one == [g \in {f} |-> value]
           IN  one \in Tolds /\ DOMAIN one = {f} /\ Changed(one) \subseteq {f}
<1> DEFINE one == [g \in {f} |-> value]
<1>1. {f} \in SUBSET Fields /\ one = [g \in {f} |-> one[g]] /\ \A g \in {f} : one[g] \in Values(g)
  OBVIOUS
<1> HIDE DEF one
<1>2. one \in Tolds /\ DOMAIN one = {f}
  BY <1>1, ToldOfValues
<1>3. Changed(one) \subseteq {f}
  BY <1>2 DEF Changed
<1> QED
  BY <1>2, <1>3 DEF one

(* A footswitch drives blocks and lights, or one scalar.                   *)
LEMMA SwitchType ==
    ASSUME NEW switch \in Switches
    PROVE  \/ switch \in Stomps /\ switch \in SUBSET (Blocks \cup Lights)
           \/ switch \notin Stomps /\ \E f \in Scalars : switch = {f}
<1>1. switch \in SUBSET (Blocks \cup Lights) \/ \E f \in Scalars : switch = {f}
  BY CoordinatorAssumption
<1>2. (Blocks \cup Lights) \cap Scalars = {}
  BY CoordinatorAssumption DEF Settings
<1> QED
  BY <1>1, <1>2 DEF Stomps

(* What a footswitch shows are values of what it drives.                   *)
LEMMA PressType ==
    ASSUME Desk, NEW target \in PressTargets
    PROVE  target \in Tolds /\ Changed(target) \in SUBSET DOMAIN target
<1>1. CASE \E switch \in Stomps : target = [f \in switch |-> 1 - shown[f]]
  <2>1. PICK switch \in Stomps : target = [f \in switch |-> 1 - shown[f]]
    BY <1>1
  <2>2. switch \in SUBSET Fields /\ \A f \in switch : f \notin Scalars
    <3>1. switch \in Switches /\ switch \cap Scalars = {}
      BY DEF Stomps
    <3> QED
      BY <3>1, SwitchType DEF Fields, Settings
  <2>3. \A f \in switch : shown[f] \in 0..1 /\ 1 - shown[f] \in Values(f)
    BY <2>2, ValuesOfState DEF Desk, DeskTypes, Values
  <2>4. target = [f \in switch |-> target[f]] /\ \A f \in switch : target[f] \in Values(f)
    BY <2>1, <2>3
  <2> QED
    BY <2>2, <2>4, ToldOfValues DEF Changed
<1>2. CASE \E switch \in Switches \ Stomps : target \in [switch -> 0..MaxValue]
  <2>1. PICK switch \in Switches \ Stomps : target \in [switch -> 0..MaxValue]
    BY <1>2
  <2>2. PICK f \in Scalars : switch = {f}
    BY <2>1, SwitchType
  <2>3. switch \in SUBSET Fields /\ target = [g \in switch |-> target[g]]
        /\ \A g \in switch : target[g] \in Values(g)
    BY <2>1, <2>2 DEF Fields, Settings, Values
  <2> QED
    BY <2>3, ToldOfValues DEF Changed
<1> QED
  BY <1>1, <1>2 DEF PressTargets

LEMMA MoveStep ==
    ASSUME IInv, NEW delta \in {-1, 1}, Move(delta)
    PROVE  IInv'
<1>1. PICK target \in MoveTarget(delta) :
          /\ Preview(Moved(target), {"position"})
          /\ QueueMove(NewCommand("move", Moved(target), {"position"}))
  BY DEF Move
<1>2. /\ "position" \in Fields /\ "position" \notin Lights
      /\ target \in Values("position")
  BY <1>1, CoordinatorAssumption DEF Move, MoveTarget, Fields, Settings
<1>3. /\ Moved(target) \in Tolds /\ DOMAIN Moved(target) = {"position"}
      /\ Changed(Moved(target)) \subseteq {"position"}
  BY <1>2, OneType DEF Moved
<1>4. Desk'
  BY <1>1, <1>2, <1>3, PreviewDesk DEF IInv, Counters
<1>5. Queues'
  BY <1>1, <1>2, <1>3, NewCommandType, MoveQueues DEF IInv, Move
<1>6. Counters' /\ ToldTypes' /\ Polls' /\ Line'
  BY DEF Polls, IInv, Move, Counters, ToldTypes, toldVars, Line, linkVars
<1> QED
  BY <1>4, <1>5, <1>6 DEF IInv

LEMMA UserStep ==
    ASSUME IInv, User
    PROVE  IInv'
<1>1. ASSUME NEW f \in Settings, NEW value \in Values(f), Set(f, value)
      PROVE  IInv'
  <2> DEFINE one == [g \in {f} |-> value]
  <2>1. one \in Tolds /\ {f} \in SUBSET DOMAIN one /\ Changed(one) \subseteq {f}
    BY OneType, LightsAreFields
  <2>2. Run("set", one, {f})
    BY <1>1 DEF Set
  <2> HIDE DEF one
  <2> QED
    BY <2>1, <2>2, RunStep
<1>2. ASSUME NEW target \in PressTargets, Press(target)
      PROVE  IInv'
  <2> DEFINE fields == Changed(target) \cup Lights
  <2>1. /\ target \in Tolds /\ Changed(target) \subseteq fields
        /\ fields \in SUBSET (DOMAIN target \cup Lights)
    BY PressType DEF IInv
  <2>2. Run("press", target, fields)
    BY <1>2 DEF Press
  <2> HIDE DEF fields
  <2> QED
    BY <2>1, <2>2, RunStep
<1>3. ASSUME NEW delta \in {-1, 1}, Move(delta)
      PROVE  IInv'
  BY <1>3, MoveStep
<1>4. ASSUME NEW f \in Settings, NEW value \in Values(f), Demonstrate([g \in {f} |-> value], {f})
      PROVE  IInv'
  BY <1>4, OneType, LightsAreFields, DemonstrateStep
<1>5. ASSUME NEW target \in PressTargets, Demonstrate(target, Changed(target))
      PROVE  IInv'
  BY <1>5, PressType, DemonstrateStep DEF IInv
<1> QED
  BY <1>1, <1>2, <1>3, <1>4, <1>5 DEF User

LEMMA LearnStep ==
    ASSUME IInv, Learn
    PROVE  IInv'
<1>1. Desk'
  BY SameDesk DEF IInv, Learn, deskVars
<1>2. Queues'
  BY DEF IInv, Learn, deskVars, Queues, QueueTypes, MovesAreSerial, MovesAtGateway, MovesAnswered
<1>3. Counters' /\ Polls' /\ Line'
  BY SameLine DEF Polls, IInv, Learn, Counters, deskVars, linkVars
<1> QED
  BY <1>1, <1>2, <1>3, LearnTypes DEF IInv

LEMMA ExecuteStep ==
    ASSUME IInv, Execute
    PROVE  IInv'
<1> DEFINE first == Head(requests)
<1>1. requests # <<>> /\ first \in Commands
  BY HeadOfSeq DEF IInv, Queues, QueueTypes, Execute
<1>3. Desk'
  BY SameDesk DEF IInv, Execute, deskVars
<1>4. Counters' /\ Polls' /\ Line'
  BY SameLine DEF Polls, IInv, Execute, Counters, deskVars, linkVars
<1>5. ToldTypes'
  <2>1. CASE UNCHANGED <<actual, frames>>
    BY <2>1 DEF IInv, Execute, ToldTypes
  <2>2. CASE DeviceObeys(first)
    BY <1>1, <2>2, ObeyTypes DEF IInv, Execute, Counters
  <2> QED
    BY <2>1, <2>2 DEF Execute
<1>6. Queues'
  <2>1. moves' = moves
    BY DEF Execute, deskVars
  <2>2. CASE \E answer \in {"accepted", "error"} : Answer(answer, Start) /\ UNCHANGED recalling
    <3>1. recalling' = FALSE
      BY <2>2, Zenon DEF IInv, Queues, QueueTypes, Execute
    <3>2. PICK answer \in {"accepted", "error"} : Answer(answer, Start)
      BY <2>2
    <3> QED
      BY <1>1, <2>1, <3>1, <3>2, StartType, AnswerQueues DEF IInv, Counters
  <2>3. CASE recalling' = TRUE /\ UNCHANGED <<requests, results>>
    <3>1. recalling' \in BOOLEAN
      BY <2>3, Zenon
    <3>2. QueueTypes'
      BY <1>1, <2>1, <2>3, <3>1, Zenon DEF IInv, Queues, QueueTypes
    <3>3. MovesAreSerial'
      BY <2>1, <2>3 DEF IInv, Queues, MovesAreSerial, MovesAtGateway, MovesAnswered
    <3> QED
      BY <3>2, <3>3 DEF Queues
  <2> QED
    BY <2>2, <2>3 DEF Execute
<1> QED
  BY <1>3, <1>4, <1>5, <1>6 DEF IInv

LEMMA FinishRecallStep ==
    ASSUME IInv, FinishRecall
    PROVE  IInv'
<1>1. requests # <<>> /\ moves' = moves /\ recalling' = FALSE
  BY DEF IInv, Queues, QueueTypes, FinishRecall, deskVars
<1>2. PICK answer \in {"read", "accepted", "error"}, snapshot \in State : Answer(answer, snapshot)
  BY StartType DEF FinishRecall, IInv, ToldTypes
<1>3. Queues'
  BY <1>1, <1>2, AnswerQueues DEF IInv, Counters
<1>4. Desk'
  BY SameDesk DEF IInv, FinishRecall, deskVars
<1>5. Counters' /\ ToldTypes' /\ Polls' /\ Line'
  BY SameLine DEF Polls, IInv, FinishRecall, Counters, ToldTypes, toldVars, deskVars, linkVars
<1> QED
  BY <1>3, <1>4, <1>5 DEF IInv

LEMMA TouchStep ==
    ASSUME IInv, NEW f \in Settings, NEW value \in Values(f), Touch(f, value)
    PROVE  IInv'
<1>1. Desk'
  BY SameDesk DEF IInv, Touch, deskVars
<1>2. Queues'
  BY SameQueues DEF IInv, Touch, deskVars
<1>3. ToldTypes'
  BY LightsAreFields, DeviceTypes DEF IInv, Counters, Touch
<1>4. Counters' /\ Polls' /\ Line'
  BY SameLine DEF Polls, IInv, Touch, Counters, deskVars, linkVars
<1> QED
  BY <1>1, <1>2, <1>3, <1>4 DEF IInv

LEMMA ReceiveFrameStep ==
    ASSUME IInv, ReceiveFrame
    PROVE  IInv'
<1>1. Head(frames).told \in Tolds /\ ToldTypes'
  BY TakeFrame DEF IInv, Frames
<1>2. nextId' = nextId /\ link' = link
  BY DEF ReceiveFrame, linkVars
<1>3. Queues' /\ Counters'
  BY SameQueues DEF IInv, ReceiveFrame, Counters, linkVars
<1>4. CASE native' = TRUE /\ ReconcileFrame(Head(frames))
  <2> DEFINE frame == Head(frames)
             told == [f \in DOMAIN frame.told \ Lights |-> frame.told[f]]
  <2>1. told \in Tolds
    <3> DEFINE heard == DOMAIN frame.told \ Lights
    <3>1. heard \in SUBSET Fields /\ told = [f \in heard |-> told[f]]
          /\ \A f \in heard : told[f] \in Values(f)
      BY <1>1, DomainOfTold
    <3> HIDE DEF told, heard
    <3> QED
      BY <3>1, ToldOfValues
  <2>2. PICK at, grid, left : Observe(told, at, at, grid, left)
    BY <1>4 DEF ReconcileFrame
  <2> HIDE DEF told
  <2>3. Desk'
    BY <1>2, <2>1, <2>2, ObserveDesk DEF IInv
  <2>4. Line'
    BY <1>2, <2>2, SameLine DEF IInv, Observe, Forget
  <2>5. Polls'
    BY <1>4, Zenon DEF IInv, Polls, ReceiveFrame
  <2> QED
    BY <1>1, <1>3, <2>3, <2>4, <2>5 DEF IInv
<1>5. CASE UNCHANGED <<native, shown, intents, writer>>
  <2>1. Desk'
    BY <1>2, <1>5, SameDesk DEF IInv
  <2>2. Line' /\ Polls'
    BY <1>2, <1>5, SameLine DEF IInv, Polls, ReceiveFrame
  <2> QED
    BY <1>1, <1>3, <2>1, <2>2 DEF IInv
<1> QED
  BY <1>4, <1>5 DEF ReceiveFrame

LEMMA SucceedStep ==
    ASSUME IInv, Succeed
    PROVE  IInv'
<1>1. Head(results).snapshot \in Tolds
  <2>1. Head(results) \in Results
    BY HeadOfSeq DEF IInv, Queues, QueueTypes, Succeed
  <2> QED
    BY <2>1, StateIsTold DEF Results
<1>2. Desk'
  <2>1. CASE Observe(Head(results).snapshot, clock, clock, Fields, {})
    BY <1>1, <2>1, ObserveDesk DEF IInv, Succeed
  <2>2. CASE UNCHANGED <<shown, intents, writer>>
    BY <2>2, SameDesk DEF IInv, Succeed
  <2> QED
    BY <2>1, <2>2 DEF Succeed
<1>3. Queues'
  BY NextMoveQueues DEF IInv, Succeed
<1>4. Counters' /\ ToldTypes' /\ Polls'
  BY DEF Polls, IInv, Succeed, Counters, ToldTypes, toldVars, linkVars
<1>5. Line'
  BY SameLine DEF IInv, Succeed, Observe, Forget, linkVars
<1> QED
  BY <1>2, <1>3, <1>4, <1>5 DEF IInv

LEMMA FailStep ==
    ASSUME IInv, Fail
    PROVE  IInv'
<1> DEFINE command == Head(results).command
<1>1. results # <<>> /\ results' = Tail(results) /\ nextId' = nextId
  BY DEF Fail
<1>2. command \in Commands
  <2>1. Head(results) \in Results
    BY <1>1, HeadOfSeq DEF IInv, Queues, QueueTypes
  <2> QED
    BY <2>1 DEF Results
<1>3. {moves[i] : i \in DOMAIN moves} \in SUBSET Commands
  BY ElementOfSeq, LenProperties DEF IInv, Queues, QueueTypes
<1>4. Desk'
  BY <1>1, <1>2, <1>3, RollBackDesk DEF IInv, Fail
<1>5. Queues'
  BY <1>1, OtherAnswer, FailedMoveQueues DEF IInv, Fail
<1>6. Counters' /\ ToldTypes' /\ Polls'
  BY DEF Polls, IInv, Fail, Counters, ToldTypes, toldVars, linkVars
<1>7. Line'
  BY SameLine DEF IInv, Fail, RollBack, Forget, linkVars
<1> QED
  BY <1>4, <1>5, <1>6, <1>7 DEF IInv

LEMMA SnapshotsStep ==
    ASSUME IInv, Snapshots \/ StopPolling
    PROVE  IInv'
<1>1. Counters' /\ ToldTypes'
  BY DEF IInv, Snapshots, AskSnapshot, ReadSnapshot, ShowSnapshot, StopPolling,
         Counters, ToldTypes, wireVars, toldVars, linkVars
<1>2. Queues' /\ native' = native
  BY SameQueues DEF IInv, Snapshots, AskSnapshot, ReadSnapshot, ShowSnapshot, StopPolling,
         wireVars, deskVars
<1>3. poll \in Poll /\ poll = [doing |-> poll.doing, started |-> poll.started, snapshot |-> poll.snapshot]
  BY DEF IInv, Polls, Poll
<1>9. ASSUME poll' \in Poll
      PROVE  Polls'
  BY <1>2, <1>9, Zenon DEF IInv, Polls
<1>4. CASE AskSnapshot
  <2>1. poll' = [doing |-> "asked", started |-> clock, snapshot |-> poll.snapshot]
    BY <1>3, <1>4 DEF AskSnapshot
  <2>2. poll' \in Poll
    BY <1>3, <2>1 DEF Poll, IInv, Counters
  <2>3. Desk'
    BY <1>4, SameDesk DEF IInv, AskSnapshot, deskVars
  <2>4. Line'
    BY <1>4, SameLine DEF IInv, AskSnapshot, deskVars, linkVars
  <2> QED
    BY <1>1, <1>2, <1>9, <2>2, <2>3, <2>4 DEF IInv
<1>5. CASE ReadSnapshot
  <2>1. poll' = [doing |-> "answered", started |-> poll.started, snapshot |-> known]
    BY <1>3, <1>5 DEF ReadSnapshot
  <2>2. poll' \in Poll
    BY <1>3, <2>1 DEF Poll, IInv, ToldTypes
  <2>3. Desk'
    BY <1>5, SameDesk DEF IInv, ReadSnapshot, deskVars
  <2>4. Line'
    BY <1>5, SameLine DEF IInv, ReadSnapshot, deskVars, linkVars
  <2> QED
    BY <1>1, <1>2, <1>9, <2>2, <2>3, <2>4 DEF IInv
<1>6. CASE ShowSnapshot
  <2>1. poll.snapshot \in State /\ poll.snapshot \in Tolds
    BY <1>3, StateIsTold DEF Poll
  <2>2. poll' \in Poll /\ nextId' = nextId /\ link' = "live"
    <3>1. \E doing \in {"idle", "stopped"} : poll' = Rest(doing)
      BY <1>6, Zenon DEF ShowSnapshot
    <3> QED
      BY <1>6, <3>1, RestType DEF ShowSnapshot
  <2>3. Line'
    BY <2>2 DEF Line
  <2>4. CASE Observe(poll.snapshot, poll.started, clock, Fields, {})
    <3>1. Desk'
      BY <2>1, <2>2, <2>4, ObserveDesk DEF IInv
    <3> QED
      BY <1>1, <1>2, <1>9, <2>2, <2>3, <3>1 DEF IInv
  <2>5. CASE link = "connecting" /\ ~Observe(poll.snapshot, poll.started, clock, Fields, {})
    <3>1. /\ shown' \in State /\ writer' = [f \in Fields |-> 0] /\ intents' = intents
      BY <1>6, <2>1, <2>5 DEF ShowSnapshot
    <3>2. intents' \in [Fields -> Intent] /\ \A f \in Fields : intents'[f] = NoIntent
      BY <2>5, <3>1 DEF IInv, Line, Pending, Desk, DeskTypes
    <3>3. writer' \in [Fields -> Nat] /\ \A f \in Fields : writer'[f] = 0
      BY <3>1
    <3>4. Desk'
      BY <2>2, <3>1, <3>2, <3>3, AfreshDesk DEF IInv
    <3> QED
      BY <1>1, <1>2, <1>9, <2>2, <2>3, <3>4 DEF IInv
  <2> QED
    BY <1>6, <2>4, <2>5 DEF ShowSnapshot
<1>7. CASE StopPolling
  <2>1. poll' \in Poll
    BY <1>7, RestType DEF StopPolling
  <2>2. Desk'
    BY <1>7, SameDesk DEF IInv, StopPolling, deskVars
  <2>3. Line'
    BY <1>7, SameLine DEF IInv, StopPolling, deskVars, linkVars
  <2> QED
    BY <1>1, <1>2, <1>9, <2>1, <2>2, <2>3 DEF IInv
<1> QED
  BY <1>4, <1>5, <1>6, <1>7 DEF Snapshots

LEMMA TickStep ==
    ASSUME IInv, Tick
    PROVE  IInv'
<1>1. Desk'
  BY SameDesk DEF IInv, Tick, deskVars
<1>2. Queues'
  BY SameQueues DEF IInv, Tick, deskVars, wireVars
<1>3. Counters' /\ ToldTypes' /\ Polls' /\ Line'
  BY SameLine DEF Polls, IInv, Tick, Counters, ToldTypes, deskVars, wireVars, toldVars, linkVars
<1> QED
  BY <1>1, <1>2, <1>3 DEF IInv

(* A change of the link: intents are dropped or left as they are, and a    *)
(* snapshot under way is dropped.                                          *)
LEMMA ConnectionStep ==
    ASSUME IInv, Connection
    PROVE  IInv'
<1>1. poll' = Idle /\ UNCHANGED <<native, shown, nextId, writer, moves, requests, recalling, results>>
  BY DEF Connection, Connect, Disconnect, Lose, ConnectFails, Break, deskVars, wireVars
<1>2. Queues'
  BY <1>1, SameQueues DEF IInv
<1>3. Counters' /\ ToldTypes' /\ Polls'
  <2>1. Counters' /\ ToldTypes'
    BY DEF IInv, Connection, Connect, Disconnect, Lose, ConnectFails, Break,
           Counters, ToldTypes, wireVars, toldVars
  <2>2. Polls'
    BY <1>1, RestType, Zenon DEF IInv, Polls, Idle
  <2> QED
    BY <2>1, <2>2
<1>4. CASE Forget(Fields) /\ link' \in {"connecting", "off"}
  <2>1. \A f \in Fields : intents'[f] = NoIntent
    BY <1>4 DEF Forget
  <2>2. intents' \in [Fields -> Intent]
    BY <1>4, ForgetType DEF IInv
  <2>3. Desk'
    BY <1>1, <2>1, <2>2, AfreshDesk DEF IInv, Desk, DeskTypes
  <2>4. Line'
    BY <1>4, <2>1 DEF Line, Pending
  <2> QED
    BY <1>2, <1>3, <2>3, <2>4 DEF IInv
<1>5. CASE UNCHANGED intents /\ (link' = "lost" \/ (link = "connecting" /\ link' = "off"))
  <2>1. Desk'
    BY <1>1, <1>5, SameDesk DEF IInv
  <2>2. Line'
    BY <1>5 DEF IInv, Line, Pending
  <2> QED
    BY <1>2, <1>3, <2>1, <2>2 DEF IInv
<1>6. CASE Connect \/ Disconnect
  BY <1>4, <1>6 DEF Connect, Disconnect, Break
<1>7. CASE Lose
  <2>1. UNCHANGED intents /\ link' = "lost"
    BY ONLY <1>7 DEF Lose, Break
  <2> QED
    BY <1>5, <2>1
<1>8. CASE ConnectFails
  BY <1>5, <1>8 DEF ConnectFails, deskVars
<1> QED
  BY <1>6, <1>7, <1>8 DEF Connection

LEMMA StepInvariant == IInv /\ [Next]_vars => IInv'
<1> SUFFICES ASSUME IInv, [Next]_vars
             PROVE  IInv'
  OBVIOUS
<1>1. CASE User
  BY <1>1, UserStep
<1>2. CASE Gateway
  BY <1>2, ExecuteStep, FinishRecallStep DEF Gateway
<1>3. CASE Learn
  BY <1>3, LearnStep
<1>4. CASE \E f \in Settings : \E value \in Values(f) : Touch(f, value)
  BY <1>4, TouchStep
<1>5. CASE Receive
  BY <1>5, ReceiveFrameStep, SucceedStep, FailStep DEF Receive
<1>6. CASE Snapshots \/ StopPolling
  BY <1>6, SnapshotsStep
<1>7. CASE Tick
  BY <1>7, TickStep
<1>8. CASE UNCHANGED vars
  <2>1. Desk'
    BY <1>8, SameDesk DEF IInv, vars, deskVars
  <2>2. Queues'
    BY <1>8, SameQueues DEF IInv, vars, deskVars, wireVars
  <2>3. Counters' /\ ToldTypes' /\ Polls' /\ Line'
    BY <1>8, SameLine DEF Polls, IInv, vars, Counters, ToldTypes, deskVars, wireVars, toldVars, linkVars
  <2> QED
    BY <2>1, <2>2, <2>3 DEF IInv
<1>9. CASE Connection
  BY <1>9, ConnectionStep
<1> QED
  BY <1>1, <1>2, <1>3, <1>4, <1>5, <1>6, <1>7, <1>8, <1>9 DEF Next

LEMMA Invariant == Spec => []IInv
BY InitInvariant, StepInvariant, PTL DEF Spec

-----------------------------------------------------------------------------
(***************************************************************************)
(* The theorems                                                            *)
(***************************************************************************)
LEMMA InvariantTypes == IInv => TypeOK
<1> SUFFICES ASSUME IInv
             PROVE  TypeOK
  OBVIOUS
<1>1. {clock, nextId, touches, breaks} \subseteq Nat /\ link \in {"live", "lost", "connecting", "off"}
  BY DEF IInv, Counters, Desk, DeskTypes, Ids, Line
<1>2. {shown, known, actual} \subseteq State
  BY DEF IInv, Desk, DeskTypes, ToldTypes
<1>3. intents \in [Fields -> Intent] /\ \A f \in Fields : writer[f] < nextId
  BY DEF IInv, Desk, DeskTypes
<1>4. Commands \subseteq Command
  BY DEF Commands, Command, Ids, Tolds
<1>5. Results \subseteq Result /\ Frames \subseteq Frame
  BY <1>4 DEF Results, Result, Frames, Frame, Tolds
<1>6. /\ \A i \in DOMAIN moves : moves[i] \in Command
      /\ \A i \in DOMAIN requests : requests[i] \in Command
  BY <1>4, ElementOfSeq, LenProperties DEF IInv, Queues, QueueTypes
<1>7. \A i \in DOMAIN results : results[i] \in Result
  BY <1>5, ElementOfSeq, LenProperties DEF IInv, Queues, QueueTypes
<1>8. \A i \in DOMAIN frames : frames[i] \in Frame
  BY <1>5, ElementOfSeq, LenProperties DEF IInv, ToldTypes
<1>9. recalling \in BOOLEAN /\ (recalling => requests # <<>>)
  BY Zenon DEF IInv, Queues, QueueTypes
<1>10. learned \in 0..Len(frames) /\ poll \in Poll
  BY DEF IInv, Polls, ToldTypes
<1>11. native \in BOOLEAN
  BY Zenon DEF IInv, Polls
<1> QED
  BY ONLY <1>1, <1>2, <1>3, <1>6, <1>7, <1>8, <1>9, <1>10, <1>11, Zenon DEF TypeOK

(* Every variable keeps its type: in particular no preset position before  *)
(* the first or after the last is shown, asked for or restored, and no     *)
(* command without an id is under way.                                     *)
THEOREM TypeCorrect == Spec => []TypeOK
BY Invariant, InvariantTypes, PTL

(* While a command is pending its effect stays on screen.                  *)
THEOREM PendingStaysShown == Spec => []PendingIsShown
<1>1. IInv => PendingIsShown
  BY DEF IInv, Desk
<1> QED
  BY <1>1, Invariant, PTL

(* Preset moves go to the gateway one at a time, in the order they were    *)
(* given, and while one waits one is under way.                            *)
THEOREM MovesGoOneAtATime == Spec => []MovesAreSerial
<1>1. IInv => MovesAreSerial
  BY DEF IInv, Queues
<1> QED
  BY <1>1, Invariant, PTL

(* A failure undoes, of the scalars and the bypasses, the preview of a     *)
(* failing command and nothing else.                                       *)
THEOREM FailureUndoesOwnPreview == Spec => RollbackUndoesOwnPreview
<1>1. ASSUME IInv, Fail, NEW f \in Settings, shown'[f] # shown[f]
      PROVE  OwnPreview(f)
  <2> DEFINE command == Head(results).command
             waiting == {moves[i] : i \in DOMAIN moves}
  <2>1. command \in Commands /\ waiting \in SUBSET Commands
    <3>1. results # <<>>
      BY <1>1 DEF Fail
    <3>2. command \in Commands
      <4>1. Head(results) \in Results
        BY <1>1, <3>1, HeadOfSeq DEF IInv, Queues, QueueTypes
      <4> QED
        BY <4>1 DEF Results
    <3>3. waiting \in SUBSET Commands
      BY <1>1, ElementOfSeq, LenProperties DEF IInv, Queues, QueueTypes
    <3> QED
      BY <3>2, <3>3
  <2>2. PICK commands \in {{command}, waiting} : RollBack(commands)
    BY <1>1 DEF Fail
  <2>3. f \in Fields /\ f \notin Lights
    BY CoordinatorAssumption DEF Fields
  <2>9. PICK c \in commands : Owns(c, f)
    BY <1>1, <2>2, <2>3 DEF RollBack, With, Restores
  <2>4. c \in Commands /\ c.id \in Ids /\ intents[f].id = c.id /\ f \in DOMAIN c.previous
    BY <2>1, <2>2, <2>9 DEF Owns, Commands
  <2>5. Pending(f)
    BY <2>4, NoIntentType DEF Pending, Ids
  <2>6. writer[f] = c.id
    BY <1>1, <2>3, <2>4, <2>5 DEF IInv, Desk, WriterOwnsIntent
  <2>7. CASE c = command
    BY <2>6, <2>7 DEF OwnPreview
  <2>8. CASE c \in waiting
    BY <1>1, <2>4, <2>6, <2>8 DEF IInv, Queues, QueueTypes, OwnPreview
  <2> QED
    BY <2>2, <2>7, <2>8, <2>9
<1>2. ASSUME IInv, [Next]_vars
      PROVE  [Fail => \A f \in Settings : shown'[f] # shown[f] => OwnPreview(f)]_vars
  BY <1>1, <1>2
<1> QED
  BY <1>2, Invariant, PTL DEF Spec, RollbackUndoesOwnPreview

=============================================================================
