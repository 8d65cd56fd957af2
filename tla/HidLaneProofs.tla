--------------------------- MODULE HidLaneProofs ---------------------------
(***************************************************************************)
(* Proofs about HidLane, for reports and frames of any size, any number of *)
(* frames, faults and sessions: the types, that no drop is forgotten, that *)
(* the frames which are returned are the abstract delivery of              *)
(* FrameDelivery, and that a torn frame has its overflow flagged or told.  *)
(*                                                                         *)
(* The last two rest on one invariant.  What is assembled and what is      *)
(* queued are one stream of reports in the order of the device; in it a    *)
(* frame without a lost report has all its reports, one behind the other,  *)
(* and a frame with a lost report lacks it.                                *)
(***************************************************************************)
EXTENDS HidLane, SequenceTheorems, TLAPS

-----------------------------------------------------------------------------
(***************************************************************************)
(* The invariant                                                           *)
(***************************************************************************)
Real(r) == r.frame # 0
Previous(r) == [frame |-> r.frame, part |-> r.part - 1, size |-> r.size]
Before(r, t) ==
    r.frame < t.frame \/ (r.frame = t.frame /\ r.size = t.size /\ r.part < t.part)

OnlyFailed(q, a, b) == \A k \in a .. b : q[k] = Failed

(* Whoever takes place i of the queue q into the assembly finds r, or      *)
(* nothing, in front of it.                                                *)
LastBefore(a, q, r, i) ==
    \/ \E j \in 1 .. i - 1 : q[j] = r /\ OnlyFailed(q, j + 1, i - 1)
    \/ a # <<>> /\ a[Len(a)] = r /\ OnlyFailed(q, 1, i - 1)
NothingBefore(a, q, i) ==
    \/ \E j \in 1 .. i - 1 : q[j] = Short /\ OnlyFailed(q, j + 1, i - 1)
    \/ a = <<>> /\ OnlyFailed(q, 1, i - 1)

Typed == TypeOK /\ (reader = "reading" => errors <= 1)

DeviceOK == IF device.frame = 0 THEN device = Short ELSE device.part \in 1 .. device.size

Flagged == overflowed \/ told

Proper(r) ==
    /\ r.frame \in taken + 1 .. device.frame
    /\ r.part \in 1 .. r.size
    /\ r.frame = device.frame => r.size = device.size /\ r.part <= device.part

Queued == \A i \in 1 .. Len(queue) : queue[i] = Short \/ queue[i] = Failed \/ Proper(queue[i])

Assembled ==
    \A i \in 1 .. Len(assembling) :
        /\ Proper(assembling[i])
        /\ assembling[i].part < assembling[i].size
        /\ assembling[i].part = 1 <=> i = 1

Ordered ==
    /\ \A i, j \in 1 .. Len(queue) :
         i < j /\ Real(queue[i]) /\ Real(queue[j]) => Before(queue[i], queue[j])
    /\ \A i \in 1 .. Len(assembling), j \in 1 .. Len(queue) :
         Real(queue[j]) => Before(assembling[i], queue[j])

Prefix(a, i) ==
    \A k \in 1 .. i : a[k] = [frame |-> a[i].frame, part |-> k, size |-> a[i].size]

Gapless ==
    \A i \in 1 .. Len(assembling) :
        assembling[i].frame \notin missed \/ ~Flagged => Prefix(assembling, i)

Following ==
    \A i \in 1 .. Len(queue) :
        Real(queue[i]) /\ ~IsFirst(queue[i]) =>
            /\ queue[i].frame \notin missed =>
                 LastBefore(assembling, queue, Previous(queue[i]), i)
            /\ ~Flagged =>
                 \/ LastBefore(assembling, queue, Previous(queue[i]), i)
                 \/ NothingBefore(assembling, queue, i)

Latest ==
    /\ device.frame > taken /\ device.frame \notin missed =>
         LastBefore(assembling, queue, device, Len(queue) + 1)
    /\ ~Flagged /\ reader = "reading" /\ device.part < device.size =>
         \/ LastBefore(assembling, queue, device, Len(queue) + 1)
         \/ NothingBefore(assembling, queue, Len(queue) + 1)

Ends(q, n, i) == \E j \in 1 .. i - 1 : q[j].frame = n /\ IsLast(q[j])

Ended ==
    \A n \in taken + 1 .. device.frame - 1 : n \notin missed => Ends(queue, n, Len(queue) + 1)

Absent(n, p) ==
    /\ \A i \in 1 .. Len(queue) : queue[i].frame = n => p <= queue[i].size /\ queue[i].part # p
    /\ \A i \in 1 .. Len(assembling) :
         assembling[i].frame = n => p <= assembling[i].size /\ assembling[i].part # p
    /\ n = device.frame => p <= device.part

Holes == \A n \in missed : n > taken => \E p \in Nat \ {0} : Absent(n, p)

Stream ==
    Queued /\ Assembled /\ Ordered /\ Gapless /\ Following /\ Latest /\ Ended /\ Holes

(* The frame that was taken last is all sent.                              *)
Sent == taken = device.frame => device.part = device.size

StreamInv ==
    /\ Typed
    /\ DeviceOK
    /\ Sent
    /\ open => Stream
    /\ ~open => queue = <<>> /\ taken + 1 .. device.frame \subseteq missed

-----------------------------------------------------------------------------
(***************************************************************************)
(* Types                                                                   *)
(***************************************************************************)
LEMMA Reports ==
    /\ Short \in Report /\ Failed \in Report
    /\ Short # Failed
    /\ \A r \in Report : r.frame \in Nat /\ r.part \in Nat /\ r.size \in Nat
    /\ Capacity \in Nat
  BY LimitsAssumption DEF Report, Short, Failed, Capacity

(* The device goes on by one report.                                       *)
LEMMA DeviceGoesOn ==
    ASSUME TypeOK, DeviceOK, DeviceSends
    PROVE  /\ device' \in Report
           /\ DeviceOK'
           /\ device'.frame \in {device.frame, device.frame + 1}
           /\ device'.frame = device.frame =>
                device'.size = device.size /\ device'.part = device.part + 1
           /\ device'.frame # device.frame =>
                device'.part = 1 /\ device.part = device.size
           /\ device'.frame # 0
           /\ 1 .. device.frame \subseteq 1 .. device'.frame
           /\ device'.frame \in 1 .. device'.frame
  <1>0. device \in Report /\ device.frame \in Nat /\ device.part \in Nat /\ device.size \in Nat
    BY Reports DEF TypeOK
  <1>1. CASE device.part < device.size
    <2>1. device' = [device EXCEPT !.part = device.part + 1]
      BY <1>1 DEF DeviceSends
    <2>2. device'.frame = device.frame /\ device'.size = device.size
          /\ device'.part = device.part + 1
      BY <1>0, <2>1 DEF Report
    <2>3. device.frame # 0
      BY <1>1 DEF DeviceOK, Short
    <2>4. device' \in Report
      BY <1>0, <2>1 DEF Report
    <2> QED
      BY <1>0, <1>1, <2>2, <2>3, <2>4 DEF DeviceOK
  <1>2. CASE ~(device.part < device.size)
    <2>1. PICK size \in Sizes :
            device' = [frame |-> device.frame + 1, part |-> 1, size |-> size]
      BY <1>2 DEF DeviceSends
    <2>2. size \in Nat \ {0}
      BY LimitsAssumption
    <2>3. device' \in Report
      BY <1>0, <2>1, <2>2 DEF Report
    <2>4. device.part = device.size
      BY <1>0, <1>2 DEF DeviceOK, Short
    <2> QED
      BY <1>0, <2>1, <2>2, <2>3, <2>4 DEF DeviceOK
  <1> QED
    BY <1>1, <1>2

LEMMA FramesAreNumbers ==
    ASSUME NEW q \in Seq(Report), NEW n
    PROVE  n \in FramesOf(q) <=> \E i \in 1 .. Len(q) : q[i].frame = n /\ n # 0
  BY DEF FramesOf

(* A queue to which a report is added, and one from which one is taken.    *)
LEMMA Added ==
    ASSUME NEW q \in Seq(Report), NEW e \in Report
    PROVE  /\ Append(q, e) \in Seq(Report)
           /\ Len(q) \in Nat /\ Len(Append(q, e)) = Len(q) + 1
           /\ \A i \in 1 .. Len(q) : Append(q, e)[i] = q[i] /\ q[i] \in Report
           /\ Append(q, e)[Len(q) + 1] = e
  BY AppendProperties, LenProperties, ElementOfSeq

LEMMA Removed ==
    ASSUME NEW q \in Seq(Report), q # <<>>
    PROVE  /\ Tail(q) \in Seq(Report)
           /\ Len(q) \in Nat /\ Len(q) >= 1 /\ Len(Tail(q)) = Len(q) - 1
           /\ Head(q) = q[1] /\ Head(q) \in Report
           /\ \A i \in 1 .. Len(q) - 1 : Tail(q)[i] = q[i + 1]
           /\ \A i \in 1 .. Len(q) : q[i] \in Report
  <1>1. Tail(q) \in Seq(Report) /\ Len(Tail(q)) = Len(q) - 1 /\ Head(q) \in Report
        /\ \A i \in 1 .. Len(Tail(q)) : Tail(q)[i] = q[i + 1]
    BY HeadTailProperties
  <1>2. Len(q) \in Nat /\ Len(q) >= 1
    BY LenProperties, EmptySeq
  <1>3. \A i \in 1 .. Len(q) : q[i] \in Report
    BY ElementOfSeq
  <1> QED
    BY <1>1, <1>2, <1>3

LEMMA TypedInit == Init => Typed /\ DeviceOK
  <1> SUFFICES ASSUME Init PROVE Typed /\ DeviceOK
    OBVIOUS
  <1>1. <<>> \in Seq(Report) /\ Len(<<>>) = 0 /\ Len(<<>>) <= Capacity /\ Len(<<>>) <= MaxReports
    BY LimitsAssumption, Reports DEF Capacity
  <1>2. device \in Report /\ {faults, session, taken} \subseteq Nat
    BY Reports DEF Init
  <1>6. {open, overflowed, intact, dropped, told} \subseteq BOOLEAN
    BY Zenon DEF Init
  <1>7. device.frame = 0 /\ device = Short /\ reader # "reading"
    BY DEF Init, Short
  <1>3. /\ reader \in {"reading", "dropping", "stopped"} /\ errors \in 0..2
        /\ doing \in {"handshake", "loop", "backup"} /\ reading \in {"check", "receive"}
        /\ failures \in 0..1 /\ missed \subseteq 1..device.frame
    BY DEF Init
  <1>4. queue \in Seq(Report) /\ Len(queue) <= Capacity /\ assembling \in Seq(Report)
        /\ Len(assembling) <= MaxReports
    BY <1>1 DEF Init
  <1>5. taken <= device.frame
    BY DEF Init, Short
  <1>8. TypeOK
    BY <1>2, <1>3, <1>4, <1>5, <1>6, Zenon DEF TypeOK
  <1> QED
    BY <1>7, <1>8, Zenon DEF Typed, DeviceOK

(* An event is sent into the queue, or dropped.                            *)
LEMMA TrySendTypes ==
    ASSUME TypeOK, NEW e \in Report, NEW onwards \in {"reading", "stopped"},
           TrySend(e, onwards)
    PROVE  /\ queue' \in Seq(Report) /\ Len(queue') <= Capacity
           /\ reader' \in {"dropping", onwards}
           /\ dropped' \in BOOLEAN
  <1>1. queue \in Seq(Report) /\ Len(queue) <= Capacity
    BY DEF TypeOK
  <1>2. CASE Len(queue) < Capacity /\ queue' = Append(queue, e) /\ reader' = onwards
             /\ UNCHANGED dropped
    BY <1>1, <1>2, Added, Reports DEF TypeOK
  <1>3. CASE UNCHANGED queue /\ dropped' = TRUE /\ reader' = "dropping"
    BY <1>1, <1>3
  <1> QED
    BY <1>2, <1>3 DEF TrySend

(* A link that is closed, a read that failed, a read that did not.         *)
LEMMA FramesInRange ==
    ASSUME NEW q \in Seq(Report), NEW n \in Nat,
           \A i \in 1 .. Len(q) : q[i].frame <= n
    PROVE  FramesOf(q) \subseteq 1 .. n
  <1> SUFFICES ASSUME NEW m \in FramesOf(q) PROVE m \in 1 .. n
    OBVIOUS
  <1>1. PICK i \in 1 .. Len(q) : q[i].frame = m /\ m # 0
    BY FramesAreNumbers
  <1>2. q[i] \in Report
    BY ElementOfSeq
  <1> QED
    BY <1>1, <1>2, Reports

(* The assembly with the next report keeps its type.                       *)
LEMMA AssemblyShape ==
    ASSUME TypeOK, queue # <<>>, assembling # <<>> \/ IsFirst(Head(queue))
    PROVE  /\ Assembly \in Seq(Report)
           /\ Len(Assembly) \in Nat /\ Len(Assembly) >= 1
           /\ Assembly # <<>> /\ Assembly[Len(Assembly)] = Head(queue)
           /\ IsFirst(Head(queue)) => Len(Assembly) = 1
           /\ ~IsFirst(Head(queue)) =>
                /\ Len(Assembly) = Len(assembling) + 1
                /\ \A i \in 1 .. Len(assembling) : Assembly[i] = assembling[i]
  <1>1. Head(queue) \in Report /\ assembling \in Seq(Report)
    BY Removed DEF TypeOK
  <1>2. CASE IsFirst(Head(queue))
    <2>1. Assembly = <<Head(queue)>>
      BY <1>2 DEF Assembly
    <2> QED
      BY <1>1, <1>2, <2>1
  <1>3. CASE ~IsFirst(Head(queue))
    <2>1. Assembly = Append(assembling, Head(queue))
      BY <1>3 DEF Assembly
    <2>2. Append(assembling, Head(queue)) # <<>>
      BY <1>1, Added
    <2> QED
      BY <1>1, <1>3, <2>1, <2>2, Added
  <1> QED
    BY <1>2, <1>3

(* Close and ReadError leave the types as they are.                        *)
LEMMA CloseTypes ==
    ASSUME StreamInv, open, Close, UNCHANGED device
    PROVE  /\ open' = FALSE /\ reader' = "stopped"
           /\ queue' = <<>> /\ queue' \in Seq(Report) /\ Len(queue') <= Capacity
           /\ missed \subseteq missed' /\ missed' \subseteq 1 .. device.frame
           /\ taken + 1 .. device.frame \subseteq missed'
  <1>0. /\ queue \in Seq(Report) /\ assembling \in Seq(Report) /\ device.frame \in Nat
        /\ taken \in Nat /\ Capacity \in Nat /\ missed \subseteq 1 .. device.frame
    BY Reports DEF StreamInv, Typed, TypeOK
  <1>1. FramesOf(queue) \subseteq 1 .. device.frame
    <2>1. \A i \in 1 .. Len(queue) : queue[i].frame <= device.frame
      BY <1>0 DEF StreamInv, Stream, Queued, Proper, Short, Failed
    <2> QED
      BY <1>0, <2>1, FramesInRange
  <1>2. FramesOf(assembling) \subseteq 1 .. device.frame
    <2>1. \A i \in 1 .. Len(assembling) : assembling[i].frame <= device.frame
      BY <1>0 DEF StreamInv, Stream, Assembled, Proper
    <2> QED
      BY <1>0, <2>1, FramesInRange
  <1>3. ASSUME NEW n \in taken + 1 .. device.frame, n \notin missed
        PROVE  n \in FramesOf(queue) \cup FramesOf(assembling)
    <2>1. CASE n = device.frame
      <3>1. LastBefore(assembling, queue, device, Len(queue) + 1)
        BY <1>0, <1>3, <2>1 DEF StreamInv, Stream, Latest
      <3>2. CASE \E j \in 1 .. Len(queue) : queue[j] = device
        BY <1>0, <2>1, <3>2, FramesAreNumbers
      <3>3. CASE assembling # <<>> /\ assembling[Len(assembling)] = device
        <4>1. Len(assembling) \in 1 .. Len(assembling)
          BY <1>0, <3>3, LenProperties, EmptySeq
        <4> QED
          BY <1>0, <2>1, <3>3, <4>1, FramesAreNumbers
      <3> QED
        BY <1>0, <3>1, <3>2, <3>3, LenProperties DEF LastBefore
    <2>2. CASE n # device.frame
      <3>1. n \in taken + 1 .. device.frame - 1
        BY <1>0, <2>2
      <3>2. PICK j \in 1 .. Len(queue) : queue[j].frame = n
        BY <1>0, <1>3, <3>1, LenProperties DEF StreamInv, Stream, Ended, Ends
      <3> QED
        BY <1>0, <3>1, <3>2, FramesAreNumbers
    <2> QED
      BY <2>1, <2>2
  <1>4. /\ open' = FALSE /\ reader' = "stopped" /\ queue' = <<>>
        /\ missed' = missed \cup FramesOf(queue) \cup FramesOf(assembling)
    BY DEF Close
  <1>5. <<>> \in Seq(Report) /\ Len(<<>>) = 0
    OBVIOUS
  <1>6. \A n \in taken + 1 .. device.frame : n \in missed'
    BY <1>3, <1>4, Zenon
  <1>7. queue' = <<>> /\ queue' \in Seq(Report) /\ Len(queue') <= Capacity
    BY <1>0, <1>4, <1>5
  <1>8. missed \subseteq missed' /\ missed' \subseteq 1 .. device.frame
    BY <1>0, <1>1, <1>2, <1>4
  <1>9. taken + 1 .. device.frame \subseteq missed'
    BY <1>6
  <1> QED
    BY <1>4, <1>7, <1>8, <1>9

(* What a read of the worker, failed or not, does to the types.            *)
LEMMA ReadOkTypes ==
    ASSUME TypeOK, NEW rest \in Seq(Report), Len(rest) <= Capacity, ReadOk(rest)
    PROVE  /\ queue' \in Seq(Report) /\ Len(queue') <= Capacity
           /\ reading' \in {"check", "receive"} /\ failures' \in 0..1
           /\ UNCHANGED <<device, faults, session, open, reader, errors, overflowed, dropped,
                          doing, told, missed>>
  BY DEF ReadOk, TypeOK, deviceVars

LEMMA ReadErrorTypes ==
    ASSUME StreamInv, open, NEW rest \in Seq(Report), Len(rest) <= Capacity,
           NEW lost \in SUBSET (1 .. device.frame), ReadError(rest, lost)
    PROVE  /\ queue' \in Seq(Report) /\ Len(queue') <= Capacity
           /\ reading' \in {"check", "receive"} /\ failures' \in 0..1
           /\ doing' \in {"handshake", "loop", "backup"}
           /\ open' \in BOOLEAN /\ reader' \in {reader, "stopped"}
           /\ missed \subseteq missed' /\ missed' \subseteq 1 .. device.frame
           /\ \/ /\ ~open' /\ queue' = <<>> /\ taken + 1 .. device.frame \subseteq missed'
              \/ /\ open' /\ queue' = rest /\ missed' = missed \cup lost /\ reader' = reader
           /\ UNCHANGED <<device, faults, session, errors, taken, intact>>
  <1>0. /\ reading' = "check"
        /\ UNCHANGED <<device, faults, session, errors, taken, intact>>
    BY DEF ReadError, deviceVars
  <1>1. CASE Close /\ doing' = "loop" /\ failures' = 0
    BY <1>0, <1>1, CloseTypes
  <1>2. CASE /\ doing' = "loop" /\ failures' = (IF doing = "loop" THEN 1 ELSE failures)
             /\ queue' = rest /\ missed' = missed \cup lost /\ UNCHANGED <<open, reader>>
    <2>1. missed \subseteq 1 .. device.frame /\ failures \in 0..1 /\ open' = open
      BY <1>2 DEF StreamInv, Typed, TypeOK
    <2>2. missed \subseteq missed' /\ missed' \subseteq 1 .. device.frame
      BY <1>2, <2>1
    <2>3. failures' \in 0..1
      BY <1>2, <2>1
    <2> QED
      BY <1>0, <1>2, <2>1, <2>2, <2>3
  <1> QED
    BY <1>1, <1>2 DEF ReadError

(* The head of the queue may be lost, its frame is one of the device's.    *)
LEMMA HeadFrame ==
    ASSUME StreamInv, Pushes
    PROVE  /\ open /\ queue # <<>> /\ Head(queue) \in Report
           /\ Head(queue) = queue[1] /\ 1 \in 1 .. Len(queue)
           /\ Proper(Head(queue)) /\ Real(Head(queue))
           /\ Head(queue) # Failed /\ Head(queue) # Short
           /\ Head(queue).frame \in 1 .. device.frame
           /\ assembling # <<>> \/ IsFirst(Head(queue))
           /\ Len(queue) - 1 \in Nat
           /\ Tail(queue) \in Seq(Report) /\ Len(Tail(queue)) = Len(queue) - 1
           /\ Len(Tail(queue)) <= Capacity
  <1>1. queue \in Seq(Report) /\ queue # <<>> /\ open /\ Head(queue) # Failed
        /\ Head(queue) # Short /\ taken \in Nat /\ device.frame \in Nat
        /\ Len(queue) <= Capacity /\ Capacity \in Nat
    BY Reports DEF StreamInv, Typed, TypeOK, Pushes, Receives
  <1>2. Head(queue) = queue[1] /\ 1 \in 1 .. Len(queue) /\ Head(queue) \in Report
        /\ Tail(queue) \in Seq(Report) /\ Len(Tail(queue)) = Len(queue) - 1
        /\ Len(queue) - 1 \in Nat
    BY <1>1, Removed
  <1>3. Proper(Head(queue))
    BY <1>1, <1>2 DEF StreamInv, Stream, Queued
  <1>4. assembling # <<>> \/ IsFirst(Head(queue))
    BY DEF Pushes, IsOrphan
  <1>5. Head(queue).frame \in 1 .. device.frame
    BY <1>1, <1>3 DEF Proper
  <1>6. Real(Head(queue))
    BY <1>5 DEF Real
  <1> QED
    BY <1>1, <1>2, <1>3, <1>4, <1>5, <1>6

(* TypeOK with its sets taken apart.                                       *)
Types ==
    /\ device \in Report /\ faults \in Nat /\ session \in Nat /\ taken \in Nat
    /\ open \in BOOLEAN /\ overflowed \in BOOLEAN /\ intact \in BOOLEAN
    /\ dropped \in BOOLEAN /\ told \in BOOLEAN
    /\ reader \in {"reading", "dropping", "stopped"} /\ errors \in 0..2
    /\ reader = "reading" => errors <= 1
    /\ queue \in Seq(Report) /\ Len(queue) <= Capacity
    /\ assembling \in Seq(Report) /\ Len(assembling) <= MaxReports
    /\ doing \in {"handshake", "loop", "backup"} /\ reading \in {"check", "receive"}
    /\ failures \in 0..1
    /\ missed \subseteq 1..device.frame /\ taken <= device.frame

LEMMA TypesAreTyped == Types <=> Typed
  BY Zenon DEF Types, Typed, TypeOK

LEMMA UnheardTypes ==
    ASSUME Types, DeviceOK, SendsUnheard PROVE Types' /\ DeviceOK'
  <1>0. TypeOK
    BY TypesAreTyped DEF Typed
  <1>1. /\ device' \in Report /\ DeviceOK' /\ 1 .. device.frame \subseteq 1 .. device'.frame
        /\ device'.frame \in 1 .. device'.frame
        /\ device'.frame \in {device.frame, device.frame + 1}
    BY <1>0, DeviceGoesOn DEF SendsUnheard
  <1>2. missed' \subseteq 1 .. device'.frame
    BY <1>1 DEF Types, SendsUnheard
  <1>3. taken' <= device'.frame
    BY <1>1, Reports DEF Types, SendsUnheard
  <1> QED
    BY <1>1, <1>2, <1>3 DEF Types, SendsUnheard, readerVars, workerVars

LEMMA OpenTypes ==
    ASSUME Types, DeviceOK, Open PROVE Types' /\ DeviceOK'
  <1>1. <<>> \in Seq(Report) /\ Len(<<>>) = 0 /\ 0 <= Capacity /\ 0 <= MaxReports
    BY Reports, LimitsAssumption
  <1>2. UNCHANGED <<device, faults, missed, taken, intact>>
    BY DEF Open, deviceVars, frameVars
  <1>3. /\ queue' = <<>> /\ assembling' = <<>> /\ session' = session + 1 /\ errors' = 0
        /\ reader' = "reading" /\ doing' = "handshake" /\ reading' = "check" /\ failures' = 0
        /\ open' = TRUE /\ overflowed' = FALSE /\ dropped' = FALSE /\ told' = FALSE
    BY DEF Open
  <1>4. /\ queue' \in Seq(Report) /\ Len(queue') <= Capacity
        /\ assembling' \in Seq(Report) /\ Len(assembling') <= MaxReports
    BY <1>1, <1>3
  <1>5. session' \in Nat /\ errors' \in 0..2 /\ errors' <= 1 /\ failures' \in 0..1
    BY <1>3 DEF Types
  <1>6. /\ open' \in BOOLEAN /\ overflowed' \in BOOLEAN /\ dropped' \in BOOLEAN
        /\ told' \in BOOLEAN /\ reader' \in {"reading", "dropping", "stopped"}
        /\ doing' \in {"handshake", "loop", "backup"} /\ reading' \in {"check", "receive"}
    BY <1>3
  <1>7. /\ device' \in Report /\ faults' \in Nat /\ taken' \in Nat /\ intact' \in BOOLEAN
        /\ missed' \subseteq 1..device'.frame /\ taken' <= device'.frame
    BY <1>2 DEF Types
  <1> QED
    BY <1>2, <1>4, <1>5, <1>6, <1>7 DEF Types, DeviceOK

LEMMA ReaderTypes ==
    ASSUME Types, DeviceOK, ReaderNext PROVE Types' /\ DeviceOK'
  <1>0. TypeOK
    BY TypesAreTyped DEF Typed
  <1>1. CASE ReadReport
    <2>1. /\ device' \in Report /\ DeviceOK' /\ 1 .. device.frame \subseteq 1 .. device'.frame
          /\ device'.frame \in 1 .. device'.frame
          /\ device'.frame \in {device.frame, device.frame + 1}
      BY <1>0, <1>1, DeviceGoesOn DEF ReadReport
    <2>2. /\ queue' \in Seq(Report) /\ Len(queue') <= Capacity
          /\ reader' \in {"dropping", "reading"} /\ dropped' \in BOOLEAN
      BY <1>0, <1>1, <2>1, TrySendTypes DEF ReadReport
    <2>3. missed' \subseteq 1 .. device'.frame
      BY <1>1, <2>1 DEF Types, ReadReport
    <2>4. taken' <= device'.frame
      BY <1>1, <2>1, Reports DEF Types, ReadReport
    <2>5. errors' = 0
          /\ UNCHANGED <<faults, session, open, overflowed, workerVars, taken, intact>>
      BY <1>1 DEF ReadReport
    <2> QED
      BY <2>1, <2>2, <2>3, <2>4, <2>5 DEF Types, workerVars
  <1>2. CASE ReadShort
    <2>1. /\ device' \in Report /\ DeviceOK' /\ 1 .. device.frame \subseteq 1 .. device'.frame
          /\ device'.frame \in 1 .. device'.frame
          /\ device'.frame \in {device.frame, device.frame + 1}
      BY <1>0, <1>2, DeviceGoesOn DEF ReadShort
    <2>2. /\ queue' \in Seq(Report) /\ Len(queue') <= Capacity
          /\ reader' \in {"dropping", "reading"} /\ dropped' \in BOOLEAN
      BY <1>0, <1>2, Reports, TrySendTypes DEF ReadShort
    <2>3. missed' \subseteq 1 .. device'.frame
      BY <1>2, <2>1 DEF Types, ReadShort
    <2>4. taken' <= device'.frame
      BY <1>2, <2>1, Reports DEF Types, ReadShort
    <2>5. errors' = 0 /\ faults' = faults + 1
          /\ UNCHANGED <<session, open, overflowed, workerVars, taken, intact>>
      BY <1>2 DEF ReadShort
    <2> QED
      BY <2>1, <2>2, <2>3, <2>4, <2>5 DEF Types, workerVars
  <1>3. CASE ReadNothing
    BY <1>3 DEF Types, DeviceOK, ReadNothing, deviceVars, workerVars, frameVars
  <1>4. CASE ReadFails
    <2>1. errors' = errors + 1 /\ errors <= 1 /\ faults' = faults + 1
          /\ UNCHANGED <<device, session, open, overflowed, workerVars, frameVars>>
      BY <1>4 DEF ReadFails, Types
    <2>2. /\ queue' \in Seq(Report) /\ Len(queue') <= Capacity
          /\ reader' \in {"dropping", IF errors' >= 2 THEN "stopped" ELSE "reading"}
          /\ dropped' \in BOOLEAN
      BY <1>0, <1>4, Reports, TrySendTypes DEF ReadFails
    <2> QED
      BY <2>1, <2>2 DEF Types, DeviceOK, workerVars, frameVars
  <1>5. CASE MarkOverflow
    BY <1>5 DEF Types, DeviceOK, MarkOverflow, deviceVars, workerVars, frameVars
  <1> QED
    BY <1>1, <1>2, <1>3, <1>4, <1>5 DEF ReaderNext

LEMMA ReadsTypes ==
    ASSUME StreamInv, WorkerReads PROVE Types' /\ DeviceOK'
  <1>0. Types /\ TypeOK /\ DeviceOK
    BY TypesAreTyped DEF StreamInv, Typed
  <1>q. queue \in Seq(Report) /\ Len(queue) <= Capacity /\ {} \in SUBSET (1 .. device.frame)
    BY <1>0 DEF Types
  <1>t. ASSUME queue # <<>>
        PROVE  Tail(queue) \in Seq(Report) /\ Len(Tail(queue)) <= Capacity
               /\ Len(queue) - 1 \in Nat /\ Head(queue) \in Report
    BY <1>q, <1>t, Removed, Reports
  <1>e. <<>> \in Seq(Report) /\ Len(<<>>) = 0 /\ 0 <= MaxReports
    BY LimitsAssumption
  <1>1. CASE TakeFlag
    <2>1. open /\ overflowed' = FALSE /\ told' = TRUE /\ dropped' = (reader = "dropping")
          /\ assembling' = assembling /\ ReadError(queue, {})
      BY <1>1 DEF TakeFlag
    <2> QED
      BY <1>0, <1>q, <2>1, ReadErrorTypes DEF Types, DeviceOK
  <1>2. CASE WaitAtQueue
    BY <1>0, <1>2 DEF Types, DeviceOK, WaitAtQueue, deviceVars, readerVars, frameVars
  <1>3. CASE NothingComes
    BY <1>0, <1>q, <1>3, ReadOkTypes DEF Types, DeviceOK, NothingComes
  <1>4. CASE ReaderGone
    <2>1. open /\ UNCHANGED <<overflowed, dropped, assembling, told>> /\ ReadError(queue, {})
      BY <1>4 DEF ReaderGone
    <2> QED
      BY <1>0, <1>q, <2>1, ReadErrorTypes DEF Types, DeviceOK
  <1>5. CASE ReadErrorEvent
    <2>1. open /\ UNCHANGED <<overflowed, dropped, assembling, told>>
          /\ ReadError(Tail(queue), {}) /\ queue # <<>>
      BY <1>5 DEF ReadErrorEvent
    <2> QED
      BY <1>0, <1>q, <1>t, <2>1, ReadErrorTypes DEF Types, DeviceOK
  <1>6. CASE PushShort
    <2>1. queue # <<>> /\ assembling' = <<>> /\ ReadOk(Tail(queue)) /\ UNCHANGED <<taken, intact>>
      BY <1>6 DEF PushShort, Receives
    <2> QED
      BY <1>0, <1>q, <1>t, <1>e, <2>1, ReadOkTypes DEF Types, DeviceOK
  <1>7. CASE PushOrphan
    <2>1. queue # <<>> /\ ReadOk(Tail(queue)) /\ UNCHANGED <<assembling, taken, intact>>
      BY <1>7 DEF PushOrphan, Receives
    <2> QED
      BY <1>0, <1>q, <1>t, <2>1, ReadOkTypes DEF Types, DeviceOK
  <1>8. CASE PushTooLarge
    <2>1. open /\ queue # <<>> /\ assembling' = <<>> /\ UNCHANGED <<overflowed, dropped, told>>
          /\ ReadError(Tail(queue), {Head(queue).frame}) /\ Pushes
      BY <1>8 DEF PushTooLarge, Pushes, Receives
    <2>2. {Head(queue).frame} \in SUBSET (1 .. device.frame)
      BY <2>1, HeadFrame
    <2> QED
      BY <1>0, <1>t, <1>e, <2>1, <2>2, ReadErrorTypes DEF Types, DeviceOK
  <1>9. CASE PushPart
    <2>1. queue # <<>> /\ assembling' = Assembly /\ ReadOk(Tail(queue)) /\ Pushes
          /\ Len(Assembly) <= MaxReports /\ UNCHANGED <<taken, intact>>
      BY <1>9 DEF PushPart, Pushes, Receives
    <2>2. Assembly \in Seq(Report)
      BY <1>0, <2>1, HeadFrame, AssemblyShape
    <2> QED
      BY <1>0, <1>q, <1>t, <2>1, <2>2, ReadOkTypes DEF Types, DeviceOK
  <1>10. CASE PushLast
    <2>1. queue # <<>> /\ assembling' = <<>> /\ ReadOk(Tail(queue)) /\ Pushes
          /\ taken' = Head(queue).frame /\ intact' = Whole(Assembly)
      BY <1>10 DEF PushLast, Completes, Pushes, Receives
    <2>2. taken' \in Nat /\ taken' <= device.frame
      BY <1>0, <2>1, HeadFrame, Reports DEF Types
    <2>3. intact' \in BOOLEAN
      BY <2>1 DEF Whole
    <2> QED
      BY <1>0, <1>q, <1>t, <1>e, <2>1, <2>2, <2>3, ReadOkTypes DEF Types, DeviceOK
  <1>11. CASE PushUndecodable
    <2>1. open /\ queue # <<>> /\ assembling' = <<>> /\ UNCHANGED <<overflowed, dropped, told>>
          /\ ReadError(Tail(queue), {Head(queue).frame}) /\ Pushes
      BY <1>11 DEF PushUndecodable, Completes, Pushes, Receives
    <2>2. {Head(queue).frame} \in SUBSET (1 .. device.frame)
      BY <2>1, HeadFrame
    <2> QED
      BY <1>0, <1>t, <1>e, <2>1, <2>2, ReadErrorTypes DEF Types, DeviceOK
  <1> QED
    BY <1>1, <1>2, <1>3, <1>4, <1>5, <1>6, <1>7, <1>8, <1>9, <1>10, <1>11
    DEF WorkerReads, Push

LEMMA OwnerTypes ==
    ASSUME StreamInv, HelloDone \/ GiveUp \/ BeginBackup \/ EndBackup PROVE Types' /\ DeviceOK'
  <1>0. Types /\ DeviceOK
    BY TypesAreTyped DEF StreamInv
  <1>1. CASE GiveUp
    <2>1. /\ open /\ Close /\ doing' = "loop" /\ failures' = 0
          /\ UNCHANGED <<device, faults, session, errors, overflowed, dropped, assembling,
                         reading, told, taken, intact>>
      BY <1>1 DEF GiveUp, deviceVars
    <2> QED
      BY <1>0, <2>1, CloseTypes DEF Types, DeviceOK
  <1>2. CASE HelloDone
    BY <1>0, <1>2 DEF Types, DeviceOK, HelloDone, deviceVars, readerVars, frameVars
  <1>3. CASE BeginBackup
    BY <1>0, <1>3 DEF Types, DeviceOK, BeginBackup, deviceVars, readerVars, frameVars
  <1>4. CASE EndBackup
    BY <1>0, <1>4 DEF Types, DeviceOK, EndBackup, deviceVars, readerVars, frameVars
  <1> QED
    BY <1>1, <1>2, <1>3, <1>4

LEMMA TypesStep ==
    ASSUME StreamInv, [Next]_hidVars PROVE Types' /\ DeviceOK'
  <1>0. Types /\ DeviceOK
    BY TypesAreTyped DEF StreamInv
  <1>1. CASE Next
    BY <1>0, <1>1, UnheardTypes, OpenTypes, ReaderTypes, ReadsTypes, OwnerTypes DEF Next
  <1>2. CASE UNCHANGED hidVars
    BY <1>0, <1>2 DEF Types, DeviceOK, hidVars, deviceVars, readerVars, workerVars, frameVars
  <1> QED
    BY <1>1, <1>2

-----------------------------------------------------------------------------
(***************************************************************************)
(* What is in front of a place of the queue, as the queue grows and shrinks*)
(***************************************************************************)

(* A report at the end changes nothing for the places up to it.            *)
LEMMA AppendKeeps ==
    ASSUME NEW q \in Seq(Report), NEW e \in Report, NEW a, NEW r, NEW i \in 1 .. Len(q) + 1
    PROVE  /\ LastBefore(a, q, r, i) => LastBefore(a, Append(q, e), r, i)
           /\ NothingBefore(a, q, i) => NothingBefore(a, Append(q, e), i)
  <1>1. \A k \in 1 .. i - 1 : Append(q, e)[k] = q[k]
    BY Added
  <1>2. ASSUME NEW b \in 1 .. i, OnlyFailed(q, b, i - 1)
        PROVE  OnlyFailed(Append(q, e), b, i - 1)
    BY <1>1, <1>2 DEF OnlyFailed
  <1>3. ASSUME LastBefore(a, q, r, i) PROVE LastBefore(a, Append(q, e), r, i)
    <2>1. ASSUME NEW j \in 1 .. i - 1, q[j] = r, OnlyFailed(q, j + 1, i - 1)
          PROVE  Append(q, e)[j] = r /\ OnlyFailed(Append(q, e), j + 1, i - 1)
      BY <1>1, <1>2, <2>1
    <2>2. OnlyFailed(q, 1, i - 1) => OnlyFailed(Append(q, e), 1, i - 1)
      BY <1>2
    <2> QED
      BY <1>3, <2>1, <2>2 DEF LastBefore
  <1>4. ASSUME NothingBefore(a, q, i) PROVE NothingBefore(a, Append(q, e), i)
    <2>1. ASSUME NEW j \in 1 .. i - 1, q[j] = Short, OnlyFailed(q, j + 1, i - 1)
          PROVE  Append(q, e)[j] = Short /\ OnlyFailed(Append(q, e), j + 1, i - 1)
      BY <1>1, <1>2, <2>1
    <2>2. OnlyFailed(q, 1, i - 1) => OnlyFailed(Append(q, e), 1, i - 1)
      BY <1>2
    <2> QED
      BY <1>4, <2>1, <2>2 DEF NothingBefore
  <1> QED
    BY <1>3, <1>4

(* What is at the end is last; a failed read is nothing.                   *)
LEMMA AppendIsLast ==
    ASSUME NEW q \in Seq(Report), NEW e \in Report, NEW a
    PROVE  /\ LastBefore(a, Append(q, e), e, Len(Append(q, e)) + 1)
           /\ e = Short => NothingBefore(a, Append(q, e), Len(Append(q, e)) + 1)
  <1>1. Len(Append(q, e)) = Len(q) + 1 /\ Append(q, e)[Len(q) + 1] = e /\ Len(q) \in Nat
    BY Added
  <1>2. Len(q) + 1 \in 1 .. Len(Append(q, e)) + 1 - 1
    BY <1>1
  <1>3. OnlyFailed(Append(q, e), Len(q) + 2, Len(Append(q, e)) + 1 - 1)
    BY <1>1 DEF OnlyFailed
  <1>4. Len(q) + 1 + 1 = Len(q) + 2
    BY <1>1
  <1> QED
    BY <1>1, <1>2, <1>3, <1>4 DEF LastBefore, NothingBefore

LEMMA FailedIsNothing ==
    ASSUME NEW q \in Seq(Report), NEW a, NEW r
    PROVE  /\ LastBefore(a, q, r, Len(q) + 1)
                => LastBefore(a, Append(q, Failed), r, Len(Append(q, Failed)) + 1)
           /\ NothingBefore(a, q, Len(q) + 1)
                => NothingBefore(a, Append(q, Failed), Len(Append(q, Failed)) + 1)
  <1> DEFINE p == Append(q, Failed)
  <1>1. /\ Len(p) = Len(q) + 1 /\ p[Len(q) + 1] = Failed /\ Len(q) \in Nat
        /\ \A i \in 1 .. Len(q) : p[i] = q[i]
    BY Added, Reports
  <1> HIDE DEF p
  <1>2. ASSUME NEW b \in 1 .. Len(q) + 1, OnlyFailed(q, b, Len(q))
        PROVE  OnlyFailed(p, b, Len(p))
    <2> SUFFICES ASSUME NEW k \in b .. Len(p) PROVE p[k] = Failed
      BY DEF OnlyFailed
    <2>1. CASE k = Len(q) + 1
      BY <1>1, <2>1
    <2>2. CASE k \in b .. Len(q)
      BY <1>1, <1>2, <2>2 DEF OnlyFailed
    <2> QED
      BY <1>1, <2>1, <2>2
  <1>3. ASSUME LastBefore(a, q, r, Len(q) + 1) PROVE LastBefore(a, p, r, Len(p) + 1)
    <2>1. ASSUME NEW j \in 1 .. Len(q), q[j] = r, OnlyFailed(q, j + 1, Len(q))
          PROVE  j \in 1 .. Len(p) + 1 - 1 /\ p[j] = r /\ OnlyFailed(p, j + 1, Len(p) + 1 - 1)
      BY <1>1, <1>2, <2>1
    <2>2. OnlyFailed(q, 1, Len(q)) => OnlyFailed(p, 1, Len(p) + 1 - 1)
      BY <1>1, <1>2
    <2>3. Len(q) + 1 - 1 = Len(q)
      BY <1>1
    <2> QED
      BY <1>3, <2>1, <2>2, <2>3 DEF LastBefore
  <1>4. ASSUME NothingBefore(a, q, Len(q) + 1) PROVE NothingBefore(a, p, Len(p) + 1)
    <2>1. ASSUME NEW j \in 1 .. Len(q), q[j] = Short, OnlyFailed(q, j + 1, Len(q))
          PROVE  /\ j \in 1 .. Len(p) + 1 - 1 /\ p[j] = Short
                 /\ OnlyFailed(p, j + 1, Len(p) + 1 - 1)
      BY <1>1, <1>2, <2>1
    <2>2. OnlyFailed(q, 1, Len(q)) => OnlyFailed(p, 1, Len(p) + 1 - 1)
      BY <1>1, <1>2
    <2>3. Len(q) + 1 - 1 = Len(q)
      BY <1>1
    <2> QED
      BY <1>4, <2>1, <2>2, <2>3 DEF NothingBefore
  <1> QED
    BY <1>3, <1>4 DEF p

(* The head is taken, and place i + 1 becomes place i.                     *)
LEMMA PopKeeps ==
    ASSUME NEW q \in Seq(Report), q # <<>>, NEW a, NEW r, NEW i \in 1 .. Len(q), NEW b,
           NEW j \in 2 .. i, q[j] = r, OnlyFailed(q, j + 1, i)
    PROVE  LastBefore(b, Tail(q), r, i) /\ (r = Short => NothingBefore(b, Tail(q), i))
  <1>1. \A k \in 1 .. Len(q) - 1 : Tail(q)[k] = q[k + 1]
    BY Removed
  <1>2. Len(q) \in Nat
    BY Removed
  <1>3. j - 1 \in 1 .. i - 1 /\ Tail(q)[j - 1] = r
    BY <1>1, <1>2
  <1>4. OnlyFailed(Tail(q), j - 1 + 1, i - 1)
    <2> SUFFICES ASSUME NEW k \in j .. i - 1 PROVE Tail(q)[k] = Failed
      BY DEF OnlyFailed
    <2>1. k \in 1 .. Len(q) - 1 /\ k + 1 \in j + 1 .. i
      BY <1>2
    <2> QED
      BY <1>1, <2>1 DEF OnlyFailed
  <1> QED
    BY <1>3, <1>4 DEF LastBefore, NothingBefore

(* What was only failed reads in front is so, without the first of them.   *)
LEMMA PopFailures ==
    ASSUME NEW q \in Seq(Report), q # <<>>, NEW i \in 1 .. Len(q), OnlyFailed(q, 2, i)
    PROVE  OnlyFailed(Tail(q), 1, i - 1)
  <1>1. \A k \in 1 .. Len(q) - 1 : Tail(q)[k] = q[k + 1]
    BY Removed
  <1>2. Len(q) \in Nat
    BY Removed
  <1> SUFFICES ASSUME NEW k \in 1 .. i - 1 PROVE Tail(q)[k] = Failed
    BY DEF OnlyFailed
  <1>3. k \in 1 .. Len(q) - 1 /\ k + 1 \in 2 .. i
    BY <1>2
  <1> QED
    BY <1>1, <1>3 DEF OnlyFailed

(* A failed read is taken from the front.                                  *)
LEMMA PopFailed ==
    ASSUME NEW q \in Seq(Report), q # <<>>, Head(q) = Failed, NEW a, NEW r, r # Failed,
           NEW i \in 1 .. Len(q)
    PROVE  /\ LastBefore(a, q, r, i + 1) => LastBefore(a, Tail(q), r, i)
           /\ NothingBefore(a, q, i + 1) => NothingBefore(a, Tail(q), i)
  <1>1. Head(q) = q[1] /\ Len(q) \in Nat /\ i + 1 - 1 = i
    BY Removed
  <1>2. ASSUME OnlyFailed(q, 1, i) PROVE OnlyFailed(Tail(q), 1, i - 1)
    <2>1. OnlyFailed(q, 2, i)
      BY <1>2 DEF OnlyFailed
    <2> QED
      BY <2>1, PopFailures
  <1>3. ASSUME LastBefore(a, q, r, i + 1) PROVE LastBefore(a, Tail(q), r, i)
    <2>1. ASSUME NEW j \in 1 .. i, q[j] = r, OnlyFailed(q, j + 1, i)
          PROVE  LastBefore(a, Tail(q), r, i)
      <3>1. j \in 2 .. i
        BY <1>1, <2>1
      <3> QED
        BY <2>1, <3>1, PopKeeps
    <2> QED
      BY <1>1, <1>2, <1>3, <2>1 DEF LastBefore
  <1>4. ASSUME NothingBefore(a, q, i + 1) PROVE NothingBefore(a, Tail(q), i)
    <2>1. ASSUME NEW j \in 1 .. i, q[j] = Short, OnlyFailed(q, j + 1, i)
          PROVE  NothingBefore(a, Tail(q), i)
      <3>1. j \in 2 .. i
        BY <1>1, <2>1, Reports
      <3> QED
        BY <2>1, <3>1, PopKeeps
    <2> QED
      BY <1>1, <1>2, <1>4, <2>1 DEF NothingBefore
  <1> QED
    BY <1>3, <1>4

(* A report is taken from the front: what was in front of place i + 1 is   *)
(* in front of place i, or it is the report that was taken.                *)
LEMMA PopReport ==
    ASSUME NEW q \in Seq(Report), q # <<>>, Head(q) # Failed, NEW a, NEW r,
           NEW i \in 1 .. Len(q), NEW b
    PROVE  /\ LastBefore(a, q, r, i + 1) =>
                LastBefore(b, Tail(q), r, i) \/ (r = Head(q) /\ OnlyFailed(Tail(q), 1, i - 1))
           /\ NothingBefore(a, q, i + 1) =>
                \/ NothingBefore(b, Tail(q), i)
                \/ Head(q) = Short /\ OnlyFailed(Tail(q), 1, i - 1)
  <1>1. Head(q) = q[1] /\ Len(q) \in Nat /\ i + 1 - 1 = i /\ 1 \in 1 .. i
    BY Removed
  <1>2. ~OnlyFailed(q, 1, i)
    BY <1>1 DEF OnlyFailed
  <1>3. ASSUME NEW s, NEW j \in 1 .. i, q[j] = s, OnlyFailed(q, j + 1, i)
        PROVE  \/ j \in 2 .. i
               \/ s = Head(q) /\ OnlyFailed(Tail(q), 1, i - 1)
    <2>1. CASE j = 1
      BY <1>1, <1>3, <2>1, PopFailures
    <2> QED
      BY <2>1
  <1>4. ASSUME LastBefore(a, q, r, i + 1)
        PROVE  LastBefore(b, Tail(q), r, i) \/ (r = Head(q) /\ OnlyFailed(Tail(q), 1, i - 1))
    <2>1. PICK j \in 1 .. i : q[j] = r /\ OnlyFailed(q, j + 1, i)
      BY <1>1, <1>2, <1>4 DEF LastBefore
    <2>2. CASE j \in 2 .. i
      BY <2>1, <2>2, PopKeeps
    <2> QED
      BY <1>3, <2>1, <2>2
  <1>5. ASSUME NothingBefore(a, q, i + 1)
        PROVE  \/ NothingBefore(b, Tail(q), i)
               \/ Head(q) = Short /\ OnlyFailed(Tail(q), 1, i - 1)
    <2>1. PICK j \in 1 .. i : q[j] = Short /\ OnlyFailed(q, j + 1, i)
      BY <1>1, <1>2, <1>5 DEF NothingBefore
    <2>2. CASE j \in 2 .. i
      BY <2>1, <2>2, PopKeeps
    <2> QED
      BY <1>3, <2>1, <2>2
  <1> QED
    BY <1>4, <1>5

-----------------------------------------------------------------------------
(***************************************************************************)
(* The stream while nothing comes and nothing is taken                     *)
(***************************************************************************)
LEMMA StreamStays ==
    ASSUME Stream, UNCHANGED <<device, queue, assembling, missed, taken>>,
           Flagged => Flagged', ~Flagged' /\ reader' = "reading" => reader = "reading"
    PROVE  Stream'
  <1>1. Queued' /\ Assembled' /\ Ordered' /\ Ended' /\ Holes'
    BY DEF Stream, Queued, Assembled, Ordered, Ended, Holes, Proper, Absent
  <1>2. Gapless' /\ Following' /\ Latest'
    BY DEF Stream, Gapless, Following, Latest
  <1> QED
    BY <1>1, <1>2 DEF Stream

(* A session begins with nothing queued; what was sent before is missed.   *)
LEMMA StreamOpens ==
    ASSUME StreamInv, Open PROVE Stream'
  <1>1. /\ queue' = <<>> /\ assembling' = <<>> /\ Len(<<>>) = 0
        /\ UNCHANGED <<device, missed, taken>>
        /\ ~open
    BY DEF Open, deviceVars, frameVars
  <1>2. /\ taken + 1 .. device.frame \subseteq missed /\ missed \subseteq 1 .. device.frame
        /\ taken \in Nat /\ device.frame \in Nat
    BY <1>1, Reports DEF StreamInv, Typed, TypeOK
  <1>3. Queued' /\ Assembled' /\ Ordered' /\ Gapless' /\ Following'
    BY <1>1 DEF Queued, Assembled, Ordered, Gapless, Following
  <1>4. Ended'
    BY <1>1, <1>2 DEF Ended
  <1>5. NothingBefore(assembling', queue', Len(queue') + 1)
    BY <1>1 DEF NothingBefore, OnlyFailed
  <1>6. Latest'
    BY <1>1, <1>2, <1>5 DEF Latest
  <1>7. Holes'
    <2> SUFFICES ASSUME NEW n \in missed, n > taken PROVE Absent(n, 1)'
      BY <1>1 DEF Holes
    <2>1. n = device.frame => 1 <= device.part
      BY <1>2, Reports DEF StreamInv, DeviceOK
    <2> QED
      BY <1>1, <2>1 DEF Absent
  <1> QED
    BY <1>3, <1>4, <1>6, <1>7 DEF Stream

-----------------------------------------------------------------------------
(***************************************************************************)
(* The stream while reports come                                           *)
(***************************************************************************)

(* The device goes on, with a report that comes, is lost or cut short.     *)
Comes ==
    /\ StreamInv /\ open /\ DeviceSends
    /\ UNCHANGED <<open, assembling, taken, overflowed, told>>
    /\ missed' \in {missed, missed \cup {device'.frame}}

LEMMA ComesFacts ==
    ASSUME Comes
    PROVE  /\ Stream /\ queue \in Seq(Report) /\ Len(queue) \in Nat /\ assembling \in Seq(Report)
           /\ \A i \in 1 .. Len(queue) : queue[i] \in Report
           /\ \A i \in 1 .. Len(assembling) : assembling[i] \in Report
           /\ device \in Report /\ device' \in Report /\ taken \in Nat
           /\ device'.frame \in {device.frame, device.frame + 1}
           /\ device'.frame = device.frame =>
                /\ device'.size = device.size /\ device'.part = device.part + 1
                /\ device.part < device.size
           /\ device'.frame # device.frame => device'.part = 1 /\ device.part = device.size
           /\ device'.frame > taken
           /\ device'.part \in 1 .. device'.size /\ device'.part \in Nat \ {0}
           /\ missed \subseteq missed' /\ missed \subseteq 1 .. device.frame
           /\ Flagged' = Flagged
  <1>1. TypeOK /\ DeviceOK /\ Sent /\ Stream
    BY DEF Comes, StreamInv, Typed
  <1>2. /\ device' \in Report /\ DeviceOK' /\ device'.frame \in {device.frame, device.frame + 1}
        /\ device'.frame = device.frame =>
             device'.size = device.size /\ device'.part = device.part + 1
        /\ device'.frame # device.frame => device'.part = 1 /\ device.part = device.size
        /\ device'.frame # 0
    BY <1>1, DeviceGoesOn DEF Comes
  <1>3. /\ queue \in Seq(Report) /\ assembling \in Seq(Report) /\ device \in Report
        /\ taken \in Nat /\ taken <= device.frame /\ missed \subseteq 1 .. device.frame
        /\ device.frame \in Nat /\ device.part \in Nat /\ device.size \in Nat
        /\ device'.frame \in Nat /\ device'.part \in Nat /\ device'.size \in Nat
    BY <1>1, <1>2, Reports DEF TypeOK
  <1>4. device'.part \in 1 .. device'.size
    BY <1>2 DEF DeviceOK
  <1>5. device'.frame = device.frame => device.part < device.size
    BY <1>2, <1>3, <1>4
  <1>6. device'.frame > taken
    BY <1>1, <1>2, <1>3, <1>5 DEF Sent
  <1>7. missed \subseteq missed' /\ Flagged' = Flagged
    BY DEF Comes, Flagged
  <1>8. /\ Len(queue) \in Nat
        /\ \A i \in 1 .. Len(queue) : queue[i] \in Report
        /\ \A i \in 1 .. Len(assembling) : assembling[i] \in Report
    BY <1>3, LenProperties, ElementOfSeq
  <1> QED
    BY <1>1, <1>2, <1>3, <1>4, <1>5, <1>6, <1>7, <1>8

LEMMA ProperStays ==
    ASSUME Comes, NEW r \in Report, Proper(r)
    PROVE  Proper(r)' /\ Before(r, device') /\ (r.frame = device'.frame => r.part < device'.part)
  <1>1. /\ taken' = taken /\ r.frame \in Nat /\ r.part \in Nat /\ r.size \in Nat
        /\ device.frame \in Nat /\ device.part \in Nat /\ device'.frame \in Nat
    BY ComesFacts, Reports DEF Comes
  <1> QED
    BY <1>1, ComesFacts DEF Proper, Before

(* What has come of the frames before the one the device sends now.        *)
LEMMA EarlierEnded ==
    ASSUME Comes, NEW n \in taken + 1 .. device'.frame - 1, n \notin missed
    PROVE  Ends(queue, n, Len(queue) + 1)
  <1>1. /\ taken \in Nat /\ device.frame \in Nat /\ device'.frame \in Nat
        /\ Len(queue) \in Nat /\ Stream /\ assembling \in Seq(Report)
    BY ComesFacts, Reports
  <1>2. CASE n # device.frame
    <2>1. n \in taken + 1 .. device.frame - 1
      BY <1>1, <1>2, ComesFacts
    <2> QED
      BY <1>1, <2>1 DEF Stream, Ended
  <1>3. CASE n = device.frame
    <2>1. device'.frame # device.frame /\ device.part = device.size /\ device.frame > taken
      BY <1>1, <1>3, ComesFacts
    <2>2. LastBefore(assembling, queue, device, Len(queue) + 1)
      BY <1>1, <1>3, <2>1 DEF Stream, Latest
    <2>3. CASE assembling # <<>> /\ assembling[Len(assembling)] = device
      <3>1. Len(assembling) \in 1 .. Len(assembling)
        BY <1>1, <2>3, LenProperties, EmptySeq
      <3>2. assembling[Len(assembling)].part < assembling[Len(assembling)].size
        BY <1>1, <3>1 DEF Stream, Assembled
      <3>3. device.part \in Nat /\ device.size \in Nat /\ device.part < device.size
        BY <2>3, <3>2, ComesFacts, Reports
      <3> QED
        BY <2>1, <3>3
    <2>4. CASE \E j \in 1 .. Len(queue) + 1 - 1 : queue[j] = device
      BY <1>3, <2>1, <2>4 DEF Ends, IsLast
    <2> QED
      BY <2>2, <2>3, <2>4 DEF LastBefore
  <1> QED
    BY <1>2, <1>3

(* A report which the full queue does not take: its frame is missed.       *)
LEMMA StreamDrops ==
    ASSUME Comes, queue' = queue, missed' = missed \cup {device'.frame}, reader' = "dropping"
    PROVE  Stream'
  <1>0. UNCHANGED <<queue, assembling, taken>> /\ Flagged' = Flagged /\ Stream
    BY ComesFacts DEF Comes
  <1>1. Queued'
    BY <1>0, ComesFacts, ProperStays DEF Stream, Queued
  <1>2. Assembled'
    BY <1>0, ComesFacts, ProperStays DEF Stream, Assembled
  <1>3. Ordered'
    BY <1>0 DEF Stream, Ordered
  <1>4. Gapless' /\ Following'
    BY <1>0, ComesFacts DEF Stream, Gapless, Following
  <1>5. Latest'
    BY <1>0 DEF Latest
  <1>6. Ended'
    BY <1>0, ComesFacts, EarlierEnded DEF Ended
  <1>7. Holes'
    <2> SUFFICES ASSUME NEW n \in missed', n > taken
                 PROVE  \E p \in Nat \ {0} : Absent(n, p)'
      BY <1>0 DEF Holes
    <2>1. CASE n \in missed
      <3>1. PICK p \in Nat \ {0} : Absent(n, p)
        BY <1>0, <2>1 DEF Stream, Holes
      <3>2. n = device'.frame => p <= device'.part
        BY <2>1, <3>1, ComesFacts, Reports DEF Absent
      <3>3. Absent(n, p)'
        BY <1>0, <3>1, <3>2 DEF Absent
      <3> QED
        BY <3>3
    <2>2. CASE n \notin missed
      <3>0. PICK p \in Nat \ {0} : p = device'.part
        BY ComesFacts
      <3>1. n = device'.frame
        BY <2>2
      <3>2. \A i \in 1 .. Len(queue) : queue[i].frame = n =>
              p <= queue[i].size /\ queue[i].part # p
        <4> SUFFICES ASSUME NEW i \in 1 .. Len(queue), queue[i].frame = n
                     PROVE  p <= queue[i].size /\ queue[i].part # p
          OBVIOUS
        <4>1. queue[i] \in Report /\ Proper(queue[i])
          BY <1>0, <3>1, ComesFacts DEF Stream, Queued, Short, Failed
        <4> QED
          BY <3>0, <3>1, <4>1, ComesFacts, ProperStays, Reports DEF Before
      <3>3. \A i \in 1 .. Len(assembling) : assembling[i].frame = n =>
              p <= assembling[i].size /\ assembling[i].part # p
        <4> SUFFICES ASSUME NEW i \in 1 .. Len(assembling), assembling[i].frame = n
                     PROVE  p <= assembling[i].size /\ assembling[i].part # p
          OBVIOUS
        <4>1. assembling[i] \in Report /\ Proper(assembling[i])
          BY <1>0, ComesFacts DEF Stream, Assembled
        <4> QED
          BY <3>0, <3>1, <4>1, ComesFacts, ProperStays, Reports DEF Before
      <3>4. Absent(n, p)'
        BY <1>0, <3>0, <3>2, <3>3 DEF Absent
      <3> QED
        BY <3>4
    <2> QED
      BY <2>1, <2>2
  <1> QED
    BY <1>1, <1>2, <1>3, <1>4, <1>5, <1>6, <1>7 DEF Stream

(* A report which the queue takes: the one the device sent, or a short one *)
(* in its place.                                                           *)
LEMMA StreamTakes ==
    ASSUME Comes, NEW e \in Report, queue' = Append(queue, e), reader = "reading",
           \/ e = device' /\ missed' = missed
           \/ e = Short /\ missed' = missed \cup {device'.frame}
    PROVE  Stream'
  <1>0. UNCHANGED <<assembling, taken>> /\ Flagged' = Flagged /\ Stream /\ missed \subseteq missed'
    BY ComesFacts DEF Comes
  <1>q. /\ queue \in Seq(Report) /\ Len(queue) \in Nat /\ Len(queue') = Len(queue) + 1
        /\ \A i \in 1 .. Len(queue) : queue'[i] = queue[i] /\ queue[i] \in Report
        /\ queue'[Len(queue) + 1] = e
        /\ \A i \in 1 .. Len(queue') : i \in 1 .. Len(queue) \/ i = Len(queue) + 1
    BY ComesFacts, Added
  <1>e. e = device' => Proper(e)' /\ Real(e)
    BY <1>0, ComesFacts, Reports DEF Proper, Real
  <1>s. ~Real(Short) /\ ~Real(Failed)
    BY DEF Real, Short, Failed
  <1>1. Queued'
    <2>0. ASSUME NEW r \in Report, r = Short \/ r = Failed \/ Proper(r) \/ r = e
          PROVE  r = Short \/ r = Failed \/ Proper(r)'
      BY <1>e, <2>0, ProperStays DEF Proper
    <2>1. ASSUME NEW i \in 1 .. Len(queue')
          PROVE  \E r \in Report :
                   r = queue'[i] /\ (r = Short \/ r = Failed \/ Proper(r) \/ r = e)
      BY <1>0, <1>q DEF Stream, Queued
    <2> QED
      BY <2>0, <2>1 DEF Queued, Proper
  <1>2. Assembled'
    BY <1>0, ComesFacts, ProperStays DEF Stream, Assembled
  <1>b. ASSUME NEW r \in Report, r = Short \/ r = Failed \/ Proper(r), Real(r), Real(e)
        PROVE  Before(r, e)
    <2>1. e = device' /\ Proper(r)
      BY <1>b, <1>s
    <2> QED
      BY <2>1, ProperStays
  <1>3. Ordered'
    <2>1. ASSUME NEW i \in 1 .. Len(queue'), NEW j \in 1 .. Len(queue'), i < j,
                 Real(queue'[i]), Real(queue'[j])
          PROVE  Before(queue'[i], queue'[j])
      <3>1. i \in 1 .. Len(queue) /\ queue'[i] = queue[i] /\ queue[i] \in Report
        BY <1>q, <2>1
      <3>2. CASE j \in 1 .. Len(queue)
        BY <1>0, <1>q, <2>1, <3>1, <3>2 DEF Stream, Ordered
      <3>3. CASE j = Len(queue) + 1
        <4>1. queue[i] = Short \/ queue[i] = Failed \/ Proper(queue[i])
          BY <1>0, <3>1 DEF Stream, Queued
        <4> QED
          BY <1>b, <1>q, <2>1, <3>1, <3>3, <4>1
      <3> QED
        BY <1>q, <3>2, <3>3
    <2>2. ASSUME NEW i \in 1 .. Len(assembling), NEW j \in 1 .. Len(queue'), Real(queue'[j])
          PROVE  Before(assembling[i], queue'[j])
      <3>1. CASE j \in 1 .. Len(queue)
        BY <1>0, <1>q, <2>2, <3>1 DEF Stream, Ordered
      <3>2. CASE j = Len(queue) + 1
        <4>1. assembling[i] \in Report /\ Proper(assembling[i])
          BY <1>0, ComesFacts DEF Stream, Assembled
        <4>2. Real(assembling[i])
          BY <4>1, ComesFacts, Reports DEF Proper, Real
        <4> QED
          BY <1>b, <1>q, <2>2, <3>2, <4>1, <4>2
      <3> QED
        BY <1>q, <3>1, <3>2
    <2> QED
      BY <1>0, <2>1, <2>2 DEF Ordered
  <1>4. Gapless'
    BY <1>0 DEF Stream, Gapless
  <1>p. ASSUME e = device', ~IsFirst(e)
        PROVE  Previous(e) = device /\ device.part < device.size /\ device'.frame = device.frame
               /\ missed' = missed /\ device.frame > taken
    <2>1. device'.frame = device.frame /\ device'.size = device.size
          /\ device'.part = device.part + 1 /\ device.part < device.size
      BY <1>p, ComesFacts DEF IsFirst
    <2>2. Previous(e) = [frame |-> device.frame, part |-> device.part, size |-> device.size]
      BY <1>p, <2>1, ComesFacts, Reports DEF Previous
    <2>3. device = [frame |-> device.frame, part |-> device.part, size |-> device.size]
      BY ComesFacts DEF Report
    <2>4. missed' = missed
      BY <1>p, ComesFacts, Reports DEF Short
    <2> QED
      BY <2>1, <2>2, <2>3, <2>4, ComesFacts
  <1>5. Following'
    <2> SUFFICES ASSUME NEW i \in 1 .. Len(queue'), Real(queue'[i]), ~IsFirst(queue'[i])
                 PROVE  /\ queue'[i].frame \notin missed' =>
                             LastBefore(assembling, queue', Previous(queue'[i]), i)
                        /\ ~Flagged =>
                             \/ LastBefore(assembling, queue', Previous(queue'[i]), i)
                             \/ NothingBefore(assembling, queue', i)
      BY <1>0 DEF Following
    <2>1. CASE i \in 1 .. Len(queue)
      <3>1. queue'[i] = queue[i] /\ i \in 1 .. Len(queue) + 1
        BY <1>q, <2>1
      <3>2. /\ queue[i].frame \notin missed =>
                 LastBefore(assembling, queue, Previous(queue[i]), i)
            /\ ~Flagged =>
                 \/ LastBefore(assembling, queue, Previous(queue[i]), i)
                 \/ NothingBefore(assembling, queue, i)
        BY <1>0, <2>1, <3>1 DEF Stream, Following
      <3>3. /\ LastBefore(assembling, queue, Previous(queue[i]), i) =>
                 LastBefore(assembling, queue', Previous(queue[i]), i)
            /\ NothingBefore(assembling, queue, i) => NothingBefore(assembling, queue', i)
        BY <1>q, <3>1, AppendKeeps
      <3> QED
        BY <1>0, <3>1, <3>2, <3>3
    <2>2. CASE i = Len(queue) + 1
      <3>1. queue'[i] = e /\ e = device' /\ Previous(e) = device /\ device.part < device.size
            /\ e.frame = device.frame /\ missed' = missed /\ device.frame > taken
        BY <1>q, <1>p, <1>s, <2>2
      <3>2. /\ device.frame \notin missed => LastBefore(assembling, queue, device, i)
            /\ ~Flagged =>
                 LastBefore(assembling, queue, device, i) \/ NothingBefore(assembling, queue, i)
        BY <1>0, <2>2, <3>1 DEF Stream, Latest
      <3>3. /\ LastBefore(assembling, queue, device, i) => LastBefore(assembling, queue', device, i)
            /\ NothingBefore(assembling, queue, i) => NothingBefore(assembling, queue', i)
        BY <1>q, <2>2, AppendKeeps
      <3> QED
        BY <3>1, <3>2, <3>3
    <2> QED
      BY <1>q, <2>1, <2>2
  <1>6. Latest'
    <2>1. /\ e = device' => LastBefore(assembling', queue', device', Len(queue') + 1)
          /\ e = Short => NothingBefore(assembling', queue', Len(queue') + 1)
      BY <1>0, <1>q, AppendIsLast
    <2>2. e = device' \/ device'.frame \in missed'
      OBVIOUS
    <2>3. e = device' \/ e = Short
      OBVIOUS
    <2> QED
      BY <2>1, <2>2, <2>3 DEF Latest
  <1>7. Ended'
    <2> SUFFICES ASSUME NEW n \in taken + 1 .. device'.frame - 1, n \notin missed'
                 PROVE  Ends(queue', n, Len(queue') + 1)
      BY <1>0 DEF Ended
    <2>1. PICK j \in 1 .. Len(queue) : queue[j].frame = n /\ IsLast(queue[j])
      BY <1>0, <1>q, EarlierEnded DEF Ends
    <2> QED
      BY <1>q, <2>1 DEF Ends
  <1>8. Holes'
    <2> SUFFICES ASSUME NEW n \in missed', n > taken
                 PROVE  \E p \in Nat \ {0} : Absent(n, p)'
      BY <1>0 DEF Holes
    <2>f. device.frame \in Nat /\ device'.frame \in Nat /\ taken \in Nat
          /\ device.part \in Nat /\ device'.part \in Nat
      BY ComesFacts, Reports
    <2>n. n \in Nat /\ n # 0
      BY <2>f, ComesFacts
    <2>1. CASE n \in missed
      <3>1. PICK p \in Nat \ {0} : Absent(n, p)
        BY <1>0, <2>1 DEF Stream, Holes
      <3>2. n = device'.frame => device.frame = n /\ p <= device.part /\ p < device'.part
                                 /\ device'.part <= device'.size
        BY <2>f, <2>1, <3>1, ComesFacts DEF Absent
      <3>3. e.frame = n => p <= e.size /\ e.part # p
        BY <2>f, <2>n, <3>2, ComesFacts, Reports DEF Short
      <3>4. \A i \in 1 .. Len(queue') : queue'[i].frame = n =>
              p <= queue'[i].size /\ queue'[i].part # p
        BY <1>q, <3>1, <3>3 DEF Absent
      <3>5. n = device'.frame => p <= device'.part
        BY <2>f, <3>2
      <3>6. Absent(n, p)'
        BY <1>0, <3>1, <3>4, <3>5 DEF Absent
      <3> QED
        BY <3>6
    <2>2. CASE n \notin missed
      <3>0. PICK p \in Nat \ {0} : p = device'.part
        BY ComesFacts
      <3>1. n = device'.frame /\ e = Short
        BY <2>2
      <3>2. ASSUME NEW r \in Report, Proper(r), r.frame = n
            PROVE  p <= r.size /\ r.part # p
        BY <3>0, <3>1, <3>2, ComesFacts, ProperStays, Reports DEF Before
      <3>3. ASSUME NEW i \in 1 .. Len(queue'), queue'[i].frame = n
            PROVE  p <= queue'[i].size /\ queue'[i].part # p
        <4>1. i \in 1 .. Len(queue)
          BY <1>q, <2>n, <3>1, <3>3 DEF Short
        <4>2. queue[i] \in Report /\ Proper(queue[i]) /\ queue'[i] = queue[i]
          BY <1>0, <1>q, <2>n, <3>3, <4>1 DEF Stream, Queued, Short, Failed
        <4> QED
          BY <3>2, <3>3, <4>2
      <3>4. ASSUME NEW i \in 1 .. Len(assembling), assembling[i].frame = n
            PROVE  p <= assembling[i].size /\ assembling[i].part # p
        <4>1. assembling[i] \in Report /\ Proper(assembling[i])
          BY <1>0, ComesFacts DEF Stream, Assembled
        <4> QED
          BY <3>2, <3>4, <4>1
      <3>5. Absent(n, p)'
        BY <1>0, <3>0, <3>3, <3>4 DEF Absent
      <3> QED
        BY <3>5
    <2> QED
      BY <2>1, <2>2
  <1> QED
    BY <1>1, <1>2, <1>3, <1>4, <1>5, <1>6, <1>7, <1>8 DEF Stream

(* A failed read in the queue is no report.                                *)
LEMMA StreamFails ==
    ASSUME StreamInv, open, queue' = Append(queue, Failed), reader = "reading",
           UNCHANGED <<device, assembling, taken, missed, overflowed, told>>
    PROVE  Stream'
  <1>0. Flagged' = Flagged /\ Stream /\ Failed \in Report
    BY Reports DEF Flagged, StreamInv
  <1>q. /\ queue \in Seq(Report) /\ Len(queue) \in Nat /\ Len(queue') = Len(queue) + 1
        /\ \A i \in 1 .. Len(queue) : queue'[i] = queue[i] /\ queue[i] \in Report
        /\ queue'[Len(queue) + 1] = Failed
        /\ \A i \in 1 .. Len(queue') : i \in 1 .. Len(queue) \/ i = Len(queue) + 1
    <2>1. queue \in Seq(Report)
      BY DEF StreamInv, Typed, TypeOK
    <2> QED
      BY <1>0, <2>1, Added
  <1>s. ~Real(Failed)
    BY DEF Real, Failed
  <1>1. Queued'
    BY <1>0, <1>q DEF Stream, Queued, Proper
  <1>2. Assembled' /\ Gapless'
    BY <1>0 DEF Stream, Assembled, Gapless, Proper
  <1>3. Ordered'
    BY <1>0, <1>q, <1>s DEF Stream, Ordered
  <1>4. Following'
    <2> SUFFICES ASSUME NEW i \in 1 .. Len(queue'), Real(queue'[i]), ~IsFirst(queue'[i])
                 PROVE  /\ queue'[i].frame \notin missed =>
                             LastBefore(assembling, queue', Previous(queue'[i]), i)
                        /\ ~Flagged =>
                             \/ LastBefore(assembling, queue', Previous(queue'[i]), i)
                             \/ NothingBefore(assembling, queue', i)
      BY <1>0 DEF Following
    <2>1. i \in 1 .. Len(queue) /\ i \in 1 .. Len(queue) + 1 /\ queue'[i] = queue[i]
      BY <1>q, <1>s
    <2>2. /\ queue[i].frame \notin missed =>
               LastBefore(assembling, queue, Previous(queue[i]), i)
          /\ ~Flagged =>
               \/ LastBefore(assembling, queue, Previous(queue[i]), i)
               \/ NothingBefore(assembling, queue, i)
      BY <1>0, <2>1 DEF Stream, Following
    <2>3. /\ LastBefore(assembling, queue, Previous(queue[i]), i) =>
               LastBefore(assembling, queue', Previous(queue[i]), i)
          /\ NothingBefore(assembling, queue, i) => NothingBefore(assembling, queue', i)
      BY <1>0, <1>q, <2>1, AppendKeeps
    <2> QED
      BY <2>1, <2>2, <2>3
  <1>5. Latest'
    <2>1. /\ LastBefore(assembling, queue, device, Len(queue) + 1)
               => LastBefore(assembling, queue', device, Len(queue') + 1)
          /\ NothingBefore(assembling, queue, Len(queue) + 1)
               => NothingBefore(assembling, queue', Len(queue') + 1)
      BY <1>q, FailedIsNothing
    <2> QED
      BY <1>0, <2>1 DEF Stream, Latest
  <1>6. Ended'
    <2> SUFFICES ASSUME NEW n \in taken + 1 .. device.frame - 1, n \notin missed
                 PROVE  Ends(queue', n, Len(queue') + 1)
      BY <1>0 DEF Ended
    <2>1. PICK j \in 1 .. Len(queue) : queue[j].frame = n /\ IsLast(queue[j])
      BY <1>0, <1>q DEF Stream, Ended, Ends
    <2> QED
      BY <1>q, <2>1 DEF Ends
  <1>7. Holes'
    <2> SUFFICES ASSUME NEW n \in missed, n > taken
                 PROVE  \E p \in Nat \ {0} : Absent(n, p)'
      BY <1>0 DEF Holes
    <2>1. PICK p \in Nat \ {0} : Absent(n, p)
      BY <1>0 DEF Stream, Holes
    <2>2. n # 0
      BY DEF StreamInv, Typed, TypeOK
    <2>3. Absent(n, p)'
      BY <1>0, <1>q, <2>1, <2>2 DEF Absent, Failed
    <2> QED
      BY <2>3
  <1> QED
    BY <1>1, <1>2, <1>3, <1>4, <1>5, <1>6, <1>7 DEF Stream

(* The steps of the reader thread.                                         *)
LEMMA ReaderStream ==
    ASSUME StreamInv, ReaderNext PROVE open' /\ Stream' /\ Sent'
  <1>0. open /\ Stream /\ Sent
    BY DEF StreamInv, ReaderNext, ReadReport, ReadShort, ReadNothing, ReadFails, MarkOverflow
  <1>1. CASE ReadReport \/ ReadShort
    <2>1. /\ DeviceSends /\ reader = "reading"
          /\ UNCHANGED <<open, assembling, taken, overflowed, told>>
      BY <1>1 DEF ReadReport, ReadShort, workerVars
    <2>2. \/ TrySend(device', "reading")
             /\ missed' = missed \cup IF Len(queue) = Capacity THEN {device'.frame} ELSE {}
          \/ TrySend(Short, "reading") /\ missed' = missed \cup {device'.frame}
      BY <1>1 DEF ReadReport, ReadShort
    <2>3. missed' \in {missed, missed \cup {device'.frame}}
      BY <2>2
    <2>4. Comes
      BY <1>0, <2>1, <2>3 DEF Comes
    <2>5. Sent'
      BY <2>1, <2>4, ComesFacts, Reports DEF Sent
    <2>6. \/ Len(queue) < Capacity
             /\ \/ queue' = Append(queue, device') /\ missed' = missed
                \/ queue' = Append(queue, Short) /\ missed' = missed \cup {device'.frame}
          \/ queue' = queue /\ missed' = missed \cup {device'.frame} /\ reader' = "dropping"
      <3>1. Len(queue) \in Nat /\ Capacity \in Nat
        BY <2>4, ComesFacts, Reports
      <3>2. missed \cup {} = missed
        OBVIOUS
      <3>3. CASE Len(queue) < Capacity
        <4>1. Len(queue) # Capacity
          BY <3>1, <3>3
        <4> QED
          BY <2>2, <3>2, <3>3, <4>1 DEF TrySend
      <3>4. CASE Len(queue) = Capacity
        <4>1. ~(Len(queue) < Capacity)
          BY <3>1, <3>4
        <4> QED
          BY <2>2, <3>4, <4>1 DEF TrySend
      <3> QED
        BY <2>2, <3>3, <3>4 DEF TrySend
    <2>7. PICK e \in Report : e = device'
      BY <2>4, ComesFacts
    <2>8. CASE queue' = Append(queue, device') /\ missed' = missed
      BY <1>0, <2>1, <2>4, <2>5, <2>7, <2>8, StreamTakes
    <2>9. CASE queue' = Append(queue, Short) /\ missed' = missed \cup {device'.frame}
      BY <1>0, <2>1, <2>4, <2>5, <2>9, StreamTakes, Reports
    <2>10. CASE queue' = queue /\ missed' = missed \cup {device'.frame} /\ reader' = "dropping"
      BY <1>0, <2>1, <2>4, <2>5, <2>10, StreamDrops
    <2> QED
      BY <1>0, <2>1, <2>5, <2>6, <2>8, <2>9, <2>10
  <1>2. CASE ReadNothing \/ MarkOverflow
    <2>1. /\ UNCHANGED <<device, queue, assembling, missed, taken, open, told>>
          /\ Flagged => Flagged'
          /\ ~Flagged' /\ reader' = "reading" => reader = "reading"
      BY <1>2 DEF ReadNothing, MarkOverflow, Flagged, deviceVars, workerVars, frameVars
    <2> QED
      BY <1>0, <2>1, StreamStays DEF Sent
  <1>3. CASE ReadFails
    <2>1. /\ UNCHANGED <<device, assembling, missed, taken, open, told, overflowed>>
          /\ reader = "reading"
          /\ queue' = Append(queue, Failed) \/ (queue' = queue /\ reader' = "dropping")
      BY <1>3 DEF ReadFails, TrySend, workerVars, frameVars
    <2>2. CASE queue' = Append(queue, Failed)
      BY <1>0, <2>1, <2>2, StreamFails DEF Sent
    <2>3. CASE queue' = queue /\ reader' = "dropping"
      BY <1>0, <2>1, <2>3, StreamStays DEF Sent, Flagged
    <2> QED
      BY <2>1, <2>2, <2>3
  <1> QED
    BY <1>1, <1>2, <1>3 DEF ReaderNext

(* Nobody listens: the frame is missed.                                    *)
LEMMA UnheardStream ==
    ASSUME StreamInv, SendsUnheard
    PROVE  ~open' /\ queue' = <<>> /\ taken' + 1 .. device'.frame \subseteq missed' /\ Sent'
  <1>1. /\ ~open /\ ~open' /\ queue' = queue /\ taken' = taken /\ DeviceSends
        /\ missed' = missed \cup {device'.frame}
    BY DEF SendsUnheard, readerVars
  <1>2. /\ queue = <<>> /\ taken + 1 .. device.frame \subseteq missed /\ TypeOK /\ DeviceOK /\ Sent
    BY <1>1 DEF StreamInv, Typed
  <1>3. /\ device'.frame \in {device.frame, device.frame + 1} /\ device.frame \in Nat
        /\ device'.frame = device.frame =>
             device'.size = device.size /\ device'.part = device.part + 1
        /\ device' \in Report /\ DeviceOK' /\ device'.frame # 0
        /\ taken \in Nat /\ taken <= device.frame
    BY <1>1, <1>2, DeviceGoesOn, Reports DEF TypeOK
  <1>4. taken + 1 .. device'.frame \subseteq missed'
    BY <1>1, <1>2, <1>3
  <1>5. device'.part \in 1 .. device'.size
    BY <1>3 DEF DeviceOK
  <1>6. Sent'
    BY <1>1, <1>2, <1>3, <1>5, Reports DEF Sent, TypeOK
  <1> QED
    BY <1>1, <1>2, <1>4, <1>6

-----------------------------------------------------------------------------
(***************************************************************************)
(* The stream while reports are taken                                      *)
(***************************************************************************)

(* What the head completes or continues is the beginning of its frame.     *)
LEMMA AssemblyIsPrefix ==
    ASSUME StreamInv, Pushes, Head(queue).frame \notin missed \/ ~Flagged
    PROVE  /\ Len(Assembly) = Head(queue).part
           /\ \A k \in 1 .. Len(Assembly) :
                Assembly[k] = [frame |-> Head(queue).frame, part |-> k, size |-> Head(queue).size]
  <1> DEFINE h == Head(queue)
  <1>0. /\ open /\ queue # <<>> /\ h \in Report /\ h = queue[1] /\ 1 \in 1 .. Len(queue)
        /\ Real(h) /\ (assembling # <<>> \/ IsFirst(h))
    BY HeadFrame
  <1>1. Stream /\ TypeOK /\ assembling \in Seq(Report)
    BY <1>0 DEF StreamInv, Typed, TypeOK
  <1>2. h = [frame |-> h.frame, part |-> h.part, size |-> h.size] /\ h.part \in Nat
    BY <1>0, Reports DEF Report
  <1>3. CASE IsFirst(h)
    <2>1. Assembly = <<h>> /\ h.part = 1
      BY <1>3 DEF Assembly, IsFirst
    <2> QED
      BY <1>2, <2>1
  <1>4. CASE ~IsFirst(h)
    <2>0. assembling # <<>>
      BY <1>0, <1>4
    <2>1. Len(assembling) \in Nat /\ Len(assembling) \in 1 .. Len(assembling)
      BY <1>1, <2>0, LenProperties, EmptySeq
    <2>2. LastBefore(assembling, queue, Previous(h), 1) \/ NothingBefore(assembling, queue, 1)
      BY <1>0, <1>1, <1>4 DEF Stream, Following
    <2>3. assembling[Len(assembling)] = Previous(h)
      BY <2>0, <2>2 DEF LastBefore, NothingBefore
    <2>4. Prefix(assembling, Len(assembling))
      BY <1>1, <2>1, <2>3 DEF Stream, Gapless, Previous
    <2>5. \A k \in 1 .. Len(assembling) :
            assembling[k] = [frame |-> h.frame, part |-> k, size |-> h.size]
      BY <2>3, <2>4 DEF Prefix, Previous
    <2>6. Len(assembling) = h.part - 1
      <3>1. assembling[Len(assembling)].part = Len(assembling)
        <4>1. assembling[Len(assembling)] =
                [frame |-> h.frame, part |-> Len(assembling), size |-> h.size]
          BY <2>1, <2>5
        <4> QED
          BY <4>1
      <3>2. Previous(h).part = h.part - 1
        BY DEF Previous
      <3> QED
        BY <2>3, <3>1, <3>2
    <2>7. /\ Len(Assembly) = Len(assembling) + 1 /\ Assembly[Len(Assembly)] = h
          /\ \A k \in 1 .. Len(assembling) : Assembly[k] = assembling[k]
      BY <1>0, <1>1, <1>4, AssemblyShape
    <2>8. Len(Assembly) = h.part
      BY <1>2, <2>6, <2>7
    <2>9. ASSUME NEW k \in 1 .. Len(Assembly)
          PROVE  Assembly[k] = [frame |-> h.frame, part |-> k, size |-> h.size]
      <3>1. k \in 1 .. Len(assembling) \/ k = Len(Assembly)
        BY <2>1, <2>7
      <3> QED
        BY <1>2, <2>5, <2>7, <2>8, <3>1
    <2> QED
      BY <2>8, <2>9
  <1> QED
    BY <1>3, <1>4

(* The head of the queue goes into the assembly, or ends what is there.    *)
Pops ==
    /\ StreamInv /\ open /\ queue # <<>> /\ Head(queue) # Failed /\ queue' = Tail(queue)
    /\ UNCHANGED <<device, open, reader, overflowed, told>>
    /\ \/ assembling' = <<>> /\ (Head(queue).frame \in missed' \/ Head(queue).frame <= taken')
       \/ assembling' = Assembly /\ Pushes /\ ~IsLast(Head(queue))
    /\ \/ missed' = missed
       \/ missed' = missed \cup {Head(queue).frame} /\ Pushes /\ assembling' = <<>>
    /\ \/ taken' = taken
       \/ taken' = Head(queue).frame /\ Pushes /\ IsLast(Head(queue)) /\ assembling' = <<>>

LEMMA PopsFacts ==
    ASSUME Pops
    PROVE  /\ Stream /\ TypeOK /\ queue \in Seq(Report) /\ assembling \in Seq(Report)
           /\ Len(queue) \in Nat /\ 1 \in 1 .. Len(queue) /\ Len(queue') = Len(queue) - 1
           /\ Head(queue) = queue[1] /\ Head(queue) \in Report
           /\ \A i \in 1 .. Len(queue) : queue[i] \in Report
           /\ \A i \in 1 .. Len(queue') : queue'[i] = queue[i + 1] /\ i + 1 \in 2 .. Len(queue)
           /\ taken \in Nat /\ taken' \in Nat /\ taken <= taken'
           /\ missed \subseteq missed' /\ Flagged' = Flagged
  <1>1. Stream /\ TypeOK /\ queue \in Seq(Report) /\ assembling \in Seq(Report) /\ taken \in Nat
    BY DEF Pops, StreamInv, Typed, TypeOK
  <1>2. /\ Len(queue) \in Nat /\ Len(queue) >= 1 /\ Len(queue') = Len(queue) - 1
        /\ Head(queue) = queue[1] /\ Head(queue) \in Report
        /\ \A i \in 1 .. Len(queue) : queue[i] \in Report
        /\ \A i \in 1 .. Len(queue) - 1 : queue'[i] = queue[i + 1]
    BY <1>1, Removed DEF Pops
  <1>3. \A i \in 1 .. Len(queue') : queue'[i] = queue[i + 1] /\ i + 1 \in 2 .. Len(queue)
    BY <1>2
  <1>4. taken' \in Nat /\ taken <= taken'
    <2>1. CASE taken' = taken
      BY <1>1, <2>1
    <2>2. CASE taken' = Head(queue).frame /\ Pushes
      <3>1. Proper(Head(queue)) /\ Head(queue).frame \in Nat
        BY <1>2, <2>2, HeadFrame, Reports DEF Pops
      <3> QED
        BY <1>1, <2>2, <3>1, Reports DEF Proper, TypeOK
    <2> QED
      BY <2>1, <2>2 DEF Pops
  <1>5. missed \subseteq missed' /\ Flagged' = Flagged
    BY DEF Pops, Flagged
  <1> QED
    BY <1>1, <1>2, <1>3, <1>4, <1>5

(* What stays in the queue is behind the head, and not yet taken.          *)
LEMMA StillProper ==
    ASSUME Pops, NEW i \in 2 .. Len(queue), queue[i] # Short, queue[i] # Failed
    PROVE  /\ Proper(queue[i]) /\ queue[i] \in Report
           /\ Head(queue) # Short => Before(Head(queue), queue[i])
           /\ queue[i].frame > taken'
  <1>1. /\ i \in 1 .. Len(queue) /\ 1 < i /\ queue[i] \in Report
        /\ 1 \in 1 .. Len(queue) /\ Head(queue) = queue[1] /\ Head(queue) \in Report
        /\ Queued /\ Ordered /\ Head(queue) # Failed
    BY PopsFacts DEF Pops, Stream
  <1>2. Proper(queue[i])
    BY <1>1 DEF Queued
  <1>3. Real(queue[i])
    BY <1>1, <1>2, PopsFacts, Reports DEF Proper, Real
  <1>4. ASSUME Head(queue) # Short PROVE Before(Head(queue), queue[i])
    <2>1. Proper(Head(queue))
      BY <1>1, <1>4 DEF Queued
    <2>2. Real(Head(queue))
      BY <1>1, <2>1, PopsFacts, Reports DEF Proper, Real
    <2> QED
      BY <1>1, <1>3, <2>2 DEF Ordered
  <1>5. queue[i].frame > taken'
    <2>1. CASE taken' = taken
      BY <1>1, <1>2, <2>1, PopsFacts, Reports DEF Proper
    <2>2. CASE taken' = Head(queue).frame /\ Pushes /\ IsLast(Head(queue))
      <3>1. Before(Head(queue), queue[i])
        BY <1>4, <2>2, HeadFrame DEF Pops
      <3> QED
        BY <1>1, <1>2, <2>2, <3>1, Reports DEF Before, Proper, IsLast
    <2> QED
      BY <2>1, <2>2 DEF Pops
  <1> QED
    BY <1>1, <1>2, <1>4, <1>5

(* What is assembled then was assembled before, or is the head.            *)
LEMMA AssembledThen ==
    ASSUME Pops, NEW k \in 1 .. Len(assembling')
    PROVE  /\ assembling' = Assembly /\ Pushes /\ ~IsLast(Head(queue))
           /\ missed' = missed /\ taken' = taken
           /\ \/ assembling'[k] = Head(queue) /\ (k = 1 <=> IsFirst(Head(queue)))
              \/ k \in 1 .. Len(assembling) /\ assembling'[k] = assembling[k]
  <1>1. assembling' # <<>>
    OBVIOUS
  <1>2. assembling' = Assembly /\ Pushes /\ ~IsLast(Head(queue)) /\ StreamInv
    BY <1>1 DEF Pops
  <1>3. missed' = missed /\ taken' = taken
    BY <1>1 DEF Pops
  <1>4. TypeOK /\ queue # <<>> /\ (assembling # <<>> \/ IsFirst(Head(queue)))
        /\ assembling \in Seq(Report) /\ Len(assembling) \in Nat
    BY <1>2, PopsFacts, HeadFrame, LenProperties
  <1>a. k \in 1 .. Len(Assembly) /\ assembling'[k] = Assembly[k] /\ k \in Nat
    BY <1>2
  <1>5. CASE IsFirst(Head(queue))
    <2>1. Len(Assembly) = 1 /\ Assembly[Len(Assembly)] = Head(queue)
      BY <1>4, <1>5, AssemblyShape
    <2>2. k = 1
      BY <1>a, <2>1
    <2> QED
      BY <1>2, <1>3, <1>5, <1>a, <2>1, <2>2
  <1>6. CASE ~IsFirst(Head(queue))
    <2>1. /\ Len(Assembly) = Len(assembling) + 1
          /\ \A i \in 1 .. Len(assembling) : Assembly[i] = assembling[i]
          /\ Assembly[Len(Assembly)] = Head(queue)
      BY <1>4, <1>6, AssemblyShape
    <2>2. assembling # <<>> /\ Len(assembling) >= 1
      BY <1>4, <1>6, EmptySeq
    <2>3. k \in 1 .. Len(assembling) \/ (k = Len(Assembly) /\ k # 1)
      BY <1>4, <1>a, <2>1, <2>2
    <2>4. CASE k \in 1 .. Len(assembling)
      BY <1>2, <1>3, <1>a, <2>1, <2>4
    <2>5. CASE k = Len(Assembly) /\ k # 1
      BY <1>2, <1>3, <1>6, <1>a, <2>1, <2>5
    <2> QED
      BY <2>3, <2>4, <2>5
  <1> QED
    BY <1>2, <1>3, <1>5, <1>6

(* What was in front of place i + 1 is in front of place i.                *)
LEMMA InFront ==
    ASSUME Pops, NEW i \in 1 .. Len(queue), NEW r
    PROVE  /\ LastBefore(assembling, queue, r, i + 1) =>
                \/ LastBefore(assembling', queue', r, i)
                \/ r = Head(queue) /\ assembling' = <<>> /\ NothingBefore(assembling', queue', i)
           /\ NothingBefore(assembling, queue, i + 1) => NothingBefore(assembling', queue', i)
  <1>1. queue \in Seq(Report) /\ queue # <<>> /\ Head(queue) # Failed /\ queue' = Tail(queue)
    BY PopsFacts DEF Pops
  <1>2. PICK b : b = assembling'
    OBVIOUS
  <1>3. /\ LastBefore(assembling, queue, r, i + 1) =>
             LastBefore(b, queue', r, i) \/ (r = Head(queue) /\ OnlyFailed(queue', 1, i - 1))
        /\ NothingBefore(assembling, queue, i + 1) =>
             \/ NothingBefore(b, queue', i)
             \/ Head(queue) = Short /\ OnlyFailed(queue', 1, i - 1)
    BY <1>1, PopReport
  <1>4. \/ b = <<>>
        \/ b # <<>> /\ b[Len(b)] = Head(queue) /\ Head(queue) # Short
    <2>1. CASE assembling' = Assembly /\ Pushes
      BY <1>2, <2>1, PopsFacts, HeadFrame, AssemblyShape DEF Pops
    <2> QED
      BY <1>2, <2>1 DEF Pops
  <1>5. OnlyFailed(queue', 1, i - 1) /\ b = <<>> => NothingBefore(b, queue', i)
    BY DEF NothingBefore
  <1>6. OnlyFailed(queue', 1, i - 1) /\ b # <<>> => LastBefore(b, queue', Head(queue), i)
    BY <1>4 DEF LastBefore
  <1> QED
    BY <1>2, <1>3, <1>4, <1>5, <1>6

LEMMA LaterInterval ==
    ASSUME NEW a \in Nat, NEW b \in Nat, a <= b, NEW f \in Nat, NEW n \in b + 1 .. f - 1
    PROVE  n \in a + 1 .. f - 1 /\ n > b
  OBVIOUS

LEMMA StreamPops ==
    ASSUME Pops PROVE Stream'
  <1>0. /\ Stream /\ TypeOK /\ queue \in Seq(Report) /\ Len(queue) \in Nat
        /\ 1 \in 1 .. Len(queue) /\ Len(queue') = Len(queue) - 1
        /\ Head(queue) = queue[1] /\ Head(queue) \in Report
        /\ \A i \in 1 .. Len(queue') : queue'[i] = queue[i + 1] /\ i + 1 \in 2 .. Len(queue)
        /\ taken \in Nat /\ taken' \in Nat /\ taken <= taken'
        /\ missed \subseteq missed' /\ Flagged' = Flagged
        /\ device' = device /\ reader' = reader
        /\ device \in Report /\ device.frame \in Nat
    BY PopsFacts, Reports DEF Pops, TypeOK
  <1>r. \A i \in 1 .. Len(queue) : queue[i] \in Report
    BY PopsFacts
  <1>h. Pushes => /\ Proper(Head(queue)) /\ Real(Head(queue))
                  /\ Head(queue) # Short /\ Head(queue) # Failed
    BY HeadFrame DEF Pops
  <1>p. ASSUME NEW r \in Report, Proper(r), r.frame > taken' PROVE Proper(r)'
    BY <1>0, <1>p, Reports DEF Proper
  <1>s. ~Real(Short) /\ ~Real(Failed)
    BY DEF Real, Short, Failed
  <1>1. Queued'
    <2>1. ASSUME NEW i \in 1 .. Len(queue')
          PROVE  \E r \in Report : r = queue'[i] /\ (r = Short \/ r = Failed \/ Proper(r)')
      <3>1. queue'[i] = queue[i + 1] /\ i + 1 \in 2 .. Len(queue) /\ i + 1 \in 1 .. Len(queue)
        BY <1>0
      <3>2. PICK r \in Report : r = queue[i + 1]
        BY <1>r, <3>1
      <3>3. r = Short \/ r = Failed \/ (Proper(r) /\ r.frame > taken')
        BY <3>1, <3>2, StillProper
      <3> QED
        BY <1>p, <3>1, <3>2, <3>3
    <2> QED
      BY <2>1 DEF Queued, Proper
  <1>2. Assembled'
    <2>1. ASSUME NEW k \in 1 .. Len(assembling')
          PROVE  \E r \in Report :
                   /\ r = assembling'[k] /\ Proper(r) /\ r.part < r.size
                   /\ r.part = 1 <=> k = 1
      <3>1. CASE assembling'[k] = Head(queue) /\ (k = 1 <=> IsFirst(Head(queue)))
        <4>1. Pushes /\ ~IsLast(Head(queue)) /\ Proper(Head(queue))
          BY <1>h, AssembledThen
        <4>2. Head(queue).part < Head(queue).size
          BY <1>0, <4>1, Reports DEF Proper, IsLast
        <4> QED
          BY <1>0, <3>1, <4>1, <4>2 DEF IsFirst
      <3>2. CASE k \in 1 .. Len(assembling) /\ assembling'[k] = assembling[k]
        <4>1. assembling[k] \in Report
          BY <3>2, PopsFacts, ElementOfSeq
        <4> QED
          BY <1>0, <3>2, <4>1 DEF Stream, Assembled
      <3> QED
        BY <3>1, <3>2, AssembledThen
    <2>2. ASSUME NEW k \in 1 .. Len(assembling') PROVE taken' = taken
      BY AssembledThen
    <2>3. ASSUME NEW r \in Report, Proper(r), taken' = taken PROVE Proper(r)'
      BY <1>0, <2>3 DEF Proper
    <2> QED
      BY <2>1, <2>2, <2>3 DEF Assembled, Proper
  <1>3. Ordered'
    <2>1. ASSUME NEW i \in 1 .. Len(queue'), NEW j \in 1 .. Len(queue'), i < j,
                 Real(queue'[i]), Real(queue'[j])
          PROVE  Before(queue'[i], queue'[j])
      <3>1. /\ queue'[i] = queue[i + 1] /\ queue'[j] = queue[j + 1] /\ i + 1 < j + 1
            /\ i + 1 \in 1 .. Len(queue) /\ j + 1 \in 1 .. Len(queue)
        BY <1>0, <2>1
      <3> QED
        BY <1>0, <2>1, <3>1 DEF Stream, Ordered
    <2>2. ASSUME NEW k \in 1 .. Len(assembling'), NEW j \in 1 .. Len(queue'), Real(queue'[j])
          PROVE  Before(assembling'[k], queue'[j])
      <3>1. queue'[j] = queue[j + 1] /\ j + 1 \in 2 .. Len(queue) /\ j + 1 \in 1 .. Len(queue)
        BY <1>0
      <3>2. CASE assembling'[k] = Head(queue)
        <4>1. Pushes /\ Head(queue) # Short
          BY <1>h, AssembledThen
        <4> QED
          BY <1>s, <2>2, <3>1, <3>2, <4>1, StillProper
      <3>3. CASE k \in 1 .. Len(assembling) /\ assembling'[k] = assembling[k]
        BY <1>0, <2>2, <3>1, <3>3 DEF Stream, Ordered
      <3> QED
        BY <3>2, <3>3, AssembledThen
    <2> QED
      BY <2>1, <2>2 DEF Ordered
  <1>5. Following'
    <2> SUFFICES ASSUME NEW i \in 1 .. Len(queue'), Real(queue'[i]), ~IsFirst(queue'[i])
                 PROVE  /\ queue'[i].frame \notin missed' =>
                             LastBefore(assembling', queue', Previous(queue'[i]), i)
                        /\ ~Flagged =>
                             \/ LastBefore(assembling', queue', Previous(queue'[i]), i)
                             \/ NothingBefore(assembling', queue', i)
      BY <1>0 DEF Following
    <2> DEFINE r == queue[i + 1]
    <2>1. /\ queue'[i] = r /\ i + 1 \in 2 .. Len(queue) /\ i + 1 \in 1 .. Len(queue)
          /\ i \in 1 .. Len(queue)
      BY <1>0
    <2>2. r # Short /\ r # Failed
      BY <1>s, <2>1
    <2>3. r.frame > taken' /\ Previous(r).frame = r.frame /\ r.frame \in Nat
      BY <1>r, <2>1, <2>2, StillProper, Reports DEF Previous
    <2>4. /\ r.frame \notin missed => LastBefore(assembling, queue, Previous(r), i + 1)
          /\ ~Flagged => \/ LastBefore(assembling, queue, Previous(r), i + 1)
                         \/ NothingBefore(assembling, queue, i + 1)
      BY <1>0, <2>1 DEF Stream, Following
    <2>5. /\ LastBefore(assembling, queue, Previous(r), i + 1) =>
               \/ LastBefore(assembling', queue', Previous(r), i)
               \/ /\ Previous(r) = Head(queue) /\ assembling' = <<>>
                  /\ NothingBefore(assembling', queue', i)
          /\ NothingBefore(assembling, queue, i + 1) => NothingBefore(assembling', queue', i)
      BY <2>1, InFront
    <2>6. Previous(r) = Head(queue) /\ assembling' = <<>> => r.frame \in missed'
      <3> SUFFICES ASSUME Previous(r) = Head(queue), assembling' = <<>> PROVE r.frame \in missed'
        OBVIOUS
      <3>1. Head(queue).frame \in missed' \/ Head(queue).frame <= taken'
        BY AssemblyShape, PopsFacts, HeadFrame DEF Pops
      <3> QED
        BY <1>0, <2>3, <3>1
    <2> HIDE DEF r
    <2> QED
      BY <1>0, <2>1, <2>4, <2>5, <2>6
  <1>6. Latest'
    <2>1. /\ LastBefore(assembling, queue, device, Len(queue) + 1) =>
               \/ LastBefore(assembling', queue', device, Len(queue') + 1)
               \/ /\ device = Head(queue) /\ assembling' = <<>>
                  /\ NothingBefore(assembling', queue', Len(queue') + 1)
          /\ NothingBefore(assembling, queue, Len(queue) + 1) =>
               NothingBefore(assembling', queue', Len(queue') + 1)
      <3>1. Len(queue') + 1 = Len(queue) /\ Len(queue) \in 1 .. Len(queue)
        BY <1>0
      <3> QED
        BY <3>1, InFront
    <2>2. device = Head(queue) /\ assembling' = <<>> =>
            device.frame \in missed' \/ ~(device.frame > taken')
      <3>1. assembling' = <<>> => Head(queue).frame \in missed' \/ Head(queue).frame <= taken'
        BY AssemblyShape, PopsFacts, HeadFrame DEF Pops
      <3> QED
        BY <1>0, <3>1
    <2>3. device.frame > taken' => device.frame > taken
      BY <1>0
    <2>4. /\ device.frame > taken /\ device.frame \notin missed =>
               LastBefore(assembling, queue, device, Len(queue) + 1)
          /\ ~Flagged /\ reader = "reading" /\ device.part < device.size =>
               \/ LastBefore(assembling, queue, device, Len(queue) + 1)
               \/ NothingBefore(assembling, queue, Len(queue) + 1)
      BY <1>0 DEF Stream, Latest
    <2>5. device.frame > taken' /\ device.frame \notin missed' =>
            LastBefore(assembling', queue', device, Len(queue') + 1)
      BY <1>0, <2>1, <2>2, <2>3, <2>4
    <2>6. ~Flagged /\ reader = "reading" /\ device.part < device.size =>
            \/ LastBefore(assembling', queue', device, Len(queue') + 1)
            \/ NothingBefore(assembling', queue', Len(queue') + 1)
      BY <2>1, <2>4
    <2> QED
      BY <1>0, <2>5, <2>6 DEF Latest
  <1>4. Gapless'
    <2> SUFFICES ASSUME NEW i \in 1 .. Len(assembling'),
                        assembling'[i].frame \notin missed' \/ ~Flagged
                 PROVE  Prefix(assembling', i)
      BY <1>0 DEF Gapless
    <2>1. /\ assembling' = Assembly /\ Pushes /\ StreamInv /\ missed' = missed
          /\ i \in 1 .. Len(Assembly) /\ i \in Nat
      BY AssembledThen DEF Pops
    <2>2. queue # <<>> /\ (assembling # <<>> \/ IsFirst(Head(queue)))
          /\ assembling \in Seq(Report) /\ Len(assembling) \in Nat
      BY <2>1, PopsFacts, HeadFrame, LenProperties
    <2>3. CASE Assembly[i] = Head(queue)
      <3>1. \A k \in 1 .. Len(Assembly) :
              Assembly[k] = [frame |-> Head(queue).frame, part |-> k, size |-> Head(queue).size]
        BY <2>1, <2>3, AssemblyIsPrefix
      <3>2. \A k \in 1 .. i : k \in 1 .. Len(Assembly)
        BY <2>1
      <3> QED
        BY <2>1, <2>3, <3>1, <3>2 DEF Prefix
    <2>4. CASE ~IsFirst(Head(queue)) /\ i \in 1 .. Len(assembling)
      <3>1. \A k \in 1 .. Len(assembling) : Assembly[k] = assembling[k]
        BY <1>0, <2>2, <2>4, AssemblyShape
      <3>2. Prefix(assembling, i)
        BY <1>0, <2>1, <2>4, <3>1 DEF Stream, Gapless
      <3>3. \A k \in 1 .. i : k \in 1 .. Len(assembling)
        BY <2>2, <2>4
      <3> QED
        BY <2>1, <2>4, <3>1, <3>2, <3>3 DEF Prefix
    <2>5. CASE IsFirst(Head(queue))
      <3>1. Len(Assembly) = 1 /\ Assembly[Len(Assembly)] = Head(queue)
        BY <1>0, <2>2, <2>5, AssemblyShape
      <3>2. i = 1
        BY <2>1, <3>1
      <3> QED
        BY <2>3, <3>1, <3>2
    <2> QED
      BY <2>1, <2>3, <2>4, <2>5, AssembledThen
  <1>e. IsLast(Head(queue)) => Head(queue).frame \in missed' \/ Head(queue).frame <= taken'
    BY DEF Pops
  <1>7. ASSUME NEW n \in taken' + 1 .. device.frame - 1, n \notin missed'
        PROVE  Ends(queue', n, Len(queue') + 1)
    <2>0. taken \in Nat /\ taken' \in Nat /\ taken <= taken' /\ device.frame \in Nat
      BY <1>0
    <2>1. n \in taken + 1 .. device.frame - 1 /\ n > taken' /\ n \notin missed
      <3>1. n \in taken + 1 .. device.frame - 1 /\ n > taken'
        BY <1>7, <2>0, LaterInterval
      <3> QED
        BY <1>0, <1>7, <3>1
    <2>2. PICK j \in 1 .. Len(queue) : queue[j].frame = n /\ IsLast(queue[j])
      BY <1>0, <2>1 DEF Stream, Ended, Ends
    <2>3. j # 1
      BY <1>0, <1>e, <1>7, <2>1, <2>2
    <2>4. j - 1 \in 1 .. Len(queue') /\ queue'[j - 1] = queue[j]
      BY <1>0, <2>3
    <2>5. j - 1 \in 1 .. Len(queue') + 1 - 1
      BY <1>0, <2>4
    <2> QED
      BY <2>2, <2>4, <2>5 DEF Ends
  <1>8. Ended'
    BY <1>0, <1>7 DEF Ended
  <1>9. Holes'
    <2> SUFFICES ASSUME NEW n \in missed', n > taken'
                 PROVE  \E p \in Nat \ {0} : Absent(n, p)'
      BY DEF Holes
    <2>1. CASE n \in missed
      <3>0. n > taken
        BY <1>0, <2>1 DEF TypeOK
      <3>1. PICK p \in Nat \ {0} : Absent(n, p)
        BY <1>0, <2>1, <3>0 DEF Stream, Holes
      <3>2. \A i \in 1 .. Len(queue') : queue'[i].frame = n =>
              p <= queue'[i].size /\ queue'[i].part # p
        BY <1>0, <3>1 DEF Absent
      <3>3. \A k \in 1 .. Len(assembling') : assembling'[k].frame = n =>
              p <= assembling'[k].size /\ assembling'[k].part # p
        BY <1>0, <3>1, AssembledThen DEF Absent
      <3>4. Absent(n, p)'
        BY <1>0, <3>1, <3>2, <3>3 DEF Absent
      <3> QED
        BY <3>4
    <2>2. CASE n \notin missed
      <3>1. n = Head(queue).frame /\ Pushes /\ assembling' = <<>>
        BY <2>2 DEF Pops
      <3>2. PICK p \in Nat \ {0} : p = Head(queue).part /\ p <= Head(queue).size
        BY <1>0, <1>h, <3>1, Reports DEF Proper
      <3>3. ASSUME NEW i \in 1 .. Len(queue'), queue'[i].frame = n
            PROVE  p <= queue'[i].size /\ queue'[i].part # p
        <4>1. queue'[i] = queue[i + 1] /\ i + 1 \in 2 .. Len(queue) /\ i + 1 \in 1 .. Len(queue)
          BY <1>0
        <4>2. queue[i + 1] # Short /\ queue[i + 1] # Failed
          BY <1>h, <3>1, <3>3, <4>1 DEF Real, Short, Failed
        <4>3. Before(Head(queue), queue[i + 1]) /\ queue[i + 1] \in Report
          BY <1>h, <3>1, <4>1, <4>2, StillProper
        <4> QED
          BY <1>0, <3>1, <3>2, <3>3, <4>1, <4>3, Reports DEF Before
      <3>4. n = device.frame => p <= device.part
        BY <1>h, <3>1, <3>2 DEF Proper
      <3>5. Len(assembling') = 0
        BY <3>1
      <3>6. Absent(n, p)'
        BY <1>0, <3>3, <3>4, <3>5 DEF Absent
      <3> QED
        BY <3>6
    <2> QED
      BY <2>1, <2>2
  <1> QED
    BY <1>1, <1>2, <1>3, <1>4, <1>5, <1>6, <1>8, <1>9 DEF Stream

(* A failed read is taken.                                                 *)
LEMMA StreamPopsFailed ==
    ASSUME StreamInv, open, queue # <<>>, Head(queue) = Failed, queue' = Tail(queue),
           UNCHANGED <<device, reader, overflowed, told, assembling, missed, taken>>
    PROVE  Stream'
  <1>0. /\ Stream /\ queue \in Seq(Report) /\ Len(queue) \in Nat /\ Len(queue) >= 1
        /\ Head(queue) = queue[1] /\ Len(queue') = Len(queue) - 1 /\ Flagged' = Flagged
        /\ \A i \in 1 .. Len(queue') : queue'[i] = queue[i + 1] /\ i + 1 \in 2 .. Len(queue)
        /\ taken \in Nat /\ missed \subseteq 1 .. device.frame
    <2>1. queue \in Seq(Report) /\ Stream /\ taken \in Nat /\ missed \subseteq 1 .. device.frame
      BY DEF StreamInv, Typed, TypeOK
    <2>2. /\ Len(queue) \in Nat /\ Len(queue) >= 1 /\ Len(queue') = Len(queue) - 1
          /\ Head(queue) = queue[1]
          /\ \A i \in 1 .. Len(queue) - 1 : queue'[i] = queue[i + 1]
      BY <2>1, Removed
    <2>3. \A i \in 1 .. Len(queue') : queue'[i] = queue[i + 1] /\ i + 1 \in 2 .. Len(queue)
      BY <2>2
    <2> QED
      BY <2>1, <2>2, <2>3 DEF Flagged
  <1>s. ~Real(Failed) /\ Failed.frame = 0
    BY DEF Real, Failed
  <1>f. ASSUME NEW r, r.frame # 0, NEW i \in 1 .. Len(queue)
        PROVE  /\ LastBefore(assembling, queue, r, i + 1) => LastBefore(assembling, queue', r, i)
               /\ NothingBefore(assembling, queue, i + 1) => NothingBefore(assembling, queue', i)
    <2>1. r # Failed
      BY <1>f, <1>s
    <2> QED
      BY <1>0, <2>1, PopFailed
  <1>1. Queued' /\ Assembled'
    BY <1>0 DEF Stream, Queued, Assembled, Proper
  <1>2. Ordered'
    <2>1. ASSUME NEW i \in 1 .. Len(queue'), NEW j \in 1 .. Len(queue'), i < j,
                 Real(queue'[i]), Real(queue'[j])
          PROVE  Before(queue'[i], queue'[j])
      <3>1. /\ queue'[i] = queue[i + 1] /\ queue'[j] = queue[j + 1] /\ i + 1 < j + 1
            /\ i + 1 \in 1 .. Len(queue) /\ j + 1 \in 1 .. Len(queue)
        BY <1>0, <2>1
      <3> QED
        BY <1>0, <2>1, <3>1 DEF Stream, Ordered
    <2>2. ASSUME NEW k \in 1 .. Len(assembling), NEW j \in 1 .. Len(queue'), Real(queue'[j])
          PROVE  Before(assembling[k], queue'[j])
      <3>1. queue'[j] = queue[j + 1] /\ j + 1 \in 1 .. Len(queue)
        BY <1>0
      <3> QED
        BY <1>0, <2>2, <3>1 DEF Stream, Ordered
    <2> QED
      BY <2>1, <2>2 DEF Ordered
  <1>3. Gapless'
    BY <1>0 DEF Stream, Gapless
  <1>4. Following'
    <2> SUFFICES ASSUME NEW i \in 1 .. Len(queue'), Real(queue'[i]), ~IsFirst(queue'[i])
                 PROVE  /\ queue'[i].frame \notin missed =>
                             LastBefore(assembling, queue', Previous(queue'[i]), i)
                        /\ ~Flagged =>
                             \/ LastBefore(assembling, queue', Previous(queue'[i]), i)
                             \/ NothingBefore(assembling, queue', i)
      BY <1>0 DEF Following
    <2> DEFINE r == queue[i + 1]
    <2>1. queue'[i] = r /\ i + 1 \in 1 .. Len(queue) /\ i \in 1 .. Len(queue)
      BY <1>0
    <2>2. Previous(r).frame # 0
      BY <2>1 DEF Previous, Real
    <2>3. /\ r.frame \notin missed => LastBefore(assembling, queue, Previous(r), i + 1)
          /\ ~Flagged => \/ LastBefore(assembling, queue, Previous(r), i + 1)
                         \/ NothingBefore(assembling, queue, i + 1)
      BY <1>0, <2>1 DEF Stream, Following
    <2>4. /\ LastBefore(assembling, queue, Previous(r), i + 1) =>
               LastBefore(assembling, queue', Previous(r), i)
          /\ NothingBefore(assembling, queue, i + 1) => NothingBefore(assembling, queue', i)
      BY <1>f, <2>1, <2>2
    <2> HIDE DEF r
    <2> QED
      BY <2>1, <2>3, <2>4
  <1>5. Latest'
    <2>1. Len(queue') + 1 = Len(queue) /\ Len(queue) \in 1 .. Len(queue)
      BY <1>0
    <2>2. CASE device.frame = 0
      <3>1. device.part = device.size
        BY <2>2 DEF StreamInv, DeviceOK, Short
      <3>2. device.size \in Nat
        BY Reports DEF StreamInv, Typed, TypeOK
      <3> QED
        BY <1>0, <2>2, <3>1, <3>2 DEF Latest
    <2>3. CASE device.frame # 0
      <3>1. /\ LastBefore(assembling, queue, device, Len(queue) + 1) =>
                 LastBefore(assembling, queue', device, Len(queue') + 1)
            /\ NothingBefore(assembling, queue, Len(queue) + 1) =>
                 NothingBefore(assembling, queue', Len(queue') + 1)
        BY <1>f, <2>1, <2>3
      <3> QED
        BY <1>0, <3>1 DEF Stream, Latest
    <2> QED
      BY <2>2, <2>3
  <1>6. Ended'
    <2> SUFFICES ASSUME NEW n \in taken + 1 .. device.frame - 1, n \notin missed
                 PROVE  Ends(queue', n, Len(queue') + 1)
      BY <1>0 DEF Ended
    <2>1. PICK j \in 1 .. Len(queue) : queue[j].frame = n /\ IsLast(queue[j])
      BY <1>0 DEF Stream, Ended, Ends
    <2>2. n # 0
      BY <1>0
    <2>3. j # 1
      BY <1>0, <1>s, <2>1, <2>2
    <2>4. j - 1 \in 1 .. Len(queue') /\ queue'[j - 1] = queue[j]
      BY <1>0, <2>3
    <2>5. j - 1 \in 1 .. Len(queue') + 1 - 1
      BY <1>0, <2>4
    <2>6. queue'[j - 1].frame = n /\ IsLast(queue'[j - 1])
      BY <2>1, <2>4
    <2>7. PICK k : k = j - 1
      OBVIOUS
    <2>8. k \in 1 .. Len(queue') + 1 - 1 /\ queue'[k].frame = n /\ IsLast(queue'[k])
      BY <2>5, <2>6, <2>7
    <2> QED
      BY <2>8 DEF Ends
  <1>7. Holes'
    <2> SUFFICES ASSUME NEW n \in missed, n > taken PROVE \E p \in Nat \ {0} : Absent(n, p)'
      BY <1>0 DEF Holes
    <2>1. PICK p \in Nat \ {0} : Absent(n, p)
      BY <1>0 DEF Stream, Holes
    <2>2. Absent(n, p)'
      BY <1>0, <2>1 DEF Absent
    <2> QED
      BY <2>2
  <1> QED
    BY <1>1, <1>2, <1>3, <1>4, <1>5, <1>6, <1>7 DEF Stream

(* What StreamInv says of the stream, open or not.                         *)
Goes ==
    /\ open => Stream
    /\ ~open => queue = <<>> /\ taken + 1 .. device.frame \subseteq missed

LEMMA OkFacts ==
    ASSUME NEW rest, ReadOk(rest)
    PROVE  queue' = rest /\ UNCHANGED <<device, open, reader, overflowed, told, missed>>
  BY DEF ReadOk, deviceVars

LEMMA PushGoes ==
    ASSUME StreamInv, Push PROVE Goes' /\ Sent'
  <1>0. /\ queue \in Seq(Report) /\ Len(queue) <= Capacity /\ Sent /\ Stream /\ open
        /\ queue # <<>> /\ Head(queue) # Failed /\ TypeOK
    BY DEF Push, PushShort, PushOrphan, PushTooLarge, PushPart, PushLast, PushUndecodable,
           Completes, Pushes, Receives, StreamInv, Typed, TypeOK
  <1>1. CASE PushShort
    <2>1. /\ Head(queue) = Short /\ assembling' = <<>> /\ taken' = taken
          /\ ReadOk(Tail(queue))
      BY <1>1 DEF PushShort
    <2>2. /\ queue' = Tail(queue) /\ UNCHANGED <<device, open, reader, overflowed, told, missed>>
      BY <2>1, OkFacts
    <2>3. Head(queue).frame <= taken'
      BY <1>0, <2>1 DEF Short, TypeOK
    <2>4. Pops
      BY <1>0, <2>1, <2>2, <2>3 DEF Pops
    <2> QED
      BY <1>0, <2>1, <2>2, <2>4, StreamPops DEF Goes, Sent
  <1>2. CASE PushOrphan
    <2>1. /\ Head(queue) # Short /\ ~IsFirst(Head(queue)) /\ assembling = <<>>
          /\ ReadOk(Tail(queue)) /\ UNCHANGED <<assembling, taken>>
      BY <1>2 DEF PushOrphan, IsOrphan
    <2>2. /\ queue' = Tail(queue) /\ UNCHANGED <<device, open, reader, overflowed, told, missed>>
      BY <2>1, OkFacts
    <2>3. Head(queue) = queue[1] /\ 1 \in 1 .. Len(queue) /\ Head(queue) \in Report
      BY <1>0, Removed
    <2>4. Proper(Head(queue))
      BY <1>0, <2>1, <2>3 DEF Stream, Queued
    <2>5. Real(Head(queue))
      BY <1>0, <2>3, <2>4, Reports DEF Proper, Real, TypeOK
    <2>6. Head(queue).frame \in missed'
      BY <1>0, <2>1, <2>2, <2>3, <2>5 DEF Stream, Following, LastBefore
    <2>7. Pops
      BY <1>0, <2>1, <2>2, <2>6 DEF Pops
    <2> QED
      BY <1>0, <2>1, <2>2, <2>7, StreamPops DEF Goes, Sent
  <1>3. CASE PushTooLarge \/ PushUndecodable
    <2>1. /\ Pushes /\ assembling' = <<>> /\ UNCHANGED <<overflowed, told>>
          /\ ReadError(Tail(queue), {Head(queue).frame})
      BY <1>3 DEF PushTooLarge, PushUndecodable, Completes
    <2>2. /\ Tail(queue) \in Seq(Report) /\ Len(Tail(queue)) <= Capacity
          /\ {Head(queue).frame} \in SUBSET (1 .. device.frame)
      BY <2>1, HeadFrame
    <2>3. /\ UNCHANGED <<device, taken>>
          /\ \/ /\ ~open' /\ queue' = <<>> /\ taken + 1 .. device.frame \subseteq missed'
             \/ /\ open' /\ queue' = Tail(queue) /\ reader' = reader
                /\ missed' = missed \cup {Head(queue).frame}
      BY <1>0, <2>1, <2>2, ReadErrorTypes
    <2>4. CASE /\ open' /\ queue' = Tail(queue) /\ reader' = reader
               /\ missed' = missed \cup {Head(queue).frame}
      <3>1. open' = open
        BY <1>0, <2>1, <2>4 DEF ReadError, Close
      <3>2. Pops
        BY <1>0, <2>1, <2>3, <2>4, <3>1 DEF Pops
      <3> QED
        BY <1>0, <2>3, <2>4, <3>2, StreamPops DEF Goes, Sent
    <2> QED
      BY <1>0, <2>3, <2>4 DEF Goes, Sent
  <1>4. CASE PushPart
    <2>1. /\ Pushes /\ assembling' = Assembly /\ ~IsLast(Head(queue)) /\ taken' = taken
          /\ ReadOk(Tail(queue))
      BY <1>4 DEF PushPart
    <2>2. /\ queue' = Tail(queue) /\ UNCHANGED <<device, open, reader, overflowed, told, missed>>
      BY <2>1, OkFacts
    <2>3. Pops
      BY <1>0, <2>1, <2>2 DEF Pops
    <2> QED
      BY <1>0, <2>1, <2>2, <2>3, StreamPops DEF Goes, Sent
  <1>5. CASE PushLast
    <2>1. /\ Pushes /\ assembling' = <<>> /\ IsLast(Head(queue)) /\ taken' = Head(queue).frame
          /\ ReadOk(Tail(queue))
      BY <1>5 DEF PushLast, Completes
    <2>2. /\ queue' = Tail(queue) /\ UNCHANGED <<device, open, reader, overflowed, told, missed>>
      BY <2>1, OkFacts
    <2>3. Proper(Head(queue)) /\ Head(queue) \in Report
      BY <2>1, HeadFrame
    <2>4. Head(queue).frame <= taken'
      BY <2>1, <2>3, Reports
    <2>5. Pops
      BY <1>0, <2>1, <2>2, <2>4 DEF Pops
    <2>6. Sent'
      <3> SUFFICES ASSUME Head(queue).frame = device.frame PROVE device.part = device.size
        BY <2>1, <2>2 DEF Sent
      <3>1. Head(queue).size = device.size /\ Head(queue).part <= device.part
            /\ Head(queue).part = Head(queue).size /\ device.frame # 0
        BY <2>1, <2>3, HeadFrame DEF Proper, IsLast, Real
      <3>2. device.part \in 1 .. device.size /\ device.size \in Nat
        BY <1>0, <3>1, Reports DEF StreamInv, DeviceOK, TypeOK
      <3> QED
        BY <3>1, <3>2
    <2> QED
      BY <1>0, <2>2, <2>5, <2>6, StreamPops DEF Goes
  <1> QED
    BY <1>1, <1>2, <1>3, <1>4, <1>5 DEF Push

LEMMA ReadsGo ==
    ASSUME StreamInv, WorkerReads PROVE Goes' /\ Sent'
  <1>0. /\ queue \in Seq(Report) /\ Len(queue) <= Capacity /\ Sent /\ Stream
        /\ {} \in SUBSET (1 .. device.frame) /\ missed \cup {} = missed
        /\ WorkerReads => open
    BY DEF StreamInv, Typed, TypeOK, WorkerReads, TakeFlag, WaitAtQueue, NothingComes, ReaderGone,
           ReadErrorEvent, Push, PushShort, PushOrphan, PushTooLarge, PushPart, PushLast,
           PushUndecodable, Completes, Pushes, Receives
  <1>1. CASE TakeFlag \/ ReaderGone
    <2>1. /\ ReadError(queue, {}) /\ assembling' = assembling
          /\ (overflowed \/ told) => (overflowed' \/ told')
      BY <1>1 DEF TakeFlag, ReaderGone
    <2>2. /\ UNCHANGED <<device, taken>>
          /\ \/ /\ ~open' /\ queue' = <<>> /\ taken + 1 .. device.frame \subseteq missed'
             \/ open' /\ queue' = queue /\ missed' = missed \cup {} /\ reader' = reader
      BY <1>0, <2>1, ReadErrorTypes
    <2>3. CASE open' /\ queue' = queue /\ missed' = missed \cup {} /\ reader' = reader
      <3>1. UNCHANGED <<device, queue, assembling, missed, taken>>
        BY <1>0, <2>1, <2>2, <2>3
      <3>2. Stream'
        BY <1>0, <2>1, <2>3, <3>1, StreamStays DEF Flagged
      <3> QED
        BY <1>0, <2>2, <2>3, <3>2 DEF Goes, Sent
    <2> QED
      BY <1>0, <2>2, <2>3 DEF Goes, Sent
  <1>2. CASE WaitAtQueue \/ NothingComes
    <2>1. UNCHANGED <<device, queue, assembling, missed, taken, overflowed, told, reader, open>>
      BY <1>2, OkFacts DEF WaitAtQueue, NothingComes, deviceVars, readerVars, frameVars
    <2>2. Stream'
      BY <1>0, <2>1, StreamStays DEF Flagged
    <2> QED
      BY <1>0, <2>1, <2>2 DEF Goes, Sent
  <1>3. CASE ReadErrorEvent
    <2>1. /\ queue # <<>> /\ Head(queue) = Failed /\ ReadError(Tail(queue), {})
          /\ UNCHANGED <<overflowed, assembling, told>>
      BY <1>3 DEF ReadErrorEvent
    <2>2. Tail(queue) \in Seq(Report) /\ Len(Tail(queue)) <= Capacity
      BY <1>0, <2>1, Removed, Reports
    <2>3. /\ UNCHANGED <<device, taken>>
          /\ \/ /\ ~open' /\ queue' = <<>> /\ taken + 1 .. device.frame \subseteq missed'
             \/ open' /\ queue' = Tail(queue) /\ missed' = missed \cup {} /\ reader' = reader
      BY <1>0, <2>1, <2>2, ReadErrorTypes
    <2>4. CASE open' /\ queue' = Tail(queue) /\ missed' = missed \cup {} /\ reader' = reader
      <3>1. Stream'
        BY <1>0, <2>1, <2>3, <2>4, StreamPopsFailed
      <3> QED
        BY <1>0, <2>3, <2>4, <3>1 DEF Goes, Sent
    <2> QED
      BY <1>0, <2>3, <2>4 DEF Goes, Sent
  <1>4. CASE Push
    BY <1>4, PushGoes
  <1> QED
    BY <1>1, <1>2, <1>3, <1>4 DEF WorkerReads

(* The owner of the link.                                                  *)
LEMMA OwnerGoes ==
    ASSUME StreamInv, HelloDone \/ GiveUp \/ BeginBackup \/ EndBackup PROVE Goes' /\ Sent'
  <1>0. open /\ Stream /\ Sent
    BY DEF StreamInv, HelloDone, GiveUp, BeginBackup, EndBackup
  <1>1. CASE GiveUp
    <2>1. Close /\ UNCHANGED <<device, taken>>
      BY <1>1 DEF GiveUp, deviceVars
    <2>2. ~open' /\ queue' = <<>> /\ taken + 1 .. device.frame \subseteq missed'
      BY <1>0, <2>1, CloseTypes
    <2> QED
      BY <1>0, <2>1, <2>2 DEF Goes, Sent
  <1>2. CASE HelloDone \/ BeginBackup \/ EndBackup
    <2>1. UNCHANGED <<device, queue, assembling, missed, taken, overflowed, told, reader, open>>
      BY <1>2 DEF HelloDone, BeginBackup, EndBackup, deviceVars, readerVars, frameVars
    <2>2. Stream'
      BY <1>0, <2>1, StreamStays DEF Flagged
    <2> QED
      BY <1>0, <2>1, <2>2 DEF Goes, Sent
  <1> QED
    BY <1>1, <1>2

LEMMA StreamInit == Init => StreamInv
  <1> SUFFICES ASSUME Init PROVE StreamInv
    OBVIOUS
  <1>1. Typed /\ DeviceOK
    BY TypedInit
  <1>2. ~open /\ queue = <<>> /\ device = Short /\ taken = 0 /\ missed = {}
    BY DEF Init
  <1>3. taken + 1 .. device.frame \subseteq missed /\ Sent
    BY <1>2 DEF Short, Sent
  <1> QED
    BY <1>1, <1>2, <1>3 DEF StreamInv

LEMMA StreamStep ==
    ASSUME StreamInv, [Next]_hidVars PROVE StreamInv'
  <1>1. Types' /\ DeviceOK'
    BY TypesStep
  <1>2. Goes' /\ Sent'
    <2>1. CASE SendsUnheard
      BY <2>1, UnheardStream DEF Goes
    <2>2. CASE Open
      <3>1. Stream' /\ open' = TRUE /\ UNCHANGED <<device, taken>>
        BY <2>2, StreamOpens DEF Open, deviceVars, frameVars
      <3> QED
        BY <3>1 DEF Goes, Sent, StreamInv
    <2>3. CASE ReaderNext
      BY <2>3, ReaderStream DEF Goes
    <2>4. CASE WorkerReads
      BY <2>4, ReadsGo
    <2>5. CASE HelloDone \/ GiveUp \/ BeginBackup \/ EndBackup
      BY <2>5, OwnerGoes
    <2>6. CASE UNCHANGED hidVars
      <3>1. UNCHANGED <<device, queue, assembling, missed, taken, overflowed, told, reader, open>>
        BY <2>6 DEF hidVars, deviceVars, readerVars, workerVars, frameVars
      <3>2. CASE open
        <4>1. Stream'
          BY <3>1, <3>2, StreamStays DEF Flagged, StreamInv
        <4> QED
          BY <3>1, <3>2, <4>1 DEF Goes, Sent, StreamInv
      <3>3. CASE ~open
        BY <3>1, <3>3 DEF Goes, Sent, StreamInv
      <3> QED
        BY <3>2, <3>3
    <2> QED
      BY <2>1, <2>2, <2>3, <2>4, <2>5, <2>6 DEF Next
  <1>3. Typed'
    BY <1>1 DEF Types, Typed, TypeOK
  <1> QED
    BY <1>1, <1>2, <1>3 DEF StreamInv, Goes

-----------------------------------------------------------------------------
(***************************************************************************)
(* The theorems                                                            *)
(***************************************************************************)

(* The types, and the invariant of the stream (HidIo, FrameAssembler).     *)
THEOREM StreamTheorem == Spec => []StreamInv
  <1>1. Init => StreamInv
    BY StreamInit
  <1>2. StreamInv /\ [Next]_hidVars => StreamInv'
    BY StreamStep
  <1> QED
    BY <1>1, <1>2, PTL DEF Spec

THEOREM TypeCorrect == Spec => []TypeOK
  <1>1. StreamInv => TypeOK
    BY DEF StreamInv, Typed
  <1> QED
    BY <1>1, StreamTheorem, PTL

(* A drop is flagged, or about to be, until it is reported (try_send).     *)
THEOREM DropTheorem == Spec => []DropIsPending
  <1>1. Init => DropIsPending
    BY DEF Init, DropIsPending
  <1>2. ASSUME DropIsPending, [Next]_hidVars PROVE DropIsPending'
    <2>1. CASE SendsUnheard \/ Open
      BY <2>1 DEF SendsUnheard, Open, DropIsPending
    <2>2. CASE ReaderNext
      BY <1>2, <2>2 DEF ReaderNext, ReadReport, ReadShort, ReadNothing, ReadFails, MarkOverflow,
                       TrySend, DropIsPending
    <2>3. CASE TakeFlag
      BY <2>3 DEF TakeFlag, ReadError, Close, DropIsPending
    <2>4. CASE WaitAtQueue
      BY <1>2, <2>4 DEF WaitAtQueue, readerVars, DropIsPending
    <2>5. CASE ReaderGone \/ ReadErrorEvent \/ PushTooLarge \/ PushUndecodable
      BY <1>2, <2>5 DEF ReaderGone, ReadErrorEvent, PushTooLarge, PushUndecodable, ReadError,
                       Close, DropIsPending
    <2>6. CASE NothingComes \/ PushShort \/ PushOrphan \/ PushPart \/ PushLast
      BY <1>2, <2>6 DEF NothingComes, PushShort, PushOrphan, PushPart, PushLast, ReadOk,
                       DropIsPending
    <2>7. CASE HelloDone \/ GiveUp \/ BeginBackup \/ EndBackup
      BY <1>2, <2>7 DEF HelloDone, GiveUp, BeginBackup, EndBackup, Close, readerVars,
                       DropIsPending
    <2>8. CASE UNCHANGED hidVars
      BY <1>2, <2>8 DEF hidVars, readerVars, DropIsPending
    <2> QED
      BY <1>2, <2>1, <2>2, <2>3, <2>4, <2>5, <2>6, <2>7, <2>8 DEF Next, WorkerReads, Push
  <1> QED
    BY <1>1, <1>2, PTL DEF Spec

(* A frame that comes is whole exactly when none of its reports was lost,  *)
(* and those before it that do not come lost one.                          *)
LEMMA TakenFrame ==
    ASSUME StreamInv, PushLast
    PROVE  /\ taken' = Head(queue).frame /\ taken' \in taken + 1 .. device.frame
           /\ taken + 1 .. taken' - 1 \subseteq missed
           /\ intact' = (taken' \notin missed)
           /\ ~intact' => Flagged
           /\ UNCHANGED <<device, missed>>
  <1> DEFINE h == Head(queue)
  <1>0. /\ Pushes /\ IsLast(h) /\ taken' = h.frame /\ intact' = Whole(Assembly)
        /\ UNCHANGED <<device, missed>>
    BY DEF PushLast, Completes, ReadOk, deviceVars
  <1>1. /\ h \in Report /\ h = queue[1] /\ 1 \in 1 .. Len(queue) /\ Proper(h) /\ Real(h)
        /\ Stream /\ queue # <<>> /\ (assembling # <<>> \/ IsFirst(h)) /\ TypeOK
        /\ h.frame \in Nat /\ h.part \in Nat /\ h.size \in Nat /\ taken \in Nat
        /\ device.frame \in Nat
    BY <1>0, HeadFrame, Reports DEF StreamInv, Typed, TypeOK
  <1>2. h.frame \in taken + 1 .. device.frame
    BY <1>1 DEF Proper
  <1>3. ASSUME NEW m \in taken + 1 .. h.frame - 1 PROVE m \in missed
    <2>1. SUFFICES ASSUME m \notin missed PROVE FALSE
      OBVIOUS
    <2>2. m \in taken + 1 .. device.frame - 1 /\ m < h.frame /\ m # 0
      BY <1>1, <1>2, <1>3
    <2>3. PICK j \in 1 .. Len(queue) : queue[j].frame = m
      BY <1>1, <2>1, <2>2, LenProperties DEF Stream, Ended, Ends
    <2>4. j # 1 /\ Real(queue[j])
      BY <1>1, <2>2, <2>3 DEF Real
    <2>5. Before(h, queue[j])
      BY <1>1, <2>4 DEF Stream, Ordered
    <2> QED
      BY <1>1, <2>2, <2>3, <2>5 DEF Before
  <1>4. ASSUME h.frame \notin missed \/ ~Flagged PROVE Whole(Assembly)
    <2>1. /\ Len(Assembly) = h.part
          /\ \A k \in 1 .. Len(Assembly) :
               Assembly[k] = [frame |-> h.frame, part |-> k, size |-> h.size]
      BY <1>0, <1>4, AssemblyIsPrefix
    <2>2. Assembly \in Seq(Report) /\ 1 \in 1 .. Len(Assembly)
      BY <1>1, AssemblyShape
    <2>3. Assembly[1].size = h.size /\ Assembly[1].frame = h.frame
      <3>1. Assembly[1] = [frame |-> h.frame, part |-> 1, size |-> h.size]
        BY <2>1, <2>2
      <3> QED
        BY <3>1
    <2>4. DOMAIN Assembly = 1 .. Len(Assembly)
      BY <2>2
    <2>5. ASSUME NEW k \in DOMAIN Assembly
          PROVE  Assembly[k].frame = Assembly[1].frame /\ Assembly[k].part = k
      <3>1. Assembly[k] = [frame |-> h.frame, part |-> k, size |-> h.size]
        BY <2>1, <2>4
      <3> QED
        BY <2>3, <3>1
    <2>6. Len(Assembly) = Assembly[1].size
      BY <1>0, <2>1, <2>3 DEF IsLast
    <2> QED
      BY <2>5, <2>6 DEF Whole
  <1>5. ASSUME h.frame \in missed, Whole(Assembly) PROVE FALSE
    <2>1. PICK p \in Nat \ {0} : Absent(h.frame, p)
      BY <1>1, <1>2, <1>5 DEF Stream, Holes
    <2>2. p <= h.size /\ h.part # p
      BY <1>1, <2>1 DEF Absent
    <2>3. /\ Assembly \in Seq(Report) /\ Len(Assembly) \in Nat /\ Len(Assembly) >= 1
          /\ Assembly[Len(Assembly)] = h
      BY <1>1, AssemblyShape
    <2>4. /\ Len(Assembly) = Assembly[1].size /\ DOMAIN Assembly = 1 .. Len(Assembly)
          /\ \A k \in DOMAIN Assembly :
               Assembly[k].frame = Assembly[1].frame /\ Assembly[k].part = k
      BY <1>5, <2>3 DEF Whole
    <2>5. Assembly[1].frame = h.frame
      BY <2>3, <2>4
    <2>6. CASE IsFirst(h)
      <3>1. Len(Assembly) = 1
        BY <1>1, <2>6, AssemblyShape
      <3>2. h.size = 1
        BY <2>3, <2>4, <3>1
      <3> QED
        BY <2>2, <2>6, <3>2 DEF IsFirst
    <2>7. CASE ~IsFirst(h)
      <3>1. /\ Len(Assembly) = Len(assembling) + 1 /\ assembling # <<>>
            /\ assembling \in Seq(Report) /\ Len(assembling) \in Nat
            /\ \A i \in 1 .. Len(assembling) : Assembly[i] = assembling[i]
        BY <1>1, <2>7, AssemblyShape, LenProperties DEF TypeOK
      <3>2. 1 \in 1 .. Len(assembling) /\ Assembly[1] = assembling[1]
        BY <3>1, EmptySeq
      <3>3. Before(assembling[1], h) /\ assembling[1] \in Report
        BY <1>1, <3>1, <3>2, ElementOfSeq DEF Stream, Ordered
      <3>4. Assembly[1].size = h.size
        BY <1>1, <2>5, <3>2, <3>3, Reports DEF Before
      <3>5. p \in 1 .. Len(Assembly)
        <4>1. Len(Assembly) = h.size
          BY <2>4, <3>4
        <4>2. p <= Len(Assembly) /\ Len(Assembly) \in Nat
          BY <2>2, <2>3, <4>1
        <4> QED
          BY <4>2
      <3>6. CASE p = Len(Assembly)
        <4>1. h.part = p
          BY <2>3, <2>4, <3>5, <3>6
        <4> QED
          BY <2>2, <4>1
      <3>7. CASE p # Len(Assembly)
        <4>1. p \in 1 .. Len(assembling)
          BY <3>1, <3>5, <3>7
        <4>2. assembling[p].frame = h.frame /\ assembling[p].part = p
          BY <2>4, <2>5, <3>1, <3>5, <4>1
        <4> QED
          BY <2>1, <4>1, <4>2 DEF Absent
      <3> QED
        BY <3>6, <3>7
    <2> QED
      BY <2>6, <2>7
  <1>6. intact' = (h.frame \notin missed)
    BY <1>0, <1>4, <1>5 DEF Whole
  <1>7. ~intact' => Flagged
    BY <1>0, <1>4
  <1> QED
    BY <1>0, <1>2, <1>3, <1>6, <1>7

(* The frames that are returned are the delivery of FrameDelivery          *)
(* (QcUsb::read_message).                                                  *)
LEMMA MissedOnly ==
    ASSUME StreamInv, StreamInv', UNCHANGED <<device, taken, intact>>, missed \subseteq missed'
    PROVE  Delivery!DeliveryNext
  <1>1. missed' \subseteq 1 .. device'.frame
    BY DEF StreamInv, Typed, TypeOK
  <1>2. Delivery!Miss
    BY <1>1 DEF Delivery!Miss
  <1> QED
    BY <1>2 DEF Delivery!DeliveryNext

LEMMA SentOnly ==
    ASSUME StreamInv, StreamInv', DeviceSends, UNCHANGED <<taken, intact>>, missed \subseteq missed'
    PROVE  Delivery!DeliveryNext
  <1>1. device'.frame \in {device.frame, device.frame + 1}
    BY DeviceGoesOn DEF StreamInv, Typed
  <1>2. missed' \subseteq 1 .. device'.frame
    BY DEF StreamInv, Typed, TypeOK
  <1>3. Delivery!Miss
    BY <1>2 DEF Delivery!Miss
  <1> QED
    BY <1>1, <1>3 DEF Delivery!DeliveryNext, Delivery!Send

LEMMA DeliveryStep ==
    ASSUME StreamInv, StreamInv', [Next]_hidVars
    PROVE  [Delivery!DeliveryNext]_(Delivery!deliveryVars)
  <1>1. CASE SendsUnheard \/ ReadReport \/ ReadShort
    <2>1. DeviceSends /\ UNCHANGED <<taken, intact>> /\ missed \subseteq missed'
      BY <1>1 DEF SendsUnheard, ReadReport, ReadShort
    <2> QED
      BY <2>1, SentOnly
  <1>2. CASE Open \/ ReadNothing \/ ReadFails \/ MarkOverflow \/ WaitAtQueue
             \/ HelloDone \/ BeginBackup \/ EndBackup
    BY <1>2 DEF Open, ReadNothing, ReadFails, MarkOverflow, WaitAtQueue, HelloDone, BeginBackup,
                EndBackup, deviceVars, frameVars, Delivery!deliveryVars
  <1>3. CASE TakeFlag \/ ReaderGone \/ ReadErrorEvent \/ PushTooLarge \/ PushUndecodable
    <2>1. PICK rest, lost : ReadError(rest, lost)
      BY <1>3 DEF TakeFlag, ReaderGone, ReadErrorEvent, PushTooLarge, PushUndecodable
    <2>2. UNCHANGED <<device, taken, intact>> /\ missed \subseteq missed'
      BY <2>1 DEF ReadError, Close, deviceVars
    <2> QED
      BY <2>2, MissedOnly
  <1>4. CASE NothingComes \/ PushShort \/ PushOrphan \/ PushPart
    BY <1>4 DEF NothingComes, PushShort, PushOrphan, PushPart, ReadOk, deviceVars,
                Delivery!deliveryVars
  <1>5. CASE PushLast
    <2>1. PICK n : n = taken'
      OBVIOUS
    <2>2. /\ n \in taken + 1 .. device.frame /\ taken + 1 .. n - 1 \subseteq missed
          /\ intact' = (n \notin missed) /\ UNCHANGED <<device, missed>>
      BY <1>5, <2>1, TakenFrame
    <2>3. Delivery!Take(n)
      BY <2>1, <2>2 DEF Delivery!Take
    <2> QED
      BY <2>2, <2>3 DEF Delivery!DeliveryNext
  <1>6. CASE GiveUp
    <2>1. UNCHANGED <<device, taken, intact>> /\ missed \subseteq missed'
      BY <1>6 DEF GiveUp, Close, deviceVars
    <2> QED
      BY <2>1, MissedOnly
  <1>7. CASE UNCHANGED hidVars
    BY <1>7 DEF hidVars, deviceVars, frameVars, Delivery!deliveryVars
  <1> QED
    BY <1>1, <1>2, <1>3, <1>4, <1>5, <1>6, <1>7 DEF Next, ReaderNext, WorkerReads, Push

THEOREM DeliveryTheorem == Spec => FramesAreDelivered
  <1>1. Init => Delivery!DeliveryInit
    BY DEF Init, Short, Delivery!DeliveryInit
  <1>2. StreamInv /\ StreamInv' /\ [Next]_hidVars
          => [Delivery!DeliveryNext]_(Delivery!deliveryVars)
    BY DeliveryStep
  <1> QED
    BY <1>1, <1>2, StreamTheorem, PTL DEF Spec, FramesAreDelivered, Delivery!DeliverySpec

(* No frame comes torn without an overflow that is flagged or told.        *)
THEOREM TornTheorem == Spec => TornFrameIsFlagged
  <1>1. ASSUME StreamInv, [Next]_hidVars
        PROVE  [(taken' # taken /\ ~intact') => (overflowed \/ told)]_hidVars
    <2>1. CASE PushLast
      BY <1>1, <2>1, TakenFrame DEF Flagged
    <2>2. ASSUME ~PushLast, Next PROVE taken' = taken
      BY <2>2 DEF Next, SendsUnheard, Open, ReaderNext, ReadReport, ReadShort, ReadNothing,
                  ReadFails, MarkOverflow, WorkerReads, TakeFlag, WaitAtQueue, NothingComes,
                  ReaderGone, ReadErrorEvent, Push, PushShort, PushOrphan, PushTooLarge, PushPart,
                  PushUndecodable, ReadError, HelloDone, GiveUp, BeginBackup, EndBackup, frameVars
    <2> QED
      BY <1>1, <2>1, <2>2
  <1> QED
    BY <1>1, StreamTheorem, PTL DEF Spec, TornFrameIsFlagged

=============================================================================
