------------------------------ MODULE HidLane ------------------------------
(***************************************************************************)
(* From HID reports to frames (services/device-broker/src/usb.rs: HidIo,   *)
(* QcUsb::read_message; qc-protocol/src/session.rs: FrameAssembler;        *)
(* qc-protocol/src/framing.rs).                                            *)
(*                                                                         *)
(* A thread reads reports from the device into a bounded queue.  When the  *)
(* queue is full it drops the report and sets a flag, in two steps.  The   *)
(* worker looks at the flag, then waits at the queue, again in two steps,  *)
(* and puts what it gets into the assembler.  It reads in its loop, where  *)
(* one failed read is tolerated and a second one closes the link, in the   *)
(* handshake, where any failed read closes it, or in a backup, which any   *)
(* failed read ends.                                                       *)
(***************************************************************************)
EXTENDS Integers, Sequences, FiniteSets

CONSTANTS
    MaxReports,  \* reports of the largest frame the assembler takes
    Sizes,       \* reports of the frames the device sends
    MaxFrames,   \* frames the device sends
    MaxFaults,   \* reads of the device that fail, or bring a short report
    MaxSessions  \* times the device is opened

ASSUME LimitsAssumption ==
    /\ MaxReports \in Nat \ {0} /\ Sizes \subseteq Nat \ {0}
    /\ MaxFrames \in Nat /\ MaxFaults \in Nat /\ MaxSessions \in Nat

(* HID_READ_QUEUE_CAPACITY                                                 *)
Capacity == MaxReports + 1

VARIABLES
    device,     \* the report the device sent last: frame, part, size
    faults,     \* faults so far
    session,    \* times the device was opened
    open,       \* there is a QcUsb
    reader,     \* where the reader thread is
    errors,     \* its consecutive_errors
    queue,      \* the channel
    overflowed, \* the flag
    assembling, \* FrameAssembler.reports
    doing,      \* what the worker reads for
    reading,    \* where it is in HidIo::read
    failures,   \* consecutive_read_errors
    missed,     \* history: frames of which a report was not assembled
    taken,      \* history: the last frame that was returned
    intact,     \* history: it is the frame the device sent
    dropped,    \* history: a report was dropped, and no overflow reported since
    told        \* history: an overflow was reported in this session

deviceVars  == <<device, faults>>
readerVars  == <<reader, errors, queue, overflowed, dropped>>
workerVars  == <<assembling, doing, reading, failures, told>>
frameVars   == <<missed, taken, intact>>
hidVars == <<deviceVars, session, open, readerVars, workerVars, frameVars>>

-----------------------------------------------------------------------------
(* A report is a part of a frame.  The first one has FLAG_FIRST, the last  *)
(* one FLAG_LAST.  A short report is of no frame, a failed read no report. *)
Report == [frame : Nat, part : Nat, size : Nat]
Short == [frame |-> 0, part |-> 0, size |-> 0]
Failed == [frame |-> 0, part |-> 1, size |-> 0]

IsFirst(report) == report.part = 1
IsLast(report) == report.part = report.size

TypeOK ==
    /\ device \in Report
    /\ {faults, session, taken} \subseteq Nat
    /\ {open, overflowed, intact, dropped, told} \subseteq BOOLEAN
    /\ reader \in {"reading", "dropping", "stopped"}
    /\ errors \in 0..2
    /\ queue \in Seq(Report) /\ Len(queue) <= Capacity
    /\ assembling \in Seq(Report) /\ Len(assembling) <= MaxReports
    /\ doing \in {"handshake", "loop", "backup"}
    /\ reading \in {"check", "receive"}
    /\ failures \in 0..1
    /\ missed \subseteq 1..device.frame
    /\ taken <= device.frame

Init ==
    /\ device = Short
    /\ faults = 0 /\ session = 0 /\ open = FALSE
    /\ reader = "stopped" /\ errors = 0 /\ queue = <<>> /\ overflowed = FALSE
    /\ assembling = <<>> /\ doing = "loop" /\ reading = "check" /\ failures = 0
    /\ missed = {} /\ taken = 0 /\ intact = TRUE /\ dropped = FALSE /\ told = FALSE

-----------------------------------------------------------------------------
(* The device sends frames report by report, whoever listens.              *)
DeviceSends ==
    IF device.part < device.size
    THEN device' = [device EXCEPT !.part = @ + 1]
    ELSE /\ device.frame < MaxFrames
         /\ \E size \in Sizes :
              device' = [frame |-> device.frame + 1, part |-> 1, size |-> size]

SendsUnheard ==
    /\ ~open
    /\ DeviceSends
    /\ missed' = missed \cup {device'.frame}
    /\ UNCHANGED <<faults, session, open, readerVars, workerVars, taken, intact>>

(* QcUsb::open and HidIo::start: everything is new.                        *)
Open ==
    /\ ~open
    /\ session < MaxSessions
    /\ session' = session + 1
    /\ open' = TRUE
    /\ reader' = "reading" /\ errors' = 0 /\ queue' = <<>> /\ overflowed' = FALSE
    /\ assembling' = <<>> /\ doing' = "handshake" /\ reading' = "check" /\ failures' = 0
    /\ dropped' = FALSE /\ told' = FALSE
    /\ UNCHANGED <<deviceVars, frameVars>>

-----------------------------------------------------------------------------
(***************************************************************************)
(* The reader thread                                                       *)
(***************************************************************************)

TrySendQuietly(event, onwards) ==
    /\ queue' = IF Len(queue) < Capacity THEN Append(queue, event) ELSE queue
    /\ reader' = onwards
    /\ dropped' = (dropped \/ Len(queue) = Capacity)

(* try_send: when the queue is full, the event is dropped.                 *)
TrySend(event, onwards) ==
    \/ /\ Len(queue) < Capacity
       /\ queue' = Append(queue, event)
       /\ reader' = onwards
       /\ UNCHANGED dropped
    \/ /\ Len(queue) = Capacity
       /\ dropped' = TRUE
       /\ reader' = "dropping"
       /\ UNCHANGED queue

ReadReport ==
    /\ open /\ reader = "reading"
    /\ DeviceSends
    /\ errors' = 0
    /\ TrySend(device', "reading")
    /\ missed' = missed \cup IF Len(queue) = Capacity THEN {device'.frame} ELSE {}
    /\ UNCHANGED <<faults, session, open, overflowed, workerVars, taken, intact>>

(* A report shorter than its header: a report of the frame the device is   *)
(* sending is lost, and with it what is being assembled.                   *)
ReadShort ==
    /\ open /\ reader = "reading"
    /\ faults < MaxFaults
    /\ faults' = faults + 1
    /\ DeviceSends
    /\ errors' = 0
    /\ TrySend(Short, "reading")
    /\ missed' = missed \cup {device'.frame}
    /\ UNCHANGED <<session, open, overflowed, workerVars, taken, intact>>

(* The time-out of 200 ms passes.                                          *)
ReadNothing ==
    /\ open /\ reader = "reading"
    /\ errors' = 0
    /\ UNCHANGED <<deviceVars, session, open, reader, queue, overflowed, dropped, workerVars,
                   frameVars>>

(* The read fails; after the second time in a row the thread ends.         *)
ReadFails ==
    /\ open /\ reader = "reading"
    /\ faults < MaxFaults
    /\ faults' = faults + 1
    /\ errors' = errors + 1
    /\ TrySend(Failed, IF errors' >= 2 THEN "stopped" ELSE "reading")
    /\ UNCHANGED <<device, session, open, overflowed, workerVars, frameVars>>

MarkOverflow ==
    /\ open /\ reader = "dropping"
    /\ overflowed' = TRUE
    /\ reader' = IF errors >= 2 THEN "stopped" ELSE "reading"
    /\ UNCHANGED <<deviceVars, session, open, errors, queue, dropped, workerVars, frameVars>>

-----------------------------------------------------------------------------
(***************************************************************************)
(* The worker                                                              *)
(***************************************************************************)

(* Reports on the way when the link is closed are lost.                    *)
FramesOf(reports) == {reports[i].frame : i \in DOMAIN reports} \ {0}

(* The QcUsb is dropped: HidIo joins the reader thread.                    *)
Close ==
    /\ open' = FALSE
    /\ reader' = "stopped"
    /\ queue' = <<>>
    /\ missed' = missed \cup FramesOf(queue) \cup FramesOf(assembling)

(* A read that fails: the handshake gives up, the loop gives up the second *)
(* time in a row (read_failed), a backup is over and the session stays.    *)
ReadError(rest, lost) ==
    /\ reading' = "check"
    /\ \/ /\ doing = "handshake" \/ (doing = "loop" /\ failures = 1)
          /\ Close
          /\ doing' = "loop" /\ failures' = 0
       \/ /\ doing # "handshake" /\ ~(doing = "loop" /\ failures = 1)
          /\ doing' = "loop"
          /\ failures' = IF doing = "loop" THEN 1 ELSE failures
          /\ queue' = rest
          /\ missed' = missed \cup lost
          /\ UNCHANGED <<open, reader>>
    /\ UNCHANGED <<deviceVars, session, errors, taken, intact>>

(* A read that does not fail.  Only the loop calls read_succeeded.         *)
ReadOk(rest) ==
    /\ reading' = "check"
    /\ failures' = IF doing = "loop" THEN 0 ELSE failures
    /\ queue' = rest
    /\ UNCHANGED <<deviceVars, session, open, reader, errors, overflowed, dropped, doing, told,
                   missed>>

TakeFlagQuietly ==
    /\ open /\ reading = "check" /\ overflowed
    /\ overflowed' = FALSE
    /\ reading' = "receive"
    /\ UNCHANGED <<deviceVars, session, open, reader, errors, queue, dropped, assembling, doing,
                   failures, told, frameVars>>

(* HidIo::read looks at the flag and resets it.                            *)
TakeFlag ==
    /\ open /\ reading = "check" /\ overflowed
    /\ overflowed' = FALSE
    /\ told' = TRUE /\ dropped' = (reader = "dropping")
    /\ ReadError(queue, {})
    /\ UNCHANGED assembling

WaitAtQueue ==
    /\ open /\ reading = "check" /\ ~overflowed
    /\ reading' = "receive"
    /\ UNCHANGED <<deviceVars, session, open, readerVars, assembling, doing, failures, told,
                   frameVars>>

NothingComes ==
    /\ open /\ reading = "receive" /\ queue = <<>> /\ reader # "stopped"
    /\ ReadOk(queue)
    /\ UNCHANGED <<assembling, taken, intact>>

ReaderGoneUnnoticed ==
    /\ open /\ reading = "receive" /\ queue = <<>> /\ reader = "stopped"
    /\ ReadOk(queue)
    /\ UNCHANGED <<assembling, taken, intact>>

(* The reader thread has ended: the channel is disconnected.               *)
ReaderGone ==
    /\ open /\ reading = "receive" /\ queue = <<>> /\ reader = "stopped"
    /\ ReadError(queue, {})
    /\ UNCHANGED <<overflowed, dropped, assembling, told>>

ReadErrorEvent ==
    /\ open /\ reading = "receive" /\ queue # <<>> /\ Head(queue) = Failed
    /\ ReadError(Tail(queue), {})
    /\ UNCHANGED <<overflowed, dropped, assembling, told>>

-----------------------------------------------------------------------------
(***************************************************************************)
(* FrameAssembler::push                                                    *)
(***************************************************************************)
Receives == open /\ reading = "receive" /\ queue # <<>> /\ Head(queue) # Failed

AssemblyNotReset == Append(assembling, Head(queue))

Assembly == IF IsFirst(Head(queue)) THEN <<Head(queue)>> ELSE Append(assembling, Head(queue))

IsOrphan(report) == ~IsFirst(report) /\ assembling = <<>>

PushShort ==
    /\ Receives /\ Head(queue) = Short
    /\ assembling' = <<>>
    /\ ReadOk(Tail(queue))
    /\ UNCHANGED <<taken, intact>>

PushOrphan ==
    /\ Receives /\ Head(queue) # Short /\ IsOrphan(Head(queue))
    /\ ReadOk(Tail(queue))
    /\ UNCHANGED <<assembling, taken, intact>>

Pushes == Receives /\ Head(queue) # Short /\ ~IsOrphan(Head(queue))

PushTooLarge ==
    /\ Pushes /\ Len(Assembly) > MaxReports
    /\ assembling' = <<>>
    /\ ReadError(Tail(queue), {Head(queue).frame})
    /\ UNCHANGED <<overflowed, dropped, told>>

PushPart ==
    /\ Pushes /\ Len(Assembly) <= MaxReports /\ ~IsLast(Head(queue))
    /\ assembling' = Assembly
    /\ ReadOk(Tail(queue))
    /\ UNCHANGED <<taken, intact>>

(* These are all the reports of one frame.                                 *)
Whole(reports) ==
    /\ Len(reports) = reports[1].size
    /\ \A i \in DOMAIN reports :
         reports[i].frame = reports[1].frame /\ reports[i].part = i

Completes == Pushes /\ Len(Assembly) <= MaxReports /\ IsLast(Head(queue))

PushLast ==
    /\ Completes
    /\ assembling' = <<>>
    /\ taken' = Head(queue).frame
    /\ intact' = Whole(Assembly)
    /\ ReadOk(Tail(queue))

(* A torn frame need not decode: its trailer or its gzip data is cut off.  *)
PushUndecodable ==
    /\ Completes /\ ~Whole(Assembly)
    /\ assembling' = <<>>
    /\ ReadError(Tail(queue), {Head(queue).frame})
    /\ UNCHANGED <<overflowed, dropped, told>>

-----------------------------------------------------------------------------
(* The device said hello, and finish_hello has read what it waits for.     *)
HelloDone ==
    /\ open /\ doing = "handshake" /\ reading = "check"
    /\ doing' = "loop"
    /\ UNCHANGED <<deviceVars, session, open, readerVars, assembling, reading, failures, told,
                   frameVars>>

(* The handshake times out; the owner disconnects; another reconnects.     *)
GiveUp ==
    /\ open /\ doing # "backup" /\ reading = "check"
    /\ Close
    /\ doing' = "loop" /\ failures' = 0
    /\ UNCHANGED <<deviceVars, session, errors, overflowed, dropped, assembling, reading, told,
                   taken, intact>>

BeginBackup ==
    /\ open /\ doing = "loop" /\ reading = "check"
    /\ doing' = "backup"
    /\ UNCHANGED <<deviceVars, session, open, readerVars, assembling, reading, failures, told,
                   frameVars>>

(* The document is complete, or one of the deadlines of the backup passed. *)
EndBackup ==
    /\ open /\ doing = "backup" /\ reading = "check"
    /\ doing' = "loop"
    /\ UNCHANGED <<deviceVars, session, open, readerVars, assembling, reading, failures, told,
                   frameVars>>

ReaderNext == ReadReport \/ ReadShort \/ ReadNothing \/ ReadFails \/ MarkOverflow

Push == PushShort \/ PushOrphan \/ PushTooLarge \/ PushPart \/ PushLast \/ PushUndecodable

WorkerReads ==
    TakeFlag \/ WaitAtQueue \/ NothingComes \/ ReaderGone \/ ReadErrorEvent \/ Push

Next ==
    \/ SendsUnheard \/ Open
    \/ ReaderNext
    \/ WorkerReads
    \/ HelloDone \/ GiveUp \/ BeginBackup \/ EndBackup

Spec == Init /\ [][Next]_hidVars

(* Both threads run.  Every turn of the worker's loop ends in a read: the  *)
(* commands before it (a backup, here) do not keep it from reading for     *)
(* ever, unless they never stop coming.  The device answers the handshake  *)
(* or the handshake times out.                                             *)
LoopReads == doing = "loop" /\ WorkerReads

FairSpec ==
    /\ Spec
    /\ WF_hidVars(MarkOverflow)
    /\ WF_hidVars(WorkerReads) /\ SF_hidVars(LoopReads)
    /\ WF_hidVars(HelloDone)

-----------------------------------------------------------------------------
Delivery == INSTANCE FrameDelivery WITH sent <- device.frame

(* Whatever is dropped, cut short or left behind by a closed session: the  *)
(* frames read_message returns are in the order of the device, none comes  *)
(* twice, only frames with a lost report are skipped, and only those come  *)
(* torn (FrameAssembler::push realigns at every FIRST report).             *)
FramesAreDelivered == Delivery!DeliverySpec

(* When read_message returns a torn frame, the overflow that tore it has   *)
(* been put into the flag of this session, or was reported from it.        *)
TornFrameIsFlagged ==
    [][(taken' # taken /\ ~intact') => (overflowed \/ told)]_hidVars

(* A drop is never forgotten: until it is reported to the worker as a read *)
(* error the flag is up, or the reader is about to put it up, whatever the *)
(* worker does between its look at the flag and its wait at the queue.     *)
DropIsPending ==
    (open /\ dropped) => (overflowed \/ reader = "dropping")

(* The end of the reader thread ends the link, even when backups are asked *)
(* for all the time: each of them takes a read error of its own.           *)
DeadReaderEndsLink == (open /\ reader = "stopped") ~> ~open

(* usb.rs:121-124: "A dropped report invalidates the current logical       *)
(* frame. Let the broker tear down and re-open the session rather than     *)
(* attempting to decode a discontinuous byte stream."                      *)
NoTornFrame == intact

=============================================================================
