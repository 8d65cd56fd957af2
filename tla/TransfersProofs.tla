--------------------------- MODULE TransfersProofs ---------------------------
(***************************************************************************)
(* Proofs about Transfers, for any positions and any numbers of calls and  *)
(* events.                                                                 *)
(*                                                                         *)
(* Documents: everything between the device and the worker is one sequence *)
(* in the order in which it was asked for (InOrder), and of an older       *)
(* document than another's end no part is left without its start           *)
(* (StartsAreKept), unless a report was dropped.  So the chunks that make  *)
(* a valid document are those of one document.  A backup that crossed no   *)
(* chunk with a brace meets braces of its own document only, and the start *)
(* of that first (OwnStart): what the assembler has not left out is its    *)
(* own, and valid.                                                         *)
(* Volumes only rise, so the last one told is seen, lost or still unread.  *)
(* Library: a listing on its way is of an earlier version, or true         *)
(* (ListingsAreTrue).  The command of a save is the last one (SaveIsLast), *)
(* so once it is stored no listing is newer than it (StoredIsLast), and    *)
(* what the library showed before differs from the device in the saved     *)
(* position only (LastSave).                                               *)
(***************************************************************************)
EXTENDS Transfers, SequenceTheorems, TLAPS

-----------------------------------------------------------------------------
(***************************************************************************)
(* Types                                                                   *)
(***************************************************************************)
Files == UNION {[P -> Nat] : P \in SUBSET Positions}

(* Of a message only what its kind tells is there.                         *)
Messages ==
    {m \in [kind : {"list", "chunk", "volume", "stored"}, key : {NoKey, Setlist, Captures},
            files : Files, version : Nat, of : 0 .. MaxCalls, part : 0 .. LastPart, volume : Nat] :
        /\ (m.kind = "chunk") = (m.part # 0)
        /\ (m.kind = "volume") = (m.volume # 0)
        /\ (m.kind = "list") = (m.key # NoKey)
        /\ m.part # 0 => m.of # 0 /\ m = Chunk(m.of, m.part)}

Commands ==
    [op : {"backup", "list", "save", "volume"}, of : 1 .. MaxCalls, position : Nat]

Devices == [files : Files, volume : Nat \ {0}, sending : Seq(Messages)]

Workers ==
    [at : {"reading", "collecting", "delivering"}, of : Nat, doc : Seq(Messages),
     todo : Seq(Messages), half : BOOLEAN, crossed : BOOLEAN]

Calls ==
    [kind : {"none", "backup", "folders", "presets", "slots", "save"},
     at : {"none", "asking", "resync", "sending", "sent", "looking", "waiting"},
     of : 0 .. MaxCalls, position : Nat, heard : BOOLEAN, doc : Seq(Messages)]

Histories == [version : Nat \ {0}, offered : Nat, lost : Nat, dropped : BOOLEAN, saved : Nat]

Typed ==
    /\ dev \in Devices
    /\ toDevice \in Seq(Commands) /\ inbox \in Seq(Commands)
    /\ wire \in Seq(Messages)
    /\ dropped \in BOOLEAN
    /\ worker \in Workers
    /\ seen \in Nat
    /\ call \in Calls
    /\ counts \in [calls : 0 .. MaxCalls, events : Nat]
    /\ past \in Histories

-----------------------------------------------------------------------------
(***************************************************************************)
(* The order of messages: chunks come as they were asked for, volumes only *)
(* rise.  What is on its way passes from the device to the wire and on to  *)
(* what the worker has set aside or collected.                             *)
(***************************************************************************)
Sorted(s, R) == \A i, j \in DOMAIN s : i < j => <<s[i], s[j]>> \in R

Later ==
    {pair \in Messages \X Messages :
        /\ pair[1].part # 0 /\ pair[2].part # 0 =>
              \/ pair[1].of < pair[2].of
              \/ pair[1].of = pair[2].of /\ pair[1].part < pair[2].part
        /\ pair[1].volume # 0 /\ pair[2].volume # 0 => pair[1].volume <= pair[2].volume}

Kept == Range(worker.todo) \cup Range(worker.doc)
Unread == Range(wire) \cup Range(worker.todo)
Chunks == {m \in Range(worker.doc) \cup Range(wire) \cup Range(dev.sending) : m.part # 0}

InOrder ==
    /\ Sorted(dev.sending, Later) /\ Sorted(wire, Later)
    /\ Sorted(worker.todo, Later) /\ Sorted(worker.doc, Later)
    /\ \A a \in Kept : \A b \in Range(wire) \cup Range(dev.sending) : <<a, b>> \in Later
    /\ \A a \in Range(wire) : \A b \in Range(dev.sending) : <<a, b>> \in Later

(* The device sends chunks, and only the worker that collects has some:    *)
(* starts of documents, until one is complete.                             *)
Placed ==
    /\ \A m \in Range(dev.sending) \cup Range(worker.doc) : m.part # 0
    /\ worker.at = "reading" => worker.doc = <<>>
    /\ worker.at = "collecting" => \A m \in Range(worker.doc) : m.part = 1
    /\ worker.half => /\ worker.at # "collecting"
                      /\ worker.todo # <<>> /\ Head(worker.todo).kind = "list"

(* Commands come in the order of the calls, and a document after what was  *)
(* asked for before it.                                                    *)
AskedLater ==
    {pair \in Commands \X Commands :
        pair[1].op = "backup" /\ pair[2].op = "backup" => pair[1].of < pair[2].of}

Asked == Range(toDevice) \cup Range(inbox)

AskedInOrder ==
    /\ Sorted(toDevice, AskedLater) /\ Sorted(inbox, AskedLater)
    /\ \A a \in Range(toDevice) : \A b \in Range(inbox) : <<a, b>> \in AskedLater
    /\ \A c \in Asked : c.of <= counts.calls
    /\ \A m \in Unread \cup Chunks : m.of <= counts.calls
    /\ \A c \in Asked : c.op = "backup" =>
           \A m \in Unread \cup Chunks : m.part # 0 => m.of < c.of
    /\ \A c \in Asked : c.op = "save" => c.position \in Positions

(* The end of a document has its start before it, or nothing older.        *)
Started(C) ==
    \A m \in C : m.part = LastPart =>
        \/ \E n \in C : n.part = 1 /\ n.of = m.of
        \/ \A n \in C : m.of <= n.of

StartsAreKept == past.dropped \/ Started(Chunks)

(* A backup that crossed no brace of another meets its own braces only,    *)
(* and of its own document the start is there.                             *)
OwnStart ==
    worker.at = "collecting" /\ ~worker.crossed =>
        /\ \A m \in Chunks : Opens(m) => m.of = worker.of
        /\ \A c \in Range(toDevice) : c.op = "backup" => c.of = worker.of
        /\ \/ dropped
           \/ \A m \in Chunks : m.of # worker.of
           \/ \E k \in Chunks : k.part = 1 /\ k.of = worker.of

Flow == InOrder /\ Placed /\ AskedInOrder /\ StartsAreKept /\ OwnStart

-----------------------------------------------------------------------------
(***************************************************************************)
(* The call, and what it is handed.                                        *)
(***************************************************************************)
CallShape ==
    /\ call.kind = "none" => call = NoCall
    /\ call.kind # "none" => call.of = counts.calls /\ call.of # 0 /\ call.at # "none"
    /\ call.at \in {"asking", "resync"} => call.kind = "backup"
    /\ call.at \in {"looking", "waiting"} => call.kind = "slots"
    /\ call.kind = "save" => call.at \in {"sending", "sent"} /\ call.position \in Positions
    /\ call.heard /\ call.kind = "backup" => call.at = "sent"

WholeDocument(doc) == past.dropped \/ \E of \in 1 .. MaxCalls : doc = Document(of)

Handed ==
    /\ worker.at = "delivering" => WholeDocument(worker.doc)
    /\ call.kind = "backup" /\ call.at # "asking" => WholeDocument(call.doc)

Answers == CallShape /\ Handed /\ WholeBackup /\ OnlyBracesSpoil

-----------------------------------------------------------------------------
(***************************************************************************)
(* Volumes: the last one told is seen, lost or still to be read.           *)
(***************************************************************************)
Volumes ==
    /\ seen <= dev.volume /\ past.lost <= dev.volume
    /\ \A m \in Unread : m.volume # 0 => seen <= m.volume /\ m.volume <= dev.volume
    /\ \/ dev.volume \in {seen, past.lost}
       \/ \E m \in Unread : m.volume = dev.volume

-----------------------------------------------------------------------------
(***************************************************************************)
(* The library.                                                            *)
(***************************************************************************)
Listings == {m \in Unread : m.key = Setlist}

ListingsAreTrue ==
    /\ \A m \in Listings : m.version \in 1 .. past.version
    /\ \A m \in Listings : m.version = past.version => m.files = dev.files
    /\ past.offered <= past.version /\ past.saved <= past.version /\ past.saved # 1

(* The command of a save is the last one.                                  *)
SaveIsLast ==
    call.kind = "save" =>
        /\ \A i \in 1 .. Len(inbox) : inbox[i].of = call.of =>
               i = Len(inbox) /\ inbox[i].position = call.position
        /\ \A i \in 1 .. Len(toDevice) : toDevice[i].of = call.of =>
               i = Len(toDevice) /\ toDevice[i].position = call.position /\ inbox = <<>>

SaveIsStored ==
    call.kind = "save" /\ (call.heard \/ \E m \in Unread : m.kind = "stored" /\ m.of = call.of)

StoredIsLast ==
    SaveIsStored => /\ toDevice = <<>> /\ inbox = <<>>
                    /\ \A m \in Listings : m.version <= past.saved
                    /\ past.offered <= past.saved

(* The last change of the device's setlist was a save at p.                *)
SavedAt(p) ==
    /\ p \in DOMAIN dev.files /\ dev.files[p] = BySave
    /\ \A m \in Listings : m.version = past.saved - 1 => dev.files = Insert(m.files, p, BySave)
    /\ past.offered = past.saved - 1 /\ Setlist \in DOMAIN library =>
           dev.files = Insert(library[Setlist], p, BySave)
    /\ SaveIsStored => call.position = p

LastSave == past.saved = past.version => \E p \in Positions : SavedAt(p)

Library == ListingsAreTrue /\ LibraryIsTrue /\ SaveIsLast /\ StoredIsLast /\ LastSave

IInv == Typed /\ Flow /\ Answers /\ Volumes /\ Library

-----------------------------------------------------------------------------
(***************************************************************************)
(* Sequences                                                               *)
(***************************************************************************)
LEMMA ElementsOf ==
    ASSUME NEW S, NEW s \in Seq(S)
    PROVE  /\ Len(s) \in Nat /\ DOMAIN s = 1 .. Len(s)
           /\ Range(s) \subseteq S
           /\ \A i \in 1 .. Len(s) : s[i] \in Range(s)
           /\ \A e \in Range(s) : \E i \in 1 .. Len(s) : e = s[i]
           /\ s = <<>> <=> Range(s) = {}
<1>1. Len(s) \in Nat /\ DOMAIN s = 1 .. Len(s) /\ \A i \in 1 .. Len(s) : s[i] \in S
  OBVIOUS
<1>2. Range(s) = {s[i] : i \in 1 .. Len(s)}
  BY <1>1 DEF Range
<1>3. s = <<>> <=> Len(s) = 0
  BY EmptySeq
<1>4. Len(s) = 0 \/ 1 \in 1 .. Len(s)
  BY <1>1
<1> QED
  BY <1>1, <1>2, <1>3, <1>4

LEMMA EmptyElements == Range(<<>>) = {} /\ DOMAIN <<>> = {} /\ Len(<<>>) = 0
BY DEF Range

(* Taking the head of a sorted sequence.                                   *)
LEMMA TakeHead ==
    ASSUME NEW S, NEW R, NEW s \in Seq(S), s # <<>>
    PROVE  /\ Head(s) \in S /\ Tail(s) \in Seq(S) /\ Head(s) = s[1] /\ Len(s) >= 1
           /\ Len(Tail(s)) = Len(s) - 1
           /\ \A i \in 1 .. Len(Tail(s)) : Tail(s)[i] = s[i + 1]
           /\ Range(s) = {Head(s)} \cup Range(Tail(s))
           /\ Sorted(s, R) => /\ Sorted(Tail(s), R)
                              /\ \A e \in Range(Tail(s)) : <<Head(s), e>> \in R
<1>1. /\ Len(s) \in Nat /\ Len(s) >= 1 /\ DOMAIN s = 1 .. Len(s)
      /\ Head(s) = s[1] /\ s[1] \in S /\ Tail(s) \in Seq(S)
      /\ Len(Tail(s)) = Len(s) - 1 /\ DOMAIN Tail(s) = 1 .. Len(Tail(s))
      /\ \A i \in 1 .. Len(Tail(s)) : Tail(s)[i] = s[i + 1]
  BY EmptySeq, HeadTailProperties
<1>2. \A i \in 1 .. Len(Tail(s)) : i + 1 \in 1 .. Len(s) /\ 1 < i + 1 /\ 1 \in 1 .. Len(s)
  BY <1>1
<1>3. \A i \in 1 .. Len(s) : i = 1 \/ (i - 1 \in 1 .. Len(Tail(s)) /\ s[i] = Tail(s)[i - 1])
  BY <1>1
<1>4. Range(s) = {s[i] : i \in 1 .. Len(s)} /\ Range(Tail(s)) = {Tail(s)[i] : i \in 1 .. Len(Tail(s))}
  BY <1>1 DEF Range
<1>5. Range(s) = {Head(s)} \cup Range(Tail(s))
  <2>1. ASSUME NEW e \in Range(s) PROVE e \in {Head(s)} \cup Range(Tail(s))
    <3>1. PICK i \in 1 .. Len(s) : e = s[i]
      BY <1>4
    <3> QED
      BY <1>1, <1>3, <1>4, <3>1
  <2>2. ASSUME NEW e \in {Head(s)} \cup Range(Tail(s)) PROVE e \in Range(s)
    <3>1. CASE e = Head(s)
      <4>1. 1 \in 1 .. Len(s)
        BY <1>1
      <4> QED
        BY <1>1, <1>4, <3>1, <4>1
    <3>2. CASE e \in Range(Tail(s))
      <4>1. PICK i \in 1 .. Len(Tail(s)) : e = Tail(s)[i]
        BY <1>4, <3>2
      <4>2. e = s[i + 1] /\ i + 1 \in 1 .. Len(s)
        BY <1>1, <1>2, <4>1
      <4> QED
        BY <1>4, <4>2
    <3> QED
      BY <2>2, <3>1, <3>2
  <2> QED
    BY <2>1, <2>2
<1>6. ASSUME Sorted(s, R)
      PROVE  Sorted(Tail(s), R) /\ \A e \in Range(Tail(s)) : <<Head(s), e>> \in R
  <2>1. ASSUME NEW i \in 1 .. Len(Tail(s)), NEW j \in 1 .. Len(Tail(s)), i < j
        PROVE  <<Tail(s)[i], Tail(s)[j]>> \in R
    <3>1. i + 1 \in 1 .. Len(s) /\ j + 1 \in 1 .. Len(s) /\ i + 1 < j + 1
      BY <1>1, <2>1
    <3>2. <<s[i + 1], s[j + 1]>> \in R
      BY <1>1, <1>6, <3>1 DEF Sorted
    <3> QED
      BY <1>1, <3>2
  <2>2. ASSUME NEW e \in Range(Tail(s)) PROVE <<Head(s), e>> \in R
    <3>1. PICK i \in 1 .. Len(Tail(s)) : e = Tail(s)[i]
      BY <1>4
    <3>2. e = s[i + 1] /\ <<s[1], s[i + 1]>> \in R
      BY <1>1, <1>2, <1>6, <3>1 DEF Sorted
    <3> QED
      BY <1>1, <3>2
  <2> QED
    BY <1>1, <2>1, <2>2 DEF Sorted
<1> QED
  BY <1>1, <1>5, <1>6

(* Adding to the end of a sequence, and of a sorted one.                   *)
LEMMA AddLast ==
    ASSUME NEW S, NEW s \in Seq(S), NEW e \in S
    PROVE  /\ Append(s, e) \in Seq(S) /\ Append(s, e) # <<>>
           /\ Len(s) \in Nat /\ DOMAIN s = 1 .. Len(s) /\ DOMAIN Append(s, e) = 1 .. Len(s) + 1
           /\ Len(Append(s, e)) = Len(s) + 1 /\ Append(s, e)[Len(s) + 1] = e
           /\ \A i \in 1 .. Len(s) : Append(s, e)[i] = s[i]
           /\ Range(Append(s, e)) = Range(s) \cup {e}
<1> DEFINE t == Append(s, e)
<1>1. /\ Len(s) \in Nat /\ DOMAIN s = 1 .. Len(s)
      /\ t \in Seq(S) /\ t # <<>> /\ Len(t) = Len(s) + 1 /\ DOMAIN t = 1 .. Len(t)
      /\ t[Len(s) + 1] = e /\ \A i \in 1 .. Len(s) : t[i] = s[i]
  BY AppendProperties
<1> HIDE DEF t
<1>2. \A i \in 1 .. Len(t) : i \in 1 .. Len(s) \/ i = Len(s) + 1
  BY <1>1
<1>3. \A i \in 1 .. Len(s) : i \in 1 .. Len(t)
  BY <1>1
<1>4. Len(s) + 1 \in 1 .. Len(t)
  BY <1>1
<1>5. Range(s) = {s[i] : i \in 1 .. Len(s)} /\ Range(t) = {t[i] : i \in 1 .. Len(t)}
  BY <1>1 DEF Range
<1>6. Range(t) = Range(s) \cup {e}
  BY <1>1, <1>2, <1>3, <1>4, <1>5
<1> QED
  BY <1>1, <1>6 DEF t

LEMMA AddLastSorted ==
    ASSUME NEW S, NEW R, NEW s \in Seq(S), NEW e \in S,
           Sorted(s, R), \A a \in Range(s) : <<a, e>> \in R
    PROVE  Sorted(Append(s, e), R)
<1> DEFINE t == Append(s, e)
<1>1. /\ Len(s) \in Nat /\ DOMAIN s = 1 .. Len(s) /\ DOMAIN t = 1 .. Len(s) + 1
      /\ t[Len(s) + 1] = e /\ \A i \in 1 .. Len(s) : t[i] = s[i] /\ s[i] \in Range(s)
  BY AddLast, ElementsOf
<1> HIDE DEF t
<1> SUFFICES ASSUME NEW i \in 1 .. Len(s) + 1, NEW j \in 1 .. Len(s) + 1, i < j
             PROVE  <<t[i], t[j]>> \in R
  BY <1>1 DEF Sorted, t
<1>2. i \in 1 .. Len(s) /\ t[i] = s[i] /\ s[i] \in Range(s)
  BY <1>1
<1>3. CASE j \in 1 .. Len(s)
  BY <1>1, <1>2, <1>3 DEF Sorted
<1>4. CASE j = Len(s) + 1
  BY <1>1, <1>2, <1>4
<1> QED
  BY <1>1, <1>3, <1>4

(* Dropping the last of a sorted sequence.                                 *)
LEMMA DropLast ==
    ASSUME NEW S, NEW R, NEW s \in Seq(S), s # <<>>
    PROVE  /\ Front(s) \in Seq(S) /\ Last(s) \in S
           /\ Range(s) = Range(Front(s)) \cup {Last(s)}
           /\ Sorted(s, R) => Sorted(Front(s), R)
<1> DEFINE n == Len(s) - 1
           t == SubSeq(s, 1, n)
<1>1. /\ Len(s) \in Nat /\ Len(s) >= 1 /\ DOMAIN s = 1 .. Len(s)
      /\ \A i \in 1 .. Len(s) : s[i] \in S
  BY EmptySeq
<1>2. n \in Nat /\ \A i \in 1 .. n : i \in 1 .. Len(s)
  BY <1>1
<1>3. \A i \in 1 .. n : s[i] \in S
  BY <1>1, <1>2
<1>4. n \in Int /\ 1 \in Int
  BY <1>2
<1>5. /\ t \in Seq(S)
      /\ Len(t) = (IF 1 <= n THEN n - 1 + 1 ELSE 0)
      /\ \A i \in 1 .. n - 1 + 1 : t[i] = s[1 + i - 1]
  <2> HIDE DEF n
  <2> QED
    BY ONLY <1>3, <1>4, SubSeqProperties
<1>6. Front(s) = t /\ Last(s) = s[Len(s)]
  BY DEF Front, Last
<1> HIDE DEF t
<1>7. Len(t) = n /\ \A i \in 1 .. n : t[i] = s[i]
  <2>1. Len(t) = n
    <3> HIDE DEF n
    <3> QED
      BY ONLY <1>2, <1>5
  <2>2. ASSUME NEW i \in 1 .. n PROVE t[i] = s[i]
    <3>1. i \in 1 .. n - 1 + 1 /\ 1 + i - 1 = i
      BY <1>2
    <3> QED
      BY <1>5, <3>1
  <2> QED
    BY <2>1, <2>2
<1>8. DOMAIN t = 1 .. n
  BY <1>5, <1>7
<1>9. Range(s) = {s[i] : i \in 1 .. Len(s)} /\ Range(t) = {t[i] : i \in 1 .. n}
  BY <1>1, <1>8 DEF Range
<1>10. \A i \in 1 .. Len(s) : i \in 1 .. n \/ i = Len(s)
  <2>1. Len(s) \in Nat
    BY <1>1
  <2> QED
    BY <2>1
<1>11. Len(s) \in 1 .. Len(s)
  BY <1>1
<1> HIDE DEF n
<1>12. Range(s) = Range(t) \cup {s[Len(s)]}
  BY <1>2, <1>7, <1>9, <1>10, <1>11
<1>13. Sorted(s, R) => Sorted(t, R)
  BY <1>1, <1>2, <1>7, <1>8 DEF Sorted
<1> QED
  BY <1>1, <1>5, <1>6, <1>11, <1>12, <1>13

(* Joining two sorted sequences.                                           *)
LEMMA JoinSorted ==
    ASSUME NEW S, NEW R, NEW s \in Seq(S), NEW t \in Seq(S)
    PROVE  /\ s \o t \in Seq(S)
           /\ Range(s \o t) = Range(s) \cup Range(t)
           /\ Sorted(s, R) /\ Sorted(t, R) /\ (\A a \in Range(s), b \in Range(t) : <<a, b>> \in R)
                => Sorted(s \o t, R)
<1> DEFINE u == s \o t
<1>1. /\ Len(s) \in Nat /\ DOMAIN s = 1 .. Len(s) /\ Len(t) \in Nat /\ DOMAIN t = 1 .. Len(t)
      /\ u \in Seq(S) /\ Len(u) = Len(s) + Len(t) /\ DOMAIN u = 1 .. Len(u)
      /\ \A i \in 1 .. Len(s) + Len(t) : u[i] = IF i <= Len(s) THEN s[i] ELSE t[i - Len(s)]
  BY ConcatProperties
<1>2. Range(u) = Range(s) \cup Range(t)
  BY RangeConcatenation
<1> HIDE DEF u
<1>3. ASSUME Sorted(s, R), Sorted(t, R), \A a \in Range(s), b \in Range(t) : <<a, b>> \in R
      PROVE  Sorted(u, R)
  <2> SUFFICES ASSUME NEW i \in 1 .. Len(u), NEW j \in 1 .. Len(u), i < j
               PROVE  <<u[i], u[j]>> \in R
    BY <1>1 DEF Sorted
  <2>1. CASE j <= Len(s)
    <3>1. i \in 1 .. Len(s) /\ j \in 1 .. Len(s) /\ u[i] = s[i] /\ u[j] = s[j]
      BY <1>1, <2>1
    <3> QED
      BY <1>1, <1>3, <3>1 DEF Sorted
  <2>2. CASE i <= Len(s) /\ ~(j <= Len(s))
    <3>1. /\ i \in 1 .. Len(s) /\ j - Len(s) \in 1 .. Len(t)
          /\ u[i] = s[i] /\ u[j] = t[j - Len(s)]
      BY <1>1, <2>2
    <3>2. u[i] \in Range(s) /\ u[j] \in Range(t)
      BY <1>1, <3>1 DEF Range
    <3> QED
      BY <1>3, <3>2
  <2>3. CASE ~(i <= Len(s))
    <3>1. /\ i - Len(s) \in 1 .. Len(t) /\ j - Len(s) \in 1 .. Len(t)
          /\ i - Len(s) < j - Len(s)
          /\ u[i] = t[i - Len(s)] /\ u[j] = t[j - Len(s)]
      BY <1>1, <2>3
    <3> QED
      BY <1>1, <1>3, <3>1 DEF Sorted
  <2> QED
    BY <1>1, <2>1, <2>2, <2>3
<1> QED
  BY <1>1, <1>2, <1>3 DEF u
-----------------------------------------------------------------------------
(***************************************************************************)
(* Messages                                                                *)
(***************************************************************************)
LEMMA NoListingsType == NoListings \in Files /\ DOMAIN NoListings = {}
<1>1. NoListings \in [{} -> Nat] /\ DOMAIN NoListings = {}
  BY DEF NoListings
<1> QED
  BY <1>1 DEF Files

LEMMA FilesAreFunctions ==
    ASSUME NEW files \in Files
    PROVE  /\ DOMAIN files \subseteq Positions /\ files = [p \in DOMAIN files |-> files[p]]
           /\ \A p \in DOMAIN files : files[p] \in Nat
BY DEF Files

LEMMA FunctionsAreFiles ==
    ASSUME NEW P \in SUBSET Positions, NEW files, files = [p \in P |-> files[p]],
           \A p \in P : files[p] \in Nat
    PROVE  files \in Files
<1>1. files \in [P -> Nat]
  OBVIOUS
<1> QED
  BY <1>1 DEF Files

LEMMA InsertType ==
    ASSUME NEW files \in Files, NEW p \in Positions, NEW name \in Nat
    PROVE  Insert(files, p, name) \in Files
<1> DEFINE new == Insert(files, p, name)
           P == DOMAIN files \cup {p}
<1>1. P \in SUBSET Positions /\ new = [k \in P |-> new[k]] /\ \A k \in P : new[k] \in Nat
  BY FilesAreFunctions DEF Insert
<1> HIDE DEF new, P
<1>2. new \in Files
  BY <1>1, FunctionsAreFiles
<1> QED
  BY <1>2 DEF new

LEMMA RestrictType ==
    ASSUME NEW files \in Files, NEW P
    PROVE  /\ Restrict(files, DOMAIN files \ P) \in Files
           /\ Restrict(files, DOMAIN files \cap Positions) = files
<1> DEFINE Q == DOMAIN files \ P
           new == Restrict(files, Q)
<1>1. Q \in SUBSET Positions /\ new = [k \in Q |-> new[k]] /\ \A k \in Q : new[k] \in Nat
  BY FilesAreFunctions DEF Restrict
<1>2. DOMAIN files \cap Positions = DOMAIN files
  BY FilesAreFunctions
<1>3. Restrict(files, DOMAIN files \cap Positions) = files
  BY <1>2, FilesAreFunctions DEF Restrict
<1> HIDE DEF new, Q
<1>4. new \in Files
  BY <1>1, FunctionsAreFiles
<1> QED
  BY <1>3, <1>4 DEF new, Q

LEMMA ChunkType ==
    ASSUME NEW of \in 1 .. MaxCalls, NEW part \in 1 .. LastPart
    PROVE  /\ Chunk(of, part) \in Messages
           /\ Chunk(of, part).kind = "chunk" /\ Chunk(of, part).key = NoKey
           /\ Chunk(of, part).of = of /\ Chunk(of, part).part = part
           /\ Chunk(of, part).volume = 0
<1> DEFINE m == Chunk(of, part)
<1>1. /\ m \in [kind : {"chunk"}, key : {NoKey}, files : {NoListings}, version : {0},
              of : {of}, part : {part}, volume : {0}]
      /\ m.kind = "chunk" /\ m.key = NoKey /\ m.files = NoListings /\ m.version = 0
      /\ m.of = of /\ m.part = part /\ m.volume = 0
  BY DEF Chunk, Nothing
<1>2. of \in 0 .. MaxCalls /\ part \in 0 .. LastPart /\ of # 0 /\ part # 0
  BY TransfersAssumption DEF LastPart
<1>3. m.of = of /\ m.part = part /\ m = Chunk(m.of, m.part)
  BY <1>1
<1> HIDE DEF m
<1>4. m \in Messages
  BY <1>1, <1>2, <1>3, NoListingsType DEF Messages
<1> QED
  BY <1>1, <1>4 DEF m

LEMMA ListingType ==
    ASSUME NEW key \in {Setlist, Captures}, NEW files \in Files, NEW version \in Nat
    PROVE  /\ Listing(key, files, version) \in Messages
           /\ Listing(key, files, version).kind = "list" /\ Listing(key, files, version).key = key
           /\ Listing(key, files, version).files = files
           /\ Listing(key, files, version).version = version
           /\ Listing(key, files, version).of = 0 /\ Listing(key, files, version).part = 0
           /\ Listing(key, files, version).volume = 0
<1> DEFINE m == Listing(key, files, version)
<1>1. /\ m \in [kind : {"list"}, key : {key}, files : {files}, version : {version},
              of : {0}, part : {0}, volume : {0}]
      /\ m.kind = "list" /\ m.key = key /\ m.files = files /\ m.version = version
      /\ m.of = 0 /\ m.part = 0 /\ m.volume = 0
  BY DEF Listing, Nothing
<1>2. 0 \in 0 .. MaxCalls /\ 0 \in 0 .. LastPart /\ key # NoKey
  BY TransfersAssumption DEF LastPart
<1> HIDE DEF m
<1>3. m \in Messages
  BY <1>1, <1>2 DEF Messages
<1> QED
  BY <1>1, <1>3 DEF m

LEMMA VolumeType ==
    ASSUME NEW volume \in Nat \ {0}
    PROVE  /\ Volume(volume) \in Messages
           /\ Volume(volume).kind = "volume" /\ Volume(volume).key = NoKey
           /\ Volume(volume).of = 0 /\ Volume(volume).part = 0
           /\ Volume(volume).volume = volume
<1> DEFINE m == Volume(volume)
<1>1. /\ m \in [kind : {"volume"}, key : {NoKey}, files : {NoListings}, version : {0},
              of : {0}, part : {0}, volume : {volume}]
      /\ m.kind = "volume" /\ m.key = NoKey /\ m.files = NoListings /\ m.version = 0
      /\ m.of = 0 /\ m.part = 0 /\ m.volume = volume
  BY DEF Volume, Nothing
<1>2. 0 \in 0 .. MaxCalls /\ 0 \in 0 .. LastPart
  BY TransfersAssumption DEF LastPart
<1> HIDE DEF m
<1>3. m \in Messages
  BY <1>1, <1>2, NoListingsType DEF Messages
<1> QED
  BY <1>1, <1>3 DEF m

LEMMA StoredType ==
    ASSUME NEW of \in 1 .. MaxCalls
    PROVE  /\ Stored(of) \in Messages
           /\ Stored(of).kind = "stored" /\ Stored(of).key = NoKey
           /\ Stored(of).of = of /\ Stored(of).part = 0 /\ Stored(of).volume = 0
<1> DEFINE m == Stored(of)
<1>1. /\ m \in [kind : {"stored"}, key : {NoKey}, files : {NoListings}, version : {0},
              of : {of}, part : {0}, volume : {0}]
      /\ m.kind = "stored" /\ m.key = NoKey /\ m.files = NoListings /\ m.version = 0
      /\ m.of = of /\ m.part = 0 /\ m.volume = 0
  BY DEF Stored, Nothing
<1>2. of \in 0 .. MaxCalls /\ 0 \in 0 .. LastPart
  BY TransfersAssumption DEF LastPart
<1> HIDE DEF m
<1>3. m \in Messages
  BY <1>1, <1>2, NoListingsType DEF Messages
<1> QED
  BY <1>1, <1>3 DEF m

(* What the fields of a message say of each other.                         *)
LEMMA MessageFields ==
    ASSUME NEW m \in Messages
    PROVE  /\ m.of \in Nat /\ m.part \in 0 .. 2 /\ m.volume \in Nat /\ m.version \in Nat
           /\ m.files \in Files /\ m.key \in {NoKey, Setlist, Captures}
           /\ m.kind = "chunk" <=> m.part # 0
           /\ m.kind = "list" <=> m.key # NoKey
           /\ m.kind # "volume" => m.volume = 0
           /\ m.kind = "volume" => m.volume # 0
           /\ m.part # 0 => m.volume = 0 /\ m.of \in 1 .. MaxCalls /\ m = Chunk(m.of, m.part)
<1>1. /\ m.of \in 0 .. MaxCalls /\ m.part \in 0 .. LastPart /\ m.volume \in Nat /\ m.version \in Nat
      /\ m.files \in Files /\ m.key \in {NoKey, Setlist, Captures}
      /\ (m.kind = "chunk") = (m.part # 0)
      /\ (m.kind = "volume") = (m.volume # 0)
      /\ (m.kind = "list") = (m.key # NoKey)
      /\ m.part # 0 => m.of # 0 /\ m = Chunk(m.of, m.part)
  BY DEF Messages
<1>2. m.of \in Nat /\ m.part \in 0 .. 2 /\ (m.of # 0 => m.of \in 1 .. MaxCalls)
  BY <1>1, TransfersAssumption DEF LastPart
<1>3. m.part # 0 => m.kind # "volume"
  BY <1>1
<1> QED
  BY <1>1, <1>2, <1>3

LEMMA LaterPair ==
    ASSUME NEW a \in Messages, NEW b \in Messages
    PROVE  <<a, b>> \in Later <=>
              /\ a.part # 0 /\ b.part # 0 => a.of < b.of \/ (a.of = b.of /\ a.part < b.part)
              /\ a.volume # 0 /\ b.volume # 0 => a.volume <= b.volume
BY DEF Later

LEMMA DocumentType ==
    ASSUME NEW of \in 1 .. MaxCalls
    PROVE  /\ Document(of) \in Seq(Messages) /\ Document(of) # <<>>
           /\ Sorted(Document(of), Later)
           /\ Range(Document(of)) = {Chunk(of, 1), Chunk(of, 2)}
           /\ Chunk(of, 1) \in Messages /\ Chunk(of, 2) \in Messages
           /\ Document(of) = <<Chunk(of, 1), Chunk(of, 2)>>
<1> DEFINE a == Chunk(of, 1)
           b == Chunk(of, 2)
<1>1. /\ a \in Messages /\ a.of = of /\ a.part = 1 /\ a.volume = 0
      /\ b \in Messages /\ b.of = of /\ b.part = 2 /\ b.volume = 0
  BY ChunkType DEF LastPart
<1>2. Document(of) = [part \in 1 .. 2 |-> Chunk(of, part)]
  BY DEF Document, LastPart
<1>3. <<a, b>> \in Later
  BY <1>1, LaterPair
<1> HIDE DEF a, b
<1>4. Document(of) = <<a, b>>
  <2>1. \A part \in 1 .. 2 : Document(of)[part] = <<a, b>>[part]
    BY <1>2 DEF a, b
  <2>2. DOMAIN Document(of) = 1 .. 2 /\ DOMAIN <<a, b>> = 1 .. 2
    BY <1>2
  <2>3. <<a, b>> = [part \in 1 .. 2 |-> <<a, b>>[part]]
    OBVIOUS
  <2> QED
    BY <1>2, <2>1, <2>2, <2>3
<1>5. <<a, b>> \in Seq(Messages) /\ <<a, b>> # <<>>
  BY <1>1
<1>6. DOMAIN <<a, b>> = 1 .. 2 /\ <<a, b>>[1] = a /\ <<a, b>>[2] = b
  OBVIOUS
<1>7. Range(<<a, b>>) = {a, b}
  BY <1>6 DEF Range
<1>8. Sorted(<<a, b>>, Later)
  BY <1>3, <1>6 DEF Sorted
<1> QED
  BY <1>1, <1>4, <1>5, <1>7, <1>8 DEF a, b

(* The same of sequences of messages and of commands.                      *)
LEMMA TakeMessage ==
    ASSUME NEW s \in Seq(Messages), s # <<>>
    PROVE  /\ Head(s) \in Messages /\ Tail(s) \in Seq(Messages)
           /\ Range(s) = {Head(s)} \cup Range(Tail(s))
           /\ Sorted(s, Later) => /\ Sorted(Tail(s), Later)
                                  /\ \A e \in Range(Tail(s)) : <<Head(s), e>> \in Later
BY TakeHead

LEMMA AddMessage ==
    ASSUME NEW s \in Seq(Messages), NEW m \in Messages
    PROVE  /\ Append(s, m) \in Seq(Messages) /\ Range(Append(s, m)) = Range(s) \cup {m}
           /\ Sorted(s, Later) /\ (\A a \in Range(s) : <<a, m>> \in Later)
                => Sorted(Append(s, m), Later)
BY AddLast, AddLastSorted

LEMMA OneMessage ==
    ASSUME NEW m \in Messages
    PROVE  /\ <<m>> \in Seq(Messages) /\ Range(<<m>>) = {m} /\ Sorted(<<m>>, Later)
           /\ <<m>> # <<>> /\ Head(<<m>>) = m
<1>1. DOMAIN <<m>> = {1} /\ <<m>>[1] = m
  OBVIOUS
<1>2. Range(<<m>>) = {m}
  BY <1>1 DEF Range
<1>3. Sorted(<<m>>, Later)
  BY <1>1 DEF Sorted
<1> QED
  BY <1>2, <1>3

LEMMA NoMessage ==
    <<>> \in Seq(Messages) /\ Range(<<>>) = {} /\ Sorted(<<>>, Later)
BY EmptyElements DEF Sorted

LEMMA JoinMessages ==
    ASSUME NEW s \in Seq(Messages), NEW t \in Seq(Messages)
    PROVE  /\ s \o t \in Seq(Messages) /\ Range(s \o t) = Range(s) \cup Range(t)
           /\ Sorted(s, Later) /\ Sorted(t, Later)
              /\ (\A a \in Range(s), b \in Range(t) : <<a, b>> \in Later)
                => Sorted(s \o t, Later)
<1>1. s \o t \in Seq(Messages) /\ Range(s \o t) = Range(s) \cup Range(t)
  BY JoinSorted
<1>2. ASSUME Sorted(s, Later), Sorted(t, Later),
             \A a \in Range(s), b \in Range(t) : <<a, b>> \in Later
      PROVE  Sorted(s \o t, Later)
  BY ONLY <1>2, JoinSorted, s \in Seq(Messages), t \in Seq(Messages)
<1> QED
  BY <1>1, <1>2

LEMMA DropMessage ==
    ASSUME NEW s \in Seq(Messages), s # <<>>
    PROVE  /\ Front(s) \in Seq(Messages) /\ Last(s) \in Messages
           /\ Range(s) = Range(Front(s)) \cup {Last(s)}
           /\ Sorted(s, Later) => Sorted(Front(s), Later)
BY DropLast

LEMMA TakeCommand ==
    ASSUME NEW s \in Seq(Commands), s # <<>>
    PROVE  /\ Head(s) \in Commands /\ Tail(s) \in Seq(Commands) /\ Head(s) = s[1]
           /\ Len(s) \in Nat /\ Len(s) >= 1 /\ Len(Tail(s)) = Len(s) - 1
           /\ \A i \in 1 .. Len(Tail(s)) : Tail(s)[i] = s[i + 1]
           /\ Range(s) = {Head(s)} \cup Range(Tail(s))
           /\ Sorted(s, AskedLater) => /\ Sorted(Tail(s), AskedLater)
                                       /\ \A e \in Range(Tail(s)) : <<Head(s), e>> \in AskedLater
BY TakeHead, ElementsOf

LEMMA AddCommand ==
    ASSUME NEW s \in Seq(Commands), NEW c \in Commands
    PROVE  /\ Append(s, c) \in Seq(Commands) /\ Append(s, c) # <<>>
           /\ Len(s) \in Nat /\ Len(Append(s, c)) = Len(s) + 1 /\ Append(s, c)[Len(s) + 1] = c
           /\ \A i \in 1 .. Len(s) : Append(s, c)[i] = s[i]
           /\ Range(Append(s, c)) = Range(s) \cup {c}
           /\ Sorted(s, AskedLater) /\ (\A a \in Range(s) : <<a, c>> \in AskedLater)
                => Sorted(Append(s, c), AskedLater)
BY AddLast, AddLastSorted

LEMMA NoCommand ==
    <<>> \in Seq(Commands) /\ Range(<<>>) = {} /\ Sorted(<<>>, AskedLater) /\ Len(<<>>) = 0
BY EmptyElements DEF Sorted

LEMMA Elements ==
    ASSUME Typed
    PROVE  /\ Range(wire) \subseteq Messages /\ Range(dev.sending) \subseteq Messages
           /\ Range(worker.todo) \subseteq Messages /\ Range(worker.doc) \subseteq Messages
           /\ Range(toDevice) \subseteq Commands /\ Range(inbox) \subseteq Commands
           /\ Unread \subseteq Messages /\ Kept \subseteq Messages /\ Chunks \subseteq Messages
<1>1. /\ wire \in Seq(Messages) /\ dev.sending \in Seq(Messages)
      /\ worker.todo \in Seq(Messages) /\ worker.doc \in Seq(Messages)
      /\ toDevice \in Seq(Commands) /\ inbox \in Seq(Commands)
  BY DEF Typed, Devices, Workers
<1>2. /\ Range(wire) \subseteq Messages /\ Range(dev.sending) \subseteq Messages
      /\ Range(worker.todo) \subseteq Messages /\ Range(worker.doc) \subseteq Messages
      /\ Range(toDevice) \subseteq Commands /\ Range(inbox) \subseteq Commands
  BY <1>1, ElementsOf
<1> QED
  BY <1>2 DEF Unread, Kept, Chunks

-----------------------------------------------------------------------------
(***************************************************************************)
(* Types are kept                                                          *)
(***************************************************************************)
LEMMA IdleType ==
    Idle \in Workers /\ NoCall \in Calls
BY TransfersAssumption, NoMessage DEF Idle, NoCall, Workers, Calls

LEMMA InitTypes == TransfersInit => Typed
<1> SUFFICES ASSUME TransfersInit PROVE Typed
  OBVIOUS
<1>1. dev.files \in Files
  <2> DEFINE files == [p \in Positions |-> AtFirst]
  <2>1. files \in [Positions -> Nat]
    BY DEF AtFirst
  <2> QED
    BY <2>1 DEF TransfersInit, Files
<1>2. dev \in Devices
  BY <1>1, NoMessage DEF TransfersInit, Devices
<1>3. counts \in [calls : 0 .. MaxCalls, events : Nat] /\ past \in Histories
  BY TransfersAssumption DEF TransfersInit, Histories
<1> QED
  BY <1>2, <1>3, IdleType, NoMessage, NoCommand DEF TransfersInit, Typed

LEMMA EventType ==
    ASSUME Typed, Event
    PROVE  counts' \in [calls : 0 .. MaxCalls, events : Nat] /\ counts'.calls = counts.calls
<1>1. counts \in [calls : 0 .. MaxCalls, events : Nat] /\ counts' = [counts EXCEPT !.events = @ + 1]
  BY DEF Typed, Event
<1>2. counts.events + 1 \in Nat
  BY <1>1
<1> QED
  BY <1>1, <1>2

(* The device.                                                             *)
LEMMA DeviceTypes ==
    ASSUME Typed, AskedInOrder,
           StartBackup \/ SendChunk \/ TellListings \/ TellVolume \/ StorePreset
           \/ TouchPresets \/ TouchVolume \/ DropReport
    PROVE  Typed'
<1>1. /\ dev.files \in Files /\ dev.volume \in Nat \ {0} /\ dev.sending \in Seq(Messages)
      /\ wire \in Seq(Messages) /\ toDevice \in Seq(Commands) /\ past \in Histories
      /\ dev \in Devices
  BY DEF Typed, Devices
<1>2. \A op : Taking(op) => /\ Head(toDevice) \in Commands /\ toDevice' \in Seq(Commands)
                            /\ Head(toDevice).op = op /\ Head(toDevice).of \in 1 .. MaxCalls
                            /\ Head(toDevice) \in Asked
  BY <1>1, TakeCommand DEF Taking, Commands, Asked
<1>3. CASE StartBackup
  <2>1. PICK kept \in {<<>>, dev.sending} :
            dev' = [dev EXCEPT !.sending = kept \o Document(Head(toDevice).of)]
    BY <1>3 DEF StartBackup
  <2>2. kept \o Document(Head(toDevice).of) \in Seq(Messages)
    BY <1>1, <1>2, <1>3, <2>1, NoMessage, DocumentType, JoinMessages DEF StartBackup
  <2>3. dev' \in Devices
    BY <1>1, <2>1, <2>2 DEF Devices
  <2> QED
    BY <1>2, <1>3, <2>3 DEF StartBackup, Typed, hostVars
<1>4. CASE SendChunk
  <2>1. Head(dev.sending) \in Messages /\ Tail(dev.sending) \in Seq(Messages)
    BY <1>1, <1>4, TakeMessage DEF SendChunk
  <2>2. dev' \in Devices
    BY <1>1, <1>4, <2>1 DEF SendChunk, Devices
  <2>3. wire' \in Seq(Messages)
    BY <1>1, <1>4, <2>1, AddMessage DEF SendChunk
  <2> QED
    BY <1>4, <2>2, <2>3 DEF SendChunk, Typed, hostVars
<1>5. CASE TellListings
  <2> DEFINE a == Listing(Captures, NoListings, 0)
             b == Listing(Setlist, dev.files, past.version)
  <2>1. a \in Messages /\ b \in Messages
    BY <1>1, ListingType, NoListingsType DEF Histories
  <2> HIDE DEF a, b
  <2>2. <<a, b>> \in Seq(Messages)
    BY <2>1
  <2>3. wire' \in Seq(Messages)
    BY <1>1, <1>5, <2>2, JoinMessages DEF TellListings, a, b
  <2> QED
    BY <1>2, <1>5, <2>3 DEF TellListings, Typed, hostVars
<1>6. CASE TellVolume
  <2>1. wire' \in Seq(Messages)
    BY <1>1, <1>6, VolumeType, AddMessage DEF TellVolume
  <2> QED
    BY <1>2, <1>6, <2>1 DEF TellVolume, Typed, hostVars
<1>7. CASE StorePreset
  <2>1. Head(toDevice).position \in Positions
    BY <1>2, <1>7 DEF StorePreset, AskedInOrder
  <2>2. Insert(dev.files, Head(toDevice).position, BySave) \in Files
    BY <1>1, <2>1, InsertType DEF BySave
  <2>3. dev' \in Devices
    BY <1>1, <1>7, <2>2 DEF StorePreset, Devices
  <2>4. past' \in Histories
    <3>1. past.version + 1 \in Nat \ {0}
      BY <1>1 DEF Histories
    <3> QED
      BY <1>1, <1>7, <3>1 DEF StorePreset, Histories
  <2>5. wire' \in Seq(Messages)
    BY <1>1, <1>2, <1>7, StoredType, AddMessage DEF StorePreset
  <2> QED
    BY <1>2, <1>7, <2>3, <2>4, <2>5 DEF StorePreset, Typed, hostVars
<1>8. CASE TouchPresets
  <2>1. PICK files \in {Insert(dev.files, p, ByUser) : p \in Positions}
                       \cup {Restrict(dev.files, DOMAIN dev.files \ {p}) : p \in Positions} :
            dev' = [dev EXCEPT !.files = files]
    BY <1>8 DEF TouchPresets
  <2>2. files \in Files
    <3>1. \A p \in Positions : Insert(dev.files, p, ByUser) \in Files
      BY <1>1, InsertType DEF ByUser
    <3>2. \A p \in Positions : Restrict(dev.files, DOMAIN dev.files \ {p}) \in Files
      BY <1>1, RestrictType
    <3> QED
      BY <2>1, <3>1, <3>2
  <2>3. dev' \in Devices
    BY <1>1, <2>1, <2>2 DEF Devices
  <2>4. past' \in Histories
    BY <1>1, <1>8 DEF TouchPresets, Histories
  <2>5. counts' \in [calls : 0 .. MaxCalls, events : Nat]
    BY <1>8, EventType DEF TouchPresets
  <2> QED
    BY <1>8, <2>3, <2>4, <2>5 DEF TouchPresets, Typed, hostVars
<1>9. CASE TouchVolume
  <2>1. dev.volume + 1 \in Nat \ {0}
    BY <1>1
  <2>2. dev' \in Devices
    BY <1>1, <1>9, <2>1 DEF TouchVolume, Devices
  <2>3. wire' \in Seq(Messages)
    BY <1>1, <1>9, <2>1, VolumeType, AddMessage DEF TouchVolume
  <2>4. counts' \in [calls : 0 .. MaxCalls, events : Nat]
    BY <1>9, EventType DEF TouchVolume
  <2> QED
    BY <1>9, <2>2, <2>3, <2>4 DEF TouchVolume, Typed, hostVars
<1>10. CASE DropReport
  <2>1. wire' \in Seq(Messages)
    BY <1>1, <1>10, DropMessage DEF DropReport
  <2>2. Lost({Last(wire)}) \in Nat
    BY <1>1 DEF Lost, Histories
  <2>3. past' \in Histories
    BY <1>1, <1>10, <2>2 DEF DropReport, Histories
  <2>4. counts' \in [calls : 0 .. MaxCalls, events : Nat]
    BY <1>10, EventType DEF DropReport
  <2> QED
    BY <1>10, <2>1, <2>3, <2>4 DEF DropReport, Typed, hostVars
<1> QED
  BY <1>3, <1>4, <1>5, <1>6, <1>7, <1>8, <1>9, <1>10

(* The worker.                                                             *)
LEMMA WorkerTypes ==
    ASSUME Typed, Placed,
           TakeSend \/ TakeBackup \/ ReadFails \/ Read \/ Tell \/ TakeIn \/ SetAside
           \/ Collect \/ CompleteDocument \/ RefuseDocument \/ BackupReadFails \/ Stall
           \/ Deliver \/ Reopen
    PROVE  Typed'
<1>1. /\ wire \in Seq(Messages) /\ inbox \in Seq(Commands) /\ toDevice \in Seq(Commands)
      /\ worker \in Workers /\ worker.todo \in Seq(Messages) /\ worker.doc \in Seq(Messages)
      /\ call \in Calls /\ past \in Histories /\ dev \in Devices /\ dev.volume \in Nat
  BY DEF Typed, Workers, Devices
<1>2. inbox # <<>> => /\ Head(inbox) \in Commands /\ Tail(inbox) \in Seq(Commands)
                      /\ Append(toDevice, Head(inbox)) \in Seq(Commands)
  BY <1>1, TakeCommand, AddCommand
<1>3. wire # <<>> => Head(wire) \in Messages /\ Tail(wire) \in Seq(Messages)
  BY <1>1, TakeMessage
<1>4. worker.todo # <<>> => Head(worker.todo) \in Messages /\ Tail(worker.todo) \in Seq(Messages)
  BY <1>1, TakeMessage
<1>5. \A m \in Messages : Append(worker.doc, m) \in Seq(Messages)
                          /\ Append(worker.todo, m) \in Seq(Messages)
  BY <1>1, AddMessage
<1>6. CASE TakeSend
  <2>1. call' \in Calls
    BY <1>1, <1>6 DEF TakeSend, Calls
  <2> QED
    BY <1>2, <1>6, <2>1 DEF TakeSend, Typed
<1>7. CASE TakeBackup
  <2>1. Head(inbox).of \in Nat
    BY <1>2, <1>7, TransfersAssumption DEF TakeBackup, Commands
  <2>2. worker' \in Workers
    BY <1>7, <2>1, IdleType DEF TakeBackup, Workers
  <2> QED
    BY <1>2, <1>7, <2>2 DEF TakeBackup, Typed
<1>8. CASE ReadFails
  BY <1>8 DEF ReadFails, Typed, hostVars
<1>9. CASE Read
  <2>1. worker' \in Workers
    BY <1>1, <1>3, <1>9, OneMessage DEF Read, Workers
  <2> QED
    BY <1>3, <1>9, <2>1 DEF Read, Typed
<1>10. Taken /\ worker.todo # <<>> => worker' \in Workers
  BY <1>1, <1>4 DEF Taken, Workers
<1>11. CASE Tell
  <2> DEFINE m == Head(worker.todo)
  <2>1. worker' \in Workers
    BY <1>1, <1>10, <1>11 DEF Tell, Workers
  <2>2. seen' \in Nat
    BY <1>4, <1>11, MessageFields DEF Tell, Typed
  <2>3. call' \in Calls
    BY <1>1, <1>11 DEF Tell, Calls
  <2> QED
    BY <1>11, <2>1, <2>2, <2>3 DEF Tell, Typed, deviceVars
<1>12. CASE TakeIn
  <2>1. worker' \in Workers
    BY <1>10, <1>12 DEF TakeIn, Placed
  <2>2. Head(worker.todo).version \in Nat
    BY <1>4, <1>12, MessageFields DEF TakeIn, Placed
  <2>3. past' = past \/ \E n \in Nat : past' = [past EXCEPT !.offered = n]
    BY <2>2, <1>12 DEF TakeIn
  <2>4. past' \in Histories
    BY <1>1, <2>3 DEF Histories
  <2> QED
    BY <1>12, <2>1, <2>4 DEF TakeIn, Typed, deviceVars
<1>13. CASE SetAside
  <2>1. worker' \in Workers
    BY <1>1, <1>3, <1>5, <1>13 DEF SetAside, Workers
  <2> QED
    BY <1>3, <1>13, <2>1 DEF SetAside, Typed
<1>14. NextChunk => Assembled \in Seq(Messages)
  BY <1>1, <1>3, <1>5 DEF NextChunk, Assembled, Pushed
<1>15. CASE Collect
  <2>1. worker' \in Workers
    BY <1>1, <1>14, <1>15 DEF Collect, Workers
  <2> QED
    BY <1>3, <1>15, <2>1 DEF Collect, NextChunk, Typed
<1>16. CASE CompleteDocument
  <2>1. worker' \in Workers
    BY <1>1, <1>14, <1>16 DEF CompleteDocument, Workers
  <2> QED
    BY <1>3, <1>16, <2>1 DEF CompleteDocument, NextChunk, Typed
<1>17. ASSUME NEW why, FailBackup(why)
       PROVE  /\ worker' \in Workers /\ call' \in Calls /\ past' \in Histories
              /\ UNCHANGED <<dev, toDevice, inbox, seen, counts>>
  <2>1. worker' \in Workers /\ call' \in Calls
    BY <1>1, <1>17, IdleType DEF FailBackup, Answer
  <2>2. Lost({worker.todo[i] : i \in DOMAIN worker.todo}) \in Nat
    BY <1>1 DEF Lost, Histories
  <2>3. past' \in Histories
    BY <1>1, <1>17, <2>2 DEF FailBackup, Histories
  <2> QED
    BY <1>17, <2>1, <2>3 DEF FailBackup
<1>18. CASE RefuseDocument
  BY <1>3, <1>17, <1>18 DEF RefuseDocument, NextChunk, Typed
<1>19. CASE BackupReadFails
  BY <1>17, <1>19 DEF BackupReadFails, Typed
<1>20. CASE Stall
  BY <1>17, <1>20 DEF Stall, Typed
<1>21. CASE Deliver
  <2>1. worker' \in Workers /\ call' \in Calls
    BY <1>1, <1>21, IdleType DEF Deliver, Calls
  <2> QED
    BY <1>21, <2>1 DEF Deliver, Typed, deviceVars
<1>22. CASE Reopen
  <2>1. dev' \in Devices
    BY <1>1, <1>22, NoMessage DEF Reopen, Devices
  <2>2. past' \in Histories
    BY <1>1, <1>22 DEF Reopen, Histories
  <2>3. toDevice' = <<>> /\ wire' = <<>> /\ dropped' = FALSE /\ seen' = dev.volume
        /\ worker' = worker /\ inbox' = inbox /\ call' = call
    BY <1>22 DEF Reopen
  <2>4. counts' \in [calls : 0 .. MaxCalls, events : Nat]
    BY <1>22, EventType DEF Reopen
  <2> QED
    BY <1>1, <2>1, <2>2, <2>3, <2>4, NoMessage, NoCommand DEF Typed
<1> QED
  BY <1>6, <1>7, <1>8, <1>9, <1>11, <1>12, <1>13, <1>15, <1>16, <1>18, <1>19, <1>20, <1>21, <1>22

(* The calls.                                                              *)
CallStep ==
    \/ BeginBackup \/ BeginSlots
    \/ \E refresh \in BOOLEAN : BeginFolders(refresh) \/ BeginPresets(refresh)
    \/ \E p \in Positions, confirmed \in BOOLEAN : BeginSave(p, confirmed)

AnswerStep ==
    \/ AnswerListing \/ Subscribe \/ Look \/ WakeUp \/ DeadlinePassed \/ WaitEnds
    \/ Resynchronized \/ RecordSave \/ GiveUp

(* A call begins, and its command comes after the others.                  *)
LEMMA CallBegins ==
    ASSUME Typed, CallStep
    PROVE  \E kind \in {"backup", "folders", "presets", "slots", "save"},
              at \in {"asking", "sending"}, op \in {"backup", "list", "save"},
              position \in Nat :
              /\ Begin(kind, at, op, position)
              /\ (kind = "backup") = (at = "asking") /\ (kind = "backup") = (op = "backup")
              /\ (kind = "save") = (op = "save") /\ (kind = "save" => position \in Positions)
<1>1. CASE BeginBackup
  BY <1>1 DEF BeginBackup
<1>2. CASE BeginSlots
  BY <1>2 DEF BeginSlots
<1>3. CASE \E refresh \in BOOLEAN : BeginFolders(refresh) \/ BeginPresets(refresh)
  <2>1. Begin("folders", "sending", "list", 0) \/ Begin("presets", "sending", "list", 0)
    BY <1>3 DEF BeginFolders, BeginPresets
  <2> QED
    BY <2>1
<1>4. CASE \E p \in Positions, confirmed \in BOOLEAN : BeginSave(p, confirmed)
  <2>1. PICK p \in Positions : Begin("save", "sending", "save", p)
    BY <1>4 DEF BeginSave
  <2>2. p \in Nat
    BY TransfersAssumption
  <2> QED
    BY <2>1, <2>2
<1> QED
  BY <1>1, <1>2, <1>3, <1>4 DEF CallStep

LEMMA CallTypes ==
    ASSUME Typed, CallShape, CallStep \/ AnswerStep \/ Resynchronize
    PROVE  Typed'
<1>1. /\ call \in Calls /\ inbox \in Seq(Commands) /\ past \in Histories
      /\ counts \in [calls : 0 .. MaxCalls, events : Nat]
  BY DEF Typed
<1>2. CASE CallStep
  <2>1. PICK kind \in {"backup", "folders", "presets", "slots", "save"},
             at \in {"asking", "sending"}, op \in {"backup", "list", "save"},
             position \in Nat : Begin(kind, at, op, position)
    BY <1>2, CallBegins
  <2>2. counts.calls + 1 \in 1 .. MaxCalls /\ counts.calls + 1 \in 0 .. MaxCalls
    BY <1>1, <2>1, TransfersAssumption DEF Begin
  <2>3. Command(op, counts.calls + 1, position) \in Commands
    BY <2>2 DEF Command, Commands
  <2>4. call' \in Calls
    BY <2>1, <2>2, IdleType DEF Begin, Calls
  <2>5. counts' \in [calls : 0 .. MaxCalls, events : Nat]
    BY <1>1, <2>1, <2>2 DEF Begin
  <2>6. inbox' \in Seq(Commands)
    BY <1>1, <2>1, <2>3, AddCommand DEF Begin
  <2> QED
    BY <2>1, <2>4, <2>5, <2>6 DEF Begin, Typed, deviceVars, workerVars
<1>3. \A ok, why : Answer(ok, why) => call' \in Calls
  BY IdleType DEF Answer
<1>4. CASE Resynchronize
  <2>1. call.of \in 1 .. MaxCalls
    BY <1>1, <1>4, TransfersAssumption DEF Resynchronize, CallShape, NoCall, Calls
  <2>2. Command("volume", call.of, 0) \in Commands
    BY <2>1 DEF Command, Commands
  <2>3. inbox' \in Seq(Commands)
    BY <1>1, <1>4, <2>2, AddCommand DEF Resynchronize
  <2>4. call' \in Calls
    BY <1>1, <1>4 DEF Resynchronize, Calls
  <2> QED
    BY <1>4, <2>3, <2>4 DEF Resynchronize, Typed, deviceVars, workerVars
<1>5. CASE AnswerListing
  BY <1>3, <1>5 DEF AnswerListing, Typed, deviceVars, workerVars
<1>6. CASE Subscribe
  <2>1. call' \in Calls
    BY <1>1, <1>6 DEF Subscribe, Calls
  <2> QED
    BY <1>6, <2>1 DEF Subscribe, Typed, deviceVars, workerVars
<1>7. CASE Look
  <2>1. call' \in Calls
    BY <1>1, <1>3, <1>7 DEF Look, Calls
  <2> QED
    BY <1>7, <2>1 DEF Look, Typed, deviceVars, workerVars
<1>8. CASE WakeUp
  <2>1. call' \in Calls
    BY <1>1, <1>8 DEF WakeUp, Calls
  <2> QED
    BY <1>8, <2>1 DEF WakeUp, Typed, deviceVars, workerVars
<1>9. CASE DeadlinePassed \/ WaitEnds
  BY <1>3, <1>9 DEF DeadlinePassed, WaitEnds, Typed, deviceVars, workerVars
<1>10. CASE Resynchronized
  BY <1>3, <1>10 DEF Resynchronized, Typed, deviceVars, workerVars
<1>11. CASE RecordSave
  <2>1. past' \in Histories
    BY <1>1, <1>11 DEF RecordSave, Histories
  <2> QED
    BY <1>3, <1>11, <2>1 DEF RecordSave, Typed, deviceVars
<1>12. CASE GiveUp
  BY <1>3, <1>12, EventType DEF GiveUp, Typed, deviceVars, workerVars
<1> QED
  BY <1>2, <1>4, <1>5, <1>6, <1>7, <1>8, <1>9, <1>10, <1>11, <1>12 DEF AnswerStep

-----------------------------------------------------------------------------
(***************************************************************************)
(* The flow of messages and commands                                       *)
(***************************************************************************)
(* Chunks that go before or after all that stay leave what stays started.  *)
LEMMA StartedFewer ==
    ASSUME NEW C \in SUBSET Messages, NEW D \in SUBSET C, Started(C),
           \A m \in C : m.part # 0,
           \/ \A n \in C \ D : \A m \in D : <<n, m>> \in Later
           \/ \A n \in C \ D : \A m \in D : <<m, n>> \in Later
    PROVE  Started(D)
<1> SUFFICES ASSUME NEW m \in D, m.part = LastPart, ~ \A n \in D : m.of <= n.of
             PROVE  \E n \in D : n.part = 1 /\ n.of = m.of
  BY DEF Started
<1>1. \A n \in C : n \in Messages /\ n.of \in Nat /\ n.part \in 0 .. 2 /\ n.part # 0
  BY MessageFields
<1>2. PICK n \in C : n.part = 1 /\ n.of = m.of
  BY DEF Started
<1>3. CASE n \in D
  BY <1>2, <1>3
<1>4. CASE n \notin D
  <2>1. ~ <<m, n>> \in Later
    BY <1>1, <1>2, LaterPair DEF LastPart
  <2>2. \A k \in D : <<n, k>> \in Later
    BY <1>4, <2>1
  <2>3. \A k \in D : m.of <= k.of
    <3> TAKE k \in D
    <3>1. n.of < k.of \/ n.of = k.of
      BY <1>1, <2>2, LaterPair
    <3> QED
      BY <1>1, <1>2, <3>1
  <2> QED
    BY <2>3
<1> QED
  BY <1>3, <1>4

(* A document asked for after all others starts as a whole.                *)
LEMMA StartedDocument ==
    ASSUME NEW C \in SUBSET Messages, Started(C), NEW of \in 1 .. MaxCalls,
           \A m \in C : m.of < of
    PROVE  Started(C \cup {Chunk(of, 1), Chunk(of, 2)})
<1> DEFINE a == Chunk(of, 1)
           b == Chunk(of, 2)
<1>1. a.of = of /\ a.part = 1 /\ b.of = of /\ b.part = 2 /\ of \in Nat
  BY ChunkType, TransfersAssumption DEF LastPart
<1> HIDE DEF a, b
<1>2. \A m \in C : m.of \in Nat
  BY MessageFields
<1>3. \A m \in C : (\A n \in C : m.of <= n.of) => \A n \in C \cup {a, b} : m.of <= n.of
  BY <1>1, <1>2
<1>4. Started(C \cup {a, b})
  BY <1>1, <1>3 DEF Started, LastPart
<1> QED
  BY <1>4 DEF a, b

(* The parts of the flow that fewer chunks and commands leave as they are. *)
LEMMA Fewer ==
    ASSUME Typed, Flow, Typed', counts'.calls >= counts.calls,
           Asked' \subseteq Asked, Chunks' \subseteq Chunks, Unread' \subseteq Unread \cup Chunks
    PROVE  /\ \A c \in Asked' : c.of <= counts'.calls
           /\ \A m \in Unread' \cup Chunks' : m.of <= counts'.calls
           /\ \A c \in Asked' : c.op = "backup" =>
                  \A m \in Unread' \cup Chunks' : m.part # 0 => m.of < c.of
           /\ \A c \in Asked' : c.op = "save" => c.position \in Positions
<1>1. counts.calls \in Nat /\ counts'.calls \in Nat
  BY TransfersAssumption DEF Typed
<1>2. \A c \in Asked : c.of \in Nat
  BY Elements, TransfersAssumption DEF Asked, Commands
<1>3. \A m \in Unread \cup Chunks : m.of \in Nat
  BY Elements, MessageFields
<1>4. \A c \in Asked' : c \in Asked /\ c.of <= counts.calls /\ c.of <= counts'.calls
  BY <1>1, <1>2 DEF Flow, AskedInOrder
<1>5. \A m \in Unread' \cup Chunks' : m.of <= counts'.calls
  <2> TAKE m \in Unread' \cup Chunks'
  <2>1. m.of <= counts.calls
    BY DEF Flow, AskedInOrder
  <2> QED
    BY <1>1, <1>3, <2>1
<1>6. /\ \A c \in Asked' : c.op = "backup" =>
             \A m \in Unread' \cup Chunks' : m.part # 0 => m.of < c.of
      /\ \A c \in Asked' : c.op = "save" => c.position \in Positions
  BY DEF Flow, AskedInOrder
<1> QED
  BY <1>4, <1>5, <1>6

LEMMA FewerChunks ==
    ASSUME Typed, StartsAreKept, past'.dropped = past.dropped, Chunks' \subseteq Chunks,
           \/ \A n \in Chunks \ Chunks' : \A m \in Chunks' : <<n, m>> \in Later
           \/ \A n \in Chunks \ Chunks' : \A m \in Chunks' : <<m, n>> \in Later
    PROVE  StartsAreKept'
<1>1. Chunks \in SUBSET Messages /\ \A m \in Chunks : m.part # 0
  BY Elements DEF Chunks
<1>2. CASE past.dropped
  BY <1>2 DEF StartsAreKept
<1>3. CASE Started(Chunks)
  <2> DEFINE C == Chunks
             D == Chunks'
  <2>1. /\ C \in SUBSET Messages /\ D \in SUBSET C /\ Started(C) /\ \A m \in C : m.part # 0
        /\ \/ \A n \in C \ D : \A m \in D : <<n, m>> \in Later
           \/ \A n \in C \ D : \A m \in D : <<m, n>> \in Later
    BY <1>1, <1>3
  <2> HIDE DEF C, D
  <2>2. Started(D)
    BY <2>1, StartedFewer
  <2> QED
    BY <2>2 DEF StartsAreKept, Started, D
<1> QED
  BY <1>2, <1>3 DEF StartsAreKept

LEMMA FewerOwn ==
    ASSUME OwnStart, Chunks' \subseteq Chunks, Range(toDevice') \subseteq Range(toDevice),
           \/ worker'.at # "collecting"
           \/ /\ worker'.at = worker.at /\ worker'.of = worker.of
              /\ worker'.crossed = worker.crossed
              /\ \/ dropped' = TRUE
                 \/ dropped' = dropped /\ \A k \in Chunks \ Chunks' : k.part # 1
    PROVE  OwnStart'
<1> SUFFICES ASSUME worker'.at = "collecting", ~worker'.crossed
             PROVE  OwnStart'
  BY DEF OwnStart
<1>1. worker.at = "collecting" /\ ~worker.crossed /\ worker'.of = worker.of
  OBVIOUS
<1>2. /\ \A m \in Chunks : Opens(m) => m.of = worker.of
      /\ \A c \in Range(toDevice) : c.op = "backup" => c.of = worker.of
      /\ \/ dropped
         \/ \A m \in Chunks : m.of # worker.of
         \/ \E k \in Chunks : k.part = 1 /\ k.of = worker.of
  BY <1>1 DEF OwnStart
<1>3. \/ dropped'
      \/ \A m \in Chunks' : m.of # worker.of
      \/ \E k \in Chunks' : k.part = 1 /\ k.of = worker.of
  BY <1>2
<1>4. (\A m : Opens(m)' <=> Opens(m))
  BY DEF Opens
<1> QED
  BY <1>1, <1>2, <1>3 DEF OwnStart, Opens

(* A command is taken.                                                     *)
LEMMA CommandTaken ==
    ASSUME Typed, Flow, NEW op, Taking(op)
    PROVE  /\ Head(toDevice) \in Commands /\ Head(toDevice) \in Range(toDevice)
           /\ Head(toDevice).op = op /\ Head(toDevice).of \in 1 .. MaxCalls
           /\ Head(toDevice).of <= counts.calls
           /\ toDevice' \in Seq(Commands) /\ Sorted(toDevice', AskedLater)
           /\ Range(toDevice') \subseteq Range(toDevice)
           /\ \A c \in Range(toDevice') : <<Head(toDevice), c>> \in AskedLater
           /\ \A c \in Range(inbox) : <<Head(toDevice), c>> \in AskedLater
<1>1. toDevice \in Seq(Commands) /\ toDevice # <<>> /\ Sorted(toDevice, AskedLater)
  BY DEF Typed, Flow, AskedInOrder, Taking
<1>2. /\ Head(toDevice) \in Commands /\ toDevice' \in Seq(Commands) /\ Sorted(toDevice', AskedLater)
      /\ Range(toDevice) = {Head(toDevice)} \cup Range(toDevice')
      /\ \A c \in Range(toDevice') : <<Head(toDevice), c>> \in AskedLater
  BY <1>1, TakeCommand DEF Taking
<1>3. Head(toDevice) \in Range(toDevice)
  BY <1>2
<1>4. Head(toDevice).of <= counts.calls /\ \A c \in Range(inbox) : <<Head(toDevice), c>> \in AskedLater
  BY <1>3 DEF Flow, AskedInOrder, Asked
<1> QED
  BY <1>2, <1>3, <1>4 DEF Taking, Commands

(* The device begins to send a document.                                   *)
LEMMA StartBackupFlow ==
    ASSUME Typed, Flow, Typed', StartBackup
    PROVE  Flow'
<1> DEFINE of == Head(toDevice).of
<1>1. PICK kept \in {<<>>, dev.sending} : dev'.sending = kept \o Document(of)
  <2>1. dev \in Devices
    BY DEF Typed
  <2> QED
    BY <2>1 DEF StartBackup, Devices
<1>2. Taking("backup") /\ wire' = wire /\ worker' = worker /\ inbox' = inbox
      /\ counts' = counts /\ past' = past
  BY DEF StartBackup, hostVars
<1>3. /\ of \in 1 .. MaxCalls /\ of <= counts.calls /\ Head(toDevice) \in Commands
      /\ Head(toDevice).op = "backup" /\ Head(toDevice) \in Asked
      /\ toDevice' \in Seq(Commands) /\ Sorted(toDevice', AskedLater)
      /\ Range(toDevice') \subseteq Range(toDevice)
      /\ \A c \in Range(toDevice') \cup Range(inbox) : <<Head(toDevice), c>> \in AskedLater
  BY <1>2, CommandTaken DEF Asked
<1>4. /\ dev.sending \in Seq(Messages) /\ wire \in Seq(Messages)
      /\ kept \in Seq(Messages) /\ Range(kept) \subseteq Range(dev.sending) /\ Sorted(kept, Later)
  BY <1>1, NoMessage DEF Typed, Devices, Flow, InOrder
<1> DEFINE a == Chunk(of, 1)
           b == Chunk(of, 2)
<1>5. /\ Document(of) \in Seq(Messages) /\ Sorted(Document(of), Later)
      /\ Range(Document(of)) = {a, b} /\ a \in Messages /\ b \in Messages
  BY <1>3, DocumentType
<1>6. a.of = of /\ a.part = 1 /\ a.volume = 0 /\ b.of = of /\ b.part = 2 /\ b.volume = 0
  BY <1>3, ChunkType DEF LastPart
<1> HIDE DEF a, b
<1>7. \A m \in Unread \cup Chunks : m.part # 0 => m.of < of
  BY <1>3 DEF Flow, AskedInOrder
<1>8. \A m \in Range(wire) \cup Range(dev.sending) \cup Kept : <<m, a>> \in Later /\ <<m, b>> \in Later
  <2> TAKE m \in Range(wire) \cup Range(dev.sending) \cup Kept
  <2>1. m \in Messages
    BY Elements
  <2>2. m.part # 0 => m.of < of
    BY <1>7 DEF Chunks, Kept, Unread
  <2> QED
    BY <1>5, <1>6, <2>1, <2>2, LaterPair
<1>9. InOrder'
  <2>1. Sorted(dev'.sending, Later) /\ Range(dev'.sending) = Range(kept) \cup {a, b}
    <3>1. \A m \in Range(kept), n \in Range(Document(of)) : <<m, n>> \in Later
      BY <1>4, <1>5, <1>8
    <3> QED
      BY <1>1, <1>4, <1>5, <3>1, JoinMessages
  <2>2. wire' = wire /\ worker' = worker /\ Kept' = Kept
    BY <1>2 DEF Kept
  <2> QED
    BY <1>4, <1>8, <2>1, <2>2 DEF Flow, InOrder
<1>10. Range(dev'.sending) = Range(kept) \cup {a, b}
  BY <1>1, <1>4, <1>5, JoinMessages
<1> DEFINE D == {m \in Range(worker.doc) \cup Range(wire) \cup Range(kept) : m.part # 0}
<1>11. Chunks' = D \cup {a, b} /\ D \subseteq Chunks /\ Unread' = Unread
  BY <1>2, <1>4, <1>6, <1>10 DEF Chunks, Unread
<1>12. Placed'
  BY <1>2, <1>4, <1>6, <1>10 DEF Flow, Placed
<1>13. \A c \in Asked' : c \in Asked /\ c \in Commands /\ c.of \in Nat
                         /\ (c.op = "backup" => of < c.of)
  <2> TAKE c \in Asked'
  <2>1. c \in Range(toDevice') \cup Range(inbox) /\ c \in Asked
    BY <1>2, <1>3 DEF Asked
  <2>2. c \in Commands
    BY <2>1, Elements DEF Asked
  <2>3. <<Head(toDevice), c>> \in AskedLater
    BY <1>3, <2>1
  <2> QED
    BY <1>3, <2>1, <2>2, <2>3, TransfersAssumption DEF AskedLater, Commands
<1>14. AskedInOrder'
  <2>1. /\ Sorted(toDevice', AskedLater) /\ Sorted(inbox', AskedLater)
        /\ \A c \in Range(toDevice') : \A e \in Range(inbox') : <<c, e>> \in AskedLater
    BY <1>2, <1>3 DEF Flow, AskedInOrder
  <2>2. \A m \in Unread' \cup Chunks' : m \in Unread \cup Chunks \/ m \in {a, b}
    BY <1>11
  <2>3. /\ \A c \in Asked' : c.of <= counts'.calls
        /\ \A c \in Asked' : c.op = "save" => c.position \in Positions
    BY <1>2, <1>13 DEF Flow, AskedInOrder
  <2>4. \A m \in Unread' \cup Chunks' : m.of <= counts'.calls
    BY <1>2, <1>3, <1>6, <2>2 DEF Flow, AskedInOrder
  <2>5. \A c \in Asked' : c.op = "backup" =>
            \A m \in Unread' \cup Chunks' : m.part # 0 => m.of < c.of
    BY <1>6, <1>13, <2>2 DEF Flow, AskedInOrder
  <2> QED
    BY <2>1, <2>3, <2>4, <2>5 DEF AskedInOrder
<1>15. StartsAreKept'
  <2> SUFFICES ASSUME ~past.dropped
               PROVE  Started(Chunks')
    BY <1>2 DEF StartsAreKept, Started
  <2>1. Started(Chunks) /\ Chunks \in SUBSET Messages /\ \A m \in Chunks : m.part # 0
    BY Elements DEF Flow, StartsAreKept, Chunks
  <2>2. D \in SUBSET Messages /\ D \in SUBSET Chunks /\ \A m \in D : m.of < of
    BY <1>7, <1>11, <2>1
  <2>3. \A n \in Chunks \ D : \A m \in D : <<m, n>> \in Later
    <3>1. CASE kept = dev.sending
      BY <3>1 DEF Chunks
    <3>2. CASE kept = <<>>
      <4>1. \A m \in D : m \in Kept \cup Range(wire)
        BY <3>2, NoMessage DEF Kept
      <4>2. \A n \in Chunks \ D : n \in Range(dev.sending)
        BY DEF Chunks
      <4> QED
        BY <4>1, <4>2 DEF Flow, InOrder
    <3> QED
      BY <3>1, <3>2
  <2> HIDE DEF D
  <2>4. Started(D)
    BY <2>1, <2>2, <2>3, StartedFewer
  <2>5. Started(D \cup {Chunk(of, 1), Chunk(of, 2)})
    BY <1>3, <2>2, <2>4, StartedDocument
  <2> QED
    BY <1>11, <2>5 DEF a, b
<1>16. OwnStart'
  <2> SUFFICES ASSUME worker.at = "collecting", ~worker.crossed
               PROVE  OwnStart'
    BY <1>2 DEF OwnStart
  <2>1. \A m \in Chunks' : m \in Chunks \/ m \in {a, b}
    BY <1>11
  <2>2. of = worker.of
    BY <1>2, <1>3, CommandTaken DEF Flow, OwnStart
  <2>3. a \in Chunks' /\ a.part = 1 /\ a.of = worker.of
    BY <1>6, <1>11, <2>2
  <2>4. \A m \in Chunks' : Opens(m) => m.of = worker.of
    BY <1>6, <2>1, <2>2 DEF Flow, OwnStart
  <2>5. \A c \in Range(toDevice') : c.op = "backup" => c.of = worker.of
    BY <1>3 DEF Flow, OwnStart
  <2> QED
    BY <1>2, <2>3, <2>4, <2>5 DEF OwnStart, Opens
<1> QED
  BY <1>9, <1>12, <1>14, <1>15, <1>16 DEF Flow

(* The device sends the next chunk.                                        *)
LEMMA SendChunkFlow ==
    ASSUME Typed, Flow, Typed', SendChunk
    PROVE  Flow'
<1> DEFINE m == Head(dev.sending)
<1>1. /\ dev.sending \in Seq(Messages) /\ dev.sending # <<>> /\ wire \in Seq(Messages)
      /\ dev'.sending = Tail(dev.sending) /\ wire' = Append(wire, m)
      /\ toDevice' = toDevice /\ worker' = worker /\ inbox' = inbox
      /\ counts' = counts /\ past' = past /\ dropped' = dropped
  BY DEF Typed, Devices, SendChunk, hostVars
<1>2. /\ m \in Messages /\ Range(dev.sending) = {m} \cup Range(dev'.sending)
      /\ Sorted(dev'.sending, Later) /\ \A e \in Range(dev'.sending) : <<m, e>> \in Later
  BY <1>1, TakeMessage DEF Flow, InOrder
<1> HIDE DEF m
<1>3. Range(wire') = Range(wire) \cup {m} /\ Sorted(wire', Later)
  <2>1. \A e \in Range(wire) : <<e, m>> \in Later
    BY <1>2 DEF Flow, InOrder
  <2> QED
    BY <1>1, <1>2, <2>1, AddMessage DEF Flow, InOrder
<1>4. InOrder'
  BY <1>1, <1>2, <1>3 DEF Flow, InOrder, Kept
<1>5. Placed'
  BY <1>1, <1>2 DEF Flow, Placed
<1>6. Chunks' = Chunks /\ Unread' \subseteq Unread \cup Chunks /\ Asked' = Asked
  <2>1. m.part # 0
    BY <1>2 DEF Flow, Placed
  <2> QED
    BY <1>1, <1>2, <1>3, <2>1 DEF Chunks, Unread, Asked
<1>7. AskedInOrder'
  <2>1. counts'.calls >= counts.calls
    BY <1>1, TransfersAssumption DEF Typed
  <2> QED
    BY <1>1, <1>6, <2>1, Fewer DEF Flow, AskedInOrder
<1>8. StartsAreKept' /\ OwnStart'
  BY <1>1, <1>6 DEF Flow, StartsAreKept, Started, OwnStart, Opens
<1> QED
  BY <1>4, <1>5, <1>7, <1>8 DEF Flow

(* A message that is no chunk comes after what is on the wire.             *)
LEMMA WireGrowsFlow ==
    ASSUME Typed, Flow, Typed', Range(wire') \subseteq Messages, Sorted(wire', Later),
           NEW M \in SUBSET Messages, Range(wire') = Range(wire) \cup M,
           \A m \in M : m.part = 0 /\ m.of <= counts.calls,
           \A m \in M : \A a \in Kept : <<a, m>> \in Later,
           dev'.sending = dev.sending, worker' = worker, inbox' = inbox, dropped' = dropped,
           toDevice' = toDevice \/ \E op : Taking(op),
           counts'.calls = counts.calls, past'.dropped = past.dropped
    PROVE  Flow'
<1>1. /\ Sorted(toDevice', AskedLater) /\ Range(toDevice') \subseteq Range(toDevice)
      /\ Asked' \subseteq Asked
  BY CommandTaken DEF Flow, AskedInOrder, Asked
<1>2. \A m \in M : \A b \in Range(dev.sending) : <<m, b>> \in Later
  <2> TAKE m \in M
  <2> TAKE b \in Range(dev.sending)
  <2>1. b \in Messages /\ b.part # 0
    BY Elements DEF Flow, Placed
  <2>2. b.volume = 0
    BY <2>1, MessageFields
  <2> QED
    BY <2>1, <2>2, LaterPair
<1>3. InOrder'
  BY <1>2 DEF Flow, InOrder, Kept
<1>4. Placed'
  BY DEF Flow, Placed
<1>5. Chunks' = Chunks /\ Unread' = Unread \cup M
  BY DEF Chunks, Unread
<1>6. AskedInOrder'
  <2>1. \A a \in Range(toDevice') : \A b \in Range(inbox') : <<a, b>> \in AskedLater
    BY <1>1 DEF Flow, AskedInOrder
  <2>2. \A m \in Unread' \cup Chunks' : m \in Unread \cup Chunks \/ m \in M
    BY <1>5
  <2>3. \A m \in Unread' \cup Chunks' : m.of <= counts'.calls
    BY <2>2 DEF Flow, AskedInOrder
  <2>4. \A c \in Asked' : c.op = "backup" =>
            \A m \in Unread' \cup Chunks' : m.part # 0 => m.of < c.of
    BY <1>1, <2>2 DEF Flow, AskedInOrder
  <2>5. \A c \in Asked' : c.of <= counts'.calls /\ (c.op = "save" => c.position \in Positions)
    BY <1>1 DEF Flow, AskedInOrder
  <2> QED
    BY <1>1, <2>1, <2>3, <2>4, <2>5 DEF Flow, AskedInOrder
<1>7. StartsAreKept' /\ OwnStart'
  BY <1>1, <1>5 DEF Flow, StartsAreKept, Started, OwnStart, Opens
<1> QED
  BY <1>3, <1>4, <1>6, <1>7 DEF Flow

LEMMA OneMoreFlow ==
    ASSUME Typed, Flow, Typed', NEW m \in Messages, wire' = Append(wire, m),
           m.part = 0, m.of <= counts.calls,
           m.volume # 0 => \A a \in Unread : a.volume # 0 => a.volume <= m.volume,
           dev'.sending = dev.sending, worker' = worker, inbox' = inbox, dropped' = dropped,
           toDevice' = toDevice \/ \E op : Taking(op),
           counts'.calls = counts.calls, past'.dropped = past.dropped
    PROVE  Flow'
<1>1. \A a \in Range(wire) \cup Kept : <<a, m>> \in Later
  <2> TAKE a \in Range(wire) \cup Kept
  <2>1. a \in Messages
    BY Elements
  <2>2. a.volume # 0 /\ m.volume # 0 => a.volume <= m.volume
    <3>1. CASE a \in Unread
      BY <3>1
    <3>2. CASE a \in Range(worker.doc)
      BY <2>1, <3>2, MessageFields DEF Flow, Placed
    <3> QED
      BY <3>1, <3>2 DEF Unread, Kept
  <2> QED
    BY <2>1, <2>2, LaterPair
<1>2. /\ wire' \in Seq(Messages) /\ Range(wire') = Range(wire) \cup {m} /\ Sorted(wire', Later)
  BY <1>1, AddMessage DEF Typed, Flow, InOrder
<1> DEFINE M == {m}
<1>3. /\ M \in SUBSET Messages /\ Range(wire') = Range(wire) \cup M /\ Range(wire') \subseteq Messages
      /\ \A e \in M : e.part = 0 /\ e.of <= counts.calls
      /\ \A e \in M : \A a \in Kept : <<a, e>> \in Later
  BY <1>1, <1>2, Elements
<1> HIDE DEF M
<1> QED
  BY <1>2, <1>3, WireGrowsFlow

LEMMA TellsFlow ==
    ASSUME Typed, Flow, Volumes, Typed',
           TellListings \/ TellVolume \/ StorePreset \/ TouchVolume
    PROVE  Flow'
<1>1. /\ dev \in Devices /\ dev.volume \in Nat \ {0} /\ dev.files \in Files
      /\ past \in Histories /\ past.version \in Nat
      /\ counts.calls \in Nat /\ wire \in Seq(Messages)
  BY TransfersAssumption DEF Typed, Devices, Histories
<1>2. \A a \in Unread : a.volume # 0 => a.volume <= dev.volume
  BY DEF Volumes
<1>3. CASE TellListings
  <2> DEFINE a == Listing(Captures, NoListings, 0)
             b == Listing(Setlist, dev.files, past.version)
             M == {a, b}
  <2>1. /\ a \in Messages /\ a.part = 0 /\ a.volume = 0 /\ a.of = 0
        /\ b \in Messages /\ b.part = 0 /\ b.volume = 0 /\ b.of = 0
    BY <1>1, ListingType, NoListingsType
  <2>2. wire' = wire \o <<a, b>>
    BY <1>3 DEF TellListings
  <2> HIDE DEF a, b
  <2>3. \A e \in Range(wire) \cup Kept : \A m \in M : <<e, m>> \in Later
    <3> TAKE e \in Range(wire) \cup Kept
    <3>1. e \in Messages
      BY Elements
    <3> QED
      BY <2>1, <3>1, LaterPair
  <2>4. <<a, b>> \in Seq(Messages) /\ Range(<<a, b>>) = M /\ Sorted(<<a, b>>, Later)
    <3>1. <<a, b>> \in Seq(Messages) /\ DOMAIN <<a, b>> = 1 .. 2
          /\ <<a, b>>[1] = a /\ <<a, b>>[2] = b
      BY <2>1
    <3>2. <<a, b>> \in Later
      BY <2>1, LaterPair
    <3> QED
      BY <3>1, <3>2 DEF Sorted, Range
  <2>5. Range(wire') = Range(wire) \cup M /\ Sorted(wire', Later) /\ Range(wire') \subseteq Messages
    BY <1>1, <2>1, <2>2, <2>3, <2>4, JoinMessages, Elements DEF Flow, InOrder
  <2>6. M \in SUBSET Messages /\ \A m \in M : m.part = 0 /\ m.of <= counts.calls
    BY <1>1, <2>1
  <2>7. /\ dev'.sending = dev.sending /\ worker' = worker /\ inbox' = inbox /\ Taking("list")
        /\ dropped' = dropped
        /\ counts'.calls = counts.calls /\ past'.dropped = past.dropped
    BY <1>3 DEF TellListings, hostVars
  <2> HIDE DEF M
  <2> QED
    BY <2>3, <2>5, <2>6, <2>7, WireGrowsFlow
<1>4. CASE TellVolume
  <2> DEFINE m == Volume(dev.volume)
  <2>1. m \in Messages /\ m.part = 0 /\ m.volume = dev.volume /\ m.of = 0
    BY <1>1, VolumeType
  <2>2. /\ dev'.sending = dev.sending /\ worker' = worker /\ inbox' = inbox /\ Taking("volume")
        /\ dropped' = dropped
        /\ counts'.calls = counts.calls /\ past'.dropped = past.dropped
        /\ wire' = Append(wire, m)
    BY <1>4 DEF TellVolume, hostVars
  <2> HIDE DEF m
  <2> QED
    BY <1>1, <1>2, <2>1, <2>2, OneMoreFlow
<1>5. CASE StorePreset
  <2> DEFINE m == Stored(Head(toDevice).of)
  <2>1. Taking("save")
    BY <1>5 DEF StorePreset
  <2>2. m \in Messages /\ m.part = 0 /\ m.volume = 0 /\ m.of <= counts.calls
    BY <2>1, StoredType, CommandTaken
  <2>3. /\ dev'.sending = dev.sending /\ worker' = worker /\ inbox' = inbox
        /\ dropped' = dropped
        /\ counts'.calls = counts.calls /\ past'.dropped = past.dropped
        /\ wire' = Append(wire, m)
    BY <1>1, <1>5 DEF StorePreset, hostVars, Devices, Histories
  <2> HIDE DEF m
  <2> QED
    BY <2>1, <2>2, <2>3, OneMoreFlow
<1>6. CASE TouchVolume
  <2> DEFINE m == Volume(dev.volume + 1)
  <2>1. m \in Messages /\ m.part = 0 /\ m.volume = dev.volume + 1 /\ m.of = 0
    BY <1>1, VolumeType
  <2>2. /\ dev'.sending = dev.sending /\ worker' = worker /\ inbox' = inbox /\ toDevice' = toDevice
        /\ counts'.calls = counts.calls /\ past'.dropped = past.dropped /\ dropped' = dropped
        /\ wire' = Append(wire, m)
    BY <1>1, <1>6, EventType DEF TouchVolume, hostVars, Devices
  <2>3. \A a \in Unread : a.volume # 0 => a.volume <= m.volume
    BY <1>1, <1>2, <2>1, Elements, MessageFields
  <2> HIDE DEF m
  <2> QED
    BY <1>1, <2>1, <2>2, <2>3, OneMoreFlow
<1> QED
  BY <1>3, <1>4, <1>5, <1>6

(* The newest message is dropped.                                          *)
LEMMA DropReportFlow ==
    ASSUME Typed, Flow, Typed', DropReport
    PROVE  Flow'
<1>1. /\ wire \in Seq(Messages) /\ wire # <<>> /\ wire' = Front(wire)
      /\ dev' = dev /\ toDevice' = toDevice /\ worker' = worker /\ inbox' = inbox
      /\ counts'.calls = counts.calls /\ past'.dropped = TRUE /\ dropped' = TRUE
  BY EventType DEF Typed, DropReport, hostVars, Histories
<1>2. Range(wire') \subseteq Range(wire) /\ Sorted(wire', Later)
  BY <1>1, DropMessage DEF Flow, InOrder
<1>3. InOrder'
  BY <1>1, <1>2 DEF Flow, InOrder, Kept
<1>4. Placed'
  BY <1>1 DEF Flow, Placed
<1>5. Chunks' \subseteq Chunks /\ Unread' \subseteq Unread \cup Chunks /\ Asked' = Asked
  BY <1>1, <1>2 DEF Chunks, Unread, Asked
<1>6. AskedInOrder'
  <2>1. counts'.calls >= counts.calls
    BY <1>1, TransfersAssumption DEF Typed
  <2> QED
    BY <1>1, <1>5, <2>1, Fewer DEF Flow, AskedInOrder
<1>7. StartsAreKept'
  BY <1>1 DEF StartsAreKept
<1>8. OwnStart'
  BY <1>1, <1>5, FewerOwn DEF Flow
<1> QED
  BY <1>3, <1>4, <1>6, <1>7, <1>8 DEF Flow

(* The worker reads a message, or sets it aside.                           *)
LEMMA ReadFlow ==
    ASSUME Typed, Flow, Typed', Read \/ SetAside
    PROVE  Flow'
<1> DEFINE m == Head(wire)
<1>1. /\ wire \in Seq(Messages) /\ wire # <<>> /\ wire' = Tail(wire)
      /\ dev' = dev /\ toDevice' = toDevice /\ inbox' = inbox
      /\ counts' = counts /\ past' = past /\ dropped' = dropped
      /\ worker \in Workers /\ worker.todo \in Seq(Messages)
  BY DEF Typed, Workers, Read, SetAside
<1>2. /\ m \in Messages /\ Range(wire) = {m} \cup Range(wire') /\ Sorted(wire', Later)
      /\ \A e \in Range(wire') : <<m, e>> \in Later
      /\ \A e \in Range(dev.sending) : <<m, e>> \in Later
      /\ \A e \in Kept : <<e, m>> \in Later
  BY <1>1, TakeMessage DEF Flow, InOrder
<1>3. /\ worker'.doc = worker.doc /\ worker'.at = worker.at /\ worker'.of = worker.of
      /\ worker'.crossed = worker.crossed /\ worker'.half = worker.half
  BY <1>1 DEF Read, SetAside, Workers
<1>4. (SetAside /\ worker'.todo = Append(worker.todo, m))
      \/ (Read /\ worker.todo = <<>> /\ worker'.todo = <<m>>)
  BY <1>1 DEF Read, SetAside, Workers, Free
<1> HIDE DEF m
<1>5. Sorted(worker'.todo, Later) /\ Range(worker'.todo) = Range(worker.todo) \cup {m}
  <2>1. CASE SetAside /\ worker'.todo = Append(worker.todo, m)
    BY <1>1, <1>2, <2>1, AddMessage DEF Flow, InOrder, Kept
  <2>2. CASE worker.todo = <<>> /\ worker'.todo = <<m>>
    BY <1>2, <2>2, OneMessage, NoMessage
  <2> QED
    BY <1>4, <2>1, <2>2
<1>6. Kept' = Kept \cup {m} /\ Unread' = Unread /\ Asked' = Asked /\ Chunks' \subseteq Chunks
  BY <1>1, <1>2, <1>3, <1>5 DEF Kept, Unread, Asked, Chunks
<1>7. InOrder'
  BY <1>1, <1>2, <1>3, <1>5, <1>6 DEF Flow, InOrder
<1>8. Placed'
  <2>1. ~worker.half
    BY <1>4 DEF Flow, Placed, SetAside
  <2> QED
    BY <1>1, <1>3, <2>1 DEF Flow, Placed
<1>9. AskedInOrder'
  <2>1. counts'.calls >= counts.calls
    BY <1>1, TransfersAssumption DEF Typed
  <2> QED
    BY <1>1, <1>6, <2>1, Fewer DEF Flow, AskedInOrder
<1>10. StartsAreKept'
  <2>1. CASE Read
    <3>1. worker.doc = <<>> /\ Range(worker.doc) = {}
      BY <2>1, NoMessage DEF Read, Free, Flow, Placed
    <3>2. \A n \in Chunks \ Chunks' : n = m
      BY <1>1, <1>2, <1>3 DEF Chunks
    <3>3. \A n \in Chunks' : <<m, n>> \in Later
      BY <1>1, <1>2, <1>3, <3>1 DEF Chunks
    <3> QED
      BY <1>1, <1>6, <3>2, <3>3, FewerChunks DEF Flow
  <2>2. CASE SetAside
    <3>1. m.part = 0
      BY <1>2, <2>2, MessageFields DEF SetAside, m
    <3>2. Chunks' = Chunks
      BY <1>1, <1>2, <1>3, <3>1 DEF Chunks
    <3> QED
      BY <1>1, <3>2 DEF Flow, StartsAreKept, Started
  <2> QED
    BY <2>1, <2>2
<1>11. OwnStart'
  <2>1. CASE Read
    BY <1>1, <1>3, <1>6, <2>1, FewerOwn DEF Flow, Read, Free
  <2>2. CASE SetAside
    <3>1. m.part = 0
      BY <1>2, <2>2, MessageFields DEF SetAside, m
    <3>2. Chunks' = Chunks
      BY <1>1, <1>2, <1>3, <3>1 DEF Chunks
    <3> QED
      BY <1>1, <1>3, <3>2, FewerOwn DEF Flow
  <2> QED
    BY <2>1, <2>2
<1> QED
  BY <1>7, <1>8, <1>9, <1>10, <1>11 DEF Flow

(* The worker reads a chunk of the document it collects.                   *)
LEMMA ChunkRead ==
    ASSUME Typed, Flow, NextChunk
    PROVE  /\ Head(wire) \in Messages /\ Head(wire).part # 0 /\ Head(wire).volume = 0
           /\ Head(wire).key = NoKey
           /\ Head(wire) \in Chunks /\ Sorted(wire', Later)
           /\ Range(wire) = {Head(wire)} \cup Range(wire')
           /\ \A e \in Range(wire') \cup Range(dev.sending) : <<Head(wire), e>> \in Later
           /\ \A e \in Kept : <<e, Head(wire)>> \in Later
           /\ worker.at = "collecting" /\ worker.doc \in Seq(Messages)
           /\ \A e \in Range(worker.doc) : e.part = 1
<1>1. wire \in Seq(Messages) /\ wire # <<>> /\ wire' = Tail(wire) /\ Head(wire).kind = "chunk"
      /\ worker.at = "collecting" /\ worker.doc \in Seq(Messages)
  BY DEF NextChunk, Typed, Workers
<1>2. /\ Head(wire) \in Messages /\ Range(wire) = {Head(wire)} \cup Range(wire')
      /\ Sorted(wire', Later) /\ \A e \in Range(wire') : <<Head(wire), e>> \in Later
  BY <1>1, TakeMessage DEF Flow, InOrder
<1>3. Head(wire).part # 0 /\ Head(wire).volume = 0 /\ Head(wire).key = NoKey
  BY <1>1, <1>2, MessageFields
<1>4. /\ \A e \in Range(dev.sending) : <<Head(wire), e>> \in Later
      /\ \A e \in Kept : <<e, Head(wire)>> \in Later
  BY <1>2 DEF Flow, InOrder
<1>5. \A e \in Range(worker.doc) : e.part = 1
  BY <1>1 DEF Flow, Placed
<1> QED
  BY <1>1, <1>2, <1>3, <1>4, <1>5 DEF Chunks

LEMMA CollectFlow ==
    ASSUME Typed, Flow, Typed', Collect \/ CompleteDocument
    PROVE  Flow'
<1> DEFINE m == Head(wire)
<1>1. /\ NextChunk /\ dev' = dev /\ toDevice' = toDevice /\ inbox' = inbox
      /\ counts' = counts /\ past' = past /\ dropped' = dropped
  BY DEF Collect, CompleteDocument
<1>2. /\ m \in Messages /\ m.part # 0 /\ Sorted(wire', Later)
      /\ Range(wire) = {m} \cup Range(wire')
      /\ \A e \in Range(wire') \cup Range(dev.sending) : <<m, e>> \in Later
      /\ \A e \in Kept : <<e, m>> \in Later
      /\ worker.at = "collecting" /\ worker.doc \in Seq(Messages)
      /\ \A e \in Range(worker.doc) : e.part = 1
  BY <1>1, ChunkRead
<1>3. /\ worker'.doc = Assembled /\ worker'.todo = worker.todo /\ worker'.half = worker.half
      /\ worker'.of = worker.of /\ worker'.crossed = worker.crossed
  BY DEF Typed, Workers, Collect, CompleteDocument
<1>4. (Collect /\ worker'.at = worker.at /\ ~Complete) \/ worker'.at = "delivering"
  BY DEF Typed, Workers, Collect, CompleteDocument
<1>5. \/ worker.doc = <<>> /\ ~Opens(m) /\ Assembled = worker.doc
      \/ Assembled = Append(worker.doc, m)
  BY DEF Assembled, Pushed
<1>6. ~Complete => Assembled = worker.doc \/ m.part = 1
  <2>1. m.part \in 0 .. 2
    BY <1>2, MessageFields
  <2>2. Append(worker.doc, m) # <<>>
    BY <1>2, AddLast
  <2> QED
    BY <1>2, <1>5, <2>1, <2>2 DEF Complete, Terminal, LastPart
<1> HIDE DEF m
<1>7. /\ Sorted(worker'.doc, Later)
      /\ \/ Range(worker'.doc) = Range(worker.doc) /\ worker.doc = <<>> /\ m.part # 1
         \/ Range(worker'.doc) = Range(worker.doc) \cup {m}
  <2>1. CASE worker.doc = <<>> /\ Assembled = worker.doc /\ ~Opens(m)
    BY <1>3, <2>1 DEF Flow, InOrder, Opens
  <2>2. CASE Assembled = Append(worker.doc, m)
    BY <1>2, <1>3, <2>2, AddMessage DEF Flow, InOrder, Kept
  <2> QED
    BY <1>5, <2>1, <2>2
<1>8. Kept' \subseteq Kept \cup {m} /\ Range(wire') \subseteq Range(wire)
  BY <1>2, <1>3, <1>7 DEF Kept
<1>9. InOrder'
  BY <1>1, <1>2, <1>3, <1>7, <1>8 DEF Flow, InOrder
<1>10. Placed'
  <2>1. \A e \in Range(worker'.doc) : e.part # 0
    BY <1>2, <1>7 DEF Flow, Placed
  <2>2. worker'.at # "reading" /\ ~worker'.half
    BY <1>2, <1>3, <1>4 DEF Flow, Placed
  <2>3. worker'.at = "collecting" => \A e \in Range(worker'.doc) : e.part = 1
    BY <1>2, <1>3, <1>4, <1>6, <1>7
  <2> QED
    BY <1>1, <2>1, <2>2, <2>3 DEF Flow, Placed
<1>11. Chunks' \subseteq Chunks /\ Unread' \subseteq Unread \cup Chunks /\ Asked' = Asked
  BY <1>1, <1>2, <1>3, <1>7 DEF Chunks, Unread, Asked
<1>12. AskedInOrder'
  <2>1. counts'.calls >= counts.calls
    BY <1>1, TransfersAssumption DEF Typed
  <2> QED
    BY <1>1, <1>11, <2>1, Fewer DEF Flow, AskedInOrder
<1>13. StartsAreKept'
  <2>1. CASE Range(worker'.doc) = Range(worker.doc) /\ worker.doc = <<>>
    <3>1. \A n \in Chunks \ Chunks' : n = m
      BY <1>1, <1>2, <2>1 DEF Chunks
    <3>2. \A n \in Chunks' : <<m, n>> \in Later
      BY <1>1, <1>2, <2>1, NoMessage DEF Chunks
    <3> QED
      BY <1>1, <1>11, <3>1, <3>2, FewerChunks DEF Flow
  <2>2. CASE Range(worker'.doc) = Range(worker.doc) \cup {m}
    <3>1. Chunks' = Chunks
      BY <1>1, <1>2, <2>2 DEF Chunks
    <3> QED
      BY <1>1, <3>1 DEF Flow, StartsAreKept, Started
  <2> QED
    BY <1>7, <2>1, <2>2
<1>14. OwnStart'
  <2>1. \A k \in Chunks \ Chunks' : k.part # 1
    BY <1>1, <1>2, <1>7 DEF Chunks
  <2> QED
    BY <1>1, <1>3, <1>4, <1>11, <2>1, FewerOwn DEF Flow
<1> QED
  BY <1>9, <1>10, <1>12, <1>13, <1>14 DEF Flow

(* The worker takes in the first of what it was to take in.                *)
LEMMA TakenFlow ==
    ASSUME Typed, Flow, Typed', Tell \/ TakeIn
    PROVE  Flow'
<1>1. /\ wire' = wire /\ dev' = dev /\ toDevice' = toDevice /\ inbox' = inbox
      /\ counts' = counts /\ past'.dropped = past.dropped
      /\ worker \in Workers /\ worker.todo \in Seq(Messages)
      /\ worker.todo # <<>> /\ worker.at # "collecting"
  BY DEF Typed, Workers, Histories, Tell, TakeIn, deviceVars, Flow, Placed
<1>2. /\ worker'.doc = worker.doc /\ worker'.at = worker.at
      /\ \/ worker'.todo = Tail(worker.todo) /\ ~worker'.half
         \/ worker'.todo = worker.todo /\ Head(worker.todo).kind = "list"
  BY <1>1 DEF Tell, TakeIn, Taken, Workers
<1>3. /\ Range(worker'.todo) \subseteq Range(worker.todo)
      /\ Sorted(worker'.todo, Later)
  BY <1>1, <1>2, TakeMessage DEF Flow, InOrder
<1>4. InOrder'
  BY <1>1, <1>2, <1>3 DEF Flow, InOrder, Kept
<1>5. Placed'
  BY <1>1, <1>2 DEF Flow, Placed
<1>6. Chunks' = Chunks /\ Unread' \subseteq Unread \cup Chunks /\ Asked' = Asked
  BY <1>1, <1>2, <1>3 DEF Chunks, Unread, Asked
<1>7. AskedInOrder'
  <2>1. counts'.calls >= counts.calls
    BY <1>1, TransfersAssumption DEF Typed
  <2> QED
    BY <1>1, <1>6, <2>1, Fewer DEF Flow, AskedInOrder
<1>8. StartsAreKept' /\ OwnStart'
  BY <1>1, <1>2, <1>6 DEF Flow, StartsAreKept, Started, OwnStart, Opens
<1> QED
  BY <1>4, <1>5, <1>7, <1>8 DEF Flow

(* The worker is done with a backup.                                       *)
LEMMA IdleFields ==
    /\ Idle.at = "reading" /\ Idle.doc = <<>> /\ Idle.todo = <<>> /\ Idle.half = FALSE
    /\ Range(Idle.doc) = {} /\ Range(Idle.todo) = {}
BY NoMessage DEF Idle

LEMMA BackupDone ==
    ASSUME Typed, RefuseDocument \/ BackupReadFails \/ Stall \/ Deliver
    PROVE  /\ worker' = Idle /\ dev' = dev /\ toDevice' = toDevice /\ inbox' = inbox
           /\ counts' = counts /\ past'.dropped = past.dropped
           /\ wire' = wire \/ RefuseDocument
BY DEF Typed, Histories, RefuseDocument, BackupReadFails, Stall, Deliver, FailBackup, deviceVars

LEMMA BackupDoneFlow ==
    ASSUME Typed, Flow, Typed', RefuseDocument \/ BackupReadFails \/ Stall \/ Deliver
    PROVE  Flow'
<1>1. /\ worker' = Idle /\ dev' = dev /\ toDevice' = toDevice /\ inbox' = inbox
      /\ counts' = counts /\ past'.dropped = past.dropped
      /\ wire' = wire \/ RefuseDocument
  BY BackupDone
<1> DEFINE m == Head(wire)
<1>2. /\ Sorted(wire', Later) /\ Range(wire') \subseteq Range(wire)
      /\ \A e \in Range(wire) \ Range(wire') :
             /\ e \in Messages
             /\ \A n \in Range(wire') \cup Range(dev.sending) : <<e, n>> \in Later
  <2>1. CASE wire' = wire
    BY <2>1 DEF Flow, InOrder
  <2>2. CASE RefuseDocument
    <3>1. NextChunk
      BY <2>2 DEF RefuseDocument
    <3> QED
      BY <3>1, ChunkRead
  <2> QED
    BY <1>1, <2>1, <2>2
<1>3. Kept' = {} /\ worker'.doc = <<>> /\ Range(worker'.doc) = {} /\ Range(worker'.todo) = {}
      /\ worker'.todo = <<>>
  BY <1>1, IdleFields DEF Kept
<1>4. InOrder'
  BY <1>1, <1>2, <1>3, NoMessage DEF Flow, InOrder
<1>5. Placed'
  BY <1>1, <1>3, IdleFields DEF Flow, Placed
<1>6. Chunks' \subseteq Chunks /\ Unread' \subseteq Unread \cup Chunks /\ Asked' = Asked
  BY <1>1, <1>2, <1>3 DEF Chunks, Unread, Asked
<1>7. AskedInOrder'
  <2>1. counts'.calls >= counts.calls
    BY <1>1, TransfersAssumption DEF Typed
  <2> QED
    BY <1>1, <1>6, <2>1, Fewer DEF Flow, AskedInOrder
<1>8. StartsAreKept'
  <2>1. ASSUME NEW n \in Chunks \ Chunks', NEW e \in Chunks'
        PROVE  <<n, e>> \in Later
    <3>1. e \in Range(wire') \cup Range(dev.sending)
      BY <1>1, <1>3 DEF Chunks
    <3>2. CASE n \in Range(worker.doc)
      BY <1>2, <3>1, <3>2 DEF Flow, InOrder, Kept
    <3>3. CASE n \in Range(wire) \ Range(wire')
      BY <1>2, <3>1, <3>3
    <3> QED
      BY <1>1, <3>2, <3>3 DEF Chunks
  <2> QED
    BY <1>1, <1>6, <2>1, FewerChunks DEF Flow
<1>9. OwnStart'
  BY <1>1, IdleFields DEF OwnStart
<1> QED
  BY <1>4, <1>5, <1>7, <1>8, <1>9 DEF Flow

(* The worker takes a command.                                             *)
LEMMA CommandFlow ==
    ASSUME Typed, Flow, Typed', TakeSend \/ TakeBackup
    PROVE  Flow'
<1> DEFINE c == Head(inbox)
<1>1. /\ inbox \in Seq(Commands) /\ inbox # <<>> /\ inbox' = Tail(inbox)
      /\ toDevice \in Seq(Commands) /\ toDevice' = Append(toDevice, c)
      /\ dev' = dev /\ wire' = wire /\ counts' = counts /\ past' = past /\ dropped' = dropped
      /\ worker.at = "reading" /\ worker.todo = <<>> /\ worker.doc = <<>>
  BY DEF Typed, TakeSend, TakeBackup, Free, Flow, Placed
<1>2. /\ c \in Commands /\ Range(inbox) = {c} \cup Range(inbox') /\ Sorted(inbox', AskedLater)
      /\ \A e \in Range(inbox') : <<c, e>> \in AskedLater
  BY <1>1, TakeCommand DEF Flow, AskedInOrder
<1>3. Range(toDevice') = Range(toDevice) \cup {c} /\ Sorted(toDevice', AskedLater)
  <2>1. \A e \in Range(toDevice) : <<e, c>> \in AskedLater
    BY <1>2 DEF Flow, AskedInOrder
  <2> HIDE DEF c
  <2> QED
    BY <1>1, <1>2, <2>1, AddCommand DEF Flow, AskedInOrder
<1>4. /\ worker'.todo = <<>> /\ worker'.doc = <<>> /\ ~worker'.half
      /\ \/ TakeSend /\ worker' = worker
         \/ TakeBackup /\ worker'.at = "collecting" /\ worker'.of = c.of
  BY <1>1, IdleFields DEF TakeSend, TakeBackup, Flow, Placed, Idle
<1>5. TakeBackup /\ ~worker'.crossed =>
          /\ \A i \in DOMAIN wire : ~Opens(wire[i])
          /\ \A i \in DOMAIN dev.sending : ~Opens(dev.sending[i])
          /\ \A i \in DOMAIN toDevice : toDevice[i].op # "backup"
  BY DEF TakeBackup, Idle
<1>6. TakeSend => c.op # "backup"
  BY DEF TakeSend
<1> HIDE DEF c
<1>7. /\ Range(worker.doc) = {} /\ Range(worker.todo) = {}
      /\ Range(worker'.doc) = {} /\ Range(worker'.todo) = {}
  BY <1>1, <1>4, NoMessage
<1>8. Kept' = Kept /\ Chunks' = Chunks /\ Unread' = Unread /\ Asked' = Asked
  BY <1>1, <1>2, <1>3, <1>7 DEF Kept, Chunks, Unread, Asked
<1>9. InOrder'
  BY <1>1, <1>4, <1>8 DEF Flow, InOrder
<1>10. Placed'
  BY <1>1, <1>4, <1>7 DEF Flow, Placed
<1>11. AskedInOrder'
  BY <1>1, <1>2, <1>3, <1>8 DEF Flow, AskedInOrder
<1>12. StartsAreKept'
  BY <1>1, <1>8 DEF Flow, StartsAreKept, Started
<1>13. OwnStart'
  <2>1. CASE TakeSend
    BY <1>1, <1>3, <1>4, <1>6, <1>8, <2>1 DEF Flow, OwnStart, Opens, TakeSend
  <2>2. CASE TakeBackup
    <3> SUFFICES ASSUME ~worker'.crossed
                 PROVE  OwnStart'
      BY DEF OwnStart
    <3>1. \A m \in Range(wire) \cup Range(dev.sending) : ~Opens(m)
      BY <1>5, <2>2 DEF Range
    <3>2. \A e \in Range(toDevice) : e.op # "backup"
      BY <1>5, <2>2 DEF Range
    <3>3. \A m \in Chunks' : ~Opens(m)
      BY <1>7, <1>8, <3>1 DEF Chunks
    <3>4. worker'.of = c.of /\ c.op = "backup" /\ c \in Asked /\ c.of \in Nat
      BY <1>2, <1>4, <2>2, TransfersAssumption DEF TakeBackup, TakeSend, Asked, Commands, c
    <3>5. \A m \in Chunks' : m.of # worker'.of
      <4> TAKE m \in Chunks'
      <4>1. m \in Chunks /\ m.part # 0 /\ m \in Messages
        BY <1>8, Elements DEF Chunks
      <4>2. m.of < c.of /\ m.of \in Nat
        BY <3>4, <4>1, MessageFields DEF Flow, AskedInOrder
      <4> QED
        BY <3>4, <4>2
    <3> QED
      BY <1>3, <3>2, <3>3, <3>4, <3>5 DEF OwnStart, Opens
  <2> QED
    BY <2>1, <2>2
<1> QED
  BY <1>9, <1>10, <1>11, <1>12, <1>13 DEF Flow

(* The session is opened anew.                                             *)
LEMMA ReopenFlow ==
    ASSUME Typed, Flow, Typed', Reopen
    PROVE  Flow'
<1>1. /\ toDevice' = <<>> /\ wire' = <<>> /\ worker' = worker /\ inbox' = inbox
      /\ counts'.calls = counts.calls /\ past'.dropped = past.dropped
      /\ worker.at = "reading" /\ worker.doc = <<>>
  BY EventType DEF Typed, Histories, Reopen, Free, Flow, Placed
<1>2. dev'.sending = <<>> \/ dev'.sending = dev.sending
  BY DEF Typed, Devices, Reopen
<1>3. Range(wire') = {} /\ Range(toDevice') = {} /\ Range(worker.doc) = {}
      /\ Range(dev'.sending) \subseteq Range(dev.sending) /\ Sorted(dev'.sending, Later)
  BY <1>1, <1>2, NoMessage, NoCommand DEF Flow, InOrder
<1>4. InOrder'
  BY <1>1, <1>3, NoMessage DEF Flow, InOrder, Kept
<1>5. Placed'
  BY <1>1, <1>3 DEF Flow, Placed
<1>6. Chunks' \subseteq Chunks /\ Unread' \subseteq Unread \cup Chunks /\ Asked' \subseteq Asked
  BY <1>1, <1>3 DEF Chunks, Unread, Asked
<1>7. AskedInOrder'
  <2>1. counts'.calls >= counts.calls
    BY <1>1, TransfersAssumption DEF Typed
  <2> QED
    BY <1>1, <1>3, <1>6, <2>1, Fewer, NoCommand DEF Flow, AskedInOrder
<1>8. StartsAreKept'
  <2>1. ASSUME NEW n \in Chunks \ Chunks', NEW e \in Chunks'
        PROVE  <<n, e>> \in Later
    <3>1. e \in Range(dev'.sending) /\ dev'.sending = dev.sending
      BY <1>1, <1>2, <1>3, NoMessage DEF Chunks
    <3>2. n \in Range(wire)
      BY <1>3, <3>1 DEF Chunks
    <3> QED
      BY <3>1, <3>2 DEF Flow, InOrder
  <2> QED
    BY <1>1, <1>6, <2>1, FewerChunks DEF Flow
<1>9. OwnStart'
  BY <1>1 DEF OwnStart
<1> QED
  BY <1>4, <1>5, <1>7, <1>8, <1>9 DEF Flow

(* A command comes after the others.                                       *)
LEMMA NewCommandFlow ==
    ASSUME Typed, Flow, Typed', NEW c \in Commands, inbox' = Append(inbox, c),
           c.op = "backup" => c.of > counts.calls,
           c.op = "save" => c.position \in Positions,
           c.of <= counts'.calls, counts'.calls >= counts.calls,
           toDevice' = toDevice, dev' = dev, wire' = wire, worker' = worker, past' = past,
           dropped' = dropped
    PROVE  Flow'
<1>1. Range(inbox') = Range(inbox) \cup {c}
  BY AddCommand DEF Typed
<1>2. counts.calls \in Nat /\ counts'.calls \in Nat /\ c.of \in Nat
  BY TransfersAssumption DEF Typed, Commands
<1>3. \A e \in Asked : <<e, c>> \in AskedLater
  <2> TAKE e \in Asked
  <2>1. e \in Commands /\ e.of <= counts.calls /\ e.of \in Nat
    BY Elements, TransfersAssumption DEF Flow, AskedInOrder, Asked, Commands
  <2> QED
    BY <1>2, <2>1 DEF AskedLater
<1>4. Sorted(inbox', AskedLater)
  BY <1>3, AddCommand DEF Typed, Flow, AskedInOrder, Asked
<1>5. Kept' = Kept /\ Chunks' = Chunks /\ Unread' = Unread /\ Asked' = Asked \cup {c}
  BY <1>1 DEF Kept, Chunks, Unread, Asked
<1>6. InOrder' /\ Placed'
  BY <1>5 DEF Flow, InOrder, Placed
<1>7. AskedInOrder'
  <2>1. \A e \in Asked' : e.of <= counts'.calls
    <3> TAKE e \in Asked'
    <3>1. CASE e = c
      BY <3>1
    <3>2. CASE e \in Asked
      <4>1. e.of <= counts.calls /\ e.of \in Nat
        BY <3>2, Elements, TransfersAssumption DEF Flow, AskedInOrder, Asked, Commands
      <4> QED
        BY <1>2, <4>1
    <3> QED
      BY <1>5, <3>1, <3>2
  <2>2. \A m \in Unread' \cup Chunks' : m.of \in Nat /\ m.of <= counts.calls /\ m.of <= counts'.calls
    <3> TAKE m \in Unread' \cup Chunks'
    <3>1. m.of \in Nat /\ m.of <= counts.calls
      BY <1>5, Elements, MessageFields DEF Flow, AskedInOrder
    <3> QED
      BY <1>2, <3>1
  <2>3. \A e \in Asked' : e.op = "backup" =>
            \A m \in Unread' \cup Chunks' : m.part # 0 => m.of < e.of
    <3>1. c.op = "backup" => \A m \in Unread' \cup Chunks' : m.of < c.of
      BY <1>2, <2>2
    <3> QED
      BY <1>5, <3>1 DEF Flow, AskedInOrder
  <2>4. /\ Sorted(toDevice', AskedLater)
        /\ \A a \in Range(toDevice') : \A b \in Range(inbox') : <<a, b>> \in AskedLater
    BY <1>1, <1>3 DEF Flow, AskedInOrder, Asked
  <2>5. \A e \in Asked' : e.op = "save" => e.position \in Positions
    BY <1>5 DEF Flow, AskedInOrder
  <2> QED
    BY <1>4, <2>1, <2>2, <2>3, <2>4, <2>5 DEF AskedInOrder
<1>8. StartsAreKept' /\ OwnStart'
  BY <1>5 DEF Flow, StartsAreKept, Started, OwnStart, Opens
<1> QED
  BY <1>6, <1>7, <1>8 DEF Flow

LEMMA SameFlow ==
    ASSUME Flow, dev'.sending = dev.sending, wire' = wire, worker' = worker, toDevice' = toDevice,
           inbox' = inbox, counts'.calls = counts.calls, past'.dropped = past.dropped,
           dropped' = dropped \/ worker.at # "collecting"
    PROVE  Flow'
BY DEF Flow, InOrder, Placed, AskedInOrder, StartsAreKept, Started, OwnStart, Opens, Kept,
       Chunks, Unread, Asked

LEMMA CallFlow ==
    ASSUME Typed, Flow, CallShape, Typed', CallStep \/ AnswerStep \/ Resynchronize
    PROVE  Flow'
<1>1. counts.calls \in Nat /\ counts'.calls \in Nat
  BY TransfersAssumption DEF Typed
<1>2. CASE CallStep
  <2>1. PICK kind \in {"backup", "folders", "presets", "slots", "save"},
             at \in {"asking", "sending"}, op \in {"backup", "list", "save"}, position \in Nat :
            /\ Begin(kind, at, op, position)
            /\ op = "save" => position \in Positions
    BY <1>2, CallBegins
  <2> DEFINE c == Command(op, counts.calls + 1, position)
  <2>2. /\ inbox' = Append(inbox, c) /\ counts'.calls = counts.calls + 1
        /\ toDevice' = toDevice /\ dev' = dev /\ wire' = wire /\ worker' = worker /\ past' = past
        /\ dropped' = dropped
    BY <2>1 DEF Begin, deviceVars, workerVars, Typed
  <2>3. counts.calls + 1 \in 1 .. MaxCalls
    <3>1. counts.calls < MaxCalls
      BY <2>1 DEF Begin
    <3> QED
      BY <1>1, <3>1, TransfersAssumption
  <2>4. /\ c \in Commands /\ c.of = counts.calls + 1 /\ c.op = op /\ c.position = position
    BY <2>3 DEF Command, Commands
  <2>5. c.of > counts.calls /\ c.of <= counts'.calls /\ counts'.calls >= counts.calls
    BY <1>1, <2>2, <2>4
  <2> HIDE DEF c
  <2> QED
    BY <2>1, <2>2, <2>4, <2>5, NewCommandFlow
<1>3. CASE Resynchronize
  <2> DEFINE c == Command("volume", call.of, 0)
  <2>1. call.of \in 1 .. MaxCalls /\ call.of = counts.calls
    <3>1. call.of = counts.calls /\ call.of # 0
      BY <1>3 DEF Resynchronize, CallShape, NoCall
    <3>2. call.of \in 0 .. MaxCalls
      BY DEF Typed, Calls
    <3> QED
      BY <3>1, <3>2, TransfersAssumption
  <2>2. c \in Commands /\ c.op = "volume" /\ c.of = counts.calls
    BY <2>1 DEF Command, Commands
  <2>3. /\ inbox' = Append(inbox, c) /\ counts' = counts
        /\ toDevice' = toDevice /\ dev' = dev /\ wire' = wire /\ worker' = worker /\ past' = past
        /\ dropped' = dropped
    BY <1>3 DEF Resynchronize, deviceVars, workerVars
  <2>4. c.of <= counts'.calls /\ counts'.calls >= counts.calls
    BY <1>1, <2>2, <2>3
  <2> HIDE DEF c
  <2> QED
    BY <2>2, <2>3, <2>4, NewCommandFlow
<1>4. CASE AnswerStep
  <2>1. /\ dev' = dev /\ wire' = wire /\ worker' = worker /\ toDevice' = toDevice
        /\ inbox' = inbox /\ counts'.calls = counts.calls /\ past'.dropped = past.dropped
        /\ dropped' = dropped
    BY <1>4, EventType DEF AnswerStep, AnswerListing, Subscribe, Look, WakeUp, DeadlinePassed,
       WaitEnds, Resynchronized, RecordSave, GiveUp, deviceVars, workerVars, Typed, Histories
  <2> QED
    BY <2>1, SameFlow
<1> QED
  BY <1>2, <1>3, <1>4

LEMMA InitFlow == TransfersInit => Flow
<1> SUFFICES ASSUME TransfersInit PROVE Flow
  OBVIOUS
<1>1. /\ dev.sending = <<>> /\ wire = <<>> /\ toDevice = <<>> /\ inbox = <<>>
      /\ worker = Idle
  BY DEF TransfersInit
<1>2. Kept = {} /\ Chunks = {} /\ Unread = {} /\ Asked = {}
  BY <1>1, IdleFields, NoMessage, NoCommand DEF Kept, Chunks, Unread, Asked
<1> QED
  BY <1>1, <1>2, IdleFields, NoMessage, NoCommand
     DEF Flow, InOrder, Placed, AskedInOrder, StartsAreKept, Started, OwnStart

LEMMA FlowStep == Typed /\ Flow /\ CallShape /\ Volumes /\ Typed' /\ TransfersNext => Flow'
<1> SUFFICES ASSUME Typed, Flow, CallShape, Volumes, Typed', TransfersNext
             PROVE  Flow'
  OBVIOUS
<1>1. CASE TouchPresets \/ ReadFails
  <2>1. /\ dev'.sending = dev.sending /\ wire' = wire /\ worker' = worker /\ toDevice' = toDevice
        /\ inbox' = inbox /\ counts'.calls = counts.calls /\ past'.dropped = past.dropped
        /\ dropped' = dropped \/ worker.at # "collecting"
    BY <1>1, EventType DEF TouchPresets, ReadFails, Free, hostVars, Typed, Histories, Devices
  <2> QED
    BY <2>1, SameFlow
<1> QED
  BY <1>1, StartBackupFlow, SendChunkFlow, TellsFlow, DropReportFlow, ReadFlow, CollectFlow,
     TakenFlow, BackupDoneFlow, CommandFlow, ReopenFlow, CallFlow
     DEF TransfersNext, CallStep, AnswerStep

-----------------------------------------------------------------------------
(***************************************************************************)
(* What calls are handed and told                                          *)
(***************************************************************************)
(* A document that is complete is the chunk that ends it and those before. *)
LEMMA AssembledEnds ==
    ASSUME Typed, Flow, NextChunk, Complete
    PROVE  /\ Assembled = Append(worker.doc, Head(wire)) /\ Head(wire).part = 2
           /\ worker.doc = <<>> => Opens(Head(wire))
           /\ Len(worker.doc) \in Nat /\ (Len(worker.doc) = 0 <=> worker.doc = <<>>)
           /\ DOMAIN worker.doc = 1 .. Len(worker.doc)
           /\ DOMAIN Assembled = 1 .. Len(worker.doc) + 1
           /\ Assembled[Len(worker.doc) + 1] = Head(wire)
           /\ \A i \in 1 .. Len(worker.doc) :
                  /\ Assembled[i] = worker.doc[i] /\ worker.doc[i] \in Range(worker.doc)
                  /\ worker.doc[i].part = 1 /\ worker.doc[i] \in Chunks
                  /\ worker.doc[i] \in Messages
<1>1. /\ Head(wire) \in Messages /\ worker.doc \in Seq(Messages)
      /\ \A e \in Range(worker.doc) : e.part = 1
  BY ChunkRead
<1>2. Head(wire).part = 2 /\ Assembled # <<>>
  BY DEF Complete, Terminal, LastPart
<1>3. /\ Assembled = Append(worker.doc, Head(wire))
      /\ worker.doc = <<>> => Opens(Head(wire))
  BY <1>2 DEF Assembled, Pushed
<1>4. /\ Len(worker.doc) \in Nat /\ DOMAIN worker.doc = 1 .. Len(worker.doc)
      /\ \A i \in 1 .. Len(worker.doc) : worker.doc[i] \in Range(worker.doc)
      /\ Range(worker.doc) \subseteq Messages
  BY <1>1, ElementsOf
<1>5. Len(worker.doc) = 0 <=> worker.doc = <<>>
  BY <1>1, EmptySeq
<1>6. /\ DOMAIN Assembled = 1 .. Len(worker.doc) + 1
      /\ Assembled[Len(worker.doc) + 1] = Head(wire)
      /\ \A i \in 1 .. Len(worker.doc) : Assembled[i] = worker.doc[i]
  BY <1>1, <1>3, AddLast
<1>7. \A e \in Range(worker.doc) : e.part = 1 /\ e \in Chunks /\ e \in Messages
  BY <1>1, <1>4 DEF Chunks
<1> QED
  BY <1>2, <1>3, <1>4, <1>5, <1>6, <1>7

(* A document that passes the check is one of the device's.                *)
LEMMA CompleteIsWhole ==
    ASSUME Typed, Flow, CompleteDocument
    PROVE  WholeDocument(Assembled)
<1> SUFFICES ASSUME ~past.dropped
             PROVE  \E of \in 1 .. MaxCalls : Assembled = Document(of)
  BY DEF WholeDocument
<1> DEFINE m == Head(wire)
           n == worker.doc[1]
<1>1. NextChunk /\ Complete /\ Valid(Assembled)
  BY DEF CompleteDocument
<1>2. /\ m \in Messages /\ m \in Chunks
      /\ Range(wire) = {m} \cup Range(wire')
      /\ \A e \in Range(wire') \cup Range(dev.sending) : <<m, e>> \in Later
      /\ \A e \in Kept : <<e, m>> \in Later
  BY <1>1, ChunkRead
<1>3. /\ m.part = 2 /\ Len(worker.doc) \in Nat
      /\ DOMAIN Assembled = 1 .. Len(worker.doc) + 1
      /\ Assembled[Len(worker.doc) + 1] = m /\ Assembled = Append(worker.doc, m)
  BY <1>1, AssembledEnds
<1>4. Len(worker.doc) = 1
  <2>1. DOMAIN Assembled = 1 .. 2
    BY <1>1 DEF Valid, Parts, LastPart
  <2>2. Len(worker.doc) + 1 \in 1 .. 2 /\ 2 \in 1 .. Len(worker.doc) + 1
    BY <1>3, <2>1
  <2>3. \A k \in Nat : 2 \in 1 .. k + 1 /\ k + 1 \in 1 .. 2 => k = 1
    OBVIOUS
  <2> QED
    BY <1>3, <2>2, <2>3
<1>5. 1 \in 1 .. Len(worker.doc)
  BY <1>4
<1>6. /\ n.part = 1 /\ n \in Chunks /\ n \in Messages /\ n \in Range(worker.doc)
      /\ Assembled[1] = n
  BY <1>1, <1>5, AssembledEnds
<1>7. \A e \in Range(worker.doc) : e = n
  BY <1>1, <1>4, AssembledEnds DEF Range
<1>8. Assembled = <<n, m>>
  <2>1. DOMAIN Assembled = 1 .. 2 /\ Assembled[1] = n /\ Assembled[2] = m
    BY <1>3, <1>4, <1>6
  <2>2. Assembled \in Seq(Messages)
    BY <1>2, <1>3, AddLast DEF Typed, Workers
  <2> HIDE DEF n, m
  <2>3. Assembled = [i \in 1 .. 2 |-> Assembled[i]]
    BY <2>1, <2>2
  <2> QED
    BY <2>1, <2>3
<1> HIDE DEF m, n
<1>9. n.of = m.of
  <2>1. m.of \in Nat /\ n.of \in Nat
    BY <1>2, <1>6, MessageFields
  <2>2. n.of < m.of \/ n.of = m.of
    <3>1. <<n, m>> \in Later
      BY <1>2, <1>6 DEF Kept
    <3>2. n.part # 0 /\ m.part # 0
      BY <1>3, <1>6
    <3> QED
      BY <1>2, <1>6, <3>1, <3>2, LaterPair
  <2>3. \/ \E k \in Chunks : k.part = 1 /\ k.of = m.of
        \/ \A k \in Chunks : m.of <= k.of
    BY <1>2, <1>3 DEF Flow, StartsAreKept, Started, LastPart
  <2>4. CASE \A k \in Chunks : m.of <= k.of
    BY <1>6, <2>1, <2>2, <2>4
  <2>5. ASSUME NEW k \in Chunks, k.part = 1, k.of = m.of
        PROVE  k = n
    <3>1. k \in Messages
      BY Elements
    <3>2. ~ <<m, k>> \in Later
      BY <1>2, <1>3, <2>1, <2>5, <3>1, LaterPair
    <3>3. k # m
      BY <1>3, <2>5
    <3> QED
      BY <1>2, <1>7, <3>2, <3>3 DEF Chunks
  <2> QED
    BY <2>3, <2>4, <2>5
<1>10. /\ n = Chunk(n.of, n.part) /\ m = Chunk(m.of, m.part) /\ m.of \in 1 .. MaxCalls
  BY <1>2, <1>3, <1>6, MessageFields
<1>11. Assembled = Document(m.of)
  BY <1>3, <1>6, <1>8, <1>9, <1>10, DocumentType
<1> QED
  BY <1>10, <1>11

(* A worker that crossed no brace of another backup gets its own document. *)
LEMMA OwnIsValid ==
    ASSUME Typed, Flow, NextChunk, Complete, ~worker.crossed
    PROVE  Valid(Assembled)
<1> DEFINE doc == worker.doc
           n == Len(doc)
<1>1. /\ Head(wire).part = 2 /\ n \in Nat
      /\ doc = <<>> => Opens(Head(wire))
      /\ n = 0 <=> doc = <<>>
      /\ DOMAIN Assembled = 1 .. n + 1 /\ Assembled[n + 1] = Head(wire) /\ DOMAIN doc = 1 .. n
      /\ \A i \in 1 .. n : /\ Assembled[i] = doc[i] /\ doc[i] \in Range(doc)
                           /\ doc[i].part = 1 /\ doc[i] \in Chunks /\ doc[i] \in Messages
  BY AssembledEnds
<1>2. worker.at = "collecting" /\ ~dropped
  BY DEF NextChunk
<1>3. /\ \A m \in Chunks : Opens(m) => m.of = worker.of
      /\ \/ \A m \in Chunks : m.of # worker.of
         \/ \E k \in Chunks : k.part = 1 /\ k.of = worker.of
  BY <1>2 DEF Flow, OwnStart
<1>4. Sorted(doc, Later)
  BY DEF Flow, InOrder
<1> DEFINE m == Head(wire)
<1>5. n # 0
  <2> SUFFICES ASSUME doc = <<>> PROVE FALSE
    BY <1>1
  <2>1. /\ m \in Chunks /\ m \in Messages /\ Range(wire) = {m} \cup Range(wire')
        /\ \A e \in Range(wire') \cup Range(dev.sending) : <<m, e>> \in Later
    BY ChunkRead
  <2>2. m.of = worker.of /\ m.part = 2 /\ m.of \in Nat
    BY <1>1, <1>3, <2>1, MessageFields
  <2>3. PICK k \in Chunks : k.part = 1 /\ k.of = worker.of
    BY <1>3, <2>1, <2>2
  <2>4. k \in Messages /\ k # m
    BY <2>2, <2>3, Elements
  <2>5. k \in Range(wire') \cup Range(dev.sending)
    BY <2>1, <2>4, NoMessage DEF Chunks
  <2> HIDE DEF m
  <2>6. <<m, k>> \in Later /\ k.of = m.of /\ k.part = 1
    BY <2>1, <2>2, <2>3, <2>5
  <2>7. m.of < k.of \/ m.part < k.part
    BY <2>1, <2>2, <2>4, <2>6, LaterPair
  <2> QED
    BY <2>2, <2>6, <2>7
<1> HIDE DEF doc, n
<1>6. n = 1
  <2> SUFFICES ASSUME n # 1 PROVE FALSE
    OBVIOUS
  <2>1. 1 \in 1 .. n /\ 2 \in 1 .. n
    BY <1>1, <1>5
  <2>2. /\ doc[1] \in Messages /\ doc[1].part = 1 /\ doc[1].of = worker.of
        /\ doc[2] \in Messages /\ doc[2].part = 1 /\ doc[2].of = worker.of
    BY <1>1, <1>3, <2>1 DEF Opens
  <2>3. <<doc[1], doc[2]>> \in Later
    <3>1. 1 \in DOMAIN doc /\ 2 \in DOMAIN doc /\ 1 < 2
      BY <1>1, <2>1
    <3> QED
      BY ONLY <1>4, <3>1 DEF Sorted
  <2>4. worker.of \in Nat
    BY DEF Typed, Workers
  <2> QED
    BY <2>2, <2>3, <2>4, LaterPair
<1>7. DOMAIN Assembled = 1 .. 2 /\ Assembled[1].part = 1 /\ Assembled[2].part = 2
  BY <1>1, <1>6
<1> HIDE DEF Assembled
<1> QED
  BY <1>7 DEF Valid, Parts, LastPart

LEMMA SameAnswers ==
    ASSUME Answers, told' = told, call' = call, counts'.calls = counts.calls,
           past.dropped => past'.dropped,
           worker'.at = "delivering" => worker.at = "delivering" /\ worker'.doc = worker.doc
    PROVE  Answers'
<1>1. CallShape'
  BY DEF Answers, CallShape
<1>2. Handed'
  BY DEF Answers, Handed, WholeDocument
<1>3. WholeBackup' /\ OnlyBracesSpoil'
  BY DEF Answers, WholeBackup, OnlyBracesSpoil
<1> QED
  BY <1>1, <1>2, <1>3 DEF Answers

(* The call goes on.                                                       *)
LEMMA CallGoesOn ==
    ASSUME Answers, told' = told, counts'.calls = counts.calls,
           past.dropped => past'.dropped, CallShape',
           worker'.at = "delivering" => worker.at = "delivering" /\ worker'.doc = worker.doc,
           call'.kind = call.kind,
           call'.kind = "backup" /\ call'.at # "asking" =>
               \/ call.at # "asking" /\ call'.doc = call.doc
               \/ worker.at = "delivering" /\ call'.doc = worker.doc
    PROVE  Answers'
<1>1. Handed'
  BY DEF Answers, Handed, WholeDocument
<1>2. WholeBackup' /\ OnlyBracesSpoil'
  BY DEF Answers, WholeBackup, OnlyBracesSpoil
<1> QED
  BY <1>1, <1>2 DEF Answers

LEMMA NoCallShape ==
    /\ NoCall.kind = "none" /\ NoCall.at = "none" /\ NoCall.heard = FALSE /\ NoCall.of = 0
    /\ NoAnswer.kind = "none" /\ NoAnswer.why = "none"
BY DEF NoCall, NoAnswer

(* The call is answered.                                                   *)
LEMMA AnswerGives ==
    ASSUME Answers, NEW ok, NEW why, Answer(ok, why),
           past.dropped => past'.dropped,
           worker'.at = "delivering" => worker.at = "delivering" /\ worker'.doc = worker.doc,
           call.kind = "backup" => ok = FALSE \/ WholeDocument(call.doc),
           why = "invalid" => worker.crossed
    PROVE  Answers'
<1>1. call' = NoCall /\ CallShape'
  BY NoCallShape DEF Answer, CallShape
<1>2. Handed'
  BY <1>1, NoCallShape DEF Answers, Handed, WholeDocument
<1>3. /\ told'.kind = call.kind /\ told'.ok = ok /\ told'.doc = call.doc /\ told'.why = why
      /\ told'.crossed = worker.crossed /\ told'.dropped = past.dropped
  BY Zenon DEF Answer
<1>4. WholeBackup'
  BY <1>3 DEF WholeBackup, WholeDocument
<1>5. OnlyBracesSpoil'
  BY <1>3 DEF OnlyBracesSpoil
<1> QED
  BY <1>1, <1>2, <1>4, <1>5 DEF Answers

LEMMA WorkerAnswers ==
    ASSUME Typed, Flow, Answers,
           TakeSend \/ Tell \/ CompleteDocument \/ RefuseDocument \/ BackupReadFails \/ Stall
           \/ Deliver
    PROVE  Answers'
<1>1. call \in Calls /\ worker \in Workers /\ past \in Histories
  BY DEF Typed
<1>2. CASE TakeSend
  <2>1. /\ told' = told /\ counts' = counts /\ past' = past /\ worker' = worker
        /\ call' = call \/ (call.at = "sending" /\ call' = [call EXCEPT !.at = "sent"])
    BY <1>2 DEF TakeSend, Waits
  <2>2. CASE call' = call
    BY <2>1, <2>2, SameAnswers
  <2>3. CASE call.at = "sending" /\ call' = [call EXCEPT !.at = "sent"]
    <3>1. /\ call'.at = "sent" /\ call'.kind = call.kind /\ call'.of = call.of
          /\ call'.position = call.position /\ call'.heard = call.heard /\ call'.doc = call.doc
      BY <1>1, <2>3 DEF Calls
    <3>2. CallShape'
      BY <2>1, <2>3, <3>1, NoCallShape DEF Answers, CallShape
    <3> QED
      BY <2>1, <2>3, <3>1, <3>2, CallGoesOn
  <2> QED
    BY <2>1, <2>2, <2>3
<1>3. CASE Tell
  <2> DEFINE m == Head(worker.todo)
  <2>1. /\ told' = told /\ counts' = counts /\ past' = past
        /\ worker'.at = worker.at /\ worker'.doc = worker.doc
        /\ call' = call \/ (Hears(m) /\ call' = [call EXCEPT !.heard = TRUE])
    BY <1>1, <1>3 DEF Tell, Taken, Workers
  <2>2. CASE call' = call
    BY <2>1, <2>2, SameAnswers
  <2>3. CASE Hears(m) /\ call' = [call EXCEPT !.heard = TRUE]
    <3>1. call.at \in {"looking", "waiting"} \/ call.at = "sent"
      BY <2>3 DEF Hears
    <3>2. /\ call'.at = call.at /\ call'.kind = call.kind /\ call'.of = call.of
          /\ call'.position = call.position /\ call'.doc = call.doc
      BY <1>1, <2>3 DEF Calls
    <3>3. CallShape'
      BY <2>1, <3>1, <3>2, NoCallShape DEF Answers, CallShape
    <3> QED
      BY <2>1, <3>2, <3>3, CallGoesOn, NoCallShape
  <2> QED
    BY <2>1, <2>2, <2>3
<1>4. CASE CompleteDocument
  <2>1. /\ told' = told /\ counts' = counts /\ past' = past /\ call' = call
        /\ worker'.at = "delivering" /\ worker'.doc = Assembled
    BY <1>1, <1>4 DEF CompleteDocument, Workers
  <2>2. WholeDocument(Assembled)
    BY <1>4, CompleteIsWhole
  <2>3. CallShape' /\ WholeBackup' /\ OnlyBracesSpoil'
    BY <2>1 DEF Answers, CallShape, WholeBackup, OnlyBracesSpoil
  <2>4. Handed'
    BY <2>1, <2>2 DEF Answers, Handed, WholeDocument
  <2> QED
    BY <2>3, <2>4 DEF Answers
<1>5. ASSUME NEW why, FailBackup(why), why = "invalid" => worker.crossed
      PROVE  Answers'
  <2>1. worker'.at # "delivering" /\ past'.dropped = past.dropped /\ counts' = counts
    BY <1>1, <1>5, IdleFields DEF FailBackup, Histories
  <2>2. CASE UNCHANGED <<call, told>>
    BY <2>1, <2>2, SameAnswers
  <2>3. CASE Answer(FALSE, why)
    BY <1>5, <2>1, <2>3, AnswerGives
  <2> QED
    BY <1>5, <2>2, <2>3 DEF FailBackup
<1>6. CASE RefuseDocument
  <2>1. worker.crossed
    BY <1>6, OwnIsValid DEF RefuseDocument
  <2> QED
    BY <1>5, <1>6, <2>1 DEF RefuseDocument
<1>7. CASE BackupReadFails \/ Stall
  BY <1>5, <1>7 DEF BackupReadFails, Stall
<1>8. CASE Deliver
  <2>1. /\ told' = told /\ counts' = counts /\ past' = past /\ worker'.at # "delivering"
        /\ worker.at = "delivering"
        /\ \/ call' = call
           \/ call.at = "asking" /\ call' = [call EXCEPT !.at = "resync", !.doc = worker.doc]
    BY <1>8, IdleFields DEF Deliver, Waits
  <2>2. CASE call' = call
    BY <2>1, <2>2, SameAnswers
  <2>3. CASE call.at = "asking" /\ call' = [call EXCEPT !.at = "resync", !.doc = worker.doc]
    <3>1. /\ call'.at = "resync" /\ call'.kind = call.kind /\ call'.of = call.of
          /\ call'.position = call.position /\ call'.heard = call.heard
          /\ call'.doc = worker.doc
      BY <1>1, <2>3 DEF Calls
    <3>2. CallShape'
      BY <2>1, <2>3, <3>1, NoCallShape DEF Answers, CallShape
    <3> QED
      BY <2>1, <3>1, <3>2, CallGoesOn
  <2> QED
    BY <2>1, <2>2, <2>3
<1> QED
  BY <1>2, <1>3, <1>4, <1>6, <1>7, <1>8

LEMMA CallAnswers ==
    ASSUME Typed, Answers, CallStep \/ AnswerStep \/ Resynchronize
    PROVE  Answers'
<1>1. call \in Calls /\ past \in Histories /\ counts.calls \in Nat
  BY TransfersAssumption DEF Typed
<1>2. CASE CallStep
  <2>1. PICK kind \in {"backup", "folders", "presets", "slots", "save"},
             at \in {"asking", "sending"}, op \in {"backup", "list", "save"}, position \in Nat :
            /\ Begin(kind, at, op, position)
            /\ (kind = "backup") = (at = "asking")
            /\ kind = "save" => position \in Positions
    BY <1>2, CallBegins
  <2>2. /\ call'.kind = kind /\ call'.at = at /\ call'.of = counts.calls + 1
        /\ call'.position = position /\ call'.heard = FALSE
    BY <2>1 DEF Begin, NoCall
  <2>3. /\ told' = NoAnswer /\ counts'.calls = counts.calls + 1 /\ past' = past
        /\ worker' = worker
    BY <2>1 DEF Begin, workerVars, Typed
  <2>4. CallShape'
    BY <1>1, <2>1, <2>2, <2>3 DEF CallShape
  <2>5. Handed'
    BY <2>1, <2>2, <2>3 DEF Answers, Handed, WholeDocument
  <2> QED
    BY <2>3, <2>4, <2>5, NoCallShape DEF Answers, WholeBackup, OnlyBracesSpoil
<1>3. CASE AnswerListing
  BY <1>3, AnswerGives DEF AnswerListing, workerVars
<1>4. CASE Subscribe
  <2>1. /\ call'.at = "looking" /\ call'.kind = "slots" /\ call'.kind = call.kind
        /\ call'.of = call.of /\ call.at = "sent"
        /\ told' = told /\ counts' = counts /\ past' = past /\ worker' = worker
    BY <1>1, <1>4 DEF Subscribe, workerVars, Calls
  <2>2. CallShape'
    BY <2>1 DEF Answers, CallShape
  <2> QED
    BY <2>1, <2>2, CallGoesOn
<1>5. CASE Look
  <2>1. call.at = "looking" /\ call.kind = "slots" /\ past' = past /\ worker' = worker
        /\ counts' = counts
    BY <1>5 DEF Look, Answers, CallShape, workerVars
  <2>2. CASE Answer(TRUE, "none")
    BY <2>1, <2>2, AnswerGives
  <2>3. CASE call' = [call EXCEPT !.at = "waiting"] /\ UNCHANGED told
    <3>1. /\ call'.at = "waiting" /\ call'.kind = "slots" /\ call'.kind = call.kind
          /\ call'.of = call.of
      BY <1>1, <2>1, <2>3 DEF Calls
    <3>2. CallShape'
      BY <2>1, <3>1 DEF Answers, CallShape
    <3> QED
      BY <2>1, <2>3, <3>1, <3>2, CallGoesOn
  <2> QED
    BY <1>5, <2>2, <2>3 DEF Look
<1>6. CASE WakeUp
  <2>1. call.at = "waiting" /\ call.kind = "slots" /\ past' = past /\ worker' = worker
        /\ counts' = counts /\ told' = told
    BY <1>6 DEF WakeUp, Answers, CallShape, workerVars
  <2>2. /\ call'.at = "looking" /\ call'.kind = "slots" /\ call'.kind = call.kind
        /\ call'.of = call.of
    BY <1>1, <1>6, <2>1 DEF WakeUp, Calls
  <2>3. CallShape'
    BY <2>1, <2>2 DEF Answers, CallShape
  <2> QED
    BY <2>1, <2>2, <2>3, CallGoesOn
<1>7. CASE DeadlinePassed \/ WaitEnds
  <2>1. call.at = "waiting" /\ call.kind = "slots" /\ past' = past /\ worker' = worker
    BY <1>7 DEF DeadlinePassed, WaitEnds, Answers, CallShape, workerVars
  <2>2. PICK ok : Answer(ok, "not loaded")
    BY <1>7 DEF DeadlinePassed, WaitEnds
  <2> QED
    BY <2>1, <2>2, AnswerGives
<1>8. CASE Resynchronize
  <2>1. /\ call.at = "resync" /\ call.kind = "backup" /\ past' = past /\ worker' = worker
        /\ counts' = counts /\ told' = told
    BY <1>8 DEF Resynchronize, Answers, CallShape, workerVars
  <2>2. /\ call'.at = "sending" /\ call'.kind = call.kind /\ call'.of = call.of
        /\ call'.doc = call.doc /\ call'.heard = call.heard
    BY <1>1, <1>8 DEF Resynchronize, Calls
  <2>3. CallShape'
    BY <2>1, <2>2 DEF Answers, CallShape
  <2> QED
    BY <2>1, <2>2, <2>3, CallGoesOn
<1>9. CASE Resynchronized
  <2>1. /\ call.kind = "backup" /\ call.at = "sent" /\ Answer(TRUE, "none")
        /\ past' = past /\ worker' = worker
    BY <1>9 DEF Resynchronized, Answers, CallShape, workerVars
  <2>2. WholeDocument(call.doc)
    BY <2>1 DEF Answers, Handed
  <2> QED
    BY <2>1, <2>2, AnswerGives
<1>10. CASE RecordSave
  <2>1. call.kind = "save" /\ Answer(TRUE, "none") /\ worker' = worker
        /\ past'.dropped = past.dropped
    BY <1>1, <1>10 DEF RecordSave, Histories
  <2> QED
    BY <2>1, AnswerGives
<1>11. CASE GiveUp
  BY <1>11, AnswerGives DEF GiveUp, workerVars
<1> QED
  BY <1>2, <1>3, <1>4, <1>5, <1>6, <1>7, <1>8, <1>9, <1>10, <1>11 DEF AnswerStep

LEMMA InitAnswers == TransfersInit => Answers
BY IdleFields, NoCallShape
   DEF TransfersInit, Answers, CallShape, Handed, WholeBackup, OnlyBracesSpoil

LEMMA AnswersStep == Typed /\ Flow /\ Answers /\ TransfersNext => Answers'
<1> SUFFICES ASSUME Typed, Flow, Answers, TransfersNext
             PROVE  Answers'
  OBVIOUS
<1>1. CASE StartBackup \/ SendChunk \/ TellListings \/ TellVolume \/ StorePreset
           \/ TouchPresets \/ TouchVolume \/ DropReport \/ ReadFails
  <2>1. told' = told /\ call' = call /\ worker' = worker
    BY <1>1 DEF StartBackup, SendChunk, TellListings, TellVolume, StorePreset, TouchPresets,
       TouchVolume, DropReport, ReadFails, hostVars
  <2>2. counts'.calls = counts.calls
    BY <1>1, EventType DEF StartBackup, SendChunk, TellListings, TellVolume, StorePreset,
       TouchPresets, TouchVolume, DropReport, ReadFails
  <2>3. past.dropped => past'.dropped
    BY <1>1 DEF StartBackup, SendChunk, TellListings, TellVolume, StorePreset, TouchPresets,
       TouchVolume, DropReport, ReadFails, Typed, Histories
  <2> QED
    BY <2>1, <2>2, <2>3, SameAnswers
<1>2. CASE TakeBackup \/ Read \/ SetAside \/ Collect \/ TakeIn \/ Reopen
  <2>1. told' = told /\ call' = call
    BY <1>2 DEF TakeBackup, Read, SetAside, Collect, TakeIn, Reopen
  <2>2. counts'.calls = counts.calls
    BY <1>2, EventType DEF TakeBackup, Read, SetAside, Collect, TakeIn, Reopen
  <2>3. past.dropped => past'.dropped
    BY <1>2 DEF TakeBackup, Read, SetAside, Collect, TakeIn, Reopen, Typed, Histories
  <2>4. worker'.at = "delivering" => worker.at = "delivering" /\ worker'.doc = worker.doc
    BY <1>2 DEF TakeBackup, Read, SetAside, Collect, TakeIn, Taken, Reopen, NextChunk, Idle, Typed, Workers
  <2> QED
    BY <2>1, <2>2, <2>3, <2>4, SameAnswers
<1> QED
  BY <1>1, <1>2, WorkerAnswers, CallAnswers DEF TransfersNext, CallStep, AnswerStep

-----------------------------------------------------------------------------
(***************************************************************************)
(* Volumes                                                                 *)
(***************************************************************************)
LEMMA SameVolumes ==
    ASSUME Typed, Volumes, seen' = seen, dev'.volume = dev.volume, past'.lost = past.lost,
           \A m \in Unread' : m.volume # 0 => m \in Unread,
           \A m \in Unread : m.volume # 0 => m \in Unread'
    PROVE  Volumes'
<1>1. dev.volume # 0
  BY DEF Typed, Devices
<1>2. \A m \in Unread : m.volume = dev.volume => m \in Unread'
  BY <1>1
<1> QED
  BY <1>2 DEF Volumes

(* Messages that are gone are remembered as lost.                          *)
LEMMA GoneVolumes ==
    ASSUME Typed, Volumes, seen' = seen, dev'.volume = dev.volume,
           NEW gone \in SUBSET Messages, past'.lost = Lost(gone),
           Unread' \subseteq Unread,
           \A m \in Unread : m.volume # 0 => m \in Unread' \/ m \in gone
    PROVE  Volumes'
<1>1. dev.volume # 0 /\ dev.volume \in Nat /\ past.lost \in Nat
  BY DEF Typed, Devices, Histories
<1>2. past'.lost = dev.volume \/ (past'.lost = past.lost /\ \A m \in gone : m.volume # dev.volume)
  BY DEF Lost
<1>3. seen' <= dev'.volume /\ past'.lost <= dev'.volume
  BY <1>1, <1>2 DEF Volumes
<1>4. \A m \in Unread' : m.volume # 0 => seen' <= m.volume /\ m.volume <= dev'.volume
  BY DEF Volumes
<1>5. dev'.volume \in {seen', past'.lost} \/ \E m \in Unread' : m.volume = dev'.volume
  <2>1. CASE past'.lost = dev.volume
    BY <2>1
  <2>2. CASE past'.lost = past.lost /\ \A m \in gone : m.volume # dev.volume
    BY <1>1, <2>2 DEF Volumes
  <2> QED
    BY <1>2, <2>1, <2>2
<1> QED
  BY <1>3, <1>4, <1>5 DEF Volumes

(* The device tells its volume, after the last change or again.            *)
LEMMA ToldVolumes ==
    ASSUME Typed, Volumes, TellVolume \/ TouchVolume
    PROVE  Volumes'
<1>1. /\ dev \in Devices /\ dev.volume \in Nat \ {0} /\ seen \in Nat /\ past.lost \in Nat
      /\ wire \in Seq(Messages)
  BY DEF Typed, Devices, Histories
<1> DEFINE v == dev'.volume
           m == Volume(v)
<1>2. /\ v \in Nat \ {0} /\ v >= dev.volume
      /\ wire' = Append(wire, m) /\ worker' = worker /\ seen' = seen /\ past' = past
  BY <1>1 DEF TellVolume, TouchVolume, hostVars, Devices
<1>3. m \in Messages /\ m.volume = v
  BY <1>2, VolumeType
<1> HIDE DEF m
<1>4. Unread' = Unread \cup {m}
  BY <1>1, <1>2, <1>3, AddMessage DEF Unread
<1>5. seen <= dev.volume /\ past.lost <= dev.volume
  BY DEF Volumes
<1>6. \A e \in Unread : e.volume \in Nat
  BY Elements, MessageFields
<1> HIDE DEF v
<1>7. seen' <= v /\ past'.lost <= v
  BY <1>1, <1>2, <1>5
<1>8. \A e \in Unread' : e.volume # 0 => seen' <= e.volume /\ e.volume <= v
  <2> SUFFICES ASSUME NEW e \in Unread', e.volume # 0
               PROVE  seen' <= e.volume /\ e.volume <= v
    OBVIOUS
  <2>1. CASE e = m
    BY <1>2, <1>3, <1>7, <2>1
  <2>2. CASE e \in Unread
    <3>1. seen <= e.volume /\ e.volume <= dev.volume /\ e.volume \in Nat
      BY <1>6, <2>2 DEF Volumes
    <3> QED
      BY <1>1, <1>2, <3>1
  <2> QED
    BY <1>4, <2>1, <2>2
<1>9. \E e \in Unread' : e.volume = v
  BY <1>3, <1>4
<1> QED
  BY <1>7, <1>8, <1>9 DEF Volumes, v

(* The worker tells the state decoder.                                     *)
LEMMA HeardVolumes ==
    ASSUME Typed, Flow, Volumes, Tell
    PROVE  Volumes'
<1> DEFINE m == Head(worker.todo)
<1>1. /\ worker \in Workers /\ worker.todo \in Seq(Messages) /\ worker.todo # <<>>
      /\ wire' = wire /\ dev' = dev /\ past' = past
      /\ seen' = IF m.kind = "volume" THEN m.volume ELSE seen
      /\ worker'.todo = Tail(worker.todo) \/ (worker'.todo = worker.todo /\ m.kind = "list")
  BY DEF Typed, Workers, Tell, Taken, deviceVars
<1>2. /\ m \in Messages /\ Range(worker.todo) = {m} \cup Range(Tail(worker.todo))
      /\ \A e \in Range(Tail(worker.todo)) \cup Range(wire) : <<m, e>> \in Later
  <2>1. /\ m \in Messages /\ Range(worker.todo) = {m} \cup Range(Tail(worker.todo))
        /\ \A e \in Range(Tail(worker.todo)) : <<m, e>> \in Later
    BY <1>1, TakeMessage DEF Flow, InOrder
  <2>2. \A e \in Range(wire) : <<m, e>> \in Later
    BY <2>1 DEF Flow, InOrder, Kept
  <2> QED
    BY <2>1, <2>2
<1> HIDE DEF m
<1>3. Unread' \subseteq Unread /\ Unread \subseteq Unread' \cup {m} /\ m \in Unread
  BY <1>1, <1>2 DEF Unread
<1>4. CASE m.kind # "volume"
  <2>1. m.volume = 0
    BY <1>2, <1>4, MessageFields
  <2> QED
    BY <1>1, <1>3, <1>4, <2>1, SameVolumes
<1>5. CASE m.kind = "volume"
  <2>1. seen' = m.volume /\ m.volume # 0 /\ m.volume \in Nat
    BY <1>1, <1>2, <1>5, MessageFields
  <2>2. Unread' = Range(wire) \cup Range(Tail(worker.todo))
    BY <1>1, <1>5 DEF Unread
  <2>3. \A e \in Unread' : e.volume # 0 => seen' <= e.volume /\ e.volume <= dev.volume
    <3> SUFFICES ASSUME NEW e \in Unread', e.volume # 0
                 PROVE  seen' <= e.volume /\ e.volume <= dev.volume
      OBVIOUS
    <3>1. e \in Messages /\ e \in Unread /\ <<m, e>> \in Later
      BY <1>2, <1>3, <2>2, Elements
    <3> QED
      BY <1>2, <2>1, <3>1, LaterPair DEF Volumes
  <2>4. seen' <= dev.volume /\ seen <= m.volume
    BY <1>3, <2>1 DEF Volumes
  <2>5. dev.volume \in {seen', past.lost} \/ \E e \in Unread' : e.volume = dev.volume
    <3>1. CASE dev.volume = seen
      <4>1. dev.volume \in Nat /\ seen \in Nat
        BY DEF Typed, Devices
      <4> QED
        BY <2>1, <2>4, <3>1, <4>1
    <3>2. CASE dev.volume = past.lost
      BY <3>2
    <3>3. CASE \E e \in Unread : e.volume = dev.volume
      BY <1>3, <2>1, <3>3
    <3> QED
      BY <3>1, <3>2, <3>3 DEF Volumes
  <2> QED
    BY <1>1, <2>3, <2>4, <2>5 DEF Volumes
<1> QED
  BY <1>4, <1>5

(* A report is dropped; a backup fails.                                    *)
LEMMA LostVolumes ==
    ASSUME Typed, Flow, Volumes,
           DropReport \/ RefuseDocument \/ BackupReadFails \/ Stall
    PROVE  Volumes'
<1>1. /\ wire \in Seq(Messages) /\ past \in Histories /\ seen' = seen /\ dev' = dev
  BY DEF Typed, DropReport, RefuseDocument, BackupReadFails, Stall, FailBackup, hostVars
<1>2. CASE DropReport
  <2>1. /\ wire # <<>> /\ wire' = Front(wire) /\ worker' = worker
        /\ past'.lost = Lost({Last(wire)})
    BY <1>1, <1>2 DEF DropReport, hostVars, Histories
  <2>2. Last(wire) \in Messages /\ Range(wire) = Range(wire') \cup {Last(wire)}
    BY <1>1, <2>1, DropMessage
  <2> DEFINE gone == {Last(wire)}
  <2>3. /\ gone \in SUBSET Messages /\ Unread' \subseteq Unread
        /\ \A m \in Unread : m \in Unread' \/ m \in gone
    BY <2>1, <2>2 DEF Unread
  <2>4. past'.lost = Lost(gone)
    BY <2>1
  <2> HIDE DEF gone
  <2> QED
    BY <1>1, <2>3, <2>4, GoneVolumes
<1>3. CASE RefuseDocument \/ BackupReadFails \/ Stall
  <2> DEFINE gone == Range(worker.todo)
  <2>1. /\ worker' = Idle /\ past'.lost = Lost(gone)
    BY <1>1, <1>3 DEF RefuseDocument, BackupReadFails, Stall, FailBackup, Histories, Range
  <2>2. /\ Range(wire') \subseteq Range(wire)
        /\ \A m \in Range(wire) : m.volume # 0 => m \in Range(wire')
    <3>1. CASE wire' = wire
      BY <3>1
    <3>2. CASE RefuseDocument
      BY <3>2, ChunkRead DEF RefuseDocument
    <3> QED
      BY <1>3, <3>1, <3>2 DEF BackupReadFails, Stall
  <2>3. /\ gone \in SUBSET Messages /\ Unread' \subseteq Unread
        /\ \A m \in Unread : m.volume # 0 => m \in Unread' \/ m \in gone
    BY <2>1, <2>2, IdleFields, Elements DEF Unread
  <2> HIDE DEF gone
  <2> QED
    BY <1>1, <2>1, <2>3, GoneVolumes
<1> QED
  BY <1>2, <1>3

(* What the worker has not taken in after a step.                          *)
LEMMA SameUnread ==
    ASSUME Typed, Flow, StartBackup \/ TouchPresets \/ TakeSend \/ TakeBackup \/ ReadFails \/ Deliver
           \/ CallStep \/ AnswerStep \/ Resynchronize
    PROVE  Unread' = Unread
<1>1. wire' = wire
  <2>1. CallStep => wire' = wire
    BY CallBegins DEF Begin, deviceVars
  <2> QED
    BY <2>1 DEF StartBackup, TouchPresets, TakeSend, TakeBackup, ReadFails, Deliver,
       AnswerStep, AnswerListing, Subscribe, Look, WakeUp, DeadlinePassed, WaitEnds,
       Resynchronized, RecordSave,
       GiveUp, Resynchronize, deviceVars
<1>2. worker'.todo = worker.todo
  <2>1. CallStep => worker' = worker
    BY CallBegins DEF Begin, workerVars
  <2>2. TakeBackup \/ Deliver => worker'.todo = worker.todo
    BY IdleFields DEF TakeBackup, Deliver, Free, Idle
  <2> QED
    BY <2>1, <2>2 DEF StartBackup, TouchPresets, TakeSend, ReadFails,
       AnswerStep, AnswerListing, Subscribe, Look, WakeUp, DeadlinePassed, WaitEnds,
       Resynchronized, RecordSave,
       GiveUp, Resynchronize, hostVars, workerVars
<1> QED
  BY <1>1, <1>2 DEF Unread

LEMMA ReadUnread ==
    ASSUME Typed, Flow, Read \/ SetAside
    PROVE  Unread' = Unread
<1>1. /\ wire \in Seq(Messages) /\ worker \in Workers /\ worker.todo \in Seq(Messages)
      /\ dev.sending \in Seq(Messages)
  BY DEF Typed, Workers, Devices
<1> DEFINE m == Head(wire)
<1>2. /\ wire # <<>> /\ wire' = Tail(wire)
      /\ \/ worker'.todo = Append(worker.todo, m)
         \/ worker.todo = <<>> /\ worker'.todo = <<m>>
  BY <1>1 DEF Read, SetAside, Workers, Free
<1>3. m \in Messages /\ Range(wire) = {m} \cup Range(wire')
  BY <1>1, <1>2, TakeMessage
<1> HIDE DEF m
<1>4. Range(worker'.todo) = Range(worker.todo) \cup {m}
  <2>1. CASE worker'.todo = Append(worker.todo, m)
    BY <1>1, <1>3, <2>1, AddMessage
  <2>2. CASE worker.todo = <<>> /\ worker'.todo = <<m>>
    BY <1>3, <2>2, OneMessage, NoMessage
  <2> QED
    BY <1>2, <2>1, <2>2
<1> QED
  BY <1>3, <1>4 DEF Unread

LEMMA SentUnread ==
    ASSUME Typed, Flow, SendChunk
    PROVE  \E m \in Messages : m.part # 0 /\ Unread' = Unread \cup {m}
<1>1. /\ wire \in Seq(Messages) /\ worker \in Workers /\ worker.todo \in Seq(Messages)
      /\ dev.sending \in Seq(Messages)
  BY DEF Typed, Workers, Devices
<1> DEFINE m == Head(dev.sending)
<1>2. m \in Messages /\ m \in Range(dev.sending)
  BY <1>1, TakeMessage DEF SendChunk
<1>3. m.part # 0
  BY <1>2 DEF Flow, Placed
<1>4. wire' = Append(wire, m) /\ worker' = worker
  BY DEF SendChunk, hostVars
<1> HIDE DEF m
<1>5. Unread' = Unread \cup {m}
  BY <1>1, <1>2, <1>4, AddMessage DEF Unread
<1> QED
  BY <1>2, <1>3, <1>5

LEMMA CollectUnread ==
    ASSUME Typed, Flow, Collect \/ CompleteDocument
    PROVE  Unread' \subseteq Unread /\ \A m \in Unread : m.part = 0 => m \in Unread'
<1>1. /\ wire \in Seq(Messages) /\ worker \in Workers /\ worker.todo \in Seq(Messages)
      /\ dev.sending \in Seq(Messages)
  BY DEF Typed, Workers, Devices
<1>2. NextChunk /\ worker'.todo = worker.todo
  BY <1>1 DEF Collect, CompleteDocument, Workers
<1>3. Range(wire) = {Head(wire)} \cup Range(wire') /\ Head(wire).part # 0
  BY <1>2, ChunkRead
<1> QED
  BY <1>2, <1>3 DEF Unread

LEMMA TakeInUnread ==
    ASSUME Typed, Flow, TakeIn
    PROVE  /\ Head(worker.todo) \in Messages /\ Head(worker.todo) \in Unread
           /\ Head(worker.todo).kind = "list"
           /\ Unread' \subseteq Unread /\ Unread \subseteq Unread' \cup {Head(worker.todo)}
<1>1. /\ wire \in Seq(Messages) /\ worker \in Workers /\ worker.todo \in Seq(Messages)
      /\ dev.sending \in Seq(Messages)
  BY DEF Typed, Workers, Devices
<1>2. worker.todo # <<>> /\ Head(worker.todo).kind = "list" /\ worker.half
  BY DEF TakeIn, Flow, Placed
<1>3. /\ Head(worker.todo) \in Messages
      /\ Range(worker.todo) = {Head(worker.todo)} \cup Range(Tail(worker.todo))
  BY <1>1, <1>2, TakeMessage
<1>4. wire' = wire /\ worker'.todo = Tail(worker.todo)
  BY <1>1 DEF TakeIn, Taken, deviceVars, Workers
<1> QED
  BY <1>2, <1>3, <1>4 DEF Unread

LEMMA ReopenUnread ==
    ASSUME Typed, Flow, Reopen
    PROVE  Unread' = {}
<1>1. wire' = <<>> /\ worker'.todo = <<>>
  BY DEF Reopen, Free
<1> QED
  BY <1>1, NoMessage DEF Unread

LEMMA InitVolumes == TransfersInit => Volumes
<1> SUFFICES ASSUME TransfersInit PROVE Volumes
  OBVIOUS
<1>1. wire = <<>> /\ worker.todo = <<>> /\ seen = dev.volume /\ dev.volume = 1 /\ past.lost = 0
  BY IdleFields DEF TransfersInit
<1>2. Unread = {}
  BY <1>1, NoMessage DEF Unread
<1> QED
  BY <1>1, <1>2 DEF Volumes

LEMMA VolumesStep == Typed /\ Flow /\ Volumes /\ TransfersNext => Volumes'
<1> SUFFICES ASSUME Typed, Flow, Volumes, TransfersNext
             PROVE  Volumes'
  OBVIOUS
<1>1. /\ dev \in Devices /\ past \in Histories /\ past.lost \in Nat /\ dev.volume \in Nat \ {0}
      /\ wire \in Seq(Messages)
  BY DEF Typed, Devices, Histories
<1>2. CASE StartBackup \/ TouchPresets \/ TakeSend \/ TakeBackup \/ ReadFails \/ Read
           \/ SetAside \/ Deliver \/ CallStep \/ AnswerStep \/ Resynchronize
  <2>1. Unread' = Unread
    BY <1>2, SameUnread, ReadUnread
  <2>2. CallStep => dev' = dev /\ seen' = seen /\ past' = past
    BY CallBegins DEF Begin, deviceVars, workerVars
  <2>3. seen' = seen /\ dev'.volume = dev.volume /\ past'.lost = past.lost
    BY <1>1, <1>2, <2>2 DEF StartBackup, TouchPresets, TakeSend, TakeBackup, ReadFails, Read,
       SetAside, Deliver, AnswerStep, AnswerListing, Subscribe, Look, WakeUp, DeadlinePassed,
       WaitEnds,
       Resynchronized, RecordSave, GiveUp, Resynchronize, hostVars, deviceVars, workerVars,
       Devices, Histories
  <2> QED
    BY <2>1, <2>3, SameVolumes
<1>3. CASE SendChunk
  <2>1. PICK m \in Messages : m.part # 0 /\ Unread' = Unread \cup {m}
    BY <1>3, SentUnread
  <2>2. m.volume = 0
    BY <2>1, MessageFields
  <2>3. seen' = seen /\ dev'.volume = dev.volume /\ past'.lost = past.lost
    BY <1>1, <1>3 DEF SendChunk, hostVars, Devices
  <2> QED
    BY <2>1, <2>2, <2>3, SameVolumes
<1>4. CASE Collect \/ CompleteDocument
  <2>1. Unread' \subseteq Unread /\ \A m \in Unread : m.part = 0 => m \in Unread'
    BY <1>4, CollectUnread
  <2>2. \A m \in Unread : m.volume # 0 => m.part = 0
    BY Elements, MessageFields
  <2>3. seen' = seen /\ dev'.volume = dev.volume /\ past'.lost = past.lost
    BY <1>4 DEF Collect, CompleteDocument
  <2> QED
    BY <2>1, <2>2, <2>3, SameVolumes
<1>5. CASE TakeIn
  <2> DEFINE m == Head(worker.todo)
  <2>1. /\ m \in Messages /\ m.kind = "list"
        /\ Unread' \subseteq Unread /\ Unread \subseteq Unread' \cup {m}
    BY <1>5, TakeInUnread
  <2>2. m.volume = 0
    BY <2>1, MessageFields
  <2>3. seen' = seen /\ dev'.volume = dev.volume
    BY <1>5 DEF TakeIn, deviceVars
  <2>4. past'.lost = past.lost
    BY <1>1, <1>5 DEF TakeIn, Histories
  <2> HIDE DEF m
  <2> QED
    BY <2>1, <2>2, <2>3, <2>4, SameVolumes
<1>6. CASE Reopen
  <2>1. Unread' = {}
    BY <1>6, ReopenUnread
  <2>2. seen' = dev.volume /\ dev'.volume = dev.volume /\ past'.lost = past.lost
    BY <1>1, <1>6 DEF Reopen, Devices, Histories
  <2> QED
    BY <1>1, <2>1, <2>2 DEF Volumes
<1>7. CASE TellListings
  <2> DEFINE a == Listing(Captures, NoListings, 0)
             b == Listing(Setlist, dev.files, past.version)
  <2>1. a \in Messages /\ a.volume = 0 /\ b \in Messages /\ b.volume = 0
    BY <1>1, ListingType, NoListingsType DEF Devices, Histories
  <2>2. /\ wire' = wire \o <<a, b>> /\ worker' = worker /\ seen' = seen /\ dev' = dev
        /\ past' = past
    BY <1>7 DEF TellListings, hostVars
  <2> HIDE DEF a, b
  <2>3. <<a, b>> \in Seq(Messages) /\ Range(<<a, b>>) = {a, b}
    <3>1. <<a, b>> \in Seq(Messages) /\ DOMAIN <<a, b>> = 1 .. 2
          /\ <<a, b>>[1] = a /\ <<a, b>>[2] = b
      BY <2>1
    <3> QED
      BY <3>1 DEF Range
  <2>4. Unread' = Unread \cup {a, b}
    <3>1. Range(wire') = Range(wire) \cup {a, b}
      BY <1>1, <2>2, <2>3, JoinMessages
    <3> QED
      BY <2>2, <3>1 DEF Unread
  <2> QED
    BY <2>1, <2>2, <2>4, SameVolumes
<1>8. CASE StorePreset
  <2> DEFINE m == Stored(Head(toDevice).of)
  <2>1. m \in Messages /\ m.volume = 0
    BY <1>8, CommandTaken, StoredType DEF StorePreset
  <2>2. /\ wire' = Append(wire, m) /\ worker' = worker /\ seen' = seen
        /\ dev'.volume = dev.volume /\ past'.lost = past.lost
    BY <1>1, <1>8 DEF StorePreset, hostVars, Devices, Histories
  <2> HIDE DEF m
  <2>3. Unread' = Unread \cup {m}
    BY <1>1, <2>1, <2>2, AddMessage DEF Unread
  <2> QED
    BY <2>1, <2>2, <2>3, SameVolumes
<1> QED
  BY <1>2, <1>3, <1>4, <1>5, <1>6, <1>7, <1>8, ToldVolumes, HeardVolumes, LostVolumes
     DEF TransfersNext, CallStep, AnswerStep

-----------------------------------------------------------------------------
(***************************************************************************)
(* The library                                                             *)
(***************************************************************************)
LEMMA SameSave ==
    ASSUME SaveIsLast, toDevice' = toDevice, inbox' = inbox,
           call'.kind = "save" =>
               call.kind = "save" /\ call'.of = call.of /\ call'.position = call.position
    PROVE  SaveIsLast'
BY DEF SaveIsLast

(* The device takes a command.                                             *)
LEMMA TakenSave ==
    ASSUME Typed, SaveIsLast, NEW op, Taking(op), inbox' = inbox, call' = call
    PROVE  SaveIsLast'
<1>1. toDevice \in Seq(Commands) /\ toDevice # <<>> /\ toDevice' = Tail(toDevice)
  BY DEF Typed, Taking
<1>2. /\ Len(toDevice) \in Nat /\ Len(toDevice) >= 1 /\ Len(toDevice') = Len(toDevice) - 1
      /\ \A i \in 1 .. Len(toDevice') : toDevice'[i] = toDevice[i + 1]
  BY <1>1, TakeCommand
<1>3. ASSUME call.kind = "save", NEW i \in 1 .. Len(toDevice'), toDevice'[i].of = call.of
      PROVE  i = Len(toDevice') /\ toDevice'[i].position = call.position /\ inbox = <<>>
  <2>1. i + 1 \in 1 .. Len(toDevice) /\ toDevice'[i] = toDevice[i + 1]
    BY <1>2
  <2>2. i + 1 = Len(toDevice) /\ toDevice[i + 1].position = call.position /\ inbox = <<>>
    BY <1>3, <2>1 DEF SaveIsLast
  <2> QED
    BY <1>2, <2>1, <2>2
<1> QED
  BY <1>3 DEF SaveIsLast

(* The worker takes a command and sends it.                                *)
LEMMA SentSave ==
    ASSUME Typed, SaveIsLast, TakeSend \/ TakeBackup
    PROVE  SaveIsLast'
<1> DEFINE c == Head(inbox)
<1>1. /\ inbox \in Seq(Commands) /\ inbox # <<>> /\ inbox' = Tail(inbox)
      /\ toDevice \in Seq(Commands) /\ toDevice' = Append(toDevice, c)
      /\ call'.kind = call.kind /\ call'.of = call.of /\ call'.position = call.position
  BY DEF Typed, Calls, TakeSend, TakeBackup
<1>2. /\ c \in Commands /\ c = inbox[1] /\ Len(inbox) \in Nat /\ Len(inbox) >= 1
      /\ inbox' \in Seq(Commands) /\ Len(inbox') = Len(inbox) - 1
      /\ \A i \in 1 .. Len(inbox') : inbox'[i] = inbox[i + 1]
  BY <1>1, TakeCommand
<1> HIDE DEF c
<1>3. /\ Len(toDevice) \in Nat /\ Len(toDevice') = Len(toDevice) + 1
      /\ toDevice'[Len(toDevice) + 1] = c
      /\ \A i \in 1 .. Len(toDevice) : toDevice'[i] = toDevice[i]
  BY <1>1, <1>2, AddCommand
<1>4. ASSUME call.kind = "save", NEW i \in 1 .. Len(inbox'), inbox'[i].of = call.of
      PROVE  i = Len(inbox') /\ inbox'[i].position = call.position
  <2>1. i + 1 \in 1 .. Len(inbox) /\ inbox'[i] = inbox[i + 1]
    BY <1>2
  <2>2. i + 1 = Len(inbox) /\ inbox[i + 1].position = call.position
    BY <1>4, <2>1 DEF SaveIsLast
  <2> QED
    BY <1>2, <2>1, <2>2
<1>5. ASSUME call.kind = "save", NEW i \in 1 .. Len(toDevice'), toDevice'[i].of = call.of
      PROVE  i = Len(toDevice') /\ toDevice'[i].position = call.position /\ inbox' = <<>>
  <2>1. i \in 1 .. Len(toDevice) \/ i = Len(toDevice) + 1
    BY <1>3
  <2>2. CASE i \in 1 .. Len(toDevice)
    <3>1. inbox = <<>>
      BY <1>3, <1>5, <2>2 DEF SaveIsLast
    <3> QED
      BY <1>1, <3>1
  <2>3. CASE i = Len(toDevice) + 1
    <3>1. 1 \in 1 .. Len(inbox) /\ inbox[1].of = call.of
      BY <1>2, <1>3, <1>5, <2>3
    <3>2. 1 = Len(inbox) /\ c.position = call.position
      BY <1>2, <1>5, <3>1 DEF SaveIsLast
    <3>3. Len(inbox') = 0
      <4>1. Len(inbox') = 1 - 1
        BY ONLY <1>2, <3>2
      <4> QED
        BY ONLY <4>1
    <3> QED
      BY <1>2, <1>3, <2>3, <3>2, <3>3, EmptySeq
  <2> QED
    BY <2>1, <2>2, <2>3
<1> QED
  BY <1>1, <1>4, <1>5 DEF SaveIsLast

LEMMA SameLibrary ==
    ASSUME Library, dev'.files = dev.files, library' = library,
           past'.version = past.version, past'.offered = past.offered, past'.saved = past.saved,
           Listings' \subseteq Listings, SaveIsLast',
           SaveIsStored' => /\ SaveIsStored /\ call'.position = call.position
                            /\ toDevice' = <<>> /\ inbox' = <<>>
    PROVE  Library'
<1>1. ListingsAreTrue' /\ LibraryIsTrue'
  BY DEF Library, ListingsAreTrue, LibraryIsTrue
<1>2. StoredIsLast'
  BY DEF Library, StoredIsLast
<1>3. LastSave'
  <2> SUFFICES ASSUME past'.saved = past'.version
               PROVE  \E p \in Positions : SavedAt(p)'
    BY DEF LastSave
  <2>1. PICK p \in Positions : SavedAt(p)
    BY DEF Library, LastSave
  <2>2. SavedAt(p)'
    BY <2>1 DEF SavedAt
  <2> QED
    BY <2>2
<1> QED
  BY <1>1, <1>2, <1>3 DEF Library

(* Steps that take nothing of the library in and tell nothing of it.       *)
LEMMA FewerUnread ==
    ASSUME Unread' \subseteq Unread
    PROVE  /\ Listings' \subseteq Listings
           /\ \A m \in Unread' : m.kind = "stored" => m \in Unread
BY DEF Listings

LEMMA QuietLibrary ==
    ASSUME Typed, Flow, Library, call' = call, inbox' = inbox, library' = library,
           dev'.files = dev.files,
           past'.version = past.version, past'.offered = past.offered, past'.saved = past.saved,
           toDevice' = toDevice \/ \E op : Taking(op),
           \A m \in Unread' : m \in Unread \/ (m.kind # "stored" /\ m.key # Setlist)
    PROVE  Library'
<1>1. Listings' \subseteq Listings
  BY DEF Listings
<1>2. SaveIsLast'
  BY SameSave, TakenSave DEF Library
<1>3. SaveIsStored' => SaveIsStored
  BY DEF SaveIsStored
<1>4. SaveIsStored => toDevice' = <<>> /\ inbox' = <<>>
  BY DEF Library, StoredIsLast, Taking
<1> QED
  BY <1>1, <1>2, <1>3, <1>4, SameLibrary

(* The device tells its listings.                                          *)
LEMMA TellLibrary ==
    ASSUME Typed, Flow, Library, TellListings
    PROVE  Library'
<1> DEFINE a == Listing(Captures, NoListings, 0)
           b == Listing(Setlist, dev.files, past.version)
<1>1. /\ a \in Messages /\ a.kind = "list" /\ a.key = Captures
      /\ b \in Messages /\ b.kind = "list" /\ b.key = Setlist
      /\ b.files = dev.files /\ b.version = past.version
  BY ListingType, NoListingsType DEF Typed, Devices, Histories
<1>2. /\ wire' = wire \o <<a, b>> /\ wire \in Seq(Messages) /\ Taking("list")
      /\ dev' = dev /\ past' = past /\ worker' = worker /\ library' = library
      /\ call' = call /\ inbox' = inbox
  BY DEF TellListings, hostVars, Typed
<1> HIDE DEF a, b
<1>3. <<a, b>> \in Seq(Messages) /\ Range(<<a, b>>) = {a, b}
  <2>1. <<a, b>> \in Seq(Messages) /\ DOMAIN <<a, b>> = 1 .. 2
        /\ <<a, b>>[1] = a /\ <<a, b>>[2] = b
    BY <1>1
  <2> QED
    BY <2>1 DEF Range
<1>4. Range(wire') = Range(wire) \cup {a, b}
  BY <1>2, <1>3, JoinMessages
<1>5. Unread' = Unread \cup {a, b}
  BY <1>2, <1>4 DEF Unread
<1>6. \A m \in Listings' : m \in Listings \/ m = b
  BY <1>1, <1>5, TransfersAssumption DEF Listings
<1>7. ~SaveIsStored /\ ~SaveIsStored'
  <2>1. ~SaveIsStored
    BY <1>2 DEF Library, StoredIsLast, Taking
  <2> QED
    BY <1>1, <1>2, <1>5, <2>1 DEF SaveIsStored
<1>8. past.version \in Nat /\ past.version \in 1 .. past.version /\ past.version # past.version - 1
  BY DEF Typed, Histories
<1>9. ListingsAreTrue' /\ LibraryIsTrue'
  BY <1>1, <1>2, <1>6, <1>8 DEF Library, ListingsAreTrue, LibraryIsTrue
<1>10. SaveIsLast'
  BY <1>2, TakenSave DEF Library
<1>11. StoredIsLast'
  BY <1>7 DEF StoredIsLast
<1>12. LastSave'
  <2> SUFFICES ASSUME past.saved = past.version
               PROVE  \E p \in Positions : SavedAt(p)'
    BY <1>2 DEF LastSave
  <2>1. PICK p \in Positions : SavedAt(p)
    BY DEF Library, LastSave
  <2>2. SavedAt(p)'
    BY <1>1, <1>2, <1>6, <1>7, <1>8, <2>1 DEF SavedAt
  <2> QED
    BY <2>2
<1> QED
  BY <1>9, <1>10, <1>11, <1>12 DEF Library

(* The device stores a preset.                                             *)
LEMMA StoreLibrary ==
    ASSUME Typed, Flow, Library, StorePreset
    PROVE  Library'
<1> DEFINE c == Head(toDevice)
           m == Stored(c.of)
           v == past.version
<1>1. /\ c \in Commands /\ c.op = "save" /\ c.of \in 1 .. MaxCalls /\ c \in Asked
      /\ c.position \in Positions
  <2>1. Taking("save")
    BY DEF StorePreset
  <2>2. c \in Commands /\ c.op = "save" /\ c.of \in 1 .. MaxCalls /\ c \in Asked
    BY <2>1, CommandTaken DEF Asked
  <2> QED
    BY <2>2 DEF Flow, AskedInOrder
<1>2. /\ Taking("save") /\ wire' = Append(wire, m) /\ wire \in Seq(Messages)
      /\ dev'.files = Insert(dev.files, c.position, BySave)
      /\ past'.version = v + 1 /\ past'.saved = v + 1 /\ past'.offered = past.offered
      /\ worker' = worker /\ library' = library /\ call' = call /\ inbox' = inbox
      /\ v \in Nat /\ v >= 1 /\ past.offered \in Nat
      /\ toDevice \in Seq(Commands) /\ toDevice # <<>> /\ toDevice' = Tail(toDevice)
  BY DEF StorePreset, hostVars, Typed, Devices, Histories, Taking
<1>3. m \in Messages /\ m.kind = "stored" /\ m.key = NoKey /\ m.of = c.of
  BY <1>1, StoredType
<1> HIDE DEF m, v
<1>4. Unread' = Unread \cup {m}
  BY <1>2, <1>3, AddMessage DEF Unread
<1>5. Listings' = Listings
  BY <1>3, <1>4, TransfersAssumption DEF Listings
<1>6. /\ \A e \in Listings : e.version \in Nat /\ e.version >= 1 /\ e.version <= v
      /\ \A e \in Listings : e.version = v => e.files = dev.files
      /\ past.offered <= v
  BY <1>2 DEF Library, ListingsAreTrue, v
<1>7. ListingsAreTrue'
  BY <1>2, <1>5, <1>6 DEF ListingsAreTrue
<1>8. LibraryIsTrue'
  <2>1. past'.offered # past'.version
    BY <1>2, <1>6
  <2> QED
    BY <2>1 DEF LibraryIsTrue
<1>9. SaveIsLast'
  BY <1>2, TakenSave DEF Library
<1>10. ~SaveIsStored
  BY <1>2 DEF Library, StoredIsLast
<1>11. SaveIsStored' => call.kind = "save" /\ c.of = call.of
  BY <1>2, <1>3, <1>4, <1>10 DEF SaveIsStored
<1>12. SaveIsStored' => /\ toDevice' = <<>> /\ inbox = <<>> /\ c.position = call.position
  <2> SUFFICES ASSUME SaveIsStored'
               PROVE  toDevice' = <<>> /\ inbox = <<>> /\ c.position = call.position
    OBVIOUS
  <2>1. /\ Len(toDevice) \in Nat /\ Len(toDevice) >= 1 /\ c = toDevice[1]
        /\ Len(toDevice') = Len(toDevice) - 1 /\ toDevice' \in Seq(Commands)
    BY <1>2, TakeCommand
  <2>2. 1 \in 1 .. Len(toDevice) /\ toDevice[1].of = call.of
    BY <1>11, <2>1
  <2>3. 1 = Len(toDevice) /\ toDevice[1].position = call.position /\ inbox = <<>>
    BY <1>11, <2>2 DEF Library, SaveIsLast
  <2>4. Len(toDevice') = 0
    <3>1. Len(toDevice') = 1 - 1
      BY ONLY <2>1, <2>3
    <3> QED
      BY ONLY <3>1
  <2> QED
    BY <2>1, <2>3, <2>4, EmptySeq
<1>13. StoredIsLast'
  <2>1. \A e \in Listings' : e.version <= past'.saved
    BY <1>2, <1>5, <1>6
  <2>2. past'.offered <= past'.saved
    BY <1>2, <1>6
  <2> QED
    BY <1>2, <1>12, <2>1, <2>2 DEF StoredIsLast
<1>14. LastSave'
  <2> SUFFICES \E p \in Positions : SavedAt(p)'
    BY DEF LastSave
  <2>1. past'.saved - 1 = v
    BY <1>2
  <2>2. PICK p \in Positions : p = c.position
    BY <1>1
  <2>3. dev'.files = Insert(dev.files, p, BySave)
    BY <1>2, <2>2
  <2>4. p \in DOMAIN dev'.files /\ dev'.files[p] = BySave
    BY <2>3 DEF Insert
  <2>5. \A e \in Listings' : e.version = past'.saved - 1 =>
            dev'.files = Insert(e.files, p, BySave)
    BY <1>5, <1>6, <2>1, <2>3
  <2>6. past'.offered = past'.saved - 1 /\ Setlist \in DOMAIN library' =>
            dev'.files = Insert(library'[Setlist], p, BySave)
    BY <1>2, <2>1, <2>3 DEF Library, LibraryIsTrue, v
  <2>7. SaveIsStored' => call'.position = p
    BY <1>2, <1>12, <2>2
  <2>8. SavedAt(p)'
    BY <2>4, <2>5, <2>6, <2>7 DEF SavedAt
  <2> QED
    BY <2>8
<1> QED
  BY <1>7, <1>8, <1>9, <1>13, <1>14 DEF Library

(* The user changes the setlist at the device.                             *)
LEMMA TouchLibrary ==
    ASSUME Typed, Flow, Library, TouchPresets
    PROVE  Library'
<1>1. /\ toDevice' = toDevice /\ inbox' = inbox /\ call' = call /\ library' = library
      /\ past'.version = past.version + 1 /\ past'.saved = past.saved
      /\ past'.offered = past.offered
      /\ past.version \in Nat /\ past.saved \in Nat /\ past.offered \in Nat
  BY DEF TouchPresets, hostVars, Typed, Histories
<1>2. Unread' = Unread /\ Listings' = Listings
  BY SameUnread DEF Listings
<1>3. past.offered <= past.version /\ past.saved <= past.version /\ past.saved # 1
  BY DEF Library, ListingsAreTrue
<1>4. \A m \in Listings : m.version \in 1 .. past.version
  BY DEF Library, ListingsAreTrue
<1>5. /\ \A m \in Listings : m.version \in 1 .. past'.version
      /\ \A m \in Listings : m.version # past'.version
      /\ past'.offered <= past'.version /\ past'.offered # past'.version
      /\ past'.saved <= past'.version /\ past'.saved # past'.version
  BY <1>1, <1>3, <1>4
<1>6. ListingsAreTrue' /\ LibraryIsTrue' /\ LastSave'
  BY <1>1, <1>2, <1>3, <1>5 DEF ListingsAreTrue, LibraryIsTrue, LastSave
<1>7. SaveIsLast'
  BY <1>1, SameSave DEF Library
<1>8. StoredIsLast'
  BY <1>1, <1>2 DEF Library, StoredIsLast, SaveIsStored
<1> QED
  BY <1>6, <1>7, <1>8 DEF Library

(* The library takes a directory in.                                       *)
LEMMA TakeInLibrary ==
    ASSUME Typed, Flow, Library, TakeIn
    PROVE  Library'
<1> DEFINE m == Head(worker.todo)
<1>1. /\ m \in Messages /\ m \in Unread /\ m.kind = "list" /\ Unread' \subseteq Unread
      /\ m.key \in {Setlist, Captures} /\ m.key # NoKey /\ m.files \in Files /\ m.version \in Nat
  BY TakeInUnread, MessageFields
<1>2. PICK l \in Decoded(m) :
          /\ library' = Ingest(library, l.key, l.files)
          /\ past' = IF l.key # Setlist THEN past
                     ELSE [past EXCEPT !.offered =
                             IF Setlist \in DOMAIN library
                                /\ Size(l.files) < Size(library[Setlist])
                             THEN 0 ELSE m.version]
  BY DEF TakeIn
<1>3. l.key = m.key /\ l.files = m.files
  <2>1. l = [key |-> m.key, files |-> Restrict(m.files, DOMAIN m.files \cap Positions)]
    BY <1>1 DEF Decoded
  <2>2. Restrict(m.files, DOMAIN m.files \cap Positions) = m.files
    BY <1>1, RestrictType
  <2> QED
    BY <2>1, <2>2
<1>4. /\ dev' = dev /\ toDevice' = toDevice /\ inbox' = inbox /\ call' = call
      /\ past'.version = past.version /\ past'.saved = past.saved
      /\ past.version \in Nat /\ past.version >= 1 /\ past.saved \in Nat
  BY <1>2 DEF TakeIn, deviceVars, Typed, Histories
<1> HIDE DEF m
<1>5. Listings' \subseteq Listings
  BY <1>1 DEF Listings
<1>6. SaveIsLast'
  BY <1>4, SameSave DEF Library
<1>7. SaveIsStored' => SaveIsStored
  BY <1>1, <1>4 DEF SaveIsStored
<1>8. CASE m.key # Setlist
  <2>1. past' = past
    BY <1>2, <1>3, <1>8
  <2>2. /\ Setlist \in DOMAIN library' <=> Setlist \in DOMAIN library
        /\ Setlist \in DOMAIN library => library'[Setlist] = library[Setlist]
    BY <1>2, <1>3, <1>8 DEF Ingest, Insert
  <2>3. ListingsAreTrue' /\ LibraryIsTrue' /\ StoredIsLast'
    BY <1>4, <1>5, <1>7, <2>1, <2>2 DEF Library, ListingsAreTrue, LibraryIsTrue, StoredIsLast
  <2>4. LastSave'
    <3> SUFFICES ASSUME past.saved = past.version
                 PROVE  \E p \in Positions : SavedAt(p)'
      BY <2>1 DEF LastSave
    <3>1. PICK p \in Positions : SavedAt(p)
      BY DEF Library, LastSave
    <3>2. SavedAt(p)'
      BY <1>4, <1>5, <1>7, <2>1, <2>2, <3>1 DEF SavedAt
    <3> QED
      BY <3>2
  <2> QED
    BY <1>6, <2>3, <2>4 DEF Library
<1>9. CASE m.key = Setlist
  <2>1. m \in Listings
    BY <1>1, <1>9 DEF Listings
  <2>2. /\ m.version \in 1 .. past.version
        /\ m.version = past.version => m.files = dev.files
        /\ past.saved <= past.version /\ past.saved # 1
    BY <2>1 DEF Library, ListingsAreTrue
  <2>3. \/ past'.offered = 0
        \/ /\ past'.offered = m.version
           /\ Setlist \in DOMAIN library' /\ library'[Setlist] = m.files
    <3>1. CASE Setlist \in DOMAIN library /\ Size(m.files) < Size(library[Setlist])
      BY <1>2, <1>3, <1>9, <3>1 DEF Typed, Histories
    <3>2. CASE ~(Setlist \in DOMAIN library /\ Size(m.files) < Size(library[Setlist]))
      <4>1. past'.offered = m.version
        BY <1>2, <1>3, <1>9, <3>2 DEF Typed, Histories
      <4>2. library' = Insert(library, Setlist, m.files)
        BY <1>2, <1>3, <1>9, <3>2 DEF Ingest
      <4> QED
        BY <4>1, <4>2 DEF Insert
    <3> QED
      BY <3>1, <3>2
  <2>4. past'.offered \in Nat /\ past'.offered <= past'.version
    BY <1>1, <1>4, <2>2, <2>3
  <2>5. ListingsAreTrue'
    BY <1>4, <1>5, <2>2, <2>4 DEF Library, ListingsAreTrue
  <2>6. LibraryIsTrue'
    BY <1>4, <2>2, <2>3 DEF LibraryIsTrue
  <2>7. StoredIsLast'
    <3>1. SaveIsStored => past'.offered <= past.saved
      BY <1>4, <2>1, <2>3 DEF Library, StoredIsLast
    <3> QED
      BY <1>4, <1>5, <1>7, <3>1 DEF Library, StoredIsLast
  <2>8. LastSave'
    <3> SUFFICES ASSUME past.saved = past.version
                 PROVE  \E p \in Positions : SavedAt(p)'
      BY <1>4 DEF LastSave
    <3>1. PICK p \in Positions : SavedAt(p)
      BY DEF Library, LastSave
    <3>2. past'.offered = past'.saved - 1 => past'.offered # 0
      BY <1>4, <2>2
    <3>3. past'.offered = past'.saved - 1 => dev.files = Insert(library'[Setlist], p, BySave)
      BY <1>4, <2>1, <2>3, <3>1, <3>2 DEF SavedAt
    <3>4. SavedAt(p)'
      BY <1>4, <1>5, <1>7, <3>1, <3>3 DEF SavedAt
    <3> QED
      BY <3>4
  <2> QED
    BY <1>6, <2>5, <2>6, <2>7, <2>8 DEF Library
<1> QED
  BY <1>8, <1>9

(* The session is opened anew.                                             *)
LEMMA ReopenLibrary ==
    ASSUME Typed, Flow, Library, Reopen
    PROVE  Library'
<1>1. /\ toDevice' = <<>> /\ inbox' = inbox /\ call' = call /\ library' = NoListings
      /\ dev'.files = dev.files
      /\ past'.version = past.version /\ past'.saved = past.saved /\ past'.offered = 0
      /\ past.version \in Nat /\ past.version >= 1 /\ past.saved \in Nat
  BY DEF Reopen, Typed, Devices, Histories
<1>2. Listings' = {} /\ Unread' = {}
  BY ReopenUnread DEF Listings
<1>3. Setlist \notin DOMAIN library'
  BY <1>1, NoListingsType
<1>4. past.saved <= past.version /\ past.saved # 1
  BY DEF Library, ListingsAreTrue
<1>5. ListingsAreTrue' /\ LibraryIsTrue'
  BY <1>1, <1>2, <1>3, <1>4 DEF ListingsAreTrue, LibraryIsTrue
<1>6. SaveIsLast'
  BY <1>1, NoCommand DEF Library, SaveIsLast
<1>7. SaveIsStored' => SaveIsStored
  BY <1>1, <1>2 DEF SaveIsStored
<1>8. StoredIsLast'
  BY <1>1, <1>2, <1>7 DEF Library, StoredIsLast
<1>9. LastSave'
  <2> SUFFICES ASSUME past.saved = past.version
               PROVE  \E p \in Positions : SavedAt(p)'
    BY <1>1 DEF LastSave
  <2>1. PICK p \in Positions : SavedAt(p)
    BY DEF Library, LastSave
  <2>2. SavedAt(p)'
    BY <1>1, <1>2, <1>3, <1>7, <2>1 DEF SavedAt
  <2> QED
    BY <2>2
<1> QED
  BY <1>5, <1>6, <1>8, <1>9 DEF Library

(* A save is recorded.                                                     *)
LEMMA RecordLibrary ==
    ASSUME Typed, Flow, Library, RecordSave
    PROVE  Library'
<1>1. /\ call.kind = "save" /\ call.heard /\ call' = NoCall
      /\ library' = RecordSaved(library, Setlist, call.position, BySave)
      /\ dev' = dev /\ toDevice' = toDevice /\ inbox' = inbox /\ wire' = wire /\ worker' = worker
      /\ past'.version = past.version /\ past'.saved = past.saved
      /\ past'.offered = IF past.offered = past.saved - 1 THEN past.saved ELSE past.offered
      /\ past.version \in Nat /\ past.saved \in Nat /\ past.offered \in Nat
      /\ dev.files \in Files
  BY DEF RecordSave, Answer, deviceVars, Typed, Devices, Histories
<1>2. SaveIsStored /\ ~SaveIsStored'
  BY <1>1, NoCallShape DEF SaveIsStored
<1>3. Unread' = Unread /\ Listings' = Listings
  BY <1>1 DEF Unread, Listings
<1>4. past.offered <= past.saved /\ past.saved <= past.version
  BY <1>2 DEF Library, StoredIsLast, ListingsAreTrue
<1>5. ListingsAreTrue'
  BY <1>1, <1>3, <1>4 DEF Library, ListingsAreTrue
<1>6. LibraryIsTrue'
  <2> SUFFICES ASSUME Setlist \in DOMAIN library', past'.offered = past'.version
               PROVE  library'[Setlist] = dev'.files
    BY DEF LibraryIsTrue
  <2>1. /\ Setlist \in DOMAIN library
        /\ library'[Setlist] = Insert(library[Setlist], call.position, BySave)
    BY <1>1 DEF RecordSaved
  <2>2. past.saved = past.version
    BY <1>1, <1>4
  <2>3. PICK p \in Positions : SavedAt(p)
    BY <2>2 DEF Library, LastSave
  <2>4. p = call.position /\ p \in DOMAIN dev.files /\ dev.files[p] = BySave
    BY <1>2, <2>3 DEF SavedAt
  <2>5. CASE past.offered = past.saved - 1
    BY <1>1, <2>1, <2>3, <2>4, <2>5 DEF SavedAt
  <2>6. CASE past.offered # past.saved - 1
    <3>1. library[Setlist] = dev.files
      BY <1>1, <2>1, <2>6 DEF Library, LibraryIsTrue
    <3>2. Insert(dev.files, p, BySave) = dev.files
      <4>1. DOMAIN dev.files \cup {p} = DOMAIN dev.files
        BY <2>4
      <4>2. dev.files = [k \in DOMAIN dev.files |-> dev.files[k]]
        BY <1>1, FilesAreFunctions
      <4>3. Insert(dev.files, p, BySave) = [k \in DOMAIN dev.files |-> dev.files[k]]
        BY <2>4, <4>1 DEF Insert
      <4> QED
        BY <4>2, <4>3
    <3> QED
      BY <1>1, <2>1, <2>4, <3>1, <3>2
  <2> QED
    BY <2>5, <2>6
<1>7. SaveIsLast' /\ StoredIsLast'
  BY <1>1, <1>2, NoCallShape DEF SaveIsLast, StoredIsLast
<1>8. LastSave'
  <2> SUFFICES ASSUME past.saved = past.version
               PROVE  \E p \in Positions : SavedAt(p)'
    BY <1>1 DEF LastSave
  <2>1. PICK p \in Positions : SavedAt(p)
    BY DEF Library, LastSave
  <2>2. past'.offered # past'.saved - 1
    BY <1>1
  <2>3. SavedAt(p)'
    BY <1>1, <1>2, <1>3, <2>1, <2>2 DEF SavedAt
  <2> QED
    BY <2>3
<1> QED
  BY <1>5, <1>6, <1>7, <1>8 DEF Library

(* The call begins, goes on or ends, and nothing else.                     *)
LEMMA CallLibrary ==
    ASSUME Typed, Flow, CallShape, Library,
           CallStep \/ AnswerStep \/ Resynchronize, ~RecordSave
    PROVE  Library'
<1>1. call \in Calls /\ inbox \in Seq(Commands) /\ toDevice \in Seq(Commands)
  BY DEF Typed
<1>2. Listings' = Listings /\ Unread' = Unread
  BY SameUnread DEF Listings
<1>3. CASE CallStep
  <2>1. PICK kind \in {"backup", "folders", "presets", "slots", "save"},
             at \in {"asking", "sending"}, op \in {"backup", "list", "save"}, position \in Nat :
            Begin(kind, at, op, position)
    BY <1>3, CallBegins
  <2> DEFINE n == counts.calls + 1
             c == Command(op, n, position)
  <2>2. /\ call'.kind = kind /\ call'.of = n /\ call'.position = position /\ call'.heard = FALSE
        /\ toDevice' = toDevice /\ inbox' = Append(inbox, c)
        /\ dev' = dev /\ library' = library /\ past' = past
    BY <2>1 DEF Begin, deviceVars, workerVars, NoCall
  <2>3. n \in 1 .. MaxCalls
    <3>1. counts.calls < MaxCalls /\ counts.calls \in Nat
      BY <2>1, TransfersAssumption DEF Begin, Typed
    <3> QED
      BY <3>1, TransfersAssumption
  <2>4. c \in Commands /\ c.of = n /\ c.position = position
    BY <2>3 DEF Command, Commands
  <2>5. counts.calls \in Nat /\ counts.calls # n /\ ~(n <= counts.calls)
    BY TransfersAssumption DEF Typed
  <2> HIDE DEF c, n
  <2>6. \A e \in Asked : e.of # n
    BY <2>5 DEF Flow, AskedInOrder
  <2>7. \A m \in Unread : m.of # n
    BY <2>5 DEF Flow, AskedInOrder
  <2>8. SaveIsLast'
    <3>1. /\ Len(inbox) \in Nat /\ Len(inbox') = Len(inbox) + 1 /\ inbox'[Len(inbox) + 1] = c
          /\ \A i \in 1 .. Len(inbox) : inbox'[i] = inbox[i] /\ inbox[i] \in Range(inbox)
      BY <1>1, <2>2, <2>4, AddCommand, ElementsOf
    <3>2. \A i \in 1 .. Len(inbox') : inbox'[i].of = n => i = Len(inbox')
      <4> SUFFICES ASSUME NEW i \in 1 .. Len(inbox'), i # Len(inbox')
                   PROVE  inbox'[i].of # n
        OBVIOUS
      <4>1. i \in 1 .. Len(inbox)
        BY <3>1
      <4> QED
        BY <2>6, <3>1, <4>1 DEF Asked
    <3>3. \A i \in 1 .. Len(toDevice) : toDevice[i].of # n
      BY <1>1, <2>6, ElementsOf DEF Asked
    <3> QED
      BY <2>2, <2>4, <3>1, <3>2, <3>3 DEF SaveIsLast
  <2>9. ~SaveIsStored'
    BY <1>2, <2>2, <2>7 DEF SaveIsStored
  <2> QED
    BY <1>2, <2>2, <2>8, <2>9, SameLibrary
<1>4. CASE Resynchronize
  <2>1. /\ call'.kind = "backup" /\ dev' = dev /\ library' = library /\ past' = past
    BY <1>1, <1>4 DEF Resynchronize, CallShape, deviceVars, workerVars, Calls
  <2>2. SaveIsLast' /\ ~SaveIsStored'
    BY <2>1 DEF SaveIsLast, SaveIsStored
  <2> QED
    BY <1>2, <2>1, <2>2, SameLibrary
<1>5. CASE AnswerStep
  <2>1. /\ toDevice' = toDevice /\ inbox' = inbox /\ dev' = dev /\ library' = library
        /\ past' = past
    BY <1>5 DEF AnswerStep, AnswerListing, Subscribe, Look, WakeUp, DeadlinePassed, WaitEnds,
       Resynchronized,
       GiveUp, deviceVars, workerVars
  <2>2. call' = NoCall \/ (/\ call'.kind = call.kind /\ call'.of = call.of
                           /\ call'.position = call.position /\ (call'.heard => call.heard))
    BY <1>1, <1>5 DEF AnswerStep, AnswerListing, Subscribe, Look, WakeUp, DeadlinePassed,
       WaitEnds,
       Resynchronized, GiveUp, Answer, Calls
  <2>3. SaveIsLast'
    BY <2>1, <2>2, SameSave, NoCallShape DEF Library
  <2>4. SaveIsStored' => SaveIsStored /\ call'.position = call.position
    BY <1>2, <2>2, NoCallShape DEF SaveIsStored
  <2>5. SaveIsStored => toDevice = <<>> /\ inbox = <<>>
    BY DEF Library, StoredIsLast
  <2> QED
    BY <1>2, <2>1, <2>3, <2>4, <2>5, SameLibrary
<1> QED
  BY <1>3, <1>4, <1>5

LEMMA InitLibrary == TransfersInit => Library
<1> SUFFICES ASSUME TransfersInit PROVE Library
  OBVIOUS
<1>1. /\ wire = <<>> /\ worker = Idle /\ library = NoListings /\ call = NoCall
      /\ past.version = 1 /\ past.offered = 0 /\ past.saved = 0
  BY DEF TransfersInit
<1>2. Unread = {} /\ Listings = {}
  BY <1>1, IdleFields, NoMessage DEF Unread, Listings
<1>3. Setlist \notin DOMAIN library
  BY <1>1, NoListingsType
<1> QED
  BY <1>1, <1>2, <1>3, NoCallShape
     DEF Library, ListingsAreTrue, LibraryIsTrue, SaveIsLast, StoredIsLast, SaveIsStored, LastSave


(* The worker takes a command.                                             *)
LEMMA SendLibrary ==
    ASSUME Typed, Flow, Library, TakeSend \/ TakeBackup
    PROVE  Library'
<1>1. /\ dev' = dev /\ library' = library /\ past' = past /\ inbox # <<>>
      /\ call'.kind = call.kind /\ call'.of = call.of /\ call'.heard = call.heard
  BY DEF Typed, Calls, TakeSend, TakeBackup
<1>2. Unread' = Unread /\ Listings' = Listings
  BY SameUnread DEF Listings
<1>3. ~SaveIsStored
  BY <1>1 DEF Library, StoredIsLast
<1>4. ~SaveIsStored'
  BY <1>1, <1>2, <1>3 DEF SaveIsStored
<1> QED
  BY <1>1, <1>2, <1>4, SentSave, SameLibrary DEF Library

(* The subscribers hear of a message: a save only of its own being stored. *)
LEMMA HeardLibrary ==
    ASSUME Typed, Flow, CallShape, Library, Tell
    PROVE  Library'
<1> DEFINE m == Head(worker.todo)
<1>1. /\ worker \in Workers /\ worker.todo \in Seq(Messages) /\ worker.todo # <<>>
      /\ wire' = wire /\ dev' = dev /\ past' = past /\ library' = library
      /\ toDevice' = toDevice /\ inbox' = inbox
      /\ worker'.todo = Tail(worker.todo) \/ worker'.todo = worker.todo
  BY DEF Tell, Typed, Workers, Taken, deviceVars
<1>2. m \in Messages /\ Range(worker.todo) = {m} \cup Range(Tail(worker.todo))
  BY <1>1, TakeMessage
<1>3. /\ call'.kind = call.kind /\ call'.of = call.of /\ call'.position = call.position
      /\ call'.heard => call.heard \/ Hears(m)
  BY DEF Tell, Typed, Calls
<1>4. call.kind = "save" /\ Hears(m) => m.kind = "stored" /\ m.of = call.of
  BY <1>2 DEF Hears, CallShape, Messages
<1> HIDE DEF m
<1>5. m \in Unread /\ Unread' \subseteq Unread
  BY <1>1, <1>2 DEF Unread
<1>6. Listings' \subseteq Listings
  BY <1>5 DEF Listings
<1>7. SaveIsStored' => SaveIsStored
  BY <1>3, <1>4, <1>5 DEF SaveIsStored
<1>8. SaveIsStored => toDevice = <<>> /\ inbox = <<>>
  BY DEF Library, StoredIsLast
<1>9. SaveIsLast'
  BY <1>1, <1>3, SameSave DEF Library
<1> QED
  BY <1>1, <1>3, <1>6, <1>7, <1>8, <1>9, SameLibrary

(* A backup ends.                                                          *)
LEMMA BackupLibrary ==
    ASSUME Typed, Flow, Library, RefuseDocument \/ BackupReadFails \/ Stall \/ Deliver
    PROVE  Library'
<1>1. /\ worker' = Idle /\ dev' = dev /\ toDevice' = toDevice /\ inbox' = inbox
      /\ wire' = wire \/ RefuseDocument
  BY BackupDone
<1>2. Range(wire') \subseteq Range(wire)
  BY <1>1, ChunkRead DEF RefuseDocument
<1>3. Unread' \subseteq Unread /\ Listings' \subseteq Listings
  BY <1>1, <1>2, IdleFields DEF Unread, Listings
<1>4. /\ library' = library /\ past'.version = past.version /\ past'.offered = past.offered
      /\ past'.saved = past.saved
  BY DEF Typed, Histories, RefuseDocument, BackupReadFails, Stall, Deliver, FailBackup, deviceVars
<1>5. call' = NoCall \/ (/\ call'.kind = call.kind /\ call'.of = call.of
                         /\ call'.position = call.position /\ call'.heard = call.heard)
  BY DEF Typed, Calls, RefuseDocument, BackupReadFails, Stall, Deliver, FailBackup, Answer
<1>6. SaveIsLast'
  BY <1>1, <1>5, SameSave, NoCallShape DEF Library
<1>7. SaveIsStored' => SaveIsStored /\ call'.position = call.position
  BY <1>3, <1>5, NoCallShape DEF SaveIsStored
<1>8. SaveIsStored => toDevice = <<>> /\ inbox = <<>>
  BY DEF Library, StoredIsLast
<1> QED
  BY <1>1, <1>3, <1>4, <1>6, <1>7, <1>8, SameLibrary

LEMMA LibraryStep == Typed /\ Flow /\ CallShape /\ Library /\ TransfersNext => Library'
<1> SUFFICES ASSUME Typed, Flow, CallShape, Library, TransfersNext
             PROVE  Library'
  OBVIOUS
<1>1. /\ dev \in Devices /\ past \in Histories /\ wire \in Seq(Messages)
  BY DEF Typed
<1>2. CASE StartBackup \/ SendChunk \/ TellVolume \/ TouchVolume \/ DropReport \/ ReadFails
           \/ Read \/ SetAside \/ Collect \/ CompleteDocument
  <2>1. /\ call' = call /\ inbox' = inbox /\ library' = library /\ dev'.files = dev.files
        /\ past'.version = past.version /\ past'.offered = past.offered
        /\ past'.saved = past.saved
    BY <1>1, <1>2 DEF StartBackup, SendChunk, TellVolume, TouchVolume, DropReport, ReadFails,
       Read, SetAside, Collect, CompleteDocument, hostVars, Devices, Histories
  <2>2. toDevice' = toDevice \/ \E op : Taking(op)
    BY <1>2 DEF StartBackup, SendChunk, TellVolume, TouchVolume, DropReport, ReadFails,
       Read, SetAside, Collect, CompleteDocument
  <2>3. \A m \in Unread' : m \in Unread \/ (m.kind # "stored" /\ m.key # Setlist)
    <3>1. CASE StartBackup \/ ReadFails \/ Read \/ SetAside
      BY <3>1, SameUnread, ReadUnread
    <3>2. CASE SendChunk
      <4>1. PICK m \in Messages : m.part # 0 /\ Unread' = Unread \cup {m}
        BY <3>2, SentUnread
      <4>2. m.kind = "chunk" /\ m.key = NoKey
        BY <4>1 DEF Messages
      <4> QED
        BY <4>1, <4>2, TransfersAssumption
    <3>3. CASE TellVolume \/ TouchVolume
      <4>1. PICK v \in Nat \ {0} : wire' = Append(wire, Volume(v)) /\ worker' = worker
        BY <1>1, <3>3 DEF TellVolume, TouchVolume, hostVars, Devices
      <4>2. Volume(v) \in Messages /\ Volume(v).kind = "volume"
        BY <4>1, VolumeType
      <4>3. Volume(v).key = NoKey
        BY <4>2 DEF Messages
      <4>4. Unread' = Unread \cup {Volume(v)}
        BY <1>1, <4>1, <4>2, AddMessage DEF Unread
      <4> QED
        BY <4>2, <4>3, <4>4, TransfersAssumption
    <3>4. CASE DropReport
      <4>1. wire # <<>> /\ wire' = Front(wire) /\ worker' = worker
        BY <3>4 DEF DropReport, hostVars
      <4>2. Range(wire) = Range(wire') \cup {Last(wire)}
        BY <1>1, <4>1, DropMessage
      <4> QED
        BY <4>1, <4>2 DEF Unread
    <3>5. CASE Collect \/ CompleteDocument
      BY <3>5, CollectUnread
    <3> QED
      BY <1>2, <3>1, <3>2, <3>3, <3>4, <3>5
  <2> QED
    BY <2>1, <2>2, <2>3, QuietLibrary
<1>3. ~RecordSave /\ (CallStep \/ AnswerStep \/ Resynchronize) => Library'
  BY CallLibrary
<1> QED
  BY <1>2, <1>3, TellLibrary, StoreLibrary, TouchLibrary, TakeInLibrary, ReopenLibrary,
     RecordLibrary, SendLibrary, HeardLibrary, BackupLibrary
     DEF TransfersNext, CallStep, AnswerStep

-----------------------------------------------------------------------------
(***************************************************************************)
(* The theorems                                                            *)
(***************************************************************************)
LEMMA TypedStep == Typed /\ Placed /\ AskedInOrder /\ CallShape /\ TransfersNext => Typed'
BY DeviceTypes, WorkerTypes, CallTypes DEF TransfersNext, CallStep, AnswerStep

LEMMA InitInvariant == TransfersInit => IInv
BY InitTypes, InitFlow, InitAnswers, InitVolumes, InitLibrary DEF IInv

LEMMA StepInvariant == IInv /\ [TransfersNext]_transferVars => IInv'
<1> SUFFICES ASSUME IInv, [TransfersNext]_transferVars
             PROVE  IInv'
  OBVIOUS
<1>1. CASE TransfersNext
  <2>1. Typed'
    BY <1>1, TypedStep DEF IInv, Flow, Answers
  <2>2. Flow'
    BY <1>1, <2>1, FlowStep DEF IInv, Answers
  <2>3. Answers' /\ Volumes'
    BY <1>1, AnswersStep, VolumesStep DEF IInv
  <2>4. Library'
    BY <1>1, LibraryStep DEF IInv, Answers
  <2> QED
    BY <2>1, <2>2, <2>3, <2>4 DEF IInv
<1>2. CASE UNCHANGED transferVars
  <2>1. /\ dev' = dev /\ toDevice' = toDevice /\ wire' = wire /\ dropped' = dropped
        /\ worker' = worker /\ inbox' = inbox /\ library' = library /\ seen' = seen
        /\ call' = call /\ told' = told /\ counts' = counts /\ past' = past
    BY <1>2 DEF transferVars
  <2>2. Typed'
    BY <2>1 DEF IInv, Typed
  <2>3. Unread' = Unread /\ Listings' = Listings
    BY <2>1 DEF Unread, Listings
  <2>4. Flow' /\ Answers'
    BY <2>1, SameFlow, SameAnswers DEF IInv
  <2>5. Volumes'
    BY <2>1, <2>3, SameVolumes DEF IInv
  <2>6. SaveIsLast' /\ (SaveIsStored' => SaveIsStored)
    BY <2>1, <2>3 DEF IInv, Library, SaveIsLast, SaveIsStored
  <2>7. SaveIsStored => toDevice = <<>> /\ inbox = <<>>
    BY DEF IInv, Library, StoredIsLast
  <2>8. Library'
    BY <2>1, <2>3, <2>6, <2>7, SameLibrary DEF IInv
  <2> QED
    BY <2>2, <2>4, <2>5, <2>8 DEF IInv
<1> QED
  BY <1>1, <1>2

LEMMA Invariant == TransfersSpec => []IInv
BY InitInvariant, StepInvariant, PTL DEF TransfersSpec

(* The volumes of the invariant, when the worker has read everything.      *)
LEMMA QuietVolumes == IInv => FreshWhenQuiet
<1> SUFFICES ASSUME IInv, Free, wire = <<>>
             PROVE  seen = dev.volume \/ past.lost = dev.volume
  BY DEF FreshWhenQuiet
<1>1. Unread = {}
  BY NoMessage DEF Free, Unread
<1> QED
  BY <1>1 DEF IInv, Volumes

(* Messages, commands and calls are what they are taken for, whatever the  *)
(* device, the worker and the callers do: a chunk names a document and a   *)
(* part of it, a directory a key, a command the call it belongs to.        *)
THEOREM TransfersTyped == TransfersSpec => []Typed
BY Invariant, PTL DEF IInv

(* What the device sends of documents arrives in the order the documents   *)
(* were asked for and the order of their chunks, also what the worker has  *)
(* set aside, and the end of a document is not met without its start while *)
(* an older document is still on its way, unless a report was dropped.     *)
THEOREM ChunksInOrder == TransfersSpec => [](InOrder /\ StartsAreKept)
BY Invariant, PTL DEF IInv, Flow

(* A backup that is handed out is one document of the device, from its     *)
(* first to its last chunk, unless a report was dropped: create_backup     *)
(* checks only that the chunks make one JSON value, the order of the       *)
(* messages does the rest.                                                 *)
THEOREM BackupIsWhole == TransfersSpec => []WholeBackup
BY Invariant, PTL DEF IInv, Answers

(* A document is refused only when, as it was asked for, a chunk that      *)
(* begins with a brace was still to come of an earlier one, or an earlier  *)
(* backup was still to be begun: whatever else an earlier transfer left    *)
(* behind, BackupAssembler::push leaves it out, and a report dropped       *)
(* meanwhile makes the backup fail at the read instead.                    *)
THEOREM OnlyBracesAreHarmful == TransfersSpec => []OnlyBracesSpoil
BY Invariant, PTL DEF IInv, Answers

(* When all is read the state decoder knows the device's volume, though a  *)
(* backup sets the reports aside and takes them in later; or the report    *)
(* was dropped or lost with a backup that failed.                          *)
THEOREM VolumeIsFresh == TransfersSpec => []FreshWhenQuiet
BY Invariant, QuietVolumes, PTL

(* The library shows the setlist as it is on the device once the last      *)
(* change was told in a listing that was taken in, or was a save that the  *)
(* broker recorded (PresetLibrary::ingest, record_saved).                  *)
THEOREM ListingIsTrue == TransfersSpec => []LibraryIsTrue
BY Invariant, PTL DEF IInv, Library

=============================================================================
