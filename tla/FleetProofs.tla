---------------------------- MODULE FleetProofs ----------------------------
(***************************************************************************)
(* Proofs about the device scan, the reading of numbers and the requests,  *)
(* for every set of phones, numbers and allowlists.                        *)
(***************************************************************************)
EXTENDS FleetSync, FiniteSetTheorems, TLAPS

-----------------------------------------------------------------------------
(***************************************************************************)
(* Records and numbers.                                                    *)
(***************************************************************************)

\* A row that is present is a record.
LEMMA PresentRow ==
    ASSUME NEW r \in Row \union {NoRow}
    PROVE  Present(r) <=> r \in Row
    BY DEF Present, Row, NoRow

LEMMA FreshRow ==
    ASSUME NEW st \in {"new", "working", "paused", "error", "retired"}
    PROVE  Fresh(st) \in Row
    <1>1. (st = "working") \in BOOLEAN
      OBVIOUS
    <1>2. NoNumber \in NoNumber .. MaxNumber
      BY DEF NoNumber, MaxNumber
    <1>3. QED
      BY <1>1, <1>2 DEF Fresh, Row

LEMMA MarkedRow ==
    ASSUME NEW r \in Row
    PROVE  Marked(r) \in Row /\ Refreshed(r) \in Row
    BY DEF Marked, Refreshed, IsMarked, Row

LEMMA NumberedRow ==
    ASSUME NEW r \in Row, NEW n \in NoNumber .. MaxNumber
    PROVE  [r EXCEPT !.number = n] \in Row
    BY DEF Row

\* What a request writes is a record.
LEMMA EditedRow ==
    ASSUME NEW op \in Ops, NEW r \in Row \union {NoRow}, NEW n \in NoNumber .. MaxNumber,
           op = "add" <=> ~Present(r)
    PROVE  Edited(op, r, n) \in Row
    <1>1. CASE op = "add"
      BY <1>1, FreshRow, NumberedRow DEF Edited
    <1>2. CASE op # "add"
      <2>1. r \in Row
        BY <1>2, PresentRow
      <2>2. /\ [r EXCEPT !.state = "retired"] \in Row
            /\ [r EXCEPT !.state = "paused", !.lastError = "reason"] \in Row
            /\ [r EXCEPT !.state = "working", !.readyAt = TRUE] \in Row
            /\ [r EXCEPT !.state = "new", !.readyAt = FALSE] \in Row
        BY <2>1 DEF Row
      <2>3. QED
        BY <1>2, <2>1, <2>2, NumberedRow DEF Edited, Ops
    <1>3. QED
      BY <1>1, <1>2

\* A phone's number fits the column.
LEMMA StandNumbers ==
    /\ MaxNumber \in Nat /\ NoNumber = -1
    /\ \A q \in Phones : Stand[q] \in 0 .. MaxNumber
    /\ {Stand[q] : q \in Phones} \subseteq Nat
    /\ Others \subseteq Nat
    <1>1. MaxNumber \in Nat /\ NoNumber = -1
      BY DEF MaxNumber, NoNumber
    <1>2. \A q \in Phones : Stand[q] \in 0 .. MaxNumber
      BY FleetAssumption
    <1>3. {Stand[q] : q \in Phones} \subseteq Nat
      BY <1>1, <1>2
    <1>4. QED
      BY <1>1, <1>2, <1>3, FleetAssumption

\* Screens show natural numbers.
LEMMA ScreenNumbers ==
    ASSUME NEW p \in Phones, NEW front, NEW shown, NEW texts \in Screen(p, front, shown)
    PROVE  texts \subseteq Nat
    <1>1. CASE front = "home"
      <2>1. PICK ns \in SUBSET Others : texts = ns \union {n \in {Stand[p]} : shown}
        BY <1>1 DEF Screen
      <2>2. Stand[p] \in Nat
        BY StandNumbers
      <2>3. QED
        BY <2>1, <2>2, StandNumbers
    <1>2. CASE front # "home"
      <2>1. texts \subseteq Others \union {Stand[q] : q \in Phones}
        BY <1>2, Zenon DEF Screen
      <2>2. QED
        BY <2>1, StandNumbers
    <1>3. QED
      BY <1>1, <1>2

\* What is taken off a screen is the one number on it that fits the column.
LEMMA ExtractedNumber ==
    ASSUME NEW texts \in SUBSET Nat, NEW n \in Extract(texts)
    PROVE  /\ n \in 0 .. MaxNumber
           /\ \A k \in texts : k <= MaxNumber => k = n
    <1>1. Candidates(texts) \subseteq 0 .. MaxNumber
      <2>1. Candidates(texts) = {k \in texts : k <= MaxNumber}
        BY DEF Candidates
      <2>2. MaxNumber \in Nat /\ \A k \in texts : k \in Nat
        BY StandNumbers
      <2>3. \A k \in Candidates(texts) : k \in Nat /\ k <= MaxNumber
        BY <2>1, <2>2
      <2>4. QED
        BY <2>2, <2>3
    <1>2. IsFiniteSet(0 .. MaxNumber)
      BY StandNumbers, FS_Interval
    <1>3. IsFiniteSet(Candidates(texts))
      BY <1>1, <1>2, FS_Subset
    <1>4. Cardinality(Candidates(texts)) = 1 /\ n \in Candidates(texts)
      BY DEF Extract
    <1>5. PICK x : Candidates(texts) = {x}
      BY <1>3, <1>4, FS_Singleton
    <1>6. QED
      BY <1>1, <1>4, <1>5 DEF Candidates

-----------------------------------------------------------------------------
(***************************************************************************)
(* The invariant: besides types, whom an actor is on, what it is about to  *)
(* write, and that those that keep to the allowlist are on listed phones.  *)
(***************************************************************************)

ScanOn ==
    /\ scan.pc \in {"update", "save"} =>
          scan.on \in Phones /\ IsAllowed(scan.on) /\ scan.copy \in Row
    /\ scan.pc = "mark" => \A p \in scan.left : scan.snapshot[p] \in Row
    /\ \A p \in scan.left : IsAllowed(p)

ReadingOn ==
    /\ reading.pc # "idle" => reading.on \in Phones /\ IsAllowed(reading.on)
    /\ reading.pc = "put" => reading.copy \in Row
    /\ reading.pc = "dump" /\ ~reading.moved => reading.front = "home"

RequestOn ==
    request.op # "none" =>
        /\ request.on \in Phones /\ request.copy \in Row
        /\ request.op \in Unlisted \/ IsAllowed(request.on)

FleetInv == FleetTypeOK /\ ScanOn /\ ReadingOn /\ RequestOn /\ NumberIsPhones

\* At rest, a scan, a reading and a request have their types.
LEMMA IdleTypes == NoScan \in ScanType /\ NoReading \in ReadingType /\ NoRequest \in RequestType
    <1>1. NoNumber \in NoNumber .. MaxNumber
      BY StandNumbers
    <1>2. QED
      BY <1>1 DEF ScanType, ReadingType, RequestType, NoScan, NoReading, NoRequest

LEMMA FleetInit == Init => FleetInv
    <1> SUFFICES ASSUME Init PROVE FleetInv
      OBVIOUS
    <1>1. {Fresh("working"), Fresh("retired"), Fresh("error")} \subseteq Row
      BY FreshRow
    <1>2. \A ready \in BOOLEAN : Failed(ready) \in Row
      <2>1. Fresh("error") \in Row
        BY <1>1
      <2>2. "reason" \in {"none", "reason", "adbMissing"}
        OBVIOUS
      <2>3. QED
        BY <2>1, <2>2 DEF Failed, Row
    <1>3. Marked(Failed(FALSE)) \in Row
      BY <1>2, MarkedRow
    <1>4. FleetTypeOK
      <2>1. record \in [Phones -> Row \union {NoRow}]
        BY <1>1, <1>2, <1>3 DEF Init
      <2>2. allowlist \in SUBSET Phones /\ unique \in BOOLEAN
        BY FleetAssumption DEF Init
      <2>3. QED
        BY <2>1, <2>2, IdleTypes DEF FleetTypeOK, Init
    <1>5. ScanOn /\ ReadingOn /\ RequestOn /\ NumberIsPhones
      BY DEF Init, ScanOn, ReadingOn, RequestOn, NumberIsPhones, NoScan, NoReading, NoRequest
    <1>6. QED
      BY <1>4, <1>5 DEF FleetInv

\* What the proofs of the steps share: the parts of the state have their types.
LEMMA PartTypes ==
    FleetTypeOK =>
        /\ \A p \in Phones : record[p] \in Row \union {NoRow}
        /\ \A p \in Phones : Present(record[p]) <=> record[p] \in Row
        /\ scan.copy \in Row \union {NoRow}
        /\ \A p \in Phones : scan.snapshot[p] \in Row \union {NoRow}
        /\ NoScan.copy \in Row \union {NoRow}
        /\ NoScan.before \in [Phones -> Row \union {NoRow}]
    BY PresentRow DEF FleetTypeOK, ScanType, NoScan

\* A record that is written is one of the table's.
LEMMA WriteRow ==
    ASSUME record \in [Phones -> Row \union {NoRow}], NEW p \in Phones, NEW r \in Row, Write(p, r)
    PROVE  record' \in [Phones -> Row \union {NoRow}]
    BY DEF Write

\* The scan, told of another's write, is as it was but for what it remembers.
LEMMA OvertakenScan ==
    ASSUME FleetTypeOK, ScanOn, scan' = Overtaken, allowlist' = allowlist
    PROVE  ScanOn' /\ scan' \in ScanType
    <1>1. scan' = [scan EXCEPT !.alone = FALSE, !.before = NoScan.before]
      BY DEF Overtaken
    <1>2. NoScan.before \in [Phones -> Row \union {NoRow}]
      BY PartTypes
    <1>3. ScanOn'
      BY <1>1 DEF ScanOn, IsAllowed, FleetTypeOK, ScanType
    <1>4. QED
      BY <1>1, <1>2, <1>3 DEF FleetTypeOK, ScanType

-----------------------------------------------------------------------------
(***************************************************************************)
(* The steps: the scan's first, then the reading's, then the requests'.    *)
(***************************************************************************)

LEMMA ScanBeginStep ==
    ASSUME FleetInv, NEW live \in SUBSET Phones, ScanBegin(live)
    PROVE  FleetInv'
    <1> USE DEF FleetInv
    <1>1. scan' = [NoScan EXCEPT !.pc = "look", !.live = live, !.before = record,
                                 !.left = {p \in live : IsAllowed(p)}]
      BY DEF ScanBegin
    <1>2. FleetTypeOK'
      <2>1. {p \in live : IsAllowed(p)} \subseteq Phones
        OBVIOUS
      <2>2. scan' \in ScanType
        BY <1>1, <2>1, IdleTypes DEF FleetTypeOK, ScanType
      <2>3. QED
        BY <2>2 DEF FleetTypeOK, ScanBegin
    <1>3. ScanOn'
      BY <1>1 DEF ScanOn, ScanBegin, NoScan, IsAllowed
    <1>4. QED
      BY <1>2, <1>3 DEF ReadingOn, RequestOn, NumberIsPhones, IsAllowed, ScanBegin

LEMMA LookStep ==
    ASSUME FleetInv, NEW p \in Phones, Look(p)
    PROVE  FleetInv'
    <1> USE DEF FleetInv
    <1>1. Present(record[p]) => Refreshed(record[p]) \in Row
      BY PartTypes, MarkedRow
    <1>2. Fresh("working") \in Row
      BY FreshRow
    <1>3. IsAllowed(p)
      BY DEF Look, ScanOn
    <1>4. CASE Present(record[p]) /\ record[p].state = "retired"
      <2>1. scan' = [scan EXCEPT !.left = @ \ {p}]
        BY <1>4 DEF Look
      <2>2. FleetTypeOK'
        BY <2>1 DEF FleetTypeOK, ScanType, Look
      <2>3. ScanOn'
        BY <2>1 DEF ScanOn, Look, IsAllowed, FleetTypeOK, ScanType
      <2>4. QED
        BY <2>2, <2>3 DEF ReadingOn, RequestOn, NumberIsPhones, IsAllowed, Look
    <1>5. CASE ~(Present(record[p]) /\ record[p].state = "retired")
      <2> DEFINE copy == IF Present(record[p]) THEN Refreshed(record[p]) ELSE Fresh("working")
                 pc == IF Present(record[p]) THEN "update" ELSE "save"
      <2>1. copy \in Row /\ pc \in {"update", "save"}
        BY <1>1, <1>2
      <2>2. scan' = [scan EXCEPT !.left = @ \ {p}, !.on = p, !.pc = pc, !.copy = copy]
        BY <1>5 DEF Look
      <2> HIDE DEF copy, pc
      <2>3. UNCHANGED <<record, allowlist, unique, reading, request>>
        BY DEF Look
      <2>4. scan' \in ScanType
        BY <2>1, <2>2 DEF FleetTypeOK, ScanType
      <2>5. FleetTypeOK'
        BY <2>3, <2>4 DEF FleetTypeOK
      <2>6. ScanOn'
        <3>1. /\ scan'.pc \in {"update", "save"} /\ scan'.on = p
              /\ scan'.copy \in Row /\ scan'.left \subseteq scan.left
          BY <2>1, <2>2 DEF FleetTypeOK, ScanType
        <3>2. QED
          BY <1>3, <2>3, <3>1 DEF ScanOn, IsAllowed
      <2>7. QED
        BY <2>5, <2>6 DEF ReadingOn, RequestOn, NumberIsPhones, IsAllowed, Look
    <1>6. QED
      BY <1>4, <1>5

LEMMA PutStep ==
    ASSUME FleetInv, Put
    PROVE  FleetInv'
    <1> USE DEF FleetInv
    <1>1. scan.on \in Phones /\ scan.copy \in Row
      BY DEF Put, ScanOn
    <1>2. record' \in [Phones -> Row \union {NoRow}]
      BY <1>1, WriteRow DEF Put, FleetTypeOK, ScanType
    <1>3. scan' = [scan EXCEPT !.pc = "look", !.on = "nobody", !.copy = NoRow]
      BY DEF Put
    <1>4. FleetTypeOK'
      BY <1>2, <1>3 DEF FleetTypeOK, ScanType, Put
    <1>5. ScanOn'
      BY <1>3 DEF ScanOn, Put, IsAllowed, FleetTypeOK, ScanType
    <1>6. QED
      BY <1>4, <1>5 DEF ReadingOn, RequestOn, NumberIsPhones, IsAllowed, Put

LEMMA SnapshotStep ==
    ASSUME FleetInv, Snapshot
    PROVE  FleetInv'
    <1> USE DEF FleetInv
    <1> DEFINE missing == {p \in Phones : Missing(p)}
               copies == [p \in Phones |-> IF p \in missing THEN record[p] ELSE NoRow]
    <1>1. scan' = [scan EXCEPT !.pc = "mark", !.left = missing, !.snapshot = copies]
      BY DEF Snapshot
    <1>2. copies \in [Phones -> Row \union {NoRow}] /\ missing \subseteq Phones
      BY PartTypes
    <1>3. \A p \in missing : copies[p] \in Row /\ IsAllowed(p)
      BY PartTypes DEF Missing
    <1> HIDE DEF missing, copies
    <1>4. FleetTypeOK'
      BY <1>1, <1>2 DEF FleetTypeOK, ScanType, Snapshot
    <1>5. ScanOn'
      BY <1>1, <1>3 DEF ScanOn, Snapshot, IsAllowed, FleetTypeOK, ScanType
    <1>6. QED
      BY <1>4, <1>5 DEF ReadingOn, RequestOn, NumberIsPhones, IsAllowed, Snapshot

LEMMA MarkStep ==
    ASSUME FleetInv, NEW p \in Phones, Mark(p)
    PROVE  FleetInv'
    <1> USE DEF FleetInv
    <1>1. Marked(scan.snapshot[p]) \in Row
      BY MarkedRow DEF Mark, ScanOn
    <1>2. record' \in [Phones -> Row \union {NoRow}]
      BY <1>1, WriteRow DEF Mark, FleetTypeOK, ScanType
    <1>3. scan' = [scan EXCEPT !.left = @ \ {p}, !.snapshot[p] = NoRow]
      BY DEF Mark
    <1>4. FleetTypeOK'
      <2>1. [scan.snapshot EXCEPT ![p] = NoRow] \in [Phones -> Row \union {NoRow}]
        BY DEF FleetTypeOK, ScanType
      <2>2. scan' = [scan EXCEPT !.left = scan.left \ {p},
                                 !.snapshot = [scan.snapshot EXCEPT ![p] = NoRow]]
        BY <1>3
      <2>3. scan' \in ScanType
        BY <2>1, <2>2 DEF FleetTypeOK, ScanType
      <2>4. QED
        BY <1>2, <2>3 DEF FleetTypeOK, Mark
    <1>5. ScanOn'
      BY <1>3 DEF ScanOn, Mark, IsAllowed, FleetTypeOK, ScanType
    <1>6. QED
      BY <1>4, <1>5 DEF ReadingOn, RequestOn, NumberIsPhones, IsAllowed, Mark

LEMMA ScanFailsStep ==
    ASSUME FleetInv, ScanFails
    PROVE  FleetInv'
    <1> USE DEF FleetInv
    <1>1. FleetTypeOK'
      BY IdleTypes DEF FleetTypeOK, ScanFails
    <1>2. QED
      BY <1>1 DEF ScanOn, ReadingOn, RequestOn, NumberIsPhones, IsAllowed, ScanFails, NoScan

LEMMA ScanDoneStep ==
    ASSUME FleetInv, ScanDone
    PROVE  FleetInv'
    <1> USE DEF FleetInv
    <1>1. FleetTypeOK'
      BY DEF FleetTypeOK, ScanType, ScanDone
    <1>2. ScanOn'
      BY DEF ScanOn, ScanDone, IsAllowed, FleetTypeOK, ScanType
    <1>3. QED
      BY <1>1, <1>2 DEF ReadingOn, RequestOn, NumberIsPhones, IsAllowed, ScanDone

LEMMA ReadingBeginStep ==
    ASSUME FleetInv, NEW p \in Phones, ReadingBegin(p)
    PROVE  FleetInv'
    <1> USE DEF FleetInv
    <1>1. PICK front \in {"home", "app"}, shown \in BOOLEAN :
            reading' = [NoReading EXCEPT !.pc = "home", !.on = p, !.front = front, !.shown = shown]
      BY DEF ReadingBegin
    <1>2. FleetTypeOK'
      <2>1. reading' \in ReadingType
        BY <1>1, IdleTypes DEF ReadingType
      <2>2. QED
        BY <2>1 DEF FleetTypeOK, ReadingBegin
    <1>3. ReadingOn' /\ NumberIsPhones'
      BY <1>1 DEF ReadingOn, NumberIsPhones, ReadingBegin, NoReading, IsAllowed
    <1>4. QED
      BY <1>2, <1>3 DEF ScanOn, RequestOn, IsAllowed, ReadingBegin

LEMMA PressHomeStep ==
    ASSUME FleetInv, PressHome
    PROVE  FleetInv'
    <1> USE DEF FleetInv
    <1>1. FleetTypeOK'
      BY DEF FleetTypeOK, ReadingType, PressHome
    <1>2. ReadingOn' /\ NumberIsPhones'
      BY DEF ReadingOn, NumberIsPhones, PressHome, IsAllowed, FleetTypeOK, ReadingType
    <1>3. QED
      BY <1>1, <1>2 DEF ScanOn, RequestOn, IsAllowed, PressHome

\* A number found is kept; if it was found on an undisturbed home screen, it is
\* the one number of that screen.
LEMMA FoundStep ==
    ASSUME FleetInv, NEW n \in 0 .. MaxNumber, NEW source \in {"ui_dump", "vlm_screenshot"},
           reading.pc # "idle",
           source = "ui_dump" /\ reading.shown /\ ~reading.moved => n = Stand[reading.on],
           reading' = Found(n, source),
           UNCHANGED <<record, allowlist, unique, scan, request, used>>
    PROVE  FleetInv'
    <1> USE DEF FleetInv
    <1>1. reading' = [reading EXCEPT !.pc = "get", !.number = n, !.source = source, !.front = "app"]
      BY DEF Found
    <1>2. n \in NoNumber .. MaxNumber
      BY StandNumbers
    <1>3. FleetTypeOK'
      BY <1>1, <1>2 DEF FleetTypeOK, ReadingType
    <1>4. ReadingOn' /\ NumberIsPhones'
      BY <1>1 DEF ReadingOn, NumberIsPhones, IsAllowed, FleetTypeOK, ReadingType
    <1>5. QED
      BY <1>3, <1>4 DEF ScanOn, RequestOn, IsAllowed

\* A reading that ends.
LEMMA ReadingEndsStep ==
    ASSUME FleetInv, reading' = NoReading,
           UNCHANGED <<record, allowlist, unique, scan, request, used>>
    PROVE  FleetInv'
    <1> USE DEF FleetInv
    <1>1. FleetTypeOK'
      BY IdleTypes DEF FleetTypeOK
    <1>2. QED
      BY <1>1 DEF ScanOn, ReadingOn, RequestOn, NumberIsPhones, NoReading, IsAllowed

LEMMA DumpStep ==
    ASSUME FleetInv, Dump
    PROVE  FleetInv'
    <1> USE DEF FleetInv
    <1>1. reading.pc = "dump" /\ UNCHANGED <<record, allowlist, unique, scan, request, used>>
      BY DEF Dump
    <1>2. reading.on \in Phones
      BY <1>1 DEF ReadingOn
    <1>3. ASSUME reading' = [reading EXCEPT !.pc = "detect"]
          PROVE  FleetInv'
      <2>1. FleetTypeOK'
        BY <1>1, <1>3 DEF FleetTypeOK, ReadingType
      <2>2. QED
        BY <1>1, <1>3, <2>1
           DEF ScanOn, ReadingOn, RequestOn, NumberIsPhones, IsAllowed, FleetTypeOK, ReadingType
    <1>4. ASSUME NEW texts \in Screen(reading.on, reading.front, reading.shown),
                 NEW n \in Extract(texts),
                 reading' = Found(n, "ui_dump")
          PROVE  FleetInv'
      <2>1. texts \in SUBSET Nat
        BY <1>2, ScreenNumbers
      <2>2. n \in 0 .. MaxNumber /\ \A k \in texts : k <= MaxNumber => k = n
        BY <2>1, ExtractedNumber
      <2>3. ASSUME reading.shown, ~reading.moved PROVE n = Stand[reading.on]
        <3>1. reading.front = "home"
          BY <1>1, <2>3 DEF ReadingOn
        <3>2. Stand[reading.on] \in texts
          BY <2>3, <3>1 DEF Screen
        <3>3. Stand[reading.on] <= MaxNumber
          BY <1>2, StandNumbers
        <3>4. QED
          BY <2>2, <3>2, <3>3
      <2>4. QED
        BY <1>1, <1>4, <2>2, <2>3, FoundStep
    <1>5. QED
      BY <1>1, <1>3, <1>4, ReadingEndsStep DEF Dump

LEMMA DetectStep ==
    ASSUME FleetInv, Detect
    PROVE  FleetInv'
    <1>1. reading.pc = "detect" /\ UNCHANGED <<record, allowlist, unique, scan, request, used>>
      BY DEF Detect
    <1>2. PICK texts \in SUBSET (Others \union {Stand[q] : q \in Phones}) :
            \/ \E n \in Extract(texts) : reading' = Found(n, "vlm_screenshot")
            \/ reading' = NoReading
      BY DEF Detect
    <1>3. texts \in SUBSET Nat
      BY StandNumbers
    <1>4. ASSUME NEW n \in Extract(texts), reading' = Found(n, "vlm_screenshot")
          PROVE  FleetInv'
      <2>1. n \in 0 .. MaxNumber
        BY <1>3, ExtractedNumber
      <2>2. QED
        BY <1>1, <1>4, <2>1, FoundStep
    <1>5. QED
      BY <1>1, <1>2, <1>4, ReadingEndsStep

LEMMA ReadRecordStep ==
    ASSUME FleetInv, ReadRecord
    PROVE  FleetInv'
    <1> USE DEF FleetInv
    <1>1. reading.on \in Phones /\ reading.number \in NoNumber .. MaxNumber
      BY DEF ReadRecord, ReadingOn, FleetTypeOK, ReadingType
    <1>2. [record[reading.on] EXCEPT !.number = reading.number] \in Row
      BY <1>1, PartTypes, NumberedRow DEF ReadRecord
    <1>3. FleetTypeOK'
      BY <1>2 DEF FleetTypeOK, ReadingType, ReadRecord
    <1>4. ReadingOn' /\ NumberIsPhones'
      BY <1>2 DEF ReadingOn, NumberIsPhones, ReadRecord, IsAllowed, FleetTypeOK, ReadingType
    <1>5. QED
      BY <1>3, <1>4 DEF ScanOn, RequestOn, IsAllowed, ReadRecord

LEMMA PutNumberStep ==
    ASSUME FleetInv, PutNumber
    PROVE  FleetInv'
    <1> USE DEF FleetInv
    <1>1. reading.on \in Phones /\ reading.copy \in Row
      BY DEF PutNumber, ReadingOn
    <1>2. record' \in [Phones -> Row \union {NoRow}]
      BY <1>1, WriteRow DEF PutNumber, FleetTypeOK, ReadingType
    <1>3. scan' = Overtaken /\ reading' = NoReading
          /\ UNCHANGED <<allowlist, unique, request, used>>
      BY DEF PutNumber
    <1>4. FleetTypeOK'
      BY <1>2, <1>3, OvertakenScan, IdleTypes DEF FleetTypeOK
    <1>5. ScanOn'
      BY <1>3, OvertakenScan
    <1>6. QED
      BY <1>3, <1>4, <1>5 DEF ReadingOn, RequestOn, NumberIsPhones, NoReading, IsAllowed

LEMMA RequestBeginStep ==
    ASSUME FleetInv, NEW op \in Ops, NEW p \in Phones, RequestBegin(op, p)
    PROVE  FleetInv'
    <1> USE DEF FleetInv
    <1>1. PICK n \in {NoNumber} \union {Stand[q] : q \in Phones} :
            request' = [op |-> op, on |-> p, copy |-> Edited(op, record[p], n)]
      BY DEF RequestBegin
    <1>2. n \in NoNumber .. MaxNumber
      BY <1>1, StandNumbers
    <1>3. Edited(op, record[p], n) \in Row
      BY <1>2, PartTypes, EditedRow DEF RequestBegin
    <1>4. FleetTypeOK'
      BY <1>1, <1>3 DEF FleetTypeOK, RequestType, RequestBegin
    <1>5. RequestOn'
      BY <1>1, <1>3 DEF RequestOn, RequestBegin, IsAllowed
    <1>6. QED
      BY <1>4, <1>5 DEF ScanOn, ReadingOn, NumberIsPhones, IsAllowed, RequestBegin

LEMMA RequestWritesStep ==
    ASSUME FleetInv, RequestWrites
    PROVE  FleetInv'
    <1> USE DEF FleetInv
    <1>1. request.on \in Phones /\ request.copy \in Row
      BY DEF RequestWrites, RequestOn
    <1>2. record' \in [Phones -> Row \union {NoRow}]
      BY <1>1, WriteRow DEF RequestWrites, FleetTypeOK, RequestType
    <1>3. scan' = Overtaken /\ request' = NoRequest
          /\ UNCHANGED <<allowlist, unique, reading, used>>
      BY DEF RequestWrites
    <1>4. FleetTypeOK'
      BY <1>2, <1>3, OvertakenScan, IdleTypes DEF FleetTypeOK
    <1>5. ScanOn'
      BY <1>3, OvertakenScan
    <1>6. QED
      BY <1>3, <1>4, <1>5 DEF ReadingOn, RequestOn, NumberIsPhones, NoRequest, IsAllowed

LEMMA RequestFailsStep ==
    ASSUME FleetInv, RequestFails
    PROVE  FleetInv'
    <1> USE DEF FleetInv
    <1>1. FleetTypeOK'
      BY IdleTypes DEF FleetTypeOK, RequestFails
    <1>2. QED
      BY <1>1 DEF ScanOn, ReadingOn, RequestOn, NumberIsPhones, IsAllowed, RequestFails, NoRequest

LEMMA UseAppStep ==
    ASSUME FleetInv, UseApp
    PROVE  FleetInv'
    <1> USE DEF FleetInv
    <1>1. FleetTypeOK'
      BY DEF FleetTypeOK, ReadingType, UseApp
    <1>2. ReadingOn' /\ NumberIsPhones'
      BY DEF ReadingOn, NumberIsPhones, UseApp, IsAllowed, FleetTypeOK, ReadingType
    <1>3. QED
      BY <1>1, <1>2 DEF ScanOn, RequestOn, IsAllowed, UseApp

\* The invariant is inductive.
LEMMA FleetStep == FleetInv /\ [Next]_vars => FleetInv'
    <1> SUFFICES ASSUME FleetInv, [Next]_vars
                 PROVE  FleetInv'
      OBVIOUS
    <1>1. CASE Next
      <2>1. CASE ReadingFails
        BY <2>1, ReadingEndsStep DEF ReadingFails
      <2>2. QED
        BY <1>1, <2>1, ScanBeginStep, LookStep, PutStep, SnapshotStep, MarkStep,
           ScanFailsStep, ScanDoneStep, ReadingBeginStep, PressHomeStep, DumpStep,
           DetectStep, ReadRecordStep, PutNumberStep, RequestBeginStep,
           RequestWritesStep, RequestFailsStep, UseAppStep DEF Next
    <1>2. CASE UNCHANGED vars
      BY <1>2 DEF vars, FleetInv, FleetTypeOK, ScanOn, ReadingOn, RequestOn,
                  NumberIsPhones, IsAllowed
    <1>3. QED
      BY <1>1, <1>2

-----------------------------------------------------------------------------
(***************************************************************************)
(* The theorems.                                                           *)
(***************************************************************************)

LEMMA FleetInvariant == Spec => []FleetInv
    BY FleetInit, FleetStep, PTL DEF Spec

\* The rows of the table, and what the scan, the reading and a request hold,
\* keep their shape: a number in particular always fits the SMALLINT column.
THEOREM FleetTypes == Spec => []FleetTypeOK
    <1>1. FleetInv => FleetTypeOK
      BY DEF FleetInv
    <1>2. QED
      BY <1>1, FleetInvariant, PTL

\* For any phones and screens: a number that SyncFromHome takes off a dump is
\* the phone's, as long as nobody has brought an app to the front since it
\* pressed home.
THEOREM NumbersAreTheirPhones == Spec => []NumberIsPhones
    <1>1. FleetInv => NumberIsPhones
      BY DEF FleetInv
    <1>2. QED
      BY <1>1, FleetInvariant, PTL

\* What one step may write, and of whom.
LEMMA OffListStep ==
    ASSUME FleetInv, [Next]_vars, NEW p \in Phones, ~IsAllowed(p), record'[p] # record[p]
    PROVE  request.on = p /\ request.op \in Unlisted
    <1> USE DEF FleetInv
    <1>1. record \in [Phones -> Row \union {NoRow}]
      BY DEF FleetTypeOK
    <1>2. CASE Put
      <2>1. scan.on \in Phones /\ IsAllowed(scan.on)
        BY <1>2 DEF Put, ScanOn
      <2>2. QED
        BY <1>1, <1>2, <2>1 DEF Put, Write
    <1>3. ASSUME NEW q \in Phones, Mark(q) PROVE FALSE
      <2>1. IsAllowed(q)
        BY <1>3 DEF Mark, ScanOn
      <2>2. QED
        BY <1>1, <1>3, <2>1 DEF Mark, Write
    <1>4. CASE PutNumber
      <2>1. reading.on \in Phones /\ IsAllowed(reading.on)
        BY <1>4 DEF PutNumber, ReadingOn
      <2>2. QED
        BY <1>1, <1>4, <2>1 DEF PutNumber, Write
    <1>5. CASE RequestWrites
      <2>1. request.on \in Phones /\ (request.op \in Unlisted \/ IsAllowed(request.on))
        BY <1>5 DEF RequestWrites, RequestOn
      <2>2. QED
        BY <1>1, <1>5, <2>1 DEF RequestWrites, Write
    <1>6. QED
      BY <1>2, <1>3, <1>4, <1>5
         DEF Next, vars, ScanBegin, Look, Snapshot, ScanFails, ScanDone, ReadingBegin,
             PressHome, Dump, Detect, ReadRecord, ReadingFails, RequestBegin,
             RequestFails, UseApp

\* For any allowlist: neither a scan, nor a reading, nor a route that keeps to
\* the list, changes the record of a phone that is not on it.
THEOREM OffListStays == Spec => OffListLeftAlone
    <1>1. FleetInv /\ [Next]_vars =>
            [\A p \in Phones :
                ~IsAllowed(p) /\ record'[p] # record[p] =>
                    request.on = p /\ request.op \in Unlisted]_vars
      BY OffListStep
    <1>2. QED
      BY <1>1, FleetInvariant, PTL DEF Spec, OffListLeftAlone

-----------------------------------------------------------------------------
(***************************************************************************)
(* A scan during which nobody else writes.  Before the snapshot the scan   *)
(* has settled the devices it is through with and touched no other phone;  *)
(* after it, the phones still to be marked are as the scan found them, and *)
(* the snapshot has them so.                                               *)
(***************************************************************************)

Undone(p) == record[p] = scan.before[p]
Done(p) == record[p] = Settled(p, scan.before[p])

LoneInv ==
    scan.alone =>
        /\ scan.pc = "look" => scan.on = "nobody"
        /\ scan.pc \in {"look", "update", "save"} =>
              /\ scan.left \subseteq scan.live
              /\ \A p \in Phones :
                    /\ p \in scan.live /\ p \notin scan.left /\ p # scan.on => Done(p)
                    /\ p \notin scan.live \/ p \in scan.left \/ p = scan.on => Undone(p)
        /\ scan.pc \in {"update", "save"} =>
              /\ scan.on \in scan.live /\ scan.on \notin scan.left
              /\ scan.copy = Settled(scan.on, scan.before[scan.on])
        /\ scan.pc = "mark" =>
              \A p \in Phones :
                 /\ p \in scan.left =>
                       Marked(scan.snapshot[p]) = Settled(p, scan.before[p])
                 /\ p \notin scan.left => Done(p)
        /\ scan.pc = "done" => \A p \in Phones : Done(p)

\* What settling comes to, case by case.
LEMMA SettledCases ==
    ASSUME NEW p \in Phones, NEW r \in Row \union {NoRow}
    PROVE  /\ ~IsAllowed(p) \/ r.state = "retired" => Settled(p, r) = r
           /\ IsAllowed(p) /\ r.state # "retired" /\ p \in scan.live =>
                 Settled(p, r) = IF Present(r) THEN Refreshed(r) ELSE Fresh("working")
           /\ IsAllowed(p) /\ r.state # "retired" /\ p \notin scan.live =>
                 Settled(p, r) = IF Present(r) THEN Marked(r) ELSE r
           /\ Present(r) /\ IsMarked(r) => Marked(r) = r
    <1>1. Present(r) <=> r \in Row
      BY PresentRow
    <1>2. Present(r) /\ IsMarked(r) => Marked(r) = r
      BY <1>1 DEF IsMarked, Marked, Row
    <1>3. Present(r) /\ IsMarked(r) =>
            Refreshed(r) = [state |-> "working", lastError |-> "none",
                            number |-> r.number, readyAt |-> r.readyAt]
      BY <1>1 DEF Refreshed, Row
    <1>4. ~IsMarked(r) => Refreshed(r) = r
      BY DEF Refreshed
    <1>5. Present(r) => r.readyAt = (Present(r) => r.readyAt)
      BY <1>1 DEF Row
    <1>6. QED
      BY <1>1, <1>2, <1>3, <1>4, <1>5 DEF Settled, Fresh

LEMMA LoneScanBegin ==
    ASSUME FleetInv, NEW live \in SUBSET Phones, ScanBegin(live)
    PROVE  LoneInv'
    <1>1. scan' = [NoScan EXCEPT !.pc = "look", !.live = live, !.before = record,
                                 !.left = {p \in live : IsAllowed(p)}]
          /\ record' = record /\ allowlist' = allowlist
      BY DEF ScanBegin
    <1>2. /\ scan'.pc = "look" /\ scan'.on = "nobody" /\ scan'.live = live
          /\ scan'.before = record /\ scan'.left = {p \in live : IsAllowed(p)}
      BY <1>1, IdleTypes DEF ScanType, NoScan
    <1>3. \A p \in Phones : p \in live /\ ~IsAllowed(p) => Done(p)'
      BY <1>1, <1>2 DEF Done, Settled, IsAllowed
    <1>4. "nobody" \notin Phones
      BY FleetAssumption
    <1>5. QED
      BY <1>1, <1>2, <1>3, <1>4 DEF LoneInv, Undone

LEMMA LoneLook ==
    ASSUME FleetInv, LoneInv, NEW p \in Phones, Look(p)
    PROVE  LoneInv'
    <1> SUFFICES ASSUME scan'.alone PROVE LoneInv'
      BY DEF LoneInv
    <1> DEFINE r == record[p]
    <1>1. scan \in ScanType /\ record' = record /\ allowlist' = allowlist /\ p \in scan.left
          /\ scan.pc = "look"
      BY DEF FleetInv, FleetTypeOK, Look
    <1>2. r \in Row \union {NoRow}
      BY PartTypes DEF FleetInv
    <1>3. CASE Present(r) /\ r.state = "retired"
      <2>1. scan' = [scan EXCEPT !.left = @ \ {p}]
        BY <1>3 DEF Look
      <2>2. /\ scan.alone /\ scan'.pc = "look" /\ scan'.on = scan.on /\ scan'.live = scan.live
            /\ scan'.before = scan.before /\ scan'.left = scan.left \ {p}
        BY <1>1, <2>1 DEF ScanType
      <2>3. r = scan.before[p] /\ p \in scan.live
        BY <1>1, <2>2 DEF LoneInv, Undone
      <2>4. Settled(p, r) = r
        BY <1>2, <1>3, SettledCases
      <2>5. \A q \in Phones : (Done(q) <=> Done(q)') /\ (Undone(q) <=> Undone(q)')
        BY <1>1, <2>2 DEF Done, Undone, Settled, IsAllowed
      <2>6. Done(p)
        BY <2>3, <2>4 DEF Done
      <2>7. QED
        BY <1>1, <2>2, <2>5, <2>6 DEF LoneInv
    <1>4. CASE ~(Present(r) /\ r.state = "retired")
      <2> DEFINE copy == IF Present(r) THEN Refreshed(r) ELSE Fresh("working")
                 pc == IF Present(r) THEN "update" ELSE "save"
      <2>1. scan' = [scan EXCEPT !.left = @ \ {p}, !.on = p, !.pc = pc, !.copy = copy]
        BY <1>4 DEF Look
      <2>2. pc \in {"update", "save"}
        OBVIOUS
      <2>3. IsAllowed(p)
        BY <1>1 DEF FleetInv, ScanOn
      <2> HIDE DEF pc
      <2>4. /\ scan.alone /\ scan'.pc \in {"update", "save"} /\ scan'.on = p
            /\ scan'.live = scan.live /\ scan'.copy = copy
            /\ scan'.before = scan.before /\ scan'.left = scan.left \ {p}
        BY <1>1, <2>1, <2>2 DEF ScanType
      <2>5. r = scan.before[p] /\ p \in scan.live
        BY <1>1, <2>4 DEF LoneInv, Undone
      <2>6. r.state # "retired"
        BY <1>4 DEF Present, NoRow
      <2>7. copy = Settled(p, scan.before[p])
        BY <1>2, <2>3, <2>5, <2>6, SettledCases
      <2> HIDE DEF copy
      <2>8. \A q \in Phones : (Done(q) <=> Done(q)') /\ (Undone(q) <=> Undone(q)')
                              /\ Settled(q, scan.before[q])' = Settled(q, scan.before[q])
        BY <1>1, <2>4 DEF Done, Undone, Settled, IsAllowed
      <2>9. p # "nobody" /\ scan.on = "nobody" /\ "nobody" \notin Phones
        BY <1>1, <2>4, FleetAssumption DEF LoneInv
      <2>10. Settled(scan.on, scan.before[scan.on])' = Settled(p, scan.before[p])
        BY <1>1, <2>4 DEF Settled, IsAllowed
      <2>11. QED
        BY <1>1, <2>4, <2>5, <2>7, <2>8, <2>9, <2>10 DEF LoneInv
    <1>5. QED
      BY <1>3, <1>4

LEMMA LonePut ==
    ASSUME FleetInv, LoneInv, Put
    PROVE  LoneInv'
    <1> SUFFICES ASSUME scan'.alone PROVE LoneInv'
      BY DEF LoneInv
    <1>1. scan \in ScanType /\ allowlist' = allowlist /\ scan.on \in Phones
          /\ scan.pc \in {"update", "save"}
      BY DEF FleetInv, FleetTypeOK, ScanOn, Put
    <1>2. PICK p \in Phones : p = scan.on
      BY <1>1
    <1>3. /\ scan.alone /\ scan'.pc = "look" /\ scan'.on = "nobody"
          /\ scan'.live = scan.live /\ scan'.before = scan.before /\ scan'.left = scan.left
      BY <1>1 DEF ScanType, Put
    <1>4. record' = [record EXCEPT ![p] = scan.copy]
          /\ record \in [Phones -> Row \union {NoRow}]
      BY <1>2 DEF Put, Write, FleetInv, FleetTypeOK
    <1>5. \A q \in Phones : Settled(q, scan.before[q])' = Settled(q, scan.before[q])
      BY <1>1, <1>3 DEF Settled, IsAllowed
    <1>6. p \in scan.live /\ p \notin scan.left /\ scan.copy = Settled(p, scan.before[p])
      BY <1>1, <1>2, <1>3 DEF LoneInv
    <1>7. Done(p)'
      BY <1>4, <1>5, <1>6 DEF Done
    <1>8. \A q \in Phones \ {p} : (Done(q) <=> Done(q)') /\ (Undone(q) <=> Undone(q)')
      BY <1>3, <1>4, <1>5 DEF Done, Undone
    <1>9. "nobody" \notin Phones
      BY FleetAssumption
    <1>10. QED
      BY <1>1, <1>2, <1>3, <1>6, <1>7, <1>8, <1>9 DEF LoneInv

LEMMA LoneSnapshot ==
    ASSUME FleetInv, LoneInv, Snapshot
    PROVE  LoneInv'
    <1> SUFFICES ASSUME scan'.alone PROVE LoneInv'
      BY DEF LoneInv
    <1> DEFINE missing == {q \in Phones : Missing(q)}
               copies == [q \in Phones |-> IF q \in missing THEN record[q] ELSE NoRow]
    <1>1. /\ scan \in ScanType /\ record' = record /\ allowlist' = allowlist
          /\ scan.pc = "look" /\ scan.left = {}
      BY DEF FleetInv, FleetTypeOK, Snapshot
    <1>2. scan' = [scan EXCEPT !.pc = "mark", !.left = missing, !.snapshot = copies]
      BY DEF Snapshot
    <1> HIDE DEF missing, copies
    <1>3. /\ scan.alone /\ scan'.pc = "mark" /\ scan'.left = missing
          /\ scan'.snapshot = copies /\ scan'.live = scan.live /\ scan'.before = scan.before
      BY <1>1, <1>2 DEF ScanType
    <1>4. "nobody" \notin Phones
      BY FleetAssumption
    <1>5. ASSUME NEW p \in Phones
          PROVE  /\ p \in missing => Marked(copies[p]) = Settled(p, scan.before[p])
                 /\ p \notin missing => Done(p)
      <2>1. record[p] \in Row \union {NoRow}
        BY PartTypes DEF FleetInv
      <2>2. p \in scan.live => Done(p)
        BY <1>1, <1>3, <1>4 DEF LoneInv
      <2>3. p \notin scan.live => record[p] = scan.before[p]
        BY <1>1, <1>3 DEF LoneInv, Undone
      <2>4. p \in missing <=> Missing(p)
        BY DEF missing
      <2>5. p \in missing => copies[p] = record[p]
        BY DEF copies
      <2>6. ASSUME p \in missing PROVE Marked(copies[p]) = Settled(p, scan.before[p])
        BY <2>1, <2>3, <2>4, <2>5, <2>6, SettledCases DEF Missing
      <2>7. ASSUME p \notin missing, p \notin scan.live PROVE Done(p)
        <3>1. Settled(p, record[p]) = record[p]
          <4>1. CASE IsAllowed(p) /\ record[p].state # "retired" /\ Present(record[p])
            BY <2>1, <2>4, <2>7, <4>1, SettledCases DEF Missing
          <4>2. CASE ~Present(record[p])
            BY <2>1, <2>7, <4>2, SettledCases
          <4>3. CASE ~IsAllowed(p) \/ record[p].state = "retired"
            BY <2>1, <4>3, SettledCases
          <4>4. QED
            BY <4>1, <4>2, <4>3
        <3>2. QED
          BY <2>3, <2>7, <3>1 DEF Done
      <2>8. QED
        BY <2>2, <2>6, <2>7
    <1>6. \A q \in Phones : (Done(q) <=> Done(q)')
                            /\ Settled(q, scan.before[q])' = Settled(q, scan.before[q])
      BY <1>1, <1>3 DEF Done, Settled, IsAllowed
    <1>7. QED
      BY <1>3, <1>5, <1>6 DEF LoneInv

LEMMA LoneMark ==
    ASSUME FleetInv, LoneInv, NEW p \in Phones, Mark(p)
    PROVE  LoneInv'
    <1> SUFFICES ASSUME scan'.alone PROVE LoneInv'
      BY DEF LoneInv
    <1>1. scan \in ScanType /\ allowlist' = allowlist /\ scan.pc = "mark" /\ p \in scan.left
      BY DEF FleetInv, FleetTypeOK, Mark
    <1>2. /\ scan.alone /\ scan'.pc = "mark" /\ scan'.left = scan.left \ {p}
          /\ scan'.live = scan.live /\ scan'.before = scan.before
          /\ scan'.snapshot = [scan.snapshot EXCEPT ![p] = NoRow]
      BY <1>1 DEF ScanType, Mark
    <1>3. record' = [record EXCEPT ![p] = Marked(scan.snapshot[p])]
          /\ record \in [Phones -> Row \union {NoRow}]
          /\ scan.snapshot \in [Phones -> Row \union {NoRow}]
      BY DEF Mark, Write, FleetInv, FleetTypeOK, ScanType
    <1>4. \A q \in Phones : Settled(q, scan.before[q])' = Settled(q, scan.before[q])
      BY <1>1, <1>2 DEF Settled, IsAllowed
    <1>5. Done(p)'
      BY <1>1, <1>2, <1>3, <1>4 DEF LoneInv, Done
    <1>6. \A q \in Phones \ {p} : (Done(q) <=> Done(q)') /\ scan'.snapshot[q] = scan.snapshot[q]
      BY <1>2, <1>3, <1>4 DEF Done
    <1>7. QED
      BY <1>1, <1>2, <1>4, <1>5, <1>6 DEF LoneInv

\* Whoever else writes lets the scan know; nobody else touches it.
LEMMA LoneOthers ==
    ASSUME FleetInv, LoneInv,
           \/ ScanFails \/ ScanDone \/ PutNumber \/ RequestWrites
           \/ UNCHANGED <<record, allowlist, scan>>
    PROVE  LoneInv'
    <1>1. scan \in ScanType
      BY DEF FleetInv, FleetTypeOK
    <1>2. CASE ScanFails
      BY <1>2 DEF ScanFails, NoScan, LoneInv
    <1>3. CASE PutNumber \/ RequestWrites
      <2>1. scan'.alone = FALSE
        BY <1>1, <1>3 DEF PutNumber, RequestWrites, Overtaken, ScanType
      <2>2. QED
        BY <2>1 DEF LoneInv
    <1>4. CASE ScanDone
      <2>1. /\ scan.pc = "mark" /\ scan.left = {} /\ scan'.pc = "done" /\ scan'.alone = scan.alone
            /\ scan'.live = scan.live /\ scan'.before = scan.before
            /\ record' = record /\ allowlist' = allowlist
        BY <1>1, <1>4 DEF ScanDone, ScanType
      <2>2. \A q \in Phones : Done(q) <=> Done(q)'
        BY <2>1 DEF Done, Settled, IsAllowed
      <2>3. QED
        BY <2>1, <2>2 DEF LoneInv
    <1>5. CASE UNCHANGED <<record, allowlist, scan>>
      BY <1>5 DEF LoneInv, Done, Undone, Settled, IsAllowed
    <1>6. QED
      BY <1>2, <1>3, <1>4, <1>5

LEMMA LoneStep == FleetInv /\ LoneInv /\ [Next]_vars => LoneInv'
    <1> SUFFICES ASSUME FleetInv, LoneInv, [Next]_vars
                 PROVE  LoneInv'
      OBVIOUS
    <1>1. CASE UNCHANGED <<record, allowlist, scan>>
      BY <1>1, LoneOthers
    <1>2. CASE ~UNCHANGED <<record, allowlist, scan>>
      <2>1. \/ \E live \in SUBSET Phones : ScanBegin(live)
            \/ \E p \in Phones : Look(p) \/ Mark(p)
            \/ Put \/ Snapshot \/ ScanFails \/ ScanDone \/ PutNumber \/ RequestWrites
        BY <1>2 DEF Next, vars, ReadingBegin, PressHome, Dump, Detect, ReadRecord, ReadingFails,
                    RequestBegin, RequestFails, UseApp
      <2>2. QED
        BY <2>1, LoneScanBegin, LoneLook, LonePut, LoneSnapshot, LoneMark, LoneOthers
    <1>3. QED
      BY <1>1, <1>2

\* For any fleet: a scan that ends, and during which nobody else wrote, has
\* settled every phone, in whatever order it took the devices and the snapshot.
THEOREM LoneScansSettle == Spec => []LoneScanSettles
    <1>1. Init => LoneInv
      BY DEF Init, NoScan, LoneInv
    <1>2. FleetInv /\ LoneInv => LoneScanSettles
      <2> SUFFICES ASSUME FleetInv, LoneInv, scan.pc = "done", scan.alone
                   PROVE  record = [p \in Phones |-> Settled(p, scan.before[p])]
        BY DEF LoneScanSettles
      <2>1. record \in [Phones -> Row \union {NoRow}]
        BY DEF FleetInv, FleetTypeOK
      <2>2. \A p \in Phones : record[p] = Settled(p, scan.before[p])
        BY DEF LoneInv, Done
      <2>3. QED
        BY <2>1, <2>2
    <1>3. QED
      BY <1>1, <1>2, LoneStep, FleetInvariant, PTL DEF Spec
=============================================================================
