----------------------------- MODULE FleetSync -----------------------------
(***************************************************************************)
(* Three services that rewrite phone records without the control loop:     *)
(* the device scan (SyncLiveDevices), which adds connected devices, marks  *)
(* phones that are gone and takes the mark off those that are back; the    *)
(* reading of a phone's stand number off its home screen (SyncFromHome);   *)
(* and the requests that edit a record.  Each reads a record, or all of    *)
(* them, and writes whole records later.  Some of them keep to an          *)
(* allowlist of serials.                                                   *)
(***************************************************************************)
EXTENDS Integers, FiniteSets

CONSTANTS
    Phones,         \* serials, known or not
    Stand,          \* phone -> the number its home screen shows
    Others,         \* other numbers that screens show
    Allowlists,     \* the allowlists that may be configured
    MaxScans,       \* bounds on the scans,
    MaxReadings,    \* on the readings of a number
    MaxRequests     \* and on the requests of a behaviour

MaxNumber == 32767      \* the column is a SMALLINT

ASSUME FleetAssumption ==
    /\ Stand \in [Phones -> 0 .. MaxNumber]
    /\ Others \subseteq Nat
    /\ Allowlists \subseteq SUBSET Phones
    /\ {MaxScans, MaxReadings, MaxRequests} \subseteq Nat
    /\ "nobody" \notin Phones

VARIABLES
    record,     \* serial -> row of the phones table
    allowlist,  \* serials configured; none configured allows all
    unique,     \* Postgres, with its unique index on the numbers?
    scan,       \* the device scan
    reading,    \* the reading of a number
    request,    \* a request that edits a record
    used        \* scans, readings and requests begun

vars == <<record, allowlist, unique, scan, reading, request, used>>

-----------------------------------------------------------------------------
(***************************************************************************)
(* Records.                                                                *)
(***************************************************************************)

NoNumber == -1

Row == [state : {"new", "working", "paused", "error", "retired"},
        lastError : {"none", "reason", "adbMissing"},
        number : NoNumber .. MaxNumber,
        readyAt : BOOLEAN]          \* is ReadyAt set?

NoRow == [state |-> "absent"]
Present(r) == r # NoRow

\* AddPhone's record ("new") and the one a scan adds for a device ("working").
Fresh(st) == [state |-> st, lastError |-> "none", number |-> NoNumber,
              readyAt |-> st = "working"]

\* A phone that an operator or a failed call has put in error, before or after
\* it was ever ready.
Failed(ready) == [Fresh("error") EXCEPT !.lastError = "reason", !.readyAt = ready]

Marked(r) == [r EXCEPT !.state = "error", !.lastError = "adbMissing"]
IsMarked(r) == r.state = "error" /\ r.lastError = "adbMissing"

\* Faulty variant of Refreshed: every phone in error is put back to work.
RefreshedAll(r) ==
    IF r.state = "error" THEN [r EXCEPT !.state = "working", !.lastError = "none"] ELSE r

\* A device that is there: the mark is taken off.  Every marked phone goes to
\* work, whatever it did before, and without a ReadyAt if it had none.
Refreshed(r) ==
    IF IsMarked(r) THEN [r EXCEPT !.state = "working", !.lastError = "none"] ELSE r

IsAllowed(p) == allowlist = {} \/ p \in allowlist

\* Does the table take r as the row of p?
Accepts(p, r) ==
    unique /\ r.number # NoNumber =>
        \A q \in Phones \ {p} : Present(record[q]) => record[q].number # r.number

\* store.Save adds a row, store.Update replaces it; either may fail.
CanSave(p, r) == ~Present(record[p]) /\ Accepts(p, r)
CanUpdate(p, r) == Present(record[p]) /\ Accepts(p, r)
Write(p, r) == record' = [record EXCEPT ![p] = r]

-----------------------------------------------------------------------------
(***************************************************************************)
(* Numbers on a screen.  A screen is the set of numbers it shows.          *)
(***************************************************************************)

\* A home screen shows the phone's number, if it is put up there (shown), and
\* perhaps others, a date for instance; an app may show any numbers.
Screen(p, front, shown) ==
    IF front = "home"
    THEN {ns \union {n \in {Stand[p]} : shown} : ns \in SUBSET Others}
    ELSE SUBSET (Others \union {Stand[q] : q \in Phones})

\* Faulty variant of Candidates: a number is cut to sixteen bits.
CandidatesCut(texts) == {IF n > MaxNumber THEN n - 2 * (MaxNumber + 1) ELSE n : n \in texts}

\* addStandSeqCandidate: a number too large for the column is no candidate.
Candidates(texts) == {n \in texts : n <= MaxNumber}

\* extractStandSeqFromTexts: what may be returned; nothing, unless there is
\* just one candidate.
Extract(texts) == IF Cardinality(Candidates(texts)) = 1 THEN Candidates(texts) ELSE {}

Ambiguous(texts) == Cardinality(Candidates(texts)) > 1

-----------------------------------------------------------------------------
NoScan == [pc |-> "idle", live |-> {}, left |-> {}, on |-> "nobody", copy |-> NoRow,
           snapshot |-> [p \in Phones |-> NoRow], before |-> [p \in Phones |-> NoRow],
           alone |-> TRUE]
\* front: what the phone shows; shown: does its home screen have its number?
NoReading == [pc |-> "idle", on |-> "nobody", front |-> "app", shown |-> FALSE,
              number |-> NoNumber, source |-> "none", copy |-> NoRow, moved |-> FALSE]
NoRequest == [op |-> "none", on |-> "nobody", copy |-> NoRow]

Init ==
    /\ record \in [Phones -> {NoRow, Fresh("working"), Fresh("retired"),
                              Failed(TRUE), Marked(Failed(FALSE))}]
    /\ allowlist \in Allowlists
    /\ unique \in BOOLEAN
    /\ scan = NoScan /\ reading = NoReading /\ request = NoRequest
    /\ used = [scans |-> 0, readings |-> 0, requests |-> 0]

\* What the scan remembers of being alone, when another writes.
Overtaken == [scan EXCEPT !.alone = FALSE, !.before = NoScan.before]

-----------------------------------------------------------------------------
(***************************************************************************)
(* The device scan.                                                        *)
(***************************************************************************)

ScanBegin(live) ==
    /\ scan.pc \in {"idle", "done"} /\ used.scans < MaxScans
    /\ scan' = [NoScan EXCEPT !.pc = "look", !.live = live, !.before = record,
                              !.left = {p \in live : IsAllowed(p)}]
    /\ used' = [used EXCEPT !.scans = @ + 1]
    /\ UNCHANGED <<record, allowlist, unique, reading, request>>

\* One device of the list: its record is read.  A retired phone is passed over.
Look(p) ==
    /\ scan.pc = "look" /\ p \in scan.left
    /\ LET r == record[p]
       IN  scan' = IF Present(r) /\ r.state = "retired"
                   THEN [scan EXCEPT !.left = @ \ {p}]
                   ELSE [scan EXCEPT
                      !.left = @ \ {p}, !.on = p,
                      !.pc = IF Present(r) THEN "update" ELSE "save",
                      !.copy = IF Present(r) THEN Refreshed(r) ELSE Fresh("working")]
    /\ UNCHANGED <<record, allowlist, unique, reading, request, used>>

Put ==
    /\ \/ scan.pc = "update" /\ CanUpdate(scan.on, scan.copy)
       \/ scan.pc = "save" /\ CanSave(scan.on, scan.copy)
    /\ Write(scan.on, scan.copy)
    /\ scan' = [scan EXCEPT !.pc = "look", !.on = "nobody", !.copy = NoRow]
    /\ UNCHANGED <<allowlist, unique, reading, request, used>>

\* Faulty variant of Missing: the allowlist is not looked at.
MissingAnywhere(p) ==
    /\ Present(record[p]) /\ record[p].state # "retired"
    /\ p \notin scan.live /\ ~IsMarked(record[p])

\* Is p, as the snapshot will have it, to be marked?
Missing(p) ==
    /\ IsAllowed(p) /\ Present(record[p]) /\ record[p].state # "retired"
    /\ p \notin scan.live /\ ~IsMarked(record[p])

\* ListAll, after the last device.
Snapshot ==
    /\ scan.pc = "look" /\ scan.left = {}
    /\ LET missing == {p \in Phones : Missing(p)}
       IN  scan' = [scan EXCEPT
              !.pc = "mark", !.left = missing,
              !.snapshot = [p \in Phones |-> IF p \in missing THEN record[p] ELSE NoRow]]
    /\ UNCHANGED <<record, allowlist, unique, reading, request, used>>

\* The snapshot's record is written, marked.
Mark(p) ==
    /\ scan.pc = "mark" /\ p \in scan.left
    /\ CanUpdate(p, Marked(scan.snapshot[p]))
    /\ Write(p, Marked(scan.snapshot[p]))
    /\ scan' = [scan EXCEPT !.left = @ \ {p}, !.snapshot[p] = NoRow]
    /\ UNCHANGED <<allowlist, unique, reading, request, used>>

\* The store refuses a call, and the scan stops where it is.
ScanFails ==
    /\ \/ scan.pc \in {"look", "update", "save"}
       \/ scan.pc = "mark" /\ scan.left # {}
    /\ scan' = NoScan
    /\ UNCHANGED <<record, allowlist, unique, reading, request, used>>

ScanDone ==
    /\ scan.pc = "mark" /\ scan.left = {}
    /\ scan' = [scan EXCEPT !.pc = "done"]
    /\ UNCHANGED <<record, allowlist, unique, reading, request, used>>

-----------------------------------------------------------------------------
(***************************************************************************)
(* SyncFromHome.                                                           *)
(***************************************************************************)

\* GetPhone keeps to the allowlist.
ReadingBegin(p) ==
    /\ reading.pc = "idle" /\ used.readings < MaxReadings
    /\ IsAllowed(p) /\ Present(record[p])
    /\ \E front \in {"home", "app"}, shown \in BOOLEAN :
        reading' = [NoReading EXCEPT !.pc = "home", !.on = p, !.front = front, !.shown = shown]
    /\ used' = [used EXCEPT !.readings = @ + 1]
    /\ UNCHANGED <<record, allowlist, unique, scan, request>>

PressHome ==
    /\ reading.pc = "home"
    /\ reading' = [reading EXCEPT !.pc = "dump", !.front = "home"]
    /\ UNCHANGED <<record, allowlist, unique, scan, request, used>>

\* The number is kept for the write, with where it was read.
Found(n, source) == [reading EXCEPT !.pc = "get", !.number = n, !.source = source,
                             !.front = "app"]

\* DumpUI: one number is taken, several end the reading, none or a dump that
\* fails leaves it to the screenshot.
Dump ==
    /\ reading.pc = "dump"
    /\ \/ \E texts \in Screen(reading.on, reading.front, reading.shown) :
            \/ \E n \in Extract(texts) : reading' = Found(n, "ui_dump")
            \/ Extract(texts) = {} /\ Ambiguous(texts) /\ reading' = NoReading
            \/ Candidates(texts) = {} /\ reading' = [reading EXCEPT !.pc = "detect"]
       \/ reading' = [reading EXCEPT !.pc = "detect"]
    /\ UNCHANGED <<record, allowlist, unique, scan, request, used>>

\* DetectState: what the model made of a screenshot may hold any numbers.
Detect ==
    /\ reading.pc = "detect"
    /\ \E texts \in SUBSET (Others \union {Stand[q] : q \in Phones}) :
        \/ \E n \in Extract(texts) : reading' = Found(n, "vlm_screenshot")
        \/ Extract(texts) = {} /\ reading' = NoReading
    /\ UNCHANGED <<record, allowlist, unique, scan, request, used>>

\* SetStandSeqNumber reads the record,
ReadRecord ==
    /\ reading.pc = "get" /\ Present(record[reading.on])
    /\ reading' = [reading EXCEPT !.pc = "put",
                      !.copy = [record[reading.on] EXCEPT !.number = reading.number]]
    /\ UNCHANGED <<record, allowlist, unique, scan, request, used>>

\* and writes it with the number.
PutNumber ==
    /\ reading.pc = "put" /\ CanUpdate(reading.on, reading.copy)
    /\ Write(reading.on, reading.copy)
    /\ reading' = NoReading
    /\ scan' = Overtaken
    /\ UNCHANGED <<allowlist, unique, request, used>>

\* Faulty variant of ReadingFails: home could not be pressed, and the screen
\* is read all the same.
ReadingGoesOn ==
    /\ reading.pc # "idle"
    /\ reading' = IF reading.pc = "home" THEN [reading EXCEPT !.pc = "dump"] ELSE NoReading
    /\ UNCHANGED <<record, allowlist, unique, scan, request, used>>

\* A call fails, or the caller has gone: the number stays as it was.
ReadingFails ==
    /\ reading.pc # "idle"
    /\ reading' = NoReading
    /\ UNCHANGED <<record, allowlist, unique, scan, request, used>>

-----------------------------------------------------------------------------
(***************************************************************************)
(* Requests, and a screen that others use.                                 *)
(***************************************************************************)

Ops == {"add", "remove", "pause", "resume", "reprovision", "number"}

\* Those that do not keep to the allowlist.
Unlisted == {"pause", "resume", "reprovision", "number"}

\* The record a request writes: a pause gives its reason, a resume leaves the
\* last error as it is and sets ReadyAt, a reprovisioning takes it away.
Edited(op, r, n) ==
    CASE op = "add" -> [Fresh("new") EXCEPT !.number = n]
      [] op = "remove" -> [r EXCEPT !.state = "retired"]
      [] op = "pause" -> [r EXCEPT !.state = "paused", !.lastError = "reason"]
      [] op = "resume" -> [r EXCEPT !.state = "working", !.readyAt = TRUE]
      [] op = "reprovision" -> [r EXCEPT !.state = "new", !.readyAt = FALSE]
      [] op = "number" -> [r EXCEPT !.number = n]

RequestBegin(op, p) ==
    /\ request.op = "none" /\ used.requests < MaxRequests
    /\ op \in Unlisted \/ IsAllowed(p)
    /\ (op = "add") = ~Present(record[p])
    /\ \E n \in {NoNumber} \union {Stand[q] : q \in Phones} :
        /\ op \notin {"add", "number"} => n = NoNumber
        /\ request' = [op |-> op, on |-> p, copy |-> Edited(op, record[p], n)]
    /\ used' = [used EXCEPT !.requests = @ + 1]
    /\ UNCHANGED <<record, allowlist, unique, scan, reading>>

RequestWrites ==
    /\ request.op # "none"
    /\ IF request.op = "add" THEN CanSave(request.on, request.copy)
       ELSE CanUpdate(request.on, request.copy)
    /\ Write(request.on, request.copy)
    /\ request' = NoRequest
    /\ scan' = Overtaken
    /\ UNCHANGED <<allowlist, unique, reading, used>>

\* The write fails, for instance on a number that is taken, and the caller is
\* told; of a transition's write the error is dropped.
RequestFails ==
    /\ request.op # "none"
    /\ request' = NoRequest
    /\ UNCHANGED <<record, allowlist, unique, scan, reading, used>>

\* Between press and dump (1.2 s) a scenario, a recovery or an operator brings
\* an app to the front.
UseApp ==
    /\ reading.pc = "dump" /\ reading.front = "home"
    /\ reading' = [reading EXCEPT !.front = "app", !.moved = TRUE]
    /\ UNCHANGED <<record, allowlist, unique, scan, request, used>>

Next ==
    \/ \E live \in SUBSET Phones : ScanBegin(live)
    \/ \E p \in Phones : Look(p) \/ Mark(p)
    \/ Put \/ Snapshot \/ ScanFails \/ ScanDone
    \/ \E p \in Phones : ReadingBegin(p)
    \/ PressHome \/ Dump \/ Detect \/ ReadRecord \/ PutNumber \/ ReadingFails
    \/ \E op \in Ops, p \in Phones : RequestBegin(op, p)
    \/ RequestWrites \/ RequestFails
    \/ UseApp

Spec == Init /\ [][Next]_vars

-----------------------------------------------------------------------------
(***************************************************************************)
(* Properties.                                                             *)
(***************************************************************************)

\* The state's types: rows have the table's shape, numbers fit the column, and
\* so do the copies that the scan, the reading and a request are to write.
ScanType == [pc : {"idle", "look", "update", "save", "mark", "done"},
             live : SUBSET Phones, left : SUBSET Phones, on : Phones \union {"nobody"},
             copy : Row \union {NoRow}, snapshot : [Phones -> Row \union {NoRow}],
             before : [Phones -> Row \union {NoRow}], alone : BOOLEAN]

ReadingType == [pc : {"idle", "home", "dump", "detect", "get", "put"},
                on : Phones \union {"nobody"}, front : {"home", "app"}, shown : BOOLEAN,
                number : NoNumber .. MaxNumber, source : {"none", "ui_dump", "vlm_screenshot"},
                copy : Row \union {NoRow}, moved : BOOLEAN]

RequestType == [op : Ops \union {"none"}, on : Phones \union {"nobody"},
                copy : Row \union {NoRow}]

\* The table and what its writers hold keep those types, numbers that screens
\* show but the column cannot hold notwithstanding.
FleetTypeOK ==
    /\ record \in [Phones -> Row \union {NoRow}]
    /\ allowlist \in SUBSET Phones /\ unique \in BOOLEAN
    /\ scan \in ScanType /\ reading \in ReadingType /\ request \in RequestType

\* What a scan makes of the table when nobody else writes: allowed devices
\* that are unknown are at work, marked phones that are back are too, phones
\* that are gone are marked, and all else is as before, retired phones and
\* errors of other kinds included.
Settled(p, r) ==
    IF ~IsAllowed(p) \/ r.state = "retired" THEN r
    ELSE IF p \in scan.live
    THEN IF Present(r) /\ ~IsMarked(r) THEN r
         ELSE [state |-> "working", lastError |-> "none",
               number |-> IF Present(r) THEN r.number ELSE NoNumber,
               readyAt |-> Present(r) => r.readyAt]
    ELSE IF Present(r) THEN Marked(r) ELSE r

\* A scan that ends, and during which nobody else wrote, leaves every phone
\* as Settled says, through its separate passes over devices and snapshot
\* and in whatever order it takes them.
LoneScanSettles ==
    scan.pc = "done" /\ scan.alone =>
        record = [p \in Phones |-> Settled(p, scan.before[p])]

\* On a phone whose home screen shows its number, a number taken from a dump is
\* that one, unless another actor has brought an app to the front since home was
\* pressed: a failed press, a home screen with more numbers or with one too
\* large does not lead to a wrong one.
NumberIsPhones ==
    reading.pc \in {"get", "put"} /\ reading.source = "ui_dump"
    /\ reading.shown /\ ~reading.moved =>
        reading.number = Stand[reading.on]

\* A phone that is not on the allowlist is never added, retired, marked or
\* numbered by a scan, a reading or the routes that keep to the list, not
\* through a snapshot of the whole table either.
OffListLeftAlone ==
    [][\A p \in Phones :
        ~IsAllowed(p) /\ record'[p] # record[p] => request.on = p /\ request.op \in Unlisted]_vars
=============================================================================
