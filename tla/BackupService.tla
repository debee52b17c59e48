----------------------------- MODULE BackupService -----------------------------
(***************************************************************************)
(* The backup service: a daily scheduler and manual requests export the    *)
(* device messages of two databases into two files, upload them with a     *)
(* manifest and record the task; a restore drill checks the stored files   *)
(* against the manifest. One export runs at a time; drills take no lock.   *)
(***************************************************************************)
EXTENDS Integers, Sequences, FiniteSets

CONSTANTS
    Tables,             \* <<kind, database>> pairs that receive rows
    MaxClock,           \* bound: half days; 2d is midnight, 2d + 1 the time of the run
    MaxBackups,         \* bound: backups started
    MaxStops,           \* bound: process deaths
    BNone,
    Garbage             \* what a manifest that cannot be decoded reads as

DayOf(t) == t \div 2
Days == 0 .. DayOf(MaxClock)
BackupFiles == {"raw", "parsed"}
Exports == <<<<"raw", "pg">>, <<"raw", "ch">>, <<"parsed", "pg">>, <<"parsed", "ch">>>>
Epoch == -1             \* the day of processed_at = 1, before every window of a day
AllDays == Days \cup {Epoch}    \* the window of a FULL backup: no predicate on time
BackupIds == 1 .. MaxBackups
Damaged == {<<"damaged", "", 0>>}
WrongSum == {<<"wrong", "", 0>>}         \* a checksum nothing has
NoSums == [f \in {} |-> WrongSum]        \* a manifest that names no file

BackupRows == BackupFiles \X {"pg", "ch"} \X Days     \* <<kind, database, day of the stamp>>
FileContents == (SUBSET BackupRows) \cup {Damaged}
Manifests == [BackupFiles -> SUBSET BackupRows]
Misread == [BackupFiles -> (SUBSET BackupRows) \cup {WrongSum}] \cup {NoSums}

ASSUME BackupAssumption ==
    /\ MaxClock \in Nat /\ MaxClock >= 2
    /\ Tables \subseteq BackupFiles \X {"pg", "ch"}
    /\ \A R \in FileContents \cup {WrongSum} : R # BNone
    /\ Garbage # BNone /\ BNone \notin Misread /\ Garbage \notin Misread

VARIABLES
    bclock,
    dbRows,     \* rows stored, as <<kind, database, day of their stamp>>
    lateRows,   \* those stored after their day had ended
    processed,  \* the standard messages whose processed_at is set
    btask,      \* backup_task: status and window of every backup
    object,     \* object[b]: the stored files and the manifest's checksums
    run,        \* the export that holds the mutex
    timer,      \* when the scheduler wakes; BNone while its own run is going on
    drill,      \* the last restore drill
    stops

qvars == <<bclock, dbRows, lateRows, processed, btask, object, run, timer, drill, stops>>

NoFiles == [f \in BackupFiles |-> BNone]
BackupIdle == [id |-> 0, step |-> 0, local |-> [f \in BackupFiles |-> {}], sched |-> FALSE]
NoDrill == [of |-> 0, sums |-> BNone, left |-> {}, status |-> "none", suspect |-> FALSE]

\* nextDailyRun: the first run time strictly after now.
nextDailyRun(now) == LET next == 2 * DayOf(now) + 1 IN IF next > now THEN next ELSE next + 2

BackupInit ==
    /\ bclock = 0 /\ dbRows = {} /\ lateRows = {} /\ processed = {} /\ stops = 0
    /\ btask = [b \in BackupIds |-> [status |-> "none", days |-> {}, had |-> {}]]
    /\ object = [b \in BackupIds |-> [files |-> NoFiles, manifest |-> BNone]]
    /\ run = BackupIdle /\ timer = nextDailyRun(0) /\ drill = NoDrill

\* Time passes; the scheduler's timer fires before the clock moves past it.
Tick ==
    /\ bclock < MaxClock /\ (timer = BNone \/ bclock < timer)
    /\ bclock' = bclock + 1
    /\ UNCHANGED <<dbRows, lateRows, processed, btask, object, run, timer, drill, stops>>

\* A message is stored under the day of its stamp, which a device clock may set back.
StoreRow(t, d) ==
    /\ t \in Tables /\ d <= DayOf(bclock)
    /\ LET row == <<t[1], t[2], d>>
       IN /\ row \notin dbRows /\ dbRows' = dbRows \cup {row}
          /\ lateRows' = IF d < DayOf(bclock) THEN lateRows \cup {row} ELSE lateRows
    /\ UNCHANGED <<bclock, processed, btask, object, run, timer, drill, stops>>

\* MarkStandardMessageProcessed: processed_at becomes 1, a millisecond after the epoch.
MarkProcessed(r) ==
    /\ r \in dbRows \ processed /\ r[1] = "parsed" /\ r[2] = "pg"
    /\ processed' = processed \cup {r}
    /\ UNCHANGED <<bclock, dbRows, lateRows, btask, object, run, timer, drill, stops>>

\* messageQueries: the time a window is compared with.
Stamp(r) == IF r \in processed THEN Epoch ELSE r[3]
InWindow(r, days) == Stamp(r) \in days

NewBackup == CHOOSE b \in BackupIds : btask[b].status = "none"

\* runDeviceData up to the RUNNING row. The rows a reader may count on are those of the
\* window that were stored in time.
Promised(days) == {r \in dbRows : InWindow(r, days)} \ lateRows
runDeviceData(days, sched) ==
    /\ run = BackupIdle /\ \E b \in BackupIds : btask[b].status = "none"
    /\ btask' = [btask EXCEPT ![NewBackup] =
                    [status |-> "RUNNING", days |-> days, had |-> Promised(days)]]
    /\ run' = [BackupIdle EXCEPT !.id = NewBackup, !.step = 1, !.sched = sched]
    /\ UNCHANGED <<bclock, dbRows, lateRows, processed, object, drill, stops>>

\* Run: a request for everything, or for the day before the request.
BadRun(kind) ==
    /\ runDeviceData(IF kind = "FULL" THEN AllDays ELSE {DayOf(bclock)}, FALSE)
    /\ UNCHANGED timer
Run(kind) ==
    /\ kind = "FULL" \/ bclock >= 2
    /\ runDeviceData(IF kind = "FULL" THEN AllDays ELSE {DayOf(bclock) - 1}, FALSE)
    /\ UNCHANGED timer

\* dailyDeviceDataScheduler: the day before the planned run, or nothing when the mutex
\* is taken; the next run is planned from the time it is then.
Scheduled ==
    /\ timer # BNone /\ bclock >= timer
    /\ \/ /\ timer >= 2 /\ runDeviceData({DayOf(timer) - 1}, TRUE) /\ timer' = BNone
       \/ /\ run # BackupIdle \/ timer < 2 \/ \A b \in BackupIds : btask[b].status # "none"
          /\ timer' = nextDailyRun(bclock)
          /\ UNCHANGED <<bclock, dbRows, lateRows, processed, btask, object, run, drill, stops>>

AfterRun == IF run.sched THEN nextDailyRun(bclock) ELSE timer

\* exportMessages: one query per table, on what it holds when the query runs.
exportMessages ==
    /\ run.step \in 1 .. Len(Exports)
    /\ LET e == Exports[run.step]
       IN run' = [run EXCEPT !.step = @ + 1, !.local[e[1]] = @ \cup
                    {r \in dbRows : r[1] = e[1] /\ r[2] = e[2] /\ InWindow(r, btask[run.id].days)}]
    /\ UNCHANGED <<bclock, dbRows, lateRows, processed, btask, object, timer, drill, stops>>

\* uploadAndVerify of the raw file, then of the parsed one: stored, then read back; what
\* does not read back as it was ends the backup.
UploadOrder == <<"raw", "parsed">>
PutFile ==
    /\ run.step \in {5, 7}
    /\ LET f == UploadOrder[(run.step - 3) \div 2]
       IN object' = [object EXCEPT ![run.id].files[f] = run.local[f]]
    /\ run' = [run EXCEPT !.step = @ + 1]
    /\ UNCHANGED <<bclock, dbRows, lateRows, processed, btask, timer, drill, stops>>
VerifyFile ==
    /\ run.step \in {6, 8}
    /\ LET f == UploadOrder[(run.step - 4) \div 2]
       IN object[run.id].files[f] = run.local[f]
    /\ run' = [run EXCEPT !.step = @ + 1]
    /\ UNCHANGED <<bclock, dbRows, lateRows, processed, btask, object, timer, drill, stops>>

\* The manifest carries the checksums of what was exported, and is the last object.
PutManifest ==
    /\ run.step = 9
    /\ object' = [object EXCEPT ![run.id].manifest = run.local]
    /\ run' = [run EXCEPT !.step = 10]
    /\ UNCHANGED <<bclock, dbRows, lateRows, processed, btask, timer, drill, stops>>

\* The row is completed; when the answer is lost the deferred update fails it again.
BadCompleteBackup(answered) ==
    /\ run.step \in {9, 10}
    /\ btask' = [btask EXCEPT ![run.id].status = "COMPLETED"]
    /\ IF answered THEN run' = BackupIdle /\ timer' = AfterRun
                   ELSE run' = [run EXCEPT !.step = 11] /\ UNCHANGED timer
    /\ UNCHANGED <<bclock, dbRows, lateRows, processed, object, drill, stops>>
CompleteBackup(answered) ==
    /\ run.step = 10
    /\ btask' = [btask EXCEPT ![run.id].status = "COMPLETED"]
    /\ IF answered THEN run' = BackupIdle /\ timer' = AfterRun
                   ELSE run' = [run EXCEPT !.step = 11] /\ UNCHANGED timer
    /\ UNCHANGED <<bclock, dbRows, lateRows, processed, object, drill, stops>>

\* Any step may fail; the deferred update of the row is tried once.
BackupFails(recorded) ==
    /\ run # BackupIdle
    /\ btask' = IF recorded THEN [btask EXCEPT ![run.id].status = "FAILED"] ELSE btask
    /\ run' = BackupIdle /\ timer' = AfterRun
    /\ UNCHANGED <<bclock, dbRows, lateRows, processed, object, drill, stops>>

\* The process dies and is started again: the row stays as it is, missed days stay missed.
StopBackup ==
    /\ stops < MaxStops /\ stops' = stops + 1
    /\ run' = BackupIdle /\ timer' = nextDailyRun(bclock)
    /\ drill' = IF drill.status = "RUNNING" THEN [drill EXCEPT !.left = {}, !.sums = BNone] ELSE drill
    /\ UNCHANGED <<bclock, dbRows, lateRows, processed, btask, object>>

\* External: an object of the bucket is damaged. A manifest may become unreadable, name no
\* file or carry a wrong checksum.
DamageObject(b, f) ==
    /\ object[b].files[f] \notin {BNone, Damaged}
    /\ object' = [object EXCEPT ![b].files[f] = Damaged]
    /\ UNCHANGED <<bclock, dbRows, lateRows, processed, btask, run, timer, drill, stops>>

Garbled(m) == m # BNone /\ (m \in {Garbage, NoSums} \/ \E f \in BackupFiles : m[f] = WrongSum)
DamageManifest(b) ==
    /\ object[b].manifest \in Manifests
    /\ \E m \in {Garbage, NoSums} \cup {[object[b].manifest EXCEPT ![f] = WrongSum] : f \in BackupFiles} :
          object' = [object EXCEPT ![b].manifest = m]
    /\ UNCHANGED <<bclock, dbRows, lateRows, processed, btask, run, timer, drill, stops>>

\* ListArtifacts and OpenArtifact: a download needs the manifest, the row and a file the
\* manifest names.
HasManifest(b) == object[b].manifest \notin {BNone, Garbage}
ListArtifacts(b) ==
    IF ~HasManifest(b) \/ btask[b].status = "none" THEN {}
    ELSE DOMAIN object[b].manifest \cup {"manifest"}
OpenArtifact(b, f) == f \in ListArtifacts(b) /\ object[b].files[f] # BNone

\* Verify: a drill of any backup whose manifest can be read; without one the row of the
\* drill stays RUNNING. Each file the manifest names is read and compared; when it names
\* none the drill is COMPLETED with nothing checked.
Verify(b) ==
    /\ drill.left = {} /\ btask[b].status # "none" /\ HasManifest(b)
    /\ LET m == object[b].manifest
       IN drill' = [of |-> b, sums |-> m, left |-> DOMAIN m,
                    status |-> IF DOMAIN m = {} THEN "COMPLETED" ELSE "RUNNING",
                    suspect |-> Garbled(m) \/ \E f \in BackupFiles : object[b].files[f] # m[f]]
    /\ UNCHANGED <<bclock, dbRows, lateRows, processed, btask, object, run, timer, stops>>
VerifyWithoutManifest(b) ==
    /\ drill.left = {} /\ btask[b].status # "none" /\ ~HasManifest(b)
    /\ drill' = [NoDrill EXCEPT !.of = b, !.status = "RUNNING"]
    /\ UNCHANGED <<bclock, dbRows, lateRows, processed, btask, object, run, timer, stops>>
BadVerifyArtifact(f) ==
    /\ f \in drill.left
    /\ LET good == object[drill.of].files[f] # BNone
       IN drill' = [drill EXCEPT !.left = IF good THEN @ \ {f} ELSE {},
                       !.status = IF ~good THEN "FAILED" ELSE IF drill.left = {f} THEN "COMPLETED" ELSE @]
    /\ UNCHANGED <<bclock, dbRows, lateRows, processed, btask, object, run, timer, stops>>
VerifyArtifact(f) ==
    /\ f \in drill.left
    /\ LET good == object[drill.of].files[f] = drill.sums[f]
       IN drill' = [drill EXCEPT !.left = IF good THEN @ \ {f} ELSE {},
                       !.status = IF ~good THEN "FAILED" ELSE IF drill.left = {f} THEN "COMPLETED" ELSE @]
    /\ UNCHANGED <<bclock, dbRows, lateRows, processed, btask, object, run, timer, stops>>

BackupNext ==
    \/ Tick \/ Scheduled \/ exportMessages \/ PutFile \/ VerifyFile \/ PutManifest \/ StopBackup
    \/ \E t \in Tables, d \in Days : StoreRow(t, d)
    \/ \E r \in dbRows : MarkProcessed(r)
    \/ \E kind \in {"FULL", "DAILY"} : Run(kind)
    \/ \E ok \in BOOLEAN : CompleteBackup(ok) \/ BackupFails(ok)
    \/ \E b \in BackupIds : Verify(b) \/ VerifyWithoutManifest(b) \/ DamageManifest(b)
    \/ \E b \in BackupIds, f \in BackupFiles : DamageObject(b, f)
    \/ \E f \in BackupFiles : VerifyArtifact(f)

BackupSpec == BackupInit /\ [][BackupNext]_qvars

-----------------------------------------------------------------------------
\* docs/DEPLOYMENT.md: a daily backup holds the previous day. A completed backup whose
\* manifest was not damaged lists every row of its day that was stored before the day
\* ended, however long the export took, and whatever kind of request started it, but for
\* the standard messages of PostgreSQL that have been processed: their processed_at lies in
\* no day's window (service.go:271), so a daily export may leave them out.
DailyIsWhole ==
    \A b \in BackupIds :
        /\ btask[b].status = "COMPLETED" /\ ~Garbled(object[b].manifest)
        /\ \E d \in Days : btask[b].days = {d}
        => \A r \in dbRows \ (lateRows \cup processed) :
              r[3] \in btask[b].days => r \in object[b].manifest[r[1]]

\* The rows a processing has moved out of the window of a day.
MovedOut(b) == IF btask[b].days = AllDays THEN {} ELSE processed

\* A completed backup whose manifest was not damaged can be downloaded: its manifest is
\* there and so is every file it names, with the content the manifest has the checksum of
\* unless it was damaged since. Of the rows that lay in the window at the start only the
\* ones a processing has moved out of a day's window meanwhile may be missing.
CompletedIsRestorable ==
    \A b \in BackupIds : btask[b].status = "COMPLETED" /\ ~Garbled(object[b].manifest) =>
        /\ \A f \in BackupFiles : OpenArtifact(b, f)
        /\ \A f \in BackupFiles : object[b].files[f] \in {object[b].manifest[f], Damaged}
        /\ btask[b].had \ MovedOut(b) \subseteq UNION {object[b].manifest[f] : f \in BackupFiles}

\* A drill passes a backup that was already damaged when the drill began, or was still
\* being written, only when the manifest names no file at all.
DrillDetectsDamage == drill.status = "COMPLETED" /\ drill.suspect => drill.sums = NoSums

\* A completed backup is whole but for processed standard messages, it can be restored,
\* and a drill finds it damaged if it is, as long as the manifest names its files.
BackupIsSound == DailyIsWhole /\ CompletedIsRestorable /\ DrillDetectsDamage

=============================================================================
