---------------------------- MODULE DeviceState ----------------------------
(***************************************************************************)
(* The device_state row of one device and everything that writes it        *)
(* (internal/core/engine.go, connections.go): touchState and               *)
(* syncDeviceBusinessStatus at the two ends of handleStandard, the         *)
(* listener's ReportConnection, UpdateDeviceState for states reported by   *)
(* MQTT or HTTP, SetAlarmStatus, and the periodic ScanOffline.             *)
(*                                                                         *)
(* Every writer reads the row, changes its copy and upserts the whole      *)
(* copy.  The stripe lock covers one process and not the read of           *)
(* syncDeviceBusinessStatus nor that of ScanOffline.                       *)
(***************************************************************************)
EXTENDS Integers, FiniteSets

CONSTANTS
    Workers,    \* goroutines that serve messages, sessions and operators
    Scanners,   \* goroutines that run ScanOffline
    Procs,      \* processes
    ProcOf,     \* ProcOf[w]: the process of goroutine w
    Stamps,     \* timestamps of messages, all positive
    Kinds,      \* kinds of messages under consideration
    Jobs,       \* kinds of stateJobs under consideration
    Tolerance,  \* report interval and offline tolerance together
    MaxTime,    \* bound on the clock
    MaxStateJobs,    \* bound on stateJobs
    NoState         \* no row, no lock holder

Actors == Workers \cup Scanners
AllKinds == {"property", "alarm", "clear", "CONNECTED", "DISCONNECTED"}
AllJobs == {"message", "session", "external", "operator"}
StateRow == [seen : Stamps \cup {0},
        biz  : {"UNKNOWN", "ONLINE", "ALARM", "OFFLINE", "SUSPECTED_OFFLINE"},
        conn : {"UNKNOWN", "CONNECTED", "DISCONNECTED"},
        data : {"UNKNOWN", "ACTIVE", "SILENT"}]

ASSUME DeviceAssumption ==
    /\ Stamps \subseteq Nat \ {0}
    /\ ProcOf \in [Actors -> Procs]
    /\ Kinds \subseteq AllKinds /\ Jobs \subseteq AllJobs
    /\ Tolerance \in Nat /\ MaxTime \in Nat /\ MaxStateJobs \in Nat
    /\ Workers \cap Scanners = {}
    /\ NoState \notin Actors /\ NoState \notin StateRow

VARIABLES
    row,    \* the device_state row, or NoState
    alarmed, \* the device has an ACTIVE or ACKED alarm
    lock,   \* lock[p]: the goroutine of process p that holds the stripe lock
    task,   \* task[w]: [pc, ts, kind, copy]
    now,    \* Clock.Now
    stateJobs    \* stateJobs left

statevars == <<row, alarmed, lock, task, now, stateJobs>>

NewRow == [seen |-> 0, biz |-> "UNKNOWN", conn |-> "UNKNOWN", data |-> "UNKNOWN"]
Idle == [pc |-> "idle", ts |-> 0, kind |-> "property", copy |-> NewRow]

At(w, pc) == task[w].pc = pc
Goto(w, pc) == task' = [task EXCEPT ![w].pc = pc]
With(w, pc, copy) == task' = [task EXCEPT ![w].pc = pc, ![w].copy = copy]
Lock(w) == lock[ProcOf[w]] \in {NoState, w} /\ lock' = [lock EXCEPT ![ProcOf[w]] = w]
UnlockState(w) == lock' = [lock EXCEPT ![ProcOf[w]] = NoState]
Current == IF row = NoState THEN NewRow ELSE row

(***************************************************************************)
(* Jobs.                                                                   *)
(***************************************************************************)
Takes(w, job) == At(w, "idle") /\ job \in Jobs /\ stateJobs > 0 /\ stateJobs' = stateJobs - 1

HandleStandard(w, ts, kind) ==
    /\ Takes(w, "message")
    /\ task' = [task EXCEPT ![w] = [Idle EXCEPT !.pc = "touch", !.ts = ts, !.kind = kind]]
    /\ UNCHANGED <<row, alarmed, lock, now>>

\* ReportConnection: read and change the row under the lock.
ReportConnection(w, status) ==
    /\ Takes(w, "session")
    /\ Lock(w)
    /\ With(w, "update", [Current EXCEPT !.conn = status])
    /\ UNCHANGED <<row, alarmed, now>>

\* A state reported from outside: handleState, SubscribeDeviceState, HTTP.
ReportState(w, s) ==
    /\ Takes(w, "external")
    /\ With(w, "update", s)
    /\ UNCHANGED <<row, alarmed, lock, now>>

\* SetAlarmStatus(CLOSED) and closeRuleAlarms end in the same synchronisation.
CloseAlarm(w) ==
    /\ Takes(w, "operator")
    /\ alarmed
    /\ alarmed' = FALSE
    /\ Goto(w, "sync")
    /\ UNCHANGED <<row, lock, now>>

(***************************************************************************)
(* handleStandard: touchState ...                                          *)
(***************************************************************************)
TouchRead(w) ==
    /\ At(w, "touch")
    /\ Lock(w)
    /\ With(w, "touched", Current)
    /\ UNCHANGED <<row, alarmed, now, stateJobs>>

Touched(old, ts, kind) ==
    [seen |-> ts,
     biz  |-> IF kind = "alarm" \/ old.biz = "ALARM" THEN "ALARM" ELSE "ONLINE",
     conn |-> IF kind \in {"CONNECTED", "DISCONNECTED"} THEN kind ELSE old.conn,
     data |-> "ACTIVE"]

\* Faulty variants, named Bad*, are bugs the properties below must detect.
BadTouchWrite(w) ==
    /\ At(w, "touched")
    /\ IF task[w].ts < task[w].copy.seen
       THEN UNCHANGED <<row, lock>>
       ELSE row' = Touched(task[w].copy, task[w].ts, task[w].kind) /\ UnlockState(w)
    /\ Goto(w, "alarm")
    /\ UNCHANGED <<alarmed, now, stateJobs>>

TouchWrite(w) ==
    /\ At(w, "touched")
    /\ row' = IF task[w].ts < task[w].copy.seen THEN row
              ELSE Touched(task[w].copy, task[w].ts, task[w].kind)
    /\ UnlockState(w)
    /\ Goto(w, "alarm")
    /\ UNCHANGED <<alarmed, now, stateJobs>>

\* ... rules, component and direct alarms ...
AlarmsApplied(w) ==
    /\ At(w, "alarm")
    /\ alarmed' = CASE task[w].kind = "alarm" -> TRUE
                  [] task[w].kind = "clear" -> FALSE
                  [] OTHER -> alarmed
    /\ Goto(w, "sync")
    /\ UNCHANGED <<row, lock, now, stateJobs>>

\* ... and syncDeviceBusinessStatus: the row, the open alarms, the update.
SyncRead(w) ==
    /\ At(w, "sync")
    /\ IF row = NoState THEN task' = [task EXCEPT ![w] = Idle] ELSE With(w, "open", row)
    /\ UNCHANGED <<row, alarmed, lock, now, stateJobs>>

HasOpenAlarm(w) ==
    /\ At(w, "open")
    /\ With(w, "update", [task[w].copy EXCEPT !.biz = IF alarmed THEN "ALARM" ELSE "ONLINE"])
    /\ UNCHANGED <<row, alarmed, lock, now, stateJobs>>

(***************************************************************************)
(* updateDeviceState: a missing LastSeenAt is taken from the row.          *)
(***************************************************************************)
UpdateRead(w) ==
    /\ At(w, "update")
    /\ Lock(w)
    /\ With(w, "write", [task[w].copy EXCEPT !.seen = IF @ = 0 THEN Current.seen ELSE @])
    /\ UNCHANGED <<row, alarmed, now, stateJobs>>

UpdateWrite(w) ==
    /\ At(w, "write")
    /\ row' = task[w].copy
    /\ UnlockState(w)
    /\ task' = [task EXCEPT ![w] = Idle]
    /\ UNCHANGED <<alarmed, now, stateJobs>>

(***************************************************************************)
(* ScanOffline.                                                            *)
(***************************************************************************)
BadOverdue(r) == r.seen # 0 /\ r.seen + Tolerance < now /\ r.conn # "CONNECTED"

Overdue(r) == r.seen # 0 /\ r.seen + Tolerance < now

ScanOffline(w) ==
    /\ At(w, "idle")
    /\ row # NoState
    /\ Overdue(row)
    /\ With(w, "update", [row EXCEPT !.data = "SILENT",
           !.biz = IF row.conn = "CONNECTED" THEN "SUSPECTED_OFFLINE" ELSE "OFFLINE"])
    /\ UNCHANGED <<row, alarmed, lock, now, stateJobs>>

Tick ==
    /\ now < MaxTime
    /\ now' = now + 1
    /\ UNCHANGED <<row, alarmed, lock, task, stateJobs>>

NothingYet ==
    /\ row = NoState
    /\ alarmed = FALSE
    /\ lock = [p \in Procs |-> NoState]
    /\ task = [w \in Actors |-> Idle]
    /\ stateJobs = MaxStateJobs
StateInit == NothingYet /\ now = 0

Step(w) ==
    \/ TouchRead(w) \/ TouchWrite(w) \/ AlarmsApplied(w)
    \/ SyncRead(w) \/ HasOpenAlarm(w) \/ UpdateRead(w) \/ UpdateWrite(w)

Begin(w) ==
    \/ \E ts \in Stamps, kind \in Kinds : HandleStandard(w, ts, kind)
    \/ \E status \in {"CONNECTED", "DISCONNECTED"} : ReportConnection(w, status)
    \/ \E s \in {[NewRow EXCEPT !.seen = t, !.biz = "ONLINE", !.data = "ACTIVE"]
                    : t \in Stamps \cup {0}} : ReportState(w, s)
    \/ CloseAlarm(w)

StateNext ==
    \/ \E w \in Workers : Begin(w)
    \/ \E w \in Scanners : ScanOffline(w)
    \/ \E w \in Actors : Step(w)
    \/ Tick

StateSafety == StateInit /\ [][StateNext]_statevars

\* Goroutines run and time passes; sync.Mutex does not starve a waiter, so a
\* step that waits for the lock is taken although the scanner comes and goes.
StateFairness ==
    /\ \A w \in Actors : SF_statevars(Step(w))
    /\ \A w \in Scanners : WF_statevars(ScanOffline(w))
    /\ WF_statevars(Tick)

-----------------------------------------------------------------------------
\* The shape of the state; a goroutine holds its stripe lock exactly while it is
\* between a locked read and its upsert.
StateTypeOK ==
    /\ row \in StateRow \cup {NoState}
    /\ alarmed \in BOOLEAN
    /\ lock \in [Procs -> Actors \cup {NoState}]
    /\ task \in [Actors -> [pc : {"idle", "touch", "touched", "alarm", "sync", "open",
                                  "update", "write"},
                            ts : Stamps \cup {0}, kind : AllKinds, copy : StateRow]]
    /\ now \in 0 .. MaxTime
    /\ stateJobs \in 0 .. MaxStateJobs
    /\ \A w \in Actors : At(w, "touched") \/ At(w, "write") => lock[ProcOf[w]] = w
    /\ \A w \in Actors : lock[ProcOf[w]] = w =>
          At(w, "touched") \/ At(w, "write") \/ At(w, "update")

\* A device that no longer reports is found silent and stays so, whatever stale
\* copies are still written: every later scan repairs them.
QuietIsDetected == <>[](row # NoState /\ row.seen # 0 => row.data = "SILENT")

\* "Late retransmissions ... must not roll back current state": LastSeenAt never
\* decreases.
LateDoesNotRollBack == [][row # NoState => row'.seen >= row.seen]_statevars

=============================================================================
