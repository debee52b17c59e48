------------------------------ MODULE WorkProofs ------------------------------
(***************************************************************************)
(* Proofs about the work in the background: device state, AI jobs, parse   *)
(* stage and replay, video events, Modbus collection. The components share *)
(* no state; each has an inductive invariant of its own.                   *)
(***************************************************************************)
EXTENDS WorkProperties, SequenceTheorems, FiniteSetTheorems, TLAPS

-----------------------------------------------------------------------------
(* DeviceState. The type invariant with the two clauses about the stripe   *)
(* lock is inductive: a goroutine that is between its locked read and its  *)
(* upsert holds the lock, so no other one of its process can take it.      *)

StateTask == [pc : {"idle", "touch", "touched", "alarm", "sync", "open", "update", "write"},
              ts : Stamps \cup {0}, kind : AllKinds, copy : StateRow]

\* What a step of goroutine w that gives it the task t and leaves the lock alone must
\* ensure, and what one that takes or releases it.
LEMMA StepKeepsLocks ==
    ASSUME StateTypeOK, NEW w \in Actors, NEW t \in StateTask,
           task' = [task EXCEPT ![w] = t],
           row' \in StateRow \cup {NoState}, alarmed' \in BOOLEAN,
           now' \in 0 .. MaxTime, stateJobs' \in 0 .. MaxStateJobs,
           \/ lock' = lock /\ (task[w].pc = t.pc \/ ({task[w].pc, t.pc} \cap {"touched", "write"} = {}
                                /\ (task[w].pc = "update" => t.pc = "update")))
           \/ /\ lock[ProcOf[w]] \in {NoState, w} /\ lock' = [lock EXCEPT ![ProcOf[w]] = w]
              /\ t.pc \in {"touched", "write", "update"}
           \/ /\ task[w].pc \in {"touched", "write"}
              /\ lock' = [lock EXCEPT ![ProcOf[w]] = NoState]
              /\ t.pc \notin {"touched", "write"}
    PROVE  StateTypeOK'
<1>1. /\ task \in [Actors -> StateTask] /\ lock \in [Procs -> Actors \cup {NoState}]
      /\ ProcOf \in [Actors -> Procs] /\ NoState \notin Actors
  BY DeviceAssumption DEF StateTypeOK, StateTask
<1>2. task' \in [Actors -> StateTask] /\ task'[w] = t /\ \A v \in Actors : v # w => task'[v] = task[v]
  BY <1>1
<1>3. lock' \in [Procs -> Actors \cup {NoState}]
  BY <1>1
<1> DEFINE p == ProcOf[w]
<1>6. p \in Procs /\ \A q \in Procs : q # p => lock'[q] = lock[q]
  BY <1>1
<1>7. \A v \in Actors : /\ task[v].pc \in {"touched", "write"} => lock[ProcOf[v]] = v
                        /\ lock[ProcOf[v]] = v => task[v].pc \in {"touched", "write", "update"}
  BY DEF StateTypeOK, At
<1> HIDE DEF p
<1>4. ASSUME NEW v \in Actors, task'[v].pc \in {"touched", "write"} PROVE lock'[ProcOf[v]] = v
  <2>1. CASE v = w
    BY <2>1, <1>1, <1>2, <1>4, <1>7 DEF p
  <2>2. CASE v # w
    <3>1. lock[ProcOf[v]] = v
      BY <2>2, <1>2, <1>4, <1>7
    <3>2. lock[p] \in {NoState, w} \/ lock[p] = w \/ lock' = lock
      BY <1>7 DEF p
    <3> QED BY <3>1, <3>2, <2>2, <1>1, <1>6
  <2> QED BY <2>1, <2>2
<1>5. ASSUME NEW v \in Actors, lock'[ProcOf[v]] = v PROVE task'[v].pc \in {"touched", "write", "update"}
  <2>1. CASE v = w
    BY <2>1, <1>1, <1>2, <1>5, <1>7, <1>6 DEF p
  <2>2. CASE v # w
    <3>1. lock[ProcOf[v]] = v
      BY <2>2, <1>1, <1>5, <1>6 DEF p
    <3> QED BY <3>1, <2>2, <1>2, <1>7
  <2> QED BY <2>1, <2>2
<1> QED BY <1>2, <1>3, <1>4, <1>5 DEF StateTypeOK, StateTask, At

\* Goto and With change the task of one goroutine, and keep its type.
LEMMA TaskMoves ==
    ASSUME task \in [Actors -> StateTask], NEW w \in Actors,
           NEW pc \in {"idle", "touch", "touched", "alarm", "sync", "open", "update", "write"}
    PROVE  /\ Goto(w, pc) => \E t \in StateTask : t.pc = pc /\ task' = [task EXCEPT ![w] = t]
           /\ \A c \in StateRow : With(w, pc, c) =>
                \E t \in StateTask : t.pc = pc /\ task' = [task EXCEPT ![w] = t]
<1>1. task[w] \in StateTask
  OBVIOUS
<1>2. ASSUME Goto(w, pc) PROVE \E t \in StateTask : t.pc = pc /\ task' = [task EXCEPT ![w] = t]
  <2> DEFINE t == [task[w] EXCEPT !.pc = pc]
  <2>1. t \in StateTask /\ t.pc = pc
    BY <1>1 DEF StateTask
  <2>2. task' = [task EXCEPT ![w] = t]
    BY <1>2 DEF Goto
  <2> QED BY <2>1, <2>2
<1>3. ASSUME NEW c \in StateRow, With(w, pc, c)
      PROVE  \E t \in StateTask : t.pc = pc /\ task' = [task EXCEPT ![w] = t]
  <2> DEFINE t == [task[w] EXCEPT !.pc = pc, !.copy = c]
  <2>1. t \in StateTask /\ t.pc = pc
    BY <1>1 DEF StateTask
  <2>2. task' = [task EXCEPT ![w] = t]
    BY <1>3 DEF With
  <2> QED BY <2>1, <2>2
<1> QED BY <1>2, <1>3

LEMMA IdleTask == Idle \in StateTask /\ Idle.pc = "idle" /\ NewRow \in StateRow
BY DEF Idle, StateTask, NewRow, StateRow, AllKinds

LEMMA StateStep == StateTypeOK /\ [StateNext]_statevars => StateTypeOK'
<1> SUFFICES ASSUME StateTypeOK, [StateNext]_statevars PROVE StateTypeOK'
  OBVIOUS
<1>t. /\ task \in [Actors -> StateTask] /\ row \in StateRow \cup {NoState} /\ alarmed \in BOOLEAN
      /\ now \in 0 .. MaxTime /\ stateJobs \in 0 .. MaxStateJobs
      /\ MaxTime \in Nat /\ MaxStateJobs \in Nat
  BY DeviceAssumption DEF StateTypeOK, StateTask
<1>c. Current \in StateRow
  BY <1>t, IdleTask DEF Current
<1>j. ASSUME stateJobs > 0, stateJobs' = stateJobs - 1 PROVE stateJobs' \in 0 .. MaxStateJobs
  BY <1>j, <1>t
<1>1. ASSUME NEW w \in Workers, NEW ts \in Stamps, NEW kind \in Kinds, HandleStandard(w, ts, kind)
      PROVE  StateTypeOK'
  <2> DEFINE t == [Idle EXCEPT !.pc = "touch", !.ts = ts, !.kind = kind]
  <2>1. t \in StateTask /\ t.pc = "touch"
    BY IdleTask, DeviceAssumption DEF StateTask
  <2>2. task' = [task EXCEPT ![w] = t] /\ task[w].pc = "idle" /\ UNCHANGED <<row, alarmed, lock, now>>
    BY <1>1 DEF HandleStandard, Takes, At
  <2>3. stateJobs' \in 0 .. MaxStateJobs
    BY <1>1, <1>j DEF HandleStandard, Takes
  <2> HIDE DEF t
  <2> QED BY <2>1, <2>2, <2>3, <1>t, StepKeepsLocks DEF Actors
<1>2. ASSUME NEW w \in Workers, NEW st \in {"CONNECTED", "DISCONNECTED"}, ReportConnection(w, st)
      PROVE  StateTypeOK'
  <2>1. [Current EXCEPT !.conn = st] \in StateRow
    BY <1>c DEF StateRow
  <2>2. PICK t \in StateTask : t.pc = "update" /\ task' = [task EXCEPT ![w] = t]
    BY <2>1, <1>2, <1>t, TaskMoves DEF ReportConnection, Actors
  <2>3. /\ lock[ProcOf[w]] \in {NoState, w} /\ lock' = [lock EXCEPT ![ProcOf[w]] = w]
        /\ UNCHANGED <<row, alarmed, now>>
    BY <1>2 DEF ReportConnection, Lock
  <2>4. stateJobs' \in 0 .. MaxStateJobs
    BY <1>2, <1>j DEF ReportConnection, Takes
  <2> QED BY <2>2, <2>3, <2>4, <1>t, StepKeepsLocks DEF Actors
<1>3. ASSUME NEW w \in Workers, NEW x \in StateRow, ReportState(w, x) PROVE StateTypeOK'
  <2>2. PICK t \in StateTask : t.pc = "update" /\ task' = [task EXCEPT ![w] = t]
    BY <1>3, <1>t, TaskMoves DEF ReportState, Actors
  <2>3. task[w].pc = "idle" /\ UNCHANGED <<row, alarmed, lock, now>>
    BY <1>3 DEF ReportState, Takes, At
  <2>4. stateJobs' \in 0 .. MaxStateJobs
    BY <1>3, <1>j DEF ReportState, Takes
  <2> QED BY <2>2, <2>3, <2>4, <1>t, StepKeepsLocks DEF Actors
<1>4. ASSUME NEW w \in Workers, CloseAlarm(w) PROVE StateTypeOK'
  <2>2. PICK t \in StateTask : t.pc = "sync" /\ task' = [task EXCEPT ![w] = t]
    BY <1>4, <1>t, TaskMoves DEF CloseAlarm, Actors
  <2>3. task[w].pc = "idle" /\ UNCHANGED <<row, lock, now>> /\ alarmed' = FALSE
    BY <1>4 DEF CloseAlarm, Takes, At
  <2>4. stateJobs' \in 0 .. MaxStateJobs
    BY <1>4, <1>j DEF CloseAlarm, Takes
  <2> QED BY <2>2, <2>3, <2>4, <1>t, StepKeepsLocks DEF Actors
<1>5. ASSUME NEW w \in Actors, TouchRead(w) PROVE StateTypeOK'
  <2>1. PICK t \in StateTask : t.pc = "touched" /\ task' = [task EXCEPT ![w] = t]
    BY <1>5, <1>c, <1>t, TaskMoves DEF TouchRead
  <2>2. /\ lock[ProcOf[w]] \in {NoState, w} /\ lock' = [lock EXCEPT ![ProcOf[w]] = w]
        /\ UNCHANGED <<row, alarmed, now, stateJobs>>
    BY <1>5 DEF TouchRead, Lock
  <2> QED BY <2>1, <2>2, <1>t, StepKeepsLocks
<1>6. ASSUME NEW w \in Actors, TouchWrite(w) PROVE StateTypeOK'
  <2>1. PICK t \in StateTask : t.pc = "alarm" /\ task' = [task EXCEPT ![w] = t]
    BY <1>6, <1>t, TaskMoves DEF TouchWrite
  <2>2. task[w] \in StateTask /\ task[w].pc = "touched"
    BY <1>6, <1>t DEF TouchWrite, At
  <2>3. Touched(task[w].copy, task[w].ts, task[w].kind) \in StateRow
    BY <2>2 DEF Touched, StateTask, StateRow, AllKinds
  <2>5. row' \in StateRow \cup {NoState}
    BY <1>6, <1>t, <2>3 DEF TouchWrite
  <2>6. lock' = [lock EXCEPT ![ProcOf[w]] = NoState] /\ UNCHANGED <<alarmed, now, stateJobs>>
    BY <1>6 DEF TouchWrite, UnlockState
  <2> QED BY <2>1, <2>2, <2>5, <2>6, <1>t, StepKeepsLocks
<1>7. ASSUME NEW w \in Actors, AlarmsApplied(w) PROVE StateTypeOK'
  <2>1. PICK t \in StateTask : t.pc = "sync" /\ task' = [task EXCEPT ![w] = t]
    BY <1>7, <1>t, TaskMoves DEF AlarmsApplied
  <2>2. task[w].pc = "alarm" /\ UNCHANGED <<row, lock, now, stateJobs>>
    BY <1>7 DEF AlarmsApplied, At
  <2>3. alarmed' \in BOOLEAN
    BY <1>7, <1>t DEF AlarmsApplied
  <2> QED BY <2>1, <2>2, <2>3, <1>t, StepKeepsLocks
<1>8. ASSUME NEW w \in Actors, SyncRead(w) PROVE StateTypeOK'
  <2>1. PICK t \in StateTask : t.pc \in {"idle", "open"} /\ task' = [task EXCEPT ![w] = t]
    <3>1. CASE row = NoState
      BY <3>1, <1>8, IdleTask DEF SyncRead
    <3>2. CASE row # NoState
      BY <3>2, <1>8, <1>t, TaskMoves DEF SyncRead
    <3> QED BY <3>1, <3>2
  <2>2. task[w].pc = "sync" /\ UNCHANGED <<row, alarmed, lock, now, stateJobs>>
    BY <1>8 DEF SyncRead, At
  <2> QED BY <2>1, <2>2, <1>t, StepKeepsLocks
<1>9. ASSUME NEW w \in Actors, HasOpenAlarm(w) PROVE StateTypeOK'
  <2>1. [task[w].copy EXCEPT !.biz = IF alarmed THEN "ALARM" ELSE "ONLINE"] \in StateRow
    <3>1. task[w].copy \in StateRow
      BY <1>t DEF StateTask
    <3> QED BY <3>1 DEF StateRow
  <2>2. PICK t \in StateTask : t.pc = "update" /\ task' = [task EXCEPT ![w] = t]
    BY <1>9, <2>1, <1>t, TaskMoves DEF HasOpenAlarm
  <2>3. task[w].pc = "open" /\ UNCHANGED <<row, alarmed, lock, now, stateJobs>>
    BY <1>9 DEF HasOpenAlarm, At
  <2> QED BY <2>2, <2>3, <1>t, StepKeepsLocks
<1>10. ASSUME NEW w \in Actors, UpdateRead(w) PROVE StateTypeOK'
  <2>1. [task[w].copy EXCEPT !.seen = IF @ = 0 THEN Current.seen ELSE @] \in StateRow
    <3>1. task[w].copy \in StateRow
      BY <1>t DEF StateTask
    <3> QED BY <3>1, <1>c DEF StateRow
  <2>2. PICK t \in StateTask : t.pc = "write" /\ task' = [task EXCEPT ![w] = t]
    BY <1>10, <2>1, <1>t, TaskMoves DEF UpdateRead
  <2>3. /\ lock[ProcOf[w]] \in {NoState, w} /\ lock' = [lock EXCEPT ![ProcOf[w]] = w]
        /\ UNCHANGED <<row, alarmed, now, stateJobs>>
    BY <1>10 DEF UpdateRead, Lock
  <2> QED BY <2>2, <2>3, <1>t, StepKeepsLocks
<1>11. ASSUME NEW w \in Actors, UpdateWrite(w) PROVE StateTypeOK'
  <2>1. row' \in StateRow /\ task[w].pc = "write"
    BY <1>11, <1>t DEF UpdateWrite, StateTask, At
  <2>2. /\ lock' = [lock EXCEPT ![ProcOf[w]] = NoState] /\ UNCHANGED <<alarmed, now, stateJobs>>
        /\ task' = [task EXCEPT ![w] = Idle]
    BY <1>11 DEF UpdateWrite, UnlockState
  <2> QED BY <2>1, <2>2, <1>t, IdleTask, StepKeepsLocks
<1>12. ASSUME NEW w \in Scanners, ScanOffline(w) PROVE StateTypeOK'
  <2> DEFINE c == [row EXCEPT !.data = "SILENT",
                     !.biz = IF row.conn = "CONNECTED" THEN "SUSPECTED_OFFLINE" ELSE "OFFLINE"]
  <2>1. c \in StateRow
    BY <1>12, <1>t DEF ScanOffline, StateRow
  <2>2. With(w, "update", c)
    BY <1>12 DEF ScanOffline
  <2> HIDE DEF c
  <2>3. PICK t \in StateTask : t.pc = "update" /\ task' = [task EXCEPT ![w] = t]
    BY <2>1, <2>2, <1>t, TaskMoves DEF Actors
  <2>4. task[w].pc = "idle" /\ UNCHANGED <<row, alarmed, lock, now, stateJobs>>
    BY <1>12 DEF ScanOffline, At
  <2> QED BY <2>3, <2>4, <1>t, StepKeepsLocks DEF Actors
<1>13. CASE Tick
  BY <1>13, <1>t DEF Tick, StateTypeOK, At
<1>14. CASE UNCHANGED statevars
  BY <1>14 DEF statevars, StateTypeOK, At
<1>15. \A u \in Stamps \cup {0} : [NewRow EXCEPT !.seen = u, !.biz = "ONLINE", !.data = "ACTIVE"] \in StateRow
  BY IdleTask DEF StateRow
<1>16. ASSUME NEW w \in Workers, Begin(w) PROVE StateTypeOK'
  BY <1>1, <1>2, <1>3, <1>4, <1>15, <1>16 DEF Begin
<1>17. ASSUME NEW w \in Actors, Step(w) PROVE StateTypeOK'
  BY <1>5, <1>6, <1>7, <1>8, <1>9, <1>10, <1>11, <1>17 DEF Step
<1> QED BY <1>12, <1>13, <1>14, <1>16, <1>17 DEF StateNext

\* The stripe lock of the engine: for any number of processes, messages and scans a
\* goroutine holds it exactly while it is between a locked read and its upsert.
THEOREM StateStaysLocked == StateSafety => []StateTypeOK
<1>1. StateInit => StateTypeOK
  <2> SUFFICES ASSUME StateInit PROVE StateTypeOK
    OBVIOUS
  <2>1. task \in [Actors -> StateTask] /\ \A w \in Actors : task[w].pc = "idle"
    BY IdleTask DEF StateInit, NothingYet
  <2>2. \A w \in Actors : lock[ProcOf[w]] = NoState
    BY DeviceAssumption DEF StateInit, NothingYet
  <2>3. row = NoState /\ alarmed = FALSE /\ lock \in [Procs -> Actors \cup {NoState}]
    BY DEF StateInit, NothingYet
  <2>4. now \in 0 .. MaxTime /\ stateJobs \in 0 .. MaxStateJobs
    BY DeviceAssumption DEF StateInit, NothingYet
  <2> QED BY <2>1, <2>2, <2>3, <2>4, DeviceAssumption DEF StateTypeOK, StateTask, At
<1> QED BY <1>1, StateStep, PTL DEF StateSafety

-----------------------------------------------------------------------------
(* AiJobs. Whoever runs a job has it in the map as running, which keeps    *)
(* both StartJob and the sweep from touching the entry; a run that is to   *)
(* report success has saved its row.                                       *)

JobEntries == [id : Nat, status : {"none", "running", "succeeded", "failed"}, old : BOOLEAN]
JobRuns == [key : JobKeys \cup {JNone}, id : Nat, at : {"idle", "model", "save", "finish"},
            verdict : {"none", "good", "fallback", "error"}]
Saved(rows) == {a \in Alarms : rows[a] # "none"}

RunOK(x) ==
    /\ x.at = "idle" => x = IdleWorker
    /\ x.at # "idle" => x.key \in JobKeys
    /\ x.id # 0 => jobs[x.key].status = "running" /\ jobs[x.key].id = x.id
    /\ x.at = "save" => x.verdict \in {"good", "fallback"}
    /\ x.at = "finish" /\ x.verdict # "error" /\ x.key \in Alarms => x.key \in Saved(analysis)

JobsInv ==
    /\ jobs \in [JobKeys -> JobEntries] /\ worker \in [JobWorkers -> JobRuns] /\ jobIds \in Nat
    /\ analysis \in [Alarms -> {"none", "good", "fallback"}]
    /\ \A w \in JobWorkers : RunOK(worker[w])
    /\ OneRunPerKey /\ SucceededIsSaved

\* A run that goes on, with its key and its number, and saves at most its own row.
LEMMA RunGoesOn ==
    ASSUME JobsInv, NEW w \in JobWorkers, NEW x \in JobRuns,
           worker' = [worker EXCEPT ![w] = x], x.key = worker[w].key, x.id = worker[w].id,
           x.at # "idle", worker[w].at # "idle", UNCHANGED <<jobs, jobIds>>,
           analysis' \in [Alarms -> {"none", "good", "fallback"}],
           \A a \in Alarms : analysis[a] # "none" => analysis'[a] # "none",
           x.at = "save" => x.verdict \in {"good", "fallback"},
           x.at = "finish" /\ x.verdict # "error" /\ x.key \in Alarms => analysis'[x.key] # "none"
    PROVE  JobsInv'
<1>1. worker' \in [JobWorkers -> JobRuns] /\ worker'[w] = x /\ \A v \in JobWorkers : v # w => worker'[v] = worker[v]
  BY DEF JobsInv
<1>2. ASSUME NEW v \in JobWorkers PROVE RunOK(worker[v])'
  <2>1. RunOK(worker[v]) /\ RunOK(worker[w])
    BY DEF JobsInv
  <2>2. CASE v = w
    BY <2>1, <2>2, <1>1 DEF RunOK, Saved
  <2>3. CASE v # w
    BY <2>1, <2>3, <1>1 DEF RunOK, Saved
  <2> QED BY <2>2, <2>3
<1>3. OneRunPerKey'
  BY <1>1 DEF JobsInv, OneRunPerKey
<1>4. SucceededIsSaved'
  BY DEF JobsInv, SucceededIsSaved
<1> QED BY <1>1, <1>2, <1>3, <1>4 DEF JobsInv

LEMMA IdleRun == IdleWorker \in JobRuns /\ IdleWorker.at = "idle" /\ IdleWorker.id = 0 /\ NoJob \in JobEntries
                 /\ NoJob.status = "none"
BY DEF IdleWorker, JobRuns, NoJob, JobEntries

LEMMA JobsStep == JobsInv /\ [JobsNext]_jvars => JobsInv'
<1> SUFFICES ASSUME JobsInv, [JobsNext]_jvars PROVE JobsInv'
  OBVIOUS
<1>t. /\ jobs \in [JobKeys -> JobEntries] /\ worker \in [JobWorkers -> JobRuns] /\ jobIds \in Nat
      /\ analysis \in [Alarms -> {"none", "good", "fallback"}] /\ \A w \in JobWorkers : RunOK(worker[w])
  BY DEF JobsInv
<1>1. ASSUME NEW k \in JobKeys, AgeJob(k) PROVE JobsInv'
  <2>1. /\ jobs' \in [JobKeys -> JobEntries]
        /\ \A l \in JobKeys : jobs'[l].status = jobs[l].status /\ jobs'[l].id = jobs[l].id
    BY <1>1, <1>t DEF AgeJob, JobEntries
  <2>2. UNCHANGED <<worker, jobIds, analysis>>
    BY <1>1 DEF AgeJob
  <2>3. ASSUME NEW v \in JobWorkers PROVE RunOK(worker[v])'
    BY <2>1, <2>2, <1>t, IdleRun DEF RunOK, Saved, JobRuns
  <2>4. OneRunPerKey' /\ SucceededIsSaved'
    BY <2>1, <2>2 DEF JobsInv, OneRunPerKey, SucceededIsSaved, JobKeys
  <2> QED BY <2>1, <2>2, <2>3, <2>4, <1>t DEF JobsInv
<1>2. ASSUME NEW k \in JobKeys, NEW w \in JobWorkers, StartJob(k, w) PROVE JobsInv'
  <2> DEFINE n == [NoJob EXCEPT !.id = jobIds + 1, !.status = "running"]
             x == [IdleWorker EXCEPT !.key = k, !.id = jobIds + 1, !.at = "model"]
  <2>0. jobIds + 1 \in Nat
    BY <1>t
  <2>1. n \in JobEntries /\ n.status = "running" /\ n.id = jobIds + 1
    BY <2>0 DEF JobEntries, NoJob
  <2>2. x \in JobRuns /\ x.key = k /\ x.id = jobIds + 1 /\ x.at = "model"
    BY <2>0 DEF JobRuns, IdleWorker
  <2>3. /\ SweepJobs[k].status # "running" /\ jobs' = [SweepJobs EXCEPT ![k] = n]
        /\ worker[w].at = "idle" /\ worker' = [worker EXCEPT ![w] = x] /\ jobIds' = jobIds + 1
        /\ analysis' = analysis
    BY <1>2 DEF StartJob
  <2> HIDE DEF n, x
  <2>4. /\ SweepJobs \in [JobKeys -> JobEntries]
        /\ \A l \in JobKeys : SweepJobs[l] = jobs[l] \/ (SweepJobs[l] = NoJob /\ jobs[l].status # "running")
    BY <1>t, IdleRun DEF SweepJobs, Expired
  <2>5. /\ jobs' \in [JobKeys -> JobEntries] /\ jobs'[k] = n
        /\ \A l \in JobKeys : l # k => jobs'[l] = SweepJobs[l]
    BY <2>1, <2>3, <2>4
  <2>6. /\ worker' \in [JobWorkers -> JobRuns] /\ worker'[w] = x
        /\ \A v \in JobWorkers : v # w => worker'[v] = worker[v]
    BY <2>2, <2>3, <1>t
  <2>7. \A v \in JobWorkers : worker[v].id # 0 => worker[v].key # k /\ worker[v].key \in JobKeys
    <3> SUFFICES ASSUME NEW v \in JobWorkers, worker[v].id # 0 PROVE worker[v].key # k /\ worker[v].key \in JobKeys
      OBVIOUS
    <3>1. worker[v].key \in JobKeys /\ jobs[worker[v].key].status = "running"
      BY <1>t, IdleRun DEF RunOK
    <3> QED BY <3>1, <2>3, <2>4
  <2>8. ASSUME NEW v \in JobWorkers PROVE RunOK(worker[v])'
    <3>1. CASE v = w
      BY <3>1, <2>1, <2>2, <2>5, <2>6 DEF RunOK
    <3>2. CASE v # w
      <4>1. RunOK(worker[v]) /\ worker'[v] = worker[v]
        BY <3>2, <1>t, <2>6
      <4>2. worker[v].id # 0 => jobs'[worker[v].key] = jobs[worker[v].key]
        BY <4>1, <2>4, <2>5, <2>7 DEF RunOK
      <4> QED BY <4>1, <4>2, <2>3 DEF RunOK, Saved
    <3> QED BY <3>1, <3>2
  <2>9. OneRunPerKey'
    BY <2>2, <2>6, <2>7 DEF JobsInv, OneRunPerKey
  <2>10. SucceededIsSaved'
    BY <2>1, <2>3, <2>4, <2>5, IdleRun DEF JobsInv, SucceededIsSaved, JobKeys
  <2>11. jobIds' \in Nat
    BY <2>3, <1>t
  <2> QED BY <2>3, <2>5, <2>6, <2>8, <2>9, <2>10, <2>11, <1>t DEF JobsInv
<1>3. ASSUME NEW k \in JobKeys, NEW w \in JobWorkers, worker[w].at = "idle", jobIds' = jobIds + 1,
             worker' = [worker EXCEPT ![w] = [IdleWorker EXCEPT !.key = k, !.at = "model"]],
             UNCHANGED <<jobs, analysis>>
      PROVE  JobsInv'
  <2> DEFINE x == [IdleWorker EXCEPT !.key = k, !.at = "model"]
  <2>1. x \in JobRuns /\ x.key = k /\ x.id = 0 /\ x.at = "model"
    BY IdleRun DEF JobRuns
  <2> HIDE DEF x
  <2>2. /\ worker' \in [JobWorkers -> JobRuns] /\ worker'[w] = x
        /\ \A v \in JobWorkers : v # w => worker'[v] = worker[v]
    BY <2>1, <1>3, <1>t DEF x
  <2>3. ASSUME NEW v \in JobWorkers PROVE RunOK(worker[v])'
    <3>1. CASE v = w
      BY <3>1, <2>1, <2>2 DEF RunOK, Saved
    <3>2. CASE v # w
      <4>1. worker'[v] = worker[v] /\ RunOK(worker[v])
        BY <3>2, <2>2, <1>t
      <4> QED BY <4>1, <1>3 DEF RunOK, Saved
    <3> QED BY <3>1, <3>2
  <2>4. OneRunPerKey'
    BY <2>1, <2>2 DEF JobsInv, OneRunPerKey
  <2>6. SucceededIsSaved'
    BY <1>3 DEF JobsInv, SucceededIsSaved
  <2>5. jobIds' \in Nat
    BY <1>3, <1>t
  <2> QED BY <2>2, <2>3, <2>4, <2>5, <2>6, <1>3, <1>t DEF JobsInv
<1>4. ASSUME NEW w \in JobWorkers, NEW v \in {"good", "fallback", "error"}, Answered(w, v) PROVE JobsInv'
  <2> DEFINE x == [worker[w] EXCEPT !.at = IF v = "error" THEN "finish" ELSE "save", !.verdict = v]
  <2>1. /\ x \in JobRuns /\ x.key = worker[w].key /\ x.id = worker[w].id /\ x.verdict = v
        /\ x.at = IF v = "error" THEN "finish" ELSE "save"
    BY <1>t DEF JobRuns
  <2>2. worker' = [worker EXCEPT ![w] = x] /\ worker[w].at = "model" /\ UNCHANGED <<jobs, jobIds, analysis>>
    BY <1>4 DEF Answered
  <2> HIDE DEF x
  <2> QED BY <2>1, <2>2, <1>t, RunGoesOn
<1>5. ASSUME NEW w \in JobWorkers, NEW ok \in BOOLEAN, SaveAIAnalysis(w, ok) PROVE JobsInv'
  <2> DEFINE x == [worker[w] EXCEPT !.at = "finish", !.verdict = IF ok THEN @ ELSE "error"]
  <2>1. /\ x \in JobRuns /\ x.key = worker[w].key /\ x.id = worker[w].id /\ x.at = "finish"
        /\ ~ok => x.verdict = "error"
    BY <1>t DEF JobRuns
  <2>2. /\ worker' = [worker EXCEPT ![w] = x] /\ worker[w].at = "save" /\ UNCHANGED <<jobs, jobIds>>
        /\ analysis' = IF ok THEN [analysis EXCEPT ![worker[w].key] = worker[w].verdict] ELSE analysis
        /\ worker[w].key \in Alarms
    BY <1>5 DEF SaveAIAnalysis
  <2>3. worker[w].verdict \in {"good", "fallback"}
    BY <2>2, <1>t DEF RunOK
  <2> HIDE DEF x
  <2>4. /\ analysis' \in [Alarms -> {"none", "good", "fallback"}]
        /\ \A a \in Alarms : analysis[a] # "none" => analysis'[a] # "none"
        /\ x.verdict # "error" => analysis'[x.key] # "none"
    BY <2>1, <2>2, <2>3, <1>t
  <2> QED BY <2>1, <2>2, <2>4, RunGoesOn
<1>6. ASSUME NEW w \in JobWorkers, rememberHealthInspection(w) PROVE JobsInv'
  <2> DEFINE x == [worker[w] EXCEPT !.at = "finish"]
  <2>1. x \in JobRuns /\ x.key = worker[w].key /\ x.id = worker[w].id /\ x.at = "finish"
    BY <1>t DEF JobRuns
  <2>2. /\ worker' = [worker EXCEPT ![w] = x] /\ worker[w].at = "save" /\ UNCHANGED <<jobs, jobIds, analysis>>
        /\ worker[w].key \notin Alarms
    BY <1>6, JobsAssumption DEF rememberHealthInspection
  <2> HIDE DEF x
  <2> QED BY <2>1, <2>2, <1>t, RunGoesOn
<1>7. ASSUME NEW w \in JobWorkers, FinishJob(w) PROVE JobsInv'
  <2> DEFINE k == worker[w].key
             st == IF worker[w].verdict = "error" THEN "failed" ELSE "succeeded"
  <2>1. /\ worker[w].at = "finish" /\ worker' = [worker EXCEPT ![w] = IdleWorker] /\ UNCHANGED <<jobIds, analysis>>
        /\ k \in JobKeys /\ RunOK(worker[w])
    BY <1>7, <1>t DEF FinishJob, RunOK
  <2>2. /\ worker' \in [JobWorkers -> JobRuns] /\ worker'[w] = IdleWorker
        /\ \A v \in JobWorkers : v # w => worker'[v] = worker[v]
    BY <2>1, <1>t, IdleRun
  <2>3. CASE worker[w].id = 0
    <3>1. jobs' = jobs
      BY <2>3, <1>7 DEF FinishJob
    <3>2. ASSUME NEW v \in JobWorkers PROVE RunOK(worker[v])'
      BY <3>1, <2>1, <2>2, <1>t, IdleRun DEF RunOK, Saved
    <3>3. OneRunPerKey' /\ SucceededIsSaved'
      BY <3>1, <2>1, <2>2, IdleRun DEF JobsInv, OneRunPerKey, SucceededIsSaved
    <3> QED BY <3>1, <3>2, <3>3, <2>1, <2>2, <1>t DEF JobsInv
  <2>4. CASE worker[w].id # 0
    <3>1. jobs' = [jobs EXCEPT ![k].status = st, ![k].old = FALSE]
      BY <2>4, <2>1, <1>7 DEF FinishJob, RunOK
    <3>2. /\ jobs' \in [JobKeys -> JobEntries] /\ jobs'[k].status = st
          /\ \A l \in JobKeys : l # k => jobs'[l] = jobs[l]
      BY <3>1, <2>1, <1>t DEF JobEntries
    <3>3. ASSUME NEW v \in JobWorkers PROVE RunOK(worker[v])'
      <4>1. CASE v = w
        BY <4>1, <2>2, IdleRun DEF RunOK
      <4>2. CASE v # w
        <5>1. RunOK(worker[v]) /\ worker'[v] = worker[v]
          BY <4>2, <1>t, <2>2
        <5>2. worker[v].id # 0 => worker[v].key # k /\ worker[v].key \in JobKeys
          BY <4>2, <2>4, <5>1, IdleRun DEF JobsInv, OneRunPerKey, RunOK
        <5> QED BY <5>1, <5>2, <3>2, <2>1 DEF RunOK, Saved
      <4> QED BY <4>1, <4>2
    <3>4. OneRunPerKey'
      BY <2>2, IdleRun DEF JobsInv, OneRunPerKey
    <3>5. SucceededIsSaved'
      <4> SUFFICES ASSUME NEW a \in Alarms, jobs'[a].status = "succeeded" PROVE analysis'[a] # "none"
        BY DEF SucceededIsSaved
      <4>1. CASE a = k
        BY <4>1, <3>2, <2>1 DEF RunOK, Saved
      <4>2. CASE a # k
        BY <4>2, <3>2, <2>1 DEF JobsInv, SucceededIsSaved, JobKeys
      <4> QED BY <4>1, <4>2
    <3> QED BY <3>2, <3>3, <3>4, <3>5, <2>1, <2>2, <1>t DEF JobsInv
  <2> QED BY <2>3, <2>4
<1>8. ASSUME UNCHANGED <<jobs, worker, jobIds, analysis>> PROVE JobsInv'
  BY <1>8 DEF JobsInv, RunOK, Saved, OneRunPerKey, SucceededIsSaved
<1>9. ASSUME NEW w \in JobWorkers, JobStep(w) PROVE JobsInv'
  BY <1>4, <1>5, <1>6, <1>7, <1>9
     DEF JobStep, AnalyzeAlarm, InspectDeviceHealth, finishAIAnalysisJob, finishHealthInspectionJob
<1>10. ASSUME NEW a \in Alarms, NEW w \in JobWorkers, startAIAnalysisJob(a, w) \/ handleAI(a, w) PROVE JobsInv'
  BY <1>2, <1>3, <1>10 DEF startAIAnalysisJob, handleAI, JobKeys
<1>11. ASSUME NEW t \in Tenants, NEW w \in JobWorkers, startHealthInspectionJob(t, w) \/ healthInspection(t, w)
       PROVE  JobsInv'
  BY <1>2, <1>3, <1>11 DEF startHealthInspectionJob, healthInspection, JobKeys
<1>12. ASSUME NEW t \in Tenants, AgeReport(t) \/ ReadExpiredReport(t) \/ DeleteReport(t) PROVE JobsInv'
  BY <1>8, <1>12 DEF AgeReport, ReadExpiredReport, DeleteReport
<1>13. CASE UNCHANGED jvars
  BY <1>8, <1>13 DEF jvars
<1> QED BY <1>1, <1>9, <1>10, <1>11, <1>12, <1>13 DEF JobsNext

\* startAIAnalysisJob, startHealthInspectionJob: for any number of keys, clicks and goroutines
\* there is one run per key, and what is shown as succeeded has been saved.
THEOREM JobsRunOnce == JobsSpec => [](OneRunPerKey /\ SucceededIsSaved)
<1>1. JobsInit => JobsInv
  <2> SUFFICES ASSUME JobsInit PROVE JobsInv
    OBVIOUS
  <2>1. jobs \in [JobKeys -> JobEntries] /\ worker \in [JobWorkers -> JobRuns] /\ jobIds \in Nat
    BY IdleRun DEF JobsInit
  <2>2. analysis \in [Alarms -> {"none", "good", "fallback"}]
    BY DEF JobsInit
  <2>3. \A w \in JobWorkers : worker[w] = IdleWorker
    BY DEF JobsInit
  <2>4. SucceededIsSaved
    BY IdleRun DEF JobsInit, SucceededIsSaved, JobKeys
  <2>5. \A w \in JobWorkers : RunOK(worker[w])
    BY <2>3, IdleRun DEF RunOK
  <2>6. OneRunPerKey
    BY <2>3, IdleRun DEF OneRunPerKey
  <2> QED BY <2>1, <2>2, <2>4, <2>5, <2>6 DEF JobsInv
<1>2. JobsInv => OneRunPerKey /\ SucceededIsSaved
  BY DEF JobsInv
<1> QED BY <1>1, <1>2, JobsStep, PTL DEF JobsSpec

-----------------------------------------------------------------------------
(* RawReplay. Every message of the base is visited, on the page in hand or *)
(* beyond the offset: an insertion into the index moves rows away from its *)
(* head only, so nothing slips from beyond the offset to before it.        *)

LEMMA InsertAtProperties ==
    ASSUME NEW S, NEW s \in Seq(S), NEW i \in 1 .. Len(s) + 1, NEW e \in S
    PROVE  /\ InsertAt(s, i, e) \in Seq(S) /\ Len(InsertAt(s, i, e)) = Len(s) + 1
           /\ \A j \in 1 .. i - 1 : InsertAt(s, i, e)[j] = s[j]
           /\ \A j \in i .. Len(s) : InsertAt(s, i, e)[j + 1] = s[j]
<1> DEFINE a == SubSeq(s, 1, i - 1)
           b == SubSeq(s, i, Len(s))
           t == InsertAt(s, i, e)
<1>1. a \in Seq(S) /\ Len(a) = i - 1 /\ \A j \in 1 .. i - 1 : a[j] = s[j]
  OBVIOUS
<1>2. b \in Seq(S) /\ Len(b) = Len(s) - i + 1 /\ \A j \in 1 .. Len(s) - i + 1 : b[j] = s[i + j - 1]
  OBVIOUS
<1> DEFINE c == a \o <<e>>
<1>3. t = c \o b
  BY DEF InsertAt
<1> HIDE DEF a, b, t
<1>4. c \in Seq(S) /\ Len(c) = i /\ \A j \in 1 .. i - 1 : c[j] = a[j]
  BY <1>1
<1> HIDE DEF c
<1>5. /\ t \in Seq(S) /\ Len(t) = Len(c) + Len(b)
      /\ \A j \in 1 .. Len(c) + Len(b) : t[j] = IF j <= Len(c) THEN c[j] ELSE b[j - Len(c)]
  BY <1>2, <1>3, <1>4, ConcatProperties
<1>6. /\ Len(t) = Len(s) + 1 /\ \A j \in 1 .. i - 1 : t[j] = c[j]
      /\ \A j \in i .. Len(s) : t[j + 1] = b[j + 1 - i]
  <2>1. Len(t) = Len(s) + 1
    BY <1>2, <1>4, <1>5
  <2>2. ASSUME NEW j \in 1 .. i - 1 PROVE t[j] = c[j]
    BY <1>2, <1>4, <1>5
  <2>3. ASSUME NEW j \in i .. Len(s) PROVE t[j + 1] = b[j + 1 - i]
    <3>1. j + 1 \in 1 .. Len(c) + Len(b) /\ ~(j + 1 <= Len(c))
      BY <1>2, <1>4
    <3> QED BY <3>1, <1>4, <1>5
  <2> QED BY <2>1, <2>2, <2>3
<1>7. ASSUME NEW j \in i .. Len(s) PROVE t[j + 1] = s[j]
  <2>1. j + 1 - i \in 1 .. Len(s) - i + 1 /\ i + (j + 1 - i) - 1 = j
    OBVIOUS
  <2>2. b[j + 1 - i] = s[i + (j + 1 - i) - 1]
    BY <2>1, <1>2
  <2> QED BY <2>1, <2>2, <1>6
<1> QED BY <1>1, <1>4, <1>5, <1>6, <1>7 DEF t

\* The rows of the index after the first n.
Beyond(n) == {index[i] : i \in {j \in 1 .. Len(index) : j > n}}

ReplayTypes == [status : {"none", "PENDING", "RUNNING", "COMPLETED", "FAILED"}, mode : Modes, offset : Nat,
                page : Seq(Raws), last : BOOLEAN, base : SUBSET Raws, visited : SUBSET Raws]

PageInv ==
    /\ index \in Seq(Raws) /\ replay \in ReplayTypes
    /\ \A r \in replay.base : r \in replay.visited \/ r \in Range(replay.page)
                              \/ (~replay.last /\ r \in Beyond(replay.offset))
    /\ replay.status = "COMPLETED" => replay.page = <<>> /\ replay.last

VerdictInv ==
    /\ rawTopic \subseteq Raws /\ parsed \subseteq Raws
    /\ verdict \in [Raws -> {RNone, "ok", "error"}]
    /\ handler \in [pc : {"idle", "mark", "publish"}, raw : Raws \cup {RNone}, ok : BOOLEAN]
    /\ handler.pc # "idle" => handler.raw \in Raws
    /\ handler.pc = "publish" => verdict[handler.raw] # RNone
    /\ ForwardedHasVerdict

\* A page holds the rows after the offset, as many as fit; a short one holds them all.
LEMMA PageCovers ==
    ASSUME index \in Seq(Raws), NEW o \in Nat
    PROVE  /\ ListRawIndexes(o) \in Seq(Raws)
           /\ \A r \in Beyond(o) : \/ r \in Range(ListRawIndexes(o))
                                   \/ /\ Len(ListRawIndexes(o)) = PageSize
                                      /\ r \in Beyond(o + Len(ListRawIndexes(o)))
<1> DEFINE n == IF o + PageSize < Len(index) THEN o + PageSize ELSE Len(index)
           p == ListRawIndexes(o)
<1>1. PageSize \in Nat \ {0} /\ Len(index) \in Nat
  BY ReplayAssumption
<1>2. n \in Nat /\ n <= Len(index) /\ (n = o + PageSize \/ n = Len(index))
  BY <1>1
<1>3. p = SubSeq(index, o + 1, n)
  BY DEF ListRawIndexes
<1> HIDE DEF n, p
<1>4. \A i \in o + 1 .. n : index[i] \in Raws
  BY <1>2
<1>5. /\ p \in Seq(Raws) /\ Len(p) = (IF o + 1 <= n THEN n - o ELSE 0)
      /\ \A i \in 1 .. n - o : p[i] = index[o + i]
  <2>1. /\ p \in Seq(Raws) /\ Len(p) = (IF o + 1 <= n THEN n - (o + 1) + 1 ELSE 0)
        /\ \A i \in 1 .. n - (o + 1) + 1 : p[i] = index[(o + 1) + i - 1]
    BY <1>2, <1>3, <1>4, SubSeqProperties
  <2> QED BY <2>1, <1>2
<1>6. ASSUME NEW i \in 1 .. Len(index), i > o
      PROVE  \/ index[i] \in Range(p)
             \/ Len(p) = PageSize /\ index[i] \in Beyond(o + Len(p))
  <2>1. CASE i <= n
    <3>1. i - o \in 1 .. n - o /\ o + (i - o) = i /\ Len(p) = n - o
      BY <2>1, <1>2, <1>5, <1>6
    <3>2. i - o \in DOMAIN p /\ p[i - o] = index[i]
      BY <3>1, <1>5
    <3> QED BY <3>2 DEF Range
  <2>2. CASE i > n
    <3>1. n = o + PageSize /\ Len(p) = PageSize
      BY <2>2, <1>1, <1>2, <1>5
    <3>2. i > o + Len(p)
      BY <3>1, <2>2
    <3> QED BY <3>1, <3>2 DEF Beyond
  <2> QED BY <2>1, <2>2, <1>2
<1>7. ASSUME NEW r \in Beyond(o)
      PROVE  r \in Range(p) \/ (Len(p) = PageSize /\ r \in Beyond(o + Len(p)))
  <2>1. PICK i \in 1 .. Len(index) : i > o /\ r = index[i]
    BY DEF Beyond
  <2> QED BY <2>1, <1>6
<1> QED BY <1>5, <1>7 DEF p

\* What is beyond an offset stays beyond it when a row is inserted.
LEMMA InsertionShifts ==
    ASSUME index \in Seq(Raws), NEW r \in Raws, ArchiveRaw(r), NEW o \in Nat
    PROVE  index' \in Seq(Raws) /\ Beyond(o) \subseteq Beyond(o)'
<1>1. PICK i \in 1 .. Len(index) + 1 : index' = InsertAt(index, i, r)
  BY DEF ArchiveRaw
<1>2. /\ index' \in Seq(Raws) /\ Len(index') = Len(index) + 1
      /\ \A j \in 1 .. i - 1 : index'[j] = index[j]
      /\ \A j \in i .. Len(index) : index'[j + 1] = index[j]
  BY <1>1, InsertAtProperties
<1>3. ASSUME NEW x \in Beyond(o) PROVE x \in Beyond(o)'
  <2>1. PICK j \in 1 .. Len(index) : j > o /\ x = index[j]
    BY DEF Beyond
  <2>2. CASE j < i
    <3>1. j \in 1 .. i - 1 /\ j \in 1 .. Len(index')
      BY <2>1, <2>2, <1>2
    <3> QED BY <3>1, <2>1, <1>2 DEF Beyond
  <2>3. CASE j >= i
    <3>1. j \in i .. Len(index) /\ j + 1 \in 1 .. Len(index') /\ j + 1 > o
      BY <2>1, <2>3, <1>2
    <3>2. index'[j + 1] = x
      BY <3>1, <2>1, <1>2
    <3> QED BY <3>1, <3>2 DEF Beyond
  <2> QED BY <2>2, <2>3
<1> QED BY <1>2, <1>3

LEMMA PageStep == PageInv /\ [ReplayNext]_rvars => PageInv'
<1> SUFFICES ASSUME PageInv, [ReplayNext]_rvars PROVE PageInv'
  OBVIOUS
<1>t. index \in Seq(Raws) /\ replay \in ReplayTypes /\ replay.offset \in Nat /\ replay.page \in Seq(Raws)
  BY DEF PageInv, ReplayTypes
<1>1. ASSUME UNCHANGED <<index, replay>> PROVE PageInv'
  BY <1>1 DEF PageInv, Beyond
<1>2. ASSUME NEW r \in Raws, ArchiveRaw(r) PROVE PageInv'
  <2>1. index' \in Seq(Raws) /\ Beyond(replay.offset) \subseteq Beyond(replay.offset)'
    <3> DEFINE o == replay.offset
    <3>1. o \in Nat
      BY <1>t
    <3>2. replay' = replay
      BY <1>2 DEF ArchiveRaw
    <3> HIDE DEF o
    <3>3. index' \in Seq(Raws) /\ Beyond(o) \subseteq {index'[i] : i \in {j \in 1 .. Len(index') : j > o}}
      BY <3>1, <1>2, <1>t, InsertionShifts DEF Beyond
    <3> QED BY <3>2, <3>3 DEF o, Beyond
  <2>2. replay' = replay
    BY <1>2 DEF ArchiveRaw
  <2> QED BY <2>1, <2>2 DEF PageInv
<1>3. ASSUME NEW mode \in Modes, StartReplay(mode) PROVE PageInv'
  <2>1. /\ index' = index /\ replay' = [status |-> "PENDING", mode |-> mode, offset |-> 0, page |-> <<>>,
                                       last |-> FALSE, base |-> Range(index), visited |-> {}]
    BY <1>3 DEF StartReplay, NoReplay
  <2>2. Range(index) \subseteq Raws
    BY <1>t DEF Range
  <2>3. replay' \in ReplayTypes
    BY <2>1, <2>2 DEF ReplayTypes
  <2>4. Range(index) \subseteq Beyond(0)'
    BY <2>1, <1>t DEF Range, Beyond
  <2>5. replay'.offset = 0 /\ replay'.base = Range(index) /\ ~replay'.last /\ replay'.status = "PENDING"
    BY <2>1
  <2> QED BY <2>1, <2>3, <2>4, <2>5, <1>t DEF PageInv, Beyond
<1>4. ASSUME ReplayPage PROVE PageInv'
  <2>1. index' = index /\ replay.page = <<>> /\ ~replay.last /\ replay.status \in {"PENDING", "RUNNING"}
    BY <1>4 DEF ReplayPage
  <2>2. CASE replay' = [replay EXCEPT !.status = "FAILED"]
    <3>1. /\ replay' \in ReplayTypes /\ replay'.offset = replay.offset /\ replay'.page = replay.page
          /\ replay'.last = replay.last /\ replay'.base = replay.base /\ replay'.visited = replay.visited
          /\ replay'.status = "FAILED"
      BY <2>2, <1>t DEF ReplayTypes
    <3> QED BY <3>1, <2>1 DEF PageInv, Beyond
  <2>3. CASE replay' = NextPage
    <3> DEFINE o == replay.offset
               p == ListRawIndexes(o)
               st == IF p = <<>> THEN "COMPLETED" ELSE "RUNNING"
               l == Len(p) < PageSize
    <3>1. /\ p \in Seq(Raws)
          /\ \A r \in Beyond(o) : r \in Range(p) \/ (Len(p) = PageSize /\ r \in Beyond(o + Len(p)))
      BY <1>t, PageCovers
    <3>2. replay' = [replay EXCEPT !.status = st, !.page = p, !.offset = o + Len(p), !.last = l]
      BY <2>3 DEF NextPage
    <3>3. p = <<>> => l
      BY ReplayAssumption
    <3>6. o + Len(p) \in Nat /\ PageSize \in Nat /\ st \in {"COMPLETED", "RUNNING"}
          /\ (st = "COMPLETED" => p = <<>>) /\ l \in BOOLEAN /\ (l => Len(p) # PageSize)
      BY <3>1, <1>t, ReplayAssumption
    <3> HIDE DEF p, o, st, l
    <3>4. /\ replay' \in ReplayTypes /\ replay'.offset = o + Len(p) /\ replay'.page = p /\ replay'.last = l
          /\ replay'.base = replay.base /\ replay'.visited = replay.visited /\ replay'.status = st
      BY <3>1, <3>2, <3>6, <1>t DEF ReplayTypes
    <3>5. ASSUME NEW r \in replay.base
          PROVE  r \in replay'.visited \/ r \in Range(replay'.page) \/ (~replay'.last /\ r \in Beyond(replay'.offset))
      <4>1. r \in replay.visited \/ r \in Beyond(o)
        BY <2>1 DEF PageInv, o, Range
      <4> QED BY <4>1, <3>1, <3>4, <3>6
    <3>7. index' \in Seq(Raws) /\ (replay'.status = "COMPLETED" => replay'.page = <<>> /\ replay'.last)
      BY <3>3, <3>4, <3>6, <2>1, <1>t
    <3> QED BY <3>4, <3>5, <3>7, <2>1 DEF PageInv, Beyond
  <2> QED BY <2>2, <2>3, <1>4 DEF ReplayPage
<1>5. ASSUME NEW ok \in BOOLEAN, ReplayRow(ok) PROVE PageInv'
  <2> DEFINE r == Head(replay.page)
             q == Tail(replay.page)
             v == replay.visited \cup {r}
  <2>1. index' = index /\ replay.page # <<>> /\ replay.status = "RUNNING"
        /\ replay' = [replay EXCEPT !.page = q, !.visited = v]
    BY <1>5 DEF ReplayRow
  <2>2. r \in Raws /\ q \in Seq(Raws) /\ Range(replay.page) \subseteq Range(q) \cup {r}
    <3>1. r \in Raws /\ q \in Seq(Raws) /\ Len(q) = Len(replay.page) - 1
          /\ (\A i \in 1 .. Len(q) : q[i] = replay.page[i + 1]) /\ r = replay.page[1]
      BY <2>1, <1>t, HeadTailProperties
    <3>2. ASSUME NEW i \in 1 .. Len(replay.page) PROVE replay.page[i] \in Range(q) \cup {r}
      <4>1. CASE i = 1
        BY <4>1, <3>1
      <4>2. CASE i # 1
        <5>1. i - 1 \in 1 .. Len(q) /\ (i - 1) + 1 = i
          BY <4>2, <3>1, <1>t
        <5>2. q[i - 1] = replay.page[i] /\ i - 1 \in DOMAIN q
          BY <5>1, <3>1
        <5> QED BY <5>2 DEF Range
      <4> QED BY <4>1, <4>2
    <3> QED BY <3>1, <3>2, <1>t DEF Range
  <2>3. v \in SUBSET Raws
    BY <2>2, <1>t DEF ReplayTypes
  <2> HIDE DEF r, q, v
  <2>4. /\ replay' \in ReplayTypes /\ replay'.offset = replay.offset /\ replay'.page = q
        /\ replay'.last = replay.last /\ replay'.base = replay.base /\ replay'.visited = v
        /\ replay'.status = "RUNNING"
    BY <2>1, <2>2, <2>3, <1>t DEF ReplayTypes
  <2>5. ASSUME NEW x \in replay.base
        PROVE  x \in v \/ x \in Range(q) \/ (~replay.last /\ x \in Beyond(replay.offset))
    BY <2>2 DEF PageInv, v
  <2> QED BY <2>1, <2>4, <2>5, <1>t DEF PageInv, Beyond
<1>6. CASE EndReplay
  <2>1. index' = index /\ replay.page = <<>> /\ replay.last /\ replay' = [replay EXCEPT !.status = "COMPLETED"]
    BY <1>6 DEF EndReplay
  <2>2. /\ replay' \in ReplayTypes /\ replay'.offset = replay.offset /\ replay'.page = replay.page
        /\ replay'.last = replay.last /\ replay'.base = replay.base /\ replay'.visited = replay.visited
    BY <2>1, <1>t DEF ReplayTypes
  <2> QED BY <2>1, <2>2 DEF PageInv, Beyond
<1>7. CASE ChangeProtocol \/ MarkRawParseResult \/ AbandonRaw \/ UNCHANGED rvars
           \/ (\E mqtt \in BOOLEAN : ForwardParsed(mqtt)) \/ (\E r \in Raws, ok \in BOOLEAN : handleRaw(r, ok))
  BY <1>1, <1>7 DEF ChangeProtocol, MarkRawParseResult, AbandonRaw, rvars, ForwardParsed, handleRaw
<1> QED BY <1>2, <1>3, <1>4, <1>5, <1>6, <1>7 DEF ReplayNext, runReplay

LEMMA VerdictStep == VerdictInv /\ [ReplayNext]_rvars /\ index \in Seq(Raws) /\ replay \in ReplayTypes => VerdictInv'
<1> SUFFICES ASSUME VerdictInv, [ReplayNext]_rvars, index \in Seq(Raws), replay \in ReplayTypes PROVE VerdictInv'
  OBVIOUS
<1>t. /\ handler \in [pc : {"idle", "mark", "publish"}, raw : Raws \cup {RNone}, ok : BOOLEAN]
      /\ verdict \in [Raws -> {RNone, "ok", "error"}] /\ rawTopic \subseteq Raws /\ parsed \subseteq Raws
      /\ \A r \in parsed : verdict[r] # RNone
  BY DEF VerdictInv, ForwardedHasVerdict
<1>n. NoHandler \in [pc : {"idle", "mark", "publish"}, raw : Raws \cup {RNone}, ok : BOOLEAN] /\ NoHandler.pc = "idle"
  BY DEF NoHandler
<1>1. ASSUME UNCHANGED <<handler, verdict, parsed>>, rawTopic' \subseteq Raws PROVE VerdictInv'
  BY <1>1 DEF VerdictInv, ForwardedHasVerdict
<1>2. ASSUME NEW ok \in BOOLEAN, ReplayRow(ok) PROVE VerdictInv'
  <2>1. replay.page \in Seq(Raws) /\ replay.page # <<>>
    BY <1>2 DEF ReplayRow, ReplayTypes
  <2>2. Head(replay.page) \in Raws
    BY <2>1
  <2>3. UNCHANGED <<handler, verdict, parsed>> /\ rawTopic' \subseteq rawTopic \cup {Head(replay.page)}
    BY <1>2 DEF ReplayRow
  <2> QED BY <2>2, <2>3, <1>1, <1>t
<1>3. ASSUME NEW r \in Raws, NEW ok \in BOOLEAN, handleRaw(r, ok) PROVE VerdictInv'
  <2>1. handler' = [pc |-> "mark", raw |-> r, ok |-> ok] /\ UNCHANGED <<rawTopic, verdict, parsed>>
    BY <1>3 DEF handleRaw
  <2> QED BY <2>1, <1>t DEF VerdictInv, ForwardedHasVerdict
<1>4. CASE MarkRawParseResult
  <2> DEFINE r == handler.raw
             x == IF handler.ok THEN "ok" ELSE "error"
  <2>1. r \in Raws /\ x \in {"ok", "error"} /\ x # RNone
    BY <1>4, ReplayAssumption DEF MarkRawParseResult, VerdictInv
  <2>2. verdict' = [verdict EXCEPT ![r] = x] /\ parsed' = parsed
    BY <1>4 DEF MarkRawParseResult
  <2> HIDE DEF x
  <2>3. /\ verdict' \in [Raws -> {RNone, "ok", "error"}] /\ verdict'[r] # RNone
        /\ \A q \in Raws : verdict[q] # RNone => verdict'[q] # RNone
    BY <2>1, <2>2, <1>t
  <2>4. ForwardedHasVerdict'
    BY <2>2, <2>3, <1>t DEF ForwardedHasVerdict
  <2>5. rawTopic' \subseteq Raws
    BY <1>4, <1>t DEF MarkRawParseResult
  <2>6. CASE handler' = NoHandler
    BY <2>2, <2>3, <2>4, <2>5, <2>6, <1>n, <1>t DEF VerdictInv
  <2>7. CASE handler' = [handler EXCEPT !.pc = "publish"]
    <3>1. /\ handler' \in [pc : {"idle", "mark", "publish"}, raw : Raws \cup {RNone}, ok : BOOLEAN]
          /\ handler'.raw = r
      BY <2>7, <1>t
    <3> QED BY <3>1, <2>1, <2>2, <2>3, <2>4, <2>5, <1>t DEF VerdictInv
  <2> QED BY <2>6, <2>7, <1>4 DEF MarkRawParseResult
<1>5. ASSUME NEW mqtt \in BOOLEAN, ForwardParsed(mqtt) PROVE VerdictInv'
  <2>1. handler.raw \in Raws /\ verdict[handler.raw] # RNone
    BY <1>5 DEF ForwardParsed, VerdictInv
  <2>2. handler' = NoHandler /\ verdict' = verdict /\ parsed' = parsed \cup {handler.raw} /\ rawTopic' \subseteq rawTopic
    BY <1>5 DEF ForwardParsed
  <2> QED BY <2>1, <2>2, <1>n, <1>t DEF VerdictInv, ForwardedHasVerdict
<1>6. CASE AbandonRaw
  BY <1>6, <1>n, <1>t DEF AbandonRaw, VerdictInv, ForwardedHasVerdict
<1>7. CASE ChangeProtocol \/ ReplayPage \/ EndReplay \/ UNCHANGED rvars
           \/ (\E mode \in Modes : StartReplay(mode)) \/ (\E r \in Raws : ArchiveRaw(r))
  BY <1>1, <1>7, <1>t DEF ChangeProtocol, ReplayPage, EndReplay, rvars, StartReplay, ArchiveRaw
<1> QED BY <1>2, <1>3, <1>4, <1>5, <1>6, <1>7 DEF ReplayNext, runReplay

\* runReplay and handleRaw: whatever the page size and whatever is archived between two pages,
\* a completed replay has visited its range; a forwarded message has its verdict stored.
THEOREM ReplaysCover == ReplaySpec => [](ReplayCovers /\ ForwardedHasVerdict)
<1>1. ReplayInit => PageInv /\ VerdictInv
  <2> SUFFICES ASSUME ReplayInit PROVE PageInv /\ VerdictInv
    OBVIOUS
  <2>1. index \in Seq(Raws)
    BY DEF ReplayInit, SeqOf
  <2>2. replay = NoReplay /\ NoReplay \in ReplayTypes /\ NoReplay.base = {} /\ NoReplay.status = "none"
    BY DEF ReplayInit, NoReplay, ReplayTypes, Modes
  <2>3. PageInv
    BY <2>1, <2>2 DEF PageInv
  <2>4. VerdictInv
    BY DEF ReplayInit, VerdictInv, NoHandler, ForwardedHasVerdict
  <2> QED BY <2>3, <2>4
<1>2. PageInv /\ VerdictInv /\ [ReplayNext]_rvars => (PageInv /\ VerdictInv)'
  BY PageStep, VerdictStep DEF PageInv
<1>3. PageInv /\ VerdictInv => ReplayCovers /\ ForwardedHasVerdict
  BY DEF PageInv, VerdictInv, ReplayCovers, Range
<1> QED BY <1>1, <1>2, <1>3, PTL DEF ReplaySpec

-----------------------------------------------------------------------------
(* VideoAlarm. Every event that entered an alarm is attributed to one      *)
(* alarm; what an alarm counts, and what a stale copy of it would write    *)
(* back, is at most the number of events attributed to it.                 *)

AlarmCopy == [id : AlarmIds, n : Nat]
MediaCall == [pc : {"idle", "list", "fuse", "transfer", "write"}, ev : VideoEvents \cup {Nil},
              todo : SUBSET AlarmCopy]

VideoTypes ==
    /\ count \in [AlarmIds -> Nat]
    /\ videoEvent \in [VideoEvents -> {Nil, "NONE", "PENDING", "STORED", "FAILED"}]
    /\ vcall \in [VideoCalls -> MediaCall] /\ mjob \in [MediaJobs -> MediaCall]
    /\ pendingMedia \subseteq VideoEvents
    /\ entered \subseteq VideoEvents /\ IsFiniteSet(entered)

\* A call works for an event that has its row and has entered no alarm, and no other
\* call works for it: SaveVideoEvent created the row for one of them.
CallsAreApart ==
    /\ \A e \in entered : videoEvent[e] # Nil
    /\ \A c \in VideoCalls : vcall[c].pc # "idle" =>
        vcall[c].ev \in VideoEvents \ entered /\ videoEvent[vcall[c].ev] # Nil
    /\ \A c, d \in VideoCalls : c # d /\ vcall[c].pc # "idle" /\ vcall[d].pc # "idle" => vcall[c].ev # vcall[d].ev

Attributed(att, E, a) == {e \in E : att[e] = a}

CountedBy(att) ==
    /\ \A a \in AlarmIds : count[a] <= Cardinality(Attributed(att, entered, a))
    /\ \A c \in VideoCalls : \A x \in vcall[c].todo : x.n <= Cardinality(Attributed(att, entered, x.id))
    /\ \A j \in MediaJobs : \A x \in mjob[j].todo : x.n <= Cardinality(Attributed(att, entered, x.id))

Attributions == [VideoEvents -> AlarmIds \cup {Nil}]

VideoInv == VideoTypes /\ CallsAreApart /\ \E att \in Attributions : CountedBy(att)

LEMMA IdleCallType == IdleCall \in MediaCall /\ IdleCall.pc = "idle" /\ IdleCall.todo = {}
  BY DEF IdleCall, MediaCall

\* The calls stay apart when one of them goes on, or ends and lets its event enter.
LEMMA CallGoesOn ==
    ASSUME VideoTypes, CallsAreApart, NEW c \in VideoCalls, NEW t \in MediaCall,
           vcall[c].pc # "idle", vcall' = [vcall EXCEPT ![c] = t], videoEvent' = videoEvent,
           \/ entered' = entered /\ (t.pc = "idle" \/ t.ev = vcall[c].ev)
           \/ entered' = entered \cup {vcall[c].ev} /\ t.pc = "idle"
    PROVE  /\ CallsAreApart' /\ vcall' \in [VideoCalls -> MediaCall]
           /\ entered' \subseteq VideoEvents /\ IsFiniteSet(entered')
<1>1. vcall \in [VideoCalls -> MediaCall] /\ entered \subseteq VideoEvents /\ IsFiniteSet(entered)
  BY DEF VideoTypes
<1>2. vcall[c].ev \in VideoEvents \ entered /\ videoEvent[vcall[c].ev] # Nil
  BY DEF CallsAreApart
<1>3. vcall' \in [VideoCalls -> MediaCall] /\ vcall'[c] = t /\ \A d \in VideoCalls : d # c => vcall'[d] = vcall[d]
  BY <1>1
<1>4. entered' \subseteq VideoEvents /\ IsFiniteSet(entered')
  BY <1>1, <1>2, FS_AddElement
<1>5. \A e \in entered' : videoEvent'[e] # Nil
  BY <1>2 DEF CallsAreApart
<1>6. ASSUME NEW d \in VideoCalls, vcall'[d].pc # "idle"
      PROVE  vcall'[d].ev \in VideoEvents \ entered' /\ videoEvent'[vcall'[d].ev] # Nil
  <2>1. CASE d = c
    BY <2>1, <1>2, <1>3, <1>6
  <2>2. CASE d # c
    <3>1. vcall'[d] = vcall[d] /\ vcall[d].ev # vcall[c].ev
      BY <2>2, <1>3, <1>6 DEF CallsAreApart
    <3> QED BY <3>1, <1>6 DEF CallsAreApart
  <2> QED BY <2>1, <2>2
<1>7. ASSUME NEW d \in VideoCalls, NEW f \in VideoCalls, d # f, vcall'[d].pc # "idle", vcall'[f].pc # "idle"
      PROVE  vcall'[d].ev # vcall'[f].ev
  <2>1. CASE d = c
    BY <2>1, <1>3, <1>7 DEF CallsAreApart
  <2>2. CASE f = c
    BY <2>2, <1>3, <1>7 DEF CallsAreApart
  <2>3. CASE d # c /\ f # c
    BY <2>3, <1>3, <1>7 DEF CallsAreApart
  <2> QED BY <2>1, <2>2, <2>3
<1> QED BY <1>3, <1>4, <1>5, <1>6, <1>7 DEF CallsAreApart

OneMore(att, new, E, e, s) ==
    \A a \in AlarmIds : Cardinality(Attributed(new, E \cup {e}, a))
                        = Cardinality(Attributed(att, E, a)) + (IF a = s THEN 1 ELSE 0)

\* An event that enters one alarm is attributed to it: no alarm has fewer events, that one
\* has one more.
LEMMA EventEnters ==
    ASSUME NEW E, IsFiniteSet(E), E \subseteq VideoEvents, NEW e \in VideoEvents \ E,
           NEW att \in Attributions, NEW s \in AlarmIds
    PROVE  \E new \in Attributions : OneMore(att, new, E, e, s)
<1> DEFINE new == [att EXCEPT ![e] = s]
<1>1. new \in Attributions /\ new[e] = s /\ \A f \in E : new[f] = att[f]
  BY DEF Attributions
<1> HIDE DEF new
<1>2. ASSUME NEW a \in AlarmIds
      PROVE  Cardinality(Attributed(new, E \cup {e}, a)) = Cardinality(Attributed(att, E, a)) + (IF a = s THEN 1 ELSE 0)
  <2> DEFINE A == Attributed(att, E, a)
  <2>1. IsFiniteSet(A) /\ e \notin A
    BY FS_Subset DEF Attributed
  <2>2. Attributed(new, E \cup {e}, a) = IF a = s THEN A \cup {e} ELSE A
    BY <1>1 DEF Attributed
  <2> HIDE DEF A
  <2>3. Cardinality(A) \in Nat /\ Cardinality(A \cup {e}) = Cardinality(A) + 1
    BY <2>1, FS_CardinalityType, FS_AddElement
  <2> QED BY <2>2, <2>3 DEF A
<1> QED BY <1>1, <1>2 DEF OneMore

LEMMA AttributedIsFinite ==
    ASSUME NEW E, IsFiniteSet(E), NEW att, NEW a
    PROVE  IsFiniteSet(Attributed(att, E, a)) /\ Cardinality(Attributed(att, E, a)) \in Nat
  BY FS_Subset, FS_CardinalityType DEF Attributed

\* A step that lets no event enter keeps the counts covered when it writes back what a copy
\* holds, and copies nothing but what the table holds.
LEMMA CountsStay ==
    ASSUME VideoTypes, NEW att \in Attributions, CountedBy(att), entered' = entered,
           \A a \in AlarmIds : \/ count'[a] = count[a]
                               \/ \E c \in VideoCalls : \E x \in vcall[c].todo : x.id = a /\ count'[a] = x.n
                               \/ \E j \in MediaJobs : \E x \in mjob[j].todo : x.id = a /\ count'[a] = x.n,
           \A c \in VideoCalls : vcall'[c].todo \subseteq vcall[c].todo \cup Copies(AlarmIds),
           \A j \in MediaJobs : mjob'[j].todo \subseteq mjob[j].todo \cup Copies(AlarmIds)
    PROVE  CountedBy(att)'
<1>1. \A a \in AlarmIds : count'[a] <= Cardinality(Attributed(att, entered, a))
  BY DEF CountedBy
<1>2. \A x \in Copies(AlarmIds) : x.n <= Cardinality(Attributed(att, entered, x.id))
  BY DEF CountedBy, Copies
<1>3. \A c \in VideoCalls : \A x \in vcall'[c].todo : x.n <= Cardinality(Attributed(att, entered, x.id))
  BY <1>2 DEF CountedBy
<1>4. \A j \in MediaJobs : \A x \in mjob'[j].todo : x.n <= Cardinality(Attributed(att, entered, x.id))
  BY <1>2 DEF CountedBy
<1> QED BY <1>1, <1>3, <1>4 DEF CountedBy

\* The event of a call enters alarm s, whose count becomes one more than a covered number.
LEMMA CountsEnter ==
    ASSUME VideoTypes, NEW att \in Attributions, CountedBy(att),
           NEW e \in VideoEvents \ entered, entered' = entered \cup {e},
           NEW s \in AlarmIds, NEW n \in Nat, n <= Cardinality(Attributed(att, entered, s)),
           count' = [count EXCEPT ![s] = n + 1],
           \A c \in VideoCalls : vcall'[c].todo \subseteq vcall[c].todo,
           \A j \in MediaJobs : mjob'[j].todo = mjob[j].todo,
           vcall' \in [VideoCalls -> MediaCall], mjob' \in [MediaJobs -> MediaCall]
    PROVE  \E new \in Attributions : CountedBy(new)'
<1>1. /\ count \in [AlarmIds -> Nat] /\ IsFiniteSet(entered) /\ entered \subseteq VideoEvents
      /\ vcall \in [VideoCalls -> MediaCall] /\ mjob \in [MediaJobs -> MediaCall]
  BY DEF VideoTypes
<1>2. PICK new \in Attributions : \A a \in AlarmIds :
        Cardinality(Attributed(new, entered \cup {e}, a))
          = Cardinality(Attributed(att, entered, a)) + (IF a = s THEN 1 ELSE 0)
  <2>1. \E new \in Attributions : OneMore(att, new, entered, e, s)
    BY <1>1, EventEnters
  <2> QED BY <2>1 DEF OneMore
<1> DEFINE old(a) == Cardinality(Attributed(att, entered, a))
           now2(a) == Cardinality(Attributed(new, entered', a))
<1>3. \A a \in AlarmIds : old(a) \in Nat /\ now2(a) = old(a) + (IF a = s THEN 1 ELSE 0)
  BY <1>1, <1>2, AttributedIsFinite
<1>4. /\ \A a \in AlarmIds : count[a] <= old(a)
      /\ \A c \in VideoCalls : \A x \in vcall[c].todo : x.n <= old(x.id)
      /\ \A j \in MediaJobs : \A x \in mjob[j].todo : x.n <= old(x.id)
      /\ n <= old(s)
  BY DEF CountedBy
<1> HIDE DEF old, now2
<1>5. \A a \in AlarmIds : count'[a] <= now2(a)
  BY <1>1, <1>3, <1>4
<1>6. ASSUME NEW x \in AlarmCopy, x.n <= old(x.id) PROVE x.n <= now2(x.id)
  BY <1>3, <1>6 DEF AlarmCopy
<1>7. /\ \A c \in VideoCalls : vcall'[c].todo \subseteq AlarmCopy
      /\ \A j \in MediaJobs : mjob'[j].todo \subseteq AlarmCopy
  BY DEF MediaCall
<1>8. \A c \in VideoCalls : \A x \in vcall'[c].todo : x.n <= now2(x.id)
  BY <1>4, <1>6, <1>7
<1>9. \A j \in MediaJobs : \A x \in mjob'[j].todo : x.n <= now2(x.id)
  BY <1>4, <1>6, <1>7
<1> QED BY <1>2, <1>5, <1>8, <1>9 DEF CountedBy, now2

LEMMA CopiesAreCopies ==
    ASSUME VideoTypes, NEW as \in SUBSET AlarmIds
    PROVE  Copies(as) \subseteq AlarmCopy /\ Copies(as) \subseteq Copies(AlarmIds)
<1>1. \A a \in AlarmIds : [id |-> a, n |-> count[a]] \in AlarmCopy
  BY DEF VideoTypes, AlarmCopy
<1> QED BY <1>1 DEF Copies

LEMMA VideoStep == VideoInv /\ [VideoNext]_vvars => VideoInv'
<1> SUFFICES ASSUME VideoInv, [VideoNext]_vvars PROVE VideoInv'
  OBVIOUS
<1> PICK att \in Attributions : CountedBy(att)
  BY DEF VideoInv
<1>t. VideoTypes /\ CallsAreApart
  BY DEF VideoInv
<1>u. /\ count \in [AlarmIds -> Nat] /\ vcall \in [VideoCalls -> MediaCall] /\ mjob \in [MediaJobs -> MediaCall]
      /\ videoEvent \in [VideoEvents -> {Nil, "NONE", "PENDING", "STORED", "FAILED"}]
      /\ pendingMedia \subseteq VideoEvents /\ entered \subseteq VideoEvents /\ IsFiniteSet(entered)
  BY <1>t DEF VideoTypes
<1>1. ASSUME NEW c \in VideoCalls, NEW e \in VideoEvents, IngestVideo(c, e) PROVE VideoInv'
  <2> DEFINE t == [IdleCall EXCEPT !.pc = "list", !.ev = e]
  <2>1. /\ vcall[c] = IdleCall /\ UNCHANGED <<count, mjob, pendingMedia, entered>>
        /\ \/ vcall' = [vcall EXCEPT ![c] = vcall[c]] /\ videoEvent' = videoEvent
           \/ /\ vcall' = [vcall EXCEPT ![c] = t] /\ videoEvent[e] = Nil
              /\ videoEvent' = [videoEvent EXCEPT ![e] = IF e \in External THEN "PENDING" ELSE "NONE"]
    BY <1>1 DEF IngestVideo, SaveVideoEvent
  <2>2. t \in MediaCall /\ t.pc = "list" /\ t.ev = e /\ t.todo = {}
    BY DEF IdleCall, MediaCall
  <2> HIDE DEF t
  <2>3. CASE vcall' = [vcall EXCEPT ![c] = vcall[c]] /\ videoEvent' = videoEvent
    <3>1. vcall' = vcall
      BY <2>3, <1>u
    <3>2. CountedBy(att)'
      BY <3>1, <2>1 DEF CountedBy
    <3> QED BY <3>1, <3>2, <2>1, <2>3, <1>t DEF VideoInv, VideoTypes, CallsAreApart
  <2>4. CASE /\ vcall' = [vcall EXCEPT ![c] = t] /\ videoEvent[e] = Nil
             /\ videoEvent' = [videoEvent EXCEPT ![e] = IF e \in External THEN "PENDING" ELSE "NONE"]
    <3>1. /\ vcall' \in [VideoCalls -> MediaCall] /\ vcall'[c] = t
          /\ \A d \in VideoCalls : d # c => vcall'[d] = vcall[d]
      BY <2>2, <2>4, <1>u
    <3>2. /\ videoEvent' \in [VideoEvents -> {Nil, "NONE", "PENDING", "STORED", "FAILED"}]
          /\ videoEvent'[e] # Nil /\ \A f \in VideoEvents : f # e => videoEvent'[f] = videoEvent[f]
      BY <2>4, <1>u, VideoAssumption
    <3>3. VideoTypes'
      BY <3>1, <3>2, <2>1, <1>t DEF VideoTypes
    <3>4. e \notin entered /\ \A d \in VideoCalls : vcall[d].pc # "idle" => vcall[d].ev # e
      BY <2>4, <1>t DEF CallsAreApart
    <3>5. \A f \in entered' : videoEvent'[f] # Nil
      BY <3>2, <2>1, <1>t, <1>u DEF CallsAreApart
    <3>6. \A d \in VideoCalls : vcall'[d].pc # "idle" =>
            vcall'[d].ev \in VideoEvents \ entered' /\ videoEvent'[vcall'[d].ev] # Nil
      <4> SUFFICES ASSUME NEW d \in VideoCalls, vcall'[d].pc # "idle"
                   PROVE  vcall'[d].ev \in VideoEvents \ entered' /\ videoEvent'[vcall'[d].ev] # Nil
        OBVIOUS
      <4>1. CASE d = c
        BY <4>1, <3>1, <3>2, <3>4, <2>1, <2>2
      <4>2. CASE d # c
        BY <4>2, <3>1, <3>2, <3>4, <2>1, <1>t DEF CallsAreApart
      <4> QED BY <4>1, <4>2
    <3>7. \A d, f \in VideoCalls : d # f /\ vcall'[d].pc # "idle" /\ vcall'[f].pc # "idle" => vcall'[d].ev # vcall'[f].ev
      BY <3>1, <3>4, <2>2, <1>t DEF CallsAreApart
    <3>8. CallsAreApart'
      BY <3>5, <3>6, <3>7 DEF CallsAreApart
    <3>9. CountedBy(att)'
      BY <3>1, <2>1, <2>2, <1>t, CountsStay
    <3> QED BY <3>3, <3>8, <3>9 DEF VideoInv
  <2> QED BY <2>1, <2>3, <2>4
<1>2. ASSUME NEW c \in VideoCalls, fuseVideoAlarm(c) PROVE VideoInv'
  <2>1. vcall[c].pc = "list" /\ UNCHANGED <<count, videoEvent, mjob, pendingMedia, entered>>
    BY <1>2 DEF fuseVideoAlarm
  <2>2. PICK t \in MediaCall : /\ vcall' = [vcall EXCEPT ![c] = t] /\ t.todo \subseteq Copies(AlarmIds)
                               /\ t.pc = "idle" \/ t.ev = vcall[c].ev
    <3>1. CASE vcall' = [vcall EXCEPT ![c] = IdleCall]
      BY <3>1, IdleCallType
    <3>2. CASE \E near \in SUBSET WithStatus("ACTIVE") :
                 vcall' = [vcall EXCEPT ![c].pc = "fuse", ![c].todo = Copies(near)]
      <4>1. PICK near \in SUBSET WithStatus("ACTIVE") :
                 vcall' = [vcall EXCEPT ![c].pc = "fuse", ![c].todo = Copies(near)]
        BY <3>2
      <4>2. near \in SUBSET AlarmIds
        BY DEF WithStatus, Rows
      <4>3. Copies(near) \subseteq AlarmCopy /\ Copies(near) \subseteq Copies(AlarmIds)
        BY <4>2, <1>t, CopiesAreCopies
      <4> DEFINE N == Copies(near)
                 t == [vcall[c] EXCEPT !.pc = "fuse", !.todo = N]
      <4>4. vcall' = [vcall EXCEPT ![c] = t]
        BY <4>1, <1>u
      <4> HIDE DEF N
      <4>5. t \in MediaCall /\ t.todo = N /\ t.ev = vcall[c].ev
        BY <4>3, <1>u DEF MediaCall, N
      <4> QED BY <4>3, <4>4, <4>5 DEF N
    <3> QED BY <3>1, <3>2, <1>2 DEF fuseVideoAlarm
  <2>3. CallsAreApart' /\ vcall' \in [VideoCalls -> MediaCall]
    BY <2>1, <2>2, <1>t, CallGoesOn
  <2>4. \A d \in VideoCalls : vcall'[d].todo \subseteq vcall[d].todo \cup Copies(AlarmIds)
    BY <2>2, <1>u
  <2>5. CountedBy(att)'
    BY <2>1, <2>4, <1>t, CountsStay
  <2> QED BY <2>1, <2>3, <2>5, <1>u DEF VideoInv, VideoTypes
<1>w. ASSUME NEW x \in AlarmCopy, NEW crit, NEW n \in Nat, WriteCopy(x, crit, n)
      PROVE  /\ count' \in [AlarmIds -> Nat] /\ count' = [count EXCEPT ![x.id] = n]
             /\ x.id \in AlarmIds /\ x.n \in Nat
             /\ count'[x.id] = n /\ \A a \in AlarmIds : a # x.id => count'[a] = count[a]
  BY <1>w, <1>u DEF WriteCopy, AlarmCopy
<1>3. ASSUME NEW c \in VideoCalls, NEW x \in vcall[c].todo, JoinVideoAlarm(c, x) PROVE VideoInv'
  <2> DEFINE e == vcall[c].ev
  <2>1. /\ vcall[c].pc = "fuse" /\ vcall' = [vcall EXCEPT ![c] = IdleCall] /\ UNCHANGED <<videoEvent, mjob, pendingMedia>>
        /\ (WriteCopy(x, FALSE, x.n + 1) /\ entered' = entered \cup {e}) \/ UNCHANGED <<count, entered>>
    BY <1>3 DEF JoinVideoAlarm
  <2>2. x \in AlarmCopy /\ x.n + 1 \in Nat
    BY <1>u DEF MediaCall, AlarmCopy
  <2>3. /\ CallsAreApart' /\ vcall' \in [VideoCalls -> MediaCall]
        /\ entered' \subseteq VideoEvents /\ IsFiniteSet(entered')
    BY <2>1, <1>t, IdleCallType, CallGoesOn
  <2>4. \A d \in VideoCalls : vcall'[d].todo \subseteq vcall[d].todo
    BY <2>1, <1>u, IdleCallType
  <2>5. CASE UNCHANGED <<count, entered>>
    <3>1. CountedBy(att)'
      BY <2>1, <2>4, <2>5, <1>t, CountsStay
    <3> QED BY <3>1, <2>1, <2>3, <2>5, <1>u DEF VideoInv, VideoTypes
  <2>6. CASE WriteCopy(x, FALSE, x.n + 1) /\ entered' = entered \cup {e}
    <3>1. /\ count' \in [AlarmIds -> Nat] /\ count' = [count EXCEPT ![x.id] = x.n + 1]
          /\ x.id \in AlarmIds /\ x.n \in Nat
      BY <2>2, <2>6, <1>w
    <3>2. x.n <= Cardinality(Attributed(att, entered, x.id))
      BY DEF CountedBy
    <3>3. e \in VideoEvents \ entered
      BY <2>1, <1>t DEF CallsAreApart
    <3> HIDE DEF e
    <3>4. \E new \in Attributions : CountedBy(new)'
      BY <3>1, <3>2, <3>3, <2>1, <2>3, <2>4, <2>6, <1>t, <1>u, CountsEnter
    <3> QED BY <3>1, <3>4, <2>1, <2>3, <1>u DEF VideoInv, VideoTypes
  <2> QED BY <2>1, <2>5, <2>6
<1>4. ASSUME NEW c \in VideoCalls, NEW x \in vcall[c].todo, ConfirmFireAlarm(c, x) PROVE VideoInv'
  <2> DEFINE t == [vcall[c] EXCEPT !.todo = @ \ {x}]
  <2>1. /\ vcall[c].pc = "fuse" /\ UNCHANGED <<videoEvent, mjob, pendingMedia, entered>>
        /\ WriteCopy(x, TRUE, x.n) \/ UNCHANGED count
    BY <1>4 DEF ConfirmFireAlarm
  <2>2. vcall' = [vcall EXCEPT ![c] = t]
    BY <1>4, <1>u DEF ConfirmFireAlarm
  <2>3. t \in MediaCall /\ t.ev = vcall[c].ev /\ t.todo \subseteq vcall[c].todo
    BY <1>u DEF MediaCall
  <2>4. x \in AlarmCopy /\ x.n \in Nat
    BY <1>u DEF MediaCall, AlarmCopy
  <2> HIDE DEF t
  <2>5. CallsAreApart' /\ vcall' \in [VideoCalls -> MediaCall]
    BY <2>1, <2>2, <2>3, <1>t, CallGoesOn
  <2>6. \A d \in VideoCalls : vcall'[d].todo \subseteq vcall[d].todo
    BY <2>2, <2>3, <1>u
  <2>7. count' \in [AlarmIds -> Nat] /\ \A a \in AlarmIds : count'[a] = count[a] \/ (x.id = a /\ count'[a] = x.n)
    BY <2>1, <2>4, <1>u, <1>w
  <2>8. CountedBy(att)'
    BY <2>1, <2>6, <2>7, <1>t, CountsStay
  <2> QED BY <2>1, <2>5, <2>7, <2>8, <1>u DEF VideoInv, VideoTypes
<1>5. ASSUME NEW c \in VideoCalls, RaiseVideoAlarm(c) PROVE VideoInv'
  <2> DEFINE e == vcall[c].ev
  <2>1. /\ vcall[c].pc = "fuse" /\ vcall' = [vcall EXCEPT ![c] = IdleCall] /\ UNCHANGED <<videoEvent, pendingMedia>>
        /\ entered' = entered \cup {e}
        /\ mjob' = mjob \/ \E j \in MediaJobs : mjob[j] = IdleCall /\ mjob' = [mjob EXCEPT ![j].pc = "transfer", ![j].ev = e]
    BY <1>5 DEF RaiseVideoAlarm
  <2>2. PICK s \in AlarmIds, n \in Nat : n \in {0, count[s]} /\ count' = [count EXCEPT ![s] = n + 1]
    <3>1. PICK s \in AlarmIds, created \in BOOLEAN : count' = [count EXCEPT ![s] = IF created THEN 1 ELSE @ + 1]
      BY <1>5 DEF RaiseVideoAlarm
    <3>2. CASE created
      <4>1. count' = [count EXCEPT ![s] = 0 + 1]
        BY <3>1, <3>2
      <4> QED BY <4>1
    <3>3. CASE ~created
      <4>1. count' = [count EXCEPT ![s] = count[s] + 1]
        BY <3>1, <3>3, <1>u
      <4> QED BY <4>1, <1>u
    <3> QED BY <3>2, <3>3
  <2>3. /\ CallsAreApart' /\ vcall' \in [VideoCalls -> MediaCall]
        /\ entered' \subseteq VideoEvents /\ IsFiniteSet(entered')
    BY <2>1, <1>t, IdleCallType, CallGoesOn
  <2>4. \A d \in VideoCalls : vcall'[d].todo \subseteq vcall[d].todo
    BY <2>1, <1>u, IdleCallType
  <2>5. e \in VideoEvents \ entered
    BY <2>1, <1>t DEF CallsAreApart
  <2>6. mjob' \in [MediaJobs -> MediaCall] /\ \A j \in MediaJobs : mjob'[j].todo = mjob[j].todo
    <3>1. ASSUME NEW j \in MediaJobs, mjob' = [mjob EXCEPT ![j].pc = "transfer", ![j].ev = e]
          PROVE  mjob' \in [MediaJobs -> MediaCall] /\ \A i \in MediaJobs : mjob'[i].todo = mjob[i].todo
      <4> DEFINE t == [mjob[j] EXCEPT !.pc = "transfer", !.ev = e]
      <4>1. t \in MediaCall /\ t.todo = mjob[j].todo
        BY <2>5, <1>u DEF MediaCall
      <4>2. mjob' = [mjob EXCEPT ![j] = t]
        BY <3>1, <1>u
      <4> HIDE DEF t
      <4> QED BY <4>1, <4>2, <1>u
    <3> QED BY <3>1, <2>1, <1>u
  <2> HIDE DEF e
  <2>7. n \in Nat /\ n <= Cardinality(Attributed(att, entered, s)) /\ count' \in [AlarmIds -> Nat]
    <3>1. count[s] \in Nat /\ count[s] <= Cardinality(Attributed(att, entered, s))
      BY <1>u DEF CountedBy
    <3>2. Cardinality(Attributed(att, entered, s)) \in Nat
      BY <1>u, AttributedIsFinite
    <3>3. n \in Nat /\ n <= Cardinality(Attributed(att, entered, s))
      BY <3>1, <3>2, <2>2
    <3> QED BY <3>3, <2>2, <1>u
  <2>8. \E new \in Attributions : CountedBy(new)'
    BY <2>1, <2>2, <2>3, <2>4, <2>5, <2>6, <2>7, <1>t, CountsEnter
  <2> QED BY <2>1, <2>3, <2>6, <2>7, <2>8, <1>u DEF VideoInv, VideoTypes
\* What the retry loop and the goroutines do leaves the calls alone.
<1>m. ASSUME UNCHANGED <<vcall, entered>>, mjob' \in [MediaJobs -> MediaCall], count' \in [AlarmIds -> Nat],
             videoEvent' \in [VideoEvents -> {Nil, "NONE", "PENDING", "STORED", "FAILED"}],
             \A e \in VideoEvents : videoEvent[e] # Nil => videoEvent'[e] # Nil,
             pendingMedia' \subseteq VideoEvents, CountedBy(att)'
      PROVE  VideoInv'
  <2>1. CallsAreApart'
    BY <1>m, <1>t, <1>u DEF CallsAreApart
  <2>2. VideoTypes'
    BY <1>m, <1>u DEF VideoTypes
  <2> QED BY <2>1, <2>2, <1>m DEF VideoInv
<1>j. ASSUME NEW j \in MediaJobs, NEW t \in MediaCall, mjob' = [mjob EXCEPT ![j] = t],
             t.todo \subseteq mjob[j].todo \cup Copies(AlarmIds)
      PROVE  /\ mjob' \in [MediaJobs -> MediaCall]
             /\ \A i \in MediaJobs : mjob'[i].todo \subseteq mjob[i].todo \cup Copies(AlarmIds)
  BY <1>j, <1>u
<1>6. CASE retryPendingVideoMedia
  <2>1. UNCHANGED <<count, videoEvent, vcall, entered>>
    BY <1>6 DEF retryPendingVideoMedia
  <2>2. pendingMedia' \subseteq VideoEvents
    BY <1>6, <1>u DEF retryPendingVideoMedia, ListPendingVideoEvents
  <2>3. mjob' \in [MediaJobs -> MediaCall] /\ \A i \in MediaJobs : mjob'[i].todo \subseteq mjob[i].todo \cup Copies(AlarmIds)
    <3>1. ASSUME NEW e \in pendingMedia, mjob' = [mjob EXCEPT ![RetryLoop].pc = "transfer", ![RetryLoop].ev = e]
          PROVE  /\ mjob' \in [MediaJobs -> MediaCall]
                 /\ \A i \in MediaJobs : mjob'[i].todo \subseteq mjob[i].todo \cup Copies(AlarmIds)
      <4> DEFINE t == [mjob[RetryLoop] EXCEPT !.pc = "transfer", !.ev = e]
      <4>1. RetryLoop \in MediaJobs
        BY VideoAssumption
      <4>2. t \in MediaCall /\ t.todo = mjob[RetryLoop].todo
        BY <4>1, <1>u DEF MediaCall
      <4>3. mjob' = [mjob EXCEPT ![RetryLoop] = t]
        BY <3>1, <4>1, <1>u
      <4> HIDE DEF t
      <4> QED BY <4>1, <4>2, <4>3, <1>j
    <3> QED BY <3>1, <1>6, <1>u DEF retryPendingVideoMedia
  <2>4. CountedBy(att)'
    BY <2>1, <2>3, <1>t, CountsStay
  <2> QED BY <2>1, <2>2, <2>3, <2>4, <1>m, <1>u
<1>7. ASSUME NEW j \in MediaJobs, NEW ok \in BOOLEAN, processVideoMedia(j, ok) PROVE VideoInv'
  <2>1. /\ UNCHANGED <<count, vcall, pendingMedia, entered>>
        /\ videoEvent' = [videoEvent EXCEPT ![mjob[j].ev] = IF ok THEN "STORED" ELSE "FAILED"]
    BY <1>7 DEF processVideoMedia
  <2>2. PICK t \in MediaCall : mjob' = [mjob EXCEPT ![j] = t] /\ t.todo \subseteq mjob[j].todo
    <3>1. mjob' = [mjob EXCEPT ![j] = IF ok THEN [@ EXCEPT !.pc = "list"] ELSE IdleCall]
      BY <1>7 DEF processVideoMedia
    <3> DEFINE t == IF ok THEN [mjob[j] EXCEPT !.pc = "list"] ELSE IdleCall
    <3>2. mjob' = [mjob EXCEPT ![j] = t]
      BY <3>1, <1>u
    <3>3. t \in MediaCall /\ t.todo \subseteq mjob[j].todo
      BY <1>u, IdleCallType DEF MediaCall
    <3> QED BY <3>2, <3>3
  <2>3. /\ videoEvent' \in [VideoEvents -> {Nil, "NONE", "PENDING", "STORED", "FAILED"}]
        /\ \A e \in VideoEvents : videoEvent[e] # Nil => videoEvent'[e] # Nil
    BY <2>1, <1>u, VideoAssumption
  <2>4. mjob' \in [MediaJobs -> MediaCall] /\ \A i \in MediaJobs : mjob'[i].todo \subseteq mjob[i].todo \cup Copies(AlarmIds)
    BY <2>2, <1>j
  <2>5. CountedBy(att)'
    BY <2>1, <2>4, <1>t, CountsStay
  <2> QED BY <2>1, <2>3, <2>4, <2>5, <1>m, <1>u
<1>8. ASSUME NEW j \in MediaJobs, updateVideoAlarmMedia(j) PROVE VideoInv'
  <2>1. UNCHANGED <<videoEvent, vcall, pendingMedia, entered>>
    BY <1>8 DEF updateVideoAlarmMedia
  <2>2. CASE /\ UNCHANGED count
             /\ mjob' = [mjob EXCEPT ![j].pc = "write", ![j].todo = Copies(ListAlarms(Video, "ACTIVE"))]
    <3> DEFINE N == Copies(ListAlarms(Video, "ACTIVE"))
               t == [mjob[j] EXCEPT !.pc = "write", !.todo = N]
    <3>1. ListAlarms(Video, "ACTIVE") \in SUBSET AlarmIds
      BY DEF ListAlarms, WithStatus, Rows
    <3>2. N \subseteq AlarmCopy /\ N \subseteq Copies(AlarmIds)
      BY <3>1, <1>t, CopiesAreCopies
    <3>3. mjob' = [mjob EXCEPT ![j] = t]
      BY <2>2, <1>u
    <3> HIDE DEF N
    <3>4. t \in MediaCall /\ t.todo = N
      BY <3>2, <1>u DEF MediaCall
    <3> HIDE DEF t
    <3>5. mjob' \in [MediaJobs -> MediaCall] /\ \A i \in MediaJobs : mjob'[i].todo \subseteq mjob[i].todo \cup Copies(AlarmIds)
      BY <3>2, <3>3, <3>4, <1>j
    <3>6. CountedBy(att)'
      BY <3>5, <2>1, <2>2, <1>t, CountsStay
    <3> QED BY <3>5, <3>6, <2>1, <2>2, <1>m, <1>u
  <2>3. CASE UNCHANGED count /\ mjob' = [mjob EXCEPT ![j] = IdleCall]
    <3>1. mjob' \in [MediaJobs -> MediaCall] /\ \A i \in MediaJobs : mjob'[i].todo \subseteq mjob[i].todo \cup Copies(AlarmIds)
      BY <2>3, <1>j, IdleCallType
    <3>2. CountedBy(att)'
      BY <3>1, <2>1, <2>3, <1>t, CountsStay
    <3> QED BY <3>1, <3>2, <2>1, <2>3, <1>m, <1>u
  <2>4. ASSUME NEW x \in mjob[j].todo, WriteCopy(x, FALSE, x.n) \/ UNCHANGED count,
               mjob' = [mjob EXCEPT ![j].todo = @ \ {x}]
        PROVE  VideoInv'
    <3> DEFINE t == [mjob[j] EXCEPT !.todo = @ \ {x}]
    <3>1. mjob' = [mjob EXCEPT ![j] = t]
      BY <2>4, <1>u
    <3>2. t \in MediaCall /\ t.todo \subseteq mjob[j].todo
      BY <1>u DEF MediaCall
    <3>3. x \in AlarmCopy /\ x.n \in Nat
      BY <1>u DEF MediaCall, AlarmCopy
    <3> HIDE DEF t
    <3>4. mjob' \in [MediaJobs -> MediaCall] /\ \A i \in MediaJobs : mjob'[i].todo \subseteq mjob[i].todo \cup Copies(AlarmIds)
      BY <3>1, <3>2, <1>j
    <3>5. count' \in [AlarmIds -> Nat] /\ \A a \in AlarmIds : count'[a] = count[a] \/ (x.id = a /\ count'[a] = x.n)
      <4>1. CASE UNCHANGED count
        BY <4>1, <1>u
      <4>2. CASE WriteCopy(x, FALSE, x.n)
        <5>1. /\ count' \in [AlarmIds -> Nat] /\ count'[x.id] = x.n
              /\ \A a \in AlarmIds : a # x.id => count'[a] = count[a]
          BY <4>2, <3>3, <1>w
        <5> QED BY <5>1
      <4> QED BY <4>1, <4>2, <2>4
    <3>6. CountedBy(att)'
      BY <3>4, <3>5, <2>1, <1>t, CountsStay
    <3> QED BY <3>4, <3>5, <3>6, <2>1, <1>m, <1>u
  <2> QED BY <2>2, <2>3, <2>4, <1>8 DEF updateVideoAlarmMedia
<1>9. CASE UNCHANGED <<count, videoEvent, vcall, mjob, pendingMedia, entered>>
  <2>1. CountedBy(att)'
    BY <1>9 DEF CountedBy
  <2> QED BY <2>1, <1>9, <1>m, <1>u
<1>10. CASE RestartVideo
  <2>1. /\ UNCHANGED <<count, videoEvent, entered>> /\ vcall' = [c \in VideoCalls |-> IdleCall]
        /\ mjob' = [j \in MediaJobs |-> IdleCall] /\ pendingMedia' = {}
    BY <1>10 DEF RestartVideo
  <2>2. /\ vcall' \in [VideoCalls -> MediaCall] /\ mjob' \in [MediaJobs -> MediaCall]
        /\ \A c \in VideoCalls : vcall'[c].pc = "idle" /\ vcall'[c].todo = {}
        /\ \A j \in MediaJobs : mjob'[j].todo = {}
    BY <2>1, IdleCallType
  <2>3. CallsAreApart'
    BY <2>1, <2>2, <1>t DEF CallsAreApart
  <2>4. CountedBy(att)'
    BY <2>1, <2>2, <1>t, CountsStay
  <2> QED BY <2>1, <2>2, <2>3, <2>4, <1>u DEF VideoInv, VideoTypes
<1>11. ASSUME NEW a \in AlarmIds, CloseVideoAlarm(a) PROVE VideoInv'
  BY <1>9, <1>11 DEF CloseVideoAlarm
<1>12. UNCHANGED vvars => VideoInv'
  BY <1>9 DEF vvars
<1> QED BY <1>1, <1>2, <1>3, <1>4, <1>5, <1>6, <1>7, <1>8, <1>10, <1>11, <1>12 DEF VideoNext, MediaStep

\* IngestVideo, fuseVideoAlarm and updateVideoAlarmMedia: for any number of events, calls, media
\* jobs and restarts, and whatever stale copies of alarms are written back, the counts of two
\* alarms together never exceed the events that entered an alarm.
THEOREM VideoEventsCount == VideoSpec => []EventsCountedOnce
<1>1. VideoInit => VideoInv
  <2> SUFFICES ASSUME VideoInit PROVE VideoInv
    OBVIOUS
  <2>1. /\ count = [a \in AlarmIds |-> 0] /\ videoEvent = [e \in VideoEvents |-> Nil]
        /\ vcall = [c \in VideoCalls |-> IdleCall] /\ mjob = [j \in MediaJobs |-> IdleCall]
        /\ pendingMedia = {} /\ entered = {}
    BY DEF VideoInit
  <2>2. VideoTypes
    BY <2>1, IdleCallType, FS_EmptySet DEF VideoTypes
  <2>3. CallsAreApart
    BY <2>1, IdleCallType DEF CallsAreApart
  <2> DEFINE att == [e \in VideoEvents |-> Nil]
  <2>4. att \in Attributions
    BY DEF Attributions
  <2> HIDE DEF att
  <2>5. \A a \in AlarmIds : Cardinality(Attributed(att, entered, a)) = 0
    BY <2>1, FS_EmptySet DEF Attributed
  <2>6. CountedBy(att)
    BY <2>1, <2>5, IdleCallType DEF CountedBy
  <2> QED BY <2>2, <2>3, <2>4, <2>6 DEF VideoInv
<1>2. VideoInv => EventsCountedOnce
  <2> SUFFICES ASSUME VideoInv PROVE EventsCountedOnce
    OBVIOUS
  <2>1. PICK att \in Attributions : CountedBy(att)
    BY DEF VideoInv
  <2>2. IsFiniteSet(entered) /\ count \in [AlarmIds -> Nat]
    BY DEF VideoInv, VideoTypes
  <2>3. ASSUME NEW a \in AlarmIds, NEW b \in AlarmIds \ {a}
        PROVE  count[a] + count[b] <= Cardinality(entered)
    <3> DEFINE A == Attributed(att, entered, a)
               B == Attributed(att, entered, b)
    <3>1. A \cup B \in SUBSET entered /\ A \cap B = {}
      BY DEF Attributed
    <3>2. IsFiniteSet(A) /\ IsFiniteSet(B) /\ Cardinality(A) \in Nat /\ Cardinality(B) \in Nat
      BY <2>2, AttributedIsFinite
    <3>3. count[a] <= Cardinality(A) /\ count[b] <= Cardinality(B)
      BY <2>1 DEF CountedBy
    <3> HIDE DEF A, B
    <3>4. Cardinality(A \cup B) = Cardinality(A) + Cardinality(B)
      <4>1. Cardinality(A \cup B) = Cardinality(A) + Cardinality(B) - Cardinality(A \cap B)
        BY <3>2, FS_Union
      <4>2. Cardinality(A \cap B) = 0
        BY <3>1, FS_EmptySet
      <4> QED BY <4>1, <4>2, <3>2
    <3>5. Cardinality(A \cup B) <= Cardinality(entered) /\ Cardinality(entered) \in Nat
      BY <3>1, <2>2, FS_Subset, FS_CardinalityType
    <3>6. count[a] \in Nat /\ count[b] \in Nat
      BY <2>2
    <3> QED BY <3>2, <3>3, <3>4, <3>5, <3>6
  <2>4. ASSUME NEW a \in AlarmIds PROVE count[a] <= Cardinality(entered)
    <3> DEFINE A == Attributed(att, entered, a)
    <3>1. A \in SUBSET entered
      BY DEF Attributed
    <3>2. count[a] <= Cardinality(A)
      BY <2>1 DEF CountedBy
    <3>3. Cardinality(A) \in Nat
      BY <2>2, AttributedIsFinite
    <3> HIDE DEF A
    <3>4. Cardinality(A) <= Cardinality(entered) /\ Cardinality(entered) \in Nat
      BY <3>1, <2>2, FS_Subset, FS_CardinalityType
    <3> QED BY <3>2, <3>3, <3>4, <2>2
  <2> QED BY <2>3, <2>4 DEF EventsCountedOnce
<1> QED BY <1>1, <1>2, VideoStep, PTL DEF VideoSpec

-----------------------------------------------------------------------------
(* ModbusCollect. Three invariants: where a reader is and what it has been *)
(* answered; who refers to the lock of an endpoint; who holds its token.   *)

JobRows == [at : {"idle", "slot", "bus", "send", "wait", "ingest", "online", "error"}, block : 1 .. NBlocks, try : Nat]

\* A reader that waits has one answer under way, to the block it asked for; a profile that
\* is not collected is idle.
InOrder(t, w, g) ==
    /\ t \in JobRows /\ g \in Seq(1 .. NBlocks)
    /\ t.at \in {"idle", "slot", "bus"} => g = <<>> /\ t.block = 1
    /\ t.at \in {"send", "wait"} => Len(g) = t.block - 1
    /\ w = IF t.at = "wait" THEN <<t.block>> ELSE <<>>
    /\ \A b \in 1 .. Len(g) : g[b] = b

AnswerInv ==
    /\ running \subseteq Profiles /\ job \in [Readers -> JobRows]
    /\ DOMAIN answers = Readers /\ answers = [j \in Readers |-> answers[j]]
    /\ got \in [Readers -> Seq(1 .. NBlocks)]
    /\ \A p \in Profiles \ running : job[p].at = "idle"
    /\ \A j \in Readers : InOrder(job[j], answers[j], got[j])

Config == [n : Nat, on : BOOLEAN]
Shown == [of : Config, status : {"pending", "disabled", "online", "error"}]

\* The outcome a profile shows was observed under its stored configuration.
ShownFits(o, v) == o.status \in {"online", "error"} => o.of = v /\ v.on

EditInv ==
    /\ edits \in [Profiles -> Config] /\ listed \in [Profiles -> Config]
    /\ copy \in [Profiles -> Config] /\ observed \in [Profiles -> Shown]
    /\ \A p \in Profiles : copy[p].on
    /\ \A p \in Profiles : ShownFits(observed[p], edits[p])

\* A step of reader j on its job and its answers.
LEMMA AnswerStepOf ==
    ASSUME AnswerInv, NEW j \in Readers, NEW t, NEW w, NEW g, InOrder(t, w, g),
           job' = [job EXCEPT ![j] = t], answers' = [answers EXCEPT ![j] = w], got' = [got EXCEPT ![j] = g],
           running' \subseteq Profiles, \A p \in Profiles \ {j} : p \in running => p \in running',
           j \in Profiles /\ j \notin running' => t.at = "idle"
    PROVE  AnswerInv'
<1>1. /\ job \in [Readers -> JobRows] /\ answers = [i \in Readers |-> answers[i]]
      /\ got \in [Readers -> Seq(1 .. NBlocks)] /\ t \in JobRows /\ g \in Seq(1 .. NBlocks)
  BY DEF AnswerInv, InOrder
<1>3. /\ job' \in [Readers -> JobRows] /\ answers' = [i \in Readers |-> answers'[i]]
      /\ DOMAIN answers' = Readers /\ got' \in [Readers -> Seq(1 .. NBlocks)]
      /\ job'[j] = t /\ answers'[j] = w /\ got'[j] = g
      /\ \A i \in Readers : i # j => job'[i] = job[i] /\ answers'[i] = answers[i] /\ got'[i] = got[i]
  BY <1>1
<1>4. \A p \in Profiles \ running' : job'[p].at = "idle"
  BY <1>3 DEF AnswerInv, Readers
<1>5. \A i \in Readers : InOrder(job'[i], answers'[i], got'[i])
  BY <1>3 DEF AnswerInv
<1> QED BY <1>3, <1>4, <1>5 DEF AnswerInv

LEMMA AnswerStep == AnswerInv /\ [CollectNext]_mvars => AnswerInv'
<1> SUFFICES ASSUME AnswerInv, [CollectNext]_mvars PROVE AnswerInv'
  OBVIOUS
<1>t. /\ job \in [Readers -> JobRows] /\ answers = [j \in Readers |-> answers[j]] /\ DOMAIN answers = Readers
      /\ got \in [Readers -> Seq(1 .. NBlocks)] /\ running \subseteq Profiles
      /\ NBlocks \in Nat \ {0} /\ Tries \in Nat \ {0} /\ Profiles \cap Probes = {}
  BY CollectAssumption DEF AnswerInv
<1>q. ASSUME NEW j \in Readers
      PROVE  /\ job[j].at \in {"idle", "slot", "bus"} => got[j] = <<>> /\ job[j].block = 1
             /\ job[j].at \in {"send", "wait"} => Len(got[j]) = job[j].block - 1
             /\ answers[j] = IF job[j].at = "wait" THEN <<job[j].block>> ELSE <<>>
             /\ \A b \in 1 .. Len(got[j]) : got[j][b] = b
             /\ job[j].block \in 1 .. NBlocks /\ job[j].try \in Nat /\ job[j] \in JobRows /\ got[j] \in Seq(1 .. NBlocks)
             /\ j \in Profiles /\ j \notin running => job[j].at = "idle"
  BY <1>t DEF AnswerInv, InOrder, JobRows
<1>i. JobIdle \in JobRows /\ JobIdle.at = "idle" /\ JobIdle.block = 1
  BY <1>t DEF JobIdle, JobRows
\* A step that moves reader j and keeps what it has been answered.
<1>m. ASSUME NEW j \in Readers, NEW t \in JobRows, job' = [job EXCEPT ![j] = t], running' = running, got' = got,
             answers' = [answers EXCEPT ![j] = <<>>],
             job[j].at # "idle", t.at \notin {"idle", "wait"},
             t.at \in {"slot", "bus"} => got[j] = <<>> /\ t.block = 1,
             t.at = "send" => Len(got[j]) = t.block - 1
      PROVE  AnswerInv'
  <2>1. got' = [got EXCEPT ![j] = got[j]]
    BY <1>m, <1>t
  <2>2. j \in Profiles => j \in running
    BY <1>m, <1>q
  <2>3. InOrder(t, <<>>, got[j])
    BY <1>m, <1>q DEF InOrder
  <2> QED BY <2>1, <2>2, <2>3, <1>m, <1>t, AnswerStepOf
<1>k. ASSUME NEW j \in Readers, job[j].at # "wait", answers' = answers PROVE answers' = [answers EXCEPT ![j] = <<>>]
  BY <1>k, <1>q, <1>t
<1>1. ASSUME NEW p \in Profiles, EditProfile(p) \/ ScanFails(p) PROVE AnswerInv'
  BY <1>1 DEF EditProfile, ScanFails, AnswerInv
<1>11. CASE ListProfiles
  BY <1>11 DEF ListProfiles, AnswerInv
<1>2. ASSUME NEW p \in Profiles, Scan(p) PROVE AnswerInv'
  <2> DEFINE t == [JobIdle EXCEPT !.at = "slot"]
  <2>1. /\ p \notin running /\ running' = running \cup {p} /\ job' = [job EXCEPT ![p] = t]
        /\ UNCHANGED <<answers, got>> /\ p \in Readers
    BY <1>2 DEF Scan, Readers
  <2>2. job[p].at = "idle"
    BY <2>1 DEF AnswerInv
  <2>3. t \in JobRows /\ t.at = "slot" /\ t.block = 1
    BY <1>t DEF JobIdle, JobRows
  <2> HIDE DEF t
  <2>4. answers' = [answers EXCEPT ![p] = <<>>] /\ got' = [got EXCEPT ![p] = <<>>] /\ got[p] = <<>>
    BY <2>1, <2>2, <1>q, <1>t
  <2>5. <<>> \in Seq(1 .. NBlocks) /\ Len(<<>>) = 0
    OBVIOUS
  <2>6. InOrder(t, <<>>, <<>>)
    BY <2>3, <2>5 DEF InOrder
  <2>7. running' \subseteq Profiles /\ (\A i \in Profiles \ {p} : i \in running => i \in running')
        /\ (p \in Profiles /\ p \notin running' => t.at = "idle") /\ job' = [job EXCEPT ![p] = t] /\ p \in Readers
    BY <2>1, <1>t
  <2> QED BY <2>4, <2>6, <2>7, AnswerStepOf
<1>3. ASSUME NEW j \in Readers, StartProbe(j) PROVE AnswerInv'
  <2> DEFINE t == [job[j] EXCEPT !.at = "slot"]
  <2>1. j \in Probes /\ job[j].at = "idle" /\ running' = running /\ UNCHANGED <<answers, got>>
    BY <1>3 DEF StartProbe, collection
  <2>2. job' = [job EXCEPT ![j] = t]
    BY <1>3, <1>t DEF StartProbe
  <2>3. t \in JobRows /\ t.at = "slot" /\ t.block = 1
    BY <2>1, <1>q DEF JobRows
  <2> HIDE DEF t
  <2>4. answers' = [answers EXCEPT ![j] = <<>>] /\ got' = [got EXCEPT ![j] = <<>>] /\ got[j] = <<>>
    BY <2>1, <1>q, <1>t
  <2>5. <<>> \in Seq(1 .. NBlocks) /\ Len(<<>>) = 0 /\ j \notin Profiles
    BY <2>1, <1>t
  <2>6. InOrder(t, <<>>, <<>>)
    BY <2>3, <2>5 DEF InOrder
  <2> QED BY <2>1, <2>2, <2>4, <2>5, <2>6, <1>t, AnswerStepOf
\* Steps that change no more than where the reader is.
<1>4. ASSUME NEW j \in Readers, TakeSlot(j) \/ ReadRefused(j) \/ LockBus(j) \/ ConnectFails(j) \/ Cancel(j)
                                \/ IngestFails(j)
      PROVE  AnswerInv'
  <2>1. PICK a \in {"bus", "send", "error"} :
          /\ job' = [job EXCEPT ![j].at = a]
          /\ (a = "bus" => job[j].at = "slot") /\ (a = "send" => job[j].at = "bus")
    BY <1>4 DEF TakeSlot, ReadRefused, LockBus, ConnectFails, Cancel, IngestFails
  <2> DEFINE t == [job[j] EXCEPT !.at = a]
  <2>2. job' = [job EXCEPT ![j] = t]
    BY <2>1, <1>t
  <2>3. t \in JobRows /\ t.at = a /\ t.block = job[j].block
    BY <1>q DEF JobRows
  <2> HIDE DEF t
  <2>4. running' = running /\ got' = got /\ job[j].at # "idle"
    BY <1>4 DEF TakeSlot, ReadRefused, LockBus, ConnectFails, Cancel, IngestFails, collection
  <2>5. answers' = [answers EXCEPT ![j] = <<>>]
    BY <1>4, <1>k DEF TakeSlot, ReadRefused, LockBus, ConnectFails, Cancel, IngestFails
  <2>6. /\ t.at \in {"slot", "bus"} => got[j] = <<>> /\ t.block = 1
        /\ t.at = "send" => Len(got[j]) = t.block - 1
    <3>1. a \in {"bus", "send"} => got[j] = <<>> /\ job[j].block = 1
      BY <2>1, <1>q
    <3>2. Len(<<>>) = 1 - 1
      OBVIOUS
    <3> QED BY <3>1, <3>2, <2>3
  <2> QED BY <2>2, <2>3, <2>4, <2>5, <2>6, <1>m
<1>5. ASSUME NEW j \in Readers, SendRequest(j) PROVE AnswerInv'
  <2> DEFINE t == [job[j] EXCEPT !.at = "wait"]
  <2>1. job[j].at = "send" /\ answers' = [answers EXCEPT ![j] = Append(@, job[j].block)] /\ running' = running /\ got' = got
    BY <1>5 DEF SendRequest, collection
  <2>2. job' = [job EXCEPT ![j] = t]
    BY <1>5, <1>t DEF SendRequest
  <2>3. t \in JobRows /\ t.at = "wait" /\ t.block = job[j].block
    BY <1>q DEF JobRows
  <2> HIDE DEF t
  <2> DEFINE w == <<t.block>>
  <2>8. answers[j] = <<>>
    BY <2>1, <1>q
  <2>4. Append(<<>>, t.block) = w
    OBVIOUS
  <2>5. answers' = [answers EXCEPT ![j] = w] /\ got' = [got EXCEPT ![j] = got[j]]
    BY <2>1, <2>3, <2>4, <2>8, <1>t
  <2>6. Len(got[j]) = t.block - 1 /\ (j \in Profiles => j \in running)
    BY <2>1, <2>3, <1>q
  <2>7. InOrder(t, w, got[j])
    BY <2>3, <2>6, <1>q DEF InOrder
  <2> HIDE DEF w
  <2>9. running' \subseteq Profiles /\ (\A p \in Profiles \ {j} : p \in running => p \in running')
        /\ (j \in Profiles /\ j \notin running' => t.at = "idle")
    BY <2>1, <2>6, <1>t
  <2> QED BY <2>2, <2>5, <2>7, <2>9, AnswerStepOf
<1>6. ASSUME NEW j \in Readers, ReadResponse(j) PROVE AnswerInv'
  <2> DEFINE n == job[j].block
             g == Append(got[j], n)
             t == IF n = NBlocks THEN [at |-> IF j \in Probes THEN "online" ELSE "ingest", block |-> 1, try |-> 1]
                  ELSE [at |-> "send", block |-> n + 1, try |-> 1]
  <2>1. job[j].at = "wait" /\ running' = running /\ job' = [job EXCEPT ![j] = t]
    BY <1>6, <1>t DEF ReadResponse, collection
  <2>2. answers[j] = <<n>> /\ Len(got[j]) = n - 1 /\ n \in 1 .. NBlocks /\ (j \in Profiles => j \in running)
    BY <2>1, <1>q
  <2>3. Head(<<n>>) = n /\ Tail(<<n>>) = <<>>
    OBVIOUS
  <2>4. answers' = [answers EXCEPT ![j] = <<>>] /\ got' = [got EXCEPT ![j] = g]
    BY <1>6, <2>2, <2>3, <1>t DEF ReadResponse
  <2>5. g \in Seq(1 .. NBlocks) /\ Len(g) = n /\ \A b \in 1 .. Len(g) : g[b] = b
    <3>1. n \in 1 .. NBlocks /\ got[j] \in Seq(1 .. NBlocks) /\ \A b \in 1 .. Len(got[j]) : got[j][b] = b
      BY <2>2, <1>q
    <3> HIDE DEF n
    <3>2. g \in Seq(1 .. NBlocks) /\ Len(g) = Len(got[j]) + 1 /\ g[Len(got[j]) + 1] = n
          /\ \A b \in 1 .. Len(got[j]) : g[b] = got[j][b]
      BY <3>1, AppendProperties
    <3>3. Len(g) = n
      BY <3>1, <3>2, <2>2
    <3> HIDE DEF g
    <3>4. ASSUME NEW b \in 1 .. n PROVE g[b] = b
      <4>1. b = n \/ b \in 1 .. n - 1
        BY <3>1
      <4> QED BY <4>1, <3>1, <3>2, <2>2
    <3> QED BY <3>2, <3>3, <3>4
  <2>6. t \in JobRows /\ t.at \notin {"idle", "slot", "bus", "wait"} /\ (t.at = "send" => t.block = n + 1)
    BY <2>2, <1>t DEF JobRows
  <2> HIDE DEF t, g
  <2>7. t.at \in {"send", "wait"} => Len(g) = t.block - 1
    BY <2>2, <2>5, <2>6
  <2>8. InOrder(t, <<>>, g)
    BY <2>5, <2>6, <2>7 DEF InOrder
  <2> QED BY <2>1, <2>2, <2>4, <2>8, <1>t, AnswerStepOf
<1>7. ASSUME NEW j \in Readers, ReadFails(j) PROVE AnswerInv'
  <2> DEFINE t == IF job[j].try < Tries THEN [job[j] EXCEPT !.at = "send", !.try = @ + 1]
                  ELSE [job[j] EXCEPT !.at = "error"]
  <2>1. job[j].at = "wait" /\ answers' = [answers EXCEPT ![j] = <<>>] /\ running' = running /\ got' = got
    BY <1>7 DEF ReadFails, collection
  <2>2. job' = [job EXCEPT ![j] = t]
    BY <1>7, <1>t DEF ReadFails
  <2>3. t \in JobRows /\ t.at \in {"send", "error"} /\ t.block = job[j].block
    <3>5. job[j].try \in Nat
      BY <1>q
    <3>1. job[j].try + 1 \in Nat
      BY <3>5
    <3> DEFINE k == job[j].try + 1
    <3>2. [job[j] EXCEPT !.at = "send", !.try = @ + 1] = [job[j] EXCEPT !.at = "send", !.try = k]
      BY <1>q DEF JobRows
    <3> HIDE DEF k
    <3>3. [job[j] EXCEPT !.at = "send", !.try = k] \in JobRows
          /\ [job[j] EXCEPT !.at = "send", !.try = k].at = "send"
          /\ [job[j] EXCEPT !.at = "send", !.try = k].block = job[j].block
      BY <3>1, <1>q DEF JobRows, k
    <3>4. [job[j] EXCEPT !.at = "error"] \in JobRows /\ [job[j] EXCEPT !.at = "error"].at = "error"
          /\ [job[j] EXCEPT !.at = "error"].block = job[j].block
      BY <1>q DEF JobRows
    <3> QED BY <3>2, <3>3, <3>4
  <2> HIDE DEF t
  <2> QED BY <2>1, <2>2, <2>3, <1>q, <1>m
<1>8. ASSUME NEW j \in Readers, Ingest(j) PROVE AnswerInv'
  <2> DEFINE k == job[j].block + 1
             t == IF job[j].block < NBlocks THEN [job[j] EXCEPT !.block = @ + 1] ELSE [job[j] EXCEPT !.at = "online"]
  <2>1. job[j].at = "ingest" /\ answers' = answers /\ running' = running /\ got' = got
    BY <1>8 DEF Ingest, collection
  <2>2. job' = [job EXCEPT ![j] = t]
    BY <1>8, <1>t DEF Ingest
  <2>4. job[j].block < NBlocks => k \in 1 .. NBlocks
    BY <1>q, <1>t
  <2>5. t = IF job[j].block < NBlocks THEN [job[j] EXCEPT !.block = k] ELSE [job[j] EXCEPT !.at = "online"]
    BY <1>q DEF JobRows
  <2> HIDE DEF k, t
  <2>3. t \in JobRows /\ t.at \in {"ingest", "online"}
    BY <2>1, <2>4, <2>5, <1>q DEF JobRows
  <2> HIDE DEF t
  <2> QED BY <2>1, <2>2, <2>3, <1>k, <1>m
<1>9. ASSUME NEW j \in Readers, EndCollect(j) PROVE AnswerInv'
  <2>1. /\ job[j].at \in {"online", "error"} /\ job' = [job EXCEPT ![j] = JobIdle] /\ answers' = answers
        /\ got' = [got EXCEPT ![j] = <<>>] /\ running' \in {running, running \ {j}}
    BY <1>9 DEF EndCollect, collection
  <2>2. answers' = [answers EXCEPT ![j] = <<>>]
    BY <2>1, <1>k
  <2>3. <<>> \in Seq(1 .. NBlocks) /\ Len(<<>>) = 0
    OBVIOUS
  <2>4. InOrder(JobIdle, <<>>, <<>>)
    BY <2>3, <1>i DEF InOrder
  <2>5. running' \subseteq Profiles /\ \A p \in Profiles \ {j} : p \in running => p \in running'
    BY <2>1, <1>t
  <2> QED BY <2>1, <2>2, <2>4, <2>5, <1>i, <1>t, AnswerStepOf
<1>10. CASE UNCHANGED mvars
  BY <1>10 DEF mvars, collection, AnswerInv
<1> QED BY <1>1, <1>2, <1>3, <1>4, <1>5, <1>6, <1>7, <1>8, <1>9, <1>10, <1>11 DEF CollectNext, ReadStep

NBus == Cardinality(Readers)
AtBus == {"bus", "send", "wait"}
Holders == {"send", "wait"}

BusTypes ==
    /\ entry \in [{EndpointOf[j] : j \in Readers} -> 0 .. NBus]
    /\ refs \in [BusIds -> Nat] /\ ref \in [Readers -> 0 .. NBus]
    /\ token \in [BusIds -> Readers \cup {Nobody}]

UsersOf(o) == {j \in Readers : ref[j] = o}

\* The entry of an endpoint is there as long as a reader refers to it, and no two endpoints
\* share one; refs counts the readers that refer to it.
BusIsShared ==
    /\ \A j \in Readers : ref[j] # 0 => entry[EndpointOf[j]] = ref[j]
    /\ \A i, j \in Readers : entry[EndpointOf[i]] = entry[EndpointOf[j]] /\ entry[EndpointOf[i]] # 0
                             => EndpointOf[i] = EndpointOf[j]
    /\ \A j \in Readers : entry[EndpointOf[j]] # 0 => UsersOf(entry[EndpointOf[j]]) # {}
    /\ \A o \in BusIds : refs[o] = Cardinality(UsersOf(o))

\* A reader on the bus refers to an entry; the one that sends or waits holds its token.
TokenIsHeld ==
    /\ \A j \in Readers : ref[j] # 0 <=> job[j].at \in AtBus
    /\ \A j \in Readers : job[j].at \in Holders => token[ref[j]] = j
    /\ \A o \in BusIds, j \in Readers : token[o] = j => ref[j] = o /\ job[j].at \in Holders

BusInv == BusTypes /\ BusIsShared /\ TokenIsHeld

LEMMA UsersAreFinite ==
    ASSUME NEW o PROVE IsFiniteSet(UsersOf(o)) /\ Cardinality(UsersOf(o)) \in Nat
  BY CollectAssumption, FS_Subset, FS_CardinalityType DEF UsersOf

\* There is a lock object for every reader, so one that refers to none finds a free one.
LEMMA FreeBus ==
    ASSUME BusTypes, BusIsShared, NEW j \in Readers, ref[j] = 0
    PROVE  \E o \in BusIds : (\A f \in DOMAIN entry : entry[f] # o) /\ (\A i \in Readers : ref[i] # o)
<1>1. IsFiniteSet(Readers) /\ NBus \in Nat /\ BusIds = 1 .. NBus
  BY CollectAssumption, FS_CardinalityType DEF NBus, BusIds
<1>2. IsFiniteSet(Readers \ {j}) /\ Cardinality(Readers \ {j}) = NBus - 1
  BY <1>1, FS_RemoveElement DEF NBus
<1>3. IsFiniteSet(BusIds) /\ Cardinality(BusIds) = NBus
  <2>1. NBus # 0
    BY <1>1, FS_EmptySet DEF NBus
  <2>2. IsFiniteSet(1 .. NBus) /\ Cardinality(1 .. NBus) = IF 1 > NBus THEN 0 ELSE NBus - 1 + 1
    BY <1>1, FS_Interval
  <2> QED BY <2>1, <2>2, <1>1
<1>4. \E o \in BusIds : \A i \in Readers : ref[i] # o
  <2> SUFFICES ASSUME \A o \in BusIds : \E i \in Readers : ref[i] = o PROVE FALSE
    OBVIOUS
  <2> DEFINE f == [o \in BusIds |-> CHOOSE i \in Readers \ {j} : ref[i] = o]
  <2>1. ASSUME NEW o \in BusIds PROVE f[o] \in Readers \ {j} /\ ref[f[o]] = o
    <3>1. \E i \in Readers \ {j} : ref[i] = o
      BY <1>1
    <3> QED BY <3>1
  <2>2. f \in [BusIds -> Readers \ {j}]
    BY <2>1
  <2>3. Cardinality(Readers \ {j}) < Cardinality(BusIds)
    BY <1>1, <1>2, <1>3
  <2> HIDE DEF f
  <2>4. \E x, y \in BusIds : x # y /\ f[x] = f[y]
    BY <2>2, <2>3, <1>2, <1>3, FS_PigeonHole
  <2> QED BY <2>1, <2>4
<1>5. PICK o \in BusIds : \A i \in Readers : ref[i] # o
  BY <1>4
<1>6. ASSUME NEW f \in DOMAIN entry PROVE entry[f] # o
  <2>1. PICK i \in Readers : f = EndpointOf[i]
    BY DEF BusTypes
  <2>2. o # 0 /\ UsersOf(o) = {}
    BY <1>1, <1>5 DEF UsersOf
  <2> QED BY <2>1, <2>2 DEF BusIsShared
<1> QED BY <1>5, <1>6

\* RegisterBus: the reader refers to the entry of its endpoint, or to a free lock.
LEMMA RegisterStep ==
    ASSUME BusInv, NEW j \in Readers, RegisterBus(j), job[j].at = "slot", job' = [job EXCEPT ![j].at = "bus"],
           job \in [Readers -> JobRows]
    PROVE  BusInv'
<1> DEFINE e == EndpointOf[j]
<1>t. /\ entry \in [{EndpointOf[i] : i \in Readers} -> 0 .. NBus] /\ refs \in [BusIds -> Nat]
      /\ ref \in [Readers -> 0 .. NBus] /\ token \in [BusIds -> Readers \cup {Nobody}] /\ Nobody \notin Readers
      /\ NBus \in Nat /\ BusIds = 1 .. NBus
  BY CollectAssumption, FS_CardinalityType DEF BusInv, BusTypes, NBus, BusIds
<1>0. ref[j] = 0
  BY DEF BusInv, TokenIsHeld, AtBus
<1>1. PICK o \in BusIds :
        /\ entry' = [entry EXCEPT ![e] = o] /\ refs' = [refs EXCEPT ![o] = @ + 1] /\ ref' = [ref EXCEPT ![j] = o]
        /\ token' = IF entry[e] # 0 THEN token ELSE [token EXCEPT ![o] = Nobody]
        /\ IF entry[e] # 0 THEN o = entry[e]
           ELSE (\A i \in Readers : entry[EndpointOf[i]] # o) /\ (\A i \in Readers : ref[i] # o)
  <2> DEFINE free == {o \in BusIds : (\A f \in DOMAIN entry : entry[f] # o) /\ (\A i \in Readers : ref[i] # o)}
             o == IF entry[e] # 0 THEN entry[e] ELSE CHOOSE f \in free : TRUE
  <2>1. free # {}
    BY <1>0, FreeBus DEF BusInv
  <2>2. entry[e] # 0 => entry[e] \in BusIds
    BY <1>t
  <2>3. o \in BusIds /\ (entry[e] = 0 => o \in free)
    BY <2>1, <2>2
  <2>4. /\ entry' = [entry EXCEPT ![e] = o] /\ refs' = [refs EXCEPT ![o] = @ + 1] /\ ref' = [ref EXCEPT ![j] = o]
        /\ token' = IF entry[e] # 0 THEN token ELSE [token EXCEPT ![o] = Nobody]
    BY DEF RegisterBus
  <2>5. entry[e] # 0 => o = entry[e]
    OBVIOUS
  <2>6. ASSUME entry[e] = 0 PROVE (\A i \in Readers : entry[EndpointOf[i]] # o) /\ (\A i \in Readers : ref[i] # o)
    <3>1. o \in free
      BY <2>3, <2>6
    <3> HIDE DEF o
    <3> QED BY <3>1, <1>t
  <2> HIDE DEF o
  <2> QED BY <2>3, <2>4, <2>5, <2>6
<1>2. o # 0 /\ o \in 0 .. NBus /\ o \in Nat
  BY <1>t
<1>3. /\ entry' \in [{EndpointOf[i] : i \in Readers} -> 0 .. NBus] /\ entry'[e] = o
      /\ \A i \in Readers : EndpointOf[i] # e => entry'[EndpointOf[i]] = entry[EndpointOf[i]]
  BY <1>1, <1>2, <1>t
<1>4. ref' \in [Readers -> 0 .. NBus] /\ ref'[j] = o /\ \A i \in Readers : i # j => ref'[i] = ref[i]
  BY <1>1, <1>2, <1>t
<1>5. refs' \in [BusIds -> Nat] /\ refs'[o] = refs[o] + 1 /\ \A b \in BusIds : b # o => refs'[b] = refs[b]
  BY <1>1, <1>t
<1>6. /\ token' \in [BusIds -> Readers \cup {Nobody}]
      /\ \A b \in BusIds : token'[b] = token[b] \/ (b = o /\ token'[b] = Nobody /\ entry[e] = 0)
  BY <1>1, <1>t
<1>7. job'[j].at = "bus" /\ \A i \in Readers : i # j => job'[i] = job[i]
  BY DEF JobRows
<1>8. BusTypes'
  BY <1>3, <1>4, <1>5, <1>6 DEF BusTypes
<1>9. /\ \A b \in BusIds : b # o => UsersOf(b)' = UsersOf(b)
      /\ UsersOf(o)' = UsersOf(o) \cup {j} /\ j \notin UsersOf(o)
  BY <1>0, <1>2, <1>4, <1>t DEF UsersOf
<1>10. BusIsShared'
  <2>1. ASSUME NEW i \in Readers, ref'[i] # 0 PROVE entry'[EndpointOf[i]] = ref'[i]
    <3>1. CASE i = j
      BY <3>1, <1>3, <1>4
    <3>2. CASE i # j /\ EndpointOf[i] # e
      BY <3>2, <2>1, <1>3, <1>4 DEF BusInv, BusIsShared
    <3>3. CASE i # j /\ EndpointOf[i] = e
      BY <3>3, <2>1, <1>1, <1>3, <1>4 DEF BusInv, BusIsShared
    <3> QED BY <3>1, <3>2, <3>3
  <2>2. ASSUME NEW i \in Readers, NEW k \in Readers, entry'[EndpointOf[i]] = entry'[EndpointOf[k]],
               entry'[EndpointOf[i]] # 0, EndpointOf[i] # EndpointOf[k]
        PROVE  FALSE
    <3>1. \A x \in Readers : EndpointOf[x] # e => entry[EndpointOf[x]] # o
      BY <1>1, <1>2 DEF BusInv, BusIsShared
    <3>2. CASE EndpointOf[i] = e
      BY <3>1, <3>2, <2>2, <1>3
    <3>3. CASE EndpointOf[k] = e
      BY <3>1, <3>3, <2>2, <1>3
    <3>4. CASE EndpointOf[i] # e /\ EndpointOf[k] # e
      BY <3>4, <2>2, <1>3 DEF BusInv, BusIsShared
    <3> QED BY <3>2, <3>3, <3>4
  <2>3. ASSUME NEW i \in Readers, entry'[EndpointOf[i]] # 0
        PROVE  \E k \in Readers : ref'[k] = entry'[EndpointOf[i]]
    <3>1. CASE EndpointOf[i] = e
      BY <3>1, <1>3, <1>4
    <3>2. CASE EndpointOf[i] # e
      <4>1. entry'[EndpointOf[i]] = entry[EndpointOf[i]] /\ entry[EndpointOf[i]] # 0
        BY <3>2, <2>3, <1>3
      <4>2. PICK k \in Readers : ref[k] = entry[EndpointOf[i]]
        BY <4>1 DEF BusInv, BusIsShared, UsersOf
      <4> QED BY <4>1, <4>2, <1>0, <1>4
    <3> QED BY <3>1, <3>2
  <2>4. ASSUME NEW b \in BusIds PROVE refs'[b] = Cardinality(UsersOf(b)')
    <3>1. CASE b = o
      <4>1. Cardinality(UsersOf(o) \cup {j}) = Cardinality(UsersOf(o)) + 1
        BY <1>9, UsersAreFinite, FS_AddElement
      <4> QED BY <4>1, <3>1, <1>5, <1>9 DEF BusInv, BusIsShared
    <3>2. CASE b # o
      BY <3>2, <1>5, <1>9 DEF BusInv, BusIsShared
    <3> QED BY <3>1, <3>2
  <2>5. (\A i \in Readers : entry[EndpointOf[i]] # 0 => UsersOf(entry[EndpointOf[i]]) # {})'
    BY <2>3 DEF UsersOf
  <2> QED BY <2>1, <2>2, <2>4, <2>5 DEF BusIsShared
<1>11. TokenIsHeld'
  <2>1. ASSUME NEW i \in Readers PROVE ref'[i] # 0 <=> job'[i].at \in AtBus
    BY <1>2, <1>4, <1>7 DEF BusInv, TokenIsHeld, AtBus
  <2>2. ASSUME NEW i \in Readers, job'[i].at \in Holders PROVE token'[ref'[i]] = i
    <3>1. i # j /\ job[i].at \in Holders /\ ref'[i] = ref[i]
      BY <2>2, <1>4, <1>7 DEF Holders
    <3>2. token[ref[i]] = i /\ ref[i] # 0 /\ ref[i] \in BusIds
      BY <3>1, <1>t DEF BusInv, TokenIsHeld, Holders, AtBus
    <3>3. entry[e] = 0 => ref[i] # o
      BY <1>1
    <3> QED BY <3>1, <3>2, <3>3, <1>6
  <2>3. ASSUME NEW b \in BusIds, NEW i \in Readers, token'[b] = i PROVE ref'[i] = b /\ job'[i].at \in Holders
    <3>1. token[b] = i
      BY <2>3, <1>6, <1>t
    <3>2. ref[i] = b /\ job[i].at \in Holders
      BY <3>1 DEF BusInv, TokenIsHeld
    <3>3. i # j
      BY <3>2, <1>0, <1>t
    <3> QED BY <3>2, <3>3, <1>4, <1>7
  <2> QED BY <2>1, <2>2, <2>3 DEF TokenIsHeld
<1> QED BY <1>8, <1>10, <1>11 DEF BusInv

\* Unlock: the token is given back, and with the last reference the entry goes.
LEMMA UnlockStep ==
    ASSUME BusInv, NEW j \in Readers, Unlock(j), job[j].at \in AtBus, job'[j].at \notin AtBus,
           \A i \in Readers : i # j => job'[i] = job[i]
    PROVE  BusInv'
<1> DEFINE e == EndpointOf[j]
<1>t. /\ entry \in [{EndpointOf[i] : i \in Readers} -> 0 .. NBus] /\ refs \in [BusIds -> Nat]
      /\ ref \in [Readers -> 0 .. NBus] /\ token \in [BusIds -> Readers \cup {Nobody}] /\ Nobody \notin Readers
      /\ NBus \in Nat /\ BusIds = 1 .. NBus
  BY CollectAssumption, FS_CardinalityType DEF BusInv, BusTypes, NBus, BusIds
<1>1. PICK o \in BusIds : o # 0 /\ entry[e] = o /\ ref[j] = o
  BY <1>t DEF BusInv, TokenIsHeld, BusIsShared
<1>2. /\ token' = [token EXCEPT ![o] = IF @ = j THEN Nobody ELSE @] /\ refs' = [refs EXCEPT ![o] = @ - 1]
      /\ entry' = [entry EXCEPT ![e] = IF refs[o] = 1 THEN 0 ELSE @] /\ ref' = [ref EXCEPT ![j] = 0]
  BY <1>1 DEF Unlock
<1>u. /\ \A i \in Readers : ref[i] # 0 => entry[EndpointOf[i]] = ref[i]
      /\ \A i, k \in Readers : entry[EndpointOf[i]] = entry[EndpointOf[k]] /\ entry[EndpointOf[i]] # 0
                               => EndpointOf[i] = EndpointOf[k]
      /\ \A i \in Readers : entry[EndpointOf[i]] # 0 => \E k \in Readers : ref[k] = entry[EndpointOf[i]]
      /\ \A b \in BusIds : refs[b] = Cardinality(UsersOf(b))
  BY DEF BusInv, BusIsShared, UsersOf
<1>h. j \in UsersOf(o)
  BY <1>1 DEF UsersOf
<1>3. /\ entry' \in [{EndpointOf[i] : i \in Readers} -> 0 .. NBus]
      /\ entry'[e] = IF refs[o] = 1 THEN 0 ELSE o
      /\ \A i \in Readers : EndpointOf[i] # e => entry'[EndpointOf[i]] = entry[EndpointOf[i]]
  BY <1>1, <1>2, <1>t
<1>4. ref' \in [Readers -> 0 .. NBus] /\ ref'[j] = 0 /\ \A i \in Readers : i # j => ref'[i] = ref[i]
  BY <1>2, <1>t
<1>5. /\ Cardinality(UsersOf(o) \ {j}) = refs[o] - 1 /\ refs[o] - 1 \in Nat
      /\ refs[o] = 1 <=> UsersOf(o) \ {j} = {}
  <2>1. IsFiniteSet(UsersOf(o)) /\ IsFiniteSet(UsersOf(o) \ {j})
    BY UsersAreFinite, FS_RemoveElement
  <2>2. Cardinality(UsersOf(o) \ {j}) = refs[o] - 1
    BY <2>1, <1>1, <1>h, <1>u, FS_RemoveElement
  <2>3. Cardinality(UsersOf(o) \ {j}) \in Nat /\ (Cardinality(UsersOf(o) \ {j}) = 0 <=> UsersOf(o) \ {j} = {})
    BY <2>1, FS_CardinalityType, FS_EmptySet
  <2>4. refs[o] \in Nat
    BY <1>1, <1>t
  <2> QED BY <2>2, <2>3, <2>4
<1>6. refs' \in [BusIds -> Nat] /\ refs'[o] = refs[o] - 1 /\ \A b \in BusIds : b # o => refs'[b] = refs[b]
  BY <1>1, <1>2, <1>5, <1>t
<1>7. /\ token' \in [BusIds -> Readers \cup {Nobody}]
      /\ \A b \in BusIds : token'[b] = token[b] \/ (token'[b] = Nobody /\ token[b] = j)
      /\ token'[o] # j
  BY <1>1, <1>2, <1>t
<1>8. BusTypes'
  BY <1>3, <1>4, <1>6, <1>7 DEF BusTypes
<1>9. UsersOf(o)' = UsersOf(o) \ {j} /\ \A b \in BusIds : b # o => UsersOf(b)' = UsersOf(b)
  BY <1>1, <1>4, <1>t DEF UsersOf
<1>10. BusIsShared'
  <2>1. ASSUME NEW i \in Readers, ref'[i] # 0 PROVE entry'[EndpointOf[i]] = ref'[i]
    <3>1. i # j /\ ref'[i] = ref[i] /\ entry[EndpointOf[i]] = ref[i]
      BY <2>1, <1>4, <1>u
    <3>2. CASE EndpointOf[i] # e
      BY <3>1, <3>2, <1>3
    <3>3. CASE EndpointOf[i] = e
      <4>1. ref[i] = o
        BY <3>1, <3>3, <1>1
      <4>2. refs[o] # 1
        BY <4>1, <3>1, <1>5 DEF UsersOf
      <4> QED BY <4>1, <4>2, <3>1, <3>3, <1>3
    <3> QED BY <3>2, <3>3
  <2>2. ASSUME NEW i \in Readers PROVE entry'[EndpointOf[i]] = 0 \/ entry'[EndpointOf[i]] = entry[EndpointOf[i]]
    BY <1>1, <1>3
  <2>3. ASSUME NEW i \in Readers, NEW k \in Readers, entry'[EndpointOf[i]] = entry'[EndpointOf[k]],
               entry'[EndpointOf[i]] # 0
        PROVE  EndpointOf[i] = EndpointOf[k]
    BY <2>2, <2>3, <1>u
  <2>4. ASSUME NEW i \in Readers, entry'[EndpointOf[i]] # 0
        PROVE  \E k \in Readers : ref'[k] = entry'[EndpointOf[i]]
    <3>1. entry'[EndpointOf[i]] = entry[EndpointOf[i]] /\ entry[EndpointOf[i]] # 0
      BY <2>2, <2>4
    <3>2. CASE EndpointOf[i] = e
      <4>1. refs[o] # 1 /\ entry[EndpointOf[i]] = o
        BY <3>1, <3>2, <1>1, <1>3
      <4>2. PICK k \in UsersOf(o) \ {j} : TRUE
        BY <4>1, <1>5
      <4> QED BY <4>1, <4>2, <3>1, <1>4 DEF UsersOf
    <3>3. CASE EndpointOf[i] # e
      <4>1. PICK k \in Readers : ref[k] = entry[EndpointOf[i]]
        BY <3>1, <1>u
      <4>2. k # j
        <5>1. entry[EndpointOf[i]] # o
          BY <3>3, <3>1, <1>1, <1>u
        <5> QED BY <5>1, <4>1, <1>1
      <4> QED BY <4>1, <4>2, <3>1, <1>4
    <3> QED BY <3>2, <3>3
  <2>5. ASSUME NEW b \in BusIds PROVE refs'[b] = Cardinality(UsersOf(b)')
    <3>1. CASE b = o
      BY <3>1, <1>5, <1>6, <1>9
    <3>2. CASE b # o
      BY <3>2, <1>6, <1>9, <1>u
    <3> QED BY <3>1, <3>2
  <2>6. (\A i \in Readers : entry[EndpointOf[i]] # 0 => UsersOf(entry[EndpointOf[i]]) # {})'
    BY <2>4 DEF UsersOf
  <2> QED BY <2>1, <2>3, <2>5, <2>6 DEF BusIsShared
<1>11. TokenIsHeld'
  <2>1. ASSUME NEW i \in Readers PROVE ref'[i] # 0 <=> job'[i].at \in AtBus
    BY <1>4 DEF BusInv, TokenIsHeld
  <2>2. ASSUME NEW i \in Readers, job'[i].at \in Holders PROVE token'[ref'[i]] = i
    <3>1. i # j
      BY <2>2 DEF Holders, AtBus
    <3>2. job'[i] = job[i] /\ ref'[i] = ref[i]
      BY <3>1, <1>4
    <3>3. token[ref[i]] = i /\ ref[i] # 0
      BY <3>2, <2>2 DEF BusInv, TokenIsHeld, Holders, AtBus
    <3>4. ref[i] \in BusIds
      BY <3>3, <1>t
    <3> QED BY <3>1, <3>2, <3>3, <3>4, <1>7
  <2>3. ASSUME NEW b \in BusIds, NEW i \in Readers, token'[b] = i PROVE ref'[i] = b /\ job'[i].at \in Holders
    <3>1. token[b] = i
      BY <2>3, <1>7, <1>t
    <3>2. ref[i] = b /\ job[i].at \in Holders
      BY <3>1 DEF BusInv, TokenIsHeld
    <3>3. i # j
      BY <3>2, <2>3, <1>1, <1>7
    <3> QED BY <3>2, <3>3, <1>4
  <2> QED BY <2>1, <2>2, <2>3 DEF TokenIsHeld
<1> QED BY <1>8, <1>10, <1>11 DEF BusInv

LEMMA BusStep == BusInv /\ AnswerInv /\ [CollectNext]_mvars => BusInv'
<1> SUFFICES ASSUME BusInv, AnswerInv, [CollectNext]_mvars PROVE BusInv'
  OBVIOUS
<1>t. job \in [Readers -> JobRows] /\ Profiles \subseteq Readers
  BY DEF AnswerInv, Readers
\* A step that moves a reader and leaves the bus alone.
<1>m. ASSUME UNCHANGED <<entry, refs, token, ref>>,
             \A i \in Readers : job'[i].at = job[i].at
                                \/ (job'[i].at \in Holders /\ job[i].at \in Holders)
                                \/ (job'[i].at \notin AtBus /\ job[i].at \notin AtBus)
      PROVE  BusInv'
  <2>1. BusTypes' /\ BusIsShared'
    BY <1>m DEF BusInv, BusTypes, BusIsShared, UsersOf
  <2>2. \A i \in Readers : (job'[i].at \in Holders <=> job[i].at \in Holders) /\ (job'[i].at \in AtBus <=> job[i].at \in AtBus)
    BY <1>m DEF Holders, AtBus
  <2>3. TokenIsHeld'
    BY <1>m, <2>2 DEF BusInv, TokenIsHeld
  <2> QED BY <2>1, <2>3 DEF BusInv
<1>1. ASSUME NEW p \in Profiles, EditProfile(p) \/ ScanFails(p) PROVE BusInv'
  BY <1>1, <1>m DEF EditProfile, ScanFails, bus
<1>12. CASE ListProfiles
  BY <1>12, <1>m DEF ListProfiles, bus
<1>2. ASSUME NEW p \in Profiles, Scan(p) PROVE BusInv'
  <2>1. job[p].at = "idle" /\ UNCHANGED <<entry, refs, token, ref>> /\ p \in Readers
    BY <1>2, <1>t DEF Scan, AnswerInv, bus
  <2>2. job'[p].at = "slot" /\ \A i \in Readers : i # p => job'[i] = job[i]
    BY <1>2, <1>t, <2>1 DEF Scan, JobIdle
  <2> QED BY <2>1, <2>2, <1>m DEF AtBus
<1>3. ASSUME NEW j \in Readers, StartProbe(j) \/ ReadRefused(j) \/ IngestFails(j) PROVE BusInv'
  <2>1. job[j].at \notin AtBus /\ UNCHANGED <<entry, refs, token, ref>>
    BY <1>3 DEF StartProbe, ReadRefused, IngestFails, AtBus, bus
  <2>2. PICK a \in {"slot", "error"} : job' = [job EXCEPT ![j].at = a]
    BY <1>3 DEF StartProbe, ReadRefused, IngestFails
  <2>3. job'[j].at \notin AtBus /\ \A i \in Readers : i # j => job'[i] = job[i]
    BY <2>2, <1>t DEF AtBus, JobRows
  <2> QED BY <2>1, <2>3, <1>m
<1>4. ASSUME NEW j \in Readers, TakeSlot(j) PROVE BusInv'
  BY <1>4, <1>t, RegisterStep DEF TakeSlot
<1>5. ASSUME NEW j \in Readers, LockBus(j) PROVE BusInv'
  <2> DEFINE o == ref[j]
  <2>1. job[j].at = "bus" /\ token[o] = Nobody /\ token' = [token EXCEPT ![o] = j] /\ UNCHANGED <<entry, refs, ref>>
    BY <1>5 DEF LockBus
  <2>2. job'[j].at = "send" /\ \A i \in Readers : i # j => job'[i] = job[i]
    BY <1>5, <1>t DEF LockBus, JobRows
  <2>3. o \in BusIds /\ token \in [BusIds -> Readers \cup {Nobody}] /\ Nobody \notin Readers
    <3>1. o # 0 /\ o \in 0 .. NBus
      BY <2>1 DEF BusInv, TokenIsHeld, AtBus, BusTypes
    <3>2. NBus \in Nat
      BY CollectAssumption, FS_CardinalityType DEF NBus
    <3> QED BY <3>1, <3>2, CollectAssumption DEF BusIds, NBus, BusInv, BusTypes
  <2> HIDE DEF o
  <2>4. /\ token' \in [BusIds -> Readers \cup {Nobody}] /\ token'[o] = j
        /\ \A b \in BusIds : b # o => token'[b] = token[b]
    BY <2>1, <2>3
  <2>5. BusTypes' /\ BusIsShared'
    BY <2>1, <2>4 DEF BusInv, BusTypes, BusIsShared, UsersOf
  <2>6. ASSUME NEW i \in Readers PROVE ref'[i] # 0 <=> job'[i].at \in AtBus
    BY <2>1, <2>2 DEF BusInv, TokenIsHeld, AtBus
  <2>7. ASSUME NEW i \in Readers, job'[i].at \in Holders PROVE token'[ref'[i]] = i
    <3>1. CASE i = j
      BY <3>1, <2>1, <2>4 DEF o
    <3>2. CASE i # j
      <4>1. token[ref[i]] = i
        BY <3>2, <2>2, <2>7 DEF BusInv, TokenIsHeld
      <4>2. ref[i] # o
        BY <4>1, <2>1, <2>3
      <4>3. token'[ref[i]] = token[ref[i]]
        BY <4>2, <2>1, <2>3
      <4> QED BY <4>1, <4>3, <2>1
    <3> QED BY <3>1, <3>2
  <2>8. ASSUME NEW b \in BusIds, NEW i \in Readers, token'[b] = i PROVE ref'[i] = b /\ job'[i].at \in Holders
    <3>1. CASE b = o
      BY <3>1, <2>1, <2>2, <2>4, <2>8 DEF o, Holders
    <3>2. CASE b # o
      <4>1. ref[i] = b /\ job[i].at \in Holders
        BY <3>2, <2>4, <2>8 DEF BusInv, TokenIsHeld
      <4>2. i # j
        BY <4>1, <3>2 DEF o
      <4> QED BY <4>1, <4>2, <2>1, <2>2
    <3> QED BY <3>1, <3>2
  <2>9. TokenIsHeld'
    BY <2>6, <2>7, <2>8 DEF TokenIsHeld
  <2> QED BY <2>5, <2>9 DEF BusInv
<1>6. ASSUME NEW j \in Readers, SendRequest(j) PROVE BusInv'
  <2>1. job[j].at = "send" /\ UNCHANGED <<entry, refs, token, ref>>
    BY <1>6 DEF SendRequest, bus
  <2>2. job'[j].at = "wait" /\ \A i \in Readers : i # j => job'[i] = job[i]
    BY <1>6, <1>t DEF SendRequest, JobRows
  <2> QED BY <2>1, <2>2, <1>m DEF Holders
<1>7. ASSUME NEW j \in Readers, ConnectFails(j) \/ Cancel(j) PROVE BusInv'
  <2>1. job[j].at \in AtBus /\ Unlock(j) /\ job' = [job EXCEPT ![j].at = "error"]
    BY <1>7 DEF ConnectFails, Cancel, AtBus
  <2>2. job'[j].at \notin AtBus /\ \A i \in Readers : i # j => job'[i] = job[i]
    BY <2>1, <1>t DEF AtBus, JobRows
  <2> QED BY <2>1, <2>2, UnlockStep
<1>8. ASSUME NEW j \in Readers, ReadResponse(j) PROVE BusInv'
  <2>1. /\ job[j].at = "wait" /\ job[j].at \in AtBus
        /\ IF job[j].block = NBlocks THEN Unlock(j) ELSE UNCHANGED <<entry, refs, token, ref>>
    BY <1>8 DEF ReadResponse, AtBus, bus
  <2>2. /\ job'[j].at \in (IF job[j].block = NBlocks THEN {"online", "ingest"} ELSE {"send"})
        /\ \A i \in Readers : i # j => job'[i] = job[i]
    BY <1>8, <1>t DEF ReadResponse
  <2>3. CASE job[j].block = NBlocks
    <3>1. job'[j].at \notin AtBus
      BY <2>2, <2>3 DEF AtBus
    <3> QED BY <3>1, <2>1, <2>2, <2>3, UnlockStep
  <2>4. CASE job[j].block # NBlocks
    BY <2>1, <2>2, <2>4, <1>m DEF Holders
  <2> QED BY <2>3, <2>4
<1>9. ASSUME NEW j \in Readers, ReadFails(j) PROVE BusInv'
  <2>1. job[j].at = "wait" /\ job[j].at \in AtBus
    BY <1>9 DEF ReadFails, AtBus
  <2>2. CASE job' = [job EXCEPT ![j].at = "error"] /\ Unlock(j)
    <3>1. job'[j].at \notin AtBus /\ \A i \in Readers : i # j => job'[i] = job[i]
      BY <2>2, <1>t DEF AtBus, JobRows
    <3> QED BY <3>1, <2>1, <2>2, UnlockStep
  <2>3. CASE job' = [job EXCEPT ![j].at = "send", ![j].try = @ + 1] /\ UNCHANGED bus
    <3>1. job'[j].at = "send" /\ \A i \in Readers : i # j => job'[i] = job[i]
      BY <2>3, <1>t DEF JobRows
    <3> QED BY <3>1, <2>1, <2>3, <1>m DEF Holders, bus
  <2> QED BY <2>2, <2>3, <1>9 DEF ReadFails
<1>10. ASSUME NEW j \in Readers, Ingest(j) \/ EndCollect(j) PROVE BusInv'
  <2>1. job[j].at \notin AtBus /\ UNCHANGED <<entry, refs, token, ref>>
    BY <1>10 DEF Ingest, EndCollect, AtBus, bus
  <2>2. CASE Ingest(j)
    <3>1. job[j].at = "ingest" /\ (job' = [job EXCEPT ![j].block = @ + 1] \/ job' = [job EXCEPT ![j].at = "online"])
      BY <2>2 DEF Ingest
    <3>2. job'[j].at \in {"ingest", "online"} /\ \A i \in Readers : i # j => job'[i] = job[i]
      BY <3>1, <1>t DEF JobRows
    <3> QED BY <3>2, <2>1, <1>m DEF AtBus
  <2>3. CASE EndCollect(j)
    <3>1. job'[j].at = "idle" /\ \A i \in Readers : i # j => job'[i] = job[i]
      BY <2>3, <1>t DEF EndCollect, JobIdle
    <3> QED BY <3>1, <2>1, <1>m DEF AtBus
  <2> QED BY <2>2, <2>3, <1>10
<1>11. CASE UNCHANGED mvars
  BY <1>11, <1>m DEF mvars, bus
<1> QED BY <1>1, <1>2, <1>3, <1>4, <1>5, <1>6, <1>7, <1>8, <1>9, <1>10, <1>11, <1>12 DEF CollectNext, ReadStep

LEMMA CollectStarts == CollectInit => AnswerInv /\ BusInv /\ EditInv
<1> SUFFICES ASSUME CollectInit PROVE AnswerInv /\ BusInv /\ EditInv
  OBVIOUS
<1>1. NBlocks \in Nat \ {0} /\ IsFiniteSet(Readers) /\ NBus \in Nat
  BY CollectAssumption, FS_CardinalityType DEF NBus
<1>2. JobIdle \in JobRows /\ JobIdle.at = "idle" /\ JobIdle.block = 1
  BY <1>1 DEF JobIdle, JobRows
<1>3. /\ running = {} /\ job = [j \in Readers |-> JobIdle] /\ answers = [j \in Readers |-> <<>>]
      /\ got = [j \in Readers |-> <<>>]
  BY DEF CollectInit
<1>4. <<>> \in Seq(1 .. NBlocks) /\ Len(<<>>) = 0
  OBVIOUS
<1>5. InOrder(JobIdle, <<>>, <<>>)
  BY <1>2, <1>4 DEF InOrder
<1>6. AnswerInv
  <2>1. job \in [Readers -> JobRows] /\ got \in [Readers -> Seq(1 .. NBlocks)] /\ DOMAIN answers = Readers
    BY <1>2, <1>3, <1>4
  <2>2. \A j \in Readers : InOrder(job[j], answers[j], got[j])
    BY <1>3, <1>5
  <2>3. \A p \in Profiles : job[p].at = "idle"
    BY <1>2, <1>3 DEF Readers
  <2> QED BY <2>1, <2>2, <2>3, <1>3 DEF AnswerInv
<1>7. /\ entry = [e \in {EndpointOf[j] : j \in Readers} |-> 0] /\ refs = [o \in BusIds |-> 0]
      /\ token = [o \in BusIds |-> Nobody] /\ ref = [j \in Readers |-> 0]
  BY DEF CollectInit
<1>8. BusInv
  <2>1. BusTypes
    BY <1>1, <1>7 DEF BusTypes
  <2>2. \A o \in BusIds : UsersOf(o) = {}
    BY <1>1, <1>7 DEF UsersOf, BusIds
  <2>3. BusIsShared
    BY <2>2, <1>7, FS_EmptySet DEF BusIsShared
  <2>4. TokenIsHeld
    BY <1>2, <1>3, <1>7, CollectAssumption DEF TokenIsHeld, AtBus, Holders
  <2> QED BY <2>1, <2>3, <2>4 DEF BusInv
<1>9. EditInv
  <2> DEFINE v == [n |-> 0, on |-> TRUE]
             o == [of |-> v, status |-> "pending"]
  <2>1. /\ edits = [p \in Profiles |-> v] /\ listed = edits /\ copy = edits
        /\ observed = [p \in Profiles |-> o]
    BY DEF CollectInit
  <2>2. v \in Config /\ o \in Shown /\ v.on /\ ShownFits(o, v)
    BY DEF Config, Shown, ShownFits
  <2> HIDE DEF v, o
  <2> QED BY <2>1, <2>2 DEF EditInv
<1> QED BY <1>6, <1>8, <1>9

\* ReadModbusTCP and lockModbusBus: for any number of readers and endpoints, an endpoint carries
\* one transaction sequence at a time, and the answer recorded for a block answers its request.
THEOREM CollectionReadsInOrder == CollectSpec => [](OneSequencePerEndpoint /\ AnswerOfItsBlock)
<1>1. AnswerInv /\ BusInv /\ [CollectNext]_mvars => (AnswerInv /\ BusInv)'
  BY AnswerStep, BusStep
<1>2. AnswerInv /\ BusInv => OneSequencePerEndpoint /\ AnswerOfItsBlock
  <2> SUFFICES ASSUME AnswerInv, BusInv PROVE OneSequencePerEndpoint /\ AnswerOfItsBlock
    OBVIOUS
  <2>1. AnswerOfItsBlock
    BY DEF AnswerInv, InOrder, AnswerOfItsBlock
  <2>2. ASSUME NEW i \in Readers, NEW j \in Readers, EndpointOf[i] = EndpointOf[j],
               job[i].at \in Holders, job[j].at \in Holders
        PROVE  i = j
    <3>1. ref[i] # 0 /\ ref[j] # 0 /\ token[ref[i]] = i /\ token[ref[j]] = j
      BY <2>2 DEF BusInv, TokenIsHeld, Holders, AtBus
    <3>2. ref[i] = ref[j]
      BY <3>1, <2>2 DEF BusInv, BusIsShared
    <3> QED BY <3>1, <3>2
  <2>3. OneSequencePerEndpoint
    BY <2>2 DEF OneSequencePerEndpoint, Holders
  <2> QED BY <2>1, <2>3
<1> QED BY <1>1, <1>2, CollectStarts, PTL DEF CollectSpec

\* A status write reaches the row only while the row is what the writer has read.
LEMMA StatusStep ==
    ASSUME EditInv, NEW p \in Profiles, NEW of \in Config, of.on, NEW status \in {"online", "error"},
           UpdateDeviceAccessStatus(p, of, status)
    PROVE  /\ edits' = edits /\ observed' \in [Profiles -> Shown]
           /\ \A q \in Profiles : ShownFits(observed'[q], edits[q])
<1> DEFINE x == [of |-> of, status |-> status]
<1>1. edits' = edits /\ observed' = IF edits[p] = of THEN [observed EXCEPT ![p] = x] ELSE observed
  BY DEF UpdateDeviceAccessStatus
<1>2. x \in Shown /\ ShownFits(x, of)
  BY DEF Shown, ShownFits
<1> HIDE DEF x
<1>3. observed \in [Profiles -> Shown] /\ \A q \in Profiles : ShownFits(observed[q], edits[q])
  BY DEF EditInv
<1>4. CASE edits[p] = of
  <2>1. \A q \in Profiles : observed'[q] = IF q = p THEN x ELSE observed[q]
    BY <1>1, <1>3, <1>4
  <2>2. observed' \in [Profiles -> Shown]
    BY <1>1, <1>2, <1>3, <1>4
  <2> QED BY <2>1, <2>2, <1>1, <1>2, <1>3, <1>4
<1>5. CASE edits[p] # of
  BY <1>1, <1>3, <1>5
<1> QED BY <1>4, <1>5

LEMMA EditStep ==
    ASSUME EditInv, [CollectNext]_mvars
    PROVE  EditInv' /\ \A p \in Profiles : edits'[p].n >= edits[p].n
<1> DEFINE Kept == \A p \in Profiles : edits'[p].n >= edits[p].n
<1>t. /\ edits \in [Profiles -> Config] /\ listed \in [Profiles -> Config]
      /\ copy \in [Profiles -> Config] /\ observed \in [Profiles -> Shown]
      /\ \A p \in Profiles : copy[p].on
      /\ \A p \in Profiles : ShownFits(observed[p], edits[p])
  BY DEF EditInv
<1>k. edits' = edits => Kept
  BY <1>t DEF Config
<1>1. ASSUME UNCHANGED <<edits, observed>>, copy' \in [Profiles -> Config], listed' \in [Profiles -> Config],
             \A p \in Profiles : copy'[p].on
      PROVE  EditInv' /\ Kept
  BY <1>1, <1>k, <1>t DEF EditInv
<1>2. ASSUME NEW p \in Profiles, EditProfile(p) PROVE EditInv' /\ Kept
  <2>1. PICK on \in BOOLEAN :
            /\ edits' = [edits EXCEPT ![p] = [n |-> edits[p].n + 1, on |-> on]]
            /\ observed' = [observed EXCEPT ![p] = [of |-> [n |-> edits[p].n + 1, on |-> on],
                                                    status |-> IF on THEN "pending" ELSE "disabled"]]
    BY <1>2 DEF EditProfile
  <2> DEFINE v == [n |-> edits[p].n + 1, on |-> on]
             x == [of |-> v, status |-> IF on THEN "pending" ELSE "disabled"]
  <2>2. edits[p].n \in Nat
    BY <1>t DEF Config
  <2>3. v \in Config /\ v.n >= edits[p].n
    BY <2>2 DEF Config
  <2>4. x \in Shown /\ x.status \notin {"online", "error"}
    BY <2>3 DEF Shown
  <2>5. edits' = [edits EXCEPT ![p] = v] /\ observed' = [observed EXCEPT ![p] = x]
    BY <2>1
  <2> HIDE DEF v, x
  <2>6. UNCHANGED <<listed, copy>>
    BY <1>2 DEF EditProfile
  <2>7. /\ edits' \in [Profiles -> Config] /\ observed' \in [Profiles -> Shown]
        /\ edits'[p] = v /\ observed'[p] = x
        /\ \A q \in Profiles : q # p => edits'[q] = edits[q] /\ observed'[q] = observed[q]
    BY <2>3, <2>4, <2>5, <1>t
  <2>8. \A q \in Profiles : ShownFits(observed'[q], edits'[q])
    BY <2>4, <2>7, <1>t DEF ShownFits
  <2>9. EditInv'
    BY <2>6, <2>7, <2>8, <1>t DEF EditInv
  <2>10. \A q \in Profiles : edits[q].n >= edits[q].n
    BY <1>t DEF Config
  <2>11. Kept
    BY <2>3, <2>7, <2>10
  <2> QED BY <2>9, <2>11
<1>3. ASSUME NEW p \in Profiles, Scan(p) PROVE EditInv' /\ Kept
  <2>1. /\ UNCHANGED <<edits, observed, listed>> /\ copy' = [copy EXCEPT ![p] = listed[p]]
        /\ listed[p].on
    BY <1>3 DEF Scan
  <2>2. copy' \in [Profiles -> Config] /\ \A q \in Profiles : copy'[q].on
    BY <2>1, <1>t
  <2> QED BY <2>1, <2>2, <1>1, <1>t
<1>4. ASSUME NEW j \in Readers, EndCollect(j) PROVE EditInv' /\ Kept
  <2>1. CASE j \in Probes
    BY <2>1, <1>1, <1>4, <1>t DEF EndCollect, collection
  <2>2. CASE j \notin Probes
    <3>1. /\ j \in Profiles /\ job[j].at \in {"online", "error"} /\ UNCHANGED <<listed, copy>>
          /\ UpdateDeviceAccessStatus(j, copy[j], job[j].at)
      BY <2>2, <1>4 DEF EndCollect, Readers
    <3>2. copy[j] \in Config /\ copy[j].on
      BY <3>1, <1>t
    <3>3. /\ edits' = edits /\ observed' \in [Profiles -> Shown]
          /\ \A q \in Profiles : ShownFits(observed'[q], edits[q])
      BY <3>1, <3>2, StatusStep
    <3> QED BY <3>1, <3>3, <1>k, <1>t DEF EditInv
  <2> QED BY <2>1, <2>2
<1>9. ASSUME NEW p \in Profiles, ScanFails(p) PROVE EditInv' /\ Kept
  <2>1. UNCHANGED <<listed, copy>> /\ UpdateDeviceAccessStatus(p, listed[p], "error") /\ listed[p].on
    BY <1>9 DEF ScanFails
  <2>2. listed[p] \in Config
    BY <1>t
  <2>3. /\ edits' = edits /\ observed' \in [Profiles -> Shown]
        /\ \A q \in Profiles : ShownFits(observed'[q], edits[q])
    BY <2>1, <2>2, StatusStep
  <2> QED BY <2>1, <2>3, <1>k, <1>t DEF EditInv
<1>10. ASSUME ListProfiles PROVE EditInv' /\ Kept
  BY <1>10, <1>1, <1>t DEF ListProfiles
<1>5. ASSUME NEW j \in Readers,
             StartProbe(j) \/ LockBus(j) \/ Cancel(j) \/ TakeSlot(j) \/ ReadRefused(j) \/ SendRequest(j)
             \/ ConnectFails(j) \/ ReadResponse(j) \/ ReadFails(j) \/ Ingest(j) \/ IngestFails(j)
      PROVE  EditInv' /\ Kept
  <2>1. UNCHANGED <<edits, observed, listed, copy>>
    BY <1>5 DEF StartProbe, LockBus, Cancel, TakeSlot, ReadRefused, SendRequest, ConnectFails, ReadResponse,
                ReadFails, Ingest, IngestFails, collection
  <2> QED BY <2>1, <1>1, <1>t
<1>6. CASE UNCHANGED mvars
  BY <1>6, <1>1, <1>t DEF mvars, collection
<1> HIDE DEF Kept
<1>7. ASSUME NEW j \in Readers, ReadStep(j) PROVE EditInv' /\ Kept
  BY <1>4, <1>5, <1>7 DEF ReadStep
<1>8. ASSUME CollectNext PROVE EditInv' /\ Kept
  <2>1. CASE \E p \in Profiles : EditProfile(p) \/ Scan(p) \/ ScanFails(p)
    BY <2>1, <1>2, <1>3, <1>9
  <2>2. CASE \E j \in Readers : StartProbe(j) \/ LockBus(j) \/ Cancel(j) \/ ReadStep(j)
    BY <2>2, <1>5, <1>7
  <2>3. CASE ListProfiles
    BY <2>3, <1>10
  <2>4. \/ \E p \in Profiles : EditProfile(p) \/ Scan(p) \/ ScanFails(p)
        \/ ListProfiles
        \/ \E j \in Readers : StartProbe(j) \/ LockBus(j) \/ Cancel(j) \/ ReadStep(j)
    BY <1>8 DEF CollectNext
  <2> QED BY <2>1, <2>2, <2>3, <2>4
<1> QED BY <1>6, <1>8 DEF Kept

\* UpdateDeviceAccessStatus and the console's save: the status of a collection never undoes an edit,
\* and a profile that shows the outcome of a collection is enabled and configured as that
\* collection found it, for any number of profiles, edits and scans.
THEOREM CollectionKeepsEdits == CollectSpec => EditIsKept
<1> DEFINE A == \A p \in Profiles : edits'[p].n >= edits[p].n
           S == \A p \in Profiles : observed[p].status \in {"online", "error"}
                                    => observed[p].of = edits[p] /\ edits[p].on
<1>1. EditInv /\ [CollectNext]_mvars => EditInv' /\ [A]_mvars
  BY EditStep
<1>2. EditInv => S
  BY DEF EditInv, ShownFits
<1>3. CollectInit => EditInv
  BY CollectStarts
<1> HIDE DEF A, S
<1>4. CollectSpec => [][A]_mvars /\ []S
  BY <1>1, <1>2, <1>3, PTL DEF CollectSpec
<1> QED BY <1>4 DEF EditIsKept, A, S

-----------------------------------------------------------------------------
\* The work in the background is sound: WorkIsSound, whatever the sizes of its sets and the
\* bounds of its counters.
THEOREM WorkStaysSound ==
    VideoSpec /\ ReplaySpec /\ CollectSpec /\ JobsSpec /\ StateSafety => []WorkIsSound
<1>1. /\ EventsCountedOnce /\ ReplayCovers /\ ForwardedHasVerdict /\ OneSequencePerEndpoint /\ AnswerOfItsBlock
      /\ OneRunPerKey /\ SucceededIsSaved /\ StateTypeOK
      => WorkIsSound
  BY DEF WorkIsSound
<1> QED BY <1>1, VideoEventsCount, ReplaysCover, CollectionReadsInOrder, JobsRunOnce, StateStaysLocked, PTL

=============================================================================
