-------------------------------- MODULE AiJobs --------------------------------
(***************************************************************************)
(* Background AI work of the API: the analysis of an alarm, started by     *)
(* hand or by an alarm event, and the health inspection of a tenant's      *)
(* devices with the report it leaves for downloads. A map of jobs keeps    *)
(* one running job per key and forgets finished ones after a while.        *)
(***************************************************************************)
EXTENDS Naturals, FiniteSets

CONSTANTS
    Alarms,             \* keys of analysis jobs
    Tenants,            \* keys of inspection jobs
    JobWorkers,         \* goroutines that run a job, or handle an alarm event
    MaxJobs,            \* bound: jobs ever started
    JNone

\* The two kinds of jobs are kept in maps of their own.
ASSUME JobsAssumption == Alarms \cap Tenants = {}

JobKeys == Alarms \cup Tenants

VARIABLES
    jobs,           \* jobs[k]: id, status, old (past the TTL)
    worker,         \* worker[w]: what it runs: key, id, step, and the model's verdict
    jobIds,         \* job ids and event runs issued
    analysis,       \* analysis[a]: the verdict of the saved row
    healthReport,   \* healthReport[t]: the cached report: none, fresh or old (expired)
    expiredReads    \* downloads that found the cached report expired

jvars == <<jobs, worker, jobIds, analysis, healthReport, expiredReads>>

NoJob == [id |-> 0, status |-> "none", old |-> FALSE]
IdleWorker == [key |-> JNone, id |-> 0, at |-> "idle", verdict |-> "none"]

JobsInit ==
    /\ jobs = [k \in JobKeys |-> NoJob] /\ worker = [w \in JobWorkers |-> IdleWorker] /\ jobIds = 0
    /\ analysis = [a \in Alarms |-> "none"]
    /\ healthReport = [t \in Tenants |-> "none"] /\ expiredReads = {}

\* startAIAnalysisJob and startHealthInspectionJob: finished jobs past the TTL are
\* forgotten; a running job is returned as it is.
BadExpired(j) == j.old
Expired(j) == j.status # "running" /\ j.old
SweepJobs == [k \in JobKeys |-> IF Expired(jobs[k]) THEN NoJob ELSE jobs[k]]

StartJob(k, w) ==
    /\ worker[w].at = "idle" /\ jobIds < MaxJobs
    /\ SweepJobs[k].status # "running"
    /\ jobs' = [SweepJobs EXCEPT ![k] = [NoJob EXCEPT !.id = jobIds + 1, !.status = "running"]]
    /\ worker' = [worker EXCEPT ![w] = [IdleWorker EXCEPT !.key = k, !.id = jobIds + 1, !.at = "model"]]
    /\ jobIds' = jobIds + 1
    /\ UNCHANGED <<analysis, healthReport, expiredReads>>
startAIAnalysisJob(a, w) == a \in Alarms /\ StartJob(a, w)
startHealthInspectionJob(t, w) == t \in Tenants /\ StartJob(t, w)

\* Fifteen minutes pass; only finished jobs stop being updated.
AgeJob(k) ==
    /\ jobs[k].id # 0 /\ ~jobs[k].old
    /\ jobs' = [jobs EXCEPT ![k].old = TRUE]
    /\ UNCHANGED <<worker, jobIds, analysis, healthReport, expiredReads>>
AgeReport(t) ==
    /\ healthReport[t] = "fresh"
    /\ healthReport' = [healthReport EXCEPT ![t] = "old"]
    /\ UNCHANGED <<jobs, worker, jobIds, analysis, expiredReads>>

\* handleAI: an alarm event runs the same analysis, without a job.
handleAI(a, w) ==
    /\ a \in Alarms /\ worker[w].at = "idle" /\ jobIds < MaxJobs /\ jobIds' = jobIds + 1
    /\ worker' = [worker EXCEPT ![w] = [IdleWorker EXCEPT !.key = a, !.at = "model"]]
    /\ UNCHANGED <<jobs, analysis, healthReport, expiredReads>>

\* A request for a report, or a download without one, inspects in the request itself.
healthInspection(t, w) ==
    /\ t \in Tenants /\ worker[w].at = "idle" /\ jobIds < MaxJobs /\ jobIds' = jobIds + 1
    /\ worker' = [worker EXCEPT ![w] = [IdleWorker EXCEPT !.key = t, !.at = "model"]]
    /\ UNCHANGED <<jobs, analysis, healthReport, expiredReads>>

\* The model answers, or fails and the result says so; a failed read is an error.
Answered(w, verdict) ==
    /\ worker[w].at = "model"
    /\ worker' = [worker EXCEPT ![w].at = IF verdict = "error" THEN "finish" ELSE "save",
                                ![w].verdict = verdict]
    /\ UNCHANGED <<jobs, jobIds, analysis, healthReport, expiredReads>>
AnalyzeAlarm(w, verdict) == worker[w].key \in Alarms /\ Answered(w, verdict)
InspectDeviceHealth(w, verdict) == worker[w].key \in Tenants /\ Answered(w, verdict)

\* SaveAIAnalysis replaces the row of the alarm; with the context's time used up it fails.
BadSaveAIAnalysis(w, ok) ==
    /\ worker[w].at = "save" /\ worker[w].key \in Alarms
    /\ analysis' = IF ok THEN [analysis EXCEPT ![worker[w].key] = worker[w].verdict] ELSE analysis
    /\ worker' = [worker EXCEPT ![w].at = "finish"]
    /\ UNCHANGED <<jobs, jobIds, healthReport, expiredReads>>
SaveAIAnalysis(w, ok) ==
    /\ worker[w].at = "save" /\ worker[w].key \in Alarms
    /\ analysis' = IF ok THEN [analysis EXCEPT ![worker[w].key] = worker[w].verdict] ELSE analysis
    /\ worker' = [worker EXCEPT ![w].at = "finish", ![w].verdict = IF ok THEN @ ELSE "error"]
    /\ UNCHANGED <<jobs, jobIds, healthReport, expiredReads>>

rememberHealthInspection(w) ==
    /\ worker[w].at = "save" /\ worker[w].key \in Tenants
    /\ healthReport' = [healthReport EXCEPT ![worker[w].key] = "fresh"]
    /\ worker' = [worker EXCEPT ![w].at = "finish"]
    /\ UNCHANGED <<jobs, jobIds, analysis, expiredReads>>

\* The job is written if the map still holds it; a run without a job has nothing to finish.
BadFinishJob(w) ==
    /\ worker[w].at = "finish"
    /\ jobs' = IF worker[w].id # 0 /\ worker[w].verdict # "error"
               THEN [jobs EXCEPT ![worker[w].key].status = "succeeded",
                                 ![worker[w].key].old = FALSE]
               ELSE jobs
    /\ worker' = [worker EXCEPT ![w] = IdleWorker]
    /\ UNCHANGED <<jobIds, analysis, healthReport, expiredReads>>
FinishJob(w) ==
    /\ worker[w].at = "finish"
    /\ jobs' = IF worker[w].id # 0 /\ jobs[worker[w].key].id = worker[w].id
               THEN [jobs EXCEPT ![worker[w].key].status =
                        IF worker[w].verdict = "error" THEN "failed" ELSE "succeeded",
                     ![worker[w].key].old = FALSE]
               ELSE jobs
    /\ worker' = [worker EXCEPT ![w] = IdleWorker]
    /\ UNCHANGED <<jobIds, analysis, healthReport, expiredReads>>
finishAIAnalysisJob(w) == worker[w].key \in Alarms /\ FinishJob(w)
finishHealthInspectionJob(w) == worker[w].key \in Tenants /\ FinishJob(w)

\* recentHealthInspection: the expired report is seen under the read lock and deleted
\* later under the write lock, whatever is cached by then.
ReadExpiredReport(t) ==
    /\ healthReport[t] = "old" /\ t \notin expiredReads
    /\ expiredReads' = expiredReads \cup {t}
    /\ UNCHANGED <<jobs, worker, jobIds, analysis, healthReport>>
DeleteReport(t) ==
    /\ t \in expiredReads /\ expiredReads' = expiredReads \ {t}
    /\ healthReport' = [healthReport EXCEPT ![t] = "none"]
    /\ UNCHANGED <<jobs, worker, jobIds, analysis>>

JobStep(w) ==
    \/ \E v \in {"good", "fallback", "error"} : AnalyzeAlarm(w, v) \/ InspectDeviceHealth(w, v)
    \/ \E ok \in BOOLEAN : SaveAIAnalysis(w, ok)
    \/ rememberHealthInspection(w) \/ finishAIAnalysisJob(w) \/ finishHealthInspectionJob(w)
JobsNext ==
    \/ \E k \in JobKeys : AgeJob(k)
    \/ \E w \in JobWorkers :
          \/ \E a \in Alarms : startAIAnalysisJob(a, w) \/ handleAI(a, w)
          \/ \E t \in Tenants : startHealthInspectionJob(t, w) \/ healthInspection(t, w)
          \/ JobStep(w)
    \/ \E t \in Tenants : AgeReport(t) \/ ReadExpiredReport(t) \/ DeleteReport(t)

JobsSpec == JobsInit /\ [][JobsNext]_jvars

\* The context of a job ends after three minutes, so each step returns.
JobsFairness == \A w \in JobWorkers : WF_jvars(JobStep(w))

-----------------------------------------------------------------------------
\* Pressing the button again never runs the model twice for the same key: the entry of
\* a running job is neither replaced nor forgotten.
OneRunPerKey ==
    \A v, w \in JobWorkers :
        v # w /\ worker[v].id # 0 /\ worker[w].id # 0 => worker[v].key # worker[w].key

\* A job that is shown as succeeded left its result where the page reads it.
SucceededIsSaved == \A a \in Alarms : jobs[a].status = "succeeded" => analysis[a] # "none"

\* docs/AI_PLUGIN_HARNESS.md: the task runs in the background and its result can be read
\* later; every job that was started ends.
JobsEnd == \A k \in JobKeys : jobs[k].status = "running" ~> jobs[k].status # "running"

=============================================================================
