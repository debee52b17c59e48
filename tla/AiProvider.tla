------------------------------ MODULE AiProvider ------------------------------
(***************************************************************************)
(* The choice of the AI model service: one setting served by three places, *)
(* the client inside the process, the workflow sidecar and the database    *)
(* row a restart reads. An update changes them one after the other and     *)
(* goes back when the sidecar refuses; after a restart that found the      *)
(* sidecar away a loop brings it up to date. A chat run streams events of  *)
(* the sidecar to the browser under the knowledge policy of its workflow.  *)
(***************************************************************************)
EXTENDS Naturals, Sequences, FiniteSets

CONSTANTS
    Settings,           \* provider settings an administrator may choose
    EnvSetting,         \* the setting of the environment, used without a row
    MaxUpdates, MaxRestarts,    \* bounds
    Runs,               \* chat runs
    MaxDeltas           \* bound: text events of a run

VARIABLES
    direct, sidecar,    \* RuntimeProvider.config; what the sidecar uses
    stored,             \* the persisted setting, EnvSetting when there is none
    takenByBoth,           \* history: settings that both paths took, EnvSetting included
    upd,                \* the update in progress: at, new, old
    sidecarSync,               \* retryHarnessProvider: at, target
    fault,              \* history: a request to the sidecar or a rollback failed
    updates, restarts,
    policy,             \* knowledge policy of the workflow
    chat                \* chat[r]: at, policy, scope (of the token), hits, sent, gone

service == <<direct, sidecar, stored, takenByBoth, upd, sidecarSync, fault, updates, restarts>>
ivars == <<service, policy, chat>>

Policies == {"auto", "always", "require", "disabled"}
UpdIdle == [at |-> "idle", new |-> EnvSetting, old |-> EnvSetting]
SyncOff == [at |-> "off", target |-> EnvSetting]
RunIdle == [at |-> "idle", policy |-> "auto", scope |-> FALSE, hits |-> "none", sent |-> <<>>,
            gone |-> FALSE]

ProviderInit ==
    /\ direct = EnvSetting /\ sidecar = EnvSetting /\ stored = EnvSetting
    /\ takenByBoth = {EnvSetting} /\ upd = UpdIdle /\ sidecarSync = SyncOff /\ fault = FALSE
    /\ updates = 0 /\ restarts = 0
    /\ policy \in Policies /\ chat = [r \in Runs |-> RunIdle]

-----------------------------------------------------------------------------
\* updateAIProviderConfig, one at a time (aiProviderUpdateMu).
UpdateBegin(s) ==
    /\ upd.at = "idle" /\ updates < MaxUpdates
    /\ upd' = [at |-> "direct", new |-> s, old |-> direct] /\ updates' = updates + 1
    /\ UNCHANGED <<direct, sidecar, stored, takenByBoth, sidecarSync, fault, restarts, policy, chat>>

\* RuntimeProvider.Configure swaps the client only when the new one is healthy.
Configure(healthy) ==
    /\ upd.at = "direct"
    /\ IF healthy THEN direct' = upd.new /\ upd' = [upd EXCEPT !.at = "sidecar"]
       ELSE UNCHANGED direct /\ upd' = UpdIdle
    /\ UNCHANGED <<sidecar, stored, takenByBoth, sidecarSync, fault, updates, restarts, policy, chat>>

\* HarnessClient.ConfigureProvider; an answer may be lost after the sidecar obeyed.
ConfigureProvider ==
    /\ upd.at = "sidecar"
    /\ sidecar' = upd.new /\ takenByBoth' = takenByBoth \cup {upd.new}
    /\ upd' = [upd EXCEPT !.at = "persist"]
    /\ UNCHANGED <<direct, stored, sidecarSync, fault, updates, restarts, policy, chat>>
ConfigureProviderFails ==
    /\ upd.at = "sidecar" /\ sidecar' \in {sidecar, upd.new} /\ fault' = TRUE
    /\ upd' = [upd EXCEPT !.at = "rollback"]
    /\ UNCHANGED <<direct, stored, takenByBoth, sidecarSync, updates, restarts, policy, chat>>

\* The previous setting is configured again, if its service is healthy.
Rollback(healthy) ==
    /\ upd.at = "rollback" /\ upd' = UpdIdle
    /\ direct' = IF healthy THEN upd.old ELSE direct
    /\ UNCHANGED <<sidecar, stored, takenByBoth, sidecarSync, fault, updates, restarts, policy, chat>>

BadSaveAIProviderConfig(ok) ==
    /\ upd.at = "sidecar" /\ stored' = upd.new /\ upd' = upd
    /\ UNCHANGED <<direct, sidecar, takenByBoth, sidecarSync, fault, updates, restarts, policy, chat>>
SaveAIProviderConfig(ok) ==
    /\ upd.at = "persist" /\ upd' = UpdIdle
    /\ stored' = IF ok THEN upd.new ELSE stored
    /\ UNCHANGED <<direct, sidecar, takenByBoth, sidecarSync, fault, updates, restarts, policy, chat>>

\* A restart serves the persisted setting; a sidecar that is away is retried later.
RestartProvider(reached) ==
    /\ restarts < MaxRestarts /\ restarts' = restarts + 1
    /\ direct' = stored /\ upd' = UpdIdle
    /\ sidecar' = IF reached THEN stored ELSE sidecar
    /\ sidecarSync' = IF reached THEN SyncOff ELSE [at |-> "wait", target |-> stored]
    /\ fault' = FALSE
    /\ chat' = [r \in Runs |-> IF chat[r].at = "idle" THEN chat[r]
                               ELSE [chat[r] EXCEPT !.gone = TRUE, !.at = "done"]]
    /\ UNCHANGED <<stored, takenByBoth, updates, policy>>

\* retryHarnessProvider: read the setting, send it, look again.
RetryRead ==
    /\ sidecarSync.at = "wait" /\ sidecarSync' = [at |-> "call", target |-> direct]
    /\ UNCHANGED <<direct, sidecar, stored, takenByBoth, upd, fault, updates, restarts, policy, chat>>
RetryCall(ok) ==
    /\ sidecarSync.at = "call"
    /\ sidecar' \in (IF ok THEN {sidecarSync.target} ELSE {sidecar, sidecarSync.target})
    /\ sidecarSync' = [sidecarSync EXCEPT !.at = IF ok THEN "check" ELSE "wait"]
    /\ UNCHANGED <<direct, stored, takenByBoth, upd, fault, updates, restarts, policy, chat>>
BadRetryCheck ==
    /\ sidecarSync.at = "check" /\ sidecarSync' = SyncOff
    /\ UNCHANGED <<direct, sidecar, stored, takenByBoth, upd, fault, updates, restarts, policy, chat>>
RetryCheck ==
    /\ sidecarSync.at = "check"
    /\ sidecarSync' = IF direct # sidecarSync.target THEN [sidecarSync EXCEPT !.at = "wait"] ELSE SyncOff
    /\ UNCHANGED <<direct, sidecar, stored, takenByBoth, upd, fault, updates, restarts, policy, chat>>

-----------------------------------------------------------------------------
\* runAIWorkflow reads the policy once; it decides the scope of the run's token.
workflowKnowledgeBinding(p) ==
    /\ p # policy /\ policy' = p /\ UNCHANGED <<service, chat>>
RunStart(r) ==
    /\ chat[r].at = "idle"
    /\ chat' = [chat EXCEPT ![r] = [RunIdle EXCEPT !.policy = policy, !.scope = policy # "disabled",
                                      !.at = IF policy \in {"always", "require"} THEN "search" ELSE "stream"]]
    /\ UNCHANGED <<service, policy>>

Sent(c, e) == [c EXCEPT !.sent = Append(@, e)]
RunFailed(c) == [Sent(c, "failed") EXCEPT !.at = "done"]

\* searchWorkflowKnowledge; a failing index ends the run, and so does the lack of
\* evidence where the policy requires it.
BadSearchWorkflowKnowledge(r, found) ==
    /\ chat[r].at = "search"
    /\ chat' = [chat EXCEPT ![r] = IF found = "error" THEN RunFailed(@)
                                   ELSE [@ EXCEPT !.hits = found, !.at = "stream"]]
    /\ UNCHANGED <<service, policy>>
SearchWorkflowKnowledge(r, found) ==
    /\ chat[r].at = "search"
    /\ chat' = [chat EXCEPT ![r] =
                  IF found = "error" \/ (found = "none" /\ @.policy = "require") THEN RunFailed(@)
                  ELSE [@ EXCEPT !.hits = found, !.at = "stream"]]
    /\ UNCHANGED <<service, policy>>

\* StreamChat: an event of the sidecar goes to the browser. The sidecar ends a run
\* with one event; "failed" ends it at once, after "completed" the stream is read on.
StreamEvent(r, e) ==
    /\ chat[r].at = "stream" /\ "completed" \notin {chat[r].sent[i] : i \in DOMAIN chat[r].sent}
    /\ e = "delta" => Len(chat[r].sent) < MaxDeltas
    /\ chat' = [chat EXCEPT ![r] = IF e = "failed" THEN RunFailed(@)
                                   ELSE Sent(@, e)]
    /\ UNCHANGED <<service, policy>>

\* The stream ends or breaks: aiChatStream adds the event that is still missing.
BadStreamEnd(r, ok) ==
    /\ chat[r].at = "stream"
    /\ chat' = [chat EXCEPT ![r] = IF ok THEN [Sent(@, "completed") EXCEPT !.at = "done"]
                                   ELSE RunFailed(@)]
    /\ UNCHANGED <<service, policy>>
StreamEnd(r, ok) ==
    /\ chat[r].at = "stream"
    /\ chat' = [chat EXCEPT ![r] =
                  IF "completed" \in {@.sent[i] : i \in DOMAIN @.sent} THEN [@ EXCEPT !.at = "done"]
                  ELSE IF ok THEN [Sent(@, "completed") EXCEPT !.at = "done"]
                  ELSE RunFailed(@)]
    /\ UNCHANGED <<service, policy>>
BrowserLeaves(r) ==
    /\ chat[r].at \in {"search", "stream"}
    /\ chat' = [chat EXCEPT ![r].gone = TRUE, ![r].at = "done"]
    /\ UNCHANGED <<service, policy>>

ProviderNext ==
    \/ \E s \in Settings : UpdateBegin(s)
    \/ \E b \in BOOLEAN : \/ Configure(b) \/ Rollback(b) \/ SaveAIProviderConfig(b)
                          \/ RestartProvider(b) \/ RetryCall(b)
    \/ ConfigureProvider \/ ConfigureProviderFails \/ RetryRead \/ RetryCheck
    \/ \E p \in Policies : workflowKnowledgeBinding(p)
    \/ \E r \in Runs : \/ RunStart(r) \/ BrowserLeaves(r)
                       \/ \E found \in {"error", "none", "hit"} : SearchWorkflowKnowledge(r, found)
                       \/ \E e \in {"delta", "completed", "failed"} : StreamEvent(r, e)
                       \/ \E ok \in BOOLEAN : StreamEnd(r, ok)

ProviderSpec == ProviderInit /\ [][ProviderNext]_ivars

-----------------------------------------------------------------------------
\* What a restart would serve has been accepted by the health check and by the sidecar,
\* whichever step of an update failed.
StoredWasAccepted == stored \in takenByBoth

\* app.go: an older retry never leaves the sidecar on stale settings. As long as no
\* request of an update failed, the two paths agree when nothing is under way.
RetryLeavesNoStale ==
    ~fault /\ upd.at = "idle" /\ sidecarSync.at = "off" => sidecar = direct

\* A browser that stayed sees exactly one final event, however the stream ended.
OneFinalEvent ==
    \A r \in Runs : chat[r].at = "done" /\ ~chat[r].gone =>
        Cardinality({i \in DOMAIN chat[r].sent : chat[r].sent[i] \in {"completed", "failed"}}) = 1

\* The model is asked with the rights and the evidence of the policy in force when the
\* run began, whatever the administrator changes meanwhile.
PolicyHolds ==
    \A r \in Runs : chat[r].at = "stream" =>
        /\ chat[r].policy = "require" => chat[r].hits = "hit"
        /\ chat[r].scope <=> chat[r].policy # "disabled"

\* Settings and runs are sound, whichever of the three places fails or comes late.
AiIsSound == StoredWasAccepted /\ RetryLeavesNoStale /\ OneFinalEvent /\ PolicyHolds

=============================================================================
