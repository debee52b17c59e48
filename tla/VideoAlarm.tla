----------------------------- MODULE VideoAlarm -----------------------------
(***************************************************************************)
(* Video alarm events: IngestVideo saves the event, fuses it with an open  *)
(* alarm of its area or raises one; a goroutine and a retry loop copy its  *)
(* media into the archive and write the result into the event and its      *)
(* alarms.  One camera, one video alarm type and one area.                 *)
(***************************************************************************)
EXTENDS AlarmTable

CONSTANTS
    VideoEvents, External,  \* events, and those with media on another host
    Video, Fire,            \* sources: the video alarm type, a device's fire alarm
    VideoCalls,             \* bound: concurrent calls of IngestVideo
    MediaJobs,              \* bound: the retry loop and the goroutines
    RetryLoop,              \* the job that is retryPendingVideoMedia
    MaxVideoCrashes         \* bound: restarts, and operator decisions

ASSUME VideoAssumption ==
    /\ External \subseteq VideoEvents /\ VideoEvents = Triggers
    /\ {Video, Fire} = Sources /\ RetryLoop \in MediaJobs
    /\ Nil \notin {"NONE", "PENDING", "STORED", "FAILED"}

VARIABLES
    count,          \* count[a]: column triggerCount
    videoEvent,     \* the row's mediaTransferStatus, or Nil when there is no row
    vcall,          \* the calls of IngestVideo in progress
    mjob,           \* the media transfers in progress
    pendingMedia,   \* what the retry loop listed and has yet to transfer
    entered,        \* history: events that raised or joined an alarm
    vcrashes

vvars == <<alarm, count, videoEvent, vcall, mjob, pendingMedia, entered, vcrashes>>

IdleCall == [pc |-> "idle", ev |-> Nil, todo |-> {}]

VideoInit ==
    /\ \E fire \in BOOLEAN :
        alarm = [a \in AlarmIds |->
            IF fire /\ a = CHOOSE b \in AlarmIds : TRUE
            THEN [source |-> Fire, status |-> "ACTIVE", trigger |-> CHOOSE t \in Triggers : TRUE,
                  critical |-> FALSE]
            ELSE Nil]
    /\ count = [a \in AlarmIds |-> 0]
    /\ videoEvent = [e \in VideoEvents |-> Nil]
    /\ vcall = [c \in VideoCalls |-> IdleCall]
    /\ mjob = [j \in MediaJobs |-> IdleCall]
    /\ pendingMedia = {}
    /\ entered = {}
    /\ vcrashes = 0

BadSaveVideoEvent(e, created) ==
    videoEvent' = [videoEvent EXCEPT ![e] = IF e \in External THEN "PENDING" ELSE "NONE"] /\ created

\* INSERT ... ON CONFLICT DO NOTHING.
SaveVideoEvent(e, created) ==
    IF videoEvent[e] = Nil
    THEN videoEvent' = [videoEvent EXCEPT ![e] = IF e \in External THEN "PENDING" ELSE "NONE"] /\ created
    ELSE UNCHANGED videoEvent /\ ~created

\* An event arrives, for the first time or again.
IngestVideo(c, e) ==
    /\ vcall[c] = IdleCall
    /\ \E created \in BOOLEAN :
        /\ SaveVideoEvent(e, created)
        /\ vcall' = [vcall EXCEPT ![c] = IF created THEN [IdleCall EXCEPT !.pc = "list", !.ev = e] ELSE @]
    /\ UNCHANGED <<alarm, count, mjob, pendingMedia, entered, vcrashes>>

\* Copies of the active alarms, with their counts; near are those that were
\* triggered within two minutes.
Copies(as) == {[id |-> a, n |-> count[a]] : a \in as}

fuseVideoAlarm(c) ==
    /\ vcall[c].pc = "list"
    /\ \/ \E near \in SUBSET WithStatus("ACTIVE") :
            vcall' = [vcall EXCEPT ![c].pc = "fuse", ![c].todo = Copies(near)]
       \/ vcall' = [vcall EXCEPT ![c] = IdleCall]       \* ListAlarms failed
    /\ UNCHANGED <<alarm, count, videoEvent, mjob, pendingMedia, entered, vcrashes>>

\* The copy was ACTIVE: writing it back makes the alarm ACTIVE.
WriteCopy(x, crit, n) ==
    /\ UpdateAlarm(x.id, "ACTIVE", crit)
    /\ count' = [count EXCEPT ![x.id] = n]

\* The copy is an alarm of the same type: the event joins it, and the call ends.
JoinVideoAlarm(c, x) ==
    /\ vcall[c].pc = "fuse" /\ x \in vcall[c].todo /\ alarm[x.id].source = Video
    /\ \/ WriteCopy(x, FALSE, x.n + 1) /\ entered' = entered \cup {vcall[c].ev}
       \/ UNCHANGED <<alarm, count, entered>>           \* refused: an error
    /\ vcall' = [vcall EXCEPT ![c] = IdleCall]
    /\ UNCHANGED <<videoEvent, mjob, pendingMedia, vcrashes>>

\* The copy is a fire alarm of the area: it becomes critical, the loop goes on
\* whether or not the update succeeds.
ConfirmFireAlarm(c, x) ==
    /\ vcall[c].pc = "fuse" /\ x \in vcall[c].todo /\ alarm[x.id].source = Fire
    /\ WriteCopy(x, TRUE, x.n) \/ UNCHANGED <<alarm, count>>
    /\ vcall' = [vcall EXCEPT ![c].todo = @ \ {x}]
    /\ UNCHANGED <<videoEvent, mjob, pendingMedia, entered, vcrashes>>

\* Nothing to join: the event's alarm is raised, or counted up.
RaiseVideoAlarm(c) ==
    LET e == vcall[c].ev IN
    /\ vcall[c].pc = "fuse" /\ vcall[c].todo = {}
    /\ \E saved \in AlarmIds, created \in BOOLEAN :
        /\ UpsertAlarm(Video, e, saved, created)
        /\ count' = [count EXCEPT ![saved] = IF created THEN 1 ELSE @ + 1]
    /\ entered' = entered \cup {e}
    /\ vcall' = [vcall EXCEPT ![c] = IdleCall]
    /\ IF e \in External
       THEN \E j \in MediaJobs \ {RetryLoop} :
                mjob[j] = IdleCall /\ mjob' = [mjob EXCEPT ![j].pc = "transfer", ![j].ev = e]
       ELSE UNCHANGED mjob
    /\ UNCHANGED <<videoEvent, pendingMedia, vcrashes>>

-----------------------------------------------------------------------------
BadListPendingVideoEvents == {e \in VideoEvents : videoEvent[e] = "PENDING"}

ListPendingVideoEvents == {e \in VideoEvents : videoEvent[e] \in {"PENDING", "FAILED"}}

\* A tick of the retry loop lists the events, then takes them one by one.
retryPendingVideoMedia ==
    /\ mjob[RetryLoop] = IdleCall
    /\ IF pendingMedia = {}
       THEN pendingMedia' = ListPendingVideoEvents /\ pendingMedia' # {} /\ UNCHANGED mjob
       ELSE \E e \in pendingMedia :
                /\ pendingMedia' = pendingMedia \ {e}
                /\ mjob' = [mjob EXCEPT ![RetryLoop].pc = "transfer", ![RetryLoop].ev = e]
    /\ UNCHANGED <<alarm, count, videoEvent, vcall, entered, vcrashes>>

\* processVideoMedia: the transfer succeeds or fails, and the event is saved;
\* its alarms are updated only when it succeeded.
processVideoMedia(j, ok) ==
    /\ mjob[j].pc = "transfer"
    /\ videoEvent' = [videoEvent EXCEPT ![mjob[j].ev] = IF ok THEN "STORED" ELSE "FAILED"]
    /\ mjob' = [mjob EXCEPT ![j] = IF ok THEN [@ EXCEPT !.pc = "list"] ELSE IdleCall]
    /\ UNCHANGED <<alarm, count, vcall, pendingMedia, entered, vcrashes>>

updateVideoAlarmMedia(j) ==
    \/ /\ mjob[j].pc = "list"
       /\ mjob' = [mjob EXCEPT ![j].pc = "write", ![j].todo = Copies(ListAlarms(Video, "ACTIVE"))]
       /\ UNCHANGED <<alarm, count, videoEvent, vcall, pendingMedia, entered, vcrashes>>
    \/ /\ mjob[j].pc = "write"
       /\ IF mjob[j].todo = {}
          THEN mjob' = [mjob EXCEPT ![j] = IdleCall] /\ UNCHANGED <<alarm, count>>
          ELSE \E x \in mjob[j].todo :
                /\ WriteCopy(x, FALSE, x.n) \/ UNCHANGED <<alarm, count>>
                /\ mjob' = [mjob EXCEPT ![j].todo = @ \ {x}]
       /\ UNCHANGED <<videoEvent, vcall, pendingMedia, entered, vcrashes>>

-----------------------------------------------------------------------------
\* An operator closes an alarm.
CloseVideoAlarm(a) ==
    /\ vcrashes < MaxVideoCrashes
    /\ a \in WithStatus("ACTIVE")
    /\ UpdateAlarm(a, "CLOSED", alarm[a].critical)
    /\ vcrashes' = vcrashes + 1
    /\ UNCHANGED <<count, videoEvent, vcall, mjob, pendingMedia, entered>>

\* The process stops: calls, goroutines and the loop's list are lost.
RestartVideo ==
    /\ vcrashes < MaxVideoCrashes
    /\ vcall' = [c \in VideoCalls |-> IdleCall]
    /\ mjob' = [j \in MediaJobs |-> IdleCall]
    /\ pendingMedia' = {}
    /\ vcrashes' = vcrashes + 1
    /\ UNCHANGED <<alarm, count, videoEvent, entered>>

MediaStep(j) == updateVideoAlarmMedia(j) \/ \E ok \in BOOLEAN : processVideoMedia(j, ok)

VideoNext ==
    \/ \E c \in VideoCalls :
        \/ \E e \in VideoEvents : IngestVideo(c, e)
        \/ fuseVideoAlarm(c)
        \/ \E x \in vcall[c].todo : JoinVideoAlarm(c, x) \/ ConfirmFireAlarm(c, x)
        \/ RaiseVideoAlarm(c)
    \/ retryPendingVideoMedia
    \/ \E j \in MediaJobs : MediaStep(j)
    \/ \E a \in AlarmIds : CloseVideoAlarm(a)
    \/ RestartVideo

VideoSpec == VideoInit /\ [][VideoNext]_vvars

\* The ticker fires, jobs go on, and a transfer that is tried again and again
\* succeeds at last (the media host and the archive come back).
VideoFairness ==
    /\ WF_vvars(retryPendingVideoMedia)
    /\ \A j \in MediaJobs : WF_vvars(MediaStep(j)) /\ SF_vvars(processVideoMedia(j, TRUE))

-----------------------------------------------------------------------------
\* However often an event is delivered, and whatever stale copies of alarms are
\* written back, the trigger counts of the video alarms never add up to more
\* than the events that were saved.
EventsCountedOnce ==
    \A a \in AlarmIds :
        /\ count[a] <= Cardinality(entered)
        /\ \A b \in AlarmIds \ {a} : count[a] + count[b] <= Cardinality(entered)

\* Media on another host is in the archive at last, whatever fails first and
\* wherever the process stops: also for the events that joined an alarm, for
\* which no goroutine is started.
MediaIsStored ==
    \A e \in External : videoEvent[e] \in {"PENDING", "FAILED"} ~> videoEvent[e] = "STORED"

=============================================================================
