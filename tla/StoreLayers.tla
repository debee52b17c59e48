------------------------------ MODULE StoreLayers ------------------------------
(***************************************************************************)
(* The layers of the repository under one standard message: the row in     *)
(* PostgreSQL that claims it, its telemetry row in ClickHouse, which has   *)
(* no unique key, and the copy in Redis that the console reads as the      *)
(* device's latest message. Any call may fail, executed or not, and the    *)
(* message is then delivered again; two processes may also hold the same   *)
(* message at once, and nothing locks it for one of them.                  *)
(***************************************************************************)
EXTENDS Naturals

CONSTANTS
    StdMsgs,            \* property and alarm reports of a device, numbered by timestamp
    Handlers,           \* calls of handleStandard that may go on at the same time
    MaxDeliveries       \* bound: deliveries of one message

ASSUME LayersAssumption == StdMsgs \subseteq Nat \ {0}

VARIABLES
    stdRow,         \* stdRow[m]: "absent", "stored", "processed"
    telemetry,      \* telemetry[m]: rows of the message in iot_telemetry
    onTheWay,       \* onTheWay[m]: inserts given up by their caller that may still happen
    latest,         \* device:latest in Redis, 0 when there is none
    delivery,       \* delivery[h]: what the handler has in hand: msg, at, created
    deliveries,     \* deliveries so far, per message
    crossed         \* messages delivered while an earlier delivery was not over

svars == <<stdRow, telemetry, onTheWay, latest, delivery, deliveries, crossed>>

NoDelivery == [msg |-> 0, at |-> "idle", created |-> FALSE]

LayersInit ==
    /\ stdRow = [m \in StdMsgs |-> "absent"] /\ telemetry = [m \in StdMsgs |-> 0]
    /\ onTheWay = [m \in StdMsgs |-> 0] /\ latest = 0 /\ crossed = {}
    /\ delivery = [h \in Handlers |-> NoDelivery] /\ deliveries = [m \in StdMsgs |-> 0]

\* A delivery of the message is not over.
UnderWay(m) == onTheWay[m] > 0 \/ \E h \in Handlers : delivery[h].msg = m

\* ClaimStandardMessage of PostgreSQL: the row is inserted unless it is there; a message
\* that was processed is not claimed again. One that is still being handled is.
ClaimRow(h, m) ==
    /\ delivery[h] = NoDelivery /\ deliveries[m] < MaxDeliveries
    /\ deliveries' = [deliveries EXCEPT ![m] = @ + 1]
    /\ IF stdRow[m] = "processed" THEN UNCHANGED <<stdRow, delivery, crossed>>
       ELSE /\ stdRow' = [stdRow EXCEPT ![m] = "stored"]
            /\ delivery' = [delivery EXCEPT ![h] =
                               [msg |-> m, at |-> "telemetry", created |-> stdRow[m] = "absent"]]
            /\ crossed' = IF UnderWay(m) THEN crossed \cup {m} ELSE crossed
    /\ UNCHANGED <<telemetry, onTheWay, latest>>

\* ensureTelemetry: only the call that created the row may skip the question whether
\* the telemetry row exists; the insert is a call of its own after the answer.
BadNeedsTelemetry(m, created) == TRUE
WorseNeedsTelemetry(m, created) == created
NeedsTelemetry(m, created) == created \/ telemetry[m] = 0
ensureTelemetry(h) ==
    /\ delivery[h].at = "telemetry"
    /\ delivery' = [delivery EXCEPT ![h].at =
                       IF NeedsTelemetry(delivery[h].msg, delivery[h].created) THEN "insert" ELSE "cache"]
    /\ UNCHANGED <<stdRow, telemetry, onTheWay, latest, deliveries, crossed>>

\* The insert is answered; or the call ends with an error, the insert made, not made, or
\* still on its way to the database.
InsertTelemetry(h, outcome) ==
    /\ delivery[h].at = "insert"
    /\ LET m == delivery[h].msg
       IN /\ telemetry' = IF outcome \in {"answered", "made"} THEN [telemetry EXCEPT ![m] = @ + 1] ELSE telemetry
          /\ onTheWay' = IF outcome = "late" THEN [onTheWay EXCEPT ![m] = @ + 1] ELSE onTheWay
    /\ delivery' = IF outcome = "answered" THEN [delivery EXCEPT ![h].at = "cache"]
                                           ELSE [delivery EXCEPT ![h] = NoDelivery]
    /\ UNCHANGED <<stdRow, latest, deliveries, crossed>>
InsertArrives(m) ==
    /\ onTheWay[m] > 0 /\ onTheWay' = [onTheWay EXCEPT ![m] = @ - 1]
    /\ telemetry' = [telemetry EXCEPT ![m] = @ + 1]
    /\ UNCHANGED <<stdRow, latest, delivery, deliveries, crossed>>

\* ClaimStandardMessage of Redis: whatever is claimed becomes the latest message.
CacheLatest(h, executed, answered) ==
    /\ delivery[h].at = "cache" /\ (answered => executed)
    /\ latest' = IF executed THEN delivery[h].msg ELSE latest
    /\ delivery' = IF answered THEN [delivery EXCEPT ![h].at = "handle"]
                               ELSE [delivery EXCEPT ![h] = NoDelivery]
    /\ UNCHANGED <<stdRow, telemetry, onTheWay, deliveries, crossed>>

\* The handler of the engine ran to its end; failing, or with the process dying at any
\* step, the message comes again.
MarkStandardMessageProcessed(h) ==
    /\ delivery[h].at = "handle"
    /\ stdRow' = [stdRow EXCEPT ![delivery[h].msg] = "processed"]
    /\ delivery' = [delivery EXCEPT ![h] = NoDelivery]
    /\ UNCHANGED <<telemetry, onTheWay, latest, deliveries, crossed>>
DeliveryFails(h) ==
    /\ delivery[h].at # "idle" /\ delivery' = [delivery EXCEPT ![h] = NoDelivery]
    /\ UNCHANGED <<stdRow, telemetry, onTheWay, latest, deliveries, crossed>>

LayersNext ==
    \/ \E m \in StdMsgs : InsertArrives(m) \/ \E h \in Handlers : ClaimRow(h, m)
    \/ \E h \in Handlers : ensureTelemetry(h) \/ MarkStandardMessageProcessed(h) \/ DeliveryFails(h)
    \/ \E h \in Handlers, outcome \in {"answered", "made", "lost", "late"} : InsertTelemetry(h, outcome)
    \/ \E h \in Handlers, executed, answered \in BOOLEAN : CacheLatest(h, executed, answered)

LayersSpec == LayersInit /\ [][LayersNext]_svars

-----------------------------------------------------------------------------
\* A message that is never delivered again has its telemetry: a write that failed is
\* made up for by a later delivery, although the claim says that the row exists, and
\* whatever a handler of the same message does at the same time.
ProcessedHasTelemetry == \A m \in StdMsgs : stdRow[m] = "processed" => telemetry[m] > 0

\* The question and the insert of ensureTelemetry are not one step, so a message that is
\* delivered while an earlier delivery of it is not over may get a second point in its
\* curve. Any other message has at most one, however often it comes: an insert whose
\* answer was lost is found by the next delivery.
TelemetryOnce == \A m \in StdMsgs \ crossed : telemetry[m] + onTheWay[m] <= 1

\* A message that is done has a telemetry row, whichever store failed, and no second one
\* unless two deliveries of it crossed.
TelemetryIsKept == ProcessedHasTelemetry /\ TelemetryOnce

=============================================================================
