---------------------------- MODULE DeviceCommand ----------------------------
(***************************************************************************)
(* Commands to standard MQTT devices: onboarding.Service.SendCommand, the  *)
(* device_command row it writes before and after the publication, and the  *)
(* reply of the device, which the engine may handle at any moment.         *)
(***************************************************************************)
EXTENDS Naturals

CONSTANTS
    CommandIds,     \* identities chosen by the clients
    Bodies,         \* type and data of a command
    SendCalls,      \* HTTP requests, retries of a request included
    CNil

VARIABLES
    crow,           \* crow[i]: status of the row, "none" before it exists
    cbody,          \* cbody[i]: type and data stored in the row
    scall,          \* scall[c]: the call: step, id, body and the status it was told
    sentBodies,     \* history: sentBodies[i]: how often each body was published
    creplies,       \* replies under way from the device: <<id, outcome>>
    firstReply      \* history: firstReply[i]: outcome of the first reply handled

cvars == <<crow, cbody, scall, sentBodies, creplies, firstReply>>

Terminal == {"SUCCEEDED", "FAILED"}
Statuses == {"none", "DISPATCHING", "SENT", "UNKNOWN"} \cup Terminal
SendIdle == [at |-> "idle", id |-> CNil, body |-> CNil, seen |-> "none"]

CommandInit ==
    /\ crow = [i \in CommandIds |-> "none"] /\ cbody = [i \in CommandIds |-> CNil]
    /\ scall = [c \in SendCalls |-> SendIdle]
    /\ sentBodies = [i \in CommandIds |-> [b \in Bodies |-> 0]]
    /\ creplies = {} /\ firstReply = [i \in CommandIds |-> "none"]

\* What a reader is told; `late' says that 30 seconds have passed since creation.
ObservedOutcome(s, late) == IF s \in {"SENT", "DISPATCHING"} /\ late THEN "UNKNOWN" ELSE s

\* INSERT ... ON CONFLICT DO NOTHING: the caller learns whether it created the row.
BadCreateDeviceCommand(i, b) ==
    /\ crow' = [crow EXCEPT ![i] = "DISPATCHING"] /\ cbody' = [cbody EXCEPT ![i] = b]
CreateDeviceCommand(i, b) ==
    /\ crow[i] = "none"
    /\ crow' = [crow EXCEPT ![i] = "DISPATCHING"] /\ cbody' = [cbody EXCEPT ![i] = b]

\* A confirmed command that the product's thing model accepts, under a new identity.
SendCommand(c, i, b) ==
    /\ scall[c].at = "idle"
    /\ CreateDeviceCommand(i, b)
    /\ scall' = [scall EXCEPT ![c] = [at |-> "publish", id |-> i, body |-> b, seen |-> "none"]]
    /\ UNCHANGED <<sentBodies, creplies, firstReply>>

\* The identity exists: the stored outcome if it is the same request, else an error.
SendCommandAgain(c, i, b) ==
    /\ scall[c].at = "idle" /\ crow[i] # "none"
    /\ \E late \in BOOLEAN :
         scall' = [scall EXCEPT ![c] =
            [at |-> IF cbody[i] = b THEN "done" ELSE "refused", id |-> i, body |-> b,
             seen |-> IF cbody[i] = b THEN ObservedOutcome(crow[i], late) ELSE "none"]]
    /\ UNCHANGED <<crow, cbody, sentBodies, creplies, firstReply>>

\* PublishCommand at QoS 1. On an error, or when the five seconds pass, the device
\* may have received it or not, and it may answer more than once.
PublishCommand(c) ==
    LET i == scall[c].id IN
    /\ scall[c].at = "publish"
    /\ \E ok, arrives \in BOOLEAN :
         /\ ok => arrives
         /\ scall' = [scall EXCEPT ![c].at = IF ok THEN "sent" ELSE "unknown"]
         /\ sentBodies' = [sentBodies EXCEPT ![i][scall[c].body] = @ + 1]
         /\ creplies' = IF arrives THEN creplies \cup {<<i, o>> : o \in Terminal} ELSE creplies
    /\ UNCHANGED <<crow, cbody, firstReply>>

\* UPDATE ... WHERE status='DISPATCHING': a reply may have been handled before.
BadUpdateDispatch(i, s) == crow' = [crow EXCEPT ![i] = s]
UpdateDispatch(i, s) == crow' = IF crow[i] = "DISPATCHING" THEN [crow EXCEPT ![i] = s] ELSE crow

DispatchDone(c) ==
    /\ scall[c].at \in {"sent", "unknown"}
    /\ LET s == IF scall[c].at = "sent" THEN "SENT" ELSE "UNKNOWN" IN
         \E ok \in BOOLEAN :
            /\ IF ok THEN UpdateDispatch(scall[c].id, s) ELSE crow' = crow
            /\ scall' = [scall EXCEPT ![c] = [at |-> "done", id |-> @.id, body |-> @.body,
                                              seen |-> IF ok THEN s ELSE "none"]]
    /\ UNCHANGED <<cbody, sentBodies, creplies, firstReply>>

\* handleStandard passes a COMMAND_REPLY on; a message may be handled again.
CompleteDeviceCommand(i, o) ==
    crow' = IF crow[i] \in Terminal \cup {"none"} THEN crow ELSE [crow EXCEPT ![i] = o]

HandleReply(i, o) ==
    /\ <<i, o>> \in creplies
    /\ CompleteDeviceCommand(i, o)
    /\ firstReply' = [firstReply EXCEPT ![i] = IF @ = "none" THEN o ELSE @]
    /\ UNCHANGED <<cbody, scall, sentBodies, creplies>>

\* The process ends; its requests end without an answer and may be sent again.
CrashCommands ==
    /\ \E c \in SendCalls : scall[c].at \in {"publish", "sent", "unknown"}
    /\ scall' = [c \in SendCalls |->
                   IF scall[c].at = "idle" THEN scall[c] ELSE [scall[c] EXCEPT !.at = "dead"]]
    /\ UNCHANGED <<crow, cbody, sentBodies, creplies, firstReply>>

CommandNext ==
    \/ \E c \in SendCalls, i \in CommandIds, b \in Bodies :
          SendCommand(c, i, b) \/ SendCommandAgain(c, i, b)
    \/ \E c \in SendCalls : PublishCommand(c) \/ DispatchDone(c)
    \/ \E i \in CommandIds, o \in Terminal : HandleReply(i, o)
    \/ CrashCommands

CommandSpec == CommandInit /\ [][CommandNext]_cvars

-----------------------------------------------------------------------------
\* However often a client retries, and wherever a process dies, a device never
\* receives a command twice (SendCommand publishes only what it created), and what
\* it receives is what the row says.
CommandSentOnce ==
    \A i \in CommandIds, b \in Bodies :
        sentBodies[i][b] <= (IF cbody[i] = b THEN 1 ELSE 0)

\* The first reply decides: neither the caller's own late dispatch status nor a
\* second, contradicting reply changes the outcome, and whoever was told an outcome
\* was told that one.
FirstReplyDecides ==
    /\ \A i \in CommandIds : firstReply[i] # "none" => crow[i] = firstReply[i]
    /\ \A c \in SendCalls : scall[c].seen \in Terminal => crow[scall[c].id] = scall[c].seen

\* A command reaches its device once, and its first reply decides.
CommandsAreSettled == CommandSentOnce /\ FirstReplyDecides

=============================================================================
