------------------------------ MODULE EventBus ------------------------------
(***************************************************************************)
(* The Kafka adapter: one reader goroutine per subscription.  A message is *)
(* handled up to MaxAttempts times, then sent to the dead-letter topic;    *)
(* its offset is committed afterwards.  A reader whose fetch fails returns *)
(* for good: Engine.Start subscribes once per process, so only a process   *)
(* that starts again reads on, from the committed offset.  What a handler  *)
(* does is left open: Handled and Failed are its outcomes, and AlarmRules  *)
(* puts the engine's handler in between.                                   *)
(***************************************************************************)
EXTENDS Naturals, Sequences

CONSTANTS
    Topics,         \* subscriptions (topic and consumer group)
    Msgs,           \* messages
    MaxAttempts,    \* attempts per delivery, 3 in the code
    MaxLog,         \* bound: messages published per topic
    MaxCrashes      \* bound: reader stops, failed fetches, refused commits and dead letters

ASSUME BusAssumption == MaxAttempts \in Nat \ {0} /\ MaxLog \in Nat /\ MaxCrashes \in Nat

VARIABLES
    log,            \* log[t]: the messages of the topic, in order
    committed,      \* committed[t]: number of messages the group has committed
    pos,            \* pos[t]: number of messages the reader has fetched and left
    stage,          \* stage[t]: what the reader goroutine is doing
    attempt,        \* attempt[t]: attempts begun for the message at hand
    settled,        \* settled[t]: offsets that were handled, or dead-lettered
    skipped,        \* skipped[t]: offsets whose dead letter was refused
    crashes

bvars == <<log, committed, pos, stage, attempt, settled, skipped, crashes>>

Stages == {"down", "ended", "fetch", "handle", "dead", "commit"}

BusInit ==
    /\ log = [t \in Topics |-> <<>>]
    /\ committed = [t \in Topics |-> 0]
    /\ pos = [t \in Topics |-> 0]
    /\ stage = [t \in Topics |-> "fetch"]
    /\ attempt = [t \in Topics |-> 0]
    /\ settled = [t \in Topics |-> {}]
    /\ skipped = [t \in Topics |-> {}]
    /\ crashes = 0

Trouble == crashes < MaxCrashes /\ crashes' = crashes + 1

\* The message being handled.
MessageAt(t) == log[t][pos[t] + 1]

Publish(t, m) ==
    /\ Len(log[t]) < MaxLog
    /\ log' = [log EXCEPT ![t] = Append(@, m)]
    /\ UNCHANGED <<committed, pos, stage, attempt, settled, skipped, crashes>>

FetchMessage(t) ==
    /\ stage[t] = "fetch"
    /\ pos[t] < Len(log[t])
    /\ stage' = [stage EXCEPT ![t] = "handle"]
    /\ attempt' = [attempt EXCEPT ![t] = 1]
    /\ UNCHANGED <<log, committed, pos, settled, skipped, crashes>>

\* The fetch fails in a process that lives on: the goroutine returns.
FetchFails(t) ==
    /\ stage[t] = "fetch"
    /\ Trouble
    /\ stage' = [stage EXCEPT ![t] = "ended"]
    /\ UNCHANGED <<log, committed, pos, attempt, settled, skipped>>

\* The handler returned nil.
Handled(t) ==
    /\ stage[t] = "handle"
    /\ stage' = [stage EXCEPT ![t] = "commit"]
    /\ settled' = [settled EXCEPT ![t] = @ \cup {pos[t] + 1}]
    /\ UNCHANGED <<log, committed, pos, attempt, skipped, crashes>>

BadFailed(t) ==
    /\ stage[t] = "handle"
    /\ attempt' = [attempt EXCEPT ![t] = @ + 1]
    /\ stage' = [stage EXCEPT ![t] = IF attempt[t] < MaxAttempts THEN "handle" ELSE "commit"]
    /\ UNCHANGED <<log, committed, pos, settled, skipped, crashes>>

\* The handler returned an error: after a pause it runs again, and after the
\* last attempt the message becomes a dead letter.
Failed(t) ==
    /\ stage[t] = "handle"
    /\ IF attempt[t] < MaxAttempts
       THEN attempt' = [attempt EXCEPT ![t] = @ + 1] /\ stage' = stage
       ELSE stage' = [stage EXCEPT ![t] = "dead"] /\ attempt' = attempt
    /\ UNCHANGED <<log, committed, pos, settled, skipped, crashes>>

DeadLetter(t) ==
    /\ stage[t] = "dead"
    /\ stage' = [stage EXCEPT ![t] = "commit"]
    /\ settled' = [settled EXCEPT ![t] = @ \cup {pos[t] + 1}]
    /\ UNCHANGED <<log, committed, pos, attempt, skipped, crashes>>

\* The dead-letter topic refuses: the message is not committed, and the reader
\* goes on with the next one, whose commit covers this offset too.
DeadLetterRefused(t) ==
    /\ stage[t] = "dead"
    /\ Trouble
    /\ stage' = [stage EXCEPT ![t] = "fetch"]
    /\ pos' = [pos EXCEPT ![t] = @ + 1]
    /\ skipped' = [skipped EXCEPT ![t] = @ \cup {pos[t] + 1}]
    /\ UNCHANGED <<log, committed, attempt, settled>>

CommitMessages(t) ==
    /\ stage[t] = "commit"
    /\ pos' = [pos EXCEPT ![t] = @ + 1]
    /\ stage' = [stage EXCEPT ![t] = "fetch"]
    /\ \/ committed' = [committed EXCEPT ![t] = pos[t] + 1] /\ UNCHANGED crashes
       \/ committed' = committed /\ Trouble     \* the error is ignored
    /\ UNCHANGED <<log, attempt, settled, skipped>>

\* The process dies, whatever the reader was doing.
StopReader(t) ==
    /\ stage[t] # "down"
    /\ Trouble
    /\ stage' = [stage EXCEPT ![t] = "down"]
    /\ UNCHANGED <<log, committed, pos, attempt, settled, skipped>>

BadSubscribe(t) ==
    /\ stage[t] = "down"
    /\ stage' = [stage EXCEPT ![t] = "fetch"]
    /\ pos' = [pos EXCEPT ![t] = Len(log[t])]
    /\ UNCHANGED <<log, committed, attempt, settled, skipped, crashes>>

\* The process starts again: its reader begins at the committed offset.
Subscribe(t) ==
    /\ stage[t] = "down"
    /\ stage' = [stage EXCEPT ![t] = "fetch"]
    /\ pos' = [pos EXCEPT ![t] = committed[t]]
    /\ UNCHANGED <<log, committed, attempt, settled, skipped, crashes>>

BusNext ==
    \E t \in Topics :
        \/ \E m \in Msgs : Publish(t, m)
        \/ FetchMessage(t)
        \/ FetchFails(t)
        \/ Handled(t)
        \/ Failed(t)
        \/ DeadLetter(t)
        \/ DeadLetterRefused(t)
        \/ CommitMessages(t)
        \/ StopReader(t)
        \/ Subscribe(t)

\* The reader goroutine runs, a handler returns, and a process that died is started
\* again (compose.yaml: restart unless-stopped).  Nothing revives an ended reader.
ReaderStep(t) ==
    \/ FetchMessage(t) \/ Handled(t) \/ Failed(t) \/ DeadLetter(t) \/ DeadLetterRefused(t)
    \/ CommitMessages(t) \/ Subscribe(t)

BusFairness == \A t \in Topics : WF_bvars(ReaderStep(t))

-----------------------------------------------------------------------------
BusTypeOK ==
    /\ log \in [Topics -> Seq(Msgs)]
    /\ committed \in [Topics -> Nat]
    /\ pos \in [Topics -> Nat]
    /\ stage \in [Topics -> Stages]
    /\ attempt \in [Topics -> 0 .. MaxAttempts]
    /\ settled \in [Topics -> SUBSET (Nat \ {0})]
    /\ skipped \in [Topics -> SUBSET (Nat \ {0})]
    /\ crashes \in 0 .. MaxCrashes

\* Whatever readers stop, retry or fail to commit, the group never commits past
\* a message that was neither handled nor dead-lettered, unless the dead-letter
\* topic itself refused that message.
CommittedIsSettled ==
    \A t \in Topics : 1 .. committed[t] \subseteq settled[t] \cup skipped[t]

\* Every message on the bus is in the end handled or dead-lettered, or was
\* refused by the dead-letter topic, unless the reader has ended for good.
PublishedIsSettled ==
    \A t \in Topics :
        \/ <>[](stage[t] = "ended")
        \/ \A i \in 1 .. MaxLog : Len(log[t]) >= i ~> i \in settled[t] \cup skipped[t]

=============================================================================
