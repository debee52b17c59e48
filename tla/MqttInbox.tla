----------------------------- MODULE MqttInbox -----------------------------
(***************************************************************************)
(* Durable MQTT reception: internal/adapters/mqtt (inbox.go, ingress.go,   *)
(* client.go) on top of one shard of internal/durablequeue.  The shards    *)
(* share nothing but the connection, and a topic always maps to the same   *)
(* one.                                                                    *)
(*                                                                         *)
(* Paho calls receive for each delivery, one at a time; the shard's worker *)
(* goroutine runs beside it and holds the queue's mutex only inside a      *)
(* queue method.  An identity is the hash of topic and payload, so the     *)
(* deliveries of one identity all have the same bytes.                     *)
(***************************************************************************)
EXTENDS DurableQueue

CONSTANTS
    Unroutable,    \* identities of retained, unknown or oversized messages
    MaxPublishes,  \* bound on publications
    MaxTroubles    \* bound on lost links, stops, crashes and failing handlers

ASSUME InboxAssumption ==
    /\ Unroutable \subseteq Ids
    /\ MaxPublishes \in Nat
    /\ MaxTroubles \in Nat

VARIABLES
    session,       \* session[i]: the broker's copy: "none", "queued" or "sent"
    publishes,     \* publications left
    acking,        \* PUBACKs written and not yet at the broker
    link,          \* the MQTT connection is open
    reconnecting,  \* Client.reconnecting: "no", or retryConnection's goroutine
                   \* is "pausing" or has "expired" the read
    proc,          \* the process: "down", "up" or "closing"
    registered,    \* the route's handler is registered
    worker,        \* the shard's worker: [at, id, verdict]
    receipt,       \* receipt[i]: acknowledged to the broker, not handled since
    missed,        \* refused deliveries whose retryConnection found the flag set
    troubles       \* troubles left

cvars == <<session, acking, link, reconnecting, missed>>
wvars == <<registered, worker>>
ivars == <<qvars, cvars, wvars, publishes, proc, receipt, troubles>>

None == -1    \* no identity: Ids is a set of naturals
AtNext == [at |-> "next", id |-> None, verdict |-> "none"]
Trouble == troubles > 0 /\ troubles' = troubles - 1

(***************************************************************************)
(* The broker and the connection.                                          *)
(***************************************************************************)
Publish(i) ==
    /\ session[i] = "none"
    /\ publishes > 0
    /\ publishes' = publishes - 1
    /\ session' = [session EXCEPT ![i] = "queued"]
    /\ UNCHANGED <<qvars, wvars, acking, link, reconnecting, missed, proc, receipt, troubles>>

\* The link goes: PUBACKs on it are lost, unacknowledged messages will be
\* sent again (persistent session, QoS 1).
Disconnected ==
    /\ link' = FALSE
    /\ acking' = {}
    /\ session' = [i \in Ids |-> IF session[i] = "sent" THEN "queued" ELSE session[i]]
    /\ missed' = {}

LinkLost ==
    /\ link
    /\ Trouble
    /\ Disconnected
    /\ UNCHANGED <<qvars, wvars, reconnecting, publishes, proc, receipt>>

Connect ==
    /\ proc = "up"
    /\ ~link
    /\ link' = TRUE
    /\ UNCHANGED <<qvars, wvars, session, acking, reconnecting, missed, publishes, proc,
                   receipt, troubles>>

BrokerAck(i) ==
    /\ i \in acking
    /\ acking' = acking \ {i}
    /\ session' = [session EXCEPT ![i] = "none"]
    /\ UNCHANGED <<qvars, wvars, link, reconnecting, missed, publishes, proc, receipt, troubles>>

(***************************************************************************)
(* receive.                                                                *)
(***************************************************************************)
\* Faulty variants, named Bad*, are bugs the properties below must detect.
BadRetryConnection(i) == UNCHANGED <<reconnecting, missed>>

\* retryConnection: one goroutine at a time.
RetryConnection(i) ==
    IF reconnecting = "no"
    THEN reconnecting' = "pausing" /\ missed' = missed
    ELSE /\ reconnecting' = reconnecting
         /\ missed' = IF reconnecting = "expired" THEN missed \cup {i} ELSE missed

Finishing(i) == worker.at = "finish" /\ worker.id = i /\ worker.verdict = "ack"

\* Stored and flushed: acknowledge.  A delivery that arrives between the
\* handler's success and the removal of the file is a duplicate of the
\* message being finished.
ReceiveStored(i) ==
    /\ i \notin Unroutable
    /\ \E d \in Data, t \in Times : PutOk(i, d, t, TRUE)
    /\ acking' = acking \cup {i}
    /\ receipt' = [receipt EXCEPT ![i] = ~Finishing(i)]
    /\ UNCHANGED <<reconnecting, missed>>

BadReceiveFailed(i) ==
    /\ i \notin Unroutable
    /\ \E d \in Data, t \in Times : PutFlushError(i, d, t, TRUE)
    /\ acking' = acking \cup {i}
    /\ receipt' = [receipt EXCEPT ![i] = TRUE]
    /\ UNCHANGED <<reconnecting, missed>>

\* put returned an error: no acknowledgement, ask for the delivery again.
ReceiveFailed(i) ==
    /\ i \notin Unroutable
    /\ \E d \in Data, t \in Times :
          \/ PutFlushError(i, d, t, TRUE)
          \/ PutRefused(i, d, t, TRUE) /\ UNCHANGED qvars
    /\ RetryConnection(i)
    /\ UNCHANGED <<acking, receipt>>

ReceiveDropped(i) ==
    /\ i \in Unroutable
    /\ acking' = acking \cup {i}
    /\ UNCHANGED <<qvars, receipt, reconnecting, missed>>

\* A cancelled context makes receive return at once, so only "up" matters.
Receive(i) ==
    /\ proc = "up"
    /\ link
    /\ session[i] = "queued"
    /\ session' = [session EXCEPT ![i] = "sent"]
    /\ ReceiveStored(i) \/ ReceiveFailed(i) \/ ReceiveDropped(i)
    /\ UNCHANGED <<wvars, link, publishes, proc, troubles>>

\* The goroutine of retryConnection, after its pause: the read deadline makes
\* Paho lose and reopen the connection.
ExpireRead ==
    /\ reconnecting = "pausing"
    /\ reconnecting' = "expired"
    /\ Disconnected
    /\ UNCHANGED <<qvars, wvars, publishes, proc, receipt, troubles>>

\* Its deferred reconnecting.Store(false).
ClearReconnecting ==
    /\ reconnecting = "expired"
    /\ reconnecting' = "no"
    /\ UNCHANGED <<qvars, wvars, session, acking, link, missed, publishes, proc, receipt, troubles>>

(***************************************************************************)
(* The worker loop of inbox.start.                                         *)
(***************************************************************************)
WorkerNext(i) ==
    /\ proc = "up"
    /\ worker.at = "next"
    /\ NextFound(i)
    /\ worker' = [at |-> "handle", id |-> i, verdict |-> "none"]
    /\ UNCHANGED <<qvars, cvars, registered, publishes, proc, receipt, troubles>>

WorkerQuarantine(i) ==
    /\ proc = "up"
    /\ worker.at = "next"
    /\ NextQuarantine(i)
    /\ UNCHANGED <<cvars, wvars, publishes, proc, receipt, troubles>>

HandleSucceeds ==
    /\ registered
    /\ worker' = [worker EXCEPT !.at = "finish", !.verdict = "ack"]
    /\ receipt' = [receipt EXCEPT ![worker.id] = FALSE]
    /\ UNCHANGED troubles

BadHandleRejects ==
    /\ registered
    /\ worker' = AtNext
    /\ UNCHANGED <<receipt, troubles>>

\* An error marked Reject, or ErrRawConflict.
HandleRejects ==
    /\ registered
    /\ worker' = [worker EXCEPT !.at = "finish", !.verdict = "reject"]
    /\ UNCHANGED <<receipt, troubles>>

\* Any other error, and a handler that is not registered yet: the entry stays
\* pending and the worker pauses.
HandleRetries ==
    /\ \/ ~registered /\ UNCHANGED troubles
       \/ registered /\ Trouble
    /\ worker' = AtNext
    /\ UNCHANGED receipt

WorkerHandle ==
    /\ worker.at = "handle"
    /\ HandleSucceeds \/ HandleRejects \/ HandleRetries
    /\ UNCHANGED <<qvars, cvars, registered, publishes, proc>>

WorkerFinish ==
    /\ worker.at = "finish"
    /\ \/ worker.verdict = "ack" /\ Ack(worker.id)
       \/ worker.verdict = "reject" /\ Reject(worker.id)
    /\ worker' = AtNext
    /\ UNCHANGED <<cvars, registered, publishes, proc, receipt, troubles>>

(***************************************************************************)
(* The process.                                                            *)
(***************************************************************************)
\* NewDurableWithCredentials: open the queue, connect, start the worker.  When
\* one of these fails nothing is left behind.
Start ==
    /\ proc = "down"
    /\ OpenQueue
    /\ proc' = "up"
    /\ link' = TRUE
    /\ UNCHANGED <<wvars, session, acking, reconnecting, missed, publishes, receipt, troubles>>

Register ==
    /\ proc = "up"
    /\ ~registered
    /\ registered' = TRUE
    /\ UNCHANGED <<qvars, cvars, worker, publishes, proc, receipt, troubles>>

\* Client.Close: cancel the context, disconnect ...
Shutdown ==
    /\ proc = "up"
    /\ Trouble
    /\ proc' = "closing"
    /\ reconnecting' = "no"
    /\ Disconnected
    /\ UNCHANGED <<qvars, wvars, publishes, receipt>>

Gone ==
    /\ proc' = "down"
    /\ Disconnected
    /\ reconnecting' = "no"
    /\ registered' = FALSE
    /\ worker' = AtNext
    /\ UNCHANGED <<publishes, receipt>>

BadShutdownDone ==
    /\ proc = "closing"
    /\ Close
    /\ proc' = "down"
    /\ Disconnected
    /\ reconnecting' = "no"
    /\ UNCHANGED <<wvars, publishes, receipt, troubles>>

\* ... wait for the worker to leave its loop, and close the queue.
ShutdownDone ==
    /\ proc = "closing"
    /\ worker.at = "next"
    /\ Close
    /\ Gone
    /\ UNCHANGED troubles

Crash ==
    /\ proc # "down"
    /\ Trouble
    /\ Close
    /\ Gone

MachineFails == PowerLoss /\ Gone /\ UNCHANGED troubles

DiskDamage(i) ==
    /\ Damage(i)
    /\ UNCHANGED <<cvars, wvars, publishes, proc, receipt, troubles>>

InboxInit ==
    /\ Init
    /\ session = [i \in Ids |-> "none"]
    /\ publishes = MaxPublishes
    /\ acking = {}
    /\ link = FALSE
    /\ reconnecting = "no"
    /\ proc = "down"
    /\ registered = FALSE
    /\ worker = AtNext
    /\ receipt = [i \in Ids |-> FALSE]
    /\ missed = {}
    /\ troubles = MaxTroubles

InboxNext ==
    \/ \E i \in Ids : \/ Publish(i) \/ BrokerAck(i) \/ Receive(i)
                      \/ WorkerNext(i) \/ WorkerQuarantine(i) \/ DiskDamage(i)
    \/ LinkLost \/ Connect \/ ExpireRead \/ ClearReconnecting
    \/ WorkerHandle \/ WorkerFinish
    \/ Start \/ Register \/ Shutdown \/ ShutdownDone \/ Crash \/ MachineFails

InboxSafety == InboxInit /\ [][InboxNext]_ivars

(***************************************************************************)
(* Fairness.  Goroutines run, supervision restarts the process, the client *)
(* reconnects on its own.  Strong for a delivery and for a PUBACK: a       *)
(* connection lives at least the second retryConnection pauses, in which   *)
(* the broker sends everything it holds and reads the PUBACKs, so neither  *)
(* can be cut off for ever by a connection that keeps failing for another  *)
(* message.                                                                *)
(***************************************************************************)
InboxFairness ==
    /\ WF_ivars(Start) /\ WF_ivars(Connect) /\ WF_ivars(Register)
    /\ WF_ivars(ShutdownDone)
    /\ WF_ivars(ExpireRead) /\ WF_ivars(ClearReconnecting)
    /\ WF_ivars(WorkerHandle) /\ WF_ivars(WorkerFinish)
    /\ \A i \in Ids : /\ WF_ivars(WorkerNext(i)) /\ WF_ivars(WorkerQuarantine(i))
                      /\ SF_ivars(Receive(i)) /\ SF_ivars(BrokerAck(i))

InboxSpec == InboxSafety /\ InboxFairness

-----------------------------------------------------------------------------
\* The shape of the state; a worker inside a handler, or about to remove or
\* quarantine an entry, belongs to a live process that holds the queue.
InboxTypeOK ==
    /\ proc # "down" <=> open
    /\ worker.at # "next" => open
    /\ session \in [Ids -> {"none", "queued", "sent"}]
    /\ publishes \in 0 .. MaxPublishes
    /\ acking \subseteq Ids
    /\ link \in BOOLEAN
    /\ reconnecting \in {"no", "pausing", "expired"}
    /\ proc \in {"down", "up", "closing"}
    /\ registered \in BOOLEAN
    /\ worker \in [at : {"next", "handle", "finish"}, id : Ids \cup {None},
                   verdict : {"none", "ack", "reject"}]
    /\ receipt \in [Ids -> BOOLEAN]
    /\ missed \subseteq Ids
    /\ troubles \in 0 .. MaxTroubles

Quarantined(i) == Exists(i, "rejected") \/ Exists(i, "corrupt")

\* A message acknowledged to the broker and not yet handled by the business
\* code is on disk, active or quarantined, in every state a crash or a power
\* loss may leave: "the platform's ACK means that the local durable queue holds
\* the delivery".
AckedIsKept ==
    \A i \in Ids : receipt[i] => \A img \in images[i] : \E s \in Suffix : img[s] # NoFile

\* Every acknowledged message is eventually handled or quarantined, whatever is
\* stuck before it in the shard.
AckedIsProcessed == \A i \in Ids : receipt[i] ~> (~receipt[i] \/ Quarantined(i))

\* The queue has no room for i, and only quarantined entries to give up.
FullOfQuarantine(i) ==
    /\ PutFull(i)
    /\ \A j \in Ids : ~Exists(j, "json")

\* Every message the broker holds is eventually acknowledged, unless it is
\* quarantined, unless quarantined entries fill the shard, or unless its refusal
\* fell between the expiry of the read and the reset of Client.reconnecting.
BrokerIsRelieved ==
    \A i \in Ids : session[i] # "none" ~>
        (session[i] = "none" \/ Quarantined(i) \/ FullOfQuarantine(i) \/ i \in missed)

\* The documented promise has no such exception: a refused delivery is requested
\* again by reconnecting.
RefusedIsRequestedAgain ==
    \A i \in Ids : session[i] # "none" ~>
        (session[i] = "none" \/ Quarantined(i) \/ FullOfQuarantine(i))

=============================================================================
