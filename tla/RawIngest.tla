----------------------------- MODULE RawIngest -----------------------------
(***************************************************************************)
(* Engine.IngestRaw, publishArchivedRaw and retryPendingRaw                *)
(* (internal/core/engine.go) over the reservation and index tables of      *)
(* internal/adapters/postgres and the two-tier store of                    *)
(* internal/adapters/rawstore.                                             *)
(*                                                                         *)
(* Several processes receive the same message (broker redelivery, device   *)
(* retry, shared subscriptions) while their retry loops publish what was   *)
(* left pending.  A caller holds its process's stripe lock for the whole   *)
(* call, so one caller stands for one process; a retry loop takes no lock. *)
(* Every database or bus call is one step, may fail, and the process may   *)
(* die between any two of them.                                            *)
(***************************************************************************)
EXTENDS Integers, FiniteSets

CONSTANTS
    Ids,          \* message identities (tenant, messageId)
    Bodies,       \* payload, device and product: what a conflict check compares
    Metas,        \* everything else: reception time, protocol version, headers
    Callers,      \* processes inside IngestRaw
    Retriers,     \* retryPendingRaw loops
    MaxTroubles,  \* bound on failing calls and crashes
    Nil

Message == [body : Bodies, meta : Metas]
Store == {"postgres", "clickhouse"}
IndexRow == [store : Store, body : Bodies, published : BOOLEAN]
Actors == Callers \cup Retriers

ASSUME RawAssumption ==
    /\ Nil \notin Message
    /\ Nil \notin IndexRow
    /\ Callers \cap Retriers = {}
    /\ MaxTroubles \in Nat

VARIABLES
    reserved,  \* raw_ingest_reservation: the first message seen, or Nil
    pg,        \* raw_message_log: at most one content
    ch,        \* iot_raw_message (MergeTree): every content inserted
    index,     \* raw_archive_index: [store, body, published], or Nil
    topic,     \* contents published on TopicRaw
    task,      \* task[a]: what actor a is doing: [pc, id, msg, tier]
    replies,   \* replies[i]: bodies for which IngestRaw returned no error
    troubles   \* failures left

dvars == <<reserved, pg, ch, index>>
vars == <<dvars, topic, task, replies, troubles>>

Idle == [pc |-> "idle", id |-> Nil, msg |-> Nil, tier |-> Nil]

\* Advance actor a to pc with message m; the trouble budget is untouched.
Goto(a, pc, m) ==
    /\ task' = [task EXCEPT ![a].pc = pc, ![a].msg = m]
    /\ UNCHANGED troubles

At(a, pc) == task[a].pc = pc
Id(a) == task[a].id
Msg(a) == task[a].msg

\* The call of actor a returns.  A retry loop goes on with its next entry.
Return(a) == task' = [task EXCEPT ![a] = Idle] /\ UNCHANGED troubles

ReturnOk(a) ==
    /\ Return(a)
    /\ replies' = IF a \in Callers
                  THEN [replies EXCEPT ![Id(a)] = @ \cup {Msg(a).body}] ELSE replies

Trouble == troubles > 0 /\ troubles' = troubles - 1

\* The step of actor a failed: its error goes to whoever called it.
Fails(a) ==
    /\ Trouble
    /\ task' = [task EXCEPT ![a] = Idle]
    /\ UNCHANGED <<dvars, topic, replies>>

(***************************************************************************)
(* IngestRaw.                                                              *)
(***************************************************************************)
\* A message arrives; an unversioned one takes the product's binding of the
\* moment, so the metadata of two receptions of one message may differ.
Receive(a, i, m) ==
    /\ At(a, "idle")
    /\ task' = [task EXCEPT ![a] = [Idle EXCEPT !.pc = "lookup", !.id = i, !.msg = m]]
    /\ UNCHANGED <<dvars, topic, replies, troubles>>

\* Faulty variants, named Bad*, are bugs the properties below must detect.
BadConflicts(a) == FALSE

Conflicts(a) == index[Id(a)].body # Msg(a).body

\* GetRawIndex.  Any error, not only "not found", goes on to the reservation.
Lookup(a) ==
    /\ At(a, "lookup")
    /\ \/ /\ index[Id(a)] = Nil
          /\ Goto(a, "reserve", Msg(a))
          /\ UNCHANGED replies
       \/ /\ index[Id(a)] # Nil
          /\ \/ Conflicts(a) /\ Return(a) /\ UNCHANGED replies
             \/ ~Conflicts(a) /\ index[Id(a)].published /\ ReturnOk(a)
             \/ /\ ~Conflicts(a)
                /\ ~index[Id(a)].published
                /\ Goto(a, "readback", Msg(a))
                /\ UNCHANGED replies
       \/ /\ Trouble
          /\ task' = [task EXCEPT ![a].pc = "reserve"]
          /\ UNCHANGED replies
    /\ UNCHANGED <<dvars, topic>>

\* A reservation taken for proof that the message was stored.
BadReserveSkips(a) ==
    /\ At(a, "reserve")
    /\ \/ /\ reserved[Id(a)] = Nil
          /\ reserved' = [reserved EXCEPT ![Id(a)] = Msg(a)]
          /\ Goto(a, "store", Msg(a))
       \/ /\ reserved[Id(a)] # Nil
          /\ reserved[Id(a)].body = Msg(a).body
          /\ Goto(a, "index", reserved[Id(a)])
          /\ UNCHANGED reserved
    /\ UNCHANGED <<pg, ch, index, topic, replies>>

\* The loser of the reservation goes on with its own metadata.
BadReserveOwn(a) ==
    /\ At(a, "reserve")
    /\ reserved[Id(a)] # Nil => reserved[Id(a)].body = Msg(a).body
    /\ reserved' = [reserved EXCEPT ![Id(a)] = IF @ = Nil THEN Msg(a) ELSE @]
    /\ Goto(a, "store", Msg(a))
    /\ UNCHANGED <<pg, ch, index, topic, replies>>

\* The last reservation wins.
BadReserveLast(a) ==
    /\ At(a, "reserve")
    /\ reserved[Id(a)] # Nil => reserved[Id(a)].body = Msg(a).body
    /\ reserved' = [reserved EXCEPT ![Id(a)] = Msg(a)]
    /\ Goto(a, "store", Msg(a))
    /\ UNCHANGED <<pg, ch, index, topic, replies>>

\* ReserveRawMessage: the first metadata becomes canonical.
Reserve(a) ==
    /\ At(a, "reserve")
    /\ \/ /\ reserved[Id(a)] = Nil
          /\ reserved' = [reserved EXCEPT ![Id(a)] = Msg(a)]
          /\ Goto(a, "store", Msg(a))
       \/ /\ reserved[Id(a)] # Nil
          /\ reserved[Id(a)].body = Msg(a).body
          /\ Goto(a, "store", reserved[Id(a)])
          /\ UNCHANGED reserved
       \/ /\ reserved[Id(a)] # Nil
          /\ reserved[Id(a)].body # Msg(a).body
          /\ Return(a)
          /\ UNCHANGED reserved
    /\ UNCHANGED <<pg, ch, index, topic, replies>>

\* PutRaw.  The tier depends on the reporting interval observed by this
\* process, so two attempts may choose differently.  PostgreSQL keeps the first
\* row and refuses another body (the call fails), ClickHouse keeps every row.
PutRaw(a) ==
    /\ At(a, "store")
    /\ \E s \in Store :
          /\ task' = [task EXCEPT ![a].pc = "index", ![a].tier = s]
          /\ \/ /\ s = "clickhouse"
                /\ ch' = [ch EXCEPT ![Id(a)] = @ \cup {Msg(a)}]
                /\ UNCHANGED pg
             \/ /\ s = "postgres"
                /\ pg[Id(a)] # Nil => pg[Id(a)].body = Msg(a).body
                /\ pg' = [pg EXCEPT ![Id(a)] = IF @ = Nil THEN Msg(a) ELSE @]
                /\ UNCHANGED ch
    /\ UNCHANGED <<reserved, index, topic, replies, troubles>>

\* SaveRawIndex.  The loser of a race publishes nothing.
SaveIndex(a) ==
    /\ At(a, "index")
    /\ \/ /\ index[Id(a)] = Nil
          /\ index' = [index EXCEPT ![Id(a)] =
                [store |-> task[a].tier, body |-> Msg(a).body, published |-> FALSE]]
          /\ Goto(a, "publish", Msg(a))
       \/ /\ index[Id(a)] # Nil
          /\ Goto(a, "reread", Msg(a))
          /\ UNCHANGED index
    /\ UNCHANGED <<reserved, pg, ch, topic, replies>>

Reread(a) ==
    /\ At(a, "reread")
    /\ IF Conflicts(a) THEN Return(a) /\ UNCHANGED replies ELSE ReturnOk(a)
    /\ UNCHANGED <<dvars, topic>>

(***************************************************************************)
(* publishArchivedRaw, and the retry loop that shares it.                  *)
(***************************************************************************)
Stored(i, s, m) ==
    \/ s = "postgres" /\ pg[i] = m
    \/ s = "clickhouse" /\ m \in ch[i]

BadReadable(i, m) == Stored(i, "postgres", m)

\* GetRaw on the tier the index names.
Readable(i, m) == Stored(i, index[i].store, m)

ReadBack(a) ==
    /\ At(a, "readback")
    /\ \E m \in Message : Readable(Id(a), m) /\ Goto(a, "publish", m)
    /\ UNCHANGED <<dvars, topic, replies>>

BadMarkRawPublished(i, failed) == index' = [index EXCEPT ![i].published = ~failed]

\* MarkRawPublished: an attempt that failed leaves published_at alone.
MarkRawPublished(i, failed) ==
    index' = [index EXCEPT ![i].published = IF failed THEN @ ELSE TRUE]

\* Bus.Publish.  An error does not tell whether the message got through.
Publish(a) ==
    /\ At(a, "publish")
    /\ topic' = [topic EXCEPT ![Id(a)] = @ \cup {Msg(a)}]
    /\ \/ Goto(a, "mark", Msg(a)) /\ UNCHANGED index
       \/ /\ Trouble
          /\ task' = [task EXCEPT ![a] = Idle]
          /\ MarkRawPublished(Id(a), TRUE)
    /\ UNCHANGED <<reserved, pg, ch, replies>>

Mark(a) ==
    /\ At(a, "mark")
    /\ MarkRawPublished(Id(a), FALSE)
    /\ ReturnOk(a)
    /\ UNCHANGED <<reserved, pg, ch, topic>>

\* retryPendingRaw takes an entry from its list of unpublished indexes.
RetryPending(a, i) ==
    /\ At(a, "idle")
    /\ index[i] # Nil
    /\ ~index[i].published
    /\ task' = [task EXCEPT ![a] = [Idle EXCEPT !.pc = "readback", !.id = i]]
    /\ UNCHANGED <<dvars, topic, replies, troubles>>

\* An error of any of the calls above, or the death of the process.
Abandon(a) == ~At(a, "idle") /\ Fails(a)

Init ==
    /\ reserved = [i \in Ids |-> Nil]
    /\ pg = [i \in Ids |-> Nil]
    /\ ch = [i \in Ids |-> {}]
    /\ index = [i \in Ids |-> Nil]
    /\ topic = [i \in Ids |-> {}]
    /\ task = [a \in Actors |-> Idle]
    /\ replies = [i \in Ids |-> {}]
    /\ troubles = MaxTroubles

Step(a) ==
    \/ Lookup(a) \/ Reserve(a) \/ PutRaw(a) \/ SaveIndex(a) \/ Reread(a)
    \/ ReadBack(a) \/ Publish(a) \/ Mark(a)

Next ==
    \/ \E a \in Callers, i \in Ids, m \in Message : Receive(a, i, m)
    \/ \E a \in Retriers, i \in Ids : RetryPending(a, i)
    \/ \E a \in Actors : Step(a) \/ Abandon(a)

Safety == Init /\ [][Next]_vars

\* Calls that were made return (their contexts have deadlines), and the retry
\* loop of some process keeps ticking.  New messages need not arrive.
Fairness ==
    /\ \A a \in Actors : WF_vars(Step(a))
    /\ \A a \in Retriers : WF_vars(\E i \in Ids : RetryPending(a, i))

Spec == Safety /\ Fairness

-----------------------------------------------------------------------------
DataTypeOK ==
    /\ reserved \in [Ids -> Message \cup {Nil}]
    /\ pg \in [Ids -> Message \cup {Nil}]
    /\ ch \in [Ids -> SUBSET Message]
    /\ index \in [Ids -> IndexRow \cup {Nil}]
    /\ topic \in [Ids -> SUBSET Message]

\* The shape of the state; every index row names the tier its message went to.
TypeOK ==
    /\ DataTypeOK
    /\ task \in [Actors -> [pc : {"idle", "lookup", "reserve", "store", "index",
                                  "reread", "readback", "publish", "mark"},
                            id : Ids \cup {Nil}, msg : Message \cup {Nil},
                            tier : Store \cup {Nil}]]
    /\ replies \in [Ids -> SUBSET Bodies]

\* Whatever the interleaving of receptions with different metadata, tiers,
\* failures and retries, every copy sent to the parsers under one identity is
\* the same message, the one that was reserved first.
OneMeaning == \A i \in Ids : topic[i] \subseteq {reserved[i]}

\* IngestRaw returned no error for a body: the index has it, and the tier the
\* index names returns that body.
RepliesAreArchived ==
    \A i \in Ids : \A b \in replies[i] :
        /\ index[i] # Nil
        /\ index[i].body = b
        /\ \E m \in Message : m.body = b /\ Readable(i, m)

\* A published message stays published, in the tier and with the body it was
\* archived with, whatever a concurrent failing publication records.
PublishedSticks ==
    [][\A i \in Ids : index[i] # Nil =>
          /\ index'[i] # Nil
          /\ index'[i].store = index[i].store /\ index'[i].body = index[i].body
          /\ index[i].published => index'[i].published]_vars

\* Raw ingestion implements the archive that emits what it archived.
Archived == INSTANCE RawArchive WITH
    Messages <- Message,
    archive <- [i \in Ids |-> IF index[i] = Nil THEN Nil ELSE reserved[i]],
    emitted <- topic

RefinesArchive == Archived!ASpec

\* Everything archived is eventually published and marked so, even if the
\* process that archived it died or its publication failed.
ArchivedIsPublished == \A i \in Ids : index[i] # Nil ~> (index[i] # Nil /\ index[i].published)

\* Callers and consumers are told the truth: one meaning for an identity, and a
\* success only for what is archived and readable.
AnswersAreHonest == TypeOK /\ OneMeaning /\ RepliesAreArchived

\* Publication happens in the end, and once recorded it stays so.
PublicationIsSettled == PublishedSticks /\ ArchivedIsPublished

=============================================================================
