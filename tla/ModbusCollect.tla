---------------------------- MODULE ModbusCollect ----------------------------
(***************************************************************************)
(* The active collection of Modbus devices: the scan that starts at most   *)
(* one collection per access profile, the limit on concurrent reads, the   *)
(* reference-counted lock of a physical endpoint, the retries on a new     *)
(* connection, and the status written back to a profile that may have been *)
(* edited meanwhile. Connection tests read through the same code.          *)
(***************************************************************************)
EXTENDS Naturals, Sequences, FiniteSets

CONSTANTS
    Profiles,           \* access profiles collected by this process
    Probes,             \* connection tests from the console
    EndpointOf,         \* the TCP endpoint of each of them
    MaxReads,           \* 32 in the code: running collections, and reads in progress
    Tries,              \* profile.Retries + 1
    NBlocks,            \* read blocks of the protocol release
    MaxEdits,           \* bound: edits of a profile
    Nobody

Readers == Profiles \cup Probes

ASSUME CollectAssumption ==
    /\ IsFiniteSet(Readers) /\ Profiles \cap Probes = {} /\ Nobody \notin Readers
    /\ {MaxReads, Tries, NBlocks} \subseteq Nat \ {0}

BusIds == 1 .. Cardinality(Readers)      \* heap objects of type modbusBus

VARIABLES
    running,        \* Runtime.running
    edits,          \* the stored configuration of a profile: its version, and Enabled
    listed, copy,   \* the one the scan has listed, the one its collection works with
    observed,       \* the status in the row, and the configuration it was observed under
    job,            \* job[j]: at, block, try
    answers,           \* answers[j]: answers under way on j's connection
    got,            \* got[j]: the answers accepted, by block
    entry, refs, token, ref     \* modbusBuses.entries, refs and token of a bus, bus used by j

collection == <<running, edits, listed, copy, observed>>
bus == <<entry, refs, token, ref>>
mvars == <<collection, job, answers, got, bus>>

JobIdle == [at |-> "idle", block |-> 1, try |-> 1]
Reading == {j \in Readers : job[j].at \in {"bus", "send", "wait"}}

CollectInit ==
    /\ running = {}
    /\ edits = [p \in Profiles |-> [n |-> 0, on |-> TRUE]] /\ listed = edits /\ copy = edits
    /\ observed = [p \in Profiles |-> [of |-> edits[p], status |-> "pending"]]
    /\ job = [j \in Readers |-> JobIdle]
    /\ answers = [j \in Readers |-> <<>>] /\ got = [j \in Readers |-> <<>>]
    /\ entry = [e \in {EndpointOf[j] : j \in Readers} |-> 0]
    /\ refs = [o \in BusIds |-> 0] /\ token = [o \in BusIds |-> Nobody]
    /\ ref = [j \in Readers |-> 0]

\* The console saves a profile, enabled or not: the whole row, its status included.
BadEditProfile(p) ==
    /\ edits[p].n < MaxEdits
    /\ \E on \in BOOLEAN : edits' = [edits EXCEPT ![p] = [n |-> @.n + 1, on |-> on]]
    /\ UNCHANGED <<running, listed, copy, observed, job, answers, got, bus>>
EditProfile(p) ==
    /\ edits[p].n < MaxEdits
    /\ \E on \in BOOLEAN :
          LET v == [n |-> edits[p].n + 1, on |-> on]
          IN /\ edits' = [edits EXCEPT ![p] = v]
             /\ observed' = [observed EXCEPT ![p] =
                                [of |-> v, status |-> IF on THEN "pending" ELSE "disabled"]]
    /\ UNCHANGED <<running, listed, copy, job, answers, got, bus>>

\* UpdateDeviceAccessStatus: only the status fields, and only if the rest of the row
\* is still what the collection read.
BadUpdateDeviceAccessStatus(p, of, status) ==
    /\ edits' = [edits EXCEPT ![p] = of]
    /\ observed' = [observed EXCEPT ![p] = [of |-> of, status |-> status]]
WorseUpdateDeviceAccessStatus(p, of, status) ==
    /\ UNCHANGED edits
    /\ observed' = [observed EXCEPT ![p] = [of |-> of, status |-> status]]
UpdateDeviceAccessStatus(p, of, status) ==
    /\ UNCHANGED edits
    /\ observed' = IF edits[p] = of
                   THEN [observed EXCEPT ![p] = [of |-> of, status |-> status]]
                   ELSE observed

\* A scan reads all the profiles, then goes through them one by one.
ListProfiles ==
    /\ listed' = edits
    /\ UNCHANGED <<running, edits, copy, observed, job, answers, got, bus>>

\* One iteration of the scan, whenever the interval of a block has elapsed; the blocks
\* that are due count as read from now on.
Scan(p) ==
    /\ listed[p].on
    /\ p \notin running /\ Cardinality(running) < MaxReads
    /\ running' = running \cup {p}
    /\ copy' = [copy EXCEPT ![p] = listed[p]]
    /\ job' = [job EXCEPT ![p] = [JobIdle EXCEPT !.at = "slot"]]
    /\ UNCHANGED <<edits, listed, observed, answers, got, bus>>
\* The blocks of the release cannot be read; a collection may be running all the same.
ScanFails(p) ==
    /\ listed[p].on
    /\ UpdateDeviceAccessStatus(p, listed[p], "error")
    /\ UNCHANGED <<running, listed, copy, job, answers, got, bus>>
StartProbe(j) ==
    /\ j \in Probes /\ job[j].at = "idle"
    /\ job' = [job EXCEPT ![j].at = "slot"]
    /\ UNCHANGED <<collection, answers, got, bus>>

\* lockModbusBus, first part: the entry of the endpoint is found or created.
RegisterBus(j) ==
    LET e == EndpointOf[j]
        free == {o \in BusIds : (\A f \in DOMAIN entry : entry[f] # o)
                                /\ (\A i \in Readers : ref[i] # o)}
        o == IF entry[e] # 0 THEN entry[e] ELSE CHOOSE f \in free : TRUE
    IN /\ entry' = [entry EXCEPT ![e] = o]
       /\ refs' = [refs EXCEPT ![o] = @ + 1]
       /\ ref' = [ref EXCEPT ![j] = o]
       /\ token' = IF entry[e] # 0 THEN token ELSE [token EXCEPT ![o] = Nobody]

TakeSlot(j) ==
    /\ job[j].at = "slot" /\ Cardinality(Reading) < MaxReads
    /\ job' = [job EXCEPT ![j].at = "bus"] /\ RegisterBus(j)
    /\ UNCHANGED <<collection, answers, got>>
\* A read never waits for a slot; the profile may also be invalid, or its target not
\* resolve or not be allowed, which is found out after the slot is taken.
ReadRefused(j) ==
    /\ job[j].at = "slot"
    /\ job' = [job EXCEPT ![j].at = "error"]
    /\ UNCHANGED <<collection, answers, got, bus>>
LockBus(j) ==
    /\ job[j].at = "bus" /\ token[ref[j]] = Nobody
    /\ token' = [token EXCEPT ![ref[j]] = j]
    /\ job' = [job EXCEPT ![j].at = "send"]
    /\ UNCHANGED <<collection, answers, got, entry, refs, ref>>

\* releaseRef, and before it the token if this reader holds it.
BadUnlock(j) ==
    /\ token' = [token EXCEPT ![ref[j]] = IF @ = j THEN Nobody ELSE @]
    /\ refs' = [refs EXCEPT ![ref[j]] = @ - 1]
    /\ entry' = [entry EXCEPT ![EndpointOf[j]] = 0]
    /\ ref' = [ref EXCEPT ![j] = 0]
WorseUnlock(j) ==
    /\ UNCHANGED token
    /\ refs' = [refs EXCEPT ![ref[j]] = @ - 1]
    /\ entry' = [entry EXCEPT ![EndpointOf[j]] = IF refs[ref[j]] = 1 THEN 0 ELSE @]
    /\ ref' = [ref EXCEPT ![j] = 0]
Unlock(j) ==
    /\ token' = [token EXCEPT ![ref[j]] = IF @ = j THEN Nobody ELSE @]
    /\ refs' = [refs EXCEPT ![ref[j]] = @ - 1]
    /\ entry' = [entry EXCEPT ![EndpointOf[j]] = IF refs[ref[j]] = 1 THEN 0 ELSE @]
    /\ ref' = [ref EXCEPT ![j] = 0]

\* The request of a block goes out on the connection, a new one if need be.
SendRequest(j) ==
    /\ job[j].at = "send"
    /\ answers' = [answers EXCEPT ![j] = Append(@, job[j].block)]
    /\ job' = [job EXCEPT ![j].at = "wait"]
    /\ UNCHANGED <<collection, got, bus>>

\* The block is not a valid request, or the connection is refused on the last attempt.
ConnectFails(j) ==
    /\ job[j].at = "send"
    /\ answers' = [answers EXCEPT ![j] = <<>>]
    /\ job' = [job EXCEPT ![j].at = "error"] /\ Unlock(j)
    /\ UNCHANGED <<collection, got>>

\* readRTUResponse and validateReadByteCount: an RTU answer names its unit and its
\* function, not its request; any answer of the right size is taken.
ReadResponse(j) ==
    /\ job[j].at = "wait" /\ answers[j] # <<>>
    /\ got' = [got EXCEPT ![j] = Append(@, Head(answers[j]))]
    /\ answers' = [answers EXCEPT ![j] = IF job[j].block = NBlocks THEN <<>> ELSE Tail(@)]
    /\ job' = [job EXCEPT ![j] = IF @.block = NBlocks
                                 THEN [at |-> IF j \in Probes THEN "online" ELSE "ingest",
                                       block |-> 1, try |-> 1]
                                 ELSE [at |-> "send", block |-> @.block + 1, try |-> 1]]
    /\ IF job[j].block = NBlocks THEN Unlock(j) ELSE UNCHANGED bus
    /\ UNCHANGED collection

\* A timeout, an exception answer or a broken frame: the connection is closed, and
\* with it goes an answer that is still under way; the last attempt ends the read.
BadReadFails(j) ==
    /\ job[j].at = "wait" /\ job[j].try < Tries
    /\ job' = [job EXCEPT ![j].at = "send", ![j].try = @ + 1]
    /\ UNCHANGED <<collection, answers, got, bus>>
ReadFails(j) ==
    /\ job[j].at = "wait"
    /\ answers' = [answers EXCEPT ![j] = <<>>]
    /\ IF job[j].try < Tries
       THEN job' = [job EXCEPT ![j].at = "send", ![j].try = @ + 1] /\ UNCHANGED bus
       ELSE job' = [job EXCEPT ![j].at = "error"] /\ Unlock(j)
    /\ UNCHANGED <<collection, got>>

\* The lease is lost or the console gives up: the context ends, wherever the read is.
Cancel(j) ==
    /\ job[j].at \in {"bus", "send", "wait"}
    /\ answers' = [answers EXCEPT ![j] = <<>>]
    /\ job' = [job EXCEPT ![j].at = "error"] /\ Unlock(j)
    /\ UNCHANGED <<collection, got>>

\* Validate and ingest, one message after the other; a failure drops the rest.
Ingest(j) ==
    /\ job[j].at = "ingest"
    /\ job' = IF job[j].block < NBlocks THEN [job EXCEPT ![j].block = @ + 1]
                                        ELSE [job EXCEPT ![j].at = "online"]
    /\ UNCHANGED <<collection, answers, got, bus>>
IngestFails(j) ==
    /\ job[j].at = "ingest" /\ job' = [job EXCEPT ![j].at = "error"]
    /\ UNCHANGED <<collection, answers, got, bus>>

\* The status is saved and the deferred delete makes room for the next collection.
EndCollect(j) ==
    /\ job[j].at \in {"online", "error"}
    /\ job' = [job EXCEPT ![j] = JobIdle]
    /\ IF j \in Probes THEN UNCHANGED collection
       ELSE /\ UpdateDeviceAccessStatus(j, copy[j], job[j].at)
            /\ running' = running \ {j}
            /\ UNCHANGED <<listed, copy>>
    /\ got' = [got EXCEPT ![j] = <<>>]
    /\ UNCHANGED <<answers, bus>>

ReadStep(j) ==
    TakeSlot(j) \/ ReadRefused(j) \/ SendRequest(j) \/ ConnectFails(j) \/ ReadResponse(j)
    \/ ReadFails(j) \/ Ingest(j) \/ IngestFails(j) \/ EndCollect(j)
CollectNext ==
    \/ \E p \in Profiles : EditProfile(p) \/ Scan(p) \/ ScanFails(p)
    \/ ListProfiles
    \/ \E j \in Readers : StartProbe(j) \/ LockBus(j) \/ Cancel(j) \/ ReadStep(j)

CollectSpec == CollectInit /\ [][CollectNext]_mvars

\* Deadlines bound every read and write; a channel serves its waiting senders in order.
CollectFairness ==
    \A j \in Readers : WF_mvars(ReadStep(j)) /\ SF_mvars(LockBus(j))

-----------------------------------------------------------------------------
\* rtu_tcp.go: one transaction sequence per physical TCP endpoint, although the entry
\* of an endpoint is deleted and created again while others wait for it.
OneSequencePerEndpoint ==
    \A i, j \in Readers :
        i # j /\ EndpointOf[i] = EndpointOf[j]
        => ~(job[i].at \in {"send", "wait"} /\ job[j].at \in {"send", "wait"})

\* The answer recorded for a block is the answer to the request of that block, although
\* an RTU answer does not name its request and answers may come after the timeout.
AnswerOfItsBlock == \A j \in Readers : \A b \in 1 .. Len(got[j]) : got[j][b] = b

\* The status of a collection never undoes an edit made while it ran; and a profile that
\* shows the outcome of a collection is enabled and still configured as that collection
\* found it, however old the scan's list and however late the end of the collection.
EditIsKept ==
    /\ [][\A p \in Profiles : edits'[p].n >= edits[p].n]_mvars
    /\ [](\A p \in Profiles : observed[p].status \in {"online", "error"}
                              => observed[p].of = edits[p] /\ edits[p].on)

\* A collection ends, whoever else uses its endpoint, and can be started again.
CollectionEnds == \A p \in Profiles : p \in running ~> p \notin running

\* A collection leaves the administrator's edits alone, shows no outcome of another
\* configuration (UpdateDeviceAccessStatus and the save of the console) and ends (the read
\* slots and the lock of the endpoint are given back).
CollectionIsSound == EditIsKept /\ CollectionEnds

=============================================================================
