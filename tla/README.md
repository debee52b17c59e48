# Verification of the IoT platform

TLA+ models of the core of the platform, checked with TLC on small instances and, for the
properties that matter most, proved with TLAPS for every value of the constants.
`PROJECT.json` lists the components, runs, theorems and hazards, and maps each definition to the
source lines it models. Paths below are relative to `src/`.

## 1. The system

Devices reach the platform over MQTT, HTTP, or through protocol listeners (TCP, UDP, Modbus).
Frames are archived as *raw messages*, published on an event bus, parsed into *standard messages*,
and turned into device states and alarms. Several processes may run side by side over one
PostgreSQL database; ClickHouse is a second tier for raw messages; Kafka (or an in-process bus)
carries events.

| Component | State | Operations | Interaction | Hard behaviour |
|---|---|---|---|---|
| `internal/durablequeue` | directory of entries (`.json`, `.rejected`, `.corrupt`), byte count, file lock | OpenQueue, Close, Put, PutReceived, Next, Ack, Reject, RetryRejected | used by the MQTT inbox | crash between rename and flush, accounting, damaged entries |
| `internal/adapters/mqtt` | one queue and worker per shard, routes, `reconnecting` flag | receive, worker loop, retryConnection, register, Close | broker calls receive; the worker calls the engine | redelivery, acknowledgement versus durability, lost wake-ups |
| `internal/core` raw ingestion | ingest locks, `raw_reservation`, raw tiers, `raw_archive_index` | IngestRaw, publishArchivedRaw, retryPendingRaw | called by MQTT, HTTP and listeners; publishes on the bus | concurrent processes, binding changes, failure between any two steps |
| `internal/core` component alarms | `component_alarm_state`, `alarm_record`, `standard_message` | applyComponentAlarms, ApplyComponentAlarm, SetAlarmStatus | bus handlers and operators | late, repeated, concurrent reports; commit before publication |
| `internal/core` device state | `device_state`, stripe locks | touchState, syncDeviceBusinessStatus, UpdateDeviceState, ReportConnection, ScanOffline | bus handlers, listeners, HTTP, a timer | whole-row writes of stale copies |
| `internal/core` rules and direct alarms | `alarm_rule`, `alarm_rule_pending`, `alarm_record` | handleStandard, raiseRuleAlarm, recoverRuleAlarm, DeleteRule, DisableRule, SetAlarmStatus | bus handlers and operators | deletion during handling, duration windows, retried messages |
| `internal/core` video alarms | `video_event`, `alarm_record`, media archive | IngestVideo, fuseVideoAlarm, processVideoMedia, retryPendingVideoMedia | HTTP, MQTT, media hosts | repeated events, stale alarm copies, media that fail |
| `internal/core` parse stage and replay | parse verdict in the raw index, `replay` | handleRaw, runReplay | bus, archive | redelivery, paging while rows arrive |
| `internal/core`, `internal/httpapi` AI jobs | job table, cached report, `ai_analysis` | start, run, expire | operators, model service | one run per key, results that get lost |
| `internal/core` point tables | points, read blocks | import, compile | Modbus collection | limits, gaps, wide points |
| `internal/protocolruntime` lease | `execution_lease` row, held sessions with timers | Claim, Run, Validate | listeners and pollers run under the session | clocks, late answers, takeover |
| `internal/protocolruntime` listeners | hosts, sessions, pending commands | reconcile, accept, frame handling, commands, close | engine, protocol workers, lease | session takeover, late replies, rebinding |
| `internal/protocolruntime` Modbus | running profiles, endpoint locks, read slots | scan, read, ingest, test | engine, lease, administrators | shared endpoints, late answers, edits |
| event bus (`adapters/kafka`, `adapters/local`) | offsets, dead-letter topics | Publish, Subscribe | between all engine stages | attempts, commit order |
| repositories | tables, telemetry, cache | statements | all of the above | transactions, unique indexes, layers that fail apart |
| parsers, frame formats | none | encode, decode | engine, listeners, gateway | damage, lengths, widths |
| protocol workers and build | worker processes, compiler slot, directories | run, build | engine, listeners, HTTP | output limits, time limits, clean-up |
| protocol releases, catalogue, market | release rows and files, market rows | upload, publish, install, submit, review, distribute | HTTP, remote catalogue | two uploads, failed clean-up, two reviewers |
| product bindings, onboarding | products, bindings, access profiles, devices | plan, test, create, bind, roll back, save | HTTP, listeners | repeated requests, crossing edits, ports |
| devices, children, credentials, commands | `device_registry`, revocations, `device_command` | register, edit, rotate, revoke, send, reply | listeners, broker, operators | stale rows, tokens in flight, retries |
| request routing | lease row | look up, forward | access processes | a lease that moves |
| AI settings and chat | direct client, sidecar, row | update, roll back, retry, stream | sidecar, browser | partial failure, order of updates |
| backup | tasks, objects, timer | run, verify | database, object store | deaths, damage, a day's limits |
| GB/T 26875 gateway | links, waiting calls | forward, confirm, synchronise | devices, platform API | confirmation versus acceptance, sequence numbers |
| document conversion, presentation, clients of external services, configuration, tools, front end | none of their own | — | — | — |

What makes each component correct:

- *queue*: an accepted entry survives power loss, under exactly one name, within the limits;
- *inbox*: what was acknowledged to the broker is on disk or handled, and is eventually handled;
  what was refused is eventually delivered again;
- *raw ingestion*: an identity has one meaning for ever; a successful answer means archived and
  readable; what is archived is eventually published;
- *component alarms*: the outcome depends on the set of reports, not on their order; alarms agree
  with it; transitions are announced;
- *device state*: late messages do not move the row back; silence is found; the business status
  follows the open alarms;
- *lease*: at most one process executes a profile, and a takeover fences the former owner;
- *rule alarms*: no report is discarded, a duration is an unbroken run of matches, a deletion leaves
  nothing open that was open, what has ended stays ended, as far as stale copies and shifted pages
  allow;
- *bus*: nothing is committed that was neither handled nor dead-lettered;
- *video*: events are counted once, media are stored in the end;
- *listeners*: connections are projected as they are, replies answer their own command, nothing
  survives a stop;
- *credentials, commands*: what is replaced is cut off; a command is sent at most once, and its
  first reply decides;
- *releases, onboarding, registry*: files and rows agree; one device, one secret; registrations fit
  what is stored when they commit;
- *frame formats*: what is built reads back, what is damaged is refused;
- *the other components*: the properties of section 3.

## 2. Modules

| Module | Models |
|---|---|
| `DurableQueue` | the queue over a disk whose unflushed renames may be lost |
| `MqttInbox` (extends `DurableQueue`) | broker, connection, one shard's worker, process life cycle |
| `RawArchive` | abstract: an identity is archived once, and only what is archived is emitted |
| `RawIngest` | IngestRaw and the retry loop; implements `RawArchive` |
| `ComponentAlarm` | component path of handleStandard, the operator's SetAlarmStatus and the write-back of fuseVideoAlarm |
| `ExecutionLease` | Coordinator in each process over the lease row |
| `DeviceState` | the writers of one device_state row |
| `EventBus` | readers of the Kafka bus: attempts, dead letters, commits, restarts |
| `AlarmTable` | the alarm rows of a device and the statements on them |
| `AlarmRules` (extends `EventBus`, `AlarmTable`) | handleStandard for rule and direct alarms, edits of rules, operators, the write-back of fuseVideoAlarm |
| `VideoAlarm` (extends `AlarmTable`) | video events, fusion, media |
| `RawReplay` | handleRaw and runReplay |
| `ListenerSession` | a listener, its sessions, frames and commands |
| `ModbusCollect` | scan, endpoint locks, reads, status |
| `PointTable` | import of point tables, grouping into read blocks |
| `WireCodecs` | GB/T 26875, Modbus and fixed-offset frames |
| `WorkerRuntime` | calls of protocol workers, builds |
| `ProtocolRelease` | uploads, files and rows of a version, catalogue, market |
| `ProductAccess` | bindings, access profiles, onboarding |
| `StandardIngress` | rate limit of the standard ingress |
| `DeviceRegistry` | main devices, children, profiles |
| `DeviceCredential` | rotation and revocation of credentials |
| `DeviceCommand` | commands of standard devices |
| `RequestRoute` | forwarding of a request to the owner of a profile |
| `StoreLayers` | postgres, ClickHouse and Redis under one standard message |
| `AiProvider` | AI settings in three places, chat streams, policy of a run |
| `AiJobs` | background analyses and health inspections |
| `BackupService` | daily and manual backups, drills |
| `GbGateway` | the stand-alone GB/T 26875 gateway |
| `ControlProperties` | what the components around devices promise together: `DevicesAreControlled`, `LimitsHold`, `RegistrationsFit` |
| `WorkProperties` | what the work in the background promises together: `WorkIsSound` |
| `QueueProofs` | theorems about `DurableQueue` and `MqttInbox` |
| `RawIngestProofs`, `ComponentAlarmProofs`, `ExecutionLeaseProofs`, `AlarmRulesProofs` | theorems about the module they extend |
| `ServiceProofs` | theorems about `StoreLayers`, `AiProvider`, `ProtocolRelease`, `BackupService` |
| `DeviceProofs` | theorems about the components of `ControlProperties`, `GbGateway`, `ListenerSession` |
| `WorkProofs` | theorems about the components of `WorkProperties`: `DeviceState`, `AiJobs`, `RawReplay`, `VideoAlarm`, `ModbusCollect` |
| `MC*` | values and symmetry sets for TLC; `RawIngest` and `ExecutionLease` are run as they are |

Definitions named `Bad*` are faulty variants of the definition that follows them, used to confirm
that the properties detect such bugs; no specification uses them.

**DurableQueue.** `dir[i][suffix]` is what the process sees, `images[i]` the set of directory
states that a power loss may leave. A flush makes `images` a singleton; a rename whose flush fails
adds to it. `put` is split by its outcomes (quarantined, conflict, again, full, written,
unflushed); each exported method is one action, since every method holds `q.mu` throughout.
The total length of the files, which OpenQueue sums up, is the number of elements of `FileBytes`.
Contents are abstract; `Damaged` stands for bytes that do not parse or do not match the name.

**MqttInbox.** Paho calls `receive` for one delivery at a time; the worker interleaves with it and
the queue methods are atomic. `receipt[i]` is a history variable: acknowledged and not handled
since. `missed` records refusals whose `retryConnection` found the flag set. Crashes, power
losses, damage, lost links and failing handlers are bounded by `MaxTroubles`.

**RawIngest.** One action per repository, store or bus call of `IngestRaw`, so that callers in
different processes interleave between any two of them, and any call may fail (`Abandon`, `Fails`).
The ingest lock of one process is dropped, which allows more behaviours than the code has.
A message is a body (what the hash covers) and metadata (binding and reception data that may
differ between attempts).

**ComponentAlarm.** `ApplyComponentAlarm` is one step because it is one transaction holding the
watermark row. Publication, marking, and the read and write of an operator or of a video event
(`FuseVideoAlarm`, which writes an ACTIVE copy back without a condition) are separate steps.
`applied` is a history variable, and so is `reopened`: the alarms that such a late write opened
again after they had ended. `Duplicate` is the unique index on open alarms.

**ExecutionLease.** Time is a global counter. A database call is three steps (sent, executed,
answered), and timers fire in between. `Coordinator.mu` is held across calls, hence one call at a
time per process. `Validate` is four steps, as it is four waits in the code: the context, the token
under `mu`, the lease row, the profile; each may be late, and the archive (`Ingest`) later still.

**DeviceState.** Every writer reads, changes its copy and writes the whole row; the stripe lock is
per process and covers the parts the code covers.

**AlarmRules on EventBus.** `EventBus` leaves a handler open: `Handled` and `Failed` are its
outcomes. A reader whose fetch fails has *ended*: its goroutine returns, and only a restart of the
process subscribes again. `AlarmRules` puts the calls of `handleStandard` between the two outcomes,
one step per repository call, each of which may fail; the reader then tries again, gives up or dies,
and the message comes back. Reading the window of a duration and saving one are two calls, so a
failed match may come in between. Closing a rule's alarms pages with OFFSET through the alarms of
every source in the order of `last_triggered_at` (`order`), which triggers and stale copies change
while it runs. A video event that marks an alarm holds an ACTIVE copy like an operator's request
does. A rule's conditions are the sets of messages it matches. History variables: `covered`, the
reports an alarm took up; `broken`, the last time a message failed the rule; `crossed`, the rules
this happened to while a window was about to be saved; `late[o]` and `shifted[o]`, the alarms that
became ACTIVE since operator `o` began a deletion, and the listings others have shifted under its
pages.

**ListenerSession.** A frame is handled under the session's lock in several steps (`fstep`), between
which other sessions, `Command` and `close` run. The protocol package may give every command the
same correlation id, and replies come late.

**ProtocolRelease, ProductAccess, DeviceRegistry, DeviceCredential.** One action per statement
outside a transaction, one per transaction; requests keep the copies they read. Row locks are
guards (`RowFree`, `ShareFree`).

**ModbusCollect.** The endpoint lock is the reference-counted entry of rtu_tcp.go, deleted and
created again; a late answer stays on its connection. A scan works through a list it read before;
a save of the console counts up the configuration, may disable the profile, and resets its status.

**WireCodecs, PointTable.** Frames are sequences of bytes; encoders and decoders are operators
translated from the code, applied by actions that send, damage and receive a frame or import rows.
A decoded value stands for its type, words, scale and offset, which is what the decoder tells apart:
arithmetic on floats is left out. Panics are an outcome of their own.
The samples reach the ends of each range (sequence 65535, empty and multiple components, registers
with the sign bit, limits of a block).

**StoreLayers.** Several handlers may hold one message; the question whether telemetry exists and the
insert are two calls, and an insert that its caller has given up may still happen. `crossed` is a
history variable: the messages delivered while an earlier delivery was not over.

**BackupService.** A row has the day of its stamp until the message is processed, which stamps it
1 ms after the epoch (`Epoch`), before every daily window.

**GbGateway.** Numbers wrap, and a call takes a number with no look at its waiter; `reused` is a
history variable naming the calls this happened to.

**BackupService, AiProvider, AiJobs, GbGateway, RequestRoute, WorkerRuntime,
StandardIngress, DeviceCommand.** One action per call to another party, which may fail before or
after it took effect; processes may die where their death leaves something behind.

**MCProgress and MCControl** put components that share no state side by side in one run: `part`
says which one moves, the others keep their initial state. The states of a run are the sum of its
parts and not their product, and each property is about one part.

## 3. Runs

| Run | Bound | Shows |
|---|---|---|
| `durable_queue` | four identities of sizes 1 to 4, two contents, at most 2 entries and 6 bytes, two faults | every queue invariant under any sequence of calls, failed flushes, damage, restarts and power losses; both limits bite (`{3, 4}` by bytes, `{1, 2, 3}` by items) |
| `mqtt_inbox` | three identities, one of them on no route, two publications, one trouble | `AckedIsKept`; acknowledged messages are handled or quarantined; the broker is relieved, with the exceptions `BrokerIsRelieved` names |
| `mqtt_inbox_refused` (violation) | | a refusal between the expiry of the read and the reset of the flag asks for no redelivery |
| `raw_ingest` | one identity, two bodies, two metadata values, two callers, one retry loop, two failures | one meaning, honest answers, refinement of `RawArchive`, `published` never reset, and what is archived is eventually published |
| `component_alarm` | one component, three messages, three times, one handler, two operators or video events, one failure | order independence, life cycle, announcement, idempotence, also when a late write leads to a refused insertion or reopens an alarm |
| `component_ack` (violation) | | an acknowledgement that raced with a recovery |
| `execution_lease` | two processes, Ttl 3, Local 2, one failing call, one frame | exclusion, ownership, fencing, and the lease check of a frame against a takeover at any of its steps |
| `execution_lease_stale` (violation) | | the row is released before the sockets are closed |
| `device_state_rollback` (violation) | two workers in one process | a stale copy written by `syncDeviceBusinessStatus` |
| `alarm_rules` | a report and its end on two topics, one rule with a duration, two alarms, one of which may be another device's, pages of one row, two operators or video events; two requests or failures together | no report is discarded; windows are unbroken; a deletion closes; what has ended stays ended; each with the exceptions the property names |
| `progress` | eight parts, see below | media, replays, commands, revocations, collections, jobs, silence and bus messages come to an end, beside the safety of each, and the bus commits only what is settled |
| `control` | twenty-one parts over fifteen components, see below | eleven properties of the components around the pipeline, forty-one parts in all |

A property that a run checks is often a conjunction of named parts, one per thing that can go wrong,
each stated and explained in its module: `SessionsAreSound` is `ConnectionIsProjected`,
`StoppedHasNoSession`, `OwnReplyOnly` and `PendingKeepsVersion`. Those that join parts of
several components are defined in `ControlProperties`, `WorkProperties`, `MCProgress` and
`MCControl`. For each part `PROJECT.json` has a faulty variant of the code that breaks the conjunction.

| Property | Parts |
|---|---|
| `DirectoryIsSound` | `TypeOK`, `OneNamePerIdentity`, `UsedIsExact` |
| `AnswersAreHonest`, `PublicationIsSettled` | `TypeOK`, `OneMeaning`, `RepliesAreArchived`; `PublishedSticks`, `ArchivedIsPublished` |
| `ReportsDecide` | `TypeOK`, `WatermarkIsLatest`, `LifecycleFollowsWatermark` |
| `LeaseIsExclusive` | `TypeOK`, `LiveOwnsLease`, `OneLiveSession` |
| `HandlingIsSound` | `RulesTypeOK`, `ReportIsNeverDiscarded`, `WindowIsUnbroken` |
| `WorkIsSound` | `EventsCountedOnce`, `ReplayCovers`, `ForwardedHasVerdict`, `OneSequencePerEndpoint`, `AnswerOfItsBlock`, `OneRunPerKey`, `SucceededIsSaved`, `StateTypeOK` (with the lock discipline) |
| `RequestsTakeEffect` | `CommandsEnd`, `ReplacedIsCutOff` |
| `CollectionIsSound` | `EditIsKept`, `CollectionEnds` |
| `DevicesAreControlled` | `CommandSentOnce`, `FirstReplyDecides`, `RevokedIsCutOff` |
| `ReleaseIsSound` | `ReleaseKeepsItsFiles`, `InstalledWasConfirmed`, `OneReviewByAnother` |
| `AccessIsSound` | `OneDeviceOneSecret`, `OnboardingReservesPort` |
| `RegistrationsFit` | `OnboardedFitsProduct`, `ChildFitsProfile`, `ChildBelongs`, `OperatorDecidesStatus` |
| `BackupIsSound` | `DailyIsWhole`, `CompletedIsRestorable`, `DrillDetectsDamage` |
| `AiIsSound` | `StoredWasAccepted`, `RetryLeavesNoStale`, `OneFinalEvent`, `PolicyHolds` |
| `GatewayIsSound` | `ConfirmedIsAccepted`, `WaiterIsReachable`, `FrameIsForItsCall` |
| `FieldDataIsRight` | `GbRoundTrip`, `DamageIsRejected`, `PointsReadTheirRegisters`, `CoilFrameIsRecognised`, `AnyComponentAlarms`, `EveryPointIsRead`, `BlocksAreReadable`, `NoGapIsRead` |
| `LimitsHold` | `UnderTwicePerWindow`, `RatesBounded`, `HopsAreCounted`, `OutputIsWhole`, `OneCleanBuild` |
| `TelemetryIsKept` | `ProcessedHasTelemetry`, `TelemetryOnce` |

`progress`, by part: *video*: two events, one with media on another host, two alarms, one crash;
*replay*: three raw messages and pages of two, so that a page shifts; *listener*: one session and one
command; *credential*: two generations of a key, with a request and the retry loop revoking;
*collect*: a profile and a connection test on one endpoint, two blocks, two tries, one edit;
*jobs*: two workers, one alarm, one tenant; *state*: two workers in two processes and a scanner,
timestamps 1 and 2; *bus*: one topic with two messages, so that a second one's commit may pass over
the first, two attempts, so that there is a retry before the dead letter, and two troubles (a failed
fetch, a refused dead letter or commit, a death).

`control`, by part: *listener* with two sessions or with two commands; *credential* and *command*
with two keys, ids, bodies and callers; *release* with two uploads and the catalogue, or with one and
the market with two reviewers; *access*: two devices that want one port, two wizard calls beside a
bind and a save by hand; *backup*: two backups of two tables over two days, with at most two rows,
of which one may be late or processed, or one backup with a drill, damage and one row; *provider* and *chat*: two updates, one restart, one stream; *gateway*: a TCP and a UDP link,
and sequence numbers 1 and 2, with two synchronisations and two frames or with three
synchronisations, whose numbers wrap while the first one waits, and one frame; *codecs*: the samples of `MCControl`, every
single byte replaced by each of four values, six prefixes in front of a frame (stray bytes and '@'
among them), points of every data type, word order, byte order, with bits, scales and offsets, and
with fewer registers than their type needs; *children* and *registry*: two main devices, one child, two
products; *route*: two processes, four moves of the lease, a hop header that
the client sets to -1, 0 or 3; *worker*: one call, two builds, one death;
*ingress*: three devices, a table of two; *table*: three rows out of those of `MCTableRows`;
*layers*: two messages, three deliveries each, two handlers at a time.

Two processes or handlers suffice for the races considered, which are between a reader-writer and
one interfering actor; three messages suffice to raise, recover and raise again, and it takes two
operators for an update to hit an alarm that another one replaced. Raw identities are independent
of one another (every row and lock is per identity), so one is enough. Where the limits of the code
are large (20 messages a second, 125 registers, 10000 devices, pages of 500) they are constants, given
small values so that the limit is reached. The safety properties listed in section 4 do not rest on
these bounds, being proved. `CHECK_DEADLOCK FALSE` is used where
bounded inputs run out.

**Fairness.** Weak fairness of a goroutine's next step means that the scheduler runs it; of the
worker, retry and scan loops, that their timers fire; of reconnection, that Paho's automatic
reconnect succeeds sometime. Strong fairness is used for steps that wait for a lock in
`DeviceState`, `ListenerSession` and `ModbusCollect` (Go's mutexes hand over to starving waiters,
and so do channels), and for calls that are tried again for ever and may fail any number of times:
the download of media and the revocation at the broker, which succeed in the end only if the other
side is not down for good. Failures, crashes and new inputs are never fair; apart from the retried
calls they are bounded, so "eventually" means after the last trouble. Each module states its
fairness (`...Fairness`); `MCProgress` states the same formulas with those of different
parts sharing an index, because every strong one doubles the cases TLC looks at.

## 4. Proofs

Every theorem holds for all values of the constants that satisfy the assumptions named `*Assumption`
in the modules; TLC evaluates these in the runs.

| Component | Theorem | Property |
|---|---|---|
| queue | `QueueKeepsAccepted` | `OneNamePerIdentity`, `AcceptedSurvives` |
| | `QueueCountsRight` | `DirectoryIsSound` |
| | `QueueStaysWithin` | `CapacityRespected` |
| inbox | `InboxKeepsAcked` | `AckedIsKept` |
| | `InboxKeepsItsQueue` | `InboxTypeOK` |
| raw ingestion | `RawAnswersAreHonest` (from `RawHasOneMeaning`, `RawRepliesAreArchived`) | `AnswersAreHonest` |
| | `RawImplementsArchive` | `RefinesArchive` (refinement) |
| | `PublishedStaysPublished` | `PublishedSticks`, the safety half of `PublicationIsSettled` |
| component alarms | `ReportsDecideAlways` (from `ProcessedIsApplied`, `WatermarkConverges`, `LifecycleAgrees`) | `ReportsDecide` |
| | `ReplayChangesNothing` | `ReplayIsIdempotent` |
| | `TransitionsAreAnnounced` | `CurrentTransitionIsAnnounced` |
| execution lease | `LeaseExcludes` (from `LiveSessionOwnsLease`, `SessionsExclude`) | `LeaseIsExclusive` |
| | `FramesAreExclusive`, `TakeoverRaisesToken` | `ValidateIsExclusive`, `TakeoverFences` |
| rule and direct alarms, bus | `ReportsAreHandled`, `OffsetsAreSettled` | `HandlingIsSound`, `CommittedIsSettled` |
| | `DeletedRulesAreClosed`, `EndedAlarmsStay` | `DeletionCloses`, `EndedStaysEnded` |
| store layers | `MessageHasItsRow` | `TelemetryIsKept` |
| AI settings and chat | `AiStaysSound` | `AiIsSound` |
| releases | `ReleaseStaysSound` | `ReleaseIsSound` |
| backup | `BackupsStaySound` | `BackupIsSound` |
| credentials, commands | `DevicesStayControlled` (from `RevokedStaysCutOff`, `CommandsStaySettled`) | `DevicesAreControlled` |
| routing, workers, ingress | `LimitsStayHeld` (from `RequestsStayNear`, `WorkersStayContained`, `RatesStayLimited`) | `LimitsHold` |
| onboarding | `OnboardingStaysSound` | `AccessIsSound` |
| onboarding, registry | `RegistrationsStayFit` (from `OnboardingFits`, `RegistryStaysSound`) | `RegistrationsFit` |
| gateway | `GatewayStaysSound` | `GatewayIsSound` |
| listener | `SessionsStaySound` | `SessionsAreSound` |
| work in the background | `WorkStaysSound`, from the next five | `WorkIsSound` |
| device state | `StateStaysLocked` | `StateTypeOK` with the lock discipline |
| AI jobs | `JobsRunOnce` | `OneRunPerKey`, `SucceededIsSaved` |
| parse stage, replay | `ReplaysCover` | `ReplayCovers`, `ForwardedHasVerdict` |
| video alarms | `VideoEventsCount` | `EventsCountedOnce` |
| Modbus collection | `CollectionReadsInOrder` | `OneSequencePerEndpoint`, `AnswerOfItsBlock` |
| | `CollectionKeepsEdits` | `EditIsKept`, the safety half of `CollectionIsSound` |

The properties themselves are seldom inductive. What each proof adds:

*Queue.* An accepted entry must be in every possible disk image, which is inductive only together
with: images have at most one name per identity, the visible directory is one of the images, and
an accepted entry is not damaged silently. For the accounting, one file per identity means that
files and bytes are in bijection with the identities that have a file and with their bytes
(`CountedByHolder`); a rename changes neither, so every step either keeps, adds or drops one
identity, or closes or recounts the directory (`StepCounts`).

*Inbox.* First each inbox step is shown to be a queue step or a stutter on the queue's variables;
then the queue's invariant carries over, and a receipt implies an accepted entry or a worker that
is about to remove it after success. That the queue is open exactly while a process lives makes a
worker inside an entry the only one.

*Raw ingestion.* The reservation is written once. From then on whatever is stored, indexed,
carried by an actor past `reserve`, or published equals it; an actor reaches the index only after
its tier holds the message. The refinement maps "archived" to the reservation once the index row
exists.

*Component alarms.* The watermark has the latest time among the applied reports and is active iff
one of that time is; its message is among the applied ones (so a repetition never supersedes); an
alarm named by a watermark exists and has its component; an open alarm that no stale copy has reopened
is named by its watermark. For the announcement (`OnItsWay`): a transition comes from a message that nobody has
applied or marked before, so every handler that has this message either has the component still to
do, and will find the event again (`Replays`), or is about to publish it.

*Lease.* A live session is before its deadline and its row outlives the deadline by `Ttl - Local`;
a granted call still has the row unless its whole term has passed; under a renewal in flight the
deadline is at most `Local` after the call began. A takeover finds the row expired, hence no live
session and no grant within its term. A frame that has passed its lease check carries a token that is at
most the row's, and the row's only while the row is its process's (`FrameInv`); so whoever is live
later has a larger one.

*Alarm rules.* `BusInv` says that a reader leaves only settled or skipped offsets behind and
resumes at one it has left behind; it is proved of `EventBus` alone and carries over, since every step of
`AlarmRules` is one of the bus or leaves it alone. `HandlerOK` adds what a handler in the middle of
its calls knows about its message, `RequestOK` what an operator's list still contains, and `PagingOK`
what a deletion knows of the pages behind it: as long as nobody else moved rows, the rule's alarms of
the status at hand lie at or beyond the offset. This is where "restart at zero" is needed: without it
(`BadNextOffset`) an alarm slips in front of the offset. Three histories say what is excepted, since
the code does not exclude it: `crossed`, `shifted[o]` and `late[o]`. `late` must be one per operator:
with one for all, a second deletion would clear what the first one was allowed to leave.

*Store layers, AI, releases, backup.* As long as no two deliveries of a message cross, an insert is only
tried while there is no row and none on its way (`AloneInv`). Both sides of
the AI service have taken the stored settings; as long as no request failed, the sidecar has those of the
direct path unless an update stands between the two or the retry loop has still to look. Files that an upload may
remove are those it wrote itself (`OwnedBy`), and no upload owns a file of a release; a market entry is
undecided, decided once, or withdrawn. Once a day has ended the rows that a backup of it must hold
are fixed but for those that a processing moves out of it, an export collects them table by table,
and a written manifest is not changed except by damage.

*Credentials, commands.* Whoever is about to disconnect a name has banned it, and whoever records
the revocation has done both. Only the call that created the row publishes.

*Limits.* The hop header counts every passing-on. With `grants[d][t]` the messages of a device let
through up to `t`, a bucket counts what came since it began, and less than a bucket came in any
window that reaches back before it; two buckets can meet in one window, hence less than twice the
limit. An entry may be evicted only when it has been idle at least a window (`IdleAfter >= Window`).
Whoever compiles holds the one slot, and output that was cut is known to be cut.

*Onboarding, registry.* Rows are only created, so whoever was told "created" keeps the secret. While the
transaction of RegisterProtocolChild holds its locks, what it read is what is stored.

*Gateway.* A frame goes past forwarding only when the platform has it. Every call begun has a number
given out in its turn of the numbers (`GivenOut`), so two calls with one number come from two turns; a
call none of whose companions waited under its number has it to itself. The bound on the number of
calls that an earlier version assumed is gone: the code replaces a waiter under the same number
without looking, and those calls are what the property excepts.

*Listener.* A frame in progress keeps its session open and belongs to the session's device; the reply
on the wire or in a frame is that of the command the session waits for; a listener that stops has
doomed what is open; the projected count of a device is the number of its sessions not yet reported
closed (`CountInv`, which needs finitely many sessions).

*Device state.* The type invariant with its two clauses about the lock is inductive: between its
locked read and its upsert a goroutine is named by its process's lock.

*AI jobs.* Whoever runs a job has it in the map as running, under its number, which keeps the sweep and
the next request from replacing the entry; a run that is about to report success has saved its row
(`RunOK`).

*Replay.* A row of the range that is neither visited nor on the current page lies beyond the offset,
unless the page was the last one (`PageInv`). An insertion into the index moves rows towards higher
positions only (`InsertionShifts`), so a shifted row is seen twice rather than missed; a page shorter
than its size leaves nothing beyond it (`PageCovers`). This rests on rows never leaving the index
while the replay runs; where a new row is inserted does not matter.

*Video.* The counts alone are not inductive, because a stale copy may be written back at any time. Each
event that entered an alarm is attributed to one alarm; then what an alarm counts, and what any copy
of it in a call or a media job would write, is at most the number of its events (`CountedBy`). An
event is entered at most once because only the call that inserted its row works for it
(`CallsAreApart`).

*Collection.* A reader refers to the entry of its endpoint from the moment it registers until it
unlocks; `refs` is the number of such readers, so the entry is deleted only with the last of them, and
no two endpoints share a lock object (`BusIsShared`); a free one exists for whoever has none
(`FreeBus`, by the pigeonhole principle). Whoever sends or waits holds the token of that object
(`TokenIsHeld`). A reader that waits has exactly one answer under way, that of the block it asked
for, since a failed attempt closes the connection (`InOrder`). The status a profile shows is the
outcome under its stored configuration (`ShownFits`), because the late write compares the
configuration and a save resets the status.

Proofs of several components in one module share no state; a theorem about two of them
(`DevicesStayControlled`, `LimitsStayHeld`, `RegistrationsStayFit`, `WorkStaysSound`) takes the conjunction of
their specifications.

Only model-checked: all liveness (fairness and ENABLED are out of the prover's reach), and
`FieldDataIsRight`: the codecs are recursive over bytes, the grouping of points into blocks folds over a
sorted sequence, and what a recursive definition or a fold computes for every input needs an
induction that the provers cannot instantiate here. Every other invariant and action property that a
passing run checks is also a theorem, the safety halves of `PublicationIsSettled` and
`CollectionIsSound` included.

## 5. Disagreements found

Each is a run expected to be violated, and is described in `PROJECT.json`: a lost request for
redelivery (`mqtt_inbox_refused`), acknowledgement of a recovered alarm (`component_ack`), release of
the lease before the sockets are closed (`execution_lease_stale`), and stale whole-row writes of the
device state (`device_state_rollback`).

Behaviour that no run is about but a reader should know of is in the notes of the hazards:

- *Pipeline.* A message whose dead letter was refused is passed over by the next commit; a reader whose
  fetch fails returns and reads nothing more until the process is restarted (kafka/bus.go:43); a
  telemetry message delivered twice at a time may get two rows in ClickHouse (clickhouse/repository.go:77).
- *Alarms.* `fuseVideoAlarm` writes back a copy read earlier, and so may reopen an alarm that has ended
  (engine.go:1020): over an inactive watermark, if it is a component's. A duration window may be saved
  after a failed match of another topic deleted it, and reach back over it (engine.go:422). A rule that
  is deleted or switched off while a message is handled, or while its alarms move between the pages of
  the closing loop (engine.go:799), may leave an alarm that only an operator can close. A video event
  whose process died before the alarm raises none.
- *Lease.* A frame checked under the lease may be archived after another process took over; it
  carries the smaller token, which nothing compares (listeners.go:604).
- *Backup.* A daily backup that was missed is not made up for, and a standard message that was
  processed is in none: its `processed_at` is 1 (postgres/repository.go:597) and the window of a day
  compares that (backup/service.go:271).
- *Field devices.* Fewer registers than a type needs make `decodeModbusRegisterValue` panic, and a point
  of type bits with a bit is always refused (modbus_tcp.go:155); the CRC of coil frames is not checked
  (modbus_coil.go:45); a stray '@' right before a GB 26875 frame loses that frame; the gateway gives a
  sequence number out again while a call waits under it, and never removes a closed TCP link from
  its table (gb26875-gateway/main.go:126).
- *Releases and builds.* The files of a release are removed when the answer of its creation was lost; a
  failed `RemoveAll` of a build's directory is ignored (build.go:156).

## 6. Assumptions and what is left out

- Database and process clocks run at one rate; timers fire, and cancelled sockets close, within
  one unit of time.
- A statement whose call failed was executed before the failure or never.
- Flushed data is not lost; damage hits whole entries of the queue, single bytes of frames and whole
  objects or manifests of a backup.
- Rule actions, realtime notifications and metrics leave the system and are not modelled; neither is
  what a model, a protocol worker or the compiler computes.
- `VideoAlarm` leaves out the camera mapping, `AlarmRules` the device's state (in `DeviceState`) and
  component alarms (in `ComponentAlarm`); a message goes through one of them at a time.
- Some properties say less than one may expect: the liveness of revocations is checked for runs in which
  no edit of the device writes an old credential back (`FirstTokens`; the safety run has such edits),
  `RetryLeavesNoStale` speaks of runs in which no request failed, and `StandardIngress` has one
  process's table of rates: each process has its own, so the limit is one per process.
- `DeviceCommand` publishes a command at most once; MQTT's QoS 1 may still deliver it twice. Rows with the
  status QUEUED, which nothing in the source writes, do not occur.
- Scale and offset of Modbus points are integers here; rounding of floats is left out.

Not modelled:

- UDP sessions of the protocol listener (the table of sessions is bounded and expires, but has no
  connection to close), onboarding onto an existing access profile, deletion of devices and the test device;
- the retry query's limit of 200, the in-memory MQTT queue, outgoing publication;
- the in-process bus: it calls its handlers and keeps nothing;
- JSON and template parsers, inspection PDFs, knowledge documents, the protocol assistant,
  presentation: conversion of data without state;
- clients of knowledge, video and object stores, and the preview proxy: I/O with external state;
- lists, request decoding, authorisation and the MCP server: no state of their own beyond the calls
  modelled above;
- configuration, metrics, tools, wiring and the front end.

## 7. Plan

1. UDP sessions in `ListenerSession`; its composition with `ExecutionLease`.
