--------------------------- MODULE ComponentAlarm ---------------------------
(***************************************************************************)
(* Component alarms: Engine.applyComponentAlarms (internal/core/           *)
(* component.go) over Repository.ApplyComponentAlarm, with the rules of    *)
(* internal/model/component.go, and the two other writers of these alarms, *)
(* the operator's Engine.SetAlarmStatus and Engine.fuseVideoAlarm.         *)
(*                                                                         *)
(* A message reports the state of some components.  Reports arrive late,   *)
(* twice and in any order, and two handlers may work at once: alarm and    *)
(* event reports, properties and state changes are consumed from different *)
(* topics.  ApplyComponentAlarm is one transaction; the events it leads to *)
(* are published afterwards.  A message that failed may come again, by the *)
(* bus's attempts or by redelivery, until it has been marked processed.    *)
(***************************************************************************)
EXTENDS Integers, FiniteSets

CONSTANTS
    Keys,         \* component and alarm type, numbered in the order of processing
    Msgs,         \* message identities
    Stamps,       \* component timestamps, all positive
    AlarmIds,     \* alarm record identities
    Handlers,     \* goroutines that may be inside handleStandard
    Operators,    \* users inside SetAlarmStatus, video alarms inside fuseVideoAlarm
    MaxTroubles,  \* bound on failures
    Nil           \* no message, no alarm, no report

Report == [ts : Stamps, active : BOOLEAN]
Status == {"ACTIVE", "ACKED", "RECOVERED", "CLOSED", "SUPPRESSED"}
Event == {"none", "raised", "recovered"}
AlarmRow == [key : Keys, status : Status]
Update == [alarm : AlarmIds, status : {"ACTIVE", "ACKED", "CLOSED", "SUPPRESSED"}]

ASSUME ComponentAssumption ==
    /\ Keys \subseteq Nat
    /\ IsFiniteSet(Keys)
    /\ Stamps \subseteq Nat \ {0}
    /\ MaxTroubles \in Nat
    /\ Nil \notin Msgs
    /\ Nil \notin AlarmIds
    /\ Nil \notin Keys
    /\ Nil \notin Report /\ Nil \notin AlarmRow /\ Nil \notin Update

VARIABLES
    report,     \* report[m][k]: what message m says of component k, or Nil
    state,      \* component_alarm_state: the watermark of each component
    alarms,     \* alarm_record: [key, status], or Nil
    processed,  \* messages marked processed
    applied,    \* applied[k]: messages whose report of k has been applied
    topic,      \* events published: <<event, alarm>>
    task,       \* task[h]: the handler: [pc, msg, todo, alarm, event]
    desk,       \* desk[o]: a pending UpdateAlarm: [alarm, status], or Nil
    troubles,   \* failures left
    reopened    \* history: ended alarms that a copy read earlier has opened again

rvars == <<state, alarms, applied, reopened>>
vars == <<report, rvars, processed, topic, task, desk, troubles>>

Fresh == [ts |-> 0, msg |-> Nil, active |-> FALSE, alarm |-> Nil, event |-> "none"]
Idle == [pc |-> "idle", msg |-> Nil, todo |-> {}, alarm |-> Nil, event |-> "none"]

Reported(m) == {k \in Keys : report[m][k] # Nil}
Open(a) == a # Nil /\ alarms[a].status \in {"ACTIVE", "ACKED"}

\* alarm_active_dedup_idx: another row than a is open for component k.
Duplicate(k, a) ==
    \E b \in AlarmIds \ {a} : alarms[b] # Nil /\ Open(b) /\ alarms[b].key = k

Trouble == troubles > 0 /\ troubles' = troubles - 1

(***************************************************************************)
(* ApplyComponentAlarm: the watermark and the alarm change together.       *)
(***************************************************************************)
Replays(m, k) == state[k].msg = m /\ state[k].ts = report[m][k].ts

\* Faulty variants, named Bad*, are bugs the properties below must detect.
BadSupersedesTies(m, k) == report[m][k].ts >= state[k].ts /\ state[k].msg # m

BadSupersedesActive(m, k) ==
    /\ report[m][k].ts >= state[k].ts
    /\ state[k].msg # m
    /\ report[m][k].ts # state[k].ts \/ report[m][k].active

\* Later wins; at the same time an alarm wins over a normal state.
Supersedes(m, k) ==
    /\ report[m][k].ts >= state[k].ts
    /\ state[k].msg # m
    /\ report[m][k].ts # state[k].ts \/ (~state[k].active /\ report[m][k].active)

Advance(m, k, a, e) ==
    state' = [state EXCEPT ![k] = [ts |-> report[m][k].ts, msg |-> m,
                                   active |-> report[m][k].active,
                                   alarm |-> a, event |-> e]]

\* TransitionComponentAlarm, one case each.
Raise(m, k, a) ==
    /\ report[m][k].active
    /\ ~Open(state[k].alarm)
    /\ alarms[a] = Nil
    /\ ~Duplicate(k, a)
    /\ alarms' = [alarms EXCEPT ![a] = [key |-> k, status |-> "ACTIVE"]]
    /\ Advance(m, k, a, "raised")

Refresh(m, k) ==
    /\ report[m][k].active
    /\ Open(state[k].alarm)
    /\ Advance(m, k, state[k].alarm, "none")
    /\ UNCHANGED alarms

BadRecover(m, k) ==
    /\ ~report[m][k].active
    /\ Open(state[k].alarm)
    /\ Advance(m, k, state[k].alarm, "recovered")
    /\ UNCHANGED alarms

Recover(m, k) ==
    /\ ~report[m][k].active
    /\ Open(state[k].alarm)
    /\ alarms' = [alarms EXCEPT ![state[k].alarm].status = "RECOVERED"]
    /\ Advance(m, k, state[k].alarm, "recovered")

StayNormal(m, k) ==
    /\ ~report[m][k].active
    /\ ~Open(state[k].alarm)
    /\ Advance(m, k, state[k].alarm, "none")
    /\ UNCHANGED alarms

Transition(m, k) ==
    \/ \E a \in AlarmIds : Raise(m, k, a)
    \/ Refresh(m, k) \/ Recover(m, k) \/ StayNormal(m, k)

BadResult(m, k) ==
    IF Supersedes(m, k) THEN <<state'[k].alarm, state'[k].event>>
    ELSE <<state[k].alarm, "none">>

\* What the transaction returns: the alarm and the event to publish.
Result(m, k) ==
    IF Replays(m, k) \/ Supersedes(m, k)
    THEN <<state'[k].alarm, state'[k].event>>
    ELSE <<state[k].alarm, "none">>

ApplyComponentAlarm(m, k) ==
    /\ \/ Supersedes(m, k) /\ Transition(m, k)
       \/ ~Supersedes(m, k) /\ UNCHANGED <<state, alarms>>
    /\ applied' = [applied EXCEPT ![k] = @ \cup {m}]

(***************************************************************************)
(* handleStandard, restricted to the component path.                       *)
(***************************************************************************)
At(h, pc) == task[h].pc = pc

\* ClaimStandardMessage lets a message through until it is marked processed.
Claim(h, m) ==
    /\ At(h, "idle")
    /\ m \notin processed
    /\ task' = [task EXCEPT ![h] = [Idle EXCEPT !.pc = "apply", !.msg = m,
                                                !.todo = Reported(m)]]
    /\ UNCHANGED <<report, rvars, processed, topic, desk, troubles>>

First(ks, k) == k \in ks /\ \A j \in ks : k <= j

Apply(h) ==
    /\ At(h, "apply")
    /\ \E k \in task[h].todo :
          /\ First(task[h].todo, k)
          /\ ApplyComponentAlarm(task[h].msg, k)
          /\ LET r == Result(task[h].msg, k)
             IN  task' = [task EXCEPT ![h].pc = IF r[2] = "none" THEN "apply" ELSE "announce",
                                      ![h].todo = @ \ {k},
                                      ![h].alarm = r[1], ![h].event = r[2]]
    /\ UNCHANGED <<report, reopened, processed, topic, desk, troubles>>

\* The insertion of a new alarm meets an open one of the same component, which
\* the watermark no longer names: the transaction and the message fail.
RaiseRefused(h) ==
    /\ At(h, "apply")
    /\ \E k \in task[h].todo :
          /\ First(task[h].todo, k)
          /\ Supersedes(task[h].msg, k)
          /\ report[task[h].msg][k].active
          /\ ~Open(state[k].alarm)
          /\ Duplicate(k, Nil)
    /\ task' = [task EXCEPT ![h] = Idle]
    /\ UNCHANGED <<report, rvars, processed, topic, desk, troubles>>

\* Bus.Publish and Realtime.Publish; an error of either ends the handler.
Announce(h) ==
    /\ At(h, "announce")
    /\ topic' = topic \cup {<<task[h].event, task[h].alarm>>}
    /\ task' = [task EXCEPT ![h].pc = "apply", ![h].alarm = Nil, ![h].event = "none"]
    /\ UNCHANGED <<report, rvars, processed, desk, troubles>>

BadFinish(h) ==
    /\ At(h, "apply")
    /\ processed' = processed \cup {task[h].msg}
    /\ task' = [task EXCEPT ![h] = Idle]
    /\ UNCHANGED <<report, rvars, topic, desk, troubles>>

Finish(h) ==
    /\ At(h, "apply")
    /\ task[h].todo = {}
    /\ processed' = processed \cup {task[h].msg}
    /\ task' = [task EXCEPT ![h] = Idle]
    /\ UNCHANGED <<report, rvars, topic, desk, troubles>>

\* An error of a call, or the death of the process: the message comes again.
Fail(h) ==
    /\ ~At(h, "idle")
    /\ Trouble
    /\ task' = [task EXCEPT ![h] = Idle]
    /\ UNCHANGED <<report, rvars, processed, topic, desk>>

(***************************************************************************)
(* SetAlarmStatus: GetAlarm, then UpdateAlarm with the changed copy; and   *)
(* fuseVideoAlarm: ListAlarms, then UpdateAlarm with each related copy.    *)
(***************************************************************************)
GetAlarm(o, a, s) ==
    /\ desk[o] = Nil
    /\ alarms[a] # Nil
    /\ s = "ACKED" => alarms[a].status = "ACTIVE"
    /\ desk' = [desk EXCEPT ![o] = [alarm |-> a, status |-> s]]
    /\ UNCHANGED <<report, rvars, processed, topic, task, troubles>>

\* fuseVideoAlarm: an ACTIVE alarm of its list, as read, is to be written back with
\* the video event's marks.  Each alarm of the list is a pending write of its own.
FuseVideoAlarm(o, a) ==
    /\ desk[o] = Nil
    /\ alarms[a] # Nil
    /\ alarms[a].status = "ACTIVE"
    /\ desk' = [desk EXCEPT ![o] = [alarm |-> a, status |-> "ACTIVE"]]
    /\ UNCHANGED <<report, rvars, processed, topic, task, troubles>>

\* The write is unconditional; the index refuses a second open alarm.
UpdateAlarm(o) ==
    /\ desk[o] # Nil
    /\ LET a == desk[o].alarm
           s == desk[o].status
           opens == s \in {"ACTIVE", "ACKED"}
       IN  IF opens /\ Duplicate(alarms[a].key, a)
           THEN UNCHANGED <<alarms, reopened>>
           ELSE /\ alarms' = [alarms EXCEPT ![a].status = s]
                /\ reopened' = IF opens /\ ~Open(a) THEN reopened \cup {a} ELSE reopened
    /\ desk' = [desk EXCEPT ![o] = Nil]
    /\ UNCHANGED <<report, state, applied, processed, topic, task, troubles>>

Init ==
    /\ report \in [Msgs -> [Keys -> Report \cup {Nil}]]
    /\ state = [k \in Keys |-> Fresh]
    /\ alarms = [a \in AlarmIds |-> Nil]
    /\ processed = {}
    /\ applied = [k \in Keys |-> {}]
    /\ topic = {}
    /\ task = [h \in Handlers |-> Idle]
    /\ desk = [o \in Operators |-> Nil]
    /\ troubles = MaxTroubles
    /\ reopened = {}

Next ==
    \/ \E h \in Handlers : \/ \E m \in Msgs : Claim(h, m)
                           \/ Apply(h) \/ RaiseRefused(h) \/ Announce(h) \/ Finish(h) \/ Fail(h)
    \/ \E o \in Operators : \/ UpdateAlarm(o)
                            \/ \E a \in AlarmIds : FuseVideoAlarm(o, a)
                            \/ \E a \in AlarmIds, s \in {"ACKED", "CLOSED", "SUPPRESSED"} :
                                   GetAlarm(o, a, s)

Spec == Init /\ [][Next]_vars

-----------------------------------------------------------------------------
\* The shape of the state.  A message is marked processed only when the report of
\* each of its components has been applied.
TypeOK ==
    /\ report \in [Msgs -> [Keys -> Report \cup {Nil}]]
    /\ state \in [Keys -> [ts : Stamps \cup {0}, msg : Msgs \cup {Nil}, active : BOOLEAN,
                           alarm : AlarmIds \cup {Nil}, event : Event]]
    /\ alarms \in [AlarmIds -> AlarmRow \cup {Nil}]
    /\ processed \subseteq Msgs
    /\ applied \in [Keys -> SUBSET Msgs]
    /\ topic \subseteq {"raised", "recovered"} \X AlarmIds
    /\ task \in [Handlers -> [pc : {"idle", "apply", "announce"}, msg : Msgs \cup {Nil},
                              todo : SUBSET Keys, alarm : AlarmIds \cup {Nil}, event : Event]]
    /\ desk \in [Operators -> Update \cup {Nil}]
    /\ troubles \in 0 .. MaxTroubles
    /\ reopened \subseteq AlarmIds
    /\ \A m \in processed, k \in Keys : k \in Reported(m) => m \in applied[k]

\* The watermark does not depend on the order, the repetition or the
\* interleaving of the reports applied so far: it has the latest time among
\* them, and is active exactly if one of the reports of that time is.
WatermarkIsLatest ==
    \A k \in Keys :
        /\ \A m \in applied[k] : report[m][k].ts <= state[k].ts
        /\ applied[k] # {} => \E m \in applied[k] : report[m][k].ts = state[k].ts
        /\ state[k].active <=>
              \E m \in applied[k] : report[m][k].ts = state[k].ts /\ report[m][k].active

\* The alarm and the watermark agree, but for the writers that write back an
\* earlier copy: an open alarm that no such write has reopened is the one its
\* component's watermark names, and that component is active; an active component
\* has an alarm that the device did not recover.
LifecycleFollowsWatermark ==
    /\ \A a \in AlarmIds \ reopened : alarms[a] # Nil /\ Open(a) =>
          state[alarms[a].key].alarm = a /\ state[alarms[a].key].active
    /\ \A k \in Keys : state[k].active =>
          state[k].alarm # Nil /\ alarms[state[k].alarm].status # "RECOVERED"

\* When the message behind the current watermark has been marked processed, the
\* event of its transition was published, whatever failed on the way.
CurrentTransitionIsAnnounced ==
    \A k \in Keys : state[k].msg \in processed /\ state[k].event # "none" =>
        <<state[k].event, state[k].alarm>> \in topic

\* Applying a message again, however much later, changes no watermark.
ReplayIsIdempotent ==
    [][\A k \in Keys : state'[k] # state[k] => applied'[k] # applied[k]]_vars

\* SetAlarmStatus: "only active alarms can be acknowledged".
OnlyActiveIsAcknowledged ==
    [][\A a \in AlarmIds : alarms[a] # Nil /\ alarms'[a].status = "ACKED" =>
          alarms[a].status \in {"ACTIVE", "ACKED"}]_vars

\* The reports alone decide: tables keep their shape, the watermark is that of the
\* set of reports applied, and the alarms agree with it until a late write.
ReportsDecide == TypeOK /\ WatermarkIsLatest /\ LifecycleFollowsWatermark

=============================================================================
