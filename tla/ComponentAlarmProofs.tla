------------------------ MODULE ComponentAlarmProofs ------------------------
(***************************************************************************)
(* The watermark of a component is the latest report applied, whatever the *)
(* order and the repetition of messages, and the alarm life cycle follows  *)
(* it, for any number of messages, components, handlers and operators.     *)
(***************************************************************************)
EXTENDS ComponentAlarm, TLAPS

StateRow == [ts : Stamps \cup {0}, msg : Msgs \cup {Nil}, active : BOOLEAN,
             alarm : AlarmIds \cup {Nil}, event : Event]
TaskType == [pc : {"idle", "apply", "announce"}, msg : Msgs \cup {Nil},
             todo : SUBSET Keys, alarm : AlarmIds \cup {Nil}, event : Event]

Types ==
    /\ report \in [Msgs -> [Keys -> Report \cup {Nil}]]
    /\ state \in [Keys -> StateRow]
    /\ alarms \in [AlarmIds -> AlarmRow \cup {Nil}]
    /\ processed \subseteq Msgs
    /\ applied \in [Keys -> SUBSET Msgs]
    /\ topic \subseteq {"raised", "recovered"} \X AlarmIds
    /\ task \in [Handlers -> TaskType]
    /\ desk \in [Operators -> Update \cup {Nil}]
    /\ troubles \in 0 .. MaxTroubles
    /\ reopened \subseteq AlarmIds

\* What has been applied to component k, and the watermark it left.
Applied(k) ==
    /\ \A m \in applied[k] : k \in Reported(m)
    /\ applied[k] = {} => state[k].ts = 0 /\ ~state[k].active
    /\ state[k].msg # Nil => state[k].msg \in applied[k]

Latest(k) ==
    /\ \A m \in applied[k] : report[m][k].ts <= state[k].ts
    /\ applied[k] # {} => \E m \in applied[k] : report[m][k].ts = state[k].ts
    /\ state[k].active <=>
          \E m \in applied[k] : report[m][k].ts = state[k].ts /\ report[m][k].active

\* The watermark and the alarm it names.
Named(k) ==
    /\ state[k].alarm # Nil => alarms[state[k].alarm] # Nil /\ alarms[state[k].alarm].key = k
    /\ state[k].event # "none" => state[k].alarm # Nil
    /\ state[k].active => state[k].alarm # Nil /\ alarms[state[k].alarm].status # "RECOVERED"

Live(a) == alarms[a] # Nil /\ alarms[a].status \in {"ACTIVE", "ACKED"} /\ a \notin reopened
Followed(a) == Live(a) =>
    state[alarms[a].key].alarm = a /\ state[alarms[a].key].active

\* A handler has applied the reports of its message that it no longer has to do.
Progress(h) == ~At(h, "idle") =>
    /\ task[h].msg \in Msgs
    /\ task[h].todo \subseteq Reported(task[h].msg)
    /\ \A k \in Reported(task[h].msg) \ task[h].todo : task[h].msg \in applied[k]
    /\ At(h, "announce") => task[h].event # "none" /\ task[h].alarm # Nil

Done == \A m \in processed, k \in Keys : k \in Reported(m) => m \in applied[k]
Pending(o) == desk[o] # Nil => alarms[desk[o].alarm] # Nil

IInv ==
    /\ Types
    /\ \A k \in Keys : Applied(k)
    /\ \A k \in Keys : Latest(k)
    /\ \A k \in Keys : Named(k)
    /\ \A a \in AlarmIds : Followed(a)
    /\ \A h \in Handlers : Progress(h)
    /\ Done
    /\ \A o \in Operators : Pending(o)

\* Nothing has been applied at the start.
THEOREM InitIInv == Init => IInv
<1> SUFFICES ASSUME Init PROVE IInv
  OBVIOUS
<1>1. Idle \in TaskType /\ Fresh \in StateRow
  BY DEF Idle, TaskType, Fresh, StateRow, Event
<1>2. Types
  BY <1>1, ComponentAssumption DEF Init, Types
<1>3. \A k \in Keys : Applied(k) /\ Latest(k) /\ Named(k)
  BY DEF Init, Applied, Latest, Named, Fresh
<1>4. \A a \in AlarmIds : Followed(a)
  BY DEF Init, Followed, Live
<1>5. \A h \in Handlers : Progress(h)
  BY DEF Init, Progress, At, Idle
<1>6. Done /\ \A o \in Operators : Pending(o)
  BY DEF Init, Done, Pending
<1> QED
  BY <1>2, <1>3, <1>4, <1>5, <1>6 DEF IInv

\* Times are natural numbers, those of reports positive.
LEMMA TimesAreNat ==
  /\ \A r \in Report : r.ts \in Nat \ {0}
  /\ \A s \in StateRow : s.ts \in Nat
<1>1. Stamps \subseteq Nat \ {0}
  BY ComponentAssumption
<1>2. \A r \in Report : r.ts \in Stamps
  BY DEF Report
<1>3. \A s \in StateRow : s.ts \in Stamps \cup {0}
  BY DEF StateRow
<1>4. ASSUME NEW x \in Stamps PROVE x \in Nat \ {0}
  BY <1>1
<1>5. ASSUME NEW x \in Stamps \cup {0} PROVE x \in Nat
  BY <1>1
<1> QED
  BY <1>2, <1>3, <1>4, <1>5, Zenon

\* A report that supersedes the watermark has not been applied before.
LEMMA SupersedesIsNew ==
  ASSUME IInv, NEW m \in Msgs, NEW k \in Keys, report[m][k] \in Report, Supersedes(m, k)
  PROVE  m \notin applied[k]
<1> SUFFICES ASSUME m \in applied[k] PROVE FALSE
  OBVIOUS
<1>1. report[m][k].ts \in Nat /\ state[k].ts \in Nat
  BY TimesAreNat DEF IInv, Types
<1>2. report[m][k].ts = state[k].ts
  BY <1>1 DEF IInv, Latest, Supersedes
<1>3. ~state[k].active /\ report[m][k].active
  BY <1>2 DEF Supersedes
<1> QED
  BY <1>2, <1>3, Zenon DEF IInv, Latest

\* The transaction leaves the watermark of component k at the latest report.
LEMMA ApplyLatest ==
  ASSUME IInv, NEW m \in Msgs, NEW k \in Keys, report[m][k] \in Report,
         ApplyComponentAlarm(m, k), report' = report
  PROVE  Applied(k)' /\ Latest(k)'
<1>0. /\ applied'[k] = applied[k] \cup {m}
      /\ \A n \in applied[k] : n \in Msgs /\ report[n][k] \in Report /\ report[n][k].ts \in Nat
      /\ report[m][k].ts \in Nat \ {0} /\ state[k].ts \in Nat
  <2>1. applied'[k] = applied[k] \cup {m} /\ applied[k] \subseteq Msgs
    BY DEF IInv, Types, ApplyComponentAlarm
  <2>2. \A n \in applied[k] : n \in Msgs /\ report[n][k] \in Report
    BY <2>1 DEF IInv, Types, Applied, Reported
  <2>3. state[k] \in StateRow
    BY DEF IInv, Types
  <2> QED
    BY <2>1, <2>2, <2>3, TimesAreNat
<1>1. Applied(k) /\ Latest(k)
  BY DEF IInv
<1>2. CASE Supersedes(m, k)
  <2>1. state'[k].ts = report[m][k].ts /\ state'[k].msg = m
        /\ state'[k].active = report[m][k].active
    BY <1>2 DEF ApplyComponentAlarm, Transition, Raise, Refresh, Recover, StayNormal, Advance,
       IInv, Types, StateRow
  <2>2. Applied(k)'
    BY <1>0, <1>1, <2>1, ComponentAssumption DEF Applied, Reported
  <2>3. \A n \in applied'[k] : report'[n][k].ts <= state'[k].ts
    BY <1>0, <1>1, <1>2, <2>1 DEF Latest, Supersedes
  <2>4. state'[k].active => \E n \in applied'[k] : report'[n][k].ts = state'[k].ts
                                                  /\ report'[n][k].active
    BY <1>0, <2>1, Zenon
  <2>5. ASSUME NEW n \in applied'[k], report'[n][k].ts = state'[k].ts, report'[n][k].active
        PROVE  state'[k].active
    <3>1. CASE n = m
      BY <3>1, <2>1, <2>5, Zenon
    <3>2. CASE n # m
      <4>1. report[m][k].ts = state[k].ts
        BY <3>2, <2>1, <2>5, <1>0, <1>1, <1>2 DEF Latest, Supersedes
      <4>2. report[m][k].active
        BY <4>1, <1>2, Zenon DEF Supersedes
      <4> QED
        BY <4>2, <2>1, Zenon
    <3> QED
      BY <3>1, <3>2
  <2>6. \E n \in applied'[k] : report'[n][k].ts = state'[k].ts
    BY <1>0, <2>1
  <2> QED
    BY <2>2, <2>3, <2>4, <2>5, <2>6, Zenon DEF Latest
<1>3. CASE ~Supersedes(m, k)
  <2>1. state' = state
    BY <1>3 DEF ApplyComponentAlarm
  <2>2. state[k].msg = m => m \in applied[k]
    BY <1>1, ComponentAssumption DEF Applied
  <2>3. CASE m \in applied[k]
    <3>1. applied'[k] = applied[k]
      BY <1>0, <2>3
    <3> QED
      BY <3>1, <2>1, <1>1 DEF Applied, Latest, Reported
  <2>4. CASE m \notin applied[k] /\ report[m][k].ts < state[k].ts
    <3>1. applied[k] # {} /\ report[m][k].ts # state[k].ts
      BY <2>4, <1>0, <1>1 DEF Applied
    <3>2. Applied(k)'
      BY <1>0, <1>1, <2>1, <3>1, ComponentAssumption DEF Applied, Reported
    <3>3. \A n \in applied'[k] : report'[n][k].ts <= state'[k].ts
      BY <1>0, <1>1, <2>1, <2>4 DEF Latest
    <3> QED
      BY <1>0, <1>1, <2>1, <3>1, <3>2, <3>3, Zenon DEF Latest
  <2>5. CASE report[m][k].ts = state[k].ts /\ (state[k].active \/ ~report[m][k].active)
    <3>1. applied[k] # {}
      BY <2>5, <1>0, <1>1 DEF Applied
    <3>2. Applied(k)'
      BY <1>0, <1>1, <2>1, <3>1, ComponentAssumption DEF Applied, Reported
    <3>3. \A n \in applied'[k] : report'[n][k].ts <= state'[k].ts
      BY <1>0, <1>1, <2>1, <2>5 DEF Latest
    <3> QED
      BY <1>0, <1>1, <2>1, <2>5, <3>1, <3>2, <3>3, Zenon DEF Latest
  <2>6. report[m][k].ts >= state[k].ts \/ report[m][k].ts < state[k].ts
    BY <1>0
  <2>7. report[m][k].ts # state[k].ts => m \in applied[k] \/ report[m][k].ts < state[k].ts
    BY <1>3, <2>2, <2>6 DEF Supersedes
  <2>8. report[m][k].ts >= state[k].ts /\ m \notin applied[k] =>
            report[m][k].ts = state[k].ts /\ (state[k].active \/ ~report[m][k].active)
    BY <1>3, <2>2, Zenon DEF Supersedes
  <2> QED
    BY <2>3, <2>4, <2>5, <2>6, <2>8, Zenon
<1> QED
  BY <1>2, <1>3

\* The transaction keeps the watermark and the alarms in agreement.
LEMMA ApplyNamed ==
  ASSUME IInv, NEW m \in Msgs, NEW k \in Keys, report[m][k] \in Report,
         ApplyComponentAlarm(m, k), reopened' = reopened
  PROVE  /\ state' \in [Keys -> StateRow] /\ alarms' \in [AlarmIds -> AlarmRow \cup {Nil}]
         /\ \A j \in Keys : j # k => state'[j] = state[j]
         /\ \A b \in AlarmIds : alarms[b] # Nil => alarms'[b] # Nil
         /\ \A j \in Keys : Named(j)'
         /\ \A b \in AlarmIds : Followed(b)'
<1>0. /\ state \in [Keys -> StateRow] /\ alarms \in [AlarmIds -> AlarmRow \cup {Nil}]
      /\ \A j \in Keys : Named(j)
      /\ \A b \in AlarmIds : Followed(b)
      /\ Nil \notin AlarmIds /\ Nil \notin AlarmRow
  BY ComponentAssumption DEF IInv, Types
<1>a. \A j \in Keys : state[j].alarm \in AlarmIds \cup {Nil} /\ state[j].event \in Event
  BY <1>0 DEF StateRow
<1>r. report[m][k].ts \in Stamps /\ report[m][k].active \in BOOLEAN
  BY DEF Report
<1>1. CASE UNCHANGED <<state, alarms>>
  BY <1>0, <1>1 DEF Named, Followed, Live
<1>2. ASSUME NEW x \in AlarmIds \cup {Nil}, NEW e \in Event, Advance(m, k, x, e)
      PROVE  /\ state' \in [Keys -> StateRow]
             /\ \A j \in Keys : j # k => state'[j] = state[j]
             /\ state'[k].alarm = x /\ state'[k].event = e
             /\ state'[k].active = report[m][k].active
  <2> DEFINE t == [ts |-> report[m][k].ts, msg |-> m, active |-> report[m][k].active,
                   alarm |-> x, event |-> e]
  <2>1. t \in StateRow
    BY <1>r, <1>2 DEF StateRow
  <2>2. state' = [state EXCEPT ![k] = t]
    BY <1>2 DEF Advance
  <2>3. t.alarm = x /\ t.event = e /\ t.active = report[m][k].active
    OBVIOUS
  <2> HIDE DEF t
  <2> QED
    BY <1>0, <2>1, <2>2, <2>3
<1>3. CASE \E a \in AlarmIds : Raise(m, k, a)
  <2>1. PICK a \in AlarmIds : Raise(m, k, a)
    BY <1>3
  <2>2. /\ alarms[a] = Nil
        /\ alarms' \in [AlarmIds -> AlarmRow \cup {Nil}]
        /\ alarms'[a] # Nil /\ alarms'[a].key = k /\ alarms'[a].status = "ACTIVE"
        /\ \A b \in AlarmIds : b # a => alarms'[b] = alarms[b]
    BY <1>0, <2>1 DEF Raise, AlarmRow, Status
  <2>3. /\ state' \in [Keys -> StateRow]
        /\ \A j \in Keys : j # k => state'[j] = state[j]
        /\ state'[k].alarm = a /\ state'[k].event = "raised"
        /\ state'[k].active
    BY <1>2, <2>1 DEF Raise, Event
  <2>4. \A j \in Keys : Named(j)'
    BY <1>0, <1>a, <2>1, <2>2, <2>3 DEF Named
  <2>5. ASSUME NEW b \in AlarmIds PROVE Followed(b)'
    <3>1. CASE b = a
      BY <3>1, <2>2, <2>3 DEF Followed, Live
    <3>2. CASE b # a
      <4>1. ~(Live(b) /\ alarms[b].key = k)
        BY <1>0, <2>1 DEF Followed, Live, Raise, Open
      <4>2. alarms[b] # Nil => alarms[b].key \in Keys
        BY <1>0 DEF AlarmRow
      <4> QED
        BY <1>0, <3>2, <4>1, <4>2, <2>2, <2>3 DEF Followed, Live
    <3> QED
      BY <3>1, <3>2
  <2> QED
    BY <2>2, <2>3, <2>4, <2>5
<1>4. CASE Refresh(m, k)
  <2>1. /\ state' \in [Keys -> StateRow]
        /\ \A j \in Keys : j # k => state'[j] = state[j]
        /\ state'[k].alarm = state[k].alarm /\ state'[k].event = "none"
        /\ state'[k].active
    BY <1>2, <1>4, <1>a DEF Refresh, Event
  <2>2. alarms' = alarms /\ state[k].alarm # Nil
        /\ alarms[state[k].alarm].status # "RECOVERED"
    BY <1>4 DEF Refresh, Open
  <2>3. \A j \in Keys : Named(j)'
    BY <1>0, <2>1, <2>2 DEF Named
  <2>4. \A b \in AlarmIds : Followed(b)'
    BY <1>0, <2>1, <2>2 DEF Followed, Live, AlarmRow
  <2> QED
    BY <1>0, <2>1, <2>2, <2>3, <2>4
<1>5. CASE Recover(m, k)
  <2> DEFINE a == state[k].alarm
  <2>1. /\ state' \in [Keys -> StateRow]
        /\ \A j \in Keys : j # k => state'[j] = state[j]
        /\ state'[k].alarm = a /\ state'[k].event = "recovered"
        /\ ~state'[k].active
    BY <1>2, <1>5, <1>a DEF Recover, Event
  <2>2. a \in AlarmIds /\ alarms[a] \in AlarmRow /\ alarms[a].key = k
    BY <1>0, <1>a, <1>5 DEF Recover, Open, Named
  <2>3. /\ alarms' \in [AlarmIds -> AlarmRow \cup {Nil}]
        /\ alarms'[a] # Nil /\ alarms'[a].key = k /\ alarms'[a].status = "RECOVERED"
        /\ \A b \in AlarmIds : b # a => alarms'[b] = alarms[b]
    BY <1>0, <1>5, <2>2 DEF Recover, AlarmRow, Status
  <2>4. \A j \in Keys : Named(j)'
    BY <1>0, <1>a, <2>1, <2>2, <2>3 DEF Named
  <2>5. \A b \in AlarmIds : Followed(b)'
    <3> HIDE DEF a
    <3>1. ASSUME NEW b \in AlarmIds, b # a, Live(b)
          PROVE  alarms[b].key \in Keys /\ alarms[b].key # k
      <4>1. alarms[b].key \in Keys
        BY <1>0, <3>1 DEF AlarmRow, Live
      <4> QED
        BY <1>0, <3>1, <4>1 DEF Followed, a
    <3> QED
      BY <1>0, <2>1, <2>2, <2>3, <3>1 DEF Followed, Live
  <2> QED
    BY <2>1, <2>2, <2>3, <2>4, <2>5
<1>6. CASE StayNormal(m, k)
  <2>1. /\ state' \in [Keys -> StateRow]
        /\ \A j \in Keys : j # k => state'[j] = state[j]
        /\ state'[k].alarm = state[k].alarm /\ state'[k].event = "none"
        /\ ~state'[k].active
    BY <1>2, <1>6, <1>a DEF StayNormal, Event
  <2>2. alarms' = alarms
    BY <1>6 DEF StayNormal
  <2>3. \A j \in Keys : Named(j)'
    BY <1>0, <2>1, <2>2 DEF Named
  <2>4. ASSUME NEW b \in AlarmIds, Live(b)
        PROVE  alarms[b].key \in Keys /\ alarms[b].key # k
    <3>1. alarms[b].key \in Keys
      BY <1>0, <2>4 DEF AlarmRow, Live
    <3> QED
      BY <1>0, <1>6, <2>4, <3>1 DEF Followed, Live, StayNormal, Open
  <2>5. \A b \in AlarmIds : Followed(b)'
    BY <1>0, <2>1, <2>2, <2>4 DEF Followed, Live
  <2> QED
    BY <1>0, <2>1, <2>2, <2>3, <2>5
<1> QED
  BY <1>1, <1>3, <1>4, <1>5, <1>6 DEF ApplyComponentAlarm, Transition

\* A handler inside Apply, between two components of its message.
LEMMA ApplyKeeps ==
  ASSUME IInv, NEW h \in Handlers, Apply(h)
  PROVE  IInv'
<1> DEFINE m == task[h].msg
<1>1. PICK k \in task[h].todo :
        /\ First(task[h].todo, k)
        /\ ApplyComponentAlarm(m, k)
        /\ task' = [task EXCEPT ![h].pc = IF Result(m, k)[2] = "none" THEN "apply"
                                          ELSE "announce",
                                ![h].todo = @ \ {k},
                                ![h].alarm = Result(m, k)[1], ![h].event = Result(m, k)[2]]
  BY DEF Apply
<1>2. /\ m \in Msgs /\ k \in Keys /\ k \in Reported(m) /\ task[h].todo \subseteq Keys
      /\ At(h, "apply") /\ UNCHANGED <<report, reopened, processed, topic, desk, troubles>>
  BY <1>1 DEF Apply, IInv, Types, Progress, At, Reported
<1>3. report[m][k] \in Report
  BY <1>2 DEF IInv, Types, Reported
<1>t. task \in [Handlers -> TaskType]
  BY DEF IInv, Types
<1>m. m \in Msgs /\ report' = report /\ reopened' = reopened /\ ApplyComponentAlarm(m, k)
  BY <1>1, <1>2
<1> HIDE DEF m
<1>4. /\ state' \in [Keys -> StateRow] /\ alarms' \in [AlarmIds -> AlarmRow \cup {Nil}]
      /\ \A j \in Keys : j # k => state'[j] = state[j]
      /\ \A b \in AlarmIds : alarms[b] # Nil => alarms'[b] # Nil
      /\ \A j \in Keys : Named(j)'
      /\ \A b \in AlarmIds : Followed(b)'
  BY <1>2, <1>3, <1>m, ApplyNamed
<1>5. /\ applied' = [applied EXCEPT ![k] = @ \cup {m}]
      /\ applied' \in [Keys -> SUBSET Msgs]
      /\ m \in applied'[k]
      /\ \A j \in Keys : applied[j] \subseteq applied'[j]
      /\ \A j \in Keys : j # k => applied'[j] = applied[j]
  BY <1>2, <1>m DEF ApplyComponentAlarm, IInv, Types
<1>6. \A j \in Keys : Applied(j)' /\ Latest(j)'
  <2>1. Applied(k)' /\ Latest(k)'
    BY <1>2, <1>3, <1>m, ApplyLatest
  <2>2. ASSUME NEW j \in Keys, j # k PROVE Applied(j)' /\ Latest(j)'
    BY <1>4, <1>5, <1>m, <2>2 DEF IInv, Applied, Latest, Reported
  <2> QED
    BY <2>1, <2>2
<1>7. \E a \in AlarmIds \cup {Nil}, e \in Event :
         /\ Result(m, k)[1] = a /\ Result(m, k)[2] = e
         /\ e # "none" => a # Nil
  <2>1. state[k] \in StateRow /\ state'[k] \in StateRow /\ Named(k)'
    BY <1>2, <1>4 DEF IInv, Types
  <2>2. CASE Replays(m, k) \/ Supersedes(m, k)
    BY <2>1, <2>2 DEF Result, StateRow, Named
  <2>3. CASE ~(Replays(m, k) \/ Supersedes(m, k))
    BY <2>1, <2>3 DEF Result, StateRow, Event
  <2> QED
    BY <2>2, <2>3
<1>8. /\ task' \in [Handlers -> TaskType]
      /\ \A g \in Handlers : g # h => task'[g] = task[g]
      /\ task'[h].msg = m /\ task'[h].todo = task[h].todo \ {k}
      /\ At(h, "announce")' => task'[h].event # "none" /\ task'[h].alarm # Nil
  <2>1. PICK a \in AlarmIds \cup {Nil}, e \in Event :
          /\ Result(m, k)[1] = a /\ Result(m, k)[2] = e
          /\ e # "none" => a # Nil
    BY <1>7
  <2> DEFINE c == IF e = "none" THEN "apply" ELSE "announce"
  <2>2. task' = [task EXCEPT ![h].pc = c, ![h].todo = @ \ {k}, ![h].alarm = a, ![h].event = e]
    BY <1>1, <2>1 DEF m
  <2>3. c \in {"apply", "announce"} /\ (c = "announce" => e # "none")
    OBVIOUS
  <2> HIDE DEF c
  <2> QED
    BY <1>t, <2>1, <2>2, <2>3 DEF TaskType, m, At
<1>9. \A g \in Handlers : Progress(g)'
  <2>1. Progress(h)'
    <3>1. ASSUME NEW j \in Reported(m) \ (task[h].todo \ {k}) PROVE m \in applied'[j]
      <4>1. j \in Keys
        BY DEF Reported
      <4>2. CASE j = k
        BY <4>2, <1>5
      <4>3. CASE j \notin task[h].todo
        BY <4>1, <4>3, <1>2, <1>5 DEF IInv, Progress, At, m
      <4> QED
        BY <4>2, <4>3
    <3>2. task[h].todo \subseteq Reported(m)
      BY <1>2 DEF IInv, Progress, At, m
    <3>3. \A n \in Msgs : Reported(n)' = Reported(n)
      BY <1>m DEF Reported
    <3>4. (Reported(task[h].msg))' = Reported(m)
      BY <1>8, <1>m, <3>3 DEF Reported
    <3> QED
      BY <1>8, <1>m, <3>1, <3>2, <3>4 DEF Progress
  <2>2. ASSUME NEW g \in Handlers, g # h PROVE Progress(g)'
    <3>1. Progress(g) /\ task'[g] = task[g]
      BY <1>8, <2>2 DEF IInv
    <3>2. \A n \in Msgs : Reported(n)' = Reported(n) /\ Reported(n) \subseteq Keys
      BY <1>m DEF Reported
    <3> QED
      BY <3>1, <3>2, <1>5 DEF Progress, At
  <2> QED
    BY <2>1, <2>2
<1>10. Types'
  BY <1>2, <1>4, <1>5, <1>8 DEF IInv, Types
<1>11. Done'
  BY <1>2, <1>5 DEF IInv, Done, Reported, Types
<1>12. \A o \in Operators : Pending(o)'
  BY <1>2, <1>4 DEF IInv, Pending, Types, Update
<1> QED
  BY <1>4, <1>6, <1>9, <1>10, <1>11, <1>12 DEF IInv

\* A step that leaves the tables alone and moves one handler to a state that
\* Progress allows keeps the invariant.
LEMMA HandlerKeeps ==
  ASSUME IInv, NEW h \in Handlers, UNCHANGED <<report, rvars, desk>>,
         task' \in [Handlers -> TaskType],
         \A g \in Handlers : g # h => task'[g] = task[g],
         Progress(h)', processed' \subseteq Msgs, Done',
         topic' \subseteq {"raised", "recovered"} \X AlarmIds, troubles' \in 0 .. MaxTroubles
  PROVE  IInv'
<1>1. Types'
  BY DEF IInv, Types, rvars
<1>2. \A k \in Keys : Applied(k)' /\ Latest(k)' /\ Named(k)'
  BY DEF IInv, Applied, Latest, Named, Reported, rvars
<1>3. (\A a \in AlarmIds : Followed(a)') /\ (\A o \in Operators : Pending(o)')
  BY DEF IInv, Followed, Live, Pending, rvars
<1>4. ASSUME NEW g \in Handlers PROVE Progress(g)'
  BY <1>4 DEF IInv, Progress, At, Reported, rvars
<1> QED
  BY <1>1, <1>2, <1>3, <1>4 DEF IInv

\* A handler that becomes idle, whatever it did or did not achieve.
LEMMA IdleKeeps ==
  ASSUME IInv, NEW h \in Handlers, UNCHANGED <<report, rvars, desk, topic>>,
         task' = [task EXCEPT ![h] = Idle], processed' \subseteq Msgs, Done',
         troubles' \in 0 .. MaxTroubles
  PROVE  IInv'
<1>1. Idle \in TaskType /\ Idle.pc = "idle"
  BY DEF Idle, TaskType, Event
<1>2. task' \in [Handlers -> TaskType] /\ task'[h] = Idle
      /\ \A g \in Handlers : g # h => task'[g] = task[g]
  BY <1>1 DEF IInv, Types
<1>3. Progress(h)'
  BY <1>1, <1>2 DEF Progress, At
<1>4. topic' \subseteq {"raised", "recovered"} \X AlarmIds
  BY DEF IInv, Types
<1> QED
  BY <1>2, <1>3, <1>4, HandlerKeeps

\* The steps of a handler other than Apply.
LEMMA TaskKeeps ==
  ASSUME IInv, NEW h \in Handlers,
         (\E m \in Msgs : Claim(h, m)) \/ RaiseRefused(h) \/ Announce(h) \/ Finish(h) \/ Fail(h)
  PROVE  IInv'
<1>0. /\ task \in [Handlers -> TaskType] /\ processed \subseteq Msgs
      /\ topic \subseteq {"raised", "recovered"} \X AlarmIds /\ troubles \in 0 .. MaxTroubles
      /\ Done /\ Progress(h) /\ task[h] \in TaskType
  BY DEF IInv, Types
<1>1. ASSUME UNCHANGED <<report, applied, processed>> PROVE Done'
  BY <1>0, <1>1 DEF Done, Reported
<1>2. ASSUME NEW m \in Msgs, Claim(h, m) PROVE IInv'
  <2> DEFINE t == [Idle EXCEPT !.pc = "apply", !.msg = m, !.todo = Reported(m)]
  <2>1. /\ t \in TaskType /\ t.pc = "apply" /\ t.msg = m /\ t.todo = Reported(m)
        /\ task' = [task EXCEPT ![h] = t]
    BY <1>2 DEF Idle, TaskType, Event, Reported, Claim
  <2> HIDE DEF t
  <2>2. task' \in [Handlers -> TaskType] /\ task'[h] = t
        /\ \A g \in Handlers : g # h => task'[g] = task[g]
    BY <1>0, <2>1
  <2>3. \A n \in Msgs : Reported(n)' = Reported(n)
    BY <1>2 DEF Claim, Reported
  <2>4. Progress(h)'
    BY <2>1, <2>2, <2>3 DEF Progress, At
  <2>5. UNCHANGED <<report, rvars, processed, topic, desk, troubles>>
    BY <1>2 DEF Claim
  <2> QED
    BY <1>0, <1>1, <2>2, <2>4, <2>5, HandlerKeeps DEF rvars
<1>3. CASE RaiseRefused(h)
  <2>1. UNCHANGED <<report, rvars, processed, topic, desk, troubles>>
        /\ task' = [task EXCEPT ![h] = Idle]
    BY <1>3 DEF RaiseRefused
  <2> QED
    BY <1>0, <1>1, <2>1, IdleKeeps DEF rvars
<1>4. CASE Fail(h)
  <2>1. UNCHANGED <<report, rvars, processed, topic, desk>> /\ troubles' \in 0 .. MaxTroubles
        /\ task' = [task EXCEPT ![h] = Idle]
    BY <1>0, <1>4, ComponentAssumption DEF Fail, Trouble
  <2> QED
    BY <1>0, <1>1, <2>1, IdleKeeps DEF rvars
<1>5. CASE Finish(h)
  <2>1. UNCHANGED <<report, rvars, topic, desk, troubles>>
        /\ task' = [task EXCEPT ![h] = Idle]
        /\ processed' = processed \cup {task[h].msg} /\ task[h].msg \in Msgs
        /\ \A k \in Reported(task[h].msg) : task[h].msg \in applied[k]
    BY <1>0, <1>5 DEF Finish, Progress, At
  <2>2. Done'
    BY <1>0, <2>1 DEF Done, Reported, rvars
  <2> QED
    BY <1>0, <2>1, <2>2, IdleKeeps DEF rvars
<1>6. CASE Announce(h)
  <2>1. UNCHANGED <<report, rvars, processed, desk, troubles>>
        /\ task[h].msg \in Msgs /\ task[h].event \in {"raised", "recovered"}
        /\ task[h].alarm \in AlarmIds
    BY <1>0, <1>6 DEF Announce, Progress, At, TaskType, Event
  <2>2. /\ task' \in [Handlers -> TaskType]
        /\ task'[h].pc = "apply" /\ task'[h].msg = task[h].msg /\ task'[h].todo = task[h].todo
        /\ \A g \in Handlers : g # h => task'[g] = task[g]
    BY <1>0, <1>6 DEF Announce, TaskType, Event
  <2>3. \A n \in Msgs : Reported(n)' = Reported(n)
    BY <2>1 DEF Reported
  <2>4. Progress(h)'
    BY <1>0, <1>6, <2>1, <2>2, <2>3 DEF Progress, At, Announce, rvars
  <2>5. topic' \subseteq {"raised", "recovered"} \X AlarmIds
    BY <1>0, <1>6, <2>1 DEF Announce
  <2> QED
    BY <1>0, <1>1, <2>1, <2>2, <2>4, <2>5, HandlerKeeps DEF rvars
<1> QED
  BY <1>2, <1>3, <1>4, <1>5, <1>6

\* The operator's two steps.
LEMMA DeskKeeps ==
  ASSUME IInv, NEW o \in Operators,
         \/ UpdateAlarm(o)
         \/ \E a \in AlarmIds : FuseVideoAlarm(o, a)
         \/ \E a \in AlarmIds, s \in {"ACKED", "CLOSED", "SUPPRESSED"} : GetAlarm(o, a, s)
  PROVE  IInv'
<1>0. /\ alarms \in [AlarmIds -> AlarmRow \cup {Nil}] /\ desk \in [Operators -> Update \cup {Nil}]
      /\ state \in [Keys -> StateRow]
      /\ Nil \notin AlarmIds /\ Nil \notin AlarmRow /\ Nil \notin Update
  BY ComponentAssumption DEF IInv, Types
<1>1. UNCHANGED <<report, state, applied, processed, topic, task, troubles>>
  BY DEF UpdateAlarm, GetAlarm, FuseVideoAlarm, rvars
<1>2. /\ \A k \in Keys : Applied(k)' /\ Latest(k)'
      /\ \A h \in Handlers : Progress(h)'
      /\ Done'
  BY <1>1 DEF IInv, Applied, Latest, Progress, At, Done, Reported
<1>3. CASE UpdateAlarm(o)
  <2>1. /\ desk[o] \in Update /\ desk[o].alarm \in AlarmIds
        /\ desk[o].status \in {"ACTIVE", "ACKED", "CLOSED", "SUPPRESSED"}
        /\ alarms[desk[o].alarm] \in AlarmRow
    BY <1>0, <1>3 DEF UpdateAlarm, IInv, Pending, Update
  <2>2. desk' = [desk EXCEPT ![o] = Nil] /\ desk' \in [Operators -> Update \cup {Nil}]
    BY <1>0, <1>3 DEF UpdateAlarm
  <2>3. /\ alarms' \in [AlarmIds -> AlarmRow \cup {Nil}]
        /\ \A b \in AlarmIds : alarms[b] # Nil => /\ alarms'[b] # Nil
                                                 /\ alarms'[b].key = alarms[b].key
                                                 /\ \/ alarms'[b] = alarms[b]
                                                    \/ alarms'[b].status # "RECOVERED"
        /\ \A b \in AlarmIds : alarms[b] = Nil => alarms'[b] = Nil
    <3>1. alarms' = alarms \/ alarms' = [alarms EXCEPT ![desk[o].alarm].status = desk[o].status]
      BY <1>3 DEF UpdateAlarm
    <3>2. CASE alarms' = alarms
      BY <1>0, <3>2
    <3>3. CASE alarms' = [alarms EXCEPT ![desk[o].alarm].status = desk[o].status]
      BY <1>0, <2>1, <3>3 DEF AlarmRow, Status
    <3> QED
      BY <3>1, <3>2, <3>3
  <2>8. reopened' \subseteq AlarmIds /\ reopened \subseteq reopened'
    BY <1>3, <2>1 DEF UpdateAlarm, IInv, Types
  <2>4. Types'
    BY <1>1, <2>2, <2>3, <2>8 DEF IInv, Types
  <2>5. \A k \in Keys : Named(k)'
    <3>1. \A k \in Keys : state[k].alarm \in AlarmIds \cup {Nil}
      BY <1>0 DEF StateRow
    <3> QED
      BY <1>1, <2>3, <3>1 DEF IInv, Named
  <2>6. ASSUME NEW a \in AlarmIds PROVE Followed(a)'
    <3>1. Live(a)' => Live(a)
      <4>1. CASE a # desk[o].alarm \/ alarms' = alarms
        <5>1. alarms'[a] = alarms[a]
          BY <1>0, <1>3, <2>1, <4>1 DEF UpdateAlarm
        <5> QED
          BY <2>8, <5>1 DEF Live
      <4>2. CASE a = desk[o].alarm /\ alarms' # alarms
        <5>1. /\ alarms'[a].status = desk[o].status
              /\ desk[o].status \in {"ACTIVE", "ACKED"} /\ ~Open(a) => a \in reopened'
          BY <1>0, <1>3, <2>1, <4>2 DEF UpdateAlarm, AlarmRow
        <5> QED
          BY <1>0, <2>1, <2>8, <4>2, <5>1 DEF Live, Open
      <4> QED
        BY <4>1, <4>2
    <3>2. alarms[a] # Nil => alarms'[a].key = alarms[a].key
      BY <2>3
    <3> QED
      BY <1>1, <3>1, <3>2 DEF IInv, Followed, Live
  <2>7. \A u \in Operators : Pending(u)'
    BY <1>0, <2>2, <2>3 DEF IInv, Pending, Update
  <2> QED
    BY <1>2, <2>4, <2>5, <2>6, <2>7 DEF IInv
<1>4. CASE ~UpdateAlarm(o)
  <2>1. PICK a \in AlarmIds, s \in {"ACTIVE", "ACKED", "CLOSED", "SUPPRESSED"} :
            /\ alarms[a] # Nil
            /\ desk' = [desk EXCEPT ![o] = [alarm |-> a, status |-> s]]
            /\ UNCHANGED rvars
    BY <1>4 DEF GetAlarm, FuseVideoAlarm
  <2> DEFINE u == [alarm |-> a, status |-> s]
  <2>2. u \in Update /\ u.alarm = a /\ alarms[a] # Nil /\ alarms' = alarms /\ reopened' = reopened
        /\ desk' = [desk EXCEPT ![o] = u]
    BY <2>1 DEF Update, rvars
  <2> HIDE DEF u
  <2>3. Types'
    BY <1>0, <1>1, <2>2 DEF IInv, Types
  <2>4. (\A k \in Keys : Named(k)') /\ (\A b \in AlarmIds : Followed(b)')
    BY <1>1, <2>2 DEF IInv, Named, Followed, Live
  <2>5. \A v \in Operators : Pending(v)'
    BY <1>0, <2>2 DEF IInv, Pending
  <2> QED
    BY <1>2, <2>3, <2>4, <2>5 DEF IInv
<1> QED
  BY <1>3, <1>4

\* Every step keeps the invariant.
THEOREM NextIInv == IInv /\ [Next]_vars => IInv'
<1> SUFFICES ASSUME IInv, [Next]_vars PROVE IInv'
  OBVIOUS
<1>1. CASE UNCHANGED vars
  <2>1. Types' /\ Done'
    BY <1>1 DEF IInv, Types, Done, Reported, vars, rvars
  <2>2. \A k \in Keys : Applied(k)' /\ Latest(k)' /\ Named(k)'
    BY <1>1 DEF IInv, Applied, Latest, Named, Reported, vars, rvars
  <2>3. /\ \A a \in AlarmIds : Followed(a)'
        /\ \A h \in Handlers : Progress(h)'
        /\ \A o \in Operators : Pending(o)'
    BY <1>1 DEF IInv, Followed, Live, Progress, Pending, At, Reported, vars, rvars
  <2> QED
    BY <2>1, <2>2, <2>3 DEF IInv
<1> QED
  BY <1>1, ApplyKeeps, TaskKeeps, DeskKeeps DEF Next

\* The state keeps its shape, and a message is marked processed only when all its
\* reports have been applied.
THEOREM ProcessedIsApplied == Spec => []TypeOK
<1>1. IInv => TypeOK
  BY DEF IInv, Types, Done, TypeOK, StateRow, TaskType
<1> QED
  BY <1>1, InitIInv, NextIInv, PTL DEF Spec

\* The watermark is the latest report applied, in any order and however often.
THEOREM WatermarkConverges == Spec => []WatermarkIsLatest
<1>1. IInv => WatermarkIsLatest
  BY DEF IInv, Latest, WatermarkIsLatest
<1> QED
  BY <1>1, InitIInv, NextIInv, PTL DEF Spec

\* Open alarms that no late write has reopened are named by their watermark, and an
\* active component has an alarm, whatever operators and video alarms write late.
THEOREM LifecycleAgrees == Spec => []LifecycleFollowsWatermark
<1>1. IInv => LifecycleFollowsWatermark
  BY DEF IInv, Followed, Live, Named, Open, LifecycleFollowsWatermark
<1> QED
  BY <1>1, InitIInv, NextIInv, PTL DEF Spec

\* The three together: the reports applied decide the state and its alarms.
THEOREM ReportsDecideAlways == Spec => []ReportsDecide
  BY ProcessedIsApplied, WatermarkConverges, LifecycleAgrees, PTL DEF ReportsDecide

\* A message applied again changes no watermark.
THEOREM ReplayChangesNothing == Spec => ReplayIsIdempotent
<1> DEFINE A == \A k \in Keys : state'[k] # state[k] => applied'[k] # applied[k]
<1>1. ASSUME IInv, [Next]_vars PROVE A
  <2> SUFFICES ASSUME NEW k \in Keys, state'[k] # state[k] PROVE applied'[k] # applied[k]
    OBVIOUS
  <2>1. PICK h \in Handlers : Apply(h)
    BY <1>1 DEF Next, vars, rvars, Claim, RaiseRefused, Announce, Finish, Fail, GetAlarm, UpdateAlarm,
       FuseVideoAlarm
  <2>2. PICK j \in task[h].todo : ApplyComponentAlarm(task[h].msg, j)
    BY <2>1 DEF Apply
  <2>3. task[h].msg \in Msgs /\ j \in Keys /\ report[task[h].msg][j] \in Report
    BY <1>1, <2>1, <2>2 DEF Apply, At, IInv, Types, Progress, Reported
  <2>4. j = k
    BY <1>1, <2>1, <2>2, <2>3, ApplyNamed DEF Apply
  <2>5. Supersedes(task[h].msg, j)
    BY <2>2, <2>4 DEF ApplyComponentAlarm
  <2>6. task[h].msg \notin applied[j]
    BY <1>1, <2>3, <2>5, SupersedesIsNew
  <2>7. applied'[j] = applied[j] \cup {task[h].msg}
    BY <1>1, <2>2, <2>3 DEF ApplyComponentAlarm, IInv, Types
  <2> QED
    BY <2>4, <2>6, <2>7
<1>2. IInv /\ [Next]_vars => [A]_vars
  BY <1>1
<1> QED
  BY <1>2, InitIInv, NextIInv, PTL DEF Spec, ReplayIsIdempotent

-----------------------------------------------------------------------------
(* Announcements.  The event of a watermark is on its way from the commit of *)
(* the transition until it is published: whoever still has the message       *)
(* either has yet to apply the component, and will then find the event by    *)
(* Replays, or is about to publish it.                                       *)

Origin(k) == state[k].event # "none" =>
    /\ state[k].msg \in Msgs
    /\ report[state[k].msg][k] \in Report
    /\ state[k].ts = report[state[k].msg][k].ts

WillAnnounce(h, k) == ~At(h, "idle") /\ task[h].msg = state[k].msg =>
    \/ k \in task[h].todo
    \/ /\ At(h, "announce")
       /\ task[h].event = state[k].event
       /\ task[h].alarm = state[k].alarm

OnItsWay(k) == state[k].event # "none" =>
    \/ <<state[k].event, state[k].alarm>> \in topic
    \/ /\ state[k].msg \notin processed
       /\ \A h \in Handlers : WillAnnounce(h, k)

AInv == \A k \in Keys : Origin(k) /\ OnItsWay(k)

\* The event of the component that Apply works on: a new transition comes from a
\* message nobody has applied, and a repetition finds the event again.
LEMMA ApplyAnnounces ==
  ASSUME IInv, AInv, NEW h \in Handlers, Apply(h)
  PROVE  AInv'
<1> DEFINE m == task[h].msg
<1>1. PICK k \in task[h].todo :
        /\ ApplyComponentAlarm(m, k)
        /\ task' = [task EXCEPT ![h].pc = IF Result(m, k)[2] = "none" THEN "apply"
                                          ELSE "announce",
                                ![h].todo = @ \ {k},
                                ![h].alarm = Result(m, k)[1], ![h].event = Result(m, k)[2]]
        /\ UNCHANGED <<report, processed, topic>>
  BY DEF Apply
<1>2. /\ task \in [Handlers -> TaskType] /\ task[h] \in TaskType /\ task[h].pc = "apply"
      /\ m \in Msgs /\ k \in Keys /\ k \in Reported(m) /\ report[m][k] \in Report
      /\ state \in [Keys -> StateRow] /\ state[k] \in StateRow
  BY <1>1 DEF Apply, At, IInv, Types, Progress, Reported, TaskType
<1>3. \A g \in Handlers : g # h => task'[g] = task[g]
  BY <1>1, <1>2
<1>4. /\ task'[h].msg = m /\ task'[h].todo = task[h].todo \ {k}
      /\ task'[h].pc = IF Result(m, k)[2] = "none" THEN "apply" ELSE "announce"
      /\ task'[h].event = Result(m, k)[2] /\ task'[h].alarm = Result(m, k)[1]
  BY <1>1, <1>2 DEF TaskType
<1>5. ASSUME NEW j \in Keys, j # k PROVE Origin(j)' /\ OnItsWay(j)'
  <2>1. state'[j] = state[j]
    BY <1>1, <1>2, <1>5 DEF ApplyComponentAlarm, Transition, Raise, Refresh, Recover, StayNormal,
                            Advance
  <2>2. Origin(j) /\ OnItsWay(j)
    BY <1>5 DEF AInv
  <2>3. Origin(j)'
    BY <1>1, <2>1, <2>2 DEF Origin
  <2>4. ASSUME NEW g \in Handlers, WillAnnounce(g, j) PROVE WillAnnounce(g, j)'
    <3>1. CASE g = h
      BY <1>2, <1>4, <1>5, <2>1, <2>4, <3>1 DEF WillAnnounce, At
    <3>2. CASE g # h
      BY <1>3, <2>1, <2>4, <3>2 DEF WillAnnounce, At
    <3> QED BY <3>1, <3>2
  <2>5. OnItsWay(j)'
    BY <1>1, <2>1, <2>2, <2>4 DEF OnItsWay
  <2> QED BY <2>3, <2>5
<1>6. CASE Supersedes(m, k)
  <2>1. m \notin applied[k]
    BY <1>2, <1>6, SupersedesIsNew
  <2>2. m \notin processed
    BY <1>2, <2>1 DEF IInv, Done
  <2>3. /\ state'[k].msg = m /\ state'[k].ts = report[m][k].ts
        /\ Result(m, k) = <<state'[k].alarm, state'[k].event>>
    <3>1. \E a, e : Advance(m, k, a, e)
      BY <1>1, <1>6 DEF ApplyComponentAlarm, Transition, Raise, Refresh, Recover, StayNormal
    <3>2. state'[k].msg = m /\ state'[k].ts = report[m][k].ts
      BY <1>2, <3>1 DEF Advance
    <3>3. Result(m, k) = <<state'[k].alarm, state'[k].event>>
      BY <1>6 DEF Result
    <3> QED BY <3>2, <3>3
  <2>4. Origin(k)'
    BY <1>1, <1>2, <2>3 DEF Origin
  <2>5. ASSUME NEW g \in Handlers, state'[k].event # "none" PROVE WillAnnounce(g, k)'
    <3>1. CASE g = h
      BY <1>4, <2>3, <2>5, <3>1 DEF WillAnnounce, At
    <3>2. CASE g # h
      <4>1. Progress(g)
        BY DEF IInv
      <4> QED BY <1>2, <1>3, <2>1, <2>3, <3>2, <4>1 DEF WillAnnounce, At, Progress
    <3> QED BY <3>1, <3>2
  <2>6. OnItsWay(k)'
    BY <1>1, <2>2, <2>3, <2>5 DEF OnItsWay
  <2> QED BY <1>5, <2>4, <2>6 DEF AInv
<1>7. CASE ~Supersedes(m, k)
  <2>1. state' = state
    BY <1>1, <1>7 DEF ApplyComponentAlarm
  <2>2. Origin(k) /\ OnItsWay(k)
    BY <1>2 DEF AInv
  <2>3. Origin(k)'
    BY <1>1, <2>1, <2>2 DEF Origin
  <2>4. ASSUME NEW g \in Handlers, WillAnnounce(g, k), state[k].event # "none"
        PROVE  WillAnnounce(g, k)'
    <3>1. CASE g = h /\ state[k].msg = m
      <4>1. Result(m, k) = <<state[k].alarm, state[k].event>>
        BY <2>1, <2>2, <2>4, <3>1 DEF Origin, Result, Replays
      <4> QED BY <1>4, <2>1, <2>4, <3>1, <4>1 DEF WillAnnounce, At
    <3>2. CASE g = h /\ state[k].msg # m
      BY <1>4, <2>1, <3>2 DEF WillAnnounce
    <3>3. CASE g # h
      BY <1>3, <2>1, <2>4, <3>3 DEF WillAnnounce, At
    <3> QED BY <3>1, <3>2, <3>3
  <2>5. OnItsWay(k)'
    BY <1>1, <2>1, <2>2, <2>4 DEF OnItsWay
  <2> QED BY <1>5, <2>3, <2>5 DEF AInv
<1> QED BY <1>6, <1>7

\* The other steps leave the watermarks alone.
LEMMA OthersAnnounce ==
  ASSUME IInv, AInv, UNCHANGED <<report, state>>, topic \subseteq topic',
         \A h \in Handlers, k \in Keys : WillAnnounce(h, k) =>
            WillAnnounce(h, k)' \/ <<state[k].event, state[k].alarm>> \in topic',
         \A k \in Keys : state[k].event # "none" /\ state[k].msg \notin processed
                         /\ (\A h \in Handlers : WillAnnounce(h, k)) =>
            state[k].msg \notin processed' \/ <<state[k].event, state[k].alarm>> \in topic'
  PROVE  AInv'
<1> SUFFICES ASSUME NEW k \in Keys PROVE Origin(k)' /\ OnItsWay(k)'
  BY DEF AInv
<1>1. Origin(k) /\ OnItsWay(k)
  BY DEF AInv
<1> QED BY <1>1 DEF Origin, OnItsWay

\* Every step keeps the events on their way.
LEMMA NextAnnounces == IInv /\ AInv /\ [Next]_vars => AInv'
<1> SUFFICES ASSUME IInv, AInv, [Next]_vars PROVE AInv'
  OBVIOUS
<1>t. task \in [Handlers -> TaskType]
  BY DEF IInv, Types
<1>1. ASSUME NEW h \in Handlers, NEW m \in Msgs, Claim(h, m) PROVE AInv'
  <2> DEFINE t == [Idle EXCEPT !.pc = "apply", !.msg = m, !.todo = Reported(m)]
  <2>1. /\ t.pc = "apply" /\ t.msg = m /\ t.todo = Reported(m)
        /\ task' = [task EXCEPT ![h] = t]
        /\ UNCHANGED <<report, rvars, processed, topic>>
    BY <1>1 DEF Idle, Claim
  <2> HIDE DEF t
  <2>2. ASSUME NEW g \in Handlers, NEW k \in Keys, WillAnnounce(g, k), state[k].event # "none"
        PROVE  WillAnnounce(g, k)'
    <3>1. CASE g = h /\ state[k].msg = m
      <4>1. k \in Reported(m)
        BY <2>2, <3>1, ComponentAssumption DEF AInv, Origin, Reported
      <4> QED BY <1>t, <2>1, <3>1, <4>1 DEF WillAnnounce
    <3>2. CASE g = h /\ state[k].msg # m
      BY <1>t, <2>1, <3>2 DEF WillAnnounce, rvars
    <3>3. CASE g # h
      BY <1>t, <2>1, <2>2, <3>3 DEF WillAnnounce, At, rvars
    <3> QED BY <3>1, <3>2, <3>3
  <2> QED BY <2>1, <2>2 DEF AInv, Origin, OnItsWay, rvars
<1>2. ASSUME NEW h \in Handlers, RaiseRefused(h) \/ Fail(h) \/ Finish(h) PROVE AInv'
  <2>1. /\ task' = [task EXCEPT ![h] = Idle] /\ Idle.pc = "idle"
        /\ UNCHANGED <<report, state, topic>>
    BY <1>2 DEF RaiseRefused, Fail, Finish, Idle, rvars
  <2>2. \A g \in Handlers, k \in Keys : WillAnnounce(g, k) => WillAnnounce(g, k)'
    BY <1>t, <2>1 DEF WillAnnounce, At
  <2>3. CASE RaiseRefused(h) \/ Fail(h)
    BY <2>1, <2>2, <2>3, OthersAnnounce DEF RaiseRefused, Fail
  <2>4. CASE Finish(h)
    <3>1. ASSUME NEW k \in Keys, WillAnnounce(h, k), state[k].msg \notin processed
          PROVE  state[k].msg \notin processed'
      BY <2>4, <3>1 DEF Finish, WillAnnounce, At
    <3> QED BY <2>1, <2>2, <3>1, OthersAnnounce
  <2> QED BY <1>2, <2>3, <2>4
<1>3. ASSUME NEW h \in Handlers, Announce(h) PROVE AInv'
  <2>1. /\ task[h] \in TaskType /\ task[h].pc = "announce"
        /\ topic' = topic \cup {<<task[h].event, task[h].alarm>>}
        /\ UNCHANGED <<report, state, processed>>
    BY <1>3, <1>t DEF Announce, At, rvars
  <2>2. /\ task'[h].pc = "apply" /\ task'[h].msg = task[h].msg /\ task'[h].todo = task[h].todo
        /\ \A g \in Handlers : g # h => task'[g] = task[g]
    BY <1>3, <1>t DEF Announce, TaskType
  <2>3. ASSUME NEW g \in Handlers, NEW k \in Keys, WillAnnounce(g, k)
        PROVE  WillAnnounce(g, k)' \/ <<state[k].event, state[k].alarm>> \in topic'
    <3>1. CASE g = h
      BY <2>1, <2>2, <2>3, <3>1 DEF WillAnnounce, At
    <3>2. CASE g # h
      BY <2>1, <2>2, <2>3, <3>2 DEF WillAnnounce, At
    <3> QED BY <3>1, <3>2
  <2>4. topic \subseteq topic'
    BY <2>1
  <2> QED BY <2>1, <2>3, <2>4, OthersAnnounce
<1>4. ASSUME UNCHANGED <<report, state, processed, topic, task>> PROVE AInv'
  <2>1. \A g \in Handlers, k \in Keys : WillAnnounce(g, k) => WillAnnounce(g, k)'
    BY <1>4 DEF WillAnnounce, At
  <2> QED BY <1>4, <2>1, OthersAnnounce
<1>5. ASSUME NEW o \in Operators,
             \/ UpdateAlarm(o)
             \/ \E a \in AlarmIds : FuseVideoAlarm(o, a)
             \/ \E a \in AlarmIds, s \in {"ACKED", "CLOSED", "SUPPRESSED"} : GetAlarm(o, a, s)
      PROVE  AInv'
  BY <1>4, <1>5 DEF UpdateAlarm, GetAlarm, FuseVideoAlarm, rvars
<1>6. CASE UNCHANGED vars
  BY <1>4, <1>6 DEF vars, rvars
<1> QED BY <1>1, <1>2, <1>3, <1>5, <1>6, ApplyAnnounces DEF Next

\* Once the message behind a watermark is marked processed, its transition has
\* been published, however often handlers failed between commit and publication.
THEOREM TransitionsAreAnnounced == Spec => []CurrentTransitionIsAnnounced
<1>1. Init => AInv
  BY DEF Init, AInv, Origin, OnItsWay, Fresh
<1>2. AInv => CurrentTransitionIsAnnounced
  BY DEF AInv, OnItsWay, CurrentTransitionIsAnnounced
<1> QED
  BY <1>1, <1>2, InitIInv, NextIInv, NextAnnounces, PTL DEF Spec

=============================================================================
