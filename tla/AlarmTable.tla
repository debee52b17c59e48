----------------------------- MODULE AlarmTable -----------------------------
(***************************************************************************)
(* The alarm_record table of one device, and the statements on it.  A      *)
(* source is a rule, the device itself (direct alarms) or a video alarm    *)
(* type: what the column rule_id tells apart.                              *)
(***************************************************************************)
EXTENDS Naturals, FiniteSets

CONSTANTS AlarmIds, Sources, Triggers, Nil

VARIABLE alarm      \* alarm[a]: the row, or Nil

Open == {"ACTIVE", "ACKED"}
Statuses == Open \cup {"RECOVERED", "CLOSED"}

Row == [source: Sources, status: Statuses, trigger: Triggers, critical: BOOLEAN]

ASSUME RowAssumption == Nil \notin Row

AlarmInit == alarm = [a \in AlarmIds |-> Nil]

Rows == {a \in AlarmIds : alarm[a] # Nil}

\* ListAlarms with a status filter.
WithStatus(st) == {a \in Rows : alarm[a].status = st}

ListAlarms(s, st) == {a \in WithStatus(st) : alarm[a].source = s}

OpenOf(s) == ListAlarms(s, "ACTIVE") \cup ListAlarms(s, "ACKED")

BadUpsertAlarm(s, m, saved, created) ==
    IF \E a \in Rows : alarm[a].source = s
    THEN /\ alarm[saved] # Nil /\ alarm[saved].source = s /\ ~created
         /\ alarm' = [alarm EXCEPT ![saved].status = "ACTIVE"]
    ELSE /\ alarm[saved] = Nil /\ created
         /\ alarm' = [alarm EXCEPT ![saved] =
                        [source |-> s, status |-> "ACTIVE", trigger |-> m, critical |-> FALSE]]

\* One transaction: an open alarm of the source is counted up and keeps its
\* trigger; otherwise a new row is inserted.
UpsertAlarm(s, m, saved, created) ==
    IF OpenOf(s) # {}
    THEN saved \in OpenOf(s) /\ ~created /\ UNCHANGED alarm
    ELSE /\ alarm[saved] = Nil /\ created
         /\ alarm' = [alarm EXCEPT ![saved] =
                        [source |-> s, status |-> "ACTIVE", trigger |-> m, critical |-> FALSE]]

\* The partial unique index refuses a second open row of a source.
IndexAllows(a, st) == st \in Open => OpenOf(alarm[a].source) \ {a} = {}

\* UpdateAlarm replaces the row by a copy read earlier; only the fields that
\* a writer may have changed since can differ.
UpdateAlarm(a, st, crit) ==
    /\ IndexAllows(a, st)
    /\ alarm' = [alarm EXCEPT ![a].status = st, ![a].critical = crit]

AlarmTypeOK == alarm \in [AlarmIds -> Row \cup {Nil}]

=============================================================================
