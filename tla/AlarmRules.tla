----------------------------- MODULE AlarmRules -----------------------------
(***************************************************************************)
(* handleStandard with rule alarms and direct alarms, run by the readers   *)
(* of EventBus for one device, against operators who create, disable and   *)
(* delete rules and change alarms, and against video alarms that mark the  *)
(* active ones.  Each repository call is a step, any call may fail, and a  *)
(* reader may die between two calls.                                       *)
(* Not here: component alarms (ComponentAlarm) and the device's state      *)
(* (DeviceState).                                                          *)
(***************************************************************************)
EXTENDS AlarmTable, EventBus, Functions

CONSTANTS
    TopicOf,        \* TopicOf[m]: the topic for the type of m
    Rules,          \* alarm rules
    Direct,         \* the source of direct alarms
    Others,         \* sources of rule alarms on other devices
    RuleOf,         \* RuleOf[s]: the rule of a source, or Direct
    Matching,       \* Matching[r]: messages whose fields satisfy the conditions
    Recovering,     \* Recovering[r]: messages that satisfy the recovery
    Reports,        \* messages of type ALARM_REPORT
    Clears,         \* other messages that carry alarm flags, all of them off
    Duration,       \* Duration[r]: for how long the conditions must hold
    Operators,      \* users, and video alarms inside fuseVideoAlarm
    BatchSize,      \* rows per page of closeRuleAlarms, 1000 in the code
    MaxTime,        \* bound: clock
    MaxEdits        \* bound: requests of operators and video alarms

ASSUME RulesAssumption ==
    /\ Sources = Rules \cup {Direct} \cup Others /\ Msgs \subseteq Triggers
    /\ Direct \notin Rules
    /\ RuleOf \in [Sources -> Rules \cup {Direct}]
    /\ RuleOf[Direct] = Direct /\ \A r \in Rules : RuleOf[r] = r
    /\ Reports \subseteq Msgs /\ Clears \subseteq Msgs /\ Reports \cap Clears = {}
    /\ \A r \in Rules : Duration[r] \in Nat
    /\ IsFiniteSet(AlarmIds) /\ BatchSize \in Nat \ {0}
    /\ MaxTime \in Nat /\ Nil \notin Nat \cup Operators

VARIABLES
    rule,       \* alarm_rule: rule[r] is "on", "off" or "absent"
    pending,    \* alarm_rule_pending: since when the conditions hold, or Nil
    order,      \* order[a]: the place of a row by last_triggered_at, latest first
    std,        \* standard_message: "none", "claimed" or "done"
    h,          \* h[t]: local state of the handler called by the reader of t
    op,         \* op[o]: local state of an operator's request
    clock,
    edits,
    covered,    \* history: reports that reached an alarm
    broken,     \* history: when a message last failed the conditions of r
    crossed,    \* history: rules whose conditions a message failed while another
                \*   handler was about to save a window
    late,       \* history: late[o] are the alarms that became ACTIVE since o's deletion began
    shifted     \* history: shifted[o] are the listings whose rows moved under o's paging

tables == <<rule, pending, order, std>>
people == <<op, clock, edits>>
hist == <<covered, broken, crossed, late, shifted>>
rvars == <<tables, h, people, hist>>
vars == <<bvars, alarm, rvars>>

IdleHandler == [pc |-> "idle", on |-> {}, todo |-> {}, r |-> Nil, since |-> 0, hit |-> FALSE,
                list |-> {}]
NewHandler == [IdleHandler EXCEPT !.pc = "claim"]
IdleRequest == [pc |-> "idle", kind |-> Nil, r |-> Nil, st |-> Nil, offset |-> 0, list |-> {}]

\* ORDER BY last_triggered_at DESC: a row that is triggered moves to the front, and one
\* that is written back from an earlier copy takes that copy's time.
Orders == {f \in [AlarmIds -> 1 .. Cardinality(AlarmIds)] : IsInjective(f)}

\* A message of another device has raised the alarm of its rule there.
RaisedElsewhere ==
    \E a \in AlarmIds, s \in Others, m \in Triggers \ Msgs :
        alarm = [b \in AlarmIds |->
                   IF b = a THEN [source |-> s, status |-> "ACTIVE", trigger |-> m, critical |-> FALSE]
                   ELSE Nil]

Init ==
    /\ BusInit
    /\ AlarmInit \/ RaisedElsewhere
    /\ rule = [r \in Rules |-> "on"]          \* saved earlier
    /\ pending \in [Rules -> {Nil, 0}]   \* a window may have begun earlier
    /\ order \in Orders
    /\ std = [m \in Msgs |-> "none"]
    /\ h = [t \in Topics |-> IdleHandler]
    /\ op = [o \in Operators |-> IdleRequest]
    /\ clock = 0 /\ edits = 0
    /\ covered = {}
    /\ broken = [r \in Rules |-> 0]
    /\ crossed = {}
    /\ late = [o \in Operators |-> {}]
    /\ shifted = [o \in Operators |-> {}]

\* History: an alarm that is ACTIVE now and was not is none that a running deletion
\* must close, and the rows a deletion has already paged past may have moved by the
\* write of somebody else.
Noted(a, by) ==
    /\ late' = [o \in Operators |->
                  IF op[o].kind = "delete" /\ a \notin WithStatus("ACTIVE")
                     /\ alarm'[a].status = "ACTIVE"
                  THEN late[o] \cup {a} ELSE late[o]]
    /\ shifted' = [o \in Operators |->
                     IF o # by /\ op[o].kind = "delete" /\ op[o].offset > 0
                     THEN shifted[o] \cup {op[o].st} ELSE shifted[o]]

Triggered(a) ==
    /\ order' = [b \in AlarmIds |-> IF b = a THEN 1
                                    ELSE IF order[b] < order[a] THEN order[b] + 1 ELSE order[b]]
    /\ Noted(a, Nil)

\* The place of a row that is no longer open is of no interest here.
Written(a, st, by) ==
    /\ IF st \in Open THEN order' \in Orders ELSE order' = order
    /\ UpdateAlarm(a, st, alarm[a].critical)
    /\ Noted(a, by)

\* The request of o is over; its history goes with it.
Over(o) ==
    /\ op' = [op EXCEPT ![o] = IdleRequest]
    /\ late' = [late EXCEPT ![o] = {}]
    /\ shifted' = [shifted EXCEPT ![o] = {}]

-----------------------------------------------------------------------------
(* The readers. *)

\* handleRaw publishes a parsed message on the topic of its type; one that is
\* published again (retries, replay) is there twice.
Arrive(t, m) == t = TopicOf[m] /\ Publish(t, m) /\ UNCHANGED <<alarm, rvars>>

Fetch(t) ==
    /\ FetchMessage(t)
    /\ h' = [h EXCEPT ![t] = NewHandler]
    /\ UNCHANGED <<alarm, tables, people, hist>>

Bury(t) ==
    /\ DeadLetter(t) \/ DeadLetterRefused(t)
    /\ UNCHANGED <<alarm, rvars>>

\* The reader goroutine returns; the process goes on without it.
End(t) == FetchFails(t) /\ UNCHANGED <<alarm, rvars>>

Commit(t) == CommitMessages(t) /\ UNCHANGED <<alarm, rvars>>

Stop(t) ==
    /\ StopReader(t)
    /\ h' = [h EXCEPT ![t] = IdleHandler]
    /\ UNCHANGED <<alarm, tables, people, hist>>

Resume(t) == Subscribe(t) /\ UNCHANGED <<alarm, rvars>>

-----------------------------------------------------------------------------
(* handleStandard.  At(t, pc) is the point a handler has reached.           *)

At(t, pc) == stage[t] = "handle" /\ h[t].pc = pc

\* A repository call failed: the handler returns the error.
ReturnError(t) ==
    /\ stage[t] = "handle"
    /\ Failed(t)
    /\ h' = [h EXCEPT ![t] = IF attempt[t] < MaxAttempts THEN NewHandler ELSE IdleHandler]
    /\ UNCHANGED <<alarm, tables, people, hist>>

BadReturnNil(t) == Handled(t) /\ h' = h

ReturnNil(t) == Handled(t) /\ h' = [h EXCEPT ![t] = IdleHandler]

ClaimStandardMessage(t) ==
    /\ At(t, "claim")
    /\ IF std[MessageAt(t)] = "done"
       THEN ReturnNil(t) /\ UNCHANGED std
       ELSE /\ std' = [std EXCEPT ![MessageAt(t)] = "claimed"]
            /\ h' = [h EXCEPT ![t].pc = "rules"]
            /\ UNCHANGED bvars
    /\ UNCHANGED <<alarm, rule, pending, order, people, hist>>

ListRules(t) ==
    /\ At(t, "rules")
    /\ h' = [h EXCEPT ![t] = [@ EXCEPT !.pc = "eval", !.hit = FALSE,
                              !.on = {r \in Rules : rule[r] = "on"},
                              !.todo = {r \in Rules : rule[r] # "absent"}]]
    /\ UNCHANGED <<bvars, alarm, tables, people, hist>>

MatchRule(t, r) == r \in h[t].on /\ MessageAt(t) \in Matching[r]

\* GetRulePending says that the conditions have held for long enough.
DurationSatisfied(r) ==
    Duration[r] = 0 \/ (pending[r] # Nil /\ clock - pending[r] >= Duration[r])

BadHit(t, r) == TRUE

\* ruleAlarmHandled is set after the duration check only.
HitAfter(t, r) == h[t].hit

\* durationSatisfied finds a window that has not lasted long enough: the next rule is
\* looked at.
MatchWaits(t, r) ==
    /\ At(t, "eval") /\ r \in h[t].todo /\ MatchRule(t, r) /\ ~DurationSatisfied(r)
    /\ pending[r] # Nil
    /\ h' = [h EXCEPT ![t].todo = @ \ {r}, ![t].hit = HitAfter(t, r)]
    /\ UNCHANGED <<bvars, alarm, tables, people, hist>>

\* durationSatisfied finds no window: it will save one that begins now.
MatchBegins(t, r) ==
    /\ At(t, "eval") /\ r \in h[t].todo /\ MatchRule(t, r) /\ ~DurationSatisfied(r)
    /\ pending[r] = Nil
    /\ h' = [h EXCEPT ![t].pc = "begin", ![t].r = r, ![t].since = clock,
                      ![t].hit = HitAfter(t, r)]
    /\ UNCHANGED <<bvars, alarm, tables, people, hist>>

\* since_at = LEAST(since_at, EXCLUDED.since_at)
Earlier(w, since) == IF w = Nil \/ since < w THEN since ELSE w

SaveRulePending(t) ==
    /\ At(t, "begin")
    /\ pending' = [pending EXCEPT ![h[t].r] = Earlier(@, h[t].since)]
    /\ h' = [h EXCEPT ![t].pc = "eval", ![t].todo = @ \ {h[t].r}, ![t].r = Nil, ![t].since = 0]
    /\ UNCHANGED <<bvars, alarm, rule, order, std, people, hist>>

MatchRaises(t, r) ==
    /\ At(t, "eval") /\ r \in h[t].todo /\ MatchRule(t, r) /\ DurationSatisfied(r)
    /\ h' = [h EXCEPT ![t].pc = "raise", ![t].r = r, ![t].hit = TRUE]
    /\ UNCHANGED <<bvars, alarm, tables, people, hist>>

\* raiseRuleAlarm: the stored alarm, new or open already, is read back.  What follows
\* it, the messages and actions, goes to other systems, and its errors are ignored.
RaiseRuleAlarm(t) ==
    /\ At(t, "raise")
    /\ \E saved \in AlarmIds, created \in BOOLEAN :
        /\ UpsertAlarm(h[t].r, MessageAt(t), saved, created)
        /\ Triggered(saved)
    /\ h' = [h EXCEPT ![t].pc = "eval", ![t].todo = @ \ {h[t].r}, ![t].r = Nil]
    /\ covered' = covered \cup {MessageAt(t)}
    /\ UNCHANGED <<bvars, rule, pending, std, people, broken, crossed>>

BadClearDuration(r) == pending' = pending

ClearDuration(r) == pending' = [pending EXCEPT ![r] = Nil]

\* The rule does not match (or is off): its window is closed, and a message
\* that satisfies the recovery goes on to recoverRuleAlarm.
NoMatch(t, r) ==
    /\ At(t, "eval") /\ r \in h[t].todo /\ ~MatchRule(t, r)
    /\ ClearDuration(r)
    /\ broken' = [broken EXCEPT ![r] = clock]
    /\ crossed' = IF \E u \in Topics : At(u, "begin") /\ h[u].r = r
                  THEN crossed \cup {r} ELSE crossed \ {r}
    /\ IF MessageAt(t) \in Recovering[r]
       THEN h' = [h EXCEPT ![t].pc = "list", ![t].r = r]
       ELSE h' = [h EXCEPT ![t].todo = @ \ {r}]
    /\ UNCHANGED <<bvars, alarm, rule, order, std, people, covered, late, shifted>>

\* After the last alarm of the list comes the next rule.
RecoverNext(t, left) ==
    h' = [h EXCEPT ![t] = IF left = {}
                          THEN [h[t] EXCEPT !.pc = "eval", !.todo = @ \ {h[t].r}, !.r = Nil, !.list = {}]
                          ELSE [h[t] EXCEPT !.pc = "recover", !.list = left]]

RecoverList(t) ==
    /\ At(t, "list")
    /\ RecoverNext(t, ListAlarms(h[t].r, "ACTIVE"))
    /\ UNCHANGED <<bvars, alarm, tables, people, hist>>

RecoverRuleAlarm(t) ==
    /\ At(t, "recover")
    /\ \E a \in h[t].list : Written(a, "RECOVERED", Nil) /\ RecoverNext(t, h[t].list \ {a})
    /\ UNCHANGED <<bvars, rule, pending, std, people, covered, broken, crossed>>

\* raiseDirectAlarm, for a report that no rule has taken.
RaiseDirectAlarm(t) ==
    /\ At(t, "eval") /\ h[t].todo = {}
    /\ MessageAt(t) \in Reports /\ ~h[t].hit
    /\ \E saved \in AlarmIds, created \in BOOLEAN :
        UpsertAlarm(Direct, MessageAt(t), saved, created) /\ Triggered(saved)
    /\ covered' = covered \cup {MessageAt(t)}
    /\ h' = [h EXCEPT ![t].pc = "mark"]
    /\ UNCHANGED <<bvars, rule, pending, std, people, broken, crossed>>

\* recoverDirectAlarms lists the ACTIVE alarms first, then the ACKED ones.
RecoverDirectList(t, pc, st, next) ==
    /\ At(t, pc) /\ h[t].todo = {} /\ h[t].list = {}
    /\ MessageAt(t) \in Clears
    /\ h' = [h EXCEPT ![t].list = ListAlarms(Direct, st), ![t].pc = next]
    /\ UNCHANGED <<bvars, alarm, tables, people, hist>>

RecoverDirectAlarm(t) ==
    /\ h[t].pc \in {"cleared", "mark"} /\ stage[t] = "handle"
    /\ \E a \in h[t].list :
        /\ Written(a, "RECOVERED", Nil)
        /\ h' = [h EXCEPT ![t].list = @ \ {a}]
    /\ UNCHANGED <<bvars, rule, pending, std, people, covered, broken, crossed>>

NoDirectAlarm(t) ==
    /\ At(t, "eval") /\ h[t].todo = {}
    /\ MessageAt(t) \notin Clears /\ (MessageAt(t) \notin Reports \/ h[t].hit)
    /\ h' = [h EXCEPT ![t].pc = "mark"]
    /\ UNCHANGED <<bvars, alarm, tables, people, hist>>

MarkProcessed(t) ==
    /\ At(t, "mark") /\ h[t].list = {}
    /\ std' = [std EXCEPT ![MessageAt(t)] = "done"]
    /\ ReturnNil(t)
    /\ UNCHANGED <<alarm, rule, pending, order, people, hist>>

HandleStandard(t) ==
    \/ ClaimStandardMessage(t)
    \/ ListRules(t)
    \/ \E r \in Rules : MatchWaits(t, r) \/ MatchBegins(t, r) \/ MatchRaises(t, r) \/ NoMatch(t, r)
    \/ SaveRulePending(t)
    \/ RaiseRuleAlarm(t)
    \/ RecoverList(t)
    \/ RecoverRuleAlarm(t)
    \/ RaiseDirectAlarm(t)
    \/ RecoverDirectList(t, "eval", "ACTIVE", "cleared")
    \/ RecoverDirectList(t, "cleared", "ACKED", "mark")
    \/ RecoverDirectAlarm(t)
    \/ NoDirectAlarm(t)
    \/ MarkProcessed(t)

-----------------------------------------------------------------------------
(* Operators and video alarms. *)

Request(o, rec) ==
    /\ op[o].pc = "idle"
    /\ edits < MaxEdits
    /\ edits' = edits + 1
    /\ op' = [op EXCEPT ![o] = rec]

\* saveRule for a rule that is switched on, in two steps: the current rule is
\* read (unless it is a new one), and the row is written whatever happened since.
SaveRuleOn(o, r) ==
    /\ Request(o, [IdleRequest EXCEPT !.pc = "save", !.kind = "on", !.r = r])
    /\ UNCHANGED <<bvars, alarm, tables, h, clock, hist>>

\* saveRule for a rule that was on and is switched off: DisableRule runs first.
SaveRuleOff(o, r) ==
    /\ rule[r] # "absent"
    /\ Request(o, [IdleRequest EXCEPT !.pc = IF rule[r] = "on" THEN "pendings" ELSE "save",
                                      !.kind = "off", !.r = r])
    /\ UNCHANGED <<bvars, alarm, tables, h, clock, hist>>

SaveRule(o) ==
    /\ op[o].pc = "save"
    /\ rule' = [rule EXCEPT ![op[o].r] = op[o].kind]
    /\ op' = [op EXCEPT ![o] = IdleRequest]
    /\ UNCHANGED <<bvars, alarm, pending, order, std, h, clock, edits, hist>>

\* deleteRule; a rule that is not there is an error and nothing else is done.
DeleteRule(o, r) ==
    /\ rule[r] # "absent"
    /\ Request(o, [IdleRequest EXCEPT !.pc = "pendings", !.kind = "delete", !.r = r])
    /\ rule' = [rule EXCEPT ![r] = "absent"]
    /\ UNCHANGED <<bvars, alarm, pending, order, std, h, clock, hist>>

DeleteRulePendings(o) ==
    /\ op[o].pc = "pendings"
    /\ pending' = [pending EXCEPT ![op[o].r] = Nil]
    /\ op' = [op EXCEPT ![o].pc = "close", ![o].st = "ACTIVE"]
    /\ UNCHANGED <<bvars, alarm, rule, order, std, h, clock, edits, hist>>

\* ListAlarms with a status, LIMIT BatchSize and OFFSET off, over the alarms of every
\* source.  The page is empty when off has reached the number of rows.
Position(a, st) == Cardinality({b \in WithStatus(st) : order[b] < order[a]})
Page(st, off) == {a \in WithStatus(st) : Position(a, st) \in off .. off + BatchSize - 1}
PageIsEmpty(st, off) == off >= Cardinality(WithStatus(st))

BadNextOffset(o, found) ==
    op[o].offset + Cardinality(Page(op[o].st, op[o].offset))

\* "Restart at zero so offset pagination cannot skip the next row."
NextOffset(o, found) ==
    IF found # {} THEN 0 ELSE op[o].offset + Cardinality(Page(op[o].st, op[o].offset))

\* The rule's alarms on every device.
OfRule(r, st) == {a \in WithStatus(st) : RuleOf[alarm[a].source] = r}

\* closeRuleAlarms takes a page and will close the rule's alarms among its rows.
ClosePage(o) ==
    /\ op[o].pc = "close" /\ op[o].list = {}
    /\ ~PageIsEmpty(op[o].st, op[o].offset)
    /\ LET found == Page(op[o].st, op[o].offset) \cap OfRule(op[o].r, op[o].st) IN
       /\ op' = [op EXCEPT ![o].list = found, ![o].offset = NextOffset(o, found)]
       /\ shifted' = [shifted EXCEPT ![o] = IF found # {} THEN @ \ {op[o].st} ELSE @]
    /\ UNCHANGED <<bvars, alarm, tables, h, clock, edits, covered, broken, crossed, late>>

BadCloseNext(o) ==
    /\ op[o].pc = "close" /\ op[o].list = {}
    /\ PageIsEmpty(op[o].st, op[o].offset)
    /\ IF op[o].kind = "delete" THEN Over(o)
       ELSE /\ op' = [op EXCEPT ![o].pc = "save", ![o].st = Nil, ![o].offset = 0]
            /\ UNCHANGED <<late, shifted>>
    /\ UNCHANGED <<bvars, alarm, tables, h, clock, edits, covered, broken, crossed>>

\* An empty page ends the ACTIVE alarms, then the ACKED ones.
CloseNext(o) ==
    /\ op[o].pc = "close" /\ op[o].list = {}
    /\ PageIsEmpty(op[o].st, op[o].offset)
    /\ IF op[o].st = "ACTIVE"
       THEN op' = [op EXCEPT ![o].st = "ACKED", ![o].offset = 0] /\ UNCHANGED <<late, shifted>>
       ELSE IF op[o].kind = "off"
       THEN /\ op' = [op EXCEPT ![o].pc = "save", ![o].st = Nil, ![o].offset = 0]
            /\ UNCHANGED <<late, shifted>>
       ELSE Over(o)
    /\ UNCHANGED <<bvars, alarm, tables, h, clock, edits, covered, broken, crossed>>

CloseAlarm(o) ==
    /\ op[o].pc = "close"
    /\ \E a \in op[o].list :
        /\ Written(a, "RECOVERED", o)
        /\ op' = [op EXCEPT ![o].list = @ \ {a}]
    /\ UNCHANGED <<bvars, rule, pending, std, h, clock, edits, covered, broken, crossed>>

\* SetAlarmStatus reads the alarm and refuses to acknowledge one that is not
\* active; the write comes later.  CLOSED stands for SUPPRESSED too.
ReadAlarm(o, a, st) ==
    /\ a \in Rows
    /\ st = "ACKED" => alarm[a].status = "ACTIVE"
    /\ Request(o, [IdleRequest EXCEPT !.pc = "status", !.st = st, !.list = {a}])
    /\ UNCHANGED <<bvars, alarm, tables, h, clock, hist>>

\* fuseVideoAlarm has listed an ACTIVE alarm and will write that copy back; each alarm
\* of its list is a request of its own.  The level it sets is left to VideoAlarm.
FuseVideoAlarm(o, a) ==
    /\ a \in WithStatus("ACTIVE")
    /\ Request(o, [IdleRequest EXCEPT !.pc = "status", !.st = "ACTIVE", !.list = {a}])
    /\ UNCHANGED <<bvars, alarm, tables, h, clock, hist>>

WriteAlarm(o) ==
    /\ op[o].pc = "status"
    /\ \E a \in op[o].list : Written(a, op[o].st, o)
    /\ op' = [op EXCEPT ![o] = IdleRequest]
    /\ UNCHANGED <<bvars, rule, pending, std, h, clock, edits, covered, broken, crossed>>

\* A call of the request fails and the request ends with an error.
RequestFails(o) ==
    /\ op[o].pc # "idle"
    /\ Over(o)
    /\ UNCHANGED <<bvars, alarm, tables, h, clock, edits, covered, broken, crossed>>

Operate(o) ==
    \/ \E r \in Rules : SaveRuleOn(o, r) \/ SaveRuleOff(o, r) \/ DeleteRule(o, r)
    \/ SaveRule(o)
    \/ DeleteRulePendings(o)
    \/ ClosePage(o)
    \/ CloseNext(o)
    \/ CloseAlarm(o)
    \/ \E a \in AlarmIds, st \in {"ACKED", "CLOSED"} : ReadAlarm(o, a, st)
    \/ \E a \in AlarmIds : FuseVideoAlarm(o, a)
    \/ WriteAlarm(o)
    \/ RequestFails(o)

Tick ==
    /\ clock < MaxTime
    /\ clock' = clock + 1
    /\ UNCHANGED <<bvars, alarm, tables, h, op, edits, hist>>

Reader(t) == Fetch(t) \/ End(t) \/ Bury(t) \/ Commit(t) \/ Resume(t)

Next ==
    \/ \E t \in Topics :
        \/ \E m \in Msgs : Arrive(t, m)
        \/ Reader(t)
        \/ Stop(t)
        \/ ReturnError(t)
        \/ HandleStandard(t)
    \/ \E o \in Operators : Operate(o)
    \/ Tick

Spec == Init /\ [][Next]_vars

-----------------------------------------------------------------------------
\* The shape of the state: a handler runs exactly while its reader waits for it, and
\* the alarms that requests and handlers hold on to exist.
RulesTypeOK ==
    /\ BusTypeOK /\ AlarmTypeOK
    /\ rule \in [Rules -> {"on", "off", "absent"}]
    /\ pending \in [Rules -> (0 .. MaxTime) \cup {Nil}]
    /\ order \in Orders
    /\ std \in [Msgs -> {"none", "claimed", "done"}]
    /\ \A t \in Topics : (h[t].pc = "idle") = (stage[t] # "handle")
    /\ \A t \in Topics : h[t].on \subseteq Rules /\ h[t].list \subseteq Rows
    /\ \A o \in Operators : op[o].list \subseteq Rows

\* "A missing rule must never discard a device-originated alarm": a report that
\* was processed has raised, or was counted by, an alarm, although rules come and
\* go between two attempts and a duration rule may only have opened its window.
ReportIsNeverDiscarded == \A m \in Reports : std[m] = "done" => m \in covered

\* A stored window never reaches back before a message that failed the rule's
\* conditions, unless that message came while another handler was between reading
\* no window and saving one: otherwise the duration counts an unbroken run.
WindowIsUnbroken ==
    \A r \in Rules \ crossed : pending[r] # Nil => pending[r] >= broken[r]

\* When a deletion returns, every alarm of the rule that was open when it began, on
\* any device, is closed, also one that was acknowledged while the deletion went on,
\* unless others moved rows behind the pages it had passed, or a late write made the
\* alarm ACTIVE again.
DeletionCloses ==
    [][\A o \in Operators :
         op[o].kind = "delete" /\ CloseNext(o) /\ op'[o].pc = "idle" /\ shifted[o] = {}
            => OfRule(op[o].r, "ACTIVE") \cup OfRule(op[o].r, "ACKED") \subseteq late[o]]_vars

\* An alarm that has ended is opened again only by writing back a copy read while it
\* was ACTIVE, for an acknowledgement or for the marks of a video alarm; messages,
\* which may hold an earlier list of the same alarms, raise a new one.
EndedStaysEnded ==
    [][\A a \in Rows : alarm[a].status \notin Open /\ alarm'[a].status \in Open
         => \E o \in Operators : op[o].pc = "status" /\ op[o].st \in Open /\ a \in op[o].list]_vars

\* Handling is sound: every report that was processed is in an alarm, and every
\* window whose save crossed no failed match is an unbroken run, although rules are
\* edited between any two calls.
HandlingIsSound == RulesTypeOK /\ ReportIsNeverDiscarded /\ WindowIsUnbroken

=============================================================================
