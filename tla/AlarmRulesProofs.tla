-------------------------- MODULE AlarmRulesProofs --------------------------
(***************************************************************************)
(* Proofs about EventBus and AlarmRules: for any number of topics, rules,  *)
(* alarms, operators and retries, offsets are committed only past settled  *)
(* messages, a processed report is in an alarm, a duration window is an    *)
(* unbroken run, and a deleted rule leaves none of its alarms open.        *)
(***************************************************************************)
EXTENDS AlarmRules, FiniteSetTheorems, TLAPS

-----------------------------------------------------------------------------
(* The bus.  A reader leaves an offset behind only settled or skipped, and  *)
(* resumes at an offset it has left behind already.                         *)

ReaderOK(t) ==
    /\ committed[t] <= pos[t]
    /\ 1 .. pos[t] \subseteq settled[t] \cup skipped[t]
    /\ stage[t] = "commit" => pos[t] + 1 \in settled[t]
    /\ stage[t] \in {"handle", "dead", "commit"} => pos[t] < Len(log[t])

BusInv == BusTypeOK /\ \A t \in Topics : ReaderOK(t)

\* Every subscription starts with nothing fetched and nothing committed.
LEMMA BusInitInv == BusInit => BusInv
BY BusAssumption DEF BusInit, BusInv, BusTypeOK, ReaderOK, Stages

\* No step of a reader, of a publisher or of a crash breaks the bus invariant.
LEMMA BusStepInv == BusInv /\ [BusNext]_bvars => BusInv'
<1> SUFFICES ASSUME BusInv, [BusNext]_bvars PROVE BusInv'
  OBVIOUS
<1> USE BusAssumption DEF BusInv, BusTypeOK, ReaderOK, Stages
<1>1. CASE UNCHANGED bvars
  BY <1>1 DEF bvars
<1>2. ASSUME NEW t \in Topics, NEW m \in Msgs, Publish(t, m) PROVE BusInv'
  <2>1. log' = [log EXCEPT ![t] = Append(log[t], m)] /\ Len(log'[t]) = Len(log[t]) + 1
        /\ log' \in [Topics -> Seq(Msgs)]
    BY <1>2 DEF Publish
  <2> QED BY <1>2, <2>1 DEF Publish
<1>3. ASSUME NEW t \in Topics, FetchMessage(t) PROVE BusInv'
  BY <1>3 DEF FetchMessage
<1>4. ASSUME NEW t \in Topics, Handled(t) PROVE BusInv'
  BY <1>4 DEF Handled
<1>5. ASSUME NEW t \in Topics, Failed(t) PROVE BusInv'
  <2>1. attempt' \in [Topics -> 0 .. MaxAttempts]
    <3>1. CASE attempt[t] < MaxAttempts
      <4>1. attempt[t] + 1 \in 0 .. MaxAttempts
        BY <3>1
      <4> QED BY <3>1, <4>1, <1>5 DEF Failed
    <3>2. CASE ~(attempt[t] < MaxAttempts)
      BY <3>2, <1>5 DEF Failed
    <3> QED BY <3>1, <3>2
  <2> QED BY <1>5, <2>1 DEF Failed
<1>6. ASSUME NEW t \in Topics, DeadLetter(t) PROVE BusInv'
  BY <1>6 DEF DeadLetter
<1>7. ASSUME NEW t \in Topics, DeadLetterRefused(t) PROVE BusInv'
  BY <1>7 DEF DeadLetterRefused, Trouble
<1>8. ASSUME NEW t \in Topics, CommitMessages(t) PROVE BusInv'
  <2>1. /\ stage[t] = "commit" /\ pos' = [pos EXCEPT ![t] = @ + 1] /\ stage' = [stage EXCEPT ![t] = "fetch"]
        /\ committed' \in {committed, [committed EXCEPT ![t] = pos[t] + 1]}
        /\ UNCHANGED <<log, attempt, settled, skipped>>
    BY <1>8 DEF CommitMessages
  <2>2. crashes' \in 0 .. MaxCrashes
    BY <1>8 DEF CommitMessages, Trouble
  <2>5. pos[t] + 1 \in Nat
    OBVIOUS
  <2>6. pos' \in [Topics -> Nat] /\ pos'[t] = pos[t] + 1 /\ \A u \in Topics : u # t => pos'[u] = pos[u]
    BY <2>1, <2>5
  <2>7. stage' \in [Topics -> Stages] /\ stage'[t] = "fetch" /\ \A u \in Topics : u # t => stage'[u] = stage[u]
    BY <2>1
  <2>8. /\ committed' \in [Topics -> Nat] /\ committed'[t] \in {committed[t], pos[t] + 1}
        /\ \A u \in Topics : u # t => committed'[u] = committed[u]
    BY <2>1, <2>5
  <2>4. ASSUME NEW u \in Topics PROVE ReaderOK(u)'
    <3>1. CASE u = t
      <4>1. 1 .. pos[t] + 1 \subseteq settled[t] \cup skipped[t]
        BY <2>1
      <4> QED BY <4>1, <3>1, <2>1, <2>6, <2>7, <2>8
    <3>2. CASE u # t
      BY <3>2, <2>1, <2>6, <2>7, <2>8
    <3> QED BY <3>1, <3>2
  <2> QED BY <2>1, <2>2, <2>4, <2>6, <2>7, <2>8
<1>9. ASSUME NEW t \in Topics, StopReader(t) PROVE BusInv'
  BY <1>9 DEF StopReader, Trouble
<1>10. ASSUME NEW t \in Topics, Subscribe(t) PROVE BusInv'
  BY <1>10 DEF Subscribe
<1>11. ASSUME NEW t \in Topics, FetchFails(t) PROVE BusInv'
  BY <1>11 DEF FetchFails, Trouble
<1> QED BY <1>1, <1>2, <1>3, <1>4, <1>5, <1>6, <1>7, <1>8, <1>9, <1>10, <1>11 DEF BusNext

\* What is committed was left behind by the reader, hence settled or skipped.
LEMMA BusInvSettled == BusInv => CommittedIsSettled
BY DEF BusInv, BusTypeOK, ReaderOK, CommittedIsSettled

-----------------------------------------------------------------------------
(* The alarm table: no statement removes a row or moves it to another       *)
(* source, and only an insertion makes a row ACTIVE.                        *)

\* An insertion leaves every row alone and adds at most the alarm it reports.
LEMMA UpsertKeeps ==
    ASSUME AlarmTypeOK, NEW s \in Sources, NEW m \in Triggers,
           NEW saved \in AlarmIds, NEW created \in BOOLEAN, UpsertAlarm(s, m, saved, created)
    PROVE  /\ AlarmTypeOK'
           /\ Rows \subseteq Rows'
           /\ \A a \in Rows : alarm'[a] = alarm[a]
           /\ ~created => alarm' = alarm
           /\ \A a \in AlarmIds \ {saved} : alarm'[a] = alarm[a]
<1>1. CASE OpenOf(s) # {}
  BY <1>1 DEF UpsertAlarm, AlarmTypeOK, Rows
<1>2. CASE OpenOf(s) = {}
  <2> DEFINE row == [source |-> s, status |-> "ACTIVE", trigger |-> m, critical |-> FALSE]
  <2>1. row \in Row
    BY DEF Row, Statuses, Open
  <2>2. alarm[saved] = Nil /\ created /\ alarm' = [alarm EXCEPT ![saved] = row]
    BY <1>2 DEF UpsertAlarm
  <2> HIDE DEF row
  <2> QED BY <2>1, <2>2 DEF AlarmTypeOK, Rows
<1> QED BY <1>1, <1>2

\* An update keeps the row, its source and every other row.
LEMMA UpdateKeeps ==
    ASSUME AlarmTypeOK, NEW a \in Rows, NEW st \in Statuses, UpdateAlarm(a, st, alarm[a].critical)
    PROVE  /\ AlarmTypeOK'
           /\ Rows \subseteq Rows'
           /\ \A b \in AlarmIds \ {a} : alarm'[b] = alarm[b]
           /\ alarm'[a].status = st /\ alarm'[a].source = alarm[a].source
           /\ \A b \in AlarmIds : b \in Rows' => b \in Rows
<1>1. a \in AlarmIds /\ alarm[a] \in Row
  BY DEF AlarmTypeOK, Rows
<1>2. alarm' = [alarm EXCEPT ![a] = [alarm[a] EXCEPT !.status = st, !.critical = alarm[a].critical]]
  BY <1>1 DEF UpdateAlarm, AlarmTypeOK, Row
<1>3. [alarm[a] EXCEPT !.status = st, !.critical = alarm[a].critical] \in Row
  BY <1>1 DEF Row
<1> QED BY <1>1, <1>2, <1>3, RowAssumption DEF AlarmTypeOK, Rows, Row

\* What a statement on one row leaves of the others: the alarm changes in a only, and a
\* row that was there stays and keeps its source.
OnlyRow(a) ==
    /\ \A b \in AlarmIds \ {a} : alarm'[b] = alarm[b]
    /\ Rows \subseteq Rows' /\ a \in AlarmIds
    /\ a \in Rows => alarm'[a].source = alarm[a].source

-----------------------------------------------------------------------------
(* Pages.  The place of a row in a listing is the number of rows before it. *)

\* A set of alarms is finite and has a cardinality.
LEMMA AlarmsAreFinite ==
    ASSUME NEW S \in SUBSET AlarmIds
    PROVE  IsFiniteSet(S) /\ Cardinality(S) \in Nat
BY RulesAssumption, FS_Subset, FS_CardinalityType

\* The place of a listed row is below the number of rows.
LEMMA PositionBelow ==
    ASSUME NEW st, NEW a \in WithStatus(st), order \in Orders
    PROVE  /\ Position(a, st) \in Nat /\ Cardinality(WithStatus(st)) \in Nat
           /\ Position(a, st) < Cardinality(WithStatus(st))
<1> DEFINE S == WithStatus(st)
           T == {b \in WithStatus(st) : order[b] < order[a]}
<1>1. S \in SUBSET AlarmIds /\ T \in SUBSET S /\ a \in S
  BY DEF WithStatus, Rows
<1>2. a \notin T
  BY <1>1 DEF Orders
<1>3. IsFiniteSet(S) /\ Cardinality(S) \in Nat /\ Cardinality(T) \in Nat
  BY <1>1, AlarmsAreFinite
<1>4. Position(a, st) = Cardinality(T)
  BY DEF Position
<1> HIDE DEF S, T
<1>5. Cardinality(T) <= Cardinality(S) /\ Cardinality(S) # Cardinality(T)
  BY <1>1, <1>2, <1>3, FS_Subset
<1> QED BY <1>3, <1>4, <1>5 DEF S

\* Two rows of a listing have two places.
LEMMA PositionsDiffer ==
    ASSUME NEW st, NEW a \in WithStatus(st), NEW b \in WithStatus(st), order \in Orders,
           order[a] < order[b]
    PROVE  Position(a, st) < Position(b, st)
<1> DEFINE S == {c \in WithStatus(st) : order[c] < order[b]}
           T == {c \in WithStatus(st) : order[c] < order[a]}
<1>1. S \in SUBSET AlarmIds /\ a \in S /\ a \notin T /\ a \in AlarmIds /\ b \in AlarmIds
  BY DEF WithStatus, Rows, Orders
<1>2. T \in SUBSET S
  <2>1. \A c \in AlarmIds : order[c] \in Nat
    BY RulesAssumption, AlarmsAreFinite DEF Orders
  <2>2. WithStatus(st) \subseteq AlarmIds
    BY DEF WithStatus, Rows
  <2> QED BY <1>1, <2>1, <2>2
<1>3. IsFiniteSet(S) /\ Cardinality(S) \in Nat /\ Cardinality(T) \in Nat
  BY <1>1, <1>2, AlarmsAreFinite
<1>4. Position(a, st) = Cardinality(T) /\ Position(b, st) = Cardinality(S)
  BY DEF Position
<1> HIDE DEF S, T
<1>5. Cardinality(T) <= Cardinality(S) /\ Cardinality(S) # Cardinality(T)
  BY <1>1, <1>2, <1>3, FS_Subset
<1> QED BY <1>3, <1>4, <1>5

\* A page has at most BatchSize rows.
LEMMA PageFits ==
    ASSUME NEW st, NEW off \in Nat, order \in Orders
    PROVE  /\ Cardinality(Page(st, off)) \in Nat
           /\ Cardinality(Page(st, off)) <= BatchSize
<1> DEFINE f == [a \in Page(st, off) |-> Position(a, st)]
           I == off .. off + BatchSize - 1
<1>1. Page(st, off) \subseteq WithStatus(st) /\ WithStatus(st) \subseteq AlarmIds
  BY DEF Page, WithStatus, Rows
<1>2. BatchSize \in Nat \ {0}
  BY RulesAssumption
<1>3. f \in [Page(st, off) -> I]
  BY DEF Page
<1>4. \A a, b \in Page(st, off) : f[a] = f[b] => a = b
  <2>1. SUFFICES ASSUME NEW a \in Page(st, off), NEW b \in Page(st, off), a # b
                 PROVE  Position(a, st) # Position(b, st)
    OBVIOUS
  <2>2. a \in WithStatus(st) /\ b \in WithStatus(st) /\ a \in AlarmIds /\ b \in AlarmIds
    BY <1>1
  <2>3. order[a] \in Nat /\ order[b] \in Nat /\ order[a] # order[b]
    BY <2>1, <2>2, RulesAssumption, AlarmsAreFinite DEF Orders, IsInjective
  <2>4. Position(a, st) \in Nat /\ Position(b, st) \in Nat
    BY <2>2, PositionBelow
  <2>5. CASE order[a] < order[b]
    BY <2>2, <2>4, <2>5, PositionsDiffer
  <2>6. CASE order[b] < order[a]
    BY <2>2, <2>4, <2>6, PositionsDiffer
  <2> QED BY <2>3, <2>5, <2>6
<1>5. f \in Injection(Page(st, off), I)
  BY <1>3, <1>4 DEF Injection, IsInjective
<1>6. IsFiniteSet(I) /\ Cardinality(I) = BatchSize
  BY <1>2, FS_Interval
<1> HIDE DEF f, I
<1>7. Cardinality(Page(st, off)) <= Cardinality(I)
  BY <1>5, <1>6, FS_Injection
<1>8. Cardinality(Page(st, off)) \in Nat
  BY <1>1, AlarmsAreFinite
<1> QED BY <1>6, <1>7, <1>8

\* A row that moves to the front leaves an order.
LEMMA FrontIsAnOrder ==
    ASSUME order \in Orders, NEW a \in AlarmIds,
           order' = [b \in AlarmIds |-> IF b = a THEN 1
                                        ELSE IF order[b] < order[a] THEN order[b] + 1 ELSE order[b]]
    PROVE  order' \in Orders
<1> DEFINE n == Cardinality(AlarmIds)
<1>1. n \in Nat
  BY RulesAssumption, FS_CardinalityType
<1>2. /\ order \in [AlarmIds -> 1 .. n]
      /\ \A b, c \in AlarmIds : order[b] = order[c] => b = c
  BY DEF Orders, IsInjective
<1> HIDE DEF n
<1>3. order' \in [AlarmIds -> 1 .. n]
  BY <1>1, <1>2
<1>4. \A b, c \in AlarmIds : order'[b] = order'[c] => b = c
  BY <1>1, <1>2
<1> QED BY <1>3, <1>4 DEF Orders, IsInjective, n

-----------------------------------------------------------------------------
(* The inductive invariant of handlers and requests. *)

HandlerPcs == {"idle", "claim", "rules", "eval", "begin", "raise", "list", "recover", "cleared", "mark"}

Handlers == [pc: HandlerPcs, on: SUBSET Rules, todo: SUBSET Rules, r: Rules \cup {Nil},
             since: 0 .. MaxTime, hit: BOOLEAN, list: SUBSET AlarmIds]

Listings == {"ACTIVE", "ACKED", "CLOSED", Nil}

Requests == [pc: {"idle", "save", "pendings", "close", "status"},
             kind: {"on", "off", "delete", Nil}, r: Rules \cup {Nil},
             st: Listings, offset: Nat, list: SUBSET AlarmIds]

StateOK ==
    /\ AlarmTypeOK
    /\ rule \in [Rules -> {"on", "off", "absent"}]
    /\ pending \in [Rules -> (0 .. MaxTime) \cup {Nil}]
    /\ std \in [Msgs -> {"none", "claimed", "done"}]
    /\ h \in [Topics -> Handlers]
    /\ op \in [Operators -> Requests]
    /\ clock \in 0 .. MaxTime
    /\ broken \in [Rules -> 0 .. MaxTime]
    /\ late \in [Operators -> SUBSET AlarmIds]
    /\ order \in Orders
    /\ crossed \subseteq Rules
    /\ shifted \in [Operators -> SUBSET Listings]

\* A handler runs exactly while its reader waits for it; once a rule has taken the
\* message, or the handler is about to mark a report, the report is in an alarm.  A
\* window that is about to be saved begins after the last failed match, unless that
\* match has crossed it.
HandlerOK(t) ==
    /\ (h[t].pc = "idle") = (stage[t] # "handle")
    /\ h[t].list \subseteq Rows
    /\ h[t].pc = "raise" => h[t].r \in Rules
    /\ h[t].pc = "begin" => h[t].r \in Rules /\ (h[t].r \notin crossed => h[t].since >= broken[h[t].r])
    /\ h[t].pc \in {"begin", "eval", "list", "recover", "cleared", "mark"} /\ h[t].hit
          => MessageAt(t) \in covered
    /\ h[t].pc = "mark" /\ MessageAt(t) \in Reports => MessageAt(t) \in covered

\* The deletion of a rule has no alarm of the rule in the pages it has passed, and when
\* it has come to the acknowledged alarms none that is ACTIVE, but those that became so
\* since it began; both as long as nobody moved the rows under its paging.
PagingOK(o) ==
    op[o].kind = "delete" /\ op[o].pc = "close" =>
       /\ op[o].st \notin shifted[o] =>
             \A a \in OfRule(op[o].r, op[o].st) : Position(a, op[o].st) >= op[o].offset
       /\ op[o].st = "ACKED" /\ "ACTIVE" \notin shifted[o] => OfRule(op[o].r, "ACTIVE") \subseteq late[o]

RequestOK(o) ==
    /\ op[o].list \subseteq Rows
    /\ op[o].pc = "save" => op[o].kind \in {"on", "off"}
    /\ op[o].pc \in {"save", "pendings", "close"} => op[o].r \in Rules
    /\ op[o].pc = "close" => op[o].st \in {"ACTIVE", "ACKED"} /\ op[o].kind \in {"off", "delete"}
    /\ op[o].pc = "pendings" => op[o].kind \in {"off", "delete"} /\ op[o].offset = 0
    /\ op[o].pc = "status" => op[o].st \in {"ACTIVE", "ACKED", "CLOSED"}
    /\ op[o].pc = "close" /\ op[o].list # {} => op[o].offset = 0
    /\ PagingOK(o)

RulesInv ==
    /\ BusInv
    /\ StateOK
    /\ \A t \in Topics : HandlerOK(t)
    /\ \A o \in Operators : RequestOK(o)
    /\ \A r \in Rules : broken[r] <= clock
    /\ ReportIsNeverDiscarded
    /\ WindowIsUnbroken

\* The invariant contains what the run checks.
LEMMA RulesInvSound == RulesInv => HandlingIsSound /\ CommittedIsSettled
BY BusInvSettled DEF RulesInv, StateOK, HandlerOK, RequestOK, BusInv, HandlingIsSound, RulesTypeOK,
    Handlers

\* The clock starts at a time of the model.
LEMMA TimeZero == 0 \in 0 .. MaxTime
BY RulesAssumption

\* The readers start idle, and nobody has asked for anything.
LEMMA RulesInitInv == Init => RulesInv
<1> SUFFICES ASSUME Init PROVE RulesInv
  OBVIOUS
<1>1. BusInv
  BY BusInitInv DEF Init
<1>2. AlarmTypeOK
  <2>1. CASE AlarmInit
    BY <2>1 DEF AlarmInit, AlarmTypeOK
  <2>2. CASE RaisedElsewhere
    BY <2>2, RulesAssumption DEF RaisedElsewhere, AlarmTypeOK, Row, Statuses, Open
  <2> QED BY <2>1, <2>2 DEF Init
<1>5. IdleHandler \in Handlers /\ IdleRequest \in Requests
  BY TimeZero DEF Handlers, HandlerPcs, Requests, Listings, IdleHandler, IdleRequest
<1>6. StateOK
  BY <1>2, <1>5, RulesAssumption DEF Init, StateOK
<1>3. \A t \in Topics : HandlerOK(t)
  BY DEF Init, BusInit, HandlerOK, IdleHandler
<1>4. \A o \in Operators : RequestOK(o)
  BY DEF Init, RequestOK, PagingOK, IdleRequest
<1> QED BY <1>1, <1>6, <1>3, <1>4, RulesAssumption
    DEF Init, RulesInv, ReportIsNeverDiscarded, WindowIsUnbroken

\* Seen from the bus, every step of the engine is a step of a reader or none.
LEMMA StepOfTheBus == [Next]_vars => [BusNext]_bvars
<1> SUFFICES ASSUME [Next]_vars PROVE [BusNext]_bvars
  OBVIOUS
<1>1. CASE UNCHANGED vars
  BY <1>1 DEF vars
<1>2. ASSUME NEW t \in Topics,
             (\E m \in Msgs : Arrive(t, m)) \/ Reader(t) \/ Stop(t) \/ ReturnError(t)
      PROVE  [BusNext]_bvars
  BY <1>2 DEF Arrive, Reader, Fetch, End, Bury, Commit, Resume, Stop, ReturnError, BusNext
<1>3. ASSUME NEW t \in Topics, HandleStandard(t) PROVE [BusNext]_bvars
  BY <1>3 DEF HandleStandard, ClaimStandardMessage, ListRules, MatchWaits, MatchBegins,
    SaveRulePending, MatchRaises, NoMatch, RaiseRuleAlarm, RecoverList, RecoverRuleAlarm, RaiseDirectAlarm, RecoverDirectList,
    RecoverDirectAlarm, NoDirectAlarm, MarkProcessed, ReturnNil, BusNext
<1>4. ASSUME NEW o \in Operators, Operate(o) PROVE [BusNext]_bvars
  BY <1>4 DEF Operate, SaveRuleOn, SaveRuleOff, DeleteRule, SaveRule, DeleteRulePendings, ClosePage,
    CloseNext, CloseAlarm, ReadAlarm, FuseVideoAlarm, WriteAlarm, RequestFails
<1>5. CASE Tick
  BY <1>5 DEF Tick
<1> QED BY <1>1, <1>2, <1>3, <1>4, <1>5 DEF Next

\* What a step of somebody else leaves a handler with.
LEMMA HandlerFrame ==
    ASSUME NEW t \in Topics, HandlerOK(t), h'[t] = h[t], stage'[t] = stage[t],
           stage[t] = "handle" => MessageAt(t)' = MessageAt(t),
           h[t].pc = "begin" /\ h[t].r \notin crossed'
              => h[t].r \notin crossed /\ broken'[h[t].r] = broken[h[t].r],
           covered \subseteq covered', Rows \subseteq Rows'
    PROVE  HandlerOK(t)'
BY DEF HandlerOK

\* A step that leaves the alarms and the requests alone leaves them right.
LEMMA RequestsStay ==
    ASSUME \A o \in Operators : RequestOK(o), UNCHANGED <<alarm, order, op, late, shifted>>
    PROVE  \A o \in Operators : RequestOK(o)'
BY DEF RequestOK, PagingOK, OfRule, Position, Rows, WithStatus

\* A request that neither the step nor its writes are about.
LEMMA RequestFrame ==
    ASSUME NEW o \in Operators, RequestOK(o), op'[o] = op[o], late'[o] = late[o],
           shifted'[o] = shifted[o], UNCHANGED <<alarm, order>>
    PROVE  RequestOK(o)'
BY DEF RequestOK, PagingOK, OfRule, Position, Rows, WithStatus

\* The request of o is where it was, but for the alarms it holds.
SameButList(o) ==
    /\ op'[o].pc = op[o].pc /\ op'[o].kind = op[o].kind /\ op'[o].r = op[o].r
    /\ op'[o].st = op[o].st /\ op'[o].offset = op[o].offset

\* A write that is noted leaves the requests of the others right: it makes late what it
\* makes ACTIVE, and says so when it moves rows under a paging that has begun.
LEMMA NotedFrame ==
    ASSUME StateOK, order' \in Orders, NEW a \in AlarmIds, NEW by, OnlyRow(a), Noted(a, by),
           NEW o \in Operators, RequestOK(o), op'[o].list \subseteq op[o].list, SameButList(o),
           o # by \/ op[o].offset = 0
    PROVE  RequestOK(o)'
<1>1. Rows \subseteq Rows'
  BY DEF OnlyRow
<1>2. op[o] \in Requests /\ op[o].offset \in Nat
  BY DEF StateOK, Requests
<1>3. /\ late[o] \subseteq late'[o] /\ shifted[o] \subseteq shifted'[o]
      /\ op[o].kind = "delete" /\ a \notin WithStatus("ACTIVE") /\ alarm'[a].status = "ACTIVE"
            => a \in late'[o]
      /\ op[o].kind = "delete" /\ op[o].offset # 0 => op[o].st \in shifted'[o]
  BY <1>2 DEF Noted
<1>4. PagingOK(o)'
  <2>1. SUFFICES ASSUME op[o].kind = "delete", op[o].pc = "close"
                 PROVE  /\ op[o].st \notin shifted'[o] =>
                             \A b \in OfRule(op[o].r, op[o].st)' : Position(b, op[o].st)' >= op[o].offset
                        /\ op[o].st = "ACKED" /\ "ACTIVE" \notin shifted'[o]
                             => OfRule(op[o].r, "ACTIVE")' \subseteq late'[o]
    BY DEF PagingOK, SameButList
  <2>2. ASSUME op[o].st \notin shifted'[o], NEW b
        PROVE  Position(b, op[o].st)' >= op[o].offset
    <3>1. \E T \in SUBSET AlarmIds : Position(b, op[o].st)' = Cardinality(T)
      BY DEF Position, WithStatus, Rows
    <3>2. Position(b, op[o].st)' \in Nat
      BY <3>1, AlarmsAreFinite
    <3>3. op[o].offset = 0
      BY <1>3, <2>1, <2>2
    <3> QED BY <3>2, <3>3
  <2>3. ASSUME op[o].st = "ACKED", "ACTIVE" \notin shifted'[o], NEW b \in OfRule(op[o].r, "ACTIVE")'
        PROVE  b \in late'[o]
    <3>1. b \in AlarmIds /\ alarm'[b] # Nil /\ alarm'[b].status = "ACTIVE" /\ RuleOf[alarm'[b].source] = op[o].r
      BY <2>3 DEF OfRule, WithStatus, Rows, SameButList
    <3>2. CASE b = a /\ a \notin WithStatus("ACTIVE")
      BY <1>3, <2>1, <3>1, <3>2
    <3>3. CASE b # a \/ a \in WithStatus("ACTIVE")
      <4>1. b \in OfRule(op[o].r, "ACTIVE")
        BY <3>1, <3>3 DEF OnlyRow, OfRule, WithStatus, Rows
      <4>2. "ACTIVE" \notin shifted[o]
        BY <1>3, <2>3
      <4> QED BY <1>3, <2>1, <2>3, <4>1, <4>2 DEF RequestOK, PagingOK
    <3> QED BY <3>2, <3>3
  <2> QED BY <2>2, <2>3
<1> QED BY <1>1, <1>4 DEF RequestOK, SameButList

\* What a noted write leaves the history with.
LEMMA NotedTypes ==
    ASSUME StateOK, NEW a \in AlarmIds, NEW by, Noted(a, by)
    PROVE  late' \in [Operators -> SUBSET AlarmIds] /\ shifted' \in [Operators -> SUBSET Listings]
BY DEF Noted, StateOK, Requests

\* The message at hand is one of the messages, and stays while it is handled.
LEMMA MessageAtHand ==
    ASSUME BusInv, NEW t \in Topics, stage[t] = "handle"
    PROVE  /\ MessageAt(t) \in Msgs
           /\ log' = log /\ pos' = pos => MessageAt(t)' = MessageAt(t)
           /\ \A u \in Topics, m \in Msgs : Publish(u, m) => MessageAt(t)' = MessageAt(t)
<1>1. pos[t] + 1 \in 1 .. Len(log[t]) /\ log[t] \in Seq(Msgs)
  BY DEF BusInv, BusTypeOK, ReaderOK
<1>2. ASSUME NEW u \in Topics, NEW m \in Msgs, Publish(u, m) PROVE MessageAt(t)' = MessageAt(t)
  BY <1>1, <1>2 DEF Publish, MessageAt, BusInv, BusTypeOK
<1> QED BY <1>1, <1>2 DEF MessageAt

-----------------------------------------------------------------------------
(* Preservation, action by action.  The bus part is BusStepInv. *)

\* Arrivals, fetches, dead letters, commits, crashes and restarts of readers.
LEMMA ReaderSteps ==
    ASSUME RulesInv, BusInv', NEW t \in Topics,
           (\E m \in Msgs : Arrive(t, m)) \/ Reader(t) \/ Stop(t) \/ ReturnError(t)
    PROVE  RulesInv'
<1> USE DEF RulesInv
<1>1. UNCHANGED <<alarm, tables, people, hist>>
  BY DEF Arrive, Reader, Fetch, End, Bury, Commit, Resume, Stop, ReturnError, rvars
<1>2. IdleHandler \in Handlers /\ NewHandler \in Handlers
  BY TimeZero DEF IdleHandler, NewHandler, Handlers, HandlerPcs
<1>3. h' \in [Topics -> Handlers]
  BY <1>2 DEF Arrive, Reader, Fetch, End, Bury, Commit, Resume, Stop, ReturnError, rvars, StateOK
<1>4. StateOK'
  BY <1>1, <1>3 DEF StateOK, AlarmTypeOK, tables, people, hist
<1>5. \A o \in Operators : RequestOK(o)'
  BY <1>1, RequestsStay DEF tables, people, hist
<1>6. ASSUME NEW u \in Topics PROVE HandlerOK(u)'
  <2>1. covered' = covered /\ Rows' = Rows /\ crossed' = crossed /\ broken' = broken
    BY <1>1 DEF hist, Rows
  <2>2. ASSUME NEW m \in Msgs, Arrive(t, m) PROVE HandlerOK(u)'
    BY <2>1, <2>2, HandlerFrame, MessageAtHand DEF Arrive, Publish, rvars
  <2>3. CASE u # t /\ ~ \E m \in Msgs : Arrive(t, m)
    <3>0. h \in [Topics -> Handlers] /\ stage \in [Topics -> Stages] /\ pos \in [Topics -> Nat]
      BY DEF StateOK, BusInv, BusTypeOK
    <3>1. h'[u] = h[u] /\ stage'[u] = stage[u] /\ log' = log /\ pos'[u] = pos[u]
      <4>1. CASE Fetch(t) \/ End(t)
        BY <2>3, <3>0, <4>1 DEF Fetch, FetchMessage, End, FetchFails, rvars
      <4>2. CASE Bury(t)
        BY <2>3, <3>0, <4>2 DEF Bury, DeadLetter, DeadLetterRefused, rvars
      <4>3. CASE Commit(t) \/ Resume(t)
        BY <2>3, <3>0, <4>3 DEF Commit, CommitMessages, Resume, Subscribe, rvars
      <4>4. CASE Stop(t) \/ ReturnError(t)
        BY <2>3, <3>0, <4>4 DEF Stop, StopReader, ReturnError, Failed, rvars
      <4> QED BY <2>3, <4>1, <4>2, <4>3, <4>4 DEF Reader
    <3> QED BY <2>1, <3>1, HandlerFrame DEF MessageAt
  <2>4. CASE u = t /\ Fetch(t)
    BY <2>1, <2>4 DEF Fetch, FetchMessage, HandlerOK, NewHandler, IdleHandler, BusInv, BusTypeOK, StateOK
  <2>5. CASE u = t /\ (End(t) \/ Bury(t) \/ Commit(t) \/ Resume(t))
    <3>1. h' = h /\ stage[t] # "handle" /\ stage'[t] # "handle"
      BY <2>5 DEF End, FetchFails, Bury, DeadLetter, DeadLetterRefused, Commit, CommitMessages, Resume, Subscribe, rvars,
        BusInv, BusTypeOK
    <3> QED BY <2>1, <2>5, <3>1 DEF HandlerOK
  <2>6. CASE u = t /\ Stop(t)
    BY <2>1, <2>6 DEF Stop, StopReader, HandlerOK, IdleHandler, BusInv, BusTypeOK, StateOK
  <2>7. CASE u = t /\ ReturnError(t)
    BY <2>1, <2>7 DEF ReturnError, Failed, HandlerOK, IdleHandler, NewHandler, BusInv, BusTypeOK, StateOK
  <2> QED BY <2>2, <2>3, <2>4, <2>5, <2>6, <2>7 DEF Reader
<1> QED BY <1>1, <1>4, <1>5, <1>6
    DEF tables, people, hist, ReportIsNeverDiscarded, WindowIsUnbroken

\* A handler that goes on stays a handler, and the others do not move.
LEMMA HandlerTo ==
    ASSUME h \in [Topics -> Handlers], NEW t \in Topics, NEW x \in Handlers, h' = [h EXCEPT ![t] = x]
    PROVE  h' \in [Topics -> Handlers] /\ h'[t] = x /\ (\A u \in Topics \ {t} : h'[u] = h[u])
OBVIOUS

\* A step of the handler of t leaves the other handlers right.
LEMMA OtherHandlers ==
    ASSUME RulesInv, NEW t \in Topics,
           \A u \in Topics \ {t} : h'[u] = h[u] /\ stage'[u] = stage[u],
           UNCHANGED <<log, pos, crossed, broken>>, covered \subseteq covered', Rows \subseteq Rows',
           HandlerOK(t)'
    PROVE  \A u \in Topics : HandlerOK(u)'
BY HandlerFrame DEF RulesInv, MessageAt

\* What the next state of a handler must hold on to: existing alarms, a rule where one is
\* at hand, and a report that is in an alarm once a rule has taken it.
Holding(t, x, rows, seen) ==
    /\ x \in Handlers /\ x.pc # "idle"
    /\ x.list \subseteq rows
    /\ x.pc = "raise" => x.r \in Rules
    /\ x.pc = "begin" => x.r \in Rules /\ x.since >= broken[x.r]
    /\ x.pc \in {"begin", "eval", "list", "recover", "cleared", "mark"} /\ x.hit => MessageAt(t) \in seen
    /\ x.pc = "mark" /\ MessageAt(t) \in Reports => MessageAt(t) \in seen

\* The handler of t goes on, and the others stay as they were.
LEMMA HandlerGoes ==
    ASSUME RulesInv, NEW t \in Topics, stage[t] = "handle", UNCHANGED <<bvars, crossed, broken>>,
           covered \subseteq covered', Rows \subseteq Rows',
           NEW x, h' = [h EXCEPT ![t] = x], Holding(t, x, Rows', covered')
    PROVE  h' \in [Topics -> Handlers] /\ (\A u \in Topics : HandlerOK(u)')
<1>1. h \in [Topics -> Handlers] /\ x \in Handlers
  BY DEF RulesInv, StateOK, Holding
<1>2. h' \in [Topics -> Handlers] /\ h'[t] = x /\ (\A u \in Topics \ {t} : h'[u] = h[u])
  BY <1>1, HandlerTo
<1>3. MessageAt(t)' = MessageAt(t) /\ stage' = stage /\ UNCHANGED <<log, pos>>
  BY MessageAtHand DEF RulesInv, bvars
<1>4. HandlerOK(t)'
  BY <1>2, <1>3 DEF Holding, HandlerOK
<1> QED BY <1>2, <1>3, <1>4, OtherHandlers

\* Steps that read tables, evaluate a rule or go on: no alarm is touched.
LEMMA QuietSteps ==
    ASSUME RulesInv, BusInv', NEW t \in Topics,
           \/ ListRules(t) \/ (\E r \in Rules : MatchRaises(t, r) \/ MatchWaits(t, r) \/ MatchBegins(t, r))
           \/ RecoverList(t)
           \/ RecoverDirectList(t, "eval", "ACTIVE", "cleared")
           \/ RecoverDirectList(t, "cleared", "ACKED", "mark") \/ NoDirectAlarm(t)
    PROVE  RulesInv'
<1> USE DEF RulesInv
<1>1. UNCHANGED <<bvars, alarm, tables, people, hist>> /\ stage[t] = "handle"
  BY DEF ListRules, MatchRaises, MatchWaits, MatchBegins, RecoverList, RecoverDirectList,
    NoDirectAlarm, At
<1>2. \A s, st : ListAlarms(s, st) \subseteq Rows /\ Rows \subseteq AlarmIds
  BY DEF ListAlarms, WithStatus, Rows
<1>3. /\ h \in [Topics -> Handlers] /\ h[t] \in Handlers /\ clock \in 0 .. MaxTime
      /\ h[t].list \subseteq Rows /\ HandlerOK(t)
  BY DEF StateOK, HandlerOK
<1>4. \E x : h' = [h EXCEPT ![t] = x] /\ Holding(t, x, Rows, covered)
  <2>1. CASE ListRules(t)
    <3> DEFINE x == [h[t] EXCEPT !.pc = "eval", !.hit = FALSE,
                              !.on = {r \in Rules : rule[r] = "on"},
                              !.todo = {r \in Rules : rule[r] # "absent"}]
    <3>1. h' = [h EXCEPT ![t] = x]
      BY <2>1, <1>3 DEF ListRules
    <3>2. x \in Handlers /\ x.pc = "eval" /\ x.hit = FALSE /\ x.list = h[t].list
      BY <1>3 DEF Handlers, HandlerPcs
    <3> QED BY <1>3, <3>1, <3>2 DEF Holding
  <2>2. ASSUME NEW r \in Rules, MatchRaises(t, r)
        PROVE  \E x : h' = [h EXCEPT ![t] = x] /\ Holding(t, x, Rows, covered)
    <3> DEFINE x == [h[t] EXCEPT !.pc = "raise", !.r = r, !.hit = TRUE]
    <3>1. h' = [h EXCEPT ![t] = x]
      BY <2>2, <1>3 DEF MatchRaises
    <3>2. x \in Handlers /\ x.pc = "raise" /\ x.r = r /\ x.list = h[t].list
      BY <1>3 DEF Handlers, HandlerPcs
    <3> QED BY <1>3, <3>1, <3>2 DEF Holding
  <2>3. ASSUME NEW r \in Rules, MatchWaits(t, r)
        PROVE  \E x : h' = [h EXCEPT ![t] = x] /\ Holding(t, x, Rows, covered)
    <3> DEFINE x == [h[t] EXCEPT !.todo = @ \ {r}, !.hit = h[t].hit]
    <3>1. h' = [h EXCEPT ![t] = x] /\ h[t].pc = "eval"
      BY <2>3, <1>3 DEF MatchWaits, HitAfter, At
    <3>2. x \in Handlers /\ x.pc = h[t].pc /\ x.hit = h[t].hit /\ x.list = h[t].list
      BY <1>3 DEF Handlers
    <3> QED BY <1>3, <3>1, <3>2 DEF Holding, HandlerOK
  <2>4. ASSUME NEW r \in Rules, MatchBegins(t, r)
        PROVE  \E x : h' = [h EXCEPT ![t] = x] /\ Holding(t, x, Rows, covered)
    <3> DEFINE x == [h[t] EXCEPT !.pc = "begin", !.r = r, !.since = clock, !.hit = h[t].hit]
    <3>1. h' = [h EXCEPT ![t] = x] /\ h[t].pc = "eval"
      BY <2>4, <1>3 DEF MatchBegins, HitAfter, At
    <3>2. x \in Handlers /\ x.pc = "begin" /\ x.r = r /\ x.since = clock /\ x.hit = h[t].hit
          /\ x.list = h[t].list
      BY <1>3 DEF Handlers, HandlerPcs
    <3>3. clock >= broken[r]
      BY RulesAssumption DEF StateOK
    <3> HIDE DEF x
    <3> QED BY <1>3, <3>1, <3>2, <3>3 DEF Holding, HandlerOK
  <2>5. CASE RecoverList(t)
    <3> DEFINE left == ListAlarms(h[t].r, "ACTIVE")
    <3>1. RecoverNext(t, left) /\ left \subseteq Rows /\ left \subseteq AlarmIds /\ h[t].pc = "list"
      BY <1>2, <2>5 DEF RecoverList, At
    <3> HIDE DEF left
    <3>2. CASE left = {}
      <4> DEFINE x == [h[t] EXCEPT !.pc = "eval", !.todo = @ \ {h[t].r}, !.r = Nil, !.list = {}]
      <4>1. h' = [h EXCEPT ![t] = x]
        BY <3>1, <3>2 DEF RecoverNext
      <4>2. x \in Handlers /\ x.pc = "eval" /\ x.hit = h[t].hit /\ x.list = {}
        BY <1>3 DEF Handlers, HandlerPcs
      <4> QED BY <1>3, <3>1, <4>1, <4>2 DEF Holding, HandlerOK
    <3>3. CASE left # {}
      <4> DEFINE x == [h[t] EXCEPT !.pc = "recover", !.list = left]
      <4>1. h' = [h EXCEPT ![t] = x]
        BY <3>1, <3>3 DEF RecoverNext
      <4>2. x \in Handlers /\ x.pc = "recover" /\ x.hit = h[t].hit /\ x.list = left
        BY <1>3, <3>1 DEF Handlers, HandlerPcs
      <4> QED BY <1>3, <3>1, <4>1, <4>2 DEF Holding, HandlerOK
    <3> QED BY <3>2, <3>3
  <2>6. CASE RecoverDirectList(t, "eval", "ACTIVE", "cleared")
    <3> DEFINE x == [h[t] EXCEPT !.list = ListAlarms(Direct, "ACTIVE"), !.pc = "cleared"]
    <3>1. h' = [h EXCEPT ![t] = x] /\ h[t].pc = "eval"
      BY <2>6, <1>3 DEF RecoverDirectList, At
    <3>2. x \in Handlers /\ x.pc = "cleared" /\ x.hit = h[t].hit /\ x.list = ListAlarms(Direct, "ACTIVE")
      BY <1>2, <1>3 DEF Handlers, HandlerPcs
    <3>4. x.list \subseteq Rows
      BY <1>2, <3>2
    <3> HIDE DEF x
    <3> QED BY <1>3, <3>1, <3>2, <3>4 DEF Holding, HandlerOK
  <2>7. CASE RecoverDirectList(t, "cleared", "ACKED", "mark")
    <3> DEFINE x == [h[t] EXCEPT !.list = ListAlarms(Direct, "ACKED"), !.pc = "mark"]
    <3>1. h' = [h EXCEPT ![t] = x] /\ h[t].pc = "cleared" /\ MessageAt(t) \in Clears
      BY <2>7, <1>3 DEF RecoverDirectList, At
    <3>2. x \in Handlers /\ x.pc = "mark" /\ x.hit = h[t].hit /\ x.list = ListAlarms(Direct, "ACKED")
      BY <1>2, <1>3 DEF Handlers, HandlerPcs
    <3>3. MessageAt(t) \notin Reports
      BY <3>1, RulesAssumption
    <3>4. x.list \subseteq Rows
      BY <1>2, <3>2
    <3> HIDE DEF x
    <3> QED BY <1>3, <3>1, <3>2, <3>3, <3>4 DEF Holding, HandlerOK
  <2>8. CASE NoDirectAlarm(t)
    <3> DEFINE x == [h[t] EXCEPT !.pc = "mark"]
    <3>1. h' = [h EXCEPT ![t] = x] /\ h[t].pc = "eval" /\ (MessageAt(t) \notin Reports \/ h[t].hit)
      BY <2>8, <1>3 DEF NoDirectAlarm, At
    <3>2. x \in Handlers /\ x.pc = "mark" /\ x.hit = h[t].hit /\ x.list = h[t].list
      BY <1>3 DEF Handlers, HandlerPcs
    <3> QED BY <1>3, <3>1, <3>2 DEF Holding, HandlerOK
  <2> QED BY <2>1, <2>2, <2>3, <2>4, <2>5, <2>6, <2>7, <2>8
<1>5. Rows' = Rows /\ covered' = covered /\ UNCHANGED <<crossed, broken>>
  BY <1>1 DEF hist, Rows
<1>6. h' \in [Topics -> Handlers] /\ (\A u \in Topics : HandlerOK(u)')
  BY <1>1, <1>4, <1>5, HandlerGoes
<1>7. StateOK'
  BY <1>1, <1>6 DEF StateOK, AlarmTypeOK, tables, people, hist
<1>8. \A o \in Operators : RequestOK(o)'
  BY <1>1, RequestsStay DEF tables, people, hist
<1> QED BY <1>1, <1>6, <1>7, <1>8 DEF tables, people, hist, ReportIsNeverDiscarded, WindowIsUnbroken

\* A handler saves the window it has begun: the earlier of two beginnings counts.
LEMMA SaveStep ==
    ASSUME RulesInv, BusInv', NEW t \in Topics, SaveRulePending(t)
    PROVE  RulesInv'
<1> USE DEF RulesInv
<1>1. /\ UNCHANGED <<bvars, alarm, rule, order, std, people, hist>> /\ stage[t] = "handle"
      /\ h[t].pc = "begin"
  BY DEF SaveRulePending, At
<1>2. h \in [Topics -> Handlers] /\ h[t] \in Handlers /\ HandlerOK(t)
  BY DEF StateOK
<1>3. h[t].r \in Rules /\ h[t].since \in 0 .. MaxTime /\ h[t].list \subseteq Rows
      /\ (h[t].r \notin crossed => h[t].since >= broken[h[t].r])
  BY <1>1, <1>2 DEF HandlerOK, Handlers
<1>4. pending' = [pending EXCEPT ![h[t].r] = Earlier(pending[h[t].r], h[t].since)]
  BY <1>3 DEF SaveRulePending, StateOK
<1>5. /\ Earlier(pending[h[t].r], h[t].since) \in {pending[h[t].r], h[t].since} \ {Nil}
      /\ Earlier(pending[h[t].r], h[t].since) \in 0 .. MaxTime
  BY <1>3, RulesAssumption DEF Earlier, StateOK
<1>6. pending' \in [Rules -> (0 .. MaxTime) \cup {Nil}]
  BY <1>3, <1>4, <1>5 DEF StateOK
<1>7. WindowIsUnbroken'
  <2>1. ASSUME NEW q \in Rules \ crossed, pending'[q] # Nil PROVE pending'[q] >= broken[q]
    <3>1. CASE q = h[t].r
      <4>1. pending'[q] \in {pending[q], h[t].since} \ {Nil}
        BY <1>3, <1>4, <1>5, <3>1 DEF StateOK
      <4> QED BY <1>3, <3>1, <2>1, <4>1 DEF WindowIsUnbroken
    <3>2. CASE q # h[t].r
      BY <1>3, <1>4, <2>1, <3>2 DEF StateOK, WindowIsUnbroken
    <3> QED BY <3>1, <3>2
  <2> QED BY <1>1, <2>1 DEF WindowIsUnbroken, hist
<1>8. \E x : h' = [h EXCEPT ![t] = x] /\ Holding(t, x, Rows, covered)
  <2> DEFINE x == [h[t] EXCEPT !.pc = "eval", !.todo = @ \ {h[t].r}, !.r = Nil, !.since = 0]
  <2>1. h' = [h EXCEPT ![t] = x]
    BY <1>2 DEF SaveRulePending
  <2>2. x \in Handlers /\ x.pc = "eval" /\ x.hit = h[t].hit /\ x.list = h[t].list
    BY <1>2, TimeZero DEF Handlers, HandlerPcs
  <2> QED BY <1>1, <1>2, <1>3, <2>1, <2>2 DEF Holding, HandlerOK
<1>9. Rows' = Rows /\ covered' = covered /\ UNCHANGED <<crossed, broken>>
  BY <1>1 DEF hist, Rows
<1>10. h' \in [Topics -> Handlers] /\ (\A u \in Topics : HandlerOK(u)')
  BY <1>1, <1>8, <1>9, HandlerGoes
<1>11. StateOK'
  BY <1>1, <1>6, <1>10 DEF StateOK, AlarmTypeOK, people, hist
<1>12. \A o \in Operators : RequestOK(o)'
  BY <1>1, RequestsStay DEF people, hist
<1> QED BY <1>1, <1>7, <1>10, <1>11, <1>12 DEF people, hist, ReportIsNeverDiscarded

\* A failed match deletes the window, and crosses the ones that others are about to save.
LEMMA NoMatchStep ==
    ASSUME RulesInv, BusInv', NEW t \in Topics, NEW r \in Rules, NoMatch(t, r)
    PROVE  RulesInv'
<1> USE DEF RulesInv
<1>1. /\ UNCHANGED <<bvars, alarm, rule, order, std, people, covered, late, shifted>>
      /\ stage[t] = "handle" /\ h[t].pc = "eval"
      /\ broken' = [broken EXCEPT ![r] = clock] /\ pending' = [pending EXCEPT ![r] = Nil]
  BY DEF NoMatch, ClearDuration, At
<1>2. h \in [Topics -> Handlers] /\ h[t] \in Handlers /\ HandlerOK(t)
  BY DEF StateOK
<1>3. /\ crossed' \subseteq Rules /\ (\A q \in Rules \ {r} : q \in crossed' <=> q \in crossed)
      /\ (\E u \in Topics : At(u, "begin") /\ h[u].r = r) => r \in crossed'
  BY DEF NoMatch, StateOK
<1>4. /\ pending' \in [Rules -> (0 .. MaxTime) \cup {Nil}]
      /\ broken' \in [Rules -> 0 .. MaxTime]
      /\ \A q \in Rules : broken'[q] <= clock'
  BY <1>1, RulesAssumption DEF StateOK, people
<1>5. WindowIsUnbroken'
  <2>1. \A q \in Rules \ crossed' : pending'[q] # Nil => q # r /\ pending'[q] = pending[q]
          /\ broken'[q] = broken[q]
    BY <1>1 DEF StateOK
  <2> QED BY <1>3, <2>1 DEF WindowIsUnbroken
<1>6. /\ h' \in [Topics -> Handlers] /\ (\A u \in Topics \ {t} : h'[u] = h[u])
      /\ h'[t].pc \in {"eval", "list"} /\ h'[t].hit = h[t].hit /\ h'[t].list = h[t].list
  <2>1. CASE MessageAt(t) \in Recovering[r]
    <3> DEFINE x == [h[t] EXCEPT !.pc = "list", !.r = r]
    <3>1. h' = [h EXCEPT ![t] = x]
      BY <2>1, <1>2 DEF NoMatch
    <3>2. x \in Handlers /\ x.pc = "list" /\ x.hit = h[t].hit /\ x.list = h[t].list
      BY <1>2 DEF Handlers, HandlerPcs
    <3> HIDE DEF x
    <3> QED BY <1>2, <3>1, <3>2, HandlerTo
  <2>2. CASE MessageAt(t) \notin Recovering[r]
    <3> DEFINE x == [h[t] EXCEPT !.todo = @ \ {r}]
    <3>1. h' = [h EXCEPT ![t] = x]
      BY <2>2, <1>2 DEF NoMatch
    <3>2. x \in Handlers /\ x.pc = "eval" /\ x.hit = h[t].hit /\ x.list = h[t].list
      BY <1>1, <1>2 DEF Handlers, HandlerPcs
    <3> HIDE DEF x
    <3> QED BY <1>2, <3>1, <3>2, HandlerTo
  <2> QED BY <2>1, <2>2
<1>7. MessageAt(t)' = MessageAt(t) /\ Rows' = Rows /\ covered' = covered /\ stage' = stage
      /\ log' = log /\ pos' = pos
  BY <1>1, MessageAtHand DEF bvars, Rows
<1>8. HandlerOK(t)'
  BY <1>1, <1>2, <1>6, <1>7 DEF HandlerOK
<1>9. ASSUME NEW u \in Topics \ {t} PROVE HandlerOK(u)'
  <2>1. h[u].pc = "begin" => h[u].r \in Rules /\ At(u, "begin")
    BY DEF HandlerOK, At
  <2>2. h[u].pc = "begin" /\ h[u].r \notin crossed'
           => h[u].r \notin crossed /\ broken'[h[u].r] = broken[h[u].r]
    BY <1>1, <1>3, <2>1 DEF StateOK
  <2> QED BY <1>6, <1>7, <2>2, HandlerFrame DEF MessageAt
<1>10. StateOK'
  BY <1>1, <1>3, <1>4, <1>6 DEF StateOK, AlarmTypeOK, people
<1>11. \A o \in Operators : RequestOK(o)'
  BY <1>1, RequestsStay DEF people
<1> QED BY <1>1, <1>4, <1>5, <1>8, <1>9, <1>10, <1>11 DEF people, ReportIsNeverDiscarded

\* The claim of a message and its mark.  A message is marked only with its report
\* in an alarm.
LEMMA MessageSteps ==
    ASSUME RulesInv, BusInv', NEW t \in Topics, ClaimStandardMessage(t) \/ MarkProcessed(t)
    PROVE  RulesInv'
<1> USE DEF RulesInv
<1>1. /\ UNCHANGED <<alarm, rule, pending, order, people, hist, log, pos>> /\ stage[t] = "handle"
      /\ \A u \in Topics \ {t} : stage'[u] = stage[u]
  BY DEF ClaimStandardMessage, MarkProcessed, ReturnNil, Handled, At, bvars, BusInv, BusTypeOK
<1>2. h \in [Topics -> Handlers] /\ h[t] \in Handlers /\ IdleHandler \in Handlers
  BY TimeZero DEF StateOK, IdleHandler, Handlers, HandlerPcs
<1>3. MessageAt(t) \in Msgs /\ MessageAt(t)' = MessageAt(t) /\ Rows' = Rows /\ covered' = covered
      /\ UNCHANGED <<crossed, broken>>
  BY <1>1, MessageAtHand DEF hist, Rows
<1>4. CASE ReturnNil(t)
  <2>1. h' = [h EXCEPT ![t] = IdleHandler] /\ stage'[t] = "commit"
    BY <1>4 DEF ReturnNil, Handled, BusInv, BusTypeOK
  <2>2. h' \in [Topics -> Handlers] /\ h'[t] = IdleHandler /\ (\A u \in Topics \ {t} : h'[u] = h[u])
    BY <1>2, <2>1, HandlerTo
  <2>3. HandlerOK(t)'
    BY <2>1, <2>2, <1>3 DEF HandlerOK, IdleHandler
  <2>4. \A u \in Topics : HandlerOK(u)'
    BY <1>1, <1>3, <2>2, <2>3, OtherHandlers
  <2>5. std' \in [Msgs -> {"none", "claimed", "done"}] /\ ReportIsNeverDiscarded'
    <3>1. CASE ClaimStandardMessage(t)
      <4>1. std' = std
        BY <1>1, <2>1, <3>1 DEF ClaimStandardMessage, bvars
      <4> QED BY <1>3, <4>1 DEF StateOK, ReportIsNeverDiscarded
    <3>2. CASE MarkProcessed(t)
      BY <3>2, <1>3, RulesAssumption DEF MarkProcessed, At, StateOK, ReportIsNeverDiscarded, HandlerOK
    <3> QED BY <3>1, <3>2
  <2>6. StateOK'
    BY <1>1, <2>2, <2>5 DEF StateOK, AlarmTypeOK, people, hist
  <2>7. \A o \in Operators : RequestOK(o)'
    BY <1>1, RequestsStay DEF people, hist
  <2> QED BY <1>1, <2>4, <2>5, <2>6, <2>7 DEF people, hist, WindowIsUnbroken
<1>5. CASE ~ReturnNil(t)
  <2>1. /\ UNCHANGED bvars
        /\ std' = [std EXCEPT ![MessageAt(t)] = "claimed"]
        /\ h' = [h EXCEPT ![t] = [h[t] EXCEPT !.pc = "rules"]]
    BY <1>2, <1>5 DEF ClaimStandardMessage, MarkProcessed
  <2>2. [h[t] EXCEPT !.pc = "rules"] \in Handlers
    BY <1>2 DEF Handlers, HandlerPcs
  <2>3. /\ h' \in [Topics -> Handlers] /\ h'[t] = [h[t] EXCEPT !.pc = "rules"]
        /\ \A u \in Topics \ {t} : h'[u] = h[u]
    BY <1>2, <2>1, <2>2, HandlerTo
  <2>4. h'[t].pc = "rules" /\ h'[t].list = h[t].list
    BY <1>2, <2>3 DEF Handlers
  <2>5. HandlerOK(t)'
    BY <1>1, <2>1, <2>4, <1>3 DEF HandlerOK, bvars
  <2>6. \A u \in Topics : HandlerOK(u)'
    BY <1>1, <1>3, <2>3, <2>5, OtherHandlers
  <2>7. std' \in [Msgs -> {"none", "claimed", "done"}] /\ ReportIsNeverDiscarded'
    BY <1>3, <2>1, RulesAssumption DEF StateOK, ReportIsNeverDiscarded
  <2>8. StateOK'
    BY <1>1, <2>3, <2>7 DEF StateOK, AlarmTypeOK, people, hist
  <2>9. \A o \in Operators : RequestOK(o)'
    BY <1>1, RequestsStay DEF people, hist
  <2> QED BY <1>1, <2>6, <2>7, <2>8, <2>9 DEF people, hist, WindowIsUnbroken
<1> QED BY <1>4, <1>5

\* raiseRuleAlarm and raiseDirectAlarm: the message is in an alarm, and one that is
\* created now is late for every deletion that is going on.
LEMMA RaiseSteps ==
    ASSUME RulesInv, BusInv', NEW t \in Topics, RaiseRuleAlarm(t) \/ RaiseDirectAlarm(t)
    PROVE  RulesInv'
<1> USE DEF RulesInv
<1>1. /\ UNCHANGED <<bvars, rule, pending, std, people, broken, crossed>> /\ stage[t] = "handle"
      /\ covered' = covered \cup {MessageAt(t)}
  BY DEF RaiseRuleAlarm, RaiseDirectAlarm, At
<1>2. h \in [Topics -> Handlers] /\ h[t] \in Handlers /\ h[t].list \subseteq Rows
  BY DEF StateOK, HandlerOK
<1>3. MessageAt(t) \in Msgs /\ MessageAt(t) \in Triggers
  BY <1>1, MessageAtHand, RulesAssumption
<1>4. PICK s \in Sources, saved \in AlarmIds, created \in BOOLEAN :
        UpsertAlarm(s, MessageAt(t), saved, created) /\ Triggered(saved)
  <2>1. CASE RaiseRuleAlarm(t)
    <3>1. h[t].r \in Sources
      BY <2>1, RulesAssumption DEF RaiseRuleAlarm, At, HandlerOK
    <3> QED BY <2>1, <3>1 DEF RaiseRuleAlarm
  <2>2. CASE RaiseDirectAlarm(t)
    BY <2>2, RulesAssumption DEF RaiseDirectAlarm
  <2> QED BY <2>1, <2>2
<1>5. /\ AlarmTypeOK' /\ Rows \subseteq Rows'
      /\ \A a \in Rows : alarm'[a] = alarm[a]
      /\ \A a \in AlarmIds \ {saved} : alarm'[a] = alarm[a]
  BY <1>3, <1>4, UpsertKeeps DEF StateOK
<1>6. OnlyRow(saved)
  BY <1>5 DEF OnlyRow
<1>7. order' \in Orders /\ Noted(saved, Nil)
  BY <1>4, FrontIsAnOrder DEF Triggered, StateOK
<1>8. \A o \in Operators : RequestOK(o)'
  <2>1. ASSUME NEW o \in Operators PROVE RequestOK(o)'
    <3>1. op'[o] = op[o] /\ o # Nil
      BY <1>1, RulesAssumption DEF people
    <3> QED BY <1>6, <1>7, <3>1, NotedFrame DEF SameButList
  <2> QED BY <2>1
<1>9. \E x : h' = [h EXCEPT ![t] = x] /\ Holding(t, x, Rows', covered')
  <2>1. CASE RaiseRuleAlarm(t)
    <3> DEFINE x == [h[t] EXCEPT !.pc = "eval", !.todo = @ \ {h[t].r}, !.r = Nil]
    <3>1. h' = [h EXCEPT ![t] = x]
      BY <1>2, <2>1 DEF RaiseRuleAlarm
    <3>2. x \in Handlers /\ x.pc = "eval" /\ x.list = h[t].list
      BY <1>2 DEF Handlers, HandlerPcs
    <3> QED BY <1>1, <1>2, <1>5, <3>1, <3>2 DEF Holding
  <2>2. CASE RaiseDirectAlarm(t)
    <3> DEFINE x == [h[t] EXCEPT !.pc = "mark"]
    <3>1. h' = [h EXCEPT ![t] = x]
      BY <1>2, <2>2 DEF RaiseDirectAlarm
    <3>2. x \in Handlers /\ x.pc = "mark" /\ x.list = h[t].list
      BY <1>2 DEF Handlers, HandlerPcs
    <3> QED BY <1>1, <1>2, <1>5, <3>1, <3>2 DEF Holding
  <2> QED BY <2>1, <2>2
<1>10. h' \in [Topics -> Handlers] /\ (\A u \in Topics : HandlerOK(u)')
  BY <1>1, <1>5, <1>9, HandlerGoes
<1>11. late' \in [Operators -> SUBSET AlarmIds] /\ shifted' \in [Operators -> SUBSET Listings]
  BY <1>7, NotedTypes
<1>12. StateOK'
  BY <1>1, <1>5, <1>7, <1>10, <1>11 DEF StateOK, people
<1> QED BY <1>1, <1>8, <1>10, <1>12 DEF people, ReportIsNeverDiscarded, WindowIsUnbroken

\* What writing back a copy of an alarm leaves of the table and of the history.
LEMMA WrittenKeeps ==
    ASSUME StateOK, NEW a \in Rows, NEW st \in Statuses, NEW by, Written(a, st, by)
    PROVE  /\ AlarmTypeOK' /\ OnlyRow(a) /\ Rows \subseteq Rows' /\ order' \in Orders
           /\ Noted(a, by) /\ a \in AlarmIds
           /\ late' \in [Operators -> SUBSET AlarmIds]
           /\ shifted' \in [Operators -> SUBSET Listings]
<1>1. UpdateAlarm(a, st, alarm[a].critical) /\ Noted(a, by) /\ a \in AlarmIds /\ order' \in Orders
  BY DEF Written, Rows, StateOK
<1>2. /\ AlarmTypeOK' /\ Rows \subseteq Rows' /\ alarm'[a].source = alarm[a].source
      /\ \A b \in AlarmIds \ {a} : alarm'[b] = alarm[b]
  BY <1>1, UpdateKeeps DEF StateOK
<1> QED BY <1>1, <1>2, NotedTypes DEF OnlyRow

\* recoverRuleAlarm and recoverDirectAlarms, alarm by alarm.
LEMMA RecoverSteps ==
    ASSUME RulesInv, BusInv', NEW t \in Topics, RecoverRuleAlarm(t) \/ RecoverDirectAlarm(t)
    PROVE  RulesInv'
<1> USE DEF RulesInv
<1>1. /\ UNCHANGED <<bvars, rule, pending, std, people, covered, broken, crossed>>
      /\ stage[t] = "handle" /\ h[t].pc \in {"recover", "cleared", "mark"}
  BY DEF RecoverRuleAlarm, RecoverDirectAlarm, At
<1>2. h \in [Topics -> Handlers] /\ h[t] \in Handlers /\ h[t].list \subseteq Rows /\ HandlerOK(t)
  BY DEF StateOK, HandlerOK
<1>3. PICK a \in h[t].list :
         /\ Written(a, "RECOVERED", Nil)
         /\ RecoverRuleAlarm(t) => RecoverNext(t, h[t].list \ {a})
         /\ ~RecoverRuleAlarm(t) => h' = [h EXCEPT ![t].list = @ \ {a}]
  <2>1. CASE RecoverRuleAlarm(t)
    BY <2>1 DEF RecoverRuleAlarm
  <2>2. CASE ~RecoverRuleAlarm(t)
    BY <2>2 DEF RecoverDirectAlarm
  <2> QED BY <2>1, <2>2
<1>4. a \in Rows /\ "RECOVERED" \in Statuses
  BY <1>2 DEF Statuses, Open
<1>5. /\ AlarmTypeOK' /\ OnlyRow(a) /\ Rows \subseteq Rows' /\ order' \in Orders
      /\ Noted(a, Nil) /\ a \in AlarmIds
      /\ late' \in [Operators -> SUBSET AlarmIds]
      /\ shifted' \in [Operators -> SUBSET Listings]
  BY <1>3, <1>4, WrittenKeeps
<1>6. \A o \in Operators : RequestOK(o)'
  <2>1. ASSUME NEW o \in Operators PROVE RequestOK(o)'
    <3>1. op'[o] = op[o] /\ o # Nil
      BY <1>1, RulesAssumption DEF people
    <3> QED BY <1>5, <3>1, NotedFrame DEF SameButList
  <2> QED BY <2>1
<1>7. \E x : h' = [h EXCEPT ![t] = x] /\ Holding(t, x, Rows', covered')
  <2> DEFINE left == h[t].list \ {a}
  <2>1. left \subseteq Rows' /\ left \subseteq AlarmIds
    BY <1>2, <1>5 DEF Rows
  <2>2. CASE RecoverRuleAlarm(t) /\ left = {}
    <3> DEFINE x == [h[t] EXCEPT !.pc = "eval", !.todo = @ \ {h[t].r}, !.r = Nil, !.list = {}]
    <3>1. h' = [h EXCEPT ![t] = x] /\ h[t].pc = "recover"
      BY <1>3, <2>2 DEF RecoverNext, RecoverRuleAlarm, At
    <3>2. x \in Handlers /\ x.pc = "eval" /\ x.hit = h[t].hit /\ x.list = {}
      BY <1>2 DEF Handlers, HandlerPcs
    <3> QED BY <1>1, <1>2, <3>1, <3>2 DEF Holding, HandlerOK
  <2>3. CASE RecoverRuleAlarm(t) /\ left # {}
    <3> DEFINE x == [h[t] EXCEPT !.pc = "recover", !.list = left]
    <3>1. h' = [h EXCEPT ![t] = x] /\ h[t].pc = "recover"
      BY <1>3, <2>3 DEF RecoverNext, RecoverRuleAlarm, At
    <3> HIDE DEF left
    <3>2. x \in Handlers /\ x.pc = "recover" /\ x.hit = h[t].hit /\ x.list = left
      BY <1>2, <2>1 DEF Handlers, HandlerPcs
    <3> QED BY <1>1, <1>2, <2>1, <3>1, <3>2 DEF Holding, HandlerOK
  <2>4. CASE ~RecoverRuleAlarm(t)
    <3> DEFINE x == [h[t] EXCEPT !.list = left]
    <3>1. h' = [h EXCEPT ![t] = x]
      BY <1>2, <1>3, <2>4
    <3>3. h[t].pc \in {"cleared", "mark"}
      BY <2>4 DEF RecoverDirectAlarm
    <3> HIDE DEF left
    <3>2. x \in Handlers /\ x.pc = h[t].pc /\ x.hit = h[t].hit /\ x.list = left
      BY <1>2, <2>1 DEF Handlers
    <3> QED BY <1>1, <1>2, <2>1, <3>1, <3>2, <3>3 DEF Holding, HandlerOK
  <2> QED BY <2>2, <2>3, <2>4
<1>8. h' \in [Topics -> Handlers] /\ (\A u \in Topics : HandlerOK(u)')
  BY <1>1, <1>5, <1>7, HandlerGoes
<1>9. StateOK'
  BY <1>1, <1>5, <1>8 DEF StateOK, people
<1> QED BY <1>1, <1>6, <1>8, <1>9 DEF people, ReportIsNeverDiscarded, WindowIsUnbroken

\* A step of an operator leaves the handlers right, whatever its request becomes.
LEMMA HandlersStay ==
    ASSUME RulesInv, UNCHANGED <<bvars, h, covered, broken, crossed>>, Rows \subseteq Rows'
    PROVE  \A t \in Topics : HandlerOK(t)'
BY HandlerFrame DEF RulesInv, bvars, MessageAt

\* The fields of a request that is given its next state.
LEMMA RequestTo ==
    ASSUME op \in [Operators -> Requests], NEW o \in Operators, NEW y \in Requests,
           op' = [op EXCEPT ![o] = y]
    PROVE  op' \in [Operators -> Requests] /\ op'[o] = y /\ (\A q \in Operators \ {o} : op'[q] = op[q])
OBVIOUS

\* A request that has just begun, or is over, holds nothing.
LEMMA FreshRequest ==
    ASSUME NEW o \in Operators, NEW y, op'[o] = y, y.list \subseteq Rows', y.offset = 0, y.pc # "close",
           y.pc = "save" => y.kind \in {"on", "off"},
           y.pc \in {"save", "pendings"} => y.r \in Rules,
           y.pc = "pendings" => y.kind \in {"off", "delete"},
           y.pc = "status" => y.st \in {"ACTIVE", "ACKED", "CLOSED"}
    PROVE  RequestOK(o)'
BY DEF RequestOK, PagingOK

\* Requests that begin, rules that are written, windows that are deleted.
LEMMA RuleRequests ==
    ASSUME RulesInv, BusInv', NEW o \in Operators,
           \/ \E r \in Rules : SaveRuleOn(o, r) \/ SaveRuleOff(o, r) \/ DeleteRule(o, r)
           \/ SaveRule(o) \/ DeleteRulePendings(o) \/ RequestFails(o)
           \/ \E a \in AlarmIds, st \in {"ACKED", "CLOSED"} : ReadAlarm(o, a, st)
           \/ \E a \in AlarmIds : FuseVideoAlarm(o, a)
    PROVE  RulesInv'
<1> USE DEF RulesInv
<1>1. UNCHANGED <<bvars, alarm, order, std, h, clock, covered, broken, crossed>>
  BY DEF SaveRuleOn, SaveRuleOff, DeleteRule, SaveRule, DeleteRulePendings, RequestFails,
    ReadAlarm, FuseVideoAlarm, tables, hist
<1>2. Rows' = Rows /\ Rows \subseteq AlarmIds
  BY <1>1 DEF Rows
<1>3. op \in [Operators -> Requests] /\ op[o] \in Requests /\ RequestOK(o)
  BY DEF StateOK
<1>4. rule' \in [Rules -> {"on", "off", "absent"}]
  BY <1>3 DEF StateOK, RequestOK, SaveRuleOn, SaveRuleOff, DeleteRule, SaveRule, DeleteRulePendings,
    RequestFails, ReadAlarm, FuseVideoAlarm, tables
<1>5. pending' \in [Rules -> (0 .. MaxTime) \cup {Nil}] /\ WindowIsUnbroken'
  <2>1. CASE DeleteRulePendings(o)
    BY <1>1, <2>1 DEF StateOK, WindowIsUnbroken, DeleteRulePendings
  <2>2. CASE ~DeleteRulePendings(o)
    <3>1. pending' = pending
      BY <2>2 DEF SaveRuleOn, SaveRuleOff, DeleteRule, SaveRule, RequestFails, ReadAlarm,
        FuseVideoAlarm, tables
    <3> QED BY <1>1, <3>1 DEF StateOK, WindowIsUnbroken
  <2> QED BY <2>1, <2>2
<1>6. /\ late' \in [Operators -> SUBSET AlarmIds] /\ \A q \in Operators \ {o} : late'[q] = late[q]
      /\ shifted' \in [Operators -> SUBSET Listings] /\ \A q \in Operators \ {o} : shifted'[q] = shifted[q]
  BY DEF StateOK, SaveRuleOn, SaveRuleOff, DeleteRule, SaveRule, DeleteRulePendings,
    RequestFails, Over, ReadAlarm, FuseVideoAlarm, hist
<1>7. \E y \in Requests : op' = [op EXCEPT ![o] = y] /\ RequestOK(o)'
  <2>1. ASSUME NEW r \in Rules, SaveRuleOn(o, r) PROVE \E y \in Requests : op' = [op EXCEPT ![o] = y] /\ RequestOK(o)'
    <3> DEFINE y == [IdleRequest EXCEPT !.pc = "save", !.kind = "on", !.r = r]
    <3>1. op' = [op EXCEPT ![o] = y] /\ y \in Requests /\ y.pc = "save" /\ y.kind = "on" /\ y.r = r
          /\ y.list = {} /\ y.offset = 0
      BY <2>1, <1>3 DEF SaveRuleOn, Request, IdleRequest, Requests, Listings
    <3> HIDE DEF y
    <3> QED BY <1>3, <3>1, RequestTo, FreshRequest
  <2>2. ASSUME NEW r \in Rules, SaveRuleOff(o, r) PROVE \E y \in Requests : op' = [op EXCEPT ![o] = y] /\ RequestOK(o)'
    <3> DEFINE y == [IdleRequest EXCEPT !.pc = IF rule[r] = "on" THEN "pendings" ELSE "save",
                                          !.kind = "off", !.r = r]
    <3>1. op' = [op EXCEPT ![o] = y] /\ y \in Requests /\ y.pc \in {"save", "pendings"} /\ y.kind = "off"
          /\ y.r = r /\ y.list = {} /\ y.offset = 0
      BY <2>2, <1>3 DEF SaveRuleOff, Request, IdleRequest, Requests, Listings
    <3> HIDE DEF y
    <3> QED BY <1>3, <3>1, RequestTo, FreshRequest
  <2>3. ASSUME NEW r \in Rules, DeleteRule(o, r) PROVE \E y \in Requests : op' = [op EXCEPT ![o] = y] /\ RequestOK(o)'
    <3> DEFINE y == [IdleRequest EXCEPT !.pc = "pendings", !.kind = "delete", !.r = r]
    <3>1. op' = [op EXCEPT ![o] = y] /\ y \in Requests /\ y.pc = "pendings" /\ y.kind = "delete"
          /\ y.r = r /\ y.list = {} /\ y.offset = 0
      BY <2>3, <1>3 DEF DeleteRule, Request, IdleRequest, Requests, Listings
    <3> HIDE DEF y
    <3> QED BY <1>3, <3>1, RequestTo, FreshRequest
  <2>4. CASE SaveRule(o) \/ RequestFails(o)
    <3>1. op' = [op EXCEPT ![o] = IdleRequest] /\ IdleRequest \in Requests /\ IdleRequest.pc = "idle"
          /\ IdleRequest.list = {} /\ IdleRequest.offset = 0
      BY <2>4 DEF SaveRule, RequestFails, Over, IdleRequest, Requests, Listings
    <3> QED BY <1>3, <3>1, RequestTo, FreshRequest
  <2>5. CASE DeleteRulePendings(o)
    <3> DEFINE y == [op[o] EXCEPT !.pc = "close", !.st = "ACTIVE"]
    <3>1. op' = [op EXCEPT ![o] = y] /\ op[o].pc = "pendings"
      BY <2>5, <1>3 DEF DeleteRulePendings
    <3>2. y \in Requests /\ y.pc = "close" /\ y.st = "ACTIVE" /\ y.list = op[o].list
          /\ y.kind = op[o].kind /\ y.r = op[o].r /\ y.offset = op[o].offset
      BY <1>3 DEF Requests, Listings
    <3> HIDE DEF y
    <3>3. op'[o] = y
      BY <1>3, <3>1, <3>2, RequestTo
    <3>4. /\ op[o].list \subseteq Rows /\ op[o].r \in Rules /\ op[o].kind \in {"off", "delete"}
          /\ op[o].offset = 0
      BY <1>3, <3>1 DEF RequestOK
    <3>5. PagingOK(o)'
      <4>1. ASSUME NEW a PROVE Position(a, "ACTIVE")' >= 0
        <5>1. Position(a, "ACTIVE")' = Cardinality({b \in WithStatus("ACTIVE") : order[b] < order[a]})
          BY <1>1 DEF Position, WithStatus, Rows
        <5>2. {b \in WithStatus("ACTIVE") : order[b] < order[a]} \in SUBSET AlarmIds
          BY DEF WithStatus, Rows
        <5> QED BY <5>1, <5>2, AlarmsAreFinite
      <4> QED BY <3>2, <3>3, <3>4, <4>1 DEF PagingOK
    <3>6. RequestOK(o)'
      BY <1>2, <3>2, <3>3, <3>4, <3>5 DEF RequestOK
    <3> QED BY <3>1, <3>2, <3>6
  <2>6. ASSUME NEW a \in AlarmIds, NEW st \in {"ACTIVE", "ACKED", "CLOSED"}, a \in Rows,
               Request(o, [IdleRequest EXCEPT !.pc = "status", !.st = st, !.list = {a}])
        PROVE  \E y \in Requests : op' = [op EXCEPT ![o] = y] /\ RequestOK(o)'
    <3> DEFINE y == [IdleRequest EXCEPT !.pc = "status", !.st = st, !.list = {a}]
    <3>1. op' = [op EXCEPT ![o] = y] /\ y \in Requests /\ y.pc = "status" /\ y.st = st
          /\ y.list = {a} /\ y.offset = 0
      BY <2>6, <1>3 DEF Request, IdleRequest, Requests, Listings
    <3> HIDE DEF y
    <3> QED BY <1>2, <1>3, <2>6, <3>1, RequestTo, FreshRequest
  <2>7. ASSUME NEW a \in AlarmIds, NEW st \in {"ACKED", "CLOSED"}, ReadAlarm(o, a, st)
        PROVE  \E y \in Requests : op' = [op EXCEPT ![o] = y] /\ RequestOK(o)'
    BY <2>6, <2>7 DEF ReadAlarm
  <2>8. ASSUME NEW a \in AlarmIds, FuseVideoAlarm(o, a)
        PROVE  \E y \in Requests : op' = [op EXCEPT ![o] = y] /\ RequestOK(o)'
    BY <2>6, <2>8 DEF FuseVideoAlarm, WithStatus
  <2> QED BY <2>1, <2>2, <2>3, <2>4, <2>5, <2>7, <2>8
<1>8. /\ op' \in [Operators -> Requests] /\ RequestOK(o)'
      /\ \A q \in Operators \ {o} : op'[q] = op[q]
  BY <1>3, <1>7, RequestTo
<1>9. \A q \in Operators : RequestOK(q)'
  BY <1>1, <1>6, <1>8, RequestFrame
<1>10. \A t \in Topics : HandlerOK(t)'
  BY <1>1, <1>2, HandlersStay
<1>11. StateOK'
  BY <1>1, <1>4, <1>5, <1>6, <1>8 DEF StateOK, AlarmTypeOK
<1> QED BY <1>1, <1>5, <1>9, <1>10, <1>11 DEF ReportIsNeverDiscarded

\* The place of a row is a number.
LEMMA PositionType ==
    ASSUME NEW a, NEW st
    PROVE  Position(a, st) \in Nat
<1>1. {b \in WithStatus(st) : order[b] < order[a]} \in SUBSET AlarmIds
  BY DEF WithStatus, Rows
<1> QED BY <1>1, AlarmsAreFinite DEF Position

\* closeRuleAlarms takes a page.  With alarms of the rule in it the paging starts again
\* at zero; without, none is in the pages it has passed.
LEMMA PageStep ==
    ASSUME RulesInv, BusInv', NEW o \in Operators, ClosePage(o)
    PROVE  RulesInv'
<1> USE DEF RulesInv
<1> DEFINE found == Page(op[o].st, op[o].offset) \cap OfRule(op[o].r, op[o].st)
           y == [op[o] EXCEPT !.list = found, !.offset = NextOffset(o, found)]
<1>1. /\ UNCHANGED <<bvars, alarm, tables, h, clock, covered, broken, crossed, late>>
      /\ op[o].pc = "close" /\ op[o].list = {}
      /\ op' = [op EXCEPT ![o].list = found, ![o].offset = NextOffset(o, found)]
      /\ shifted' = [shifted EXCEPT ![o] = IF found # {} THEN shifted[o] \ {op[o].st} ELSE shifted[o]]
  BY DEF ClosePage
<1>2. op \in [Operators -> Requests] /\ op[o] \in Requests /\ RequestOK(o) /\ op[o].offset \in Nat
  BY DEF StateOK, Requests
<1>3. found \subseteq Rows /\ Rows \subseteq AlarmIds /\ Rows' = Rows
  BY <1>1 DEF OfRule, WithStatus, Rows
<1>4. /\ Cardinality(Page(op[o].st, op[o].offset)) \in Nat
      /\ Cardinality(Page(op[o].st, op[o].offset)) <= BatchSize
  BY <1>2, PageFits DEF StateOK
<1>5. /\ found # {} => NextOffset(o, found) = 0
      /\ found = {} => NextOffset(o, found) = op[o].offset + Cardinality(Page(op[o].st, op[o].offset))
      /\ NextOffset(o, found) \in Nat
  BY <1>2, <1>4 DEF NextOffset
<1>6. op' = [op EXCEPT ![o] = y]
  BY <1>1, <1>2
<1>7. \A a \in OfRule(op[o].r, op[o].st) \ found :
        Position(a, op[o].st) \in op[o].offset .. op[o].offset + BatchSize - 1 => FALSE
  BY DEF OfRule, Page
<1> HIDE DEF found
<1>8. /\ y \in Requests /\ y.pc = "close" /\ y.kind = op[o].kind /\ y.r = op[o].r /\ y.st = op[o].st
      /\ y.list = found /\ y.offset = NextOffset(o, found)
  BY <1>1, <1>2, <1>3, <1>5 DEF Requests
<1> HIDE DEF y
<1>9. op' \in [Operators -> Requests] /\ op'[o] = y /\ \A q \in Operators \ {o} : op'[q] = op[q]
  BY <1>2, <1>6, <1>8, RequestTo
<1>10. /\ shifted' \in [Operators -> SUBSET Listings]
       /\ \A q \in Operators \ {o} : shifted'[q] = shifted[q]
       /\ shifted'[o] \subseteq shifted[o] /\ (found = {} => shifted'[o] = shifted[o])
       /\ op[o].st # "ACTIVE" /\ "ACTIVE" \in shifted[o] => "ACTIVE" \in shifted'[o]
  BY <1>1 DEF StateOK
<1>11. PagingOK(o)'
  <2>1. SUFFICES ASSUME op[o].kind = "delete"
                 PROVE  /\ op[o].st \notin shifted'[o] =>
                             \A a \in OfRule(op[o].r, op[o].st) : Position(a, op[o].st) >= y.offset
                        /\ op[o].st = "ACKED" /\ "ACTIVE" \notin shifted'[o]
                             => OfRule(op[o].r, "ACTIVE") \subseteq late[o]
    BY <1>1, <1>8, <1>9 DEF PagingOK, OfRule, Position, WithStatus, Rows, tables
  <2>2. ASSUME op[o].st \notin shifted'[o], NEW a \in OfRule(op[o].r, op[o].st)
        PROVE  Position(a, op[o].st) >= y.offset
    <3>1. Position(a, op[o].st) \in Nat
      BY PositionType
    <3>2. CASE found # {}
      BY <1>5, <1>8, <3>1, <3>2
    <3>3. CASE found = {}
      <4>1. op[o].st \notin shifted[o]
        BY <1>10, <2>2, <3>3
      <4>2. Position(a, op[o].st) >= op[o].offset
        BY <1>1, <1>2, <2>1, <2>2, <4>1 DEF RequestOK, PagingOK
      <4>3. Position(a, op[o].st) \notin op[o].offset .. op[o].offset + BatchSize - 1
        BY <1>7, <2>2, <3>3
      <4>4. BatchSize \in Nat
        BY RulesAssumption
      <4>5. Position(a, op[o].st) >= op[o].offset + BatchSize
        BY <1>2, <3>1, <4>2, <4>3, <4>4
      <4>6. y.offset = op[o].offset + Cardinality(Page(op[o].st, op[o].offset))
        BY <1>5, <1>8, <3>3
      <4> QED BY <1>2, <1>4, <3>1, <4>4, <4>5, <4>6
    <3> QED BY <3>2, <3>3
  <2>3. ASSUME op[o].st = "ACKED", "ACTIVE" \notin shifted'[o]
        PROVE  OfRule(op[o].r, "ACTIVE") \subseteq late[o]
    BY <1>1, <1>2, <1>10, <2>1, <2>3 DEF RequestOK, PagingOK
  <2> QED BY <2>2, <2>3
<1>12. RequestOK(o)'
  BY <1>1, <1>2, <1>3, <1>5, <1>8, <1>9, <1>11 DEF RequestOK
<1>13. \A q \in Operators : RequestOK(q)'
  BY <1>1, <1>9, <1>10, <1>12, RequestFrame DEF tables
<1>14. \A t \in Topics : HandlerOK(t)'
  BY <1>1, <1>3, HandlersStay
<1>15. StateOK'
  BY <1>1, <1>9, <1>10 DEF StateOK, AlarmTypeOK, tables
<1> QED BY <1>1, <1>13, <1>14, <1>15 DEF tables, ReportIsNeverDiscarded, WindowIsUnbroken

\* An empty page: no alarm of the rule is in the listing that ends here.
LEMMA EmptyPage ==
    ASSUME RulesInv, NEW o \in Operators, op[o].kind = "delete", op[o].pc = "close",
           PageIsEmpty(op[o].st, op[o].offset), op[o].st \notin shifted[o]
    PROVE  OfRule(op[o].r, op[o].st) = {}
<1>1. SUFFICES ASSUME NEW a \in OfRule(op[o].r, op[o].st) PROVE FALSE
  OBVIOUS
<1>2. a \in WithStatus(op[o].st) /\ op[o].offset \in Nat
  BY <1>1 DEF OfRule, RulesInv, StateOK, Requests
<1>3. Position(a, op[o].st) >= op[o].offset
  BY <1>1 DEF RulesInv, RequestOK, PagingOK
<1>4. /\ Position(a, op[o].st) \in Nat /\ Cardinality(WithStatus(op[o].st)) \in Nat
      /\ Position(a, op[o].st) < Cardinality(WithStatus(op[o].st))
  BY <1>2, PositionBelow DEF RulesInv, StateOK
<1> QED BY <1>2, <1>3, <1>4 DEF PageIsEmpty

\* closeRuleAlarms comes to the end of a listing.
LEMMA NextListing ==
    ASSUME RulesInv, BusInv', NEW o \in Operators, CloseNext(o)
    PROVE  RulesInv'
<1> USE DEF RulesInv
<1>1. /\ UNCHANGED <<bvars, alarm, tables, h, clock, covered, broken, crossed>>
      /\ op[o].pc = "close" /\ op[o].list = {} /\ PageIsEmpty(op[o].st, op[o].offset)
  BY DEF CloseNext
<1>2. op \in [Operators -> Requests] /\ op[o] \in Requests /\ RequestOK(o)
  BY DEF StateOK
<1>3. Rows' = Rows
  BY <1>1 DEF Rows
<1>4. /\ late' \in [Operators -> SUBSET AlarmIds] /\ \A q \in Operators \ {o} : late'[q] = late[q]
      /\ shifted' \in [Operators -> SUBSET Listings] /\ \A q \in Operators \ {o} : shifted'[q] = shifted[q]
  BY DEF StateOK, CloseNext, Over
<1>5. \E y \in Requests : op' = [op EXCEPT ![o] = y] /\ RequestOK(o)'
  <2>1. CASE op[o].st = "ACTIVE"
    <3> DEFINE y == [op[o] EXCEPT !.st = "ACKED", !.offset = 0]
    <3>1. op' = [op EXCEPT ![o] = y] /\ UNCHANGED <<late, shifted>>
      BY <1>2, <2>1 DEF CloseNext
    <3>2. y \in Requests /\ y.pc = "close" /\ y.kind = op[o].kind /\ y.r = op[o].r
          /\ y.st = "ACKED" /\ y.list = {} /\ y.offset = 0
      BY <1>1, <1>2 DEF Requests, Listings
    <3> HIDE DEF y
    <3>3. op'[o] = y
      BY <1>2, <3>1, <3>2, RequestTo
    <3>4. PagingOK(o)'
      <4>1. \A a : Position(a, "ACKED")' = Position(a, "ACKED") /\ Position(a, "ACKED") \in Nat
        BY <1>1, PositionType DEF tables, Position, WithStatus, Rows
      <4>2. op[o].kind = "delete" /\ "ACTIVE" \notin shifted[o] => OfRule(op[o].r, "ACTIVE") = {}
        BY <1>1, <2>1, EmptyPage
      <4>4. \A r : OfRule(r, "ACTIVE")' = OfRule(r, "ACTIVE")
        BY <1>1 DEF OfRule, WithStatus, Rows
      <4> QED BY <3>1, <3>2, <3>3, <4>1, <4>2, <4>4 DEF PagingOK
    <3>5. RequestOK(o)'
      BY <1>1, <1>2, <1>3, <3>2, <3>3, <3>4 DEF RequestOK
    <3> QED BY <3>1, <3>2, <3>5
  <2>2. CASE op[o].st # "ACTIVE" /\ op[o].kind = "off"
    <3> DEFINE y == [op[o] EXCEPT !.pc = "save", !.st = Nil, !.offset = 0]
    <3>1. op' = [op EXCEPT ![o] = y]
      BY <1>2, <2>2 DEF CloseNext
    <3>2. y \in Requests /\ y.pc = "save" /\ y.kind = op[o].kind /\ y.r = op[o].r
          /\ y.list = {} /\ y.offset = 0
      BY <1>1, <1>2 DEF Requests, Listings
    <3> HIDE DEF y
    <3>3. op[o].r \in Rules
      BY <1>1, <1>2 DEF RequestOK
    <3> QED BY <1>2, <2>2, <3>1, <3>2, <3>3, RequestTo, FreshRequest
  <2>3. CASE op[o].st # "ACTIVE" /\ op[o].kind # "off"
    <3>1. op' = [op EXCEPT ![o] = IdleRequest]
      BY <2>3 DEF CloseNext, Over
    <3>2. IdleRequest \in Requests /\ IdleRequest.pc = "idle" /\ IdleRequest.list = {} /\ IdleRequest.offset = 0
      BY DEF IdleRequest, Requests, Listings
    <3> QED BY <1>2, <3>1, <3>2, RequestTo, FreshRequest
  <2> QED BY <2>1, <2>2, <2>3
<1>6. op' \in [Operators -> Requests] /\ RequestOK(o)' /\ \A q \in Operators \ {o} : op'[q] = op[q]
  BY <1>2, <1>5, RequestTo
<1>7. \A q \in Operators : RequestOK(q)'
  BY <1>1, <1>4, <1>6, RequestFrame DEF tables
<1>8. \A t \in Topics : HandlerOK(t)'
  BY <1>1, <1>3, HandlersStay
<1>9. StateOK'
  BY <1>1, <1>4, <1>6 DEF StateOK, AlarmTypeOK, tables
<1> QED BY <1>1, <1>7, <1>8, <1>9 DEF tables, ReportIsNeverDiscarded, WindowIsUnbroken

\* closeRuleAlarms, SetAlarmStatus and fuseVideoAlarm write an alarm.
LEMMA AlarmRequests ==
    ASSUME RulesInv, BusInv', NEW o \in Operators, CloseAlarm(o) \/ WriteAlarm(o)
    PROVE  RulesInv'
<1> USE DEF RulesInv
<1>1. UNCHANGED <<bvars, rule, pending, std, h, clock, covered, broken, crossed>>
  BY DEF CloseAlarm, WriteAlarm
<1>2. op \in [Operators -> Requests] /\ op[o] \in Requests /\ op[o].list \subseteq Rows /\ RequestOK(o)
  BY DEF StateOK, RequestOK
<1>3. \E a \in op[o].list, st \in Statuses :
         /\ Written(a, st, o)
         /\ CloseAlarm(o) => op[o].pc = "close" /\ op' = [op EXCEPT ![o].list = @ \ {a}]
         /\ ~CloseAlarm(o) => op' = [op EXCEPT ![o] = IdleRequest]
  <2>1. CASE CloseAlarm(o)
    <3>1. "RECOVERED" \in Statuses
      BY DEF Statuses
    <3> QED BY <2>1, <3>1 DEF CloseAlarm
  <2>2. CASE ~CloseAlarm(o)
    <3>1. op[o].st \in Statuses
      BY <1>2, <2>2 DEF WriteAlarm, RequestOK, Statuses, Open
    <3> QED BY <2>2, <3>1 DEF WriteAlarm
  <2> QED BY <2>1, <2>2
<1>4. PICK a \in op[o].list, st \in Statuses :
         /\ Written(a, st, o)
         /\ CloseAlarm(o) => op[o].pc = "close" /\ op' = [op EXCEPT ![o].list = @ \ {a}]
         /\ ~CloseAlarm(o) => op' = [op EXCEPT ![o] = IdleRequest]
  BY <1>3
<1>5. /\ AlarmTypeOK' /\ OnlyRow(a) /\ Rows \subseteq Rows' /\ order' \in Orders
      /\ Noted(a, o) /\ a \in AlarmIds
      /\ late' \in [Operators -> SUBSET AlarmIds]
      /\ shifted' \in [Operators -> SUBSET Listings]
  BY <1>2, <1>4, WrittenKeeps
<1>6. \E y \in Requests : op' = [op EXCEPT ![o] = y] /\ RequestOK(o)'
  <2>1. CASE CloseAlarm(o)
    <3> DEFINE y == [op[o] EXCEPT !.list = @ \ {a}]
    <3>1. op' = [op EXCEPT ![o] = y] /\ y \in Requests /\ y.pc = op[o].pc /\ y.kind = op[o].kind
          /\ y.r = op[o].r /\ y.st = op[o].st /\ y.offset = op[o].offset /\ y.list = op[o].list \ {a}
      BY <1>2, <1>4, <2>1 DEF Requests
    <3> HIDE DEF y
    <3>2. op'[o] = y
      BY <1>2, <3>1, RequestTo
    <3>3. op[o].offset = 0 /\ op[o].pc = "close"
      BY <1>2, <1>4, <2>1 DEF RequestOK
    <3>4. RequestOK(o)'
      BY <1>2, <1>5, <3>1, <3>2, <3>3, NotedFrame DEF SameButList
    <3> QED BY <3>1, <3>4
  <2>2. CASE ~CloseAlarm(o)
    <3>1. IdleRequest \in Requests /\ IdleRequest.pc = "idle" /\ IdleRequest.list = {} /\ IdleRequest.offset = 0
      BY DEF IdleRequest, Requests, Listings
    <3> QED BY <1>2, <1>4, <2>2, <3>1, RequestTo, FreshRequest
  <2> QED BY <2>1, <2>2
<1>7. op' \in [Operators -> Requests] /\ RequestOK(o)' /\ \A q \in Operators \ {o} : op'[q] = op[q]
  BY <1>2, <1>6, RequestTo
<1>8. \A q \in Operators : RequestOK(q)'
  <2>1. ASSUME NEW q \in Operators \ {o} PROVE RequestOK(q)'
    BY <1>5, <1>7, NotedFrame DEF SameButList
  <2> QED BY <1>7, <2>1
<1>9. \A t \in Topics : HandlerOK(t)'
  BY <1>1, <1>5, HandlersStay
<1>10. StateOK'
  BY <1>1, <1>5, <1>7 DEF StateOK
<1> QED BY <1>1, <1>8, <1>9, <1>10 DEF ReportIsNeverDiscarded, WindowIsUnbroken

-----------------------------------------------------------------------------
(* The theorems. *)

\* The invariant is inductive.
LEMMA RulesStepInv == RulesInv /\ [Next]_vars => RulesInv'
<1> SUFFICES ASSUME RulesInv, [Next]_vars PROVE RulesInv'
  OBVIOUS
<1>1. BusInv'
  BY StepOfTheBus, BusStepInv DEF RulesInv
<1>2. CASE UNCHANGED vars
  <2>1. UNCHANGED <<bvars, alarm, tables, h, people, hist>>
    BY <1>2 DEF vars, rvars
  <2>2. \A t \in Topics : HandlerOK(t)'
    BY <2>1, HandlerFrame DEF RulesInv, bvars, hist, MessageAt, Rows
  <2>3. \A o \in Operators : RequestOK(o)'
    BY <2>1, RequestsStay DEF RulesInv, tables, people, hist
  <2> QED BY <1>1, <2>1, <2>2, <2>3 DEF RulesInv, StateOK, AlarmTypeOK, tables, people, hist,
        ReportIsNeverDiscarded, WindowIsUnbroken
<1>3. CASE Tick
  <2>1. /\ UNCHANGED <<bvars, alarm, tables, h, op, hist>>
        /\ clock' \in 0 .. MaxTime /\ clock' >= clock
    BY <1>3, RulesAssumption DEF Tick, RulesInv, StateOK
  <2>2. \A t \in Topics : HandlerOK(t)'
    BY <2>1, HandlerFrame DEF RulesInv, bvars, hist, MessageAt, Rows
  <2>3. \A o \in Operators : RequestOK(o)'
    BY <2>1, RequestsStay DEF RulesInv, tables, hist
  <2>4. \A r \in Rules : broken'[r] <= clock'
    BY <2>1, RulesAssumption DEF RulesInv, StateOK, hist
  <2> QED BY <1>1, <2>1, <2>2, <2>3, <2>4 DEF RulesInv, StateOK, AlarmTypeOK, tables, hist,
        ReportIsNeverDiscarded, WindowIsUnbroken
<1>4. ASSUME NEW t \in Topics,
             (\E m \in Msgs : Arrive(t, m)) \/ Reader(t) \/ Stop(t) \/ ReturnError(t)
      PROVE  RulesInv'
  BY <1>1, <1>4, ReaderSteps
<1>5. ASSUME NEW t \in Topics, HandleStandard(t) PROVE RulesInv'
  BY <1>1, <1>5, QuietSteps, SaveStep, NoMatchStep, MessageSteps, RaiseSteps, RecoverSteps DEF HandleStandard
<1>6. ASSUME NEW o \in Operators, Operate(o) PROVE RulesInv'
  BY <1>1, <1>6, RuleRequests, PageStep, NextListing, AlarmRequests DEF Operate
<1> QED BY <1>2, <1>3, <1>4, <1>5, <1>6 DEF Next

\* The invariant holds in every reachable state.
LEMMA RulesInvAlways == Spec => []RulesInv
BY RulesInitInv, RulesStepInv, PTL DEF Spec

\* Whatever rules are created, disabled and deleted between two calls of a handler,
\* and wherever a reader dies, a report that was processed is in an alarm, and a
\* stored window is an unbroken run of matching messages, unless a failed match came
\* between another handler's reading no window and its saving one.
THEOREM ReportsAreHandled == Spec => []HandlingIsSound
<1>1. RulesInv => HandlingIsSound
  BY RulesInvSound
<1> QED BY <1>1, RulesInvAlways, PTL

\* The consumer group never commits past a message that was neither handled nor
\* dead-lettered, unless the dead-letter topic refused that message.
THEOREM OffsetsAreSettled == Spec => []CommittedIsSettled
<1>1. RulesInv => CommittedIsSettled
  BY RulesInvSound
<1> QED BY <1>1, RulesInvAlways, PTL

\* A deletion that returns has closed every alarm of its rule on any device but the ones
\* that became ACTIVE after it began, however many requests and messages come in
\* between and whatever else is on the pages, unless somebody else moved rows while it
\* was past the first page.
THEOREM DeletedRulesAreClosed == Spec => DeletionCloses
<1> DEFINE A == \A o \in Operators :
                 op[o].kind = "delete" /\ CloseNext(o) /\ op'[o].pc = "idle" /\ shifted[o] = {}
                    => OfRule(op[o].r, "ACTIVE") \cup OfRule(op[o].r, "ACKED") \subseteq late[o]
<1>1. ASSUME RulesInv, NEW o \in Operators, op[o].kind = "delete", CloseNext(o), op'[o].pc = "idle",
             shifted[o] = {}
      PROVE  OfRule(op[o].r, "ACTIVE") \cup OfRule(op[o].r, "ACKED") \subseteq late[o]
  <2>1. op \in [Operators -> Requests] /\ op[o] \in Requests /\ RequestOK(o)
    BY <1>1 DEF RulesInv, StateOK
  <2>2. op[o].pc = "close" /\ PageIsEmpty(op[o].st, op[o].offset)
    BY <1>1 DEF CloseNext
  <2>3. op[o].st # "ACTIVE"
    <3>1. op[o].st = "ACTIVE" => op'[o] = [op[o] EXCEPT !.st = "ACKED", !.offset = 0]
      BY <1>1, <2>1 DEF CloseNext
    <3> QED BY <1>1, <2>1, <2>2, <3>1 DEF Requests
  <2>4. op[o].st = "ACKED"
    BY <2>1, <2>2, <2>3 DEF RequestOK
  <2>5. OfRule(op[o].r, "ACKED") = {}
    BY <1>1, <2>2, <2>4, EmptyPage
  <2> QED BY <1>1, <2>1, <2>2, <2>4, <2>5 DEF RequestOK, PagingOK
<1>2. RulesInv /\ [Next]_vars => [A]_vars
  BY <1>1
<1>3. Spec => [][A]_vars
  BY <1>2, RulesInvAlways, PTL DEF Spec
<1> QED BY <1>3 DEF DeletionCloses

\* An alarm that has ended is opened again only by writing back a copy that was read while
\* it was ACTIVE: no message, and no other request, revives it.
THEOREM EndedAlarmsStay == Spec => EndedStaysEnded
<1> DEFINE A == \A a \in Rows : alarm[a].status \notin Open /\ alarm'[a].status \in Open
             => \E o \in Operators : op[o].pc = "status" /\ op[o].st \in Open /\ a \in op[o].list
<1>1. ASSUME RulesInv, Next PROVE A
  <2>1. SUFFICES ASSUME NEW a \in Rows, alarm[a].status \notin Open, alarm'[a].status \in Open
                 PROVE  \E o \in Operators : op[o].pc = "status" /\ op[o].st \in Open /\ a \in op[o].list
    OBVIOUS
  <2>2. alarm' # alarm /\ a \in AlarmIds
    BY <2>1 DEF Rows
  <2>3. ASSUME NEW b \in Rows, NEW st \in Statuses, UpdateAlarm(b, st, alarm[b].critical)
        PROVE  a = b /\ st \in Open
    BY <1>1, <2>1, <2>2, <2>3, UpdateKeeps DEF RulesInv, StateOK
  <2>4. "RECOVERED" \in Statuses \ Open /\ "CLOSED" \in Statuses \ Open /\ Open \subseteq Statuses
    BY DEF Statuses, Open
  <2>5. ASSUME NEW t \in Topics, RaiseRuleAlarm(t) \/ RaiseDirectAlarm(t) PROVE FALSE
    <3>1. stage[t] = "handle"
      BY <2>5 DEF RaiseRuleAlarm, RaiseDirectAlarm, At
    <3>2. MessageAt(t) \in Triggers
      BY <1>1, <3>1, MessageAtHand, RulesAssumption DEF RulesInv
    <3>3. PICK s \in Sources, saved \in AlarmIds, created \in BOOLEAN :
            UpsertAlarm(s, MessageAt(t), saved, created)
      <4>1. CASE RaiseRuleAlarm(t)
        <5>1. h[t].r \in Sources
          BY <1>1, <4>1, RulesAssumption DEF RulesInv, RaiseRuleAlarm, At, HandlerOK
        <5> QED BY <4>1, <5>1 DEF RaiseRuleAlarm
      <4>2. CASE RaiseDirectAlarm(t)
        BY <4>2, RulesAssumption DEF RaiseDirectAlarm
      <4> QED BY <2>5, <4>1, <4>2
    <3> QED BY <1>1, <2>1, <3>2, <3>3, UpsertKeeps DEF RulesInv, StateOK
  <2>6. ASSUME NEW t \in Topics, RecoverRuleAlarm(t) \/ RecoverDirectAlarm(t) PROVE FALSE
    <3>1. PICK b \in h[t].list : UpdateAlarm(b, "RECOVERED", alarm[b].critical)
      BY <2>6 DEF RecoverRuleAlarm, RecoverDirectAlarm, Written
    <3>2. b \in Rows
      BY <1>1 DEF RulesInv, HandlerOK
    <3> QED BY <2>3, <2>4, <3>1, <3>2
  <2>7. ASSUME NEW t \in Topics,
               \/ \E m \in Msgs : Arrive(t, m)
               \/ Reader(t) \/ Stop(t) \/ ReturnError(t) \/ HandleStandard(t)
        PROVE  FALSE
    BY <2>2, <2>5, <2>6, <2>7 DEF Arrive, Reader, Fetch, End, Bury, Commit, Resume, Stop, ReturnError,
      HandleStandard, ClaimStandardMessage, ListRules, MatchWaits, MatchBegins, SaveRulePending,
      MatchRaises, NoMatch, RecoverList, RecoverDirectList, NoDirectAlarm, MarkProcessed
  <2>8. ASSUME NEW o \in Operators, Operate(o)
        PROVE  op[o].pc = "status" /\ op[o].st \in Open /\ a \in op[o].list
    <3>1. CloseAlarm(o) \/ WriteAlarm(o)
      BY <2>2, <2>8 DEF Operate, SaveRuleOn, SaveRuleOff, DeleteRule, SaveRule, DeleteRulePendings,
        ClosePage, CloseNext, ReadAlarm, FuseVideoAlarm, RequestFails
    <3>2. op[o].list \subseteq Rows /\ (op[o].pc = "status" => op[o].st \in {"ACTIVE", "ACKED", "CLOSED"})
      BY <1>1 DEF RulesInv, RequestOK
    <3>3. CASE CloseAlarm(o)
      BY <2>3, <2>4, <3>2, <3>3 DEF CloseAlarm, Written
    <3>4. CASE WriteAlarm(o)
      BY <2>3, <2>4, <3>2, <3>4 DEF WriteAlarm, Written, Open
    <3> QED BY <3>1, <3>3, <3>4
  <2>9. ~Tick
    BY <2>2 DEF Tick
  <2> QED BY <1>1, <2>7, <2>8, <2>9 DEF Next
<1>2. RulesInv /\ [Next]_vars => [A]_vars
  BY <1>1
<1>3. Spec => [][A]_vars
  BY <1>2, RulesInvAlways, PTL DEF Spec
<1> QED BY <1>3 DEF EndedStaysEnded

=============================================================================
