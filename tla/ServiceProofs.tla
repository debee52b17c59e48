---------------------------- MODULE ServiceProofs ----------------------------
(***************************************************************************)
(* Proofs about the services around the pipeline: the layers under one     *)
(* standard message, the AI settings and chat runs, protocol releases and  *)
(* backups.  Each theorem is about one component, for every number of      *)
(* messages, runs, uploads and files.                                      *)
(***************************************************************************)
EXTENDS StoreLayers, AiProvider, ProtocolRelease, BackupService, FiniteSetTheorems, TLAPS

-----------------------------------------------------------------------------
(* StoreLayers: a delivery goes on to the cache and the handler only with a *)
(* telemetry row.  While no two deliveries of a message have crossed, one   *)
(* that is about to insert knows that there is no row and none on its way.  *)

DeliveryTypes ==
    [msg: StdMsgs, at: {"telemetry", "insert", "cache", "handle"}, created: BOOLEAN] \cup {NoDelivery}

LayersTypeInv ==
    /\ stdRow \in [StdMsgs -> {"absent", "stored", "processed"}]
    /\ telemetry \in [StdMsgs -> Nat] /\ onTheWay \in [StdMsgs -> Nat]
    /\ delivery \in [Handlers -> DeliveryTypes] /\ crossed \subseteq StdMsgs

\* Whatever crosses: a row for what is done, and for what a handler goes on with.
HandledInv ==
    /\ \A m \in StdMsgs :
          /\ stdRow[m] = "processed" => telemetry[m] > 0
          /\ stdRow[m] = "absent" => telemetry[m] = 0 /\ onTheWay[m] = 0
    /\ \A h \in Handlers : delivery[h] # NoDelivery =>
          /\ stdRow[delivery[h].msg] # "absent"
          /\ delivery[h].at \in {"cache", "handle"} => telemetry[delivery[h].msg] > 0

\* As long as the deliveries of a message have come one after the other.
AloneInv ==
    \A m \in StdMsgs \ crossed :
        /\ telemetry[m] + onTheWay[m] <= 1
        /\ \A h \in Handlers : delivery[h].msg = m =>
              /\ onTheWay[m] = 0
              /\ \A g \in Handlers : delivery[g].msg = m => g = h
              /\ delivery[h].at = "telemetry" /\ delivery[h].created => telemetry[m] = 0
              /\ delivery[h].at = "insert" => telemetry[m] = 0

LayersInv == LayersTypeInv /\ HandledInv /\ AloneInv

\* What is in a handler's hand is a message and a step, or nothing.
LEMMA DeliveryFacts ==
    ASSUME LayersTypeInv, NEW h \in Handlers
    PROVE  /\ NoDelivery.msg = 0 /\ NoDelivery.at = "idle" /\ 0 \notin StdMsgs
           /\ delivery[h] # NoDelivery =>
                /\ delivery[h] = [msg |-> delivery[h].msg, at |-> delivery[h].at, created |-> delivery[h].created]
                /\ delivery[h].msg \in StdMsgs /\ delivery[h].at \in {"telemetry", "insert", "cache", "handle"}
                /\ delivery[h].created \in BOOLEAN
BY LayersAssumption DEF LayersTypeInv, DeliveryTypes, NoDelivery

\* A handler that goes to another step keeps the rest.
LEMMA AtChanges ==
    ASSUME LayersTypeInv, NEW h \in Handlers, delivery[h] # NoDelivery, NEW x
    PROVE  [delivery EXCEPT ![h].at = x] =
              [delivery EXCEPT ![h] = [msg |-> delivery[h].msg, at |-> x, created |-> delivery[h].created]]
<1>1. PICK m, a, c : delivery[h] = [msg |-> m, at |-> a, created |-> c]
  BY DeliveryFacts
<1>2. [delivery[h] EXCEPT !.at = x] = [msg |-> m, at |-> x, created |-> c]
  BY <1>1
<1>3. [delivery EXCEPT ![h].at = x] = [delivery EXCEPT ![h] = [delivery[h] EXCEPT !.at = x]]
  OBVIOUS
<1> QED BY <1>1, <1>2, <1>3

\* A delivery that comes is alone with its message, or the message counts as crossed.
LEMMA ClaimKeeps ==
    ASSUME LayersInv, NEW h \in Handlers, NEW m \in StdMsgs, ClaimRow(h, m)
    PROVE  LayersInv'
<1>1. LayersTypeInv /\ HandledInv /\ AloneInv
  BY DEF LayersInv
<1>2. CASE stdRow[m] = "processed"
  <2>1. UNCHANGED <<stdRow, telemetry, onTheWay, delivery, crossed>>
    BY <1>2 DEF ClaimRow
  <2> QED BY <1>1, <2>1 DEF LayersInv, LayersTypeInv, HandledInv, AloneInv
<1>3. CASE stdRow[m] # "processed"
  <2>1. PICK new \in BOOLEAN :
           /\ new = (stdRow[m] = "absent") /\ UNCHANGED <<telemetry, onTheWay>>
           /\ delivery' = [delivery EXCEPT ![h] = [msg |-> m, at |-> "telemetry", created |-> new]]
           /\ stdRow' = [stdRow EXCEPT ![m] = "stored"]
           /\ crossed' = IF UnderWay(m) THEN crossed \cup {m} ELSE crossed
           /\ delivery[h] = NoDelivery
    BY <1>3 DEF ClaimRow
  <2>2. PICK d \in DeliveryTypes :
           d = [msg |-> m, at |-> "telemetry", created |-> new] /\ d # NoDelivery
    <3> DEFINE e == [msg |-> m, at |-> "telemetry", created |-> new]
    <3>1. e \in DeliveryTypes /\ e.at = "telemetry"
      BY DEF DeliveryTypes
    <3>2. NoDelivery.at = "idle"
      BY DEF NoDelivery
    <3>3. e # NoDelivery
      BY <3>1, <3>2
    <3> QED BY <3>1, <3>3
  <2>3. d.msg = m /\ d.at = "telemetry" /\ d.created = new
    BY <2>2
  <2>4. delivery' = [delivery EXCEPT ![h] = d]
    BY <2>1, <2>2
  <2>5. LayersTypeInv'
    BY <1>1, <2>1, <2>4 DEF LayersTypeInv
  <2>6. HandledInv'
    BY <1>1, <1>3, <2>1, <2>3, <2>4 DEF HandledInv, LayersTypeInv
  <2>7. ASSUME NEW k \in StdMsgs, k \notin crossed'
        PROVE  /\ telemetry'[k] + onTheWay'[k] <= 1
               /\ \A i \in Handlers : delivery'[i].msg = k =>
                     /\ onTheWay'[k] = 0
                     /\ \A g \in Handlers : delivery'[g].msg = k => g = i
                     /\ delivery'[i].at = "telemetry" /\ delivery'[i].created => telemetry'[k] = 0
                     /\ delivery'[i].at = "insert" => telemetry'[k] = 0
    <3>1. k \notin crossed
      BY <2>1, <2>7
    <3>2. CASE k = m
      <4>1. ~UnderWay(m)
        BY <2>1, <2>7, <3>2
      <4>2. onTheWay[m] = 0 /\ \A g \in Handlers : delivery[g].msg # m
        BY <1>1, <4>1 DEF UnderWay, LayersTypeInv
      <4>3. \A g \in Handlers : delivery'[g].msg = m => g = h
        BY <1>1, <2>4, <4>2 DEF LayersTypeInv
      <4>4. new => telemetry[m] = 0
        BY <1>1, <2>1 DEF HandledInv
      <4>5. delivery'[h] = d
        BY <1>1, <2>4 DEF LayersTypeInv
      <4>6. telemetry[m] + onTheWay[m] <= 1
        BY <1>1, <3>1, <3>2 DEF AloneInv
      <4> QED BY <2>1, <2>3, <3>2, <4>2, <4>3, <4>4, <4>5, <4>6
    <3>3. CASE k # m
      <4>1. \A g \in Handlers : delivery'[g].msg = k => g # h /\ delivery'[g] = delivery[g]
        BY <1>1, <2>3, <2>4, <3>3 DEF LayersTypeInv
      <4> QED BY <1>1, <2>1, <3>1, <4>1 DEF AloneInv
    <3> QED BY <3>2, <3>3
  <2>8. AloneInv'
    BY <2>7 DEF AloneInv
  <2> QED BY <2>5, <2>6, <2>8 DEF LayersInv
<1> QED BY <1>2, <1>3

\* A handler that goes on, or gives up, without a write to the telemetry.
LEMMA GoesOn ==
    ASSUME LayersInv, NEW h \in Handlers, delivery[h] # NoDelivery,
           UNCHANGED <<telemetry, onTheWay, crossed>>,
           \/ stdRow' = stdRow
           \/ stdRow' = [stdRow EXCEPT ![delivery[h].msg] = "processed"] /\ telemetry[delivery[h].msg] > 0,
           NEW d \in DeliveryTypes, delivery' = [delivery EXCEPT ![h] = d],
           \/ d = NoDelivery
           \/ /\ d.msg = delivery[h].msg /\ d.at \in {"insert", "cache", "handle"}
              /\ d.at = "insert" /\ d.msg \notin crossed => telemetry[d.msg] = 0
              /\ d.at \in {"cache", "handle"} => telemetry[d.msg] > 0
    PROVE  LayersInv'
<1>1. LayersTypeInv /\ HandledInv /\ AloneInv
  BY DEF LayersInv
<1>2. delivery[h].msg \in StdMsgs /\ NoDelivery.msg \notin StdMsgs
  BY <1>1, DeliveryFacts
<1>3. LayersTypeInv'
  BY <1>1, <1>2 DEF LayersTypeInv
<1>5. \A g \in Handlers : g # h => delivery'[g] = delivery[g]
  BY <1>1 DEF LayersTypeInv
<1>6. delivery'[h] = d
  BY <1>1 DEF LayersTypeInv
<1>4. HandledInv'
  <2>1. /\ \A m \in StdMsgs : (stdRow'[m] = "processed" => telemetry[m] > 0)
                               /\ (stdRow'[m] = "absent" => stdRow[m] = "absent")
        /\ \A m \in StdMsgs : stdRow[m] # "absent" => stdRow'[m] # "absent"
    BY <1>1, <1>2 DEF HandledInv, LayersTypeInv
  <2>2. ASSUME NEW g \in Handlers, delivery'[g] # NoDelivery
        PROVE  /\ stdRow'[delivery'[g].msg] # "absent"
               /\ delivery'[g].at \in {"cache", "handle"} => telemetry[delivery'[g].msg] > 0
    <3>1. CASE g = h
      BY <1>1, <1>2, <1>6, <2>1, <2>2, <3>1 DEF HandledInv
    <3>2. CASE g # h
      <4>1. delivery'[g] = delivery[g] /\ delivery[g].msg \in StdMsgs
        BY <1>1, <1>5, <2>2, <3>2, DeliveryFacts
      <4> QED BY <1>1, <2>1, <2>2, <4>1 DEF HandledInv
    <3> QED BY <3>1, <3>2
  <2>3. \A m \in StdMsgs : stdRow'[m] = "absent" => telemetry[m] = 0 /\ onTheWay[m] = 0
    BY <1>1, <2>1 DEF HandledInv
  <2> QED BY <2>1, <2>2, <2>3 DEF HandledInv
<1>7. \A g \in Handlers, m \in StdMsgs : delivery'[g].msg = m => delivery[g].msg = m
  BY <1>2, <1>5, <1>6
<1>8. ASSUME NEW k \in StdMsgs, k \notin crossed
      PROVE  /\ telemetry[k] + onTheWay[k] <= 1
             /\ \A i \in Handlers : delivery'[i].msg = k =>
                   /\ onTheWay[k] = 0
                   /\ \A g \in Handlers : delivery'[g].msg = k => g = i
                   /\ delivery'[i].at = "telemetry" /\ delivery'[i].created => telemetry[k] = 0
                   /\ delivery'[i].at = "insert" => telemetry[k] = 0
  <2>1. telemetry[k] + onTheWay[k] <= 1
    BY <1>1, <1>8 DEF AloneInv
  <2>2. ASSUME NEW i \in Handlers, delivery'[i].msg = k
        PROVE  onTheWay[k] = 0 /\ \A g \in Handlers : delivery'[g].msg = k => g = i
    BY <1>1, <1>7, <1>8, <2>2 DEF AloneInv
  <2>3. ASSUME NEW i \in Handlers, delivery'[i].msg = k
        PROVE  /\ delivery'[i].at = "telemetry" /\ delivery'[i].created => telemetry[k] = 0
               /\ delivery'[i].at = "insert" => telemetry[k] = 0
    <3>1. CASE i = h
      BY <1>2, <1>6, <1>8, <2>3, <3>1
    <3>2. CASE i # h
      BY <1>1, <1>5, <1>8, <2>3, <3>2 DEF AloneInv
    <3> QED BY <3>1, <3>2
  <2> QED BY <2>1, <2>2, <2>3
<1>9. AloneInv'
  BY <1>8 DEF AloneInv
<1> QED BY <1>3, <1>4, <1>9 DEF LayersInv

\* The insert of a handler, in all its outcomes.
LEMMA InsertKeeps ==
    ASSUME LayersInv, NEW h \in Handlers, NEW outcome \in {"answered", "made", "lost", "late"},
           InsertTelemetry(h, outcome)
    PROVE  LayersInv'
<1>1. LayersTypeInv /\ HandledInv /\ AloneInv
  BY DEF LayersInv
<1>2. delivery[h] # NoDelivery /\ delivery[h].at = "insert"
  BY <1>1, DeliveryFacts DEF InsertTelemetry
<1>3. PICK m \in StdMsgs : m = delivery[h].msg
  BY <1>1, <1>2, DeliveryFacts
<1>4. PICK d \in DeliveryTypes :
         /\ delivery' = [delivery EXCEPT ![h] = d]
         /\ d = NoDelivery \/ (d.msg = m /\ d.at = "cache" /\ outcome = "answered")
  <2>1. CASE outcome = "answered"
    <3>1. PICK d \in DeliveryTypes : d = [msg |-> m, at |-> "cache", created |-> delivery[h].created]
      BY <1>1, <1>2, DeliveryFacts DEF DeliveryTypes
    <3>2. delivery' = [delivery EXCEPT ![h] = d]
      BY <1>1, <1>2, <1>3, <2>1, <3>1, AtChanges DEF InsertTelemetry
    <3> QED BY <2>1, <3>1, <3>2
  <2>2. CASE outcome # "answered"
    BY <2>2 DEF InsertTelemetry, DeliveryTypes
  <2> QED BY <2>1, <2>2
<1>5. /\ UNCHANGED <<stdRow, crossed>> /\ stdRow[m] # "absent"
      /\ telemetry' \in [StdMsgs -> Nat] /\ onTheWay' \in [StdMsgs -> Nat]
      /\ \A k \in StdMsgs : telemetry'[k] >= telemetry[k]
      /\ \A k \in StdMsgs \ {m} : telemetry'[k] = telemetry[k] /\ onTheWay'[k] = onTheWay[k]
      /\ outcome = "answered" => telemetry'[m] > 0
      /\ telemetry'[m] + onTheWay'[m] <= telemetry[m] + onTheWay[m] + 1
      /\ outcome = "answered" => onTheWay'[m] = onTheWay[m]
  BY <1>1, <1>2, <1>3 DEF InsertTelemetry, LayersTypeInv, HandledInv
<1>6. NoDelivery.msg \notin StdMsgs
  BY <1>1, DeliveryFacts
<1>7. LayersTypeInv'
  BY <1>1, <1>4, <1>5 DEF LayersTypeInv
<1>8. HandledInv'
  <2>1. \A k \in StdMsgs : (stdRow[k] = "processed" => telemetry'[k] > 0)
                           /\ (stdRow[k] = "absent" => telemetry'[k] = 0 /\ onTheWay'[k] = 0)
    BY <1>1, <1>5 DEF HandledInv, LayersTypeInv
  <2>2. ASSUME NEW g \in Handlers, delivery'[g] # NoDelivery
        PROVE  /\ stdRow[delivery'[g].msg] # "absent"
               /\ delivery'[g].at \in {"cache", "handle"} => telemetry'[delivery'[g].msg] > 0
    <3>1. CASE g = h
      BY <1>1, <1>4, <1>5, <2>2, <3>1 DEF LayersTypeInv
    <3>2. CASE g # h
      <4>1. delivery'[g] = delivery[g]
        BY <1>1, <1>4, <3>2 DEF LayersTypeInv
      <4>2. delivery[g].msg \in StdMsgs
        BY <1>1, <2>2, <4>1, DeliveryFacts
      <4>3. telemetry'[delivery[g].msg] >= telemetry[delivery[g].msg]
            /\ telemetry[delivery[g].msg] \in Nat /\ telemetry'[delivery[g].msg] \in Nat
        BY <1>1, <1>5, <4>2 DEF LayersTypeInv
      <4> QED BY <1>1, <2>2, <4>1, <4>3 DEF HandledInv
    <3> QED BY <3>1, <3>2
  <2> QED BY <1>5, <2>1, <2>2 DEF HandledInv
<1>9. ASSUME NEW k \in StdMsgs, k \notin crossed
      PROVE  /\ telemetry'[k] + onTheWay'[k] <= 1
             /\ \A i \in Handlers : delivery'[i].msg = k =>
                   /\ onTheWay'[k] = 0
                   /\ \A g \in Handlers : delivery'[g].msg = k => g = i
                   /\ delivery'[i].at = "telemetry" /\ delivery'[i].created => telemetry'[k] = 0
                   /\ delivery'[i].at = "insert" => telemetry'[k] = 0
  <2>1. CASE k = m
    <3>1. telemetry[m] = 0 /\ onTheWay[m] = 0 /\ \A g \in Handlers : delivery[g].msg = m => g = h
      BY <1>1, <1>2, <1>3, <1>9, <2>1 DEF AloneInv
    <3>2. \A g \in Handlers : delivery'[g].msg = m => g = h /\ outcome = "answered" /\ delivery'[g].at = "cache"
      BY <1>1, <1>4, <1>6, <3>1 DEF LayersTypeInv
    <3>3. telemetry'[m] + onTheWay'[m] <= 1
      BY <1>5, <3>1
    <3> QED BY <1>5, <2>1, <3>1, <3>2, <3>3
  <2>2. CASE k # m
    <3>1. \A g \in Handlers : delivery'[g].msg = k => delivery'[g] = delivery[g]
      BY <1>1, <1>4, <1>6, <2>2 DEF LayersTypeInv
    <3>2. telemetry'[k] = telemetry[k] /\ onTheWay'[k] = onTheWay[k]
      BY <1>5, <2>2
    <3> QED BY <1>1, <1>9, <3>1, <3>2 DEF AloneInv
  <2> QED BY <2>1, <2>2
<1>10. AloneInv'
  BY <1>5, <1>9 DEF AloneInv
<1> QED BY <1>7, <1>8, <1>10 DEF LayersInv

\* An insert that comes late.
LEMMA ArrivalKeeps ==
    ASSUME LayersInv, NEW m \in StdMsgs, InsertArrives(m)
    PROVE  LayersInv'
<1>1. LayersTypeInv /\ HandledInv /\ AloneInv
  BY DEF LayersInv
<1>2. /\ UNCHANGED <<stdRow, delivery, crossed>> /\ onTheWay[m] > 0
      /\ telemetry' \in [StdMsgs -> Nat] /\ onTheWay' \in [StdMsgs -> Nat]
      /\ telemetry'[m] = telemetry[m] + 1 /\ onTheWay'[m] = onTheWay[m] - 1
      /\ \A k \in StdMsgs \ {m} : telemetry'[k] = telemetry[k] /\ onTheWay'[k] = onTheWay[k]
  BY <1>1 DEF InsertArrives, LayersTypeInv
<1>3. LayersTypeInv'
  BY <1>1, <1>2 DEF LayersTypeInv
<1>4. \A k \in StdMsgs : telemetry'[k] >= telemetry[k] /\ telemetry[k] \in Nat /\ telemetry'[k] \in Nat
  BY <1>1, <1>2 DEF LayersTypeInv
<1>5. stdRow[m] # "absent"
  BY <1>1, <1>2 DEF HandledInv
<1>6. \A h \in Handlers : delivery[h] # NoDelivery => delivery[h].msg \in StdMsgs
  BY <1>1, DeliveryFacts
<1>7. HandledInv'
  BY <1>1, <1>2, <1>4, <1>5, <1>6 DEF HandledInv
<1>8. ASSUME NEW k \in StdMsgs, k \notin crossed
      PROVE  /\ telemetry'[k] + onTheWay'[k] <= 1
             /\ \A i \in Handlers : delivery[i].msg = k =>
                   /\ onTheWay'[k] = 0
                   /\ \A g \in Handlers : delivery[g].msg = k => g = i
                   /\ delivery[i].at = "telemetry" /\ delivery[i].created => telemetry'[k] = 0
                   /\ delivery[i].at = "insert" => telemetry'[k] = 0
  <2>1. CASE k = m
    <3>1. telemetry'[k] + onTheWay'[k] <= 1
      <4>1. telemetry[m] \in Nat /\ onTheWay[m] \in Nat
        BY <1>1 DEF LayersTypeInv
      <4>2. telemetry[m] + onTheWay[m] <= 1
        BY <1>1, <1>8, <2>1 DEF AloneInv
      <4> QED BY <1>2, <2>1, <4>1, <4>2
    <3>2. \A i \in Handlers : delivery[i].msg # m
      BY <1>1, <1>2, <1>8, <2>1 DEF AloneInv
    <3> QED BY <2>1, <3>1, <3>2
  <2>2. CASE k # m
    BY <1>1, <1>2, <1>8, <2>2 DEF AloneInv
  <2> QED BY <2>1, <2>2
<1>9. AloneInv'
  BY <1>2, <1>8 DEF AloneInv
<1> QED BY <1>3, <1>7, <1>9 DEF LayersInv

\* The invariant of the layers is inductive.
LEMMA LayersStepInv == LayersInv /\ [LayersNext]_svars => LayersInv'
<1> SUFFICES ASSUME LayersInv, [LayersNext]_svars PROVE LayersInv'
  OBVIOUS
<1>0. LayersTypeInv /\ HandledInv /\ AloneInv /\ NoDelivery \in DeliveryTypes
  BY DEF LayersInv, DeliveryTypes
<1>1. CASE UNCHANGED svars
  BY <1>0, <1>1 DEF svars, LayersInv, LayersTypeInv, HandledInv, AloneInv
<1>2. ASSUME NEW h \in Handlers, ensureTelemetry(h) PROVE LayersInv'
  <2>1. delivery[h] # NoDelivery /\ delivery[h].at = "telemetry" /\ delivery[h].msg \in StdMsgs
        /\ telemetry[delivery[h].msg] \in Nat
    BY <1>0, <1>2, DeliveryFacts DEF ensureTelemetry, LayersTypeInv
  <2> DEFINE at == IF NeedsTelemetry(delivery[h].msg, delivery[h].created) THEN "insert" ELSE "cache"
             e == [msg |-> delivery[h].msg, at |-> at, created |-> delivery[h].created]
  <2>2. e \in DeliveryTypes /\ e.msg = delivery[h].msg /\ e.at = at
    BY <1>0, <2>1, DeliveryFacts DEF DeliveryTypes
  <2>3. delivery' = [delivery EXCEPT ![h] = e] /\ UNCHANGED <<stdRow, telemetry, onTheWay, crossed>>
    BY <1>0, <1>2, <2>1, AtChanges DEF ensureTelemetry
  <2>4. at = "insert" /\ delivery[h].msg \notin crossed => telemetry[delivery[h].msg] = 0
    BY <1>0, <2>1 DEF NeedsTelemetry, AloneInv
  <2>5. at # "insert" => at = "cache" /\ telemetry[delivery[h].msg] > 0
    BY <2>1 DEF NeedsTelemetry
  <2> HIDE DEF e, at
  <2>6. e.at \in {"insert", "cache", "handle"}
    BY <2>2, <2>5
  <2> QED BY <2>1, <2>2, <2>3, <2>4, <2>5, <2>6, GoesOn
<1>3. ASSUME NEW h \in Handlers, MarkStandardMessageProcessed(h) PROVE LayersInv'
  <2>1. delivery[h] # NoDelivery /\ telemetry[delivery[h].msg] > 0
    BY <1>0, <1>3, DeliveryFacts DEF MarkStandardMessageProcessed, HandledInv
  <2>2. /\ stdRow' = [stdRow EXCEPT ![delivery[h].msg] = "processed"]
        /\ delivery' = [delivery EXCEPT ![h] = NoDelivery] /\ UNCHANGED <<telemetry, onTheWay, crossed>>
    BY <1>3 DEF MarkStandardMessageProcessed
  <2> QED BY <1>0, <2>1, <2>2, GoesOn
<1>4. ASSUME NEW h \in Handlers, DeliveryFails(h) PROVE LayersInv'
  <2>1. delivery[h] # NoDelivery
    BY <1>4 DEF DeliveryFails, NoDelivery
  <2>2. delivery' = [delivery EXCEPT ![h] = NoDelivery] /\ UNCHANGED <<stdRow, telemetry, onTheWay, crossed>>
    BY <1>4 DEF DeliveryFails
  <2> QED BY <1>0, <2>1, <2>2, GoesOn
<1>5. ASSUME NEW h \in Handlers, NEW executed \in BOOLEAN, NEW answered \in BOOLEAN,
             CacheLatest(h, executed, answered)
      PROVE  LayersInv'
  <2>1. delivery[h] # NoDelivery /\ delivery[h].at = "cache" /\ delivery[h].msg \in StdMsgs
        /\ UNCHANGED <<stdRow, telemetry, onTheWay, crossed>>
    BY <1>0, <1>5, DeliveryFacts DEF CacheLatest
  <2>2. telemetry[delivery[h].msg] > 0
    BY <1>0, <2>1 DEF HandledInv
  <2>3. CASE answered
    <3> DEFINE e == [msg |-> delivery[h].msg, at |-> "handle", created |-> delivery[h].created]
    <3>1. e \in DeliveryTypes /\ e.msg = delivery[h].msg /\ e.at = "handle"
      BY <1>0, <2>1, DeliveryFacts DEF DeliveryTypes
    <3>2. delivery' = [delivery EXCEPT ![h] = e]
      BY <1>0, <1>5, <2>1, <2>3, AtChanges DEF CacheLatest
    <3> HIDE DEF e
    <3> QED BY <2>1, <2>2, <3>1, <3>2, GoesOn
  <2>4. CASE ~answered
    <3>1. delivery' = [delivery EXCEPT ![h] = NoDelivery]
      BY <1>5, <2>4 DEF CacheLatest
    <3> QED BY <1>0, <2>1, <3>1, GoesOn
  <2> QED BY <2>3, <2>4
<1> QED BY <1>1, <1>2, <1>3, <1>4, <1>5, ClaimKeeps, InsertKeeps, ArrivalKeeps DEF LayersNext

\* ClaimStandardMessage and ensureTelemetry: for any number of messages, handlers and
\* deliveries a message that is done has a telemetry row, whichever insert, answer or mark
\* is lost, and a second one only if two of its deliveries crossed.
THEOREM MessageHasItsRow == LayersSpec => []TelemetryIsKept
<1>1. LayersInit => LayersInv
  <2> SUFFICES ASSUME LayersInit PROVE LayersInv
    OBVIOUS
  <2>1. NoDelivery \in DeliveryTypes /\ NoDelivery.msg \notin StdMsgs
    BY LayersAssumption DEF DeliveryTypes, NoDelivery
  <2> QED BY <2>1 DEF LayersInit, LayersInv, LayersTypeInv, HandledInv, AloneInv
<1>2. LayersInv => TelemetryIsKept
  BY DEF LayersInv, HandledInv, AloneInv, TelemetryIsKept, ProcessedHasTelemetry, TelemetryOnce
<1> QED BY <1>1, <1>2, LayersStepInv, PTL DEF LayersSpec

-----------------------------------------------------------------------------
(* AiProvider, the settings.  The direct path and the sidecar agree unless  *)
(* an update stands between them or the retry loop still has to look; the   *)
(* loop stops only when what it sent is what the direct path uses.          *)

Synced == sidecarSync.at = "off" \/ (sidecarSync.at = "check" /\ direct = sidecarSync.target)

ServiceInv ==
    /\ upd.at \in {"idle", "direct", "sidecar", "persist", "rollback"}
    /\ upd = UpdIdle \/ upd = [at |-> upd.at, new |-> upd.new, old |-> upd.old]
    /\ sidecarSync = [at |-> sidecarSync.at, target |-> sidecarSync.target]
    /\ sidecarSync.at \in {"off", "wait", "call", "check"}
    /\ fault \in BOOLEAN
    /\ stored \in takenByBoth
    /\ upd.at = "persist" => upd.new \in takenByBoth
    /\ upd.at \in {"sidecar", "persist"} => direct = upd.new
    /\ upd.at = "rollback" => fault
    /\ ~fault /\ Synced /\ upd.at # "sidecar" => sidecar = direct

\* Every step of an update, a restart or the retry loop keeps the settings in order.
LEMMA ServiceStepInv == ServiceInv /\ [ProviderNext]_ivars => ServiceInv'
<1> SUFFICES ASSUME ServiceInv, [ProviderNext]_ivars PROVE ServiceInv'
  OBVIOUS
<1> USE DEF ServiceInv, Synced, UpdIdle, SyncOff
<1>1. CASE UNCHANGED service
  BY <1>1 DEF service
<1>2. ASSUME NEW x \in Settings, UpdateBegin(x) PROVE ServiceInv'
  BY <1>2 DEF UpdateBegin
<1>3. ASSUME NEW b \in BOOLEAN, Configure(b) PROVE ServiceInv'
  BY <1>3 DEF Configure
<1>4. CASE ConfigureProvider
  BY <1>4 DEF ConfigureProvider
<1>5. CASE ConfigureProviderFails
  BY <1>5 DEF ConfigureProviderFails
<1>6. ASSUME NEW b \in BOOLEAN, Rollback(b) PROVE ServiceInv'
  BY <1>6 DEF Rollback
<1>7. ASSUME NEW b \in BOOLEAN, SaveAIProviderConfig(b) PROVE ServiceInv'
  BY <1>7 DEF SaveAIProviderConfig
<1>8. ASSUME NEW b \in BOOLEAN, RestartProvider(b) PROVE ServiceInv'
  BY <1>8 DEF RestartProvider
<1>9. CASE RetryRead
  BY <1>9 DEF RetryRead
<1>10. ASSUME NEW b \in BOOLEAN, RetryCall(b) PROVE ServiceInv'
  BY <1>10 DEF RetryCall
<1>11. CASE RetryCheck
  BY <1>11 DEF RetryCheck
<1>12. ASSUME NEW p \in Policies, workflowKnowledgeBinding(p) PROVE UNCHANGED service
  BY <1>12 DEF workflowKnowledgeBinding
<1>13. ASSUME NEW r \in Runs,
              \/ RunStart(r) \/ BrowserLeaves(r)
              \/ \E found \in {"error", "none", "hit"} : SearchWorkflowKnowledge(r, found)
              \/ \E e \in {"delta", "completed", "failed"} : StreamEvent(r, e)
              \/ \E ok \in BOOLEAN : StreamEnd(r, ok)
       PROVE  UNCHANGED service
  BY <1>13 DEF RunStart, BrowserLeaves, SearchWorkflowKnowledge, StreamEvent, StreamEnd
<1> QED BY <1>1, <1>2, <1>3, <1>4, <1>5, <1>6, <1>7, <1>8, <1>9, <1>10, <1>11, <1>12, <1>13
    DEF ProviderNext, ivars

-----------------------------------------------------------------------------
(* AiProvider, the chat runs.  A run that streams has sent no final event,  *)
(* or one "completed" after which nothing more is sent.                     *)

Events == {"delta", "completed", "failed"}
Finals(sent) == {i \in DOMAIN sent : sent[i] \in {"completed", "failed"}}

\* An event that is appended adds itself to the final events, if it is one.
LEMMA FinalsOfAppend ==
    ASSUME NEW sent \in Seq(Events), NEW e \in Events
    PROVE  /\ Append(sent, e) \in Seq(Events)
           /\ e = "delta" => Finals(Append(sent, e)) = Finals(sent)
           /\ e # "delta" => Finals(Append(sent, e)) = Finals(sent) \cup {Len(sent) + 1}
           /\ \A i \in DOMAIN sent : Append(sent, e)[i] = sent[i]
           /\ Append(sent, e)[Len(sent) + 1] = e
BY DEF Finals, Events

ChatRuns == [at: {"idle", "search", "stream", "done"}, policy: Policies, scope: BOOLEAN,
             hits: {"none", "hit"}, sent: Seq(Events), gone: BOOLEAN]

RunOK(c) ==
    /\ c \in ChatRuns
    /\ c.at \in {"idle", "search"} => c.sent = <<>>
    /\ c.at \in {"search", "stream"} => (c.scope <=> c.policy # "disabled")
    /\ c.at = "stream" /\ c.policy = "require" => c.hits = "hit"
    /\ c.at = "stream" => \/ Finals(c.sent) = {}
                         \/ \E i \in DOMAIN c.sent : Finals(c.sent) = {i} /\ c.sent[i] = "completed"
    /\ c.at = "done" /\ ~c.gone => \E i \in DOMAIN c.sent : Finals(c.sent) = {i}

ChatInv == policy \in Policies /\ chat \in [Runs -> ChatRuns] /\ \A r \in Runs : RunOK(chat[r])

\* A run that has sent nothing final yet may fail.
LEMMA RunFailedOK ==
    ASSUME NEW c, RunOK(c), c.at \in {"search", "stream"}, Finals(c.sent) = {}
    PROVE  RunOK(RunFailed(c))
<1>1. c \in ChatRuns /\ c.sent \in Seq(Events)
  BY DEF RunOK, ChatRuns
<1>2. /\ Append(c.sent, "failed") \in Seq(Events)
      /\ Finals(Append(c.sent, "failed")) = {Len(c.sent) + 1}
      /\ Len(c.sent) + 1 \in DOMAIN Append(c.sent, "failed")
  BY <1>1, FinalsOfAppend DEF Events
<1> DEFINE x == RunFailed(c)
<1>3. x \in ChatRuns /\ x.at = "done" /\ x.sent = Append(c.sent, "failed")
  BY <1>1, <1>2 DEF RunFailed, Sent, ChatRuns
<1> HIDE DEF x
<1>4. RunOK(x)
  BY <1>2, <1>3 DEF RunOK
<1> QED BY <1>4 DEF x

\* A step that changes one run, and leaves it right, leaves all of them right.
LEMMA OneRunChanges ==
    ASSUME ChatInv, NEW r \in Runs, NEW x, RunOK(x), chat' = [chat EXCEPT ![r] = x], policy' = policy
    PROVE  ChatInv'
<1>1. x \in ChatRuns
  BY DEF RunOK
<1>2. chat' \in [Runs -> ChatRuns] /\ chat'[r] = x /\ \A q \in Runs \ {r} : chat'[q] = chat[q]
  BY <1>1 DEF ChatInv
<1> QED BY <1>2 DEF ChatInv

\* The invariant of the chat runs is inductive.
LEMMA ChatStepInv == ChatInv /\ [ProviderNext]_ivars => ChatInv'
<1> SUFFICES ASSUME ChatInv, [ProviderNext]_ivars PROVE ChatInv'
  OBVIOUS
<1>1. CASE UNCHANGED <<policy, chat>>
  BY <1>1 DEF ChatInv
<1>2. ASSUME \/ \E x \in Settings : UpdateBegin(x)
             \/ \E b \in BOOLEAN : \/ Configure(b) \/ Rollback(b) \/ SaveAIProviderConfig(b)
                                   \/ RetryCall(b)
             \/ ConfigureProvider \/ ConfigureProviderFails \/ RetryRead \/ RetryCheck
      PROVE  UNCHANGED <<policy, chat>>
  BY <1>2 DEF UpdateBegin, Configure, Rollback, SaveAIProviderConfig, RetryCall, ConfigureProvider,
    ConfigureProviderFails, RetryRead, RetryCheck
<1>3. ASSUME NEW b \in BOOLEAN, RestartProvider(b) PROVE ChatInv'
  <2>1. ASSUME NEW r \in Runs PROVE RunOK(chat'[r])
    <3>1. CASE chat[r].at = "idle"
      BY <1>3, <2>1, <3>1 DEF RestartProvider, ChatInv
    <3>2. CASE chat[r].at # "idle"
      <4> DEFINE x == [chat[r] EXCEPT !.gone = TRUE, !.at = "done"]
      <4>1. chat[r] \in ChatRuns /\ chat'[r] = x
        BY <1>3, <2>1, <3>2 DEF RestartProvider, ChatInv
      <4>2. x \in ChatRuns /\ x.gone /\ x.at = "done"
        BY <4>1 DEF ChatRuns
      <4> HIDE DEF x
      <4> QED BY <4>1, <4>2 DEF RunOK
    <3> QED BY <3>1, <3>2
  <2>2. chat' \in [Runs -> ChatRuns]
    BY <1>3, <2>1 DEF RestartProvider, RunOK
  <2> QED BY <1>3, <2>1, <2>2 DEF RestartProvider, ChatInv
<1>4. ASSUME NEW p \in Policies, workflowKnowledgeBinding(p) PROVE ChatInv'
  BY <1>4 DEF workflowKnowledgeBinding, ChatInv
<1>5. ASSUME NEW r \in Runs, RunStart(r) PROVE ChatInv'
  <2> DEFINE knows == policy # "disabled"
             x == [RunIdle EXCEPT !.policy = policy, !.scope = knows,
                     !.at = IF policy \in {"always", "require"} THEN "search" ELSE "stream"]
  <2>1. chat' = [chat EXCEPT ![r] = x] /\ policy' = policy /\ policy \in Policies
    BY <1>5 DEF RunStart, ChatInv
  <2>2. knows \in BOOLEAN
    OBVIOUS
  <2>3. <<>> \in Seq(Events) /\ Finals(<<>>) = {}
    BY DEF Finals
  <2> HIDE DEF knows
  <2>4. x \in ChatRuns /\ x.policy = policy /\ x.sent = <<>>
        /\ x.at = (IF policy \in {"always", "require"} THEN "search" ELSE "stream")
    BY <2>1, <2>2, <2>3 DEF RunIdle, ChatRuns, Policies
  <2>5. x.scope <=> x.policy # "disabled"
    BY <2>2 DEF RunIdle, knows
  <2> HIDE DEF x
  <2>6. RunOK(x)
    BY <2>1, <2>3, <2>4, <2>5 DEF RunOK, Policies
  <2> QED BY <2>1, <2>6, OneRunChanges
<1>6. ASSUME NEW r \in Runs, BrowserLeaves(r) PROVE ChatInv'
  <2> DEFINE x == [chat[r] EXCEPT !.gone = TRUE, !.at = "done"]
  <2>1. chat' = [chat EXCEPT ![r] = x] /\ policy' = policy /\ chat[r] \in ChatRuns
    BY <1>6 DEF BrowserLeaves, ChatInv
  <2>2. x \in ChatRuns /\ x.gone /\ x.at = "done"
    BY <2>1 DEF ChatRuns
  <2> HIDE DEF x
  <2>3. RunOK(x)
    BY <2>2 DEF RunOK
  <2> QED BY <2>1, <2>3, OneRunChanges
<1>7. ASSUME NEW r \in Runs, NEW found \in {"error", "none", "hit"}, SearchWorkflowKnowledge(r, found)
      PROVE  ChatInv'
  <2>1. RunOK(chat[r]) /\ chat[r] \in ChatRuns /\ chat[r].at = "search" /\ policy' = policy
    BY <1>7 DEF SearchWorkflowKnowledge, ChatInv
  <2>2. chat[r].sent = <<>> /\ Finals(chat[r].sent) = {}
    BY <2>1 DEF RunOK, Finals
  <2>3. CASE found = "error" \/ (found = "none" /\ chat[r].policy = "require")
    <3>1. chat' = [chat EXCEPT ![r] = RunFailed(chat[r])]
      BY <1>7, <2>3 DEF SearchWorkflowKnowledge
    <3> QED BY <2>1, <2>2, <3>1, RunFailedOK, OneRunChanges
  <2>4. CASE ~(found = "error" \/ (found = "none" /\ chat[r].policy = "require"))
    <3> DEFINE x == [chat[r] EXCEPT !.hits = found, !.at = "stream"]
    <3>1. chat' = [chat EXCEPT ![r] = x]
      BY <1>7, <2>4 DEF SearchWorkflowKnowledge
    <3>2. x \in ChatRuns /\ x.at = "stream" /\ x.hits = found /\ x.policy = chat[r].policy
          /\ x.sent = chat[r].sent /\ x.scope = chat[r].scope
      BY <2>1, <2>4 DEF ChatRuns
    <3> HIDE DEF x
    <3>3. RunOK(x)
      BY <2>1, <2>2, <2>4, <3>2 DEF RunOK
    <3> QED BY <2>1, <3>1, <3>3, OneRunChanges
  <2> QED BY <2>3, <2>4
<1>8. ASSUME NEW r \in Runs, NEW e \in {"delta", "completed", "failed"}, StreamEvent(r, e)
      PROVE  ChatInv'
  <2>1. RunOK(chat[r]) /\ chat[r] \in ChatRuns /\ chat[r].at = "stream" /\ policy' = policy
    BY <1>8 DEF StreamEvent, ChatInv
  <2>2. Finals(chat[r].sent) = {}
    BY <1>8, <2>1 DEF StreamEvent, RunOK
  <2>3. CASE e = "failed"
    <3>1. chat' = [chat EXCEPT ![r] = RunFailed(chat[r])]
      BY <1>8, <2>3 DEF StreamEvent
    <3> QED BY <2>1, <2>2, <3>1, RunFailedOK, OneRunChanges
  <2>4. CASE e # "failed"
    <3> DEFINE x == Sent(chat[r], e)
    <3>1. chat' = [chat EXCEPT ![r] = x]
      <4>1. chat' = [chat EXCEPT ![r] = IF e = "failed" THEN RunFailed(chat[r]) ELSE x]
        BY <1>8 DEF StreamEvent
      <4> HIDE DEF x
      <4> QED BY <2>4, <4>1
    <3>2. chat[r].sent \in Seq(Events) /\ e \in Events
      BY <2>1 DEF ChatRuns, Events
    <3>3. x \in ChatRuns /\ x.at = "stream" /\ x.hits = chat[r].hits /\ x.policy = chat[r].policy
          /\ x.sent = Append(chat[r].sent, e) /\ x.scope = chat[r].scope
      BY <2>1, <3>2, FinalsOfAppend DEF ChatRuns, Sent
    <3>4. \/ Finals(x.sent) = {}
          \/ \E i \in DOMAIN x.sent : Finals(x.sent) = {i} /\ x.sent[i] = "completed"
      BY <2>2, <2>4, <3>2, <3>3, FinalsOfAppend
    <3> HIDE DEF x
    <3>5. RunOK(x)
      BY <2>1, <3>3, <3>4 DEF RunOK
    <3> QED BY <2>1, <3>1, <3>5, OneRunChanges
  <2> QED BY <2>3, <2>4
<1>9. ASSUME NEW r \in Runs, NEW ok \in BOOLEAN, StreamEnd(r, ok) PROVE ChatInv'
  <2>1. RunOK(chat[r]) /\ chat[r] \in ChatRuns /\ chat[r].at = "stream" /\ policy' = policy
        /\ chat[r].sent \in Seq(Events)
    BY <1>9 DEF StreamEnd, ChatInv, ChatRuns
  <2> DEFINE ended == "completed" \in {chat[r].sent[i] : i \in DOMAIN chat[r].sent}
  <2>2. CASE ended
    <3> DEFINE x == [chat[r] EXCEPT !.at = "done"]
    <3>1. chat' = [chat EXCEPT ![r] = x]
      BY <1>9, <2>2 DEF StreamEnd
    <3>2. x \in ChatRuns /\ x.at = "done" /\ x.sent = chat[r].sent
      BY <2>1 DEF ChatRuns
    <3>3. Finals(chat[r].sent) # {}
      BY <2>2 DEF Finals
    <3> HIDE DEF x
    <3>4. RunOK(x)
      BY <2>1, <3>2, <3>3 DEF RunOK
    <3> QED BY <2>1, <3>1, <3>4, OneRunChanges
  <2>3. CASE ~ended /\ ~ok
    <3>1. chat' = [chat EXCEPT ![r] = RunFailed(chat[r])]
      BY <1>9, <2>3 DEF StreamEnd
    <3>2. Finals(chat[r].sent) = {}
      BY <2>1, <2>3 DEF RunOK
    <3> QED BY <2>1, <3>1, <3>2, RunFailedOK, OneRunChanges
  <2>4. CASE ~ended /\ ok
    <3> DEFINE x == [Sent(chat[r], "completed") EXCEPT !.at = "done"]
    <3>1. chat' = [chat EXCEPT ![r] = x]
      <4>1. chat' = [chat EXCEPT ![r] = IF ended THEN [chat[r] EXCEPT !.at = "done"]
                                        ELSE IF ok THEN x ELSE RunFailed(chat[r])]
        BY <1>9 DEF StreamEnd
      <4> HIDE DEF x, ended
      <4> QED BY <2>4, <4>1
    <3>2. Finals(chat[r].sent) = {}
      BY <2>1, <2>4 DEF RunOK
    <3>3. /\ Append(chat[r].sent, "completed") \in Seq(Events)
          /\ Finals(Append(chat[r].sent, "completed")) = {Len(chat[r].sent) + 1}
          /\ Len(chat[r].sent) + 1 \in DOMAIN Append(chat[r].sent, "completed")
      BY <2>1, <3>2, FinalsOfAppend DEF Events
    <3>4. x \in ChatRuns /\ x.at = "done" /\ x.sent = Append(chat[r].sent, "completed")
      BY <2>1, <3>3 DEF ChatRuns, Sent
    <3> HIDE DEF x
    <3>5. RunOK(x)
      BY <3>3, <3>4 DEF RunOK
    <3> QED BY <2>1, <3>1, <3>5, OneRunChanges
  <2> QED BY <2>2, <2>3, <2>4
<1> QED BY <1>1, <1>2, <1>3, <1>4, <1>5, <1>6, <1>7, <1>8, <1>9 DEF ProviderNext, ivars

\* Whatever fails between the three places, a restart serves a setting that both paths
\* took, an old retry leaves nothing stale, and a browser that stayed sees exactly one
\* final event of a run that had the rights and the evidence of its policy.
THEOREM AiStaysSound == ProviderSpec => []AiIsSound
<1>1. ProviderInit => ServiceInv /\ ChatInv
  <2> SUFFICES ASSUME ProviderInit PROVE ServiceInv /\ ChatInv
    OBVIOUS
  <2>1. ServiceInv
    BY DEF ProviderInit, ServiceInv, Synced, UpdIdle, SyncOff
  <2>2. <<>> \in Seq(Events)
    OBVIOUS
  <2>3. RunIdle \in ChatRuns /\ RunIdle.at = "idle" /\ RunIdle.sent = <<>>
    BY <2>2 DEF RunIdle, ChatRuns, Policies
  <2>4. RunOK(RunIdle)
    BY <2>3 DEF RunOK
  <2> QED BY <2>1, <2>3, <2>4 DEF ProviderInit, ChatInv
<1>2. ServiceInv => StoredWasAccepted /\ RetryLeavesNoStale
  BY DEF ServiceInv, Synced, StoredWasAccepted, RetryLeavesNoStale
<1>3. ChatInv => OneFinalEvent /\ PolicyHolds
  <2> SUFFICES ASSUME ChatInv, NEW r \in Runs
               PROVE  /\ chat[r].at = "done" /\ ~chat[r].gone => Cardinality(Finals(chat[r].sent)) = 1
                      /\ chat[r].at = "stream" =>
                            /\ chat[r].policy = "require" => chat[r].hits = "hit"
                            /\ chat[r].scope <=> chat[r].policy # "disabled"
    BY DEF OneFinalEvent, PolicyHolds, Finals
  <2>1. RunOK(chat[r])
    BY DEF ChatInv
  <2>2. \A i : Cardinality({i}) = 1
    BY FS_Singleton
  <2> QED BY <2>1, <2>2 DEF RunOK
<1> QED BY <1>1, <1>2, <1>3, ServiceStepInv, ChatStepInv, PTL DEF ProviderSpec, AiIsSound

-----------------------------------------------------------------------------
(* ProtocolRelease, the files.  An upload owns the files it has created and *)
(* not yet removed; no two uploads own the same file, and nobody owns a     *)
(* file of a release.                                                       *)

RmLists == {<<>>, <<"package">>, <<"samples">>, <<"worker", "package">>, <<"package", "samples">>,
            <<"worker", "package", "samples">>}
Named(rm) == {rm[i] : i \in 1 .. Len(rm)}

UploadTypes ==
    [at: {"idle", "check", "package", "worker", "cases", "variants", "create", "cleanup", "done"},
     c: Contents \cup {PNil}, publish: BOOLEAN, catalog: BOOLEAN, rm: RmLists]

OwnedBy(x) ==
    IF x.at = "worker" THEN {"package"}
    ELSE IF x.at \in {"cases", "variants"} THEN {"package", "worker"}
    ELSE IF x.at = "create" THEN Files
    ELSE IF x.at = "cleanup" THEN Named(x.rm) ELSE {}

UploadOK(x) ==
    /\ x \in UploadTypes
    /\ x.at # "idle" => x.c \in Contents
    /\ x.at # "idle" /\ x.catalog => x.c \in confirmed

FilesInv ==
    /\ file \in [Files -> Contents \cup {PNil}]
    /\ up \in [Uploads -> UploadTypes]
    /\ \A u \in Uploads : UploadOK(up[u])
    /\ \A u \in Uploads : \A f \in Files : f \in OwnedBy(up[u]) => file[f] = up[u].c
    /\ \A u, v \in Uploads : \A f \in Files : f \in OwnedBy(up[u]) /\ f \in OwnedBy(up[v]) => u = v
    /\ release # PNil /\ release.files /\ ~lostReply =>
          \A f \in Files : file[f] = release.content /\ release.content \in Contents
                           /\ \A u \in Uploads : f \notin OwnedBy(up[u])
    /\ InstalledWasConfirmed

\* The lists of files to remove are used up from the front.
LEMMA RmListsShrink ==
    ASSUME NEW rm \in RmLists, rm # <<>>
    PROVE  /\ Head(rm) \in Files /\ Head(rm) \in Named(rm) /\ Tail(rm) \in RmLists
           /\ Named(Tail(rm)) = Named(rm) \ {Head(rm)}
<1>1. CASE rm = <<"package">>
  BY <1>1 DEF RmLists, Named, Files
<1>2. CASE rm = <<"samples">>
  BY <1>2 DEF RmLists, Named, Files
<1>3. CASE rm = <<"worker", "package">>
  BY <1>3 DEF RmLists, Named, Files
<1>4. CASE rm = <<"package", "samples">>
  BY <1>4 DEF RmLists, Named, Files
<1>5. CASE rm = <<"worker", "package", "samples">>
  BY <1>5 DEF RmLists, Named, Files
<1> QED BY <1>1, <1>2, <1>3, <1>4, <1>5 DEF RmLists

\* What the lists name.
LEMMA RmListsName ==
    /\ Named(<<>>) = {} /\ Named(<<"package">>) = {"package"}
    /\ Named(<<"worker", "package">>) = {"worker", "package"}
    /\ Named(<<"worker", "package", "samples">>) = Files
BY DEF Named, Files

\* An upload may take a file that nobody has, and may change or drop what it owns:
\* then everybody keeps what is theirs.
LEMMA UploadMoves ==
    ASSUME FilesInv, NEW u \in Uploads, NEW x \in UploadTypes, up' = [up EXCEPT ![u] = x],
           x.at # "idle" => x.c \in Contents /\ (x.catalog => x.c \in confirmed'),
           file' \in [Files -> Contents \cup {PNil}],
           \A f \in Files : f \in OwnedBy(x) =>
                 file'[f] = x.c /\ (f \in OwnedBy(up[u]) \/ file[f] = PNil),
           \A f \in Files : file'[f] # file[f] => f \in OwnedBy(up[u]) \/ file[f] = PNil,
           UNCHANGED <<release, lostReply>>, confirmed \subseteq confirmed'
    PROVE  FilesInv'
<1>2. up' \in [Uploads -> UploadTypes] /\ up'[u] = x /\ \A v \in Uploads \ {u} : up'[v] = up[v]
  BY DEF FilesInv
<1>3. \A v \in Uploads : \A f \in Files : f \in OwnedBy(up[v]) => file[f] \in Contents /\ file[f] # PNil
  BY ReleaseAssumption DEF FilesInv, UploadOK, OwnedBy
<1>4. \A v \in Uploads \ {u} : \A f \in Files : f \in OwnedBy(up[v]) =>
         f \notin OwnedBy(up[u]) /\ f \notin OwnedBy(x) /\ file'[f] = file[f]
  BY <1>3 DEF FilesInv
<1>5. \A v \in Uploads : UploadOK(up[v])'
  BY <1>2 DEF FilesInv, UploadOK
<1>6. \A v \in Uploads : \A f \in Files : f \in OwnedBy(up'[v]) => file'[f] = up'[v].c
  <2>1. \A f \in Files : f \in OwnedBy(up'[u]) => file'[f] = up'[u].c
    BY <1>2
  <2>2. \A v \in Uploads \ {u} : \A f \in Files : f \in OwnedBy(up'[v]) => file'[f] = up'[v].c
    BY <1>2, <1>4 DEF FilesInv
  <2> QED BY <2>1, <2>2
<1>7. \A v, w \in Uploads : \A f \in Files : f \in OwnedBy(up'[v]) /\ f \in OwnedBy(up'[w]) => v = w
  BY <1>2, <1>4 DEF FilesInv
<1>8. ASSUME release # PNil, release.files, ~lostReply, NEW f \in Files
      PROVE  file'[f] = release.content /\ \A v \in Uploads : f \notin OwnedBy(up'[v])
  <2>1. file[f] = release.content /\ release.content \in Contents
        /\ \A v \in Uploads : f \notin OwnedBy(up[v])
    BY <1>8 DEF FilesInv
  <2>2. file[f] # PNil
    BY <2>1, ReleaseAssumption
  <2> QED BY <1>2, <2>1, <2>2
<1>9. InstalledWasConfirmed'
  BY DEF FilesInv, InstalledWasConfirmed
<1>10. (\A v \in Uploads : UploadOK(up[v]))'
  BY <1>5
<1>11. (release # PNil /\ release.files /\ ~lostReply =>
          \A f \in Files : file[f] = release.content /\ release.content \in Contents
                           /\ \A v \in Uploads : f \notin OwnedBy(up[v]))'
  BY <1>8, <1>2 DEF FilesInv
<1>12. /\ \A v \in Uploads : \A f \in Files : (f \in OwnedBy(up[v]) => file[f] = up[v].c)'
       /\ \A v, w \in Uploads : \A f \in Files :
             (f \in OwnedBy(up[v]) /\ f \in OwnedBy(up[w]) => v = w)'
  BY <1>6, <1>7
<1> QED BY <1>2, <1>9, <1>10, <1>11, <1>12 DEF FilesInv

\* A request that begins owns nothing.
LEMMA UploadBegins ==
    ASSUME FilesInv, NEW u \in Uploads, NEW x \in UploadTypes, up' = [up EXCEPT ![u] = x],
           x.at = "check", x.c \in Contents, x.catalog => x.c \in confirmed',
           confirmed \subseteq confirmed', UNCHANGED <<release, file, lostReply>>
    PROVE  FilesInv'
<1>1. OwnedBy(x) = {}
  BY DEF OwnedBy
<1>2. file' \in [Files -> Contents \cup {PNil}]
  BY DEF FilesInv
<1> QED BY <1>1, <1>2, UploadMoves

\* A request that goes on, or gives up with files of its own to remove.
LEMMA UploadGoesOn ==
    ASSUME FilesInv, NEW u \in Uploads, up[u].at # "idle", NEW rm \in RmLists,
           NEW at \in {"package", "worker", "cases", "variants", "create", "cleanup"},
           up' = [up EXCEPT ![u] = [up[u] EXCEPT !.at = at, !.rm = rm]],
           file' \in [Files -> Contents \cup {PNil}],
           \A f \in Files : f \in OwnedBy([up[u] EXCEPT !.at = at, !.rm = rm]) =>
                 file'[f] = up[u].c /\ (f \in OwnedBy(up[u]) \/ file[f] = PNil),
           \A f \in Files : file'[f] # file[f] => f \in OwnedBy(up[u]) \/ file[f] = PNil,
           UNCHANGED <<release, lostReply, confirmed>>
    PROVE  FilesInv'
<1> DEFINE x == [up[u] EXCEPT !.at = at, !.rm = rm]
<1>1. up[u] \in UploadTypes /\ UploadOK(up[u])
  BY DEF FilesInv
<1>2. x \in UploadTypes /\ x.at = at /\ x.c = up[u].c /\ x.catalog = up[u].catalog
  BY <1>1 DEF UploadTypes
<1>3. up' = [up EXCEPT ![u] = x]
  OBVIOUS
<1>4. \A f \in Files : f \in OwnedBy(x) => file'[f] = x.c /\ (f \in OwnedBy(up[u]) \/ file[f] = PNil)
  BY <1>2
<1> HIDE DEF x
<1>5. x.at # "idle" => x.c \in Contents /\ (x.catalog => x.c \in confirmed')
  BY <1>1, <1>2 DEF UploadOK
<1> QED BY <1>2, <1>3, <1>4, <1>5, UploadMoves

\* Giving up keeps the files, as long as only own files are to be removed.
LEMMA UploadFails ==
    ASSUME FilesInv, NEW u \in Uploads, up[u].at # "idle", NEW rm \in RmLists, FailWith(u, rm),
           Named(rm) \subseteq OwnedBy(up[u]), UNCHANGED <<file, release, lostReply, confirmed>>
    PROVE  FilesInv'
<1> DEFINE x == [up[u] EXCEPT !.at = "cleanup", !.rm = rm]
<1>1. up[u] \in UploadTypes /\ up \in [Uploads -> UploadTypes] /\ file \in [Files -> Contents \cup {PNil}]
      /\ \A f \in Files : f \in OwnedBy(up[u]) => file[f] = up[u].c
  BY DEF FilesInv
<1>2. up' = [up EXCEPT ![u] = x]
  BY <1>1 DEF FailWith
<1>3. x.at = "cleanup" /\ x.rm = rm
  BY <1>1 DEF UploadTypes
<1>4. OwnedBy(x) \subseteq OwnedBy(up[u])
  BY <1>3 DEF OwnedBy
<1>5. \A f \in Files : f \in OwnedBy(x) => file'[f] = up[u].c /\ (f \in OwnedBy(up[u]) \/ file[f] = PNil)
  BY <1>1, <1>4
<1>6. file' \in [Files -> Contents \cup {PNil}] /\ \A f \in Files : file'[f] = file[f]
  BY <1>1
<1> QED BY <1>2, <1>5, <1>6, UploadGoesOn

\* Going on, with a new file or without.
LEMMA UploadWrites ==
    ASSUME FilesInv, NEW u \in Uploads, up[u].at # "idle", NEW x,
           NEW at \in {"package", "worker", "cases", "variants", "create"}, Goto(u, at),
           x = [up[u] EXCEPT !.at = at],
           \A f \in Files : f \in OwnedBy(x) =>
                 file'[f] = up[u].c /\ (f \in OwnedBy(up[u]) \/ file[f] = PNil),
           \A f \in Files : file'[f] # file[f] => file[f] = PNil,
           file' \in [Files -> Contents \cup {PNil}], UNCHANGED <<release, lostReply, confirmed>>
    PROVE  FilesInv'
<1>1. up[u] \in UploadTypes /\ UploadOK(up[u]) /\ up \in [Uploads -> UploadTypes]
  BY DEF FilesInv
<1>2. x \in UploadTypes /\ x.at = at /\ x.c = up[u].c /\ x.catalog = up[u].catalog
  BY <1>1 DEF UploadTypes
<1>3. up' = [up EXCEPT ![u] = x]
  BY <1>1 DEF Goto
<1>4. x.c \in Contents /\ (x.catalog => x.c \in confirmed')
  BY <1>1, <1>2 DEF UploadOK
<1>5. \A f \in Files : f \in OwnedBy(x) => file'[f] = x.c /\ (f \in OwnedBy(up[u]) \/ file[f] = PNil)
  BY <1>2
<1> QED BY <1>2, <1>3, <1>4, <1>5, UploadMoves

\* The steps of installProtocolPackageV2 before the row.
LEMMA InstallSteps ==
    ASSUME FilesInv, NEW u \in Uploads,
           \/ CheckVersion(u) \/ StorePackage(u) \/ StoreWorker(u)
           \/ validateProtocolPackageCases(u) \/ storeProtocolVariants(u)
    PROVE  FilesInv'
<1>1. UNCHANGED <<release, lostReply, confirmed>> /\ up[u].at # "idle"
  BY DEF CheckVersion, StorePackage, StoreWorker, validateProtocolPackageCases, storeProtocolVariants,
    installRest
<1>2. up[u] \in UploadTypes /\ up[u].c \in Contents /\ file \in [Files -> Contents \cup {PNil}]
  BY <1>1 DEF FilesInv, UploadOK
<1>3. ASSUME NEW at \in {"package", "worker", "cases", "variants", "create"}
      PROVE  [up[u] EXCEPT !.at = at].at = at
  BY <1>2 DEF UploadTypes
<1>4. ASSUME NEW f \in Files, NEW at \in {"worker", "cases", "create"}, NEW rm \in RmLists,
             writeExclusiveFile(u, f, at, rm), Named(rm) \subseteq OwnedBy(up[u]),
             OwnedBy([up[u] EXCEPT !.at = at]) \subseteq OwnedBy(up[u]) \cup {f}
      PROVE  FilesInv'
  <2>1. CASE FailWith(u, rm) /\ UNCHANGED file
    BY <1>1, <1>4, <2>1, UploadFails
  <2>2. CASE file[f] = PNil /\ file' = [file EXCEPT ![f] = up[u].c] /\ Goto(u, at)
    <3> DEFINE x == [up[u] EXCEPT !.at = at]
    <3>1. file' \in [Files -> Contents \cup {PNil}] /\ file'[f] = up[u].c
          /\ (\A g \in Files : g # f => file'[g] = file[g])
      BY <1>2, <2>2
    <3>2. \A g \in Files : g \in OwnedBy(x) =>
            file'[g] = up[u].c /\ (g \in OwnedBy(up[u]) \/ file[g] = PNil)
      BY <1>4, <2>2, <3>1 DEF FilesInv
    <3>3. \A g \in Files : file'[g] # file[g] => file[g] = PNil
      BY <2>2, <3>1
    <3>4. x = [up[u] EXCEPT !.at = at]
      OBVIOUS
    <3> HIDE DEF x
    <3> QED BY <1>1, <2>2, <3>1, <3>2, <3>3, <3>4, UploadWrites
  <2> QED BY <1>4, <2>1, <2>2 DEF writeExclusiveFile
<1>5. <<>> \in RmLists /\ <<"package">> \in RmLists /\ <<"worker", "package">> \in RmLists
  BY DEF RmLists
<1>6. CASE CheckVersion(u)
  <2>1. CASE FailWith(u, <<>>)
    <3>1. Named(<<>>) \subseteq OwnedBy(up[u])
      BY RmListsName
    <3> QED BY <1>1, <1>5, <1>6, <2>1, <3>1, UploadFails DEF CheckVersion
  <2>2. CASE Goto(u, "package")
    <3> DEFINE x == [up[u] EXCEPT !.at = "package"]
    <3>1. x.at = "package" /\ x = [up[u] EXCEPT !.at = "package"]
      BY <1>3
    <3> HIDE DEF x
    <3>2. file' = file /\ OwnedBy(x) \subseteq OwnedBy(up[u])
      BY <1>6, <3>1 DEF OwnedBy, CheckVersion
    <3>3. \A f \in Files : f \in OwnedBy(x) =>
            file'[f] = up[u].c /\ (f \in OwnedBy(up[u]) \/ file[f] = PNil)
      BY <3>2 DEF FilesInv
    <3> QED BY <1>1, <1>2, <2>2, <3>1, <3>2, <3>3, UploadWrites
  <2> QED BY <1>6, <2>1, <2>2 DEF CheckVersion
<1>7. CASE StorePackage(u)
  <2>1. OwnedBy([up[u] EXCEPT !.at = "worker"]) \subseteq OwnedBy(up[u]) \cup {"package"}
    BY <1>3 DEF OwnedBy
  <2>2. Named(<<>>) \subseteq OwnedBy(up[u]) /\ "package" \in Files
    BY RmListsName DEF Files
  <2> QED BY <1>4, <1>5, <1>7, <2>1, <2>2 DEF StorePackage
<1>8. CASE StoreWorker(u)
  <2>1. OwnedBy([up[u] EXCEPT !.at = "cases"]) \subseteq OwnedBy(up[u]) \cup {"worker"}
    BY <1>3, <1>8 DEF OwnedBy, StoreWorker
  <2>2. Named(<<"package">>) \subseteq OwnedBy(up[u]) /\ "worker" \in Files
    BY <1>8, RmListsName DEF Files, OwnedBy, StoreWorker
  <2> QED BY <1>4, <1>5, <1>8, <2>1, <2>2 DEF StoreWorker
<1>9. CASE validateProtocolPackageCases(u)
  <2>1. CASE FailWith(u, <<"worker", "package">>)
    <3>1. Named(<<"worker", "package">>) \subseteq OwnedBy(up[u])
      BY <1>9, RmListsName DEF OwnedBy, validateProtocolPackageCases
    <3> QED BY <1>1, <1>5, <1>9, <2>1, <3>1, UploadFails DEF validateProtocolPackageCases
  <2>2. CASE Goto(u, "variants")
    <3> DEFINE x == [up[u] EXCEPT !.at = "variants"]
    <3>1. x.at = "variants" /\ x = [up[u] EXCEPT !.at = "variants"]
      BY <1>3
    <3> HIDE DEF x
    <3>2. file' = file /\ OwnedBy(x) \subseteq OwnedBy(up[u])
      BY <1>9, <3>1 DEF OwnedBy, validateProtocolPackageCases
    <3>3. \A f \in Files : f \in OwnedBy(x) =>
            file'[f] = up[u].c /\ (f \in OwnedBy(up[u]) \/ file[f] = PNil)
      BY <3>2 DEF FilesInv
    <3> QED BY <1>1, <1>2, <2>2, <3>1, <3>2, <3>3, UploadWrites
  <2> QED BY <1>9, <2>1, <2>2 DEF validateProtocolPackageCases
<1>10. CASE storeProtocolVariants(u)
  <2>1. OwnedBy([up[u] EXCEPT !.at = "create"]) \subseteq OwnedBy(up[u]) \cup {"samples"}
    BY <1>3, <1>10 DEF OwnedBy, storeProtocolVariants, Files
  <2>2. Named(<<"worker", "package">>) \subseteq OwnedBy(up[u]) /\ "samples" \in Files
    BY <1>10, RmListsName DEF Files, OwnedBy, storeProtocolVariants
  <2> QED BY <1>4, <1>5, <1>10, <2>1, <2>2 DEF storeProtocolVariants
<1> QED BY <1>6, <1>7, <1>8, <1>9, <1>10

\* The row is created, or the files of the upload are removed again, or both.
LEMMA CreateStep ==
    ASSUME FilesInv, NEW u \in Uploads, CreateProtocolRelease(u)
    PROVE  FilesInv'
<1> DEFINE row == [status |-> IF up[u].publish THEN "PUBLISHED" ELSE "VALIDATED",
                   content |-> up[u].c, files |-> TRUE, catalog |-> up[u].catalog]
           undo == <<"worker", "package", "samples">>
<1>1. up[u].at = "create" /\ UNCHANGED <<file, confirmed>> /\ file \in [Files -> Contents \cup {PNil}]
      /\ up \in [Uploads -> UploadTypes] /\ up[u] \in UploadTypes
  BY DEF CreateProtocolRelease, FilesInv
<1>2. OwnedBy(up[u]) = Files /\ undo \in RmLists /\ <<>> \in RmLists
      /\ Named(undo) = Files /\ Named(<<>>) = {}
  BY <1>1, RmListsName DEF OwnedBy, RmLists
<1>3. CASE FailWith(u, undo) /\ UNCHANGED <<release, lostReply>>
  BY <1>1, <1>2, <1>3, UploadFails
<1>4. ASSUME release' = row, NEW rm \in RmLists, FailWith(u, rm), rm = <<>> \/ lostReply',
             rm = <<>> \/ rm = undo
      PROVE  FilesInv'
  <2> DEFINE x == [up[u] EXCEPT !.at = "cleanup", !.rm = rm]
  <2>1. up' = [up EXCEPT ![u] = x]
    BY <1>1, <1>4 DEF FailWith
  <2>2. x \in UploadTypes /\ x.at = "cleanup" /\ x.rm = rm /\ x.c = up[u].c /\ x.catalog = up[u].catalog
    BY <1>1 DEF UploadTypes
  <2> HIDE DEF x
  <2>3. OwnedBy(x) \subseteq Files /\ (rm = <<>> => OwnedBy(x) = {})
    BY <1>2, <1>4, <2>2 DEF OwnedBy
  <2>4. up' \in [Uploads -> UploadTypes] /\ up'[u] = x /\ \A v \in Uploads \ {u} : up'[v] = up[v]
    BY <1>1, <2>1, <2>2
  <2>5. UploadOK(up[u]) /\ up[u].c \in Contents /\ \A f \in Files : file'[f] = up[u].c
    BY <1>1, <1>2 DEF FilesInv, UploadOK
  <2>6. \A v \in Uploads \ {u} : \A f \in Files : f \notin OwnedBy(up[v])
    BY <1>2 DEF FilesInv
  <2>7. \A v \in Uploads : UploadOK(up[v])'
    BY <1>1, <2>2, <2>4, <2>5 DEF FilesInv, UploadOK
  <2>8. /\ \A v \in Uploads : \A f \in Files : (f \in OwnedBy(up[v]) => file[f] = up[v].c)'
        /\ \A v, w \in Uploads : \A f \in Files :
              (f \in OwnedBy(up[v]) /\ f \in OwnedBy(up[w]) => v = w)'
    BY <2>2, <2>4, <2>5, <2>6
  <2>9. release'.content = up[u].c /\ release'.catalog = up[u].catalog
    BY <1>4
  <2> HIDE DEF row
  <2>10. InstalledWasConfirmed'
    BY <1>1, <2>5, <2>9 DEF InstalledWasConfirmed, UploadOK
  <2>11. (release # PNil /\ release.files /\ ~lostReply =>
            \A f \in Files : file[f] = release.content /\ release.content \in Contents
                             /\ \A v \in Uploads : f \notin OwnedBy(up[v]))'
    BY <1>4, <2>3, <2>4, <2>5, <2>6, <2>9
  <2> QED BY <1>1, <2>4, <2>7, <2>8, <2>10, <2>11 DEF FilesInv
<1> QED BY <1>2, <1>3, <1>4 DEF CreateProtocolRelease

\* A file is removed by the upload that created it.
LEMMA CleanupStep ==
    ASSUME FilesInv, NEW u \in Uploads, Cleanup(u)
    PROVE  FilesInv'
<1>1. up[u].at = "cleanup" /\ UNCHANGED <<release, confirmed, lostReply>>
      /\ up \in [Uploads -> UploadTypes] /\ up[u] \in UploadTypes /\ UploadOK(up[u])
      /\ file \in [Files -> Contents \cup {PNil}]
  BY DEF Cleanup, FilesInv
<1>2. OwnedBy(up[u]) = Named(up[u].rm) /\ up[u].rm \in RmLists /\ up[u].c \in Contents
      /\ (up[u].catalog => up[u].c \in confirmed)
  BY <1>1 DEF OwnedBy, UploadTypes, UploadOK
<1>3. CASE up[u].rm = <<>>
  <2> DEFINE x == [up[u] EXCEPT !.at = "done"]
  <2>1. up' = [up EXCEPT ![u] = x] /\ file' = file
    BY <1>1, <1>3 DEF Cleanup
  <2>2. x \in UploadTypes /\ x.at = "done" /\ x.c = up[u].c /\ x.catalog = up[u].catalog
    BY <1>1 DEF UploadTypes
  <2> HIDE DEF x
  <2>3. OwnedBy(x) = {}
    BY <2>2 DEF OwnedBy
  <2> QED BY <1>1, <1>2, <2>1, <2>2, <2>3, UploadMoves
<1>4. CASE up[u].rm # <<>>
  <2> DEFINE g == Head(up[u].rm)
             x == [up[u] EXCEPT !.rm = Tail(up[u].rm)]
  <2>1. up' = [up EXCEPT ![u] = x] /\ file' = [file EXCEPT ![g] = PNil]
    BY <1>1, <1>4 DEF Cleanup
  <2>2. g \in Files /\ g \in Named(up[u].rm) /\ Tail(up[u].rm) \in RmLists
        /\ Named(Tail(up[u].rm)) = Named(up[u].rm) \ {g}
    BY <1>2, <1>4, RmListsShrink
  <2>3. x \in UploadTypes /\ x.at = "cleanup" /\ x.rm = Tail(up[u].rm) /\ x.c = up[u].c
        /\ x.catalog = up[u].catalog
    BY <1>1, <2>2 DEF UploadTypes
  <2> HIDE DEF x, g
  <2>4. OwnedBy(x) = OwnedBy(up[u]) \ {g}
    BY <1>2, <2>2, <2>3 DEF OwnedBy
  <2>5. file' \in [Files -> Contents \cup {PNil}] /\ \A f \in Files \ {g} : file'[f] = file[f]
    BY <1>1, <2>1, <2>2
  <2>6. \A f \in Files : f \in OwnedBy(x) => file'[f] = x.c /\ (f \in OwnedBy(up[u]) \/ file[f] = PNil)
    BY <2>3, <2>4, <2>5 DEF FilesInv
  <2>7. \A f \in Files : file'[f] # file[f] => f \in OwnedBy(up[u]) \/ file[f] = PNil
    BY <1>2, <2>2, <2>5
  <2> QED BY <1>1, <1>2, <2>1, <2>3, <2>5, <2>6, <2>7, UploadMoves
<1> QED BY <1>3, <1>4

\* The process ends: the files of its uploads stay behind and belong to nobody.
LEMMA EndOfProcessStep ==
    ASSUME FilesInv, EndOfProcess
    PROVE  FilesInv'
<1>1. ASSUME NEW u \in Uploads
      PROVE  /\ up'[u] \in UploadTypes /\ UploadOK(up[u])'
             /\ OwnedBy(up'[u]) \subseteq OwnedBy(up[u]) /\ up'[u].c = up[u].c
  <2> DEFINE x == [up[u] EXCEPT !.at = "done"]
  <2>1. up[u] \in UploadTypes /\ UploadOK(up[u]) /\ confirmed' = confirmed
    BY DEF FilesInv, EndOfProcess
  <2>2. CASE up[u].at = "idle"
    BY <2>1, <2>2 DEF EndOfProcess, UploadOK
  <2>3. CASE up[u].at # "idle"
    <3>1. up'[u] = x
      BY <2>3 DEF EndOfProcess
    <3>2. x \in UploadTypes /\ x.at = "done" /\ x.c = up[u].c /\ x.catalog = up[u].catalog
      BY <2>1 DEF UploadTypes
    <3> HIDE DEF x
    <3> QED BY <2>1, <2>3, <3>1, <3>2 DEF UploadOK, OwnedBy
  <2> QED BY <2>2, <2>3
<1>2. up' \in [Uploads -> UploadTypes] /\ UNCHANGED <<release, file, confirmed, lostReply>>
  BY <1>1 DEF EndOfProcess
<1>3. \A u \in Uploads : \A f \in Files : f \in OwnedBy(up'[u]) => f \in OwnedBy(up[u])
  BY <1>1
<1>4. InstalledWasConfirmed'
  BY <1>2 DEF FilesInv, InstalledWasConfirmed
<1> QED BY <1>1, <1>2, <1>3, <1>4 DEF FilesInv

\* The invariant of uploads and files is inductive.
LEMMA FilesStepInv == FilesInv /\ [ReleaseNext]_pvars => FilesInv'
<1> SUFFICES ASSUME FilesInv, [ReleaseNext]_pvars PROVE FilesInv'
  OBVIOUS
<1>1. CASE UNCHANGED <<release, file, up, confirmed, lostReply>>
  BY <1>1 DEF FilesInv, InstalledWasConfirmed, UploadOK
<1>2. ASSUME NEW u \in Uploads, NEW c \in Contents, NEW publish \in BOOLEAN,
             uploadProtocolPackageV2(u, c, publish) \/ uploadProtocolSource(u, c, publish)
      PROVE  FilesInv'
  <2> DEFINE x == [UpIdle EXCEPT !.at = "check", !.c = c, !.publish = publish]
  <2>1. x \in UploadTypes /\ x.at = "check" /\ x.c = c /\ x.catalog = FALSE
    BY DEF UpIdle, UploadTypes, RmLists
  <2>2. up' = [up EXCEPT ![u] = x] /\ UNCHANGED <<release, file, lostReply, confirmed>>
    BY <1>2 DEF uploadProtocolPackageV2, uploadProtocolSource
  <2> HIDE DEF x
  <2> QED BY <1>2, <2>1, <2>2, UploadBegins
<1>3. ASSUME NEW u \in Uploads, NEW seen \in Contents, installCatalogProtocol(u, seen)
      PROVE  FilesInv'
  <2> DEFINE x == [UpIdle EXCEPT !.at = "check", !.c = seen, !.catalog = TRUE]
  <2>1. x \in UploadTypes /\ x.at = "check" /\ x.c = seen /\ x.catalog = TRUE
    BY DEF UpIdle, UploadTypes, RmLists
  <2>2. up' = [up EXCEPT ![u] = x] /\ UNCHANGED <<release, file, lostReply>>
        /\ confirmed' = confirmed \cup {seen}
    BY <1>3 DEF installCatalogProtocol
  <2> HIDE DEF x
  <2> QED BY <1>3, <2>1, <2>2, UploadBegins
<1>4. ASSUME NEW u \in Uploads,
             \/ CheckVersion(u) \/ StorePackage(u) \/ StoreWorker(u)
             \/ validateProtocolPackageCases(u) \/ storeProtocolVariants(u)
             \/ CreateProtocolRelease(u) \/ Cleanup(u)
      PROVE  FilesInv'
  BY <1>4, InstallSteps, CreateStep, CleanupStep
<1>5. CASE EndOfProcess
  BY <1>5, EndOfProcessStep
<1>6. ASSUME NEW c \in Contents, createProtocolReleaseV2(c) PROVE FilesInv'
  <2>1. UNCHANGED <<file, up, confirmed, lostReply>> /\ release'.files = FALSE /\ release'.catalog = FALSE
    BY <1>6 DEF createProtocolReleaseV2
  <2> QED BY <2>1 DEF FilesInv, InstalledWasConfirmed, UploadOK
<1>7. CASE publishProtocolReleaseV2
  <2>1. UNCHANGED <<file, up, confirmed, lostReply>> /\ release # PNil
        /\ release' = [release EXCEPT !.status = "PUBLISHED"]
    BY <1>7 DEF publishProtocolReleaseV2
  <2> QED BY <2>1 DEF FilesInv, InstalledWasConfirmed, UploadOK
<1>8. CASE CatalogChanges \/ marketDistribution \/ (\E n \in Reviewers : marketSubmit(n))
           \/ (\E w \in Reviewing : ReviewProtocolMarket(w))
           \/ \E w \in Reviewing, n \in Reviewers, d \in {"APPROVED", "REJECTED", "WITHDRAWN"} :
                 marketReview(w, n, d)
  BY <1>1, <1>8 DEF CatalogChanges, marketDistribution, marketSubmit, ReviewProtocolMarket,
    marketReview, uploadVars
<1>9. CASE UNCHANGED pvars
  BY <1>1, <1>9 DEF pvars
<1> QED BY <1>2, <1>3, <1>4, <1>5, <1>6, <1>7, <1>8, <1>9 DEF ReleaseNext

-----------------------------------------------------------------------------
(* ProtocolRelease, the market.  A version is undecided, decided once, or   *)
(* approved and then withdrawn; these are all the lists of reviews there    *)
(* are, whatever two reviewers do at the same time.                         *)

Decisions == {"APPROVED", "REJECTED", "WITHDRAWN"}
ReviewLists == Seq(Reviewers \X Decisions)
MarketTypes ==
    [status: {"SUBMITTED"} \cup Decisions, gen: Nat, by: Reviewers, content: Contents \cup {PNil},
     reviews: ReviewLists]

Undecided(m) == Len(m.reviews) = 0 /\ m.status = "SUBMITTED"
DecidedOnce(m) ==
    /\ Len(m.reviews) = 1 /\ m.reviews[1][2] = m.status /\ m.status \in Decisions
    /\ m.status # "WITHDRAWN" => m.reviews[1][1] # m.by
Retracted(m) ==
    /\ Len(m.reviews) = 2 /\ m.reviews[1][2] = "APPROVED" /\ m.reviews[2][2] = "WITHDRAWN"
    /\ m.status = "WITHDRAWN" /\ m.reviews[1][1] # m.by
MarketOK(m) == m \in MarketTypes /\ (Undecided(m) \/ DecidedOnce(m) \/ Retracted(m))

ReviewTypes == [at: {"idle", "save", "done"}, actor: Reviewers \cup {PNil},
                decision: Decisions \cup {PNil}, gen: Nat]
MarketInv ==
    /\ market = PNil \/ MarketOK(market)
    /\ review \in [Reviewing -> ReviewTypes]
    /\ \A w \in Reviewing : review[w].at = "save" =>
          MarketOK(market) /\ review[w].actor \in Reviewers /\ review[w].decision \in Decisions
    /\ \A x \in served : x[2].status = "APPROVED" /\ x[1] = x[2].content

\* A decision that Review accepts leaves one of those lists.
LEMMA ReviewKeepsOK ==
    ASSUME MarketOK(market), NEW actor \in Reviewers, NEW decision \in Decisions, NEW gen,
           ReviewAllowed(actor, decision, gen),
           market' = [market EXCEPT !.status = decision, !.gen = @ + 1,
                                    !.reviews = Append(@, <<actor, decision>>)]
    PROVE  MarketOK(market')
<1>1. market \in MarketTypes /\ (Undecided(market) \/ DecidedOnce(market) \/ Retracted(market))
  BY DEF MarketOK
<1>2. market' \in MarketTypes /\ market'.status = decision /\ market'.by = market.by
      /\ market'.reviews = Append(market.reviews, <<actor, decision>>)
  <2>1. market.reviews \in ReviewLists /\ market.gen + 1 \in Nat
    BY <1>1 DEF MarketTypes
  <2>2. Append(market.reviews, <<actor, decision>>) \in ReviewLists
    BY <2>1 DEF ReviewLists
  <2>3. PICK list \in ReviewLists, g \in Nat :
           /\ market' = [market EXCEPT !.status = decision, !.gen = g, !.reviews = list]
           /\ list = Append(market.reviews, <<actor, decision>>)
    BY <2>1, <2>2
  <2>4. market' \in MarketTypes /\ market'.status = decision /\ market'.by = market.by
        /\ market'.reviews = list
    BY <1>1, <2>3 DEF MarketTypes
  <2> QED BY <2>3, <2>4
<1>3. IF decision = "WITHDRAWN" THEN market.status \in {"APPROVED", "SUBMITTED"}
      ELSE market.status = "SUBMITTED" /\ market.by # actor
  BY DEF ReviewAllowed
<1>4. /\ market.reviews \in Seq(Reviewers \X Decisions)
      /\ Len(market'.reviews) = Len(market.reviews) + 1
      /\ \A k \in 1 .. Len(market.reviews) : market'.reviews[k] = market.reviews[k]
      /\ market'.reviews[Len(market.reviews) + 1] = <<actor, decision>>
  <2>1. market.reviews \in Seq(Reviewers \X Decisions)
    BY <1>1 DEF MarketTypes, ReviewLists
  <2> QED BY <1>2, <2>1
<1>5. CASE Undecided(market)
  <2>1. DecidedOnce(market')
    BY <1>2, <1>3, <1>4, <1>5 DEF DecidedOnce, Undecided
  <2> QED BY <1>2, <2>1 DEF MarketOK
<1>6. CASE DecidedOnce(market)
  <2>1. decision = "WITHDRAWN" /\ market.status = "APPROVED"
    BY <1>3, <1>6 DEF Decisions, DecidedOnce
  <2>2. Retracted(market')
    BY <1>2, <1>4, <1>6, <2>1 DEF Retracted, DecidedOnce
  <2> QED BY <1>2, <2>2 DEF MarketOK
<1>7. CASE Retracted(market)
  BY <1>3, <1>7 DEF Retracted
<1> QED BY <1>1, <1>5, <1>6, <1>7

\* The invariant of the market is inductive.
LEMMA MarketStepInv == FilesInv /\ MarketInv /\ [ReleaseNext]_pvars => MarketInv'
<1> SUFFICES ASSUME FilesInv, MarketInv, [ReleaseNext]_pvars PROVE MarketInv'
  OBVIOUS
<1>1. CASE UNCHANGED marketVars
  BY <1>1 DEF MarketInv, marketVars
<1>2. CASE EndOfProcess
  <2>1. review' = [w \in Reviewing |-> IF review[w].at = "idle" THEN review[w]
                                       ELSE [review[w] EXCEPT !.at = "done"]]
        /\ UNCHANGED <<market, served>> /\ review \in [Reviewing -> ReviewTypes]
    BY <1>2 DEF EndOfProcess, MarketInv
  <2>2. ASSUME NEW w \in Reviewing PROVE review'[w] \in ReviewTypes /\ review'[w].at # "save"
    BY <2>1 DEF ReviewTypes
  <2>3. review' \in [Reviewing -> ReviewTypes]
    BY <2>1, <2>2
  <2> QED BY <2>1, <2>2, <2>3 DEF MarketInv
<1>3. ASSUME NEW n \in Reviewers, marketSubmit(n) PROVE MarketInv'
  <2>1. release.content \in Contents \cup {PNil} /\ UNCHANGED <<review, served>>
    BY <1>3 DEF marketSubmit, SourceReadable, FilesInv, Files
  <2>2. market' = [status |-> "SUBMITTED", gen |-> 1, by |-> n, content |-> release.content,
                   reviews |-> <<>>]
    BY <1>3 DEF marketSubmit
  <2>3. market' \in MarketTypes /\ Undecided(market')
    BY <2>1, <2>2 DEF MarketTypes, Undecided, ReviewLists
  <2>4. MarketOK(market')
    BY <2>3 DEF MarketOK
  <2> QED BY <2>1, <2>4 DEF MarketInv
<1>4. ASSUME NEW w \in Reviewing, NEW n \in Reviewers, NEW d \in Decisions, marketReview(w, n, d)
      PROVE  MarketInv'
  <2> DEFINE x == [at |-> "save", actor |-> n, decision |-> d, gen |-> market.gen]
  <2>1. review' = [review EXCEPT ![w] = x] /\ UNCHANGED <<market, served>> /\ MarketOK(market)
        /\ review \in [Reviewing -> ReviewTypes]
    BY <1>4 DEF marketReview, MarketInv
  <2>2. x \in ReviewTypes /\ x.actor = n /\ x.decision = d
    BY <2>1 DEF ReviewTypes, MarketOK, MarketTypes
  <2> HIDE DEF x
  <2> QED BY <2>1, <2>2 DEF MarketInv
<1>5. ASSUME NEW w \in Reviewing, ReviewProtocolMarket(w) PROVE MarketInv'
  <2>1. MarketOK(market) /\ review[w].actor \in Reviewers /\ review[w].decision \in Decisions
        /\ UNCHANGED served /\ review' = [review EXCEPT ![w].at = "done"]
        /\ review \in [Reviewing -> ReviewTypes]
    BY <1>5 DEF ReviewProtocolMarket, MarketInv
  <2>2. MarketOK(market')
    BY <1>5, <2>1, ReviewKeepsOK DEF ReviewProtocolMarket
  <2>3. review' \in [Reviewing -> ReviewTypes] /\ review'[w].at = "done"
        /\ \A v \in Reviewing \ {w} : review'[v] = review[v]
    BY <2>1 DEF ReviewTypes
  <2> QED BY <2>1, <2>2, <2>3 DEF MarketInv
<1>6. CASE marketDistribution
  <2>1. served' = served \cup {<<file["package"], market>>} /\ UNCHANGED <<market, review>>
        /\ market.status = "APPROVED" /\ file["package"] = market.content
    BY <1>6 DEF marketDistribution, marketSourceMatches, SourceReadable
  <2> QED BY <2>1 DEF MarketInv
<1>7. CASE ReleaseNext
  <2>1. ASSUME NEW u \in Uploads, NEW c \in Contents, NEW publish \in BOOLEAN,
               uploadProtocolPackageV2(u, c, publish) \/ uploadProtocolSource(u, c, publish)
                  \/ installCatalogProtocol(u, c)
        PROVE  UNCHANGED marketVars
    BY <2>1 DEF uploadProtocolPackageV2, uploadProtocolSource, installCatalogProtocol
  <2>2. ASSUME NEW u \in Uploads,
               CheckVersion(u) \/ StorePackage(u) \/ StoreWorker(u)
                  \/ validateProtocolPackageCases(u) \/ storeProtocolVariants(u)
                  \/ CreateProtocolRelease(u) \/ Cleanup(u)
        PROVE  UNCHANGED marketVars
    BY <2>2 DEF CheckVersion, StorePackage, StoreWorker, validateProtocolPackageCases,
      storeProtocolVariants, CreateProtocolRelease, Cleanup, installRest
  <2>3. CatalogChanges \/ publishProtocolReleaseV2 \/ (\E c \in Contents : createProtocolReleaseV2(c))
           => UNCHANGED marketVars
    BY DEF CatalogChanges, publishProtocolReleaseV2, createProtocolReleaseV2
  <2> QED BY <1>1, <1>2, <1>3, <1>4, <1>5, <1>6, <1>7, <2>1, <2>2, <2>3 DEF ReleaseNext, Decisions
<1> QED BY <1>1, <1>7 DEF pvars, marketVars

\* The shapes of the list of reviews say who decided, how often, and with what effect.
LEMMA ReviewsAreSound ==
    ASSUME NEW m, MarketOK(m)
    PROVE  /\ \A k \in 1 .. Len(m.reviews) : m.reviews[k][2] = "APPROVED" => m.reviews[k][1] # m.by
           /\ Cardinality({k \in 1 .. Len(m.reviews) : m.reviews[k][2] # "WITHDRAWN"}) <= 1
           /\ m.reviews # <<>> => m.reviews[Len(m.reviews)][2] = m.status
           /\ Len(m.reviews) = 2 => m.status = "WITHDRAWN"
<1> DEFINE S == {k \in 1 .. Len(m.reviews) : m.reviews[k][2] # "WITHDRAWN"}
<1>1. ASSUME S \subseteq {1} PROVE Cardinality(S) <= 1
  <2>1. IsFiniteSet({1}) /\ Cardinality({1}) = 1
    BY FS_Singleton
  <2>2. Cardinality(S) <= Cardinality({1})
    BY <1>1, <2>1, FS_Subset
  <2> QED BY <2>1, <2>2
<1>2. CASE Undecided(m)
  <2>1. S \subseteq {1}
    BY <1>2 DEF Undecided
  <2>2. m.reviews \in Seq(Reviewers \X Decisions)
    BY DEF MarketOK, MarketTypes, ReviewLists
  <2>3. m.reviews = <<>>
    BY <1>2, <2>2 DEF Undecided
  <2> QED BY <1>1, <1>2, <2>1, <2>3 DEF Undecided
<1>3. CASE DecidedOnce(m)
  <2>1. S \subseteq {1}
    BY <1>3 DEF DecidedOnce
  <2> QED BY <1>1, <1>3, <2>1 DEF DecidedOnce
<1>4. CASE Retracted(m)
  <2>1. S \subseteq {1}
    BY <1>4 DEF Retracted
  <2> QED BY <1>1, <1>4, <2>1 DEF Retracted
<1> QED BY <1>2, <1>3, <1>4 DEF MarketOK

\* installProtocolPackageV2, installCatalogProtocol and ReviewProtocolMarket: for any number
\* of concurrent uploads, deaths and reviews a release keeps the files it was validated
\* with, what came from a catalogue was confirmed there, and what is distributed was
\* approved by somebody else.
THEOREM ReleaseStaysSound == ReleaseSpec => []ReleaseIsSound
<1>1. ReleaseInit => FilesInv /\ MarketInv
  <2> SUFFICES ASSUME ReleaseInit PROVE FilesInv /\ MarketInv
    OBVIOUS
  <2>1. UpIdle \in UploadTypes /\ UpIdle.at = "idle" /\ OwnedBy(UpIdle) = {}
    BY DEF UpIdle, UploadTypes, RmLists, OwnedBy
  <2>2. FilesInv
    BY <2>1 DEF ReleaseInit, FilesInv, UploadOK, InstalledWasConfirmed
  <2>3. ReviewIdle \in ReviewTypes /\ ReviewIdle.at = "idle"
    BY DEF ReviewIdle, ReviewTypes
  <2>4. MarketInv
    BY <2>3 DEF ReleaseInit, MarketInv
  <2> QED BY <2>2, <2>4
<1>2. FilesInv /\ MarketInv => ReleaseIsSound
  <2> SUFFICES ASSUME FilesInv, MarketInv PROVE ReleaseIsSound
    OBVIOUS
  <2>1. ReleaseKeepsItsFiles /\ InstalledWasConfirmed
    BY DEF FilesInv, ReleaseKeepsItsFiles
  <2>2. OneReviewByAnother
    BY ReviewsAreSound DEF MarketInv, OneReviewByAnother
  <2> QED BY <2>1, <2>2 DEF ReleaseIsSound
<1> QED BY <1>1, <1>2, FilesStepInv, MarketStepInv, PTL DEF ReleaseSpec

-----------------------------------------------------------------------------
(* BackupService.  Once a day has ended, the rows a backup of it must hold  *)
(* are fixed; the export collects them table by table, and a manifest that  *)
(* was written is never changed again.                                      *)

BTaskTypes == [status: {"none", "RUNNING", "COMPLETED", "FAILED"}, days: SUBSET Int, had: SUBSET BackupRows]
BObjectTypes == [files: [BackupFiles -> FileContents \cup {BNone}], manifest: Misread \cup {BNone, Garbage}]
BRunTypes == [id: Nat, step: 0 .. 11, local: Manifests, sched: BOOLEAN]
BDrillTypes == [of: Nat, sums: Misread \cup {BNone}, left: SUBSET BackupFiles,
                status: {"none", "RUNNING", "COMPLETED", "FAILED"}, suspect: BOOLEAN]

BackupTypeInv ==
    /\ bclock \in Nat /\ timer \in Nat \cup {BNone}
    /\ dbRows \subseteq BackupRows /\ lateRows \subseteq dbRows /\ processed \subseteq dbRows
    /\ btask \in [BackupIds -> BTaskTypes] /\ object \in [BackupIds -> BObjectTypes]
    /\ run \in BRunTypes /\ drill \in BDrillTypes

\* The rows a backup has to hold, unless they are moved out of its window.
OneDay(b) == \E d \in Days : btask[b].days = {d}
Expected(b) == btask[b].had \cup {r \in dbRows \ lateRows : OneDay(b) /\ r[3] \in btask[b].days}

TasksInv ==
    \A b \in BackupIds : btask[b].status # "none" =>
        /\ btask[b].days = AllDays \/ \E d \in Nat : btask[b].days = {d} /\ d < DayOf(bclock)
        /\ \A r \in btask[b].had : r \in dbRows /\ r[3] \in btask[b].days

BackupRunOK(b) ==
    /\ run.id = b /\ run.step >= 1
    /\ run.step <= 10 => btask[b].status = "RUNNING"
    /\ run.step = 11 => btask[b].status = "COMPLETED"
    /\ run.step <= 9 => object[b].manifest = BNone
    /\ run.step >= 10 => object[b].manifest = run.local \/ Garbled(object[b].manifest)
    /\ run.step >= 6 => object[b].files["raw"] \in {run.local["raw"], Damaged}
    /\ run.step >= 8 => object[b].files["parsed"] \in {run.local["parsed"], Damaged}
    /\ \A r \in Expected(b), n \in 1 .. 4 :
          n < run.step /\ Exports[n] = <<r[1], r[2]>> => r \in run.local[r[1]] \cup MovedOut(b)
RunInv == run = BackupIdle \/ \E b \in BackupIds : BackupRunOK(b)

DoneInv ==
    \A b \in BackupIds :
        /\ btask[b].status = "none" => object[b].manifest = BNone
        /\ btask[b].status = "COMPLETED" /\ ~Garbled(object[b].manifest) =>
              /\ object[b].manifest \in Manifests
              /\ \A f \in BackupFiles : object[b].files[f] \in {object[b].manifest[f], Damaged}
              /\ \A r \in Expected(b) : r \in object[b].manifest[r[1]] \cup MovedOut(b)

DrillInv ==
    /\ drill.left # {} =>
          /\ drill.of \in BackupIds /\ object[drill.of].manifest # BNone /\ drill.sums \in Misread \ {NoSums}
          /\ drill.suspect => \E f \in drill.left : object[drill.of].files[f] # drill.sums[f]
    /\ DrillDetectsDamage

BackupInv == BackupTypeInv /\ TasksInv /\ RunInv /\ DoneInv /\ DrillInv

\* No row, no file and no manifest is missing or damaged by accident of its value.
LEMMA BackupFacts ==
    /\ BNone \notin FileContents /\ BNone \notin Manifests /\ Damaged \notin SUBSET BackupRows
    /\ Damaged \in FileContents /\ Damaged # BNone /\ WrongSum \notin FileContents \cup {BNone}
    /\ Manifests \subseteq Misread /\ Garbage \notin Manifests /\ NoSums \notin Manifests
    /\ \A m \in Misread \ {NoSums} :
          DOMAIN m = BackupFiles /\ \A f \in BackupFiles : m[f] \in (SUBSET BackupRows) \cup {WrongSum} /\ m[f] # Damaged
    /\ \A m \in Manifests, f \in BackupFiles : m[f] \in FileContents /\ m[f] # BNone /\ m[f] # Damaged
    /\ "raw" \in BackupFiles /\ "parsed" \in BackupFiles
    /\ \A r \in BackupRows : r[1] \in BackupFiles /\ r[3] \in Nat
    /\ \A r \in BackupRows : \E n \in 1 .. 4 : Exports[n] = <<r[1], r[2]>>
    /\ Len(Exports) = 4
<1>1. BNone \notin FileContents /\ WrongSum # BNone /\ BNone \notin Misread /\ Garbage \notin Misread
  BY BackupAssumption
<1>2. Damaged \notin SUBSET BackupRows /\ WrongSum \notin SUBSET BackupRows /\ WrongSum # Damaged
  <2> DEFINE e == ""
             bad == <<"damaged", e, 0>>
             wrong == <<"wrong", e, 0>>
  <2> HIDE DEF e
  <2>1. bad[1] = "damaged" /\ wrong[1] = "wrong"
    OBVIOUS
  <2> HIDE DEF bad, wrong
  <2>2. \A r \in BackupRows : r[1] \in {"raw", "parsed"}
    BY DEF BackupRows, BackupFiles
  <2>3. bad \notin BackupRows /\ wrong \notin BackupRows /\ bad # wrong
    BY <2>1, <2>2
  <2>4. Damaged = {bad} /\ WrongSum = {wrong}
    BY DEF Damaged, WrongSum, bad, wrong, e
  <2> QED BY <2>3, <2>4
<1>3. Damaged \in FileContents
  BY DEF FileContents
<1>4. \A r \in BackupRows : r[1] \in BackupFiles /\ r[3] \in Days /\ r[2] \in {"pg", "ch"}
  BY DEF BackupRows
<1>5. Len(Exports) = 4 /\ Exports[1] = <<"raw", "pg">> /\ Exports[2] = <<"raw", "ch">>
      /\ Exports[3] = <<"parsed", "pg">> /\ Exports[4] = <<"parsed", "ch">>
  BY DEF Exports
<1>6. \A r \in BackupRows : \E n \in 1 .. 4 : Exports[n] = <<r[1], r[2]>>
  <2> SUFFICES ASSUME NEW r \in BackupRows PROVE \E n \in 1 .. 4 : Exports[n] = <<r[1], r[2]>>
    OBVIOUS
  <2>1. (r[1] = "raw" \/ r[1] = "parsed") /\ (r[2] = "pg" \/ r[2] = "ch")
    BY <1>4 DEF BackupFiles
  <2> QED BY <1>5, <2>1
<1>7. \A m \in Manifests, f \in BackupFiles : m[f] \in SUBSET BackupRows
  BY DEF Manifests
<1>8. SUBSET BackupRows \subseteq FileContents /\ Days \subseteq Nat
  BY DEF FileContents, Days
<1>9. WrongSum \notin FileContents
  BY <1>2 DEF FileContents
<1>10. Manifests \subseteq Misread
  BY DEF Manifests, Misread
<1>11. ASSUME NEW m \in Misread \ {NoSums}
       PROVE  DOMAIN m = BackupFiles /\ \A f \in BackupFiles : m[f] \in (SUBSET BackupRows) \cup {WrongSum} /\ m[f] # Damaged
  BY <1>2 DEF Misread
<1>12. NoSums \notin Manifests
  <2>1. DOMAIN NoSums = {} /\ BackupFiles # {}
    BY DEF NoSums, BackupFiles
  <2> QED BY <2>1 DEF Manifests
<1> QED BY <1>1, <1>2, <1>3, <1>4, <1>5, <1>6, <1>7, <1>8, <1>9, <1>10, <1>11, <1>12 DEF BackupFiles

\* The days of the calendar.
LEMMA DayFacts ==
    /\ \A t \in Nat : DayOf(t) \in Nat /\ DayOf(t) <= DayOf(t + 1)
    /\ \A t, u \in Nat : u <= t /\ u >= 2 => DayOf(u) - 1 \in Nat /\ DayOf(u) - 1 < DayOf(t)
    /\ \A t \in Nat : nextDailyRun(t) \in Nat
    /\ \A d : AllDays # {d}
    /\ Days \subseteq AllDays /\ Epoch \in AllDays /\ Epoch \notin Nat /\ AllDays \in SUBSET Int
<1>1. /\ \A t \in Nat : DayOf(t) \in Nat /\ DayOf(t) <= DayOf(t + 1)
      /\ \A t, u \in Nat : u <= t /\ u >= 2 => DayOf(u) - 1 \in Nat /\ DayOf(u) - 1 < DayOf(t)
  <2>1. ASSUME NEW t \in Nat PROVE DayOf(t) \in Nat /\ 2 * DayOf(t) <= t /\ t < 2 * DayOf(t) + 2
    BY DEF DayOf
  <2>2. ASSUME NEW t \in Nat, NEW u \in Nat, u <= t PROVE DayOf(u) <= DayOf(t)
    BY <2>1, <2>2
  <2>3. ASSUME NEW u \in Nat, u >= 2 PROVE DayOf(u) >= 1
    BY <2>1, <2>3
  <2>4. ASSUME NEW t \in Nat PROVE DayOf(t) \in Nat /\ DayOf(t) <= DayOf(t + 1)
    <3>1. t + 1 \in Nat /\ t <= t + 1
      OBVIOUS
    <3> QED BY <2>1, <2>2, <3>1
  <2>5. ASSUME NEW t \in Nat, NEW u \in Nat, u <= t, u >= 2
        PROVE  DayOf(u) - 1 \in Nat /\ DayOf(u) - 1 < DayOf(t)
    <3>1. DayOf(u) \in Nat /\ DayOf(t) \in Nat /\ DayOf(u) >= 1 /\ DayOf(u) <= DayOf(t)
      BY <2>1, <2>2, <2>3, <2>5
    <3> QED BY <3>1
  <2> QED BY <2>4, <2>5
<1>2. \A t \in Nat : nextDailyRun(t) \in Nat
  <2> SUFFICES ASSUME NEW t \in Nat PROVE nextDailyRun(t) \in Nat
    OBVIOUS
  <2>1. DayOf(t) \in Nat
    BY <1>1
  <2> QED BY <2>1 DEF nextDailyRun
<1>3. DayOf(MaxClock) >= 1 /\ DayOf(MaxClock) \in Nat
  BY BackupAssumption DEF DayOf
<1>4. 0 \in AllDays /\ 1 \in AllDays
  BY <1>3 DEF AllDays, Days
<1>5. Days \subseteq AllDays /\ Epoch \in AllDays /\ Epoch \notin Nat /\ AllDays \in SUBSET Int
  BY <1>3 DEF AllDays, Days, Epoch
<1>6. \A d : AllDays # {d}
  BY <1>4
<1> QED BY <1>1, <1>2, <1>5, <1>6

\* The ways an export starts: a request or the scheduler, for everything or for a day
\* that has ended.
Starts(days, sched) ==
    /\ runDeviceData(days, sched) /\ days \in SUBSET Int /\ sched \in BOOLEAN
    /\ days = AllDays \/ \E d \in Nat : days = {d} /\ d < DayOf(bclock)
    /\ timer' \in Nat \cup {BNone}
PlansNext ==
    /\ timer' \in Nat \cup {BNone}
    /\ UNCHANGED <<bclock, dbRows, lateRows, processed, btask, object, run, drill, stops>>

LEMMA BackupStarts ==
    ASSUME BackupTypeInv, Scheduled \/ \E kind \in {"FULL", "DAILY"} : Run(kind)
    PROVE  (\E days, sched : Starts(days, sched)) \/ PlansNext
<1>1. bclock \in Nat /\ timer \in Nat \cup {BNone} /\ nextDailyRun(bclock) \in Nat
  BY DayFacts DEF BackupTypeInv
<1>2. CASE Run("FULL")
  <2>1. runDeviceData(AllDays, FALSE) /\ UNCHANGED timer
    BY <1>2 DEF Run
  <2> QED BY <1>1, <2>1, DayFacts DEF Starts
<1>3. CASE Run("DAILY")
  <2>1. runDeviceData({DayOf(bclock) - 1}, FALSE) /\ UNCHANGED timer /\ bclock >= 2
    BY <1>3 DEF Run
  <2>2. DayOf(bclock) - 1 \in Nat /\ DayOf(bclock) - 1 < DayOf(bclock)
    BY <1>1, <2>1, DayFacts
  <2>3. {DayOf(bclock) - 1} \in SUBSET Int
    BY <2>2
  <2>4. Starts({DayOf(bclock) - 1}, FALSE)
    BY <1>1, <2>1, <2>2, <2>3 DEF Starts
  <2> QED BY <2>4
<1>4. CASE Scheduled
  <2>1. CASE timer >= 2 /\ runDeviceData({DayOf(timer) - 1}, TRUE) /\ timer' = BNone
    <3>1. timer \in Nat /\ timer <= bclock
      BY <1>1, <1>4 DEF Scheduled
    <3>2. DayOf(timer) - 1 \in Nat /\ DayOf(timer) - 1 < DayOf(bclock)
      BY <1>1, <2>1, <3>1, DayFacts
    <3>3. {DayOf(timer) - 1} \in SUBSET Int
      BY <3>2
    <3>4. Starts({DayOf(timer) - 1}, TRUE)
      BY <2>1, <3>2, <3>3 DEF Starts
    <3> QED BY <3>4
  <2>2. CASE timer' = nextDailyRun(bclock)
             /\ UNCHANGED <<bclock, dbRows, lateRows, processed, btask, object, run, drill, stops>>
    BY <1>1, <2>2 DEF PlansNext
  <2> QED BY <1>4, <2>1, <2>2 DEF Scheduled
<1> QED BY <1>2, <1>3, <1>4

\* What an export that starts writes.
LEMMA StartWrites ==
    ASSUME BackupInv, NEW days, NEW sched, Starts(days, sched)
    PROVE  /\ NewBackup \in BackupIds /\ btask[NewBackup].status = "none" /\ run = BackupIdle
           /\ btask' = [btask EXCEPT ![NewBackup] =
                           [status |-> "RUNNING", days |-> days, had |-> Promised(days)]]
           /\ Promised(days) \in SUBSET BackupRows
           /\ \A r \in Promised(days) : r \in dbRows /\ r[3] \in days
           /\ run'.id = NewBackup /\ run'.step = 1 /\ run' \in BRunTypes
           /\ UNCHANGED <<bclock, dbRows, lateRows, processed, object, drill>>
<1>1. NewBackup \in BackupIds /\ btask[NewBackup].status = "none"
  BY DEF Starts, runDeviceData, NewBackup
<1>2. Promised(days) \in SUBSET BackupRows /\ \A r \in Promised(days) : r \in dbRows /\ r[3] \in days
  <2>1. \A r \in Promised(days) : r \in dbRows /\ r \in BackupRows /\ Stamp(r) \in days
    BY DEF Promised, InWindow, BackupInv, BackupTypeInv
  <2>2. \A r \in BackupRows : r[3] \in Days
    BY DEF BackupRows
  <2>3. CASE days = AllDays
    BY <2>1, <2>2, <2>3, DayFacts
  <2>4. CASE days # AllDays
    <3>1. Epoch \notin days
      BY <2>4, DayFacts DEF Starts
    <3>2. \A r \in Promised(days) : Stamp(r) = r[3]
      BY <2>1, <3>1 DEF Stamp
    <3> QED BY <2>1, <3>2
  <2> QED BY <2>3, <2>4
<1>3. run'.id = NewBackup /\ run'.step = 1 /\ run' \in BRunTypes
  <2> DEFINE loc == [f \in BackupFiles |-> {}]
  <2>1. loc \in Manifests
    BY DEF Manifests
  <2>2. NewBackup \in Nat /\ sched \in BOOLEAN
    BY <1>1 DEF BackupIds, Starts
  <2>3. run' = [BackupIdle EXCEPT !.id = NewBackup, !.step = 1, !.sched = sched]
    BY DEF Starts, runDeviceData
  <2> HIDE DEF loc
  <2>4. PICK n \in Nat, sc \in BOOLEAN :
           n = NewBackup /\ run' = [id |-> n, step |-> 1, local |-> loc, sched |-> sc]
    BY <2>2, <2>3 DEF BackupIdle, loc
  <2>5. run' \in BRunTypes /\ run'.id = n /\ run'.step = 1
    BY <2>1, <2>4 DEF BRunTypes
  <2> QED BY <2>4, <2>5
<1> QED BY <1>1, <1>2, <1>3 DEF Starts, runDeviceData

\* What an export that goes on is.
LEMMA BusyRun ==
    ASSUME BackupInv, run.step # 0
    PROVE  run # BackupIdle /\ run.id \in BackupIds /\ run.step \in 1 .. 11
<1>1. run # BackupIdle
  BY DEF BackupIdle
<1> QED BY <1>1 DEF BackupInv, RunInv, BackupRunOK, BackupTypeInv, BRunTypes

\* The file an upload is about.
LEMMA UploadedFile ==
    /\ UploadOrder[(5 - 3) \div 2] = "raw" /\ UploadOrder[(7 - 3) \div 2] = "parsed"
    /\ UploadOrder[(6 - 4) \div 2] = "raw" /\ UploadOrder[(8 - 4) \div 2] = "parsed"
BY DEF UploadOrder

\* A manifest that can be decoded names the files or none.
LEMMA SumsName == \A m \in Misread : DOMAIN m \in {{}, BackupFiles}
<1>1. DOMAIN NoSums = {}
  BY DEF NoSums
<1> QED BY <1>1, BackupFacts

\* What a drill that starts writes.
LEMMA VerifyWrites ==
    ASSUME BackupTypeInv, NEW b \in BackupIds, Verify(b)
    PROVE  \E m \in Misread, susp \in BOOLEAN, st \in {"RUNNING", "COMPLETED"} :
              /\ m = object[b].manifest /\ m # BNone /\ UNCHANGED object
              /\ drill' = [of |-> b, sums |-> m, left |-> DOMAIN m, status |-> st, suspect |-> susp]
              /\ (st = "COMPLETED") = (DOMAIN m = {})
              /\ susp = (Garbled(m) \/ \E f \in BackupFiles : object[b].files[f] # m[f])
<1> DEFINE m == object[b].manifest
           susp == Garbled(m) \/ \E f \in BackupFiles : object[b].files[f] # m[f]
           st == IF DOMAIN m = {} THEN "COMPLETED" ELSE "RUNNING"
<1>1. m \in Misread /\ m # BNone
  BY DEF Verify, HasManifest, BackupTypeInv, BObjectTypes
<1>2. drill' = [of |-> b, sums |-> m, left |-> DOMAIN m, status |-> st, suspect |-> susp] /\ UNCHANGED object
  BY DEF Verify
<1>3. susp \in BOOLEAN /\ st \in {"RUNNING", "COMPLETED"} /\ (st = "COMPLETED") = (DOMAIN m = {})
  BY DEF Garbled
<1>4. susp = (Garbled(m) \/ \E f \in BackupFiles : object[b].files[f] # m[f])
  OBVIOUS
<1> HIDE DEF m, susp, st
<1>5. m = object[b].manifest
  BY DEF m
<1> QED BY <1>1, <1>2, <1>3, <1>4, <1>5

\* What a damaged manifest becomes.
LEMMA DamageWrites ==
    ASSUME BackupTypeInv, NEW b \in BackupIds, DamageManifest(b)
    PROVE  \E m \in Misread \cup {Garbage} :
              /\ Garbled(m) /\ object' = [object EXCEPT ![b].manifest = m]
              /\ object[b].manifest \in Manifests
<1>1. object[b].manifest \in Manifests
  BY DEF DamageManifest
<1>2. PICK m \in {Garbage, NoSums} \cup {[object[b].manifest EXCEPT ![f] = WrongSum] : f \in BackupFiles} :
         object' = [object EXCEPT ![b].manifest = m]
  BY DEF DamageManifest
<1>3. BNone # Garbage /\ BNone \notin Misread
  BY BackupAssumption
<1>4. NoSums \in Misread
  BY DEF Misread
<1>5. CASE m \in {Garbage, NoSums}
  <2>1. m # BNone
    BY <1>3, <1>4, <1>5
  <2> QED BY <1>1, <1>2, <1>4, <1>5, <2>1 DEF Garbled
<1>6. ASSUME NEW f \in BackupFiles, m = [object[b].manifest EXCEPT ![f] = WrongSum]
      PROVE  m \in Misread /\ m[f] = WrongSum
  BY <1>1, <1>6 DEF Manifests, Misread
<1>7. CASE m \notin {Garbage, NoSums}
  <2>1. PICK f \in BackupFiles : m = [object[b].manifest EXCEPT ![f] = WrongSum]
    BY <1>7
  <2>2. m \in Misread /\ m[f] = WrongSum /\ m # BNone
    BY <1>3, <1>6, <2>1
  <2> QED BY <1>1, <1>2, <2>2 DEF Garbled
<1> QED BY <1>5, <1>7

LEMMA BackupTypeStep ==
    ASSUME BackupInv, [BackupNext]_qvars
    PROVE  BackupTypeInv'
<1> USE DEF BackupTypeInv
<1>0. BackupTypeInv /\ BackupIdle \in BRunTypes
  BY DEF BackupInv, BackupIdle, BRunTypes, Manifests
<1>1. CASE Tick
  BY <1>0, <1>1 DEF Tick
<1>2. ASSUME NEW t \in Tables, NEW d \in Days, StoreRow(t, d) PROVE BackupTypeInv'
  <2>1. <<t[1], t[2], d>> \in BackupRows
    <3>1. t[1] \in BackupFiles /\ t[2] \in {"pg", "ch"}
      BY BackupAssumption
    <3> QED BY <3>1 DEF BackupRows
  <2> QED BY <1>0, <1>2, <2>1 DEF StoreRow
<1>3. ASSUME NEW days, NEW sched, Starts(days, sched) PROVE BackupTypeInv'
  <2>1. [status |-> "RUNNING", days |-> days, had |-> Promised(days)] \in BTaskTypes
    BY <1>3, StartWrites DEF BTaskTypes, Starts
  <2>2. btask' \in [BackupIds -> BTaskTypes]
    BY <1>0, <1>3, <2>1, StartWrites
  <2> QED BY <1>0, <1>3, <2>2, StartWrites DEF Starts
<1>4. CASE PlansNext
  BY <1>0, <1>4 DEF PlansNext
<1>5. CASE exportMessages
  <2> DEFINE e == Exports[run.step]
             new == {r \in dbRows : r[1] = e[1] /\ r[2] = e[2] /\ InWindow(r, btask[run.id].days)}
             loc == [run.local EXCEPT ![e[1]] = @ \cup new]
  <2>1. run.step \in 1 .. 4 /\ run' = [run EXCEPT !.step = run.step + 1, !.local = loc]
        /\ UNCHANGED <<bclock, dbRows, lateRows, processed, btask, object, timer, drill, stops>>
    BY <1>0, <1>5, BackupFacts DEF exportMessages, BRunTypes
  <2>2. new \in SUBSET BackupRows
    BY <1>0
  <2> HIDE DEF new
  <2>3. loc \in Manifests
    BY <1>0, <2>2 DEF BRunTypes, Manifests
  <2> HIDE DEF loc
  <2>4. run' \in BRunTypes
    <3> DEFINE k == run.step + 1
    <3>1. k \in 0 .. 11 /\ run' = [run EXCEPT !.step = k, !.local = loc]
      BY <2>1
    <3> HIDE DEF k
    <3> QED BY <1>0, <2>3, <3>1 DEF BRunTypes
  <2> QED BY <1>0, <2>1, <2>4
<1>6. CASE PutFile
  <2>1. PICK f \in BackupFiles : object' = [object EXCEPT ![run.id].files[f] = run.local[f]]
    BY <1>6, UploadedFile, BackupFacts DEF PutFile
  <2>2. run.id \in BackupIds /\ run.step \in 1 .. 8
    BY <1>6, BusyRun DEF PutFile
  <2>3. run.local[f] \in FileContents
    BY <1>0, <2>1, BackupFacts DEF BRunTypes
  <2> DEFINE o == [object[run.id] EXCEPT !.files[f] = run.local[f]]
  <2>4. o \in BObjectTypes
    BY <1>0, <2>1, <2>2, <2>3 DEF BObjectTypes
  <2>5. object' = [object EXCEPT ![run.id] = o]
    BY <1>0, <2>1, <2>2 DEF BObjectTypes
  <2> HIDE DEF o
  <2>6. object' \in [BackupIds -> BObjectTypes]
    BY <1>0, <2>2, <2>4, <2>5
  <2>7. run' \in BRunTypes
    BY <1>0, <1>6, <2>2 DEF PutFile, BRunTypes
  <2> QED BY <1>0, <1>6, <2>6, <2>7 DEF PutFile
<1>7. CASE VerifyFile
  <2>1. run.step \in 1 .. 8
    BY <1>7 DEF VerifyFile
  <2>2. run' \in BRunTypes
    BY <1>0, <1>7, <2>1 DEF VerifyFile, BRunTypes
  <2> QED BY <1>0, <1>7, <2>2 DEF VerifyFile
<1>8. CASE PutManifest
  <2> DEFINE o == [object[run.id] EXCEPT !.manifest = run.local]
  <2>1. run.id \in BackupIds
    BY <1>8, BusyRun DEF PutManifest
  <2>2. o \in BObjectTypes
    <3>1. run.local \in Misread
      BY <1>0, BackupFacts DEF BRunTypes
    <3> QED BY <1>0, <2>1, <3>1 DEF BObjectTypes
  <2>3. object' = [object EXCEPT ![run.id] = o]
    BY <1>0, <1>8, <2>1 DEF PutManifest, BObjectTypes
  <2> HIDE DEF o
  <2>4. object' \in [BackupIds -> BObjectTypes]
    BY <1>0, <2>1, <2>2, <2>3
  <2>5. run' \in BRunTypes
    BY <1>0, <1>8 DEF PutManifest, BRunTypes
  <2> QED BY <1>0, <1>8, <2>4, <2>5 DEF PutManifest
<1>9. AfterRun \in Nat \cup {BNone}
  BY <1>0, DayFacts DEF AfterRun
<1>10. ASSUME NEW st \in {"COMPLETED", "FAILED"}, run.id \in BackupIds
       PROVE  [btask EXCEPT ![run.id].status = st] \in [BackupIds -> BTaskTypes]
  BY <1>0, <1>10 DEF BTaskTypes
<1>11. ASSUME NEW ok \in BOOLEAN, CompleteBackup(ok) PROVE BackupTypeInv'
  <2>1. run.id \in BackupIds
    BY <1>11, BusyRun DEF CompleteBackup
  <2>2. btask' \in [BackupIds -> BTaskTypes]
    BY <1>10, <1>11, <2>1 DEF CompleteBackup
  <2>3. run' \in BRunTypes
    BY <1>0, <1>11 DEF CompleteBackup, BRunTypes
  <2> QED BY <1>0, <1>9, <1>11, <2>2, <2>3 DEF CompleteBackup
<1>12. ASSUME NEW ok \in BOOLEAN, BackupFails(ok) PROVE BackupTypeInv'
  <2>1. run.id \in BackupIds
    BY <1>12 DEF BackupFails, BackupInv, RunInv, BackupRunOK
  <2>2. btask' \in [BackupIds -> BTaskTypes]
    BY <1>0, <1>10, <1>12, <2>1 DEF BackupFails
  <2> QED BY <1>0, <1>9, <1>12, <2>2 DEF BackupFails
<1>13. CASE StopBackup
  <2>1. drill' \in BDrillTypes
    BY <1>0, <1>13 DEF StopBackup, BDrillTypes
  <2> QED BY <1>0, <1>13, <2>1, DayFacts DEF StopBackup
<1>14. ASSUME NEW b \in BackupIds, NEW f \in BackupFiles, DamageObject(b, f) PROVE BackupTypeInv'
  <2> DEFINE o == [object[b] EXCEPT !.files[f] = Damaged]
  <2>1. o \in BObjectTypes
    BY <1>0, BackupFacts DEF BObjectTypes
  <2>2. object' = [object EXCEPT ![b] = o]
    BY <1>0, <1>14 DEF DamageObject, BObjectTypes
  <2> HIDE DEF o
  <2>3. object' \in [BackupIds -> BObjectTypes]
    BY <1>0, <2>1, <2>2
  <2> QED BY <1>0, <1>14, <2>3 DEF DamageObject
<1>19. ASSUME NEW b \in BackupIds, DamageManifest(b) PROVE BackupTypeInv'
  <2>1. PICK m \in Misread \cup {Garbage} : object' = [object EXCEPT ![b].manifest = m]
    BY <1>0, <1>19, DamageWrites
  <2>2. object' \in [BackupIds -> BObjectTypes]
    BY <1>0, <2>1 DEF BObjectTypes
  <2> QED BY <1>0, <1>19, <2>2 DEF DamageManifest
<1>20. ASSUME NEW r \in dbRows, MarkProcessed(r) PROVE BackupTypeInv'
  BY <1>0, <1>20 DEF MarkProcessed
<1>15. ASSUME NEW b \in BackupIds, Verify(b) PROVE BackupTypeInv'
  <2>1. b \in Nat
    BY DEF BackupIds
  <2>2. PICK m \in Misread, susp \in BOOLEAN, st \in {"RUNNING", "COMPLETED"} :
           drill' = [of |-> b, sums |-> m, left |-> DOMAIN m, status |-> st, suspect |-> susp]
    BY <1>0, <1>15, VerifyWrites
  <2>3. DOMAIN m \in SUBSET BackupFiles
    BY <2>2, SumsName
  <2>4. drill' \in BDrillTypes
    BY <2>1, <2>2, <2>3 DEF BDrillTypes
  <2> QED BY <1>0, <1>15, <2>4 DEF Verify
<1>16. ASSUME NEW b \in BackupIds, VerifyWithoutManifest(b) PROVE BackupTypeInv'
  <2>1. drill' \in BDrillTypes
    <3>1. NoDrill \in BDrillTypes /\ b \in Nat
      BY DEF NoDrill, BDrillTypes, BackupIds
    <3>2. drill' = [NoDrill EXCEPT !.of = b, !.status = "RUNNING"]
      BY <1>16 DEF VerifyWithoutManifest
    <3> QED BY <3>1, <3>2 DEF BDrillTypes
  <2> QED BY <1>0, <1>16, <2>1 DEF VerifyWithoutManifest
<1>17. ASSUME NEW f \in BackupFiles, VerifyArtifact(f) PROVE BackupTypeInv'
  <2>1. drill' \in BDrillTypes
    BY <1>0, <1>17 DEF VerifyArtifact, BDrillTypes
  <2> QED BY <1>0, <1>17, <2>1 DEF VerifyArtifact
<1>18. CASE UNCHANGED qvars
  BY <1>0, <1>18 DEF qvars
<1> QED BY <1>0, <1>1, <1>2, <1>3, <1>4, <1>5, <1>6, <1>7, <1>8, <1>11, <1>12, <1>13, <1>14, <1>15, <1>16,
      <1>17, <1>18, <1>19, <1>20, BackupStarts DEF BackupNext

\* The steps that write neither rows of tasks nor the export.
Bystanders ==
    \/ Tick \/ PlansNext \/ UNCHANGED qvars
    \/ \E t \in Tables, d \in Days : StoreRow(t, d)
    \/ \E b \in BackupIds, f \in BackupFiles : DamageObject(b, f)
    \/ \E r \in dbRows : MarkProcessed(r)
    \/ \E b \in BackupIds : Verify(b) \/ VerifyWithoutManifest(b) \/ DamageManifest(b)
    \/ \E f \in BackupFiles : VerifyArtifact(f)

LEMMA BystandersKeep == Bystanders => UNCHANGED <<btask, run>>
BY DEF Bystanders, Tick, PlansNext, qvars, StoreRow, MarkProcessed, DamageObject, DamageManifest,
      Verify, VerifyWithoutManifest, VerifyArtifact

\* Every step, sorted.
LEMMA BackupSteps ==
    ASSUME BackupInv, [BackupNext]_qvars
    PROVE  \/ Bystanders \/ exportMessages \/ PutFile \/ VerifyFile \/ PutManifest \/ StopBackup
           \/ \E days, sched : Starts(days, sched)
           \/ \E ok \in BOOLEAN : CompleteBackup(ok) \/ BackupFails(ok)
BY BackupStarts DEF BackupInv, BackupNext, Bystanders

\* The window and the promise of a backup are fixed when it starts, and so are the rows of
\* a day that has ended: what is stored for it afterwards is late.
LEMMA ExpectedKept ==
    ASSUME BackupInv, [BackupNext]_qvars, NEW b \in BackupIds, btask[b].status # "none"
    PROVE  /\ btask'[b].days = btask[b].days /\ btask'[b].had = btask[b].had /\ btask'[b].status # "none"
           /\ Expected(b)' = Expected(b) /\ MovedOut(b) \subseteq MovedOut(b)'
<1>1. btask \in [BackupIds -> BTaskTypes] /\ bclock \in Nat /\ DayOf(bclock) \in Nat
      /\ lateRows \subseteq dbRows /\ dbRows \subseteq BackupRows
  BY DayFacts DEF BackupInv, BackupTypeInv
<1>2. btask'[b].days = btask[b].days /\ btask'[b].had = btask[b].had /\ btask'[b].status # "none"
  <2>1. CASE UNCHANGED btask
    BY <2>1
  <2>2. ASSUME NEW days, NEW sched, Starts(days, sched)
        PROVE  btask'[b] = btask[b]
    <3>1. NewBackup # b
      BY <2>2, StartWrites
    <3> QED BY <1>1, <2>2, <3>1, StartWrites
  <2>3. ASSUME NEW ok \in BOOLEAN, CompleteBackup(ok) \/ BackupFails(ok)
        PROVE  btask'[b].days = btask[b].days /\ btask'[b].had = btask[b].had /\ btask'[b].status # "none"
    <3>1. btask' = btask \/ \E st \in {"COMPLETED", "FAILED"} : btask' = [btask EXCEPT ![run.id].status = st]
      BY <2>3 DEF CompleteBackup, BackupFails
    <3> QED BY <1>1, <3>1 DEF BTaskTypes
  <2> QED BY <2>1, <2>2, <2>3, BackupSteps, BystandersKeep DEF exportMessages, PutFile, VerifyFile,
        PutManifest, StopBackup
<1>3. OneDay(b)' = OneDay(b)
  BY <1>2 DEF OneDay
<1>4. ASSUME UNCHANGED <<dbRows, lateRows>> PROVE Expected(b)' = Expected(b)
  BY <1>2, <1>3, <1>4 DEF Expected
<1>5. ASSUME NEW t \in Tables, NEW d \in Days, StoreRow(t, d) PROVE Expected(b)' = Expected(b)
  <2> DEFINE row == <<t[1], t[2], d>>
  <2>1. /\ dbRows' = dbRows \cup {row} /\ row \notin dbRows /\ d <= DayOf(bclock) /\ d \in Nat
        /\ lateRows' = IF d < DayOf(bclock) THEN lateRows \cup {row} ELSE lateRows
        /\ row[3] = d
    BY <1>5 DEF StoreRow, Days
  <2> HIDE DEF row
  <2>2. CASE d < DayOf(bclock)
    <3>1. dbRows' \ lateRows' = dbRows \ lateRows
      BY <2>1, <2>2
    <3> QED BY <1>2, <1>3, <3>1 DEF Expected
  <2>3. CASE ~(d < DayOf(bclock))
    <3>1. dbRows' \ lateRows' = (dbRows \ lateRows) \cup {row}
      BY <1>1, <2>1, <2>3
    <3>2. ~(OneDay(b) /\ row[3] \in btask[b].days)
      <4> SUFFICES ASSUME OneDay(b) PROVE row[3] \notin btask[b].days
        OBVIOUS
      <4>1. PICK c \in Days : btask[b].days = {c}
        BY DEF OneDay
      <4>2. btask[b].days # AllDays
        BY <4>1, DayFacts
      <4>3. PICK k \in Nat : btask[b].days = {k} /\ k < DayOf(bclock)
        BY <4>2 DEF BackupInv, TasksInv
      <4> QED BY <1>1, <2>1, <2>3, <4>3
    <3> QED BY <1>2, <1>3, <3>1, <3>2 DEF Expected
  <2> QED BY <2>2, <2>3
<1>6. Expected(b)' = Expected(b)
  BY <1>4, <1>5 DEF BackupNext, qvars, Tick, Scheduled, exportMessages, PutFile, VerifyFile, PutManifest,
    StopBackup, Run, runDeviceData, CompleteBackup, BackupFails, Verify, VerifyWithoutManifest,
    DamageObject, DamageManifest, MarkProcessed, VerifyArtifact
<1>7. processed \subseteq processed'
  BY DEF BackupNext, qvars, Tick, StoreRow, Scheduled, exportMessages, PutFile, VerifyFile, PutManifest,
    StopBackup, Run, runDeviceData, CompleteBackup, BackupFails, Verify, VerifyWithoutManifest,
    DamageObject, DamageManifest, MarkProcessed, VerifyArtifact
<1> QED BY <1>2, <1>6, <1>7 DEF MovedOut

\* A backup with a manifest is only changed by damage.
LEMMA ObjectsAge ==
    ASSUME BackupInv, [BackupNext]_qvars, NEW b \in BackupIds,
           object[b].manifest # BNone \/ Bystanders
    PROVE  /\ \/ object'[b].manifest = object[b].manifest
              \/ object[b].manifest \in Manifests /\ Garbled(object'[b].manifest)
           /\ \A f \in BackupFiles : object'[b].files[f] \in {object[b].files[f], Damaged}
<1>1. object \in [BackupIds -> BObjectTypes] /\ run \in BRunTypes
  BY DEF BackupInv, BackupTypeInv
<1>2. CASE UNCHANGED object
  BY <1>2
<1>3. ASSUME NEW c \in BackupIds, NEW g \in BackupFiles, DamageObject(c, g)
      PROVE  /\ object'[b].manifest = object[b].manifest
             /\ \A f \in BackupFiles : object'[b].files[f] \in {object[b].files[f], Damaged}
  <2>1. object' = [object EXCEPT ![c].files[g] = Damaged]
    BY <1>3 DEF DamageObject
  <2> QED BY <1>1, <2>1 DEF BObjectTypes
<1>4. CASE PutFile \/ PutManifest
  <2>1. run.step \in {5, 7, 9}
    BY <1>4 DEF PutFile, PutManifest
  <2>2. run.id \in BackupIds /\ object[run.id].manifest = BNone /\ run' # run
    <3>1. run # BackupIdle
      BY <2>1, BusyRun
    <3>2. run' = [run EXCEPT !.step = run.step + 1]
      BY <1>1, <1>4 DEF PutFile, PutManifest, BRunTypes
    <3>3. run'.step = run.step + 1
      BY <1>1, <3>2 DEF BRunTypes
    <3>4. run' # run
      BY <2>1, <3>3
    <3> QED BY <2>1, <3>1, <3>4 DEF BackupInv, RunInv, BackupRunOK
  <2>3. run.id # b
    BY <2>2, BystandersKeep
  <2>4. object'[b] = object[b]
    BY <1>1, <1>4, <2>2, <2>3 DEF PutFile, PutManifest
  <2> QED BY <2>4
<1>5. ASSUME NEW c \in BackupIds, DamageManifest(c)
      PROVE  /\ \/ object'[b].manifest = object[b].manifest
                \/ object[b].manifest \in Manifests /\ Garbled(object'[b].manifest)
             /\ \A f \in BackupFiles : object'[b].files[f] \in {object[b].files[f], Damaged}
  <2>1. BackupTypeInv
    BY DEF BackupInv
  <2>2. PICK m \in Misread \cup {Garbage} :
           Garbled(m) /\ object' = [object EXCEPT ![c].manifest = m] /\ object[c].manifest \in Manifests
    BY <1>5, <2>1, DamageWrites
  <2>3. object'[b].files = object[b].files
    BY <1>1, <2>2 DEF BObjectTypes
  <2>4. CASE b = c
    <3>1. object'[b].manifest = m
      BY <1>1, <2>2, <2>4 DEF BObjectTypes
    <3> QED BY <2>2, <2>3, <2>4, <3>1
  <2>5. CASE b # c
    BY <1>1, <2>2, <2>5 DEF BObjectTypes
  <2> QED BY <2>4, <2>5
<1> QED BY <1>2, <1>3, <1>4, <1>5 DEF BackupNext, qvars, Tick, StoreRow, Scheduled, exportMessages, VerifyFile,
      StopBackup, Run, runDeviceData, CompleteBackup, BackupFails, Verify, VerifyWithoutManifest,
      MarkProcessed, VerifyArtifact

LEMMA TasksStep ==
    ASSUME BackupInv, [BackupNext]_qvars
    PROVE  TasksInv'
<1>1. bclock \in Nat /\ btask \in [BackupIds -> BTaskTypes]
  BY DEF BackupInv, BackupTypeInv
<1>2. DayOf(bclock) <= DayOf(bclock') /\ DayOf(bclock) \in Nat /\ DayOf(bclock') \in Nat
      /\ dbRows \subseteq dbRows'
  <2>1. bclock' \in {bclock, bclock + 1} /\ dbRows \subseteq dbRows'
    BY DEF BackupNext, qvars, Tick, StoreRow, Scheduled, exportMessages, PutFile, VerifyFile,
      PutManifest, StopBackup, Run, runDeviceData, CompleteBackup, BackupFails, Verify,
      VerifyWithoutManifest, DamageObject, DamageManifest, MarkProcessed, VerifyArtifact
  <2>2. DayOf(bclock) \in Nat /\ DayOf(bclock) <= DayOf(bclock + 1) /\ bclock + 1 \in Nat
        /\ DayOf(bclock + 1) \in Nat
    BY <1>1, DayFacts
  <2> QED BY <2>1, <2>2
<1> SUFFICES ASSUME NEW b \in BackupIds, btask'[b].status # "none"
             PROVE  /\ btask'[b].days = AllDays \/ \E d \in Nat : btask'[b].days = {d} /\ d < DayOf(bclock')
                    /\ \A r \in btask'[b].had : r \in dbRows' /\ r[3] \in btask'[b].days
  BY DEF TasksInv
<1>4. CASE btask[b].status # "none"
  <2>1. btask'[b].days = btask[b].days /\ btask'[b].had = btask[b].had
    BY <1>4, ExpectedKept
  <2> QED BY <1>2, <1>4, <2>1 DEF BackupInv, TasksInv
<1>5. CASE btask[b].status = "none"
  <2>1. ASSUME NEW days, NEW sched, Starts(days, sched)
        PROVE  /\ btask'[b].days = AllDays \/ \E d \in Nat : btask'[b].days = {d} /\ d < DayOf(bclock')
               /\ \A r \in btask'[b].had : r \in dbRows' /\ r[3] \in btask'[b].days
    <3>1. btask'[b] = btask[b] \/ btask'[b] = [status |-> "RUNNING", days |-> days, had |-> Promised(days)]
      BY <1>1, <2>1, StartWrites
    <3>2. UNCHANGED <<bclock, dbRows>> /\ \A r \in Promised(days) : r \in dbRows /\ r[3] \in days
      BY <2>1, StartWrites
    <3>3. btask'[b].days = days /\ btask'[b].had = Promised(days)
      BY <1>5, <3>1
    <3> QED BY <2>1, <3>2, <3>3 DEF Starts
  <2>2. ASSUME NEW ok \in BOOLEAN, CompleteBackup(ok) \/ BackupFails(ok) PROVE btask'[b] = btask[b]
    <3>1. btask' = btask \/ \E st \in {"COMPLETED", "FAILED"} : btask' = [btask EXCEPT ![run.id].status = st]
      BY <2>2 DEF CompleteBackup, BackupFails
    <3>2. run # BackupIdle
      BY <2>2, BusyRun DEF CompleteBackup, BackupFails
    <3>3. btask[run.id].status # "none"
      <4>1. run.step \in 0 .. 11 /\ run.step >= 1
        BY <3>2 DEF BackupInv, BackupTypeInv, BRunTypes, RunInv, BackupRunOK
      <4> QED BY <3>2, <4>1 DEF BackupInv, RunInv, BackupRunOK
    <3> QED BY <1>1, <1>5, <3>1, <3>3
  <2> QED BY <1>5, <2>1, <2>2, BackupSteps, BystandersKeep DEF exportMessages, PutFile, VerifyFile,
        PutManifest, StopBackup
<1> QED BY <1>4, <1>5

LEMMA RunStep ==
    ASSUME BackupInv, [BackupNext]_qvars
    PROVE  RunInv'
<1>1. BackupTypeInv /\ btask \in [BackupIds -> BTaskTypes] /\ object \in [BackupIds -> BObjectTypes]
      /\ run \in BRunTypes /\ run.step \in 0 .. 11 /\ run.local \in Manifests
  BY DEF BackupInv, BackupTypeInv, BRunTypes
<1>2. CASE run = BackupIdle
  <2>1. ASSUME NEW days, NEW sched, Starts(days, sched) PROVE RunInv'
    <3>1. PICK b \in BackupIds : b = NewBackup
      BY <2>1, StartWrites
    <3>2. btask[b].status = "none" /\ run'.id = b /\ run'.step = 1 /\ object' = object
          /\ btask'[b].status = "RUNNING"
      BY <1>1, <2>1, <3>1, StartWrites
    <3>3. object[b].manifest = BNone
      BY <3>2 DEF BackupInv, DoneInv
    <3>4. BackupRunOK(b)'
      BY <3>2, <3>3 DEF BackupRunOK
    <3> QED BY <3>4 DEF RunInv
  <2>2. run.step = 0
    BY <1>2 DEF BackupIdle
  <2>3. run' = run \/ \E days, sched : Starts(days, sched)
    BY <1>2, <2>2, BackupSteps, BystandersKeep DEF exportMessages, PutFile, VerifyFile, PutManifest,
      StopBackup, CompleteBackup, BackupFails
  <2> QED BY <1>2, <2>1, <2>3 DEF RunInv
<1>3. CASE run # BackupIdle
  <2>1. PICK b \in BackupIds : BackupRunOK(b)
    BY <1>3 DEF BackupInv, RunInv
  <2>2. run.id = b /\ run.step \in 1 .. 11 /\ btask[b].status # "none"
    BY <1>1, <2>1 DEF BackupRunOK
  <2>3. Expected(b)' = Expected(b) /\ MovedOut(b) \subseteq MovedOut(b)'
    BY <2>2, ExpectedKept
  <2> SUFFICES BackupRunOK(b)' \/ run' = BackupIdle
    BY DEF RunInv
  <2>4. CASE Bystanders
    <3>1. UNCHANGED <<btask, run>>
      BY <2>4, BystandersKeep
    <3>2. /\ \/ object'[b].manifest = object[b].manifest
             \/ object[b].manifest \in Manifests /\ Garbled(object'[b].manifest)
          /\ \A f \in BackupFiles : object'[b].files[f] \in {object[b].files[f], Damaged}
      BY <2>4, ObjectsAge
    <3>3. object'[b].files["raw"] \in {object[b].files["raw"], Damaged}
          /\ object'[b].files["parsed"] \in {object[b].files["parsed"], Damaged}
      BY <3>2, BackupFacts
    <3>4. /\ run.step <= 9 => object'[b].manifest = BNone
          /\ run.step >= 10 => object'[b].manifest = run.local \/ Garbled(object'[b].manifest)
      <4>1. BNone \notin Manifests
        BY BackupFacts
      <4> QED BY <2>1, <3>2, <4>1 DEF BackupRunOK
    <3>5. \A r \in Expected(b), n \in 1 .. 4 :
             n < run.step /\ Exports[n] = <<r[1], r[2]>> => r \in run.local[r[1]] \cup MovedOut(b)'
      BY <2>1, <2>3 DEF BackupRunOK
    <3> QED BY <2>1, <2>3, <3>1, <3>3, <3>4, <3>5 DEF BackupRunOK
  <2>5. CASE exportMessages
    <3> DEFINE e == Exports[run.step]
               new == {r \in dbRows : r[1] = e[1] /\ r[2] = e[2] /\ InWindow(r, btask[run.id].days)}
    <3>1. run.step \in 1 .. 4 /\ e[1] \in BackupFiles
      BY <2>5, BackupFacts DEF exportMessages, Exports, BackupFiles
    <3>2. run'.id = run.id /\ run'.step = run.step + 1
          /\ run'.local = [run.local EXCEPT ![e[1]] = run.local[e[1]] \cup new]
          /\ UNCHANGED <<btask, object>>
      BY <1>1, <2>5 DEF exportMessages, BRunTypes
    <3>3. \A r \in Expected(b) : r \in dbRows /\ r[1] \in BackupFiles /\ r[3] \in btask[run.id].days
      BY <1>1, <2>2, BackupFacts DEF Expected, BackupInv, TasksInv, BackupTypeInv
    <3>4. ASSUME NEW r \in Expected(b), NEW n \in 1 .. 4, n < run'.step, Exports[n] = <<r[1], r[2]>>
          PROVE  r \in run'.local[r[1]] \cup MovedOut(b)'
      <4>1. ASSUME n = run.step, r \notin MovedOut(b) PROVE r \in run'.local[r[1]]
        <5>1. e[1] = r[1] /\ e[2] = r[2]
          BY <3>4, <4>1
        <5>2. InWindow(r, btask[run.id].days)
          BY <2>2, <3>3, <4>1, DayFacts DEF MovedOut, InWindow, Stamp
        <5>3. r \in new
          BY <3>3, <5>1, <5>2
        <5> HIDE DEF new, e
        <5> QED BY <1>1, <3>1, <3>2, <5>1, <5>3 DEF Manifests
      <4>2. CASE n # run.step
        <5>1. n < run.step
          BY <3>1, <3>2, <3>4, <4>2
        <5>2. r \in run.local[r[1]] \cup MovedOut(b)
          BY <2>1, <3>4, <5>1 DEF BackupRunOK
        <5> HIDE DEF new, e
        <5>3. r \in run.local[r[1]] => r \in run'.local[r[1]]
          BY <1>1, <3>1, <3>2, <3>3 DEF Manifests
        <5> QED BY <2>3, <5>2, <5>3
      <4> QED BY <2>3, <4>1, <4>2
    <3>5. run.step + 1 <= 5 /\ object[b].manifest = BNone /\ btask[b].status = "RUNNING"
      BY <2>1, <3>1 DEF BackupRunOK
    <3> HIDE DEF new, e
    <3> QED BY <2>2, <2>3, <3>1, <3>2, <3>4, <3>5 DEF BackupRunOK
  <2>6. CASE PutFile
    <3>1. run.step \in {5, 7} /\ run' = [run EXCEPT !.step = run.step + 1] /\ UNCHANGED btask
      BY <1>1, <2>6 DEF PutFile, BRunTypes
    <3>2. run'.step = run.step + 1 /\ run'.local = run.local /\ run'.id = b
      BY <1>1, <2>2, <3>1 DEF BRunTypes
    <3>3. /\ run.step = 5 => object'[b].files["raw"] = run.local["raw"]
          /\ run.step = 7 => object'[b].files["parsed"] = run.local["parsed"]
                             /\ object'[b].files["raw"] = object[b].files["raw"]
          /\ object'[b].manifest = object[b].manifest
      <4>1. CASE run.step = 5
        <5>1. object' = [object EXCEPT ![b].files["raw"] = run.local["raw"]]
          BY <2>2, <2>6, <4>1, UploadedFile DEF PutFile
        <5> QED BY <1>1, <4>1, <5>1, BackupFacts DEF BObjectTypes
      <4>2. CASE run.step = 7
        <5>1. object' = [object EXCEPT ![b].files["parsed"] = run.local["parsed"]]
          BY <2>2, <2>6, <4>2, UploadedFile DEF PutFile
        <5> QED BY <1>1, <4>2, <5>1, BackupFacts DEF BObjectTypes
      <4> QED BY <3>1, <4>1, <4>2
    <3>4. \A r \in Expected(b), n \in 1 .. 4 :
             n < run'.step /\ Exports[n] = <<r[1], r[2]>> => r \in run.local[r[1]] \cup MovedOut(b)'
      BY <2>1, <2>3, <3>1, <3>2 DEF BackupRunOK
    <3> QED BY <2>1, <2>3, <3>1, <3>2, <3>3, <3>4 DEF BackupRunOK
  <2>7. CASE VerifyFile
    <3>1. run.step \in {6, 8} /\ run' = [run EXCEPT !.step = run.step + 1] /\ UNCHANGED <<btask, object>>
      BY <1>1, <2>7 DEF VerifyFile, BRunTypes
    <3>2. run'.step = run.step + 1 /\ run'.local = run.local /\ run'.id = b
      BY <1>1, <2>2, <3>1 DEF BRunTypes
    <3>3. \A r \in Expected(b), n \in 1 .. 4 :
             n < run'.step /\ Exports[n] = <<r[1], r[2]>> => r \in run.local[r[1]] \cup MovedOut(b)'
      BY <2>1, <2>3, <3>1, <3>2 DEF BackupRunOK
    <3> QED BY <2>1, <2>3, <3>1, <3>2, <3>3 DEF BackupRunOK
  <2>8. CASE PutManifest
    <3>1. run.step = 9 /\ run' = [run EXCEPT !.step = 10] /\ UNCHANGED btask
          /\ object' = [object EXCEPT ![b].manifest = run.local]
      BY <2>2, <2>8 DEF PutManifest
    <3>2. run'.step = 10 /\ run'.local = run.local /\ run'.id = b
      BY <1>1, <2>2, <3>1 DEF BRunTypes
    <3>3. object'[b].manifest = run.local /\ object'[b].files = object[b].files
      BY <1>1, <3>1 DEF BObjectTypes
    <3>4. \A r \in Expected(b), n \in 1 .. 4 :
             n < run'.step /\ Exports[n] = <<r[1], r[2]>> => r \in run.local[r[1]] \cup MovedOut(b)'
      BY <2>1, <2>3, <3>1, <3>2 DEF BackupRunOK
    <3> QED BY <2>1, <2>3, <3>1, <3>2, <3>3, <3>4 DEF BackupRunOK
  <2>9. ASSUME NEW ok \in BOOLEAN, CompleteBackup(ok), run' # BackupIdle PROVE BackupRunOK(b)'
    <3>1. run.step = 10 /\ run' = [run EXCEPT !.step = 11] /\ UNCHANGED object
          /\ btask' = [btask EXCEPT ![b].status = "COMPLETED"]
      BY <2>2, <2>9 DEF CompleteBackup
    <3>2. run'.step = 11 /\ run'.local = run.local /\ run'.id = b /\ btask'[b].status = "COMPLETED"
      BY <1>1, <2>2, <3>1 DEF BRunTypes, BTaskTypes
    <3>3. \A r \in Expected(b), n \in 1 .. 4 :
             n < run'.step /\ Exports[n] = <<r[1], r[2]>> => r \in run.local[r[1]] \cup MovedOut(b)'
      BY <2>1, <2>3, <3>1, <3>2 DEF BackupRunOK
    <3> QED BY <2>1, <2>3, <3>1, <3>2, <3>3 DEF BackupRunOK
  <2>10. ASSUME NEW days, NEW sched, Starts(days, sched) PROVE FALSE
    BY <1>3, <2>10 DEF Starts, runDeviceData
  <2> QED BY <2>4, <2>5, <2>6, <2>7, <2>8, <2>9, <2>10, BackupSteps DEF StopBackup, BackupFails
<1> QED BY <1>2, <1>3

LEMMA DoneStep ==
    ASSUME BackupInv, [BackupNext]_qvars
    PROVE  DoneInv'
<1>1. btask \in [BackupIds -> BTaskTypes] /\ object \in [BackupIds -> BObjectTypes] /\ run \in BRunTypes
      /\ dbRows \subseteq BackupRows
  BY DEF BackupInv, BackupTypeInv
<1>2. ASSUME NEW b \in BackupIds, btask'[b].status = "none" PROVE object'[b].manifest = BNone
  <2>1. btask[b].status = "none" /\ object[b].manifest = BNone
    BY <1>2, ExpectedKept DEF BackupInv, DoneInv
  <2>2. CASE PutManifest \/ PutFile
    <3>1. run.step \in {5, 7, 9}
      BY <2>2 DEF PutFile, PutManifest
    <3>2. run # BackupIdle
      BY <3>1, BusyRun
    <3>3. run.id \in BackupIds /\ btask[run.id].status = "RUNNING"
      BY <3>1, <3>2 DEF BackupInv, RunInv, BackupRunOK
    <3>4. object'[b] = object[b]
      BY <1>1, <2>1, <2>2, <3>3 DEF PutFile, PutManifest
    <3> QED BY <2>1, <3>4
  <2>3. CASE Bystanders
    BY <2>1, <2>3, ObjectsAge, BackupFacts
  <2>4. ASSUME NEW days, NEW sched, Starts(days, sched) PROVE object' = object
    BY <2>4, StartWrites
  <2> QED BY <2>1, <2>2, <2>3, <2>4, BackupSteps DEF exportMessages, VerifyFile, StopBackup,
        CompleteBackup, BackupFails
<1>3. ASSUME NEW b \in BackupIds, btask'[b].status = "COMPLETED", ~Garbled(object'[b].manifest)
      PROVE  /\ object'[b].manifest \in Manifests
             /\ \A f \in BackupFiles : object'[b].files[f] \in {object'[b].manifest[f], Damaged}
             /\ \A r \in Expected(b)' : r \in object'[b].manifest[r[1]] \cup MovedOut(b)'
  <2>1. CASE btask[b].status = "COMPLETED"
    <3>0. object[b].manifest # BNone
      BY <2>1, BackupFacts DEF BackupInv, DoneInv, Garbled
    <3>3. object'[b].manifest = object[b].manifest
          /\ \A f \in BackupFiles : object'[b].files[f] \in {object[b].files[f], Damaged}
      BY <1>3, <3>0, ObjectsAge
    <3>1. /\ object[b].manifest \in Manifests
          /\ \A f \in BackupFiles : object[b].files[f] \in {object[b].manifest[f], Damaged}
          /\ \A r \in Expected(b) : r \in object[b].manifest[r[1]] \cup MovedOut(b)
      BY <1>3, <2>1, <3>3 DEF BackupInv, DoneInv
    <3>4. Expected(b)' = Expected(b) /\ MovedOut(b) \subseteq MovedOut(b)'
      BY <2>1, ExpectedKept
    <3> QED BY <3>1, <3>3, <3>4
  <2>2. CASE btask[b].status # "COMPLETED"
    <3>1. PICK ok \in BOOLEAN : CompleteBackup(ok)
      <4>1. ASSUME NEW days, NEW sched, Starts(days, sched) PROVE FALSE
        BY <1>1, <1>3, <2>2, <4>1, StartWrites
      <4>2. ASSUME NEW ok \in BOOLEAN, BackupFails(ok) PROVE FALSE
        BY <1>1, <1>3, <2>2, <4>2 DEF BackupFails, BTaskTypes
      <4> QED BY <1>3, <2>2, <4>1, <4>2, BackupSteps, BystandersKeep DEF exportMessages, PutFile,
            VerifyFile, PutManifest, StopBackup
    <3>2. run.step = 10 /\ btask' = [btask EXCEPT ![run.id].status = "COMPLETED"] /\ UNCHANGED object
      BY <3>1 DEF CompleteBackup
    <3>3. run # BackupIdle
      BY <3>2, BusyRun
    <3>4. run.id = b /\ BackupRunOK(b)
      <4>1. PICK c \in BackupIds : BackupRunOK(c)
        BY <3>3 DEF BackupInv, RunInv
      <4>2. run.id = c
        BY <4>1 DEF BackupRunOK
      <4>3. c = b
        BY <1>1, <1>3, <2>2, <3>2, <4>2
      <4> QED BY <4>1, <4>2, <4>3
    <3>5. Expected(b)' = Expected(b) /\ MovedOut(b) \subseteq MovedOut(b)'
      <4>1. btask[b].status # "none"
        BY <3>2, <3>4 DEF BackupRunOK
      <4> QED BY <4>1, ExpectedKept
    <3>6. \A r \in Expected(b) : r \in BackupRows
      <4>1. btask[b].had \in SUBSET BackupRows
        BY <1>1 DEF BTaskTypes
      <4> QED BY <1>1, <4>1 DEF Expected
    <3>7. ASSUME NEW r \in Expected(b) PROVE r \in run.local[r[1]] \cup MovedOut(b)
      <4>1. PICK n \in 1 .. 4 : Exports[n] = <<r[1], r[2]>>
        BY <3>6, BackupFacts
      <4>2. n < run.step
        BY <3>2
      <4> QED BY <3>4, <4>1, <4>2 DEF BackupRunOK
    <3>8. object[b].manifest = run.local /\ run.local \in Manifests
      BY <1>1, <1>3, <3>2, <3>4 DEF BackupRunOK, BRunTypes
    <3>9. \A f \in BackupFiles : object[b].files[f] \in {run.local[f], Damaged}
      BY <3>2, <3>4 DEF BackupRunOK, BackupFiles
    <3> QED BY <3>2, <3>5, <3>7, <3>8, <3>9
  <2> QED BY <2>1, <2>2
<1> QED BY <1>2, <1>3 DEF DoneInv

LEMMA DrillStep ==
    ASSUME BackupInv, [BackupNext]_qvars
    PROVE  DrillInv'
<1>1. drill \in BDrillTypes /\ object \in [BackupIds -> BObjectTypes]
  BY DEF BackupInv, BackupTypeInv
<1>2. CASE UNCHANGED drill
  <2>1. CASE drill.left = {}
    BY <1>2, <2>1 DEF BackupInv, DrillInv, DrillDetectsDamage
  <2>2. CASE drill.left # {}
    <3>1. PICK b \in BackupIds : b = drill.of
      BY <2>2 DEF BackupInv, DrillInv
    <3>2. object[b].manifest # BNone /\ drill.sums \in Misread \ {NoSums}
          /\ (drill.suspect => \E f \in drill.left : object[b].files[f] # drill.sums[f])
      BY <2>2, <3>1 DEF BackupInv, DrillInv
    <3>4. object'[b].manifest # BNone
          /\ \A f \in BackupFiles : object'[b].files[f] \in {object[b].files[f], Damaged}
      BY <3>2, ObjectsAge DEF Garbled
    <3>5. drill.left \subseteq BackupFiles /\ \A f \in BackupFiles : drill.sums[f] # Damaged
      BY <1>1, <3>2, BackupFacts DEF BDrillTypes
    <3>6. drill.suspect => \E f \in drill.left : object'[b].files[f] # drill.sums[f]
      BY <3>2, <3>4, <3>5
    <3>7. DrillDetectsDamage'
      BY <1>2 DEF BackupInv, DrillInv, DrillDetectsDamage
    <3> QED BY <1>2, <3>1, <3>2, <3>4, <3>6, <3>7 DEF DrillInv
  <2> QED BY <2>1, <2>2
<1>3. CASE StopBackup
  <2>1. drill' = drill \/ (drill.status = "RUNNING" /\ drill' = [drill EXCEPT !.left = {}, !.sums = BNone])
    BY <1>3 DEF StopBackup
  <2>2. CASE drill.status = "RUNNING" /\ drill' = [drill EXCEPT !.left = {}, !.sums = BNone]
    <3>1. drill'.left = {} /\ drill'.status = "RUNNING"
      BY <1>1, <2>2 DEF BDrillTypes
    <3> QED BY <3>1 DEF DrillInv, DrillDetectsDamage
  <2> QED BY <1>2, <2>1, <2>2
<1>4. ASSUME NEW b \in BackupIds, Verify(b) PROVE DrillInv'
  <2>1. BackupTypeInv
    BY DEF BackupInv
  <2>2. PICK m \in Misread, susp \in BOOLEAN, st \in {"RUNNING", "COMPLETED"} :
           /\ m = object[b].manifest /\ m # BNone /\ UNCHANGED object
           /\ drill' = [of |-> b, sums |-> m, left |-> DOMAIN m, status |-> st, suspect |-> susp]
           /\ (st = "COMPLETED") = (DOMAIN m = {})
           /\ susp = (Garbled(m) \/ \E f \in BackupFiles : object[b].files[f] # m[f])
    BY <1>4, <2>1, VerifyWrites
  <2>3. drill'.of = b /\ drill'.sums = m /\ drill'.left = DOMAIN m /\ drill'.status = st
        /\ drill'.suspect = susp
    BY <2>2
  <2>4. CASE m = NoSums
    <3>1. drill'.left = {} /\ drill'.sums = NoSums
      BY <2>3, <2>4 DEF NoSums
    <3> QED BY <3>1 DEF DrillInv, DrillDetectsDamage
  <2>5. CASE m # NoSums
    <3>1. DOMAIN m = BackupFiles /\ BackupFiles # {}
      BY <2>5, BackupFacts
    <3>2. \A f \in BackupFiles : object[b].files[f] # WrongSum
      BY <1>1, BackupFacts DEF BObjectTypes
    <3>3. m # Garbage
      BY BackupAssumption
    <3>4. susp => \E f \in BackupFiles : object[b].files[f] # m[f]
      BY <2>2, <2>5, <3>2, <3>3 DEF Garbled
    <3>5. st # "COMPLETED"
      BY <2>2, <3>1
    <3> QED BY <2>2, <2>3, <2>5, <3>1, <3>4, <3>5 DEF DrillInv, DrillDetectsDamage
  <2> QED BY <2>4, <2>5
<1>5. ASSUME NEW b \in BackupIds, VerifyWithoutManifest(b) PROVE DrillInv'
  <2>1. drill' = [NoDrill EXCEPT !.of = b, !.status = "RUNNING"]
    BY <1>5 DEF VerifyWithoutManifest
  <2>2. drill'.left = {} /\ drill'.status = "RUNNING"
    BY <2>1 DEF NoDrill
  <2> QED BY <2>2 DEF DrillInv, DrillDetectsDamage
<1>6. ASSUME NEW f \in BackupFiles, VerifyArtifact(f) PROVE DrillInv'
  <2> DEFINE good == object[drill.of].files[f] = drill.sums[f]
             left == IF good THEN drill.left \ {f} ELSE {}
             st == IF ~good THEN "FAILED" ELSE IF drill.left = {f} THEN "COMPLETED" ELSE drill.status
  <2>1. f \in drill.left /\ drill' = [drill EXCEPT !.left = left, !.status = st] /\ UNCHANGED object
    BY <1>1, <1>6 DEF VerifyArtifact, BDrillTypes
  <2>2. drill'.left = left /\ drill'.status = st /\ drill'.of = drill.of /\ drill'.sums = drill.sums
        /\ drill'.suspect = drill.suspect
    BY <1>1, <2>1 DEF BDrillTypes
  <2>3. drill.of \in BackupIds /\ object[drill.of].manifest # BNone /\ drill.sums \in Misread \ {NoSums}
        /\ (drill.suspect => \E g \in drill.left : object[drill.of].files[g] # drill.sums[g])
        /\ (drill.status = "COMPLETED" => ~drill.suspect)
    BY <2>1 DEF BackupInv, DrillInv, DrillDetectsDamage
  <2>4. CASE ~good
    <3>1. left = {} /\ st = "FAILED"
      BY <2>4
    <3> HIDE DEF left, st, good
    <3> QED BY <2>2, <3>1 DEF DrillInv, DrillDetectsDamage
  <2>5. CASE good
    <3>1. left = drill.left \ {f} /\ (st = "COMPLETED" => drill.left = {f} \/ drill.status = "COMPLETED")
      BY <2>5
    <3>2. drill.suspect => \E g \in left : object[drill.of].files[g] # drill.sums[g]
      BY <2>3, <2>5, <3>1
    <3> HIDE DEF left, st, good
    <3>3. st = "COMPLETED" => ~drill.suspect
      BY <2>3, <3>1, <3>2
    <3> QED BY <2>1, <2>2, <2>3, <3>2, <3>3 DEF DrillInv, DrillDetectsDamage
  <2> QED BY <2>4, <2>5
<1> QED BY <1>2, <1>3, <1>4, <1>5, <1>6 DEF BackupNext, qvars, Tick, StoreRow, Scheduled, exportMessages,
      PutFile, VerifyFile, PutManifest, Run, runDeviceData, CompleteBackup, BackupFails, DamageObject,
      DamageManifest, MarkProcessed

\* dailyDeviceDataScheduler, runDeviceData and the restore drill: for any number of backups
\* and deaths a completed backup of a day is whole and can be read back, and no drill
\* passes a backup that was damaged when it began.
THEOREM BackupsStaySound == BackupSpec => []BackupIsSound
<1>1. BackupInit => BackupInv
  <2> SUFFICES ASSUME BackupInit PROVE BackupInv
    OBVIOUS
  <2>1. BackupIdle \in BRunTypes
    BY DEF BackupIdle, BRunTypes, Manifests
  <2>2. NoDrill \in BDrillTypes /\ NoDrill.left = {} /\ NoDrill.status = "none"
    BY DEF NoDrill, BDrillTypes
  <2>3. [status |-> "none", days |-> {}, had |-> {}] \in BTaskTypes
    BY DEF BTaskTypes
  <2>4. [files |-> NoFiles, manifest |-> BNone] \in BObjectTypes
    BY DEF BObjectTypes, NoFiles
  <2>5. BackupTypeInv
    BY <2>1, <2>2, <2>3, <2>4, DayFacts DEF BackupInit, BackupTypeInv
  <2>6. \A b \in BackupIds : btask[b].status = "none" /\ object[b].manifest = BNone
    BY DEF BackupInit
  <2> QED BY <2>2, <2>5, <2>6 DEF BackupInit, BackupInv, TasksInv, RunInv, DoneInv, DrillInv, DrillDetectsDamage
<1>2. BackupInv /\ [BackupNext]_qvars => BackupInv'
  BY BackupTypeStep, TasksStep, RunStep, DoneStep, DrillStep DEF BackupInv
<1>3. BackupInv => BackupIsSound
  <2> SUFFICES ASSUME BackupInv PROVE BackupIsSound
    OBVIOUS
  <2>1. ASSUME NEW b \in BackupIds, btask[b].status = "COMPLETED", ~Garbled(object[b].manifest)
        PROVE  /\ \A f \in BackupFiles : OpenArtifact(b, f)
               /\ \A f \in BackupFiles : object[b].files[f] \in {object[b].manifest[f], Damaged}
               /\ btask[b].had \ MovedOut(b) \subseteq UNION {object[b].manifest[f] : f \in BackupFiles}
               /\ \A r \in Expected(b) : r \in object[b].manifest[r[1]] \cup MovedOut(b)
    <3>1. /\ object[b].manifest \in Manifests
          /\ \A f \in BackupFiles : object[b].files[f] \in {object[b].manifest[f], Damaged}
          /\ \A r \in Expected(b) : r \in object[b].manifest[r[1]] \cup MovedOut(b)
      BY <2>1 DEF BackupInv, DoneInv
    <3>2. HasManifest(b) /\ DOMAIN object[b].manifest = BackupFiles
          /\ \A f \in BackupFiles : object[b].files[f] # BNone
      BY <3>1, BackupFacts DEF HasManifest, Manifests
    <3>3. \A f \in BackupFiles : OpenArtifact(b, f)
      BY <2>1, <3>2 DEF OpenArtifact, ListArtifacts
    <3>4. \A r \in btask[b].had : r[1] \in BackupFiles /\ r \in object[b].manifest[r[1]] \cup MovedOut(b)
      BY <3>1, BackupFacts DEF Expected, BackupInv, BackupTypeInv, BTaskTypes
    <3> QED BY <3>1, <3>3, <3>4
  <2>2. DailyIsWhole
    BY <2>1 DEF DailyIsWhole, Expected, OneDay, MovedOut
  <2>3. CompletedIsRestorable
    BY <2>1 DEF CompletedIsRestorable
  <2>4. DrillDetectsDamage
    BY DEF BackupInv, DrillInv
  <2> QED BY <2>2, <2>3, <2>4 DEF BackupIsSound
<1> QED BY <1>1, <1>2, <1>3, PTL DEF BackupSpec

=============================================================================
