-------------------------- MODULE RawIngestProofs --------------------------
(***************************************************************************)
(* Raw ingestion gives each identity one meaning, for any number of        *)
(* processes, retry loops, bodies, metadata and failures.                  *)
(*                                                                         *)
(* The argument follows the reservation: it is written once, and from then *)
(* on whatever is stored, indexed, carried by an actor past "reserve" or   *)
(* published under the identity equals it (Canonical, TaskOK).  An actor   *)
(* only reaches the index after its tier holds the message, so an index    *)
(* row always points at a readable copy.                                   *)
(***************************************************************************)
EXTENDS RawIngest, TLAPS

Canonical(i) ==
    /\ pg[i] \in {Nil, reserved[i]}
    /\ ch[i] \subseteq {reserved[i]} \ {Nil}
    /\ topic[i] \subseteq {reserved[i]} \ {Nil}
    /\ topic[i] # {} => index[i] # Nil
    /\ index[i] # Nil => /\ reserved[i] # Nil
                         /\ index[i].body = reserved[i].body
                         /\ Readable(i, reserved[i])
    /\ \A b \in replies[i] : index[i] # Nil /\ b = reserved[i].body

TaskType == [pc : {"idle", "lookup", "reserve", "store", "index",
                   "reread", "readback", "publish", "mark"},
             id : Ids \cup {Nil}, msg : Message \cup {Nil}, tier : Store \cup {Nil}]

TaskOK(a) ==
    /\ ~At(a, "idle") => Id(a) \in Ids
    /\ At(a, "lookup") \/ At(a, "reserve") => Msg(a) \in Message
    /\ At(a, "store") \/ At(a, "index") \/ At(a, "reread") \/ At(a, "publish") \/ At(a, "mark")
         => Msg(a) \in Message /\ Msg(a) = reserved[Id(a)]
    /\ At(a, "index") => task[a].tier \in Store /\ Stored(Id(a), task[a].tier, Msg(a))
    /\ At(a, "reread") \/ At(a, "readback") \/ At(a, "publish") \/ At(a, "mark")
         => index[Id(a)] # Nil

Types == /\ DataTypeOK
         /\ task \in [Actors -> TaskType]
         /\ replies \in [Ids -> SUBSET Bodies]

RawInv == /\ Types
          /\ \A i \in Ids : Canonical(i)
          /\ \A a \in Actors : TaskOK(a)

\* The tables only grow: no step overwrites a reservation or a stored message,
\* or removes an index row.
Grows == \A i \in Ids : /\ reserved[i] # Nil => reserved'[i] = reserved[i]
                        /\ pg[i] # Nil => pg'[i] = pg[i]
                        /\ ch[i] \subseteq ch'[i]
                        /\ index[i] # Nil => index'[i] # Nil

\* Empty tables and idle actors satisfy the invariant.
LEMMA InitRawInv == Init => RawInv
<1> SUFFICES ASSUME Init PROVE RawInv
  OBVIOUS
<1>1. Idle \in TaskType
  BY DEF Idle, TaskType
<1>2. Types
  BY <1>1 DEF Init, Types, DataTypeOK
<1>3. \A i \in Ids : Canonical(i)
  BY DEF Init, Canonical
<1>4. \A a \in Actors : TaskOK(a)
  BY DEF Init, TaskOK, At, Idle
<1> QED
  BY <1>2, <1>3, <1>4 DEF RawInv

\* An actor that does not move stays consistent while the tables grow.
LEMMA StillOK ==
    ASSUME RawInv, NEW a \in Actors, task'[a] = task[a], Grows
    PROVE  TaskOK(a)'
<1>1. TaskOK(a) /\ task[a] \in TaskType
  BY DEF RawInv, Types
<1>2. ~At(a, "idle") => Id(a) \in Ids
  BY <1>1 DEF TaskOK
<1>3. (At(a, "store") \/ At(a, "index") \/ At(a, "reread") \/ At(a, "publish") \/ At(a, "mark"))
        => reserved'[Id(a)] = reserved[Id(a)]
  BY <1>1, RawAssumption DEF Grows, TaskOK, At
<1>4. At(a, "index") => Stored(Id(a), task[a].tier, Msg(a))'
  BY <1>1, RawAssumption DEF Grows, TaskOK, Stored, Id, Msg, At
<1>5. (At(a, "reread") \/ At(a, "readback") \/ At(a, "publish") \/ At(a, "mark"))
        => index'[Id(a)] # Nil
  BY <1>1 DEF Grows, TaskOK, At
<1> QED
  BY <1>1, <1>3, <1>4, <1>5 DEF TaskOK, At, Id, Msg

\* What is left to show for a step of actor a.
LEMMA ActorStep ==
    ASSUME RawInv, NEW a \in Actors, NEW t \in TaskType, task' = [task EXCEPT ![a] = t],
           DataTypeOK', replies' \in [Ids -> SUBSET Bodies], Grows,
           \A i \in Ids : Canonical(i)', TaskOK(a)'
    PROVE  RawInv'
<1>1. task \in [Actors -> TaskType]
  BY DEF RawInv, Types
<1>2. Types'
  BY <1>1 DEF Types
<1>3. \A b \in Actors : TaskOK(b)'
  <2>1. ASSUME NEW b \in Actors, b # a PROVE TaskOK(b)'
    BY <1>1, <2>1, StillOK
  <2> QED
    BY <2>1
<1> QED
  BY <1>2, <1>3 DEF RawInv

\* Reads and control steps: the tables, the topic and the replies stay.
LEMMA ControlStep ==
    ASSUME RawInv, NEW a \in Actors, NEW t \in TaskType, task' = [task EXCEPT ![a] = t],
           UNCHANGED <<reserved, pg, ch, index, topic, replies>>, TaskOK(a)'
    PROVE  RawInv'
<1>1. DataTypeOK' /\ replies' \in [Ids -> SUBSET Bodies]
  BY DEF RawInv, Types, DataTypeOK
<1>2. Grows
  BY DEF Grows
<1>3. \A i \in Ids : Canonical(i)'
  BY DEF RawInv, Canonical, Readable, Stored
<1> QED
  BY <1>1, <1>2, <1>3, ActorStep

\* An actor that stops leaves the tables as they are.
LEMMA IdleStep ==
    ASSUME RawInv, NEW a \in Actors, task' = [task EXCEPT ![a] = Idle],
           UNCHANGED <<reserved, pg, ch, index, topic, replies>>
    PROVE  RawInv'
<1>1. Idle \in TaskType
  BY DEF Idle, TaskType
<1>2. task'[a] = Idle
  BY DEF RawInv, Types
<1>3. TaskOK(a)'
  BY <1>2 DEF TaskOK, At, Idle
<1> QED
  BY <1>1, <1>3, ControlStep

\* A call that returns without error for the canonical message.
LEMMA ReplyStep ==
    ASSUME RawInv, NEW a \in Actors, ReturnOk(a), Id(a) \in Ids, index[Id(a)] # Nil,
           Msg(a) \in Message, Msg(a).body = reserved[Id(a)].body,
           UNCHANGED <<reserved, pg, ch, topic>>,
           index' \in [Ids -> IndexRow \cup {Nil}],
           \A i \in Ids : /\ index[i] = Nil <=> index'[i] = Nil
                          /\ index[i] # Nil => /\ index'[i].store = index[i].store
                                               /\ index'[i].body = index[i].body
    PROVE  RawInv'
<1>1. Types /\ Idle \in TaskType
  BY DEF RawInv, Idle, TaskType
<1>2. task' = [task EXCEPT ![a] = Idle] /\ task'[a] = Idle
  BY <1>1 DEF ReturnOk, Return, Types
<1>3. Msg(a).body \in Bodies
  BY DEF Message
<1>4. replies' \in [Ids -> SUBSET Bodies]
  BY <1>1, <1>3 DEF ReturnOk, Types
<1>5. DataTypeOK'
  BY <1>1 DEF Types, DataTypeOK
<1>6. Grows
  BY DEF Grows
<1>7. \A i \in Ids : \A b \in replies'[i] :
         b \in replies[i] \/ (i = Id(a) /\ b = reserved[i].body)
  BY <1>1 DEF ReturnOk, Types
<1>8. ASSUME NEW i \in Ids PROVE Canonical(i)'
  <2>1. Canonical(i)
    BY DEF RawInv
  <2>2. index'[i] # Nil => Readable(i, reserved[i])'
    BY <2>1 DEF Canonical, Readable, Stored
  <2> QED
    BY <1>7, <2>1, <2>2 DEF Canonical
<1>9. TaskOK(a)'
  BY <1>2 DEF TaskOK, At, Idle
<1> QED
  BY <1>1, <1>2, <1>4, <1>5, <1>6, <1>8, <1>9, ActorStep

\* Reading the index moves an actor and changes no table.
LEMMA LookupKeeps ==
    ASSUME RawInv, NEW a \in Actors, Lookup(a)
    PROVE  RawInv'
<1>1. /\ Types /\ task[a] \in TaskType /\ TaskOK(a) /\ At(a, "lookup")
      /\ Id(a) \in Ids /\ Msg(a) \in Message
  BY DEF RawInv, Types, Lookup, TaskOK, At
<1>2. UNCHANGED <<reserved, pg, ch, index, topic>>
  BY DEF Lookup, dvars
<1>3. CASE task' = [task EXCEPT ![a].pc = "reserve"] /\ replies' = replies
  <2> DEFINE t == [task[a] EXCEPT !.pc = "reserve"]
  <2>1. t \in TaskType /\ task' = [task EXCEPT ![a] = t] /\ task'[a] = t
    BY <1>1, <1>3 DEF TaskType, Types
  <2>2. t.pc = "reserve" /\ t.id = Id(a) /\ t.msg = Msg(a)
    BY <1>1 DEF TaskType, Id, Msg
  <2> HIDE DEF t
  <2>3. TaskOK(a)'
    BY <1>1, <2>1, <2>2 DEF TaskOK, At, Id, Msg
  <2> QED
    BY <1>2, <1>3, <2>1, <2>3, ControlStep
<1>4. CASE index[Id(a)] # Nil /\ Goto(a, "readback", Msg(a)) /\ replies' = replies
  <2> DEFINE t == [task[a] EXCEPT !.pc = "readback", !.msg = Msg(a)]
  <2>1. t \in TaskType /\ task' = [task EXCEPT ![a] = t] /\ task'[a] = t
    BY <1>1, <1>4 DEF TaskType, Types, Goto
  <2>2. t.pc = "readback" /\ t.id = Id(a)
    BY <1>1 DEF TaskType, Id
  <2> HIDE DEF t
  <2>3. TaskOK(a)'
    BY <1>1, <1>2, <1>4, <2>1, <2>2 DEF TaskOK, At, Id, Msg
  <2> QED
    BY <1>2, <1>4, <2>1, <2>3, ControlStep
<1>5. CASE index[Id(a)] # Nil /\ ~Conflicts(a) /\ ReturnOk(a)
  <2>1. Msg(a).body = reserved[Id(a)].body
    BY <1>1, <1>5 DEF RawInv, Canonical, Conflicts
  <2>2. index' \in [Ids -> IndexRow \cup {Nil}]
    BY <1>1, <1>2 DEF Types, DataTypeOK
  <2> QED
    BY <1>1, <1>2, <1>5, <2>1, <2>2, ReplyStep
<1>6. CASE Return(a) /\ replies' = replies
  BY <1>2, <1>6, IdleStep DEF Return
<1>7. Goto(a, "reserve", Msg(a)) => task' = [task EXCEPT ![a].pc = "reserve"]
  <2>1. [task[a] EXCEPT !.pc = "reserve", !.msg = Msg(a)] = [task[a] EXCEPT !.pc = "reserve"]
    BY <1>1 DEF TaskType, Msg
  <2> QED
    BY <1>1, <2>1 DEF Goto
<1> QED
  BY <1>3, <1>4, <1>5, <1>6, <1>7 DEF Lookup

\* A reservation is written once, and an actor goes on with what is reserved.
LEMMA ReserveKeeps ==
    ASSUME RawInv, NEW a \in Actors, Reserve(a)
    PROVE  RawInv'
<1>1. /\ Types /\ task[a] \in TaskType /\ TaskOK(a) /\ At(a, "reserve")
      /\ Id(a) \in Ids /\ Msg(a) \in Message
  BY DEF RawInv, Types, Reserve, TaskOK, At
<1>2. UNCHANGED <<pg, ch, index, topic, replies>>
  BY DEF Reserve
<1>3. CASE Return(a) /\ reserved' = reserved
  BY <1>2, <1>3, IdleStep DEF Return
<1>4. ASSUME NEW m \in Message, Goto(a, "store", m), m = reserved'[Id(a)],
             reserved' \in [Ids -> Message \cup {Nil}],
             \A i \in Ids : reserved[i] # Nil => reserved'[i] = reserved[i]
      PROVE  RawInv'
  <2> DEFINE t == [task[a] EXCEPT !.pc = "store", !.msg = m]
  <2>1. t \in TaskType /\ task' = [task EXCEPT ![a] = t] /\ task'[a] = t
    BY <1>1, <1>4 DEF TaskType, Types, Goto
  <2>2. t.pc = "store" /\ t.id = Id(a) /\ t.msg = m
    BY <1>1 DEF TaskType, Id
  <2> HIDE DEF t
  <2>3. TaskOK(a)'
    BY <1>1, <1>4, <2>1, <2>2 DEF TaskOK, At, Id, Msg
  <2>4. Grows
    BY <1>2, <1>4 DEF Grows
  <2>5. ASSUME NEW i \in Ids PROVE Canonical(i)'
    <3>1. Canonical(i)
      BY DEF RawInv
    <3>2. CASE reserved'[i] = reserved[i]
      BY <1>2, <3>1, <3>2 DEF Canonical, Readable, Stored
    <3>3. CASE reserved[i] = Nil
      <4>1. pg[i] = Nil /\ ch[i] = {} /\ topic[i] = {} /\ index[i] = Nil /\ replies[i] = {}
        BY <3>1, <3>3 DEF Canonical
      <4> QED
        BY <1>2, <4>1 DEF Canonical
    <3> QED
      BY <1>4, <3>2, <3>3
  <2>6. DataTypeOK' /\ replies' \in [Ids -> SUBSET Bodies]
    BY <1>1, <1>2, <1>4 DEF Types, DataTypeOK
  <2> QED
    BY <2>1, <2>3, <2>4, <2>5, <2>6, ActorStep
<1>5. CASE /\ reserved[Id(a)] = Nil
           /\ reserved' = [reserved EXCEPT ![Id(a)] = Msg(a)]
           /\ Goto(a, "store", Msg(a))
  <2>1. /\ Msg(a) = reserved'[Id(a)] /\ reserved' \in [Ids -> Message \cup {Nil}]
        /\ \A i \in Ids : reserved[i] # Nil => reserved'[i] = reserved[i]
    BY <1>1, <1>5 DEF Types, DataTypeOK
  <2> QED
    BY <1>1, <1>4, <1>5, <2>1
<1>6. CASE /\ reserved[Id(a)] # Nil
           /\ Goto(a, "store", reserved[Id(a)])
           /\ reserved' = reserved
  <2>1. reserved[Id(a)] \in Message /\ reserved' \in [Ids -> Message \cup {Nil}]
    BY <1>1, <1>6 DEF Types, DataTypeOK
  <2> QED
    BY <1>4, <1>6, <2>1
<1> QED
  BY <1>3, <1>5, <1>6 DEF Reserve

\* A tier stores what is reserved.
LEMMA PutRawKeeps ==
    ASSUME RawInv, NEW a \in Actors, PutRaw(a)
    PROVE  RawInv'
<1>1. /\ Types /\ task[a] \in TaskType /\ TaskOK(a) /\ At(a, "store")
      /\ Id(a) \in Ids /\ Msg(a) \in Message /\ Msg(a) = reserved[Id(a)]
  BY DEF RawInv, Types, PutRaw, TaskOK, At
<1>2. UNCHANGED <<reserved, index, topic, replies>>
  BY DEF PutRaw
<1>3. PICK s \in Store :
          /\ task' = [task EXCEPT ![a].pc = "index", ![a].tier = s]
          /\ \/ /\ s = "clickhouse"
                /\ ch' = [ch EXCEPT ![Id(a)] = @ \cup {Msg(a)}]
                /\ UNCHANGED pg
             \/ /\ s = "postgres"
                /\ pg' = [pg EXCEPT ![Id(a)] = IF @ = Nil THEN Msg(a) ELSE @]
                /\ UNCHANGED ch
  BY DEF PutRaw
<1> DEFINE t == [task[a] EXCEPT !.pc = "index", !.tier = s]
<1>4. t \in TaskType /\ task' = [task EXCEPT ![a] = t] /\ task'[a] = t
  BY <1>1, <1>3 DEF TaskType, Types
<1>5. t.pc = "index" /\ t.id = Id(a) /\ t.msg = Msg(a) /\ t.tier = s
  BY <1>1 DEF TaskType, Id, Msg
<1> HIDE DEF t
<1>6. Canonical(Id(a)) /\ DataTypeOK
  BY <1>1 DEF RawInv, Types
<1>7. DataTypeOK' /\ replies' \in [Ids -> SUBSET Bodies]
  BY <1>1, <1>2, <1>3 DEF Types, DataTypeOK
<1>8. /\ \A i \in Ids \ {Id(a)} : pg'[i] = pg[i] /\ ch'[i] = ch[i]
      /\ pg[Id(a)] # Nil => pg'[Id(a)] = pg[Id(a)]
      /\ pg'[Id(a)] \in {Nil, reserved[Id(a)]}
      /\ ch[Id(a)] \subseteq ch'[Id(a)]
      /\ ch'[Id(a)] \subseteq {reserved[Id(a)]} \ {Nil}
  BY <1>1, <1>3, <1>6, RawAssumption DEF Canonical, DataTypeOK
<1>9. Stored(Id(a), s, Msg(a))'
  <2>1. CASE s = "clickhouse" /\ ch' = [ch EXCEPT ![Id(a)] = @ \cup {Msg(a)}]
    <3>1. Msg(a) \in ch'[Id(a)]
      BY <1>1, <1>6, <2>1 DEF DataTypeOK
    <3>2. Msg(a)' = Msg(a) /\ Id(a)' = Id(a)
      BY <1>4, <1>5 DEF Msg, Id
    <3> QED
      BY <2>1, <3>1, <3>2 DEF Stored
  <2>2. CASE s = "postgres" /\ pg' = [pg EXCEPT ![Id(a)] = IF @ = Nil THEN Msg(a) ELSE @]
    <3>1. pg'[Id(a)] = Msg(a)
      BY <1>1, <1>6, <2>2 DEF DataTypeOK, Canonical
    <3>2. Msg(a)' = Msg(a) /\ Id(a)' = Id(a)
      BY <1>4, <1>5 DEF Msg, Id
    <3> QED
      BY <2>2, <3>1, <3>2 DEF Stored
  <2> QED
    BY <1>3, <2>1, <2>2
<1>10. TaskOK(a)'
  <2>1. Msg(a)' = Msg(a) /\ Id(a)' = Id(a)
    BY <1>4, <1>5 DEF Msg, Id
  <2> QED
    BY <1>1, <1>2, <1>4, <1>5, <1>9, <2>1 DEF TaskOK, At
<1>11. Grows
  BY <1>2, <1>8 DEF Grows
<1>12. ASSUME NEW i \in Ids PROVE Canonical(i)'
  <2>1. Canonical(i)
    BY DEF RawInv
  <2>2. index[i] # Nil => Readable(i, reserved[i])'
    BY <1>2, <1>8, <2>1 DEF Canonical, Readable, Stored
  <2> QED
    BY <1>2, <1>8, <2>1, <2>2 DEF Canonical
<1> QED
  BY <1>4, <1>7, <1>10, <1>11, <1>12, ActorStep

\* The index row written first points at a tier that holds the message.
LEMMA SaveIndexKeeps ==
    ASSUME RawInv, NEW a \in Actors, SaveIndex(a)
    PROVE  RawInv'
<1>1. /\ Types /\ DataTypeOK /\ task[a] \in TaskType /\ TaskOK(a) /\ At(a, "index")
      /\ Id(a) \in Ids /\ Msg(a) \in Message /\ Msg(a) = reserved[Id(a)]
      /\ task[a].tier \in Store /\ Stored(Id(a), task[a].tier, Msg(a))
  BY DEF RawInv, Types, SaveIndex, TaskOK, At
<1>2. UNCHANGED <<reserved, pg, ch, topic, replies>>
  BY DEF SaveIndex
<1>3. ASSUME NEW pc \in {"publish", "reread"}, Goto(a, pc, Msg(a)), index'[Id(a)] # Nil
      PROVE  \E t \in TaskType : task' = [task EXCEPT ![a] = t] /\ TaskOK(a)'
  <2> DEFINE t == [task[a] EXCEPT !.pc = pc, !.msg = Msg(a)]
  <2>1. t \in TaskType /\ task' = [task EXCEPT ![a] = t] /\ task'[a] = t
    BY <1>1, <1>3 DEF TaskType, Types, Goto
  <2>2. t.pc = pc /\ t.id = Id(a) /\ t.msg = Msg(a)
    BY <1>1 DEF TaskType, Id, Msg
  <2> HIDE DEF t
  <2>3. TaskOK(a)'
    BY <1>1, <1>2, <1>3, <2>1, <2>2 DEF TaskOK, At, Id, Msg
  <2> QED
    BY <2>1, <2>3
<1>4. CASE index[Id(a)] # Nil /\ Goto(a, "reread", Msg(a)) /\ index' = index
  BY <1>2, <1>3, <1>4, ControlStep
<1>5. CASE /\ index[Id(a)] = Nil
           /\ index' = [index EXCEPT ![Id(a)] =
                [store |-> task[a].tier, body |-> Msg(a).body, published |-> FALSE]]
           /\ Goto(a, "publish", Msg(a))
  <2> DEFINE row == [store |-> task[a].tier, body |-> Msg(a).body, published |-> FALSE]
  <2>1. row \in IndexRow
    BY <1>1 DEF IndexRow, Message
  <2>2. index'[Id(a)] = row /\ row # Nil /\ index' \in [Ids -> IndexRow \cup {Nil}]
        /\ \A i \in Ids \ {Id(a)} : index'[i] = index[i]
    BY <1>1, <1>5, <2>1, RawAssumption DEF DataTypeOK
  <2>3. row.store = task[a].tier /\ row.body = reserved[Id(a)].body
    BY <1>1
  <2> HIDE DEF row
  <2>4. DataTypeOK' /\ replies' \in [Ids -> SUBSET Bodies]
    BY <1>1, <1>2, <2>2 DEF Types, DataTypeOK
  <2>5. Grows
    BY <1>2, <2>2 DEF Grows
  <2>6. ASSUME NEW i \in Ids PROVE Canonical(i)'
    <3>1. Canonical(i)
      BY DEF RawInv
    <3>2. CASE i # Id(a)
      BY <1>2, <2>2, <3>1, <3>2 DEF Canonical, Readable, Stored
    <3>3. CASE i = Id(a)
      <4>1. Stored(i, index'[i].store, reserved[i])
        BY <1>1, <2>2, <2>3, <3>3
      <4>2. Readable(i, reserved[i])'
        BY <1>2, <4>1 DEF Readable, Stored
      <4>3. reserved[i] # Nil
        BY <1>1, <3>3, RawAssumption
      <4> QED
        BY <1>2, <2>2, <2>3, <3>1, <3>3, <4>2, <4>3 DEF Canonical
    <3> QED
      BY <3>2, <3>3
  <2>7. \E t \in TaskType : task' = [task EXCEPT ![a] = t] /\ TaskOK(a)'
    BY <1>3, <1>5, <2>2
  <2> QED
    BY <2>4, <2>5, <2>6, <2>7, ActorStep
<1> QED
  BY <1>4, <1>5 DEF SaveIndex

\* Publishing and marking change neither the stored nor the reserved message.
LEMMA PublicationKeeps ==
    ASSUME RawInv, NEW a \in Actors, Reread(a) \/ ReadBack(a) \/ Publish(a) \/ Mark(a)
    PROVE  RawInv'
<1>1. Types /\ DataTypeOK /\ task[a] \in TaskType /\ TaskOK(a)
  BY DEF RawInv, Types
<1>2. Id(a) \in Ids /\ index[Id(a)] # Nil
  BY <1>1 DEF Reread, ReadBack, Publish, Mark, TaskOK, At
<1>3. Canonical(Id(a)) /\ reserved[Id(a)] \in Message
  BY <1>1, <1>2 DEF RawInv, Canonical, DataTypeOK
<1>4. CASE Reread(a)
  <2>1. Msg(a) \in Message /\ Msg(a) = reserved[Id(a)]
    BY <1>1, <1>4 DEF Reread, TaskOK
  <2>2. UNCHANGED <<reserved, pg, ch, index, topic>>
    BY <1>4 DEF Reread, dvars
  <2>3. CASE Return(a) /\ replies' = replies
    BY <2>2, <2>3, IdleStep DEF Return
  <2>4. CASE ReturnOk(a)
    BY <1>1, <1>2, <2>1, <2>2, <2>4, ReplyStep DEF DataTypeOK
  <2> QED
    BY <1>4, <2>3, <2>4 DEF Reread
<1>5. CASE ReadBack(a)
  <2>1. PICK m \in Message : Readable(Id(a), m) /\ Goto(a, "publish", m)
    BY <1>5 DEF ReadBack
  <2>2. m = reserved[Id(a)]
    BY <1>3, <2>1, RawAssumption DEF Canonical, Readable, Stored
  <2>3. UNCHANGED <<reserved, pg, ch, index, topic, replies>>
    BY <1>5 DEF ReadBack, dvars
  <2> DEFINE t == [task[a] EXCEPT !.pc = "publish", !.msg = m]
  <2>4. t \in TaskType /\ task' = [task EXCEPT ![a] = t] /\ task'[a] = t
    BY <1>1, <2>1 DEF TaskType, Types, Goto
  <2>5. t.pc = "publish" /\ t.id = Id(a) /\ t.msg = m
    BY <1>1 DEF TaskType, Id
  <2> HIDE DEF t
  <2>6. TaskOK(a)'
    BY <1>2, <2>2, <2>3, <2>4, <2>5 DEF TaskOK, At, Id, Msg
  <2> QED
    BY <2>3, <2>4, <2>6, ControlStep
<1>6. CASE Publish(a)
  <2>1. Msg(a) \in Message /\ Msg(a) = reserved[Id(a)] /\ At(a, "publish")
    BY <1>1, <1>6 DEF Publish, TaskOK
  <2>2. /\ topic' = [topic EXCEPT ![Id(a)] = @ \cup {Msg(a)}]
        /\ UNCHANGED <<reserved, pg, ch, replies>>
    BY <1>6 DEF Publish
  <2>3. index' = index
    <3>1. [index EXCEPT ![Id(a)].published = index[Id(a)].published] = index
      <4>1. index[Id(a)] \in IndexRow
        BY <1>1, <1>2 DEF DataTypeOK
      <4>2. [index[Id(a)] EXCEPT !.published = index[Id(a)].published] = index[Id(a)]
        BY <4>1 DEF IndexRow
      <4> QED
        BY <1>1, <1>2, <4>2 DEF DataTypeOK
    <3>2. MarkRawPublished(Id(a), TRUE)
            => index' = [index EXCEPT ![Id(a)].published = index[Id(a)].published]
      BY Zenon DEF MarkRawPublished
    <3>3. index' = index \/ MarkRawPublished(Id(a), TRUE)
      BY <1>6 DEF Publish
    <3> QED
      BY <3>1, <3>2, <3>3
  <2>4. DataTypeOK' /\ replies' \in [Ids -> SUBSET Bodies]
    BY <1>1, <1>2, <2>1, <2>2, <2>3 DEF Types, DataTypeOK
  <2>5. Grows
    BY <2>2, <2>3 DEF Grows
  <2>6. ASSUME NEW i \in Ids PROVE Canonical(i)'
    <3>1. Canonical(i)
      BY DEF RawInv
    <3>2. /\ topic'[i] \subseteq {reserved[i]} \ {Nil}
          /\ topic'[i] # {} => index[i] # Nil
      BY <1>1, <1>2, <2>1, <2>2, <3>1, RawAssumption DEF Canonical, DataTypeOK
    <3>3. index[i] # Nil => Readable(i, reserved[i])'
      BY <2>2, <2>3, <3>1 DEF Canonical, Readable, Stored
    <3> QED
      BY <2>2, <2>3, <3>1, <3>2, <3>3 DEF Canonical
  <2>7. CASE Goto(a, "mark", Msg(a))
    <3> DEFINE t == [task[a] EXCEPT !.pc = "mark", !.msg = Msg(a)]
    <3>1. t \in TaskType /\ task' = [task EXCEPT ![a] = t] /\ task'[a] = t
      BY <1>1, <2>1, <2>7 DEF TaskType, Types, Goto
    <3>2. t.pc = "mark" /\ t.id = Id(a) /\ t.msg = Msg(a)
      BY <1>1 DEF TaskType, Id, Msg
    <3> HIDE DEF t
    <3>3. TaskOK(a)'
      BY <1>2, <2>1, <2>2, <2>3, <3>1, <3>2 DEF TaskOK, At, Id, Msg
    <3> QED
      BY <2>4, <2>5, <2>6, <3>1, <3>3, ActorStep
  <2>8. CASE task' = [task EXCEPT ![a] = Idle]
    <3>1. Idle \in TaskType /\ task'[a] = Idle
      BY <1>1, <2>8 DEF Idle, TaskType, Types
    <3>2. TaskOK(a)'
      BY <3>1 DEF TaskOK, At, Idle
    <3> QED
      BY <2>4, <2>5, <2>6, <2>8, <3>1, <3>2, ActorStep
  <2> QED
    BY <1>6, <2>7, <2>8 DEF Publish
<1>7. CASE Mark(a)
  <2>1. Msg(a) \in Message /\ Msg(a) = reserved[Id(a)]
    BY <1>1, <1>7 DEF Mark, TaskOK
  <2>2. index' = [index EXCEPT ![Id(a)].published = TRUE]
        /\ ReturnOk(a) /\ UNCHANGED <<reserved, pg, ch, topic>>
    BY <1>7 DEF Mark, MarkRawPublished
  <2>3. index[Id(a)] \in IndexRow
    BY <1>1, <1>2 DEF DataTypeOK
  <2> DEFINE row == [index[Id(a)] EXCEPT !.published = TRUE]
  <2>4. row \in IndexRow /\ row.store = index[Id(a)].store /\ row.body = index[Id(a)].body
    BY <2>3 DEF IndexRow
  <2>5. index' = [index EXCEPT ![Id(a)] = row]
    BY <2>2
  <2> HIDE DEF row
  <2>6. index' \in [Ids -> IndexRow \cup {Nil}]
    BY <1>1, <2>4, <2>5 DEF DataTypeOK
  <2>7. \A i \in Ids : /\ index[i] = Nil <=> index'[i] = Nil
                       /\ index[i] # Nil => /\ index'[i].store = index[i].store
                                            /\ index'[i].body = index[i].body
    BY <1>1, <1>2, <2>4, <2>5, RawAssumption DEF DataTypeOK
  <2> QED
    BY <1>2, <2>1, <2>2, <2>6, <2>7, ReplyStep
<1> QED
  BY <1>4, <1>5, <1>6, <1>7

\* A step of IngestRaw, of a retry loop or of a failing process keeps RawInv.
LEMMA NextRawInv == RawInv /\ [Next]_vars => RawInv'
<1> SUFFICES ASSUME RawInv, [Next]_vars PROVE RawInv'
  OBVIOUS
<1>1. ASSUME NEW a \in Actors, NEW t \in TaskType, task' = [task EXCEPT ![a] = t],
             UNCHANGED <<dvars, topic, replies>>, t.id \in Ids,
             \/ t.pc = "lookup" /\ t.msg \in Message
             \/ t.pc = "readback" /\ index[t.id] # Nil
      PROVE  RawInv'
  <2>1. task'[a] = t
    BY <1>1 DEF RawInv, Types
  <2>2. UNCHANGED <<reserved, pg, ch, index, topic, replies>>
    BY <1>1 DEF dvars
  <2>3. TaskOK(a)'
    BY <1>1, <2>1, <2>2 DEF TaskOK, At, Id, Msg
  <2> QED
    BY <1>1, <2>2, <2>3, ControlStep
<1>2. ASSUME NEW a \in Callers, NEW i \in Ids, NEW m \in Message, Receive(a, i, m)
      PROVE  RawInv'
  <2> DEFINE t == [Idle EXCEPT !.pc = "lookup", !.id = i, !.msg = m]
  <2>1. t \in TaskType /\ t.id \in Ids /\ t.pc = "lookup" /\ t.msg \in Message
    BY DEF Idle, TaskType
  <2>2. task' = [task EXCEPT ![a] = t] /\ UNCHANGED <<dvars, topic, replies>>
    BY <1>2 DEF Receive
  <2> HIDE DEF t
  <2> QED
    BY <1>1, <2>1, <2>2 DEF Actors
<1>3. ASSUME NEW a \in Retriers, NEW i \in Ids, RetryPending(a, i)
      PROVE  RawInv'
  <2> DEFINE t == [Idle EXCEPT !.pc = "readback", !.id = i]
  <2>1. t \in TaskType /\ t.id = i /\ t.pc = "readback"
    BY DEF Idle, TaskType
  <2>2. task' = [task EXCEPT ![a] = t] /\ UNCHANGED <<dvars, topic, replies>> /\ index[i] # Nil
    BY <1>3 DEF RetryPending
  <2> HIDE DEF t
  <2> QED
    BY <1>1, <2>1, <2>2 DEF Actors
<1>4. ASSUME NEW a \in Actors, Step(a) PROVE RawInv'
  BY <1>4, LookupKeeps, ReserveKeeps, PutRawKeeps, SaveIndexKeeps, PublicationKeeps DEF Step
<1>5. ASSUME NEW a \in Actors, Abandon(a) PROVE RawInv'
  BY <1>5, IdleStep DEF Abandon, Fails, dvars
<1>6. CASE UNCHANGED vars
  <2>1. UNCHANGED <<reserved, pg, ch, index, topic, task, replies>>
    BY <1>6 DEF vars, dvars
  <2>2. Types'
    BY <2>1 DEF RawInv, Types, DataTypeOK
  <2>3. \A i \in Ids : Canonical(i)'
    BY <2>1 DEF RawInv, Canonical, Readable, Stored
  <2>4. \A a \in Actors : TaskOK(a)'
    BY <2>1 DEF RawInv, TaskOK, At, Id, Msg, Stored
  <2> QED
    BY <2>2, <2>3, <2>4 DEF RawInv
<1> QED
  BY <1>2, <1>3, <1>4, <1>5, <1>6 DEF Next

\* The invariant implies the two safety properties.
LEMMA RawInvImplies == RawInv => OneMeaning /\ RepliesAreArchived
<1> SUFFICES ASSUME RawInv PROVE OneMeaning /\ RepliesAreArchived
  OBVIOUS
<1>1. OneMeaning
  BY DEF RawInv, Canonical, OneMeaning
<1>2. ASSUME NEW i \in Ids, NEW b \in replies[i]
      PROVE  /\ index[i] # Nil
             /\ index[i].body = b
             /\ \E m \in Message : m.body = b /\ Readable(i, m)
  <2>1. index[i] # Nil /\ index[i].body = b /\ reserved[i].body = b /\ Readable(i, reserved[i])
    BY <1>2 DEF RawInv, Canonical
  <2>2. reserved[i] \in Message
    BY <1>2, <2>1 DEF RawInv, Types, DataTypeOK, Canonical
  <2> QED
    BY <2>1, <2>2
<1> QED
  BY <1>1, <1>2 DEF RepliesAreArchived

\* Every copy of a message that reaches the parsers is the one first reserved.
THEOREM RawHasOneMeaning == Safety => []OneMeaning
  BY InitRawInv, NextRawInv, RawInvImplies, PTL DEF Safety

\* A success reply of IngestRaw is backed by an index row and a readable copy.
THEOREM RawRepliesAreArchived == Safety => []RepliesAreArchived
  BY InitRawInv, NextRawInv, RawInvImplies, PTL DEF Safety

\* Both together with the shape of the tables, as the runs check them.
THEOREM RawAnswersAreHonest == Safety => []AnswersAreHonest
<1>1. RawInv => AnswersAreHonest
  BY RawInvImplies DEF RawInv, Types, TaskType, TypeOK, AnswersAreHonest
<1> QED
  BY <1>1, InitRawInv, NextRawInv, PTL DEF Safety

\* The abstract archive as a state function of the tables.
Arch == [i \in Ids |-> IF index[i] = Nil THEN Nil ELSE reserved[i]]

\* Steps other than SaveRawIndex, MarkRawPublished and Bus.Publish change
\* neither the index nor the topic, and no reservation behind an index row.
LEMMA QuietStep ==
    ASSUME RawInv, UNCHANGED <<index, topic>>,
           \A i \in Ids : index[i] # Nil => reserved'[i] = reserved[i]
    PROVE  UNCHANGED <<Arch, topic>>
  BY DEF Arch

\* Every step of ingestion is a step of the archive or a stutter.
LEMMA StepOfArchive ==
    ASSUME RawInv, [Next]_vars
    PROVE  \/ UNCHANGED <<Arch, topic>>
           \/ \E i \in Ids : /\ Arch[i] = Nil
                             /\ reserved[i] \in Message
                             /\ Arch' = [Arch EXCEPT ![i] = reserved[i]]
                             /\ UNCHANGED topic
           \/ \E i \in Ids : /\ Arch[i] # Nil
                             /\ topic' = [topic EXCEPT ![i] = @ \cup {Arch[i]}]
                             /\ UNCHANGED Arch
<1>1. Types /\ DataTypeOK /\ \A i \in Ids : Canonical(i)
  BY DEF RawInv, Types
<1>2. ASSUME NEW a \in Callers, NEW i \in Ids, NEW m \in Message, Receive(a, i, m)
      PROVE  UNCHANGED <<Arch, topic>>
  BY <1>2, QuietStep DEF Receive, dvars
<1>3. ASSUME NEW a \in Retriers, NEW i \in Ids, RetryPending(a, i)
      PROVE  UNCHANGED <<Arch, topic>>
  BY <1>3, QuietStep DEF RetryPending, dvars
<1>4. ASSUME NEW a \in Actors, Lookup(a) \/ Reread(a) \/ ReadBack(a) \/ Abandon(a)
      PROVE  UNCHANGED <<Arch, topic>>
  BY <1>4, QuietStep DEF Lookup, Reread, ReadBack, Abandon, Fails, dvars
<1>5. ASSUME NEW a \in Actors, PutRaw(a) PROVE UNCHANGED <<Arch, topic>>
  BY <1>5, QuietStep DEF PutRaw
<1>6. ASSUME NEW a \in Actors, Reserve(a) PROVE UNCHANGED <<Arch, topic>>
  <2>1. \A i \in Ids : reserved[i] # Nil => reserved'[i] = reserved[i]
    BY <1>1, <1>6 DEF Reserve, DataTypeOK
  <2>2. \A i \in Ids : index[i] # Nil => reserved'[i] = reserved[i]
    BY <1>1, <2>1 DEF Canonical
  <2> QED
    BY <1>6, <2>2, QuietStep DEF Reserve
<1>7. ASSUME NEW a \in Actors, SaveIndex(a)
      PROVE  \/ UNCHANGED <<Arch, topic>>
             \/ \E i \in Ids : /\ Arch[i] = Nil
                               /\ reserved[i] \in Message
                               /\ Arch' = [Arch EXCEPT ![i] = reserved[i]]
                               /\ UNCHANGED topic
  <2>1. UNCHANGED <<reserved, topic>>
    BY <1>7 DEF SaveIndex
  <2>2. /\ TaskOK(a) /\ Id(a) \in Ids /\ Msg(a) \in Message /\ Msg(a) = reserved[Id(a)]
        /\ task[a].tier \in Store
    BY <1>7 DEF RawInv, TaskOK, SaveIndex, At
  <2>3. CASE index' = index
    BY <2>1, <2>3, QuietStep
  <2>4. CASE /\ index[Id(a)] = Nil
             /\ index' = [index EXCEPT ![Id(a)] =
                  [store |-> task[a].tier, body |-> Msg(a).body, published |-> FALSE]]
    <3>1. [store |-> task[a].tier, body |-> Msg(a).body, published |-> FALSE] # Nil
      <4>1. Msg(a).body \in Bodies
        BY <2>2 DEF Message
      <4>2. [store |-> task[a].tier, body |-> Msg(a).body, published |-> FALSE] \in IndexRow
        BY <2>2, <4>1 DEF IndexRow
      <4> QED
        BY <4>2, RawAssumption
    <3>2. index'[Id(a)] # Nil /\ \A i \in Ids \ {Id(a)} : index'[i] = index[i]
      BY <1>1, <2>2, <2>4, <3>1 DEF DataTypeOK
    <3>3. Arch[Id(a)] = Nil /\ Arch' = [Arch EXCEPT ![Id(a)] = reserved[Id(a)]]
      BY <2>1, <2>2, <2>4, <3>2 DEF Arch
    <3> QED
      BY <2>1, <2>2, <3>3
  <2> QED
    BY <1>7, <2>3, <2>4 DEF SaveIndex
<1>8. ASSUME NEW a \in Actors, Publish(a) \/ Mark(a), Id(a) \in Ids, index[Id(a)] # Nil
      PROVE  UNCHANGED Arch
  <2>1. index[Id(a)] \in IndexRow /\ reserved' = reserved
    BY <1>1, <1>8 DEF DataTypeOK, Publish, Mark
  <2>2. \A v \in BOOLEAN : [index[Id(a)] EXCEPT !.published = v] # Nil
    BY <2>1, RawAssumption DEF IndexRow
  <2>3. index' = index \/ \E v \in BOOLEAN : index' = [index EXCEPT ![Id(a)].published = v]
    <3>1. index[Id(a)].published \in BOOLEAN
      BY <2>1 DEF IndexRow
    <3>2. \A f \in BOOLEAN : MarkRawPublished(Id(a), f) =>
             index' = [index EXCEPT ![Id(a)].published =
                          IF f THEN index[Id(a)].published ELSE TRUE]
      BY Zenon DEF MarkRawPublished
    <3>3. index' = index \/ \E f \in BOOLEAN : MarkRawPublished(Id(a), f)
      BY <1>8 DEF Publish, Mark
    <3> QED
      BY <3>1, <3>2, <3>3
  <2>4. \A i \in Ids : index'[i] = Nil <=> index[i] = Nil
    BY <1>1, <1>8, <2>2, <2>3 DEF DataTypeOK
  <2> QED
    BY <2>1, <2>4 DEF Arch
<1>9. ASSUME NEW a \in Actors, Publish(a)
      PROVE  \E i \in Ids : /\ Arch[i] # Nil
                            /\ topic' = [topic EXCEPT ![i] = @ \cup {Arch[i]}]
                            /\ UNCHANGED Arch
  <2>1. Id(a) \in Ids /\ index[Id(a)] # Nil /\ Msg(a) = reserved[Id(a)] /\ Msg(a) \in Message
    BY <1>9 DEF RawInv, TaskOK, Publish, At
  <2>2. Arch[Id(a)] = Msg(a) /\ Arch[Id(a)] # Nil
    BY <2>1, RawAssumption DEF Arch
  <2> QED
    BY <1>8, <1>9, <2>1, <2>2 DEF Publish
<1>10. ASSUME NEW a \in Actors, Mark(a) PROVE UNCHANGED <<Arch, topic>>
  <2>1. Id(a) \in Ids /\ index[Id(a)] # Nil
    BY <1>10 DEF RawInv, TaskOK, Mark, At
  <2> QED
    BY <1>8, <1>10, <2>1 DEF Mark
<1>11. CASE UNCHANGED vars
  BY <1>11, QuietStep DEF vars, dvars
<1> QED
  BY <1>2, <1>3, <1>4, <1>5, <1>6, <1>7, <1>9, <1>10, <1>11 DEF Next, Step

\* IngestRaw, its concurrent retries and its failures implement the archive that
\* keeps one content per identity and emits only that.
THEOREM RawImplementsArchive == Safety => RefinesArchive
<1>1. Init => Archived!AInit
  BY DEF Init, Archived!AInit
<1>2. ASSUME RawInv, [Next]_vars PROVE [Archived!ANext]_(Archived!avars)
  BY <1>2, StepOfArchive
      DEF Arch, Archived!ANext, Archived!Archive, Archived!Emit, Archived!avars
<1> QED
  BY <1>1, <1>2, InitRawInv, NextRawInv, PTL DEF Safety, RefinesArchive, Archived!ASpec

\* MarkRawPublished touches one flag of one row, and never clears it.
LEMMA MarkKeepsRow ==
    ASSUME Types, NEW j \in Ids, index[j] # Nil, NEW f \in BOOLEAN, MarkRawPublished(j, f),
           NEW i \in Ids, index[i] # Nil
    PROVE  /\ index'[i] # Nil
           /\ index'[i].store = index[i].store /\ index'[i].body = index[i].body
           /\ index[i].published => index'[i].published
<1>1. index \in [Ids -> IndexRow \cup {Nil}] /\ index[j] \in IndexRow
  BY DEF Types, DataTypeOK
<1>2. index' = [index EXCEPT ![j].published = IF f THEN index[j].published ELSE TRUE]
  BY Zenon DEF MarkRawPublished
<1>3. PICK v \in BOOLEAN : /\ index' = [index EXCEPT ![j].published = v]
                           /\ index[j].published => v
  <2>1. CASE f
    BY <1>1, <1>2, <2>1 DEF IndexRow
  <2>2. CASE ~f
    BY <1>2, <2>2
  <2> QED BY <2>1, <2>2
<1> DEFINE row == [index[j] EXCEPT !.published = v]
<1>4. row \in IndexRow /\ row.store = index[j].store /\ row.body = index[j].body /\ row.published = v
  BY <1>1 DEF IndexRow
<1>5. index' = [index EXCEPT ![j] = row]
  BY <1>1, <1>3
<1> HIDE DEF row
<1>6. CASE i = j
  <2>1. index'[i] = row
    BY <1>1, <1>5, <1>6
  <2> QED BY <1>3, <1>4, <1>6, <2>1, RawAssumption
<1>7. CASE i # j
  <2>1. index'[i] = index[i]
    BY <1>1, <1>5, <1>7
  <2> QED BY <2>1
<1> QED BY <1>6, <1>7

\* An index row keeps its tier and its body, and a message once marked published
\* stays so, whatever a slower attempt that failed records after it.
THEOREM PublishedStaysPublished == Safety => PublishedSticks
<1> DEFINE A == \A i \in Ids : index[i] # Nil =>
                  /\ index'[i] # Nil
                  /\ index'[i].store = index[i].store /\ index'[i].body = index[i].body
                  /\ index[i].published => index'[i].published
<1>1. ASSUME RawInv, [Next]_vars PROVE A
  <2>0. Types /\ DataTypeOK /\ index \in [Ids -> IndexRow \cup {Nil}]
    BY <1>1 DEF RawInv, Types, DataTypeOK
  <2>1. CASE index' = index
    BY <2>1
  <2>2. ASSUME NEW a \in Actors, SaveIndex(a) PROVE A
    <3>1. Id(a) \in Ids
      BY <1>1, <2>2 DEF RawInv, TaskOK, SaveIndex, At
    <3> QED BY <2>0, <2>1, <2>2, <3>1 DEF SaveIndex
  <2>3. ASSUME NEW a \in Actors, Publish(a) \/ Mark(a) PROVE A
    <3>1. Id(a) \in Ids /\ index[Id(a)] # Nil
      BY <1>1, <2>3 DEF RawInv, TaskOK, Publish, Mark, At
    <3>2. index' = index \/ \E f \in BOOLEAN : MarkRawPublished(Id(a), f)
      BY <2>3 DEF Publish, Mark
    <3> QED BY <2>0, <2>1, <3>1, <3>2, MarkKeepsRow
  <2>4. ASSUME NEW a \in Actors,
               Lookup(a) \/ Reserve(a) \/ PutRaw(a) \/ Reread(a) \/ ReadBack(a) \/ Abandon(a)
        PROVE  index' = index
    BY <2>4 DEF Lookup, Reserve, PutRaw, Reread, ReadBack, Abandon, Fails, dvars
  <2>5. ASSUME NEW a \in Actors, NEW i \in Ids,
               (\E m \in Message : Receive(a, i, m)) \/ RetryPending(a, i)
        PROVE  index' = index
    BY <2>5 DEF Receive, RetryPending, dvars
  <2>6. CASE UNCHANGED vars
    BY <2>6, <2>1 DEF vars, dvars
  <2>7. Callers \subseteq Actors /\ Retriers \subseteq Actors
    BY DEF Actors
  <2> QED BY <1>1, <2>1, <2>2, <2>3, <2>4, <2>5, <2>6, <2>7 DEF Next, Step
<1>2. RawInv /\ [Next]_vars => [A]_vars
  BY <1>1
<1> QED
  BY <1>2, InitRawInv, NextRawInv, PTL DEF Safety, PublishedSticks

=============================================================================
