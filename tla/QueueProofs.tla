---------------------------- MODULE QueueProofs ----------------------------
(***************************************************************************)
(* What the receive queue and the receiver that uses it guarantee whatever *)
(* the number of messages, publications, faults and troubles, the limits   *)
(* and the contents.                                                       *)
(*                                                                         *)
(* The queue: the inductive invariant adds to its two properties that the  *)
(* visible directory is always one of the states a power loss may leave    *)
(* behind. That fact carries the argument for PutWritten: put saw no file  *)
(* under any name, so nothing is owed for the identity it is about to      *)
(* write. The receiver: an acknowledged, unhandled message is one the      *)
(* queue still owes (Promise), and the worker is never about to remove the *)
(* file of such a message.                                                 *)
(***************************************************************************)
EXTENDS MqttInbox, TLAPS, FiniteSetTheorems


\* A state of one identity's files is sound when at most one of its names holds
\* a file and what is owed is still there.
Holds(img, o) == o # NoFile => \E s \in Suffix : img[s] \in {o, Damaged}

Sound(img, o) == Single(img) /\ Holds(img, o)

VisibleIsPossible == \A i \in Ids : dir[i] \in images[i]

PossibleIsSound == \A i \in Ids : \A img \in images[i] : Sound(img, owed[i])

IInv == DiskTypeOK /\ VisibleIsPossible /\ PossibleIsSound

\* The invariant implies what the runs check.
LEMMA IInvImplies == IInv => OneNamePerIdentity /\ AcceptedSurvives
<1> SUFFICES ASSUME IInv PROVE OneNamePerIdentity /\ AcceptedSurvives
  OBVIOUS
<1>1. OneNamePerIdentity
  BY DEF IInv, VisibleIsPossible, PossibleIsSound, OneNamePerIdentity, Sound
<1>2. AcceptedSurvives
  BY DEF IInv, PossibleIsSound, AcceptedSurvives, Sound, Holds
<1> QED
  BY <1>1, <1>2

\* Moving the only file of an identity to another of its names loses nothing.
LEMMA RenameIsSound ==
    ASSUME NEW i \in Ids, NEW from \in Suffix, NEW to \in Suffix, from # to,
           dir \in [Ids -> [Suffix -> Content]],
           NEW o, Sound(dir[i], o), Exists(i, from)
    PROVE  Renamed(i, from, to) \in [Suffix -> Content] /\ Sound(Renamed(i, from, to), o)
  BY QueueAssumption DEF Sound, Single, Holds, Renamed, Exists, Suffix, Content

\* After a flush the visible state is the only one left, so it alone must be
\* sound for what is owed now.
LEMMA FlushKeeps ==
    ASSUME Flushed,
           dir' \in [Ids -> [Suffix -> Content]],
           owed' \in [Ids -> Record \cup {NoFile}],
           \A j \in Ids : Sound(dir'[j], owed'[j])
    PROVE  IInv'
<1>1. \A j \in Ids : images'[j] = {dir'[j]}
  BY DEF Flushed
<1>2. images' \in [Ids -> SUBSET [Suffix -> Content]]
  BY DEF Flushed
<1> QED
  BY <1>1, <1>2 DEF IInv, DiskTypeOK, VisibleIsPossible, PossibleIsSound

\* Without the flush the old possibilities stay, so they must be sound too.
LEMMA MissedFlushKeeps ==
    ASSUME IInv, Unflushed,
           dir' \in [Ids -> [Suffix -> Content]],
           owed' \in [Ids -> Record \cup {NoFile}],
           \A j \in Ids : Sound(dir'[j], owed'[j]),
           \A j \in Ids : \A img \in images[j] : Sound(img, owed'[j])
    PROVE  IInv'
<1>1. \A j \in Ids : images'[j] = images[j] \cup {dir'[j]}
  BY DEF Unflushed
<1>2. images' \in [Ids -> SUBSET [Suffix -> Content]]
  BY DEF IInv, DiskTypeOK, Unflushed
<1> QED
  BY <1>1, <1>2 DEF IInv, DiskTypeOK, VisibleIsPossible, PossibleIsSound

\* A rename that keeps what is owed, with or without its flush, is safe: this is
\* Next's quarantine, Reject and each move of RetryRejected.
LEMMA RenamesKeep ==
    ASSUME IInv, Flushed \/ Unflushed, owed' = owed,
           dir' \in [Ids -> [Suffix -> Content]],
           \A j \in Ids : Sound(dir'[j], owed[j])
    PROVE  IInv'
<1>1. owed' \in [Ids -> Record \cup {NoFile}]
  BY DEF IInv, DiskTypeOK
<1>2. CASE Flushed
  BY <1>1, <1>2, FlushKeeps
<1>3. CASE Unflushed
  <2>1. \A j \in Ids : \A img \in images[j] : Sound(img, owed'[j])
    BY DEF IInv, PossibleIsSound
  <2> QED
    BY <1>1, <1>3, <2>1, MissedFlushKeeps
<1> QED
  BY <1>2, <1>3

\* The queue starts empty and owes nothing.
THEOREM InitIInv == Init => IInv
<1> SUFFICES ASSUME Init PROVE IInv
  OBVIOUS
<1>1. Empty \in [Suffix -> Content]
  BY DEF Empty, Content
<1>2. DiskTypeOK
  BY <1>1, QueueAssumption DEF Init, DiskTypeOK
<1>3. VisibleIsPossible
  BY DEF Init, VisibleIsPossible
<1>4. PossibleIsSound
  BY DEF Init, PossibleIsSound, Sound, Single, Holds, Empty
<1> QED
  BY <1>2, <1>3, <1>4 DEF IInv

\* What put stamps is a record, and the one on disk when there is one.
LEMMA StampedType ==
    ASSUME DiskTypeOK, NEW i \in Ids, NEW d \in Data, NEW t \in Times, NEW stamp \in BOOLEAN
    PROVE  Stamped(i, d, t, stamp) \in Record
<1>1. CASE stamp /\ dir[i]["json"] \in Record
  BY <1>1 DEF Stamped, Record
<1>2. CASE ~(stamp /\ dir[i]["json"] \in Record)
  BY <1>2 DEF Stamped, Record
<1> QED
  BY <1>1, <1>2

\* put keeps the invariant, whether it returns nil or fails its flush.
LEMMA PutKeeps ==
    ASSUME IInv, NEW i \in Ids, Put(i)
    PROVE  IInv'
<1>1. PICK d \in Data, t \in Times, stamp \in BOOLEAN :
          PutOk(i, d, t, stamp) \/ PutFlushError(i, d, t, stamp)
  BY DEF Put
<1> DEFINE rec == Stamped(i, d, t, stamp)
<1>2. DiskTypeOK /\ rec \in Record
  BY StampedType DEF IInv
<1>3. \A j \in Ids : Sound(dir[j], owed[j])
  BY DEF IInv, VisibleIsPossible, PossibleIsSound
<1> HIDE DEF rec
<1>4. CASE PutAgain(i, rec, stamp)
  <2>1. dir' = dir /\ owed' = [owed EXCEPT ![i] = rec] /\ dir[i]["json"] = rec
    BY <1>4 DEF PutAgain, PutConflict
  <2>2. owed' \in [Ids -> Record \cup {NoFile}] /\ dir' \in [Ids -> [Suffix -> Content]]
    BY <1>2, <2>1 DEF DiskTypeOK
  <2>3. Sound(dir[i], rec)
    BY <1>3, <2>1 DEF Sound, Holds, Suffix
  <2>4. \A j \in Ids : Sound(dir'[j], owed'[j])
    BY <1>2, <1>3, <2>1, <2>3 DEF DiskTypeOK
  <2> QED
    BY <1>4, <2>2, <2>4, FlushKeeps DEF PutAgain
<1>5. CASE ~PutQuarantined(i, stamp) /\ ~Exists(i, "json")
           /\ dir' = [dir EXCEPT ![i]["json"] = rec]
  <2>1. \A s \in Suffix : dir[i][s] = NoFile
    BY <1>5 DEF PutQuarantined, Exists, Suffix
  <2>2. dir' \in [Ids -> [Suffix -> Content]]
    BY <1>2, <1>5 DEF DiskTypeOK, Suffix, Content
  <2>3. dir'[i]["json"] = rec /\ \A s \in Suffix \ {"json"} : dir'[i][s] = NoFile
    BY <1>2, <1>5, <2>1 DEF DiskTypeOK, Suffix
  <2>4. \A j \in Ids \ {i} : dir'[j] = dir[j]
    BY <1>2, <1>5 DEF DiskTypeOK
  <2>5. Single(dir'[i])
    BY <2>3 DEF Single, Suffix
  <2>6. owed[i] = NoFile
    BY <1>2, <1>3, <2>1, QueueAssumption DEF Sound, Holds, DiskTypeOK
  <2>7. CASE owed' = [owed EXCEPT ![i] = rec] /\ Flushed
    <3>1. owed' \in [Ids -> Record \cup {NoFile}]
      BY <1>2, <2>7 DEF DiskTypeOK
    <3>2. Sound(dir'[i], owed'[i])
      BY <1>2, <2>3, <2>5, <2>7 DEF Sound, Holds, Suffix, DiskTypeOK
    <3>3. \A j \in Ids : Sound(dir'[j], owed'[j])
      BY <1>2, <1>3, <2>4, <2>7, <3>2 DEF DiskTypeOK
    <3> QED
      BY <2>2, <2>7, <3>1, <3>3, FlushKeeps
  <2>8. CASE owed' = owed /\ Unflushed
    <3>1. \A j \in Ids : Sound(dir'[j], owed[j])
      BY <1>3, <2>4, <2>5, <2>6 DEF Sound, Holds
    <3> QED
      BY <2>2, <2>8, <3>1, RenamesKeep
  <2> QED
    BY <1>1, <1>5, <2>7, <2>8
        DEF PutOk, PutFlushError, PutAgain, PutWritten, PutUnflushed, rec
<1> QED
  BY <1>1, <1>4, <1>5 DEF PutOk, PutFlushError, PutWritten, PutUnflushed, rec

\* Every step of the queue, the process, the disk and the machine keeps it.
THEOREM NextIInv == IInv /\ [Next]_qvars => IInv'
<1> SUFFICES ASSUME IInv, [Next]_qvars PROVE IInv'
  OBVIOUS
<1>1. DiskTypeOK /\ dir \in [Ids -> [Suffix -> Content]]
  BY DEF IInv, DiskTypeOK
<1>2. \A j \in Ids : Sound(dir[j], owed[j])
  BY DEF IInv, VisibleIsPossible, PossibleIsSound
<1>3. ASSUME NEW i \in Ids, Put(i) PROVE IInv'
  BY <1>3, PutKeeps
<1>4. ASSUME NEW i \in Ids, NEW from \in Suffix, NEW to \in Suffix, from # to,
             Exists(i, from), Flushed \/ Unflushed, owed' = owed,
             dir' = [dir EXCEPT ![i] = Renamed(i, from, to)]
      PROVE  IInv'
  <2>1. Renamed(i, from, to) \in [Suffix -> Content]
        /\ Sound(Renamed(i, from, to), owed[i])
    BY <1>1, <1>2, <1>4, RenameIsSound
  <2>2. dir' \in [Ids -> [Suffix -> Content]] /\ \A j \in Ids : Sound(dir'[j], owed[j])
    BY <1>1, <1>2, <1>4, <2>1
  <2> QED
    BY <1>4, <2>2, RenamesKeep
<1>5. ASSUME NEW i \in Ids, NextQuarantine(i) PROVE IInv'
  BY <1>4, <1>5 DEF NextQuarantine, Head, Suffix
<1>6. ASSUME NEW i \in Ids, Reject(i) PROVE IInv'
  BY <1>4, <1>6 DEF Reject, Suffix
<1>7. ASSUME NEW i \in Ids, Ack(i) PROVE IInv'
  <2>1. owed' = [owed EXCEPT ![i] = NoFile]
        /\ owed' \in [Ids -> Record \cup {NoFile}]
    BY <1>1, <1>7 DEF Ack, DiskTypeOK
  <2>2. \A j \in Ids : \A img \in images[j] : Sound(img, owed'[j])
    BY <1>1, <2>1 DEF IInv, PossibleIsSound, Sound, Holds, DiskTypeOK
  <2>3. CASE dir' = [dir EXCEPT ![i]["json"] = NoFile] /\ (Flushed \/ Unflushed)
    <3>1. dir' \in [Ids -> [Suffix -> Content]]
      BY <1>1, <2>3 DEF Suffix, Content
    <3>2. Single(dir'[i])
      BY <1>1, <1>2, <2>3 DEF Sound, Single, Suffix
    <3>3. \A j \in Ids : Sound(dir'[j], owed'[j])
      BY <1>1, <1>2, <2>1, <2>3, <3>2 DEF Sound, Holds, DiskTypeOK
    <3> QED
      BY <2>1, <2>2, <2>3, <3>1, <3>3, FlushKeeps, MissedFlushKeeps
  <2>4. CASE UNCHANGED <<dir, images>>
    BY <1>1, <2>1, <2>2, <2>4 DEF IInv, DiskTypeOK, VisibleIsPossible, PossibleIsSound
  <2> QED
    BY <1>7, <2>3, <2>4 DEF Ack
<1>8. CASE RetryRejected
  <2>1. PICK done \in SUBSET {i \in Ids : Exists(i, "rejected")} :
            /\ dir' = [i \in Ids |-> IF i \in done THEN Renamed(i, "rejected", "json")
                                     ELSE dir[i]]
            /\ Flushed \/ Unflushed
    BY <1>8 DEF RetryRejected
  <2>2. \A i \in done : Renamed(i, "rejected", "json") \in [Suffix -> Content]
                        /\ Sound(Renamed(i, "rejected", "json"), owed[i])
    BY <1>1, <1>2, <2>1, RenameIsSound DEF Suffix
  <2>3. dir' \in [Ids -> [Suffix -> Content]] /\ \A j \in Ids : Sound(dir'[j], owed[j])
    BY <1>1, <1>2, <2>1, <2>2
  <2> QED
    BY <1>8, <2>1, <2>3, RenamesKeep DEF RetryRejected
<1>9. CASE OpenQueue \/ Close \/ UNCHANGED qvars
  BY <1>9 DEF OpenQueue, Close, qvars, IInv, DiskTypeOK, VisibleIsPossible, PossibleIsSound
<1>10. CASE PowerLoss
  <2>1. /\ \A i \in Ids : dir'[i] \in images[i]
        /\ DOMAIN dir' = Ids /\ dir' = [i \in Ids |-> dir'[i]]
        /\ images' = [i \in Ids |-> {dir'[i]}]
        /\ owed' = owed
    BY <1>10 DEF PowerLoss
  <2>2. DiskTypeOK'
    BY <1>1, <2>1 DEF DiskTypeOK
  <2> QED
    BY <2>1, <2>2 DEF IInv, VisibleIsPossible, PossibleIsSound
<1>11. ASSUME NEW i \in Ids, Damage(i) PROVE IInv'
  <2> DEFINE Rot(img) == [img EXCEPT !["json"] = IF @ = NoFile THEN NoFile ELSE Damaged]
  <2>1. ASSUME NEW img \in [Suffix -> Content], Sound(img, owed[i])
        PROVE  Rot(img) \in [Suffix -> Content] /\ Sound(Rot(img), owed[i])
    BY <2>1, QueueAssumption DEF Sound, Single, Holds, Suffix, Content
  <2>2. /\ dir' = [dir EXCEPT ![i] = Rot(dir[i])]
        /\ images' = [images EXCEPT ![i] = {Rot(img) : img \in images[i]}]
        /\ owed' = owed
    <3>1. dir' = [dir EXCEPT ![i]["json"] = Damaged] /\ dir[i]["json"] # NoFile
      BY <1>11, QueueAssumption DEF Damage
    <3> QED
      BY <1>1, <1>11, <3>1 DEF Damage
  <2> HIDE DEF Rot
  <2>3. \A img \in images[i] : img \in [Suffix -> Content] /\ Sound(img, owed[i])
    BY <1>1 DEF IInv, DiskTypeOK, PossibleIsSound
  <2>4. \A img \in images[i] : Rot(img) \in [Suffix -> Content] /\ Sound(Rot(img), owed[i])
    BY <2>1, <2>3
  <2>5. dir[i] \in images[i]
    BY DEF IInv, VisibleIsPossible
  <2>6. DiskTypeOK'
    BY <1>1, <2>2, <2>4, <2>5 DEF DiskTypeOK
  <2>7. VisibleIsPossible'
    BY <1>1, <2>2, <2>5 DEF IInv, VisibleIsPossible, DiskTypeOK
  <2>8. PossibleIsSound'
    BY <1>1, <2>2, <2>4 DEF IInv, PossibleIsSound, DiskTypeOK
  <2> QED
    BY <2>6, <2>7, <2>8 DEF IInv
<1> QED
  BY <1>3, <1>5, <1>6, <1>7, <1>8, <1>9, <1>10, <1>11 DEF Next

\* No crash, power loss, failed flush, quarantine or operator retry of
\* queue.go loses a message put accepted, or gives an identity two files.
THEOREM QueueKeepsAccepted == Spec => [](OneNamePerIdentity /\ AcceptedSurvives)
  BY InitIInv, NextIInv, IInvImplies, PTL DEF Spec

-----------------------------------------------------------------------------
(* The accounting.  The code adds and subtracts lengths as files come and   *)
(* go; OpenQueue counts the directory.  As an identity has one file, both   *)
(* numbers depend only on the identities that have one, whatever it is      *)
(* called, which renames do not change.                                     *)

EntriesOf(d) == {e \in Ids \X Suffix : d[e[1]][e[2]] # NoFile}
FileBytesOf(d) == UNION {{e} \X (1 .. Size[e[1]]) : e \in EntriesOf(d)}
Holders(d) == {i \in Ids : \E s \in Suffix : d[i][s] # NoFile}
BytesOf(i) == {i} \X (1 .. Size[i])
Held(H) == UNION {BytesOf(i) : i \in H}

Dirs == {d \in [Ids -> [Suffix -> Content]] : \A i \in Ids : Single(d[i])}

\* The bytes of one identity.
LEMMA BytesOfOne ==
  ASSUME NEW i \in Ids
  PROVE  IsFiniteSet(BytesOf(i)) /\ Cardinality(BytesOf(i)) = Size[i] /\ Size[i] \in Nat
<1>1. Size[i] \in Nat \ {0}
  BY QueueAssumption
<1> DEFINE n == Size[i]
<1>2. n \in Nat /\ n # 0
  BY <1>1
<1> HIDE DEF n
<1>3. IsFiniteSet(1 .. n) /\ Cardinality(1 .. n) = n
  BY <1>2, FS_Interval
<1>4. IsFiniteSet({i}) /\ Cardinality({i}) = 1
  BY FS_Singleton
<1>5. IsFiniteSet({i} \X (1 .. n)) /\ Cardinality({i} \X (1 .. n)) = 1 * n
  <2> DEFINE S == {i}
             T == 1 .. n
  <2>1. IsFiniteSet(S) /\ IsFiniteSet(T) /\ Cardinality(S) = 1 /\ Cardinality(T) = n
    BY <1>3, <1>4
  <2> HIDE DEF S, T
  <2>2. IsFiniteSet(S \X T) /\ Cardinality(S \X T) = Cardinality(S) * Cardinality(T)
    BY <2>1, FS_Product
  <2> QED BY <2>1, <2>2 DEF S, T
<1> QED BY <1>2, <1>5 DEF BytesOf, n

\* Finitely many identities have finitely many bytes.
LEMMA HeldIsFinite ==
  ASSUME NEW H \in SUBSET Ids
  PROVE  IsFiniteSet(H) /\ IsFiniteSet(Held(H))
<1> DEFINE T == {BytesOf(i) : i \in H}
<1> DEFINE f == [i \in H |-> BytesOf(i)]
<1>1. IsFiniteSet(H)
  BY QueueAssumption, FS_Subset
<1>2. f \in Surjection(H, T)
  BY DEF Surjection
<1>3. IsFiniteSet(T)
  BY <1>1, <1>2, FS_Surjection
<1>4. \A t \in T : IsFiniteSet(t)
  BY BytesOfOne
<1>5. IsFiniteSet(UNION T)
  BY <1>3, <1>4, FS_UNION
<1> QED BY <1>1, <1>5 DEF Held

\* A new identity adds one file and its length.
LEMMA HeldGrows ==
  ASSUME NEW H \in SUBSET Ids, NEW i \in Ids, i \notin H
  PROVE  /\ Cardinality(Held(H \cup {i})) = Cardinality(Held(H)) + Size[i]
         /\ Cardinality(H \cup {i}) = Cardinality(H) + 1
<1>1. IsFiniteSet(H) /\ IsFiniteSet(Held(H)) /\ IsFiniteSet(BytesOf(i))
  BY HeldIsFinite, BytesOfOne
<1>2. Held(H \cup {i}) = Held(H) \cup BytesOf(i)
  BY DEF Held
<1>3. Held(H) \cap BytesOf(i) = {}
  BY DEF Held, BytesOf
<1>4. Cardinality(Held(H) \cap BytesOf(i)) = 0
  BY <1>3, FS_EmptySet
<1>5. Cardinality(Held(H)) \in Nat /\ Cardinality(BytesOf(i)) = Size[i] /\ Size[i] \in Nat
  BY <1>1, FS_CardinalityType, BytesOfOne
<1>6. Cardinality(Held(H) \cup BytesOf(i)) = Cardinality(Held(H)) + Cardinality(BytesOf(i)) - 0
  BY <1>1, <1>4, FS_Union
<1>7. Cardinality(H \cup {i}) = Cardinality(H) + 1
  BY <1>1, FS_AddElement
<1> DEFINE c == Cardinality(Held(H))
           n == Size[i]
<1>8. Cardinality(Held(H \cup {i})) = c + n - 0 /\ c \in Nat /\ n \in Nat
  BY <1>2, <1>5, <1>6, Zenon
<1> HIDE DEF c, n
<1>9. Cardinality(Held(H \cup {i})) = c + n
  BY <1>8
<1> QED BY <1>7, <1>9 DEF c, n

\* With one file per identity, files and their bytes are those of the identities.
LEMMA CountedByHolder ==
  ASSUME NEW d \in Dirs
  PROVE  /\ Cardinality(EntriesOf(d)) = Cardinality(Holders(d))
         /\ Cardinality(FileBytesOf(d)) = Cardinality(Held(Holders(d)))
         /\ Holders(d) \in SUBSET Ids
<1> DEFINE H == Holders(d)
           name == [i \in H |-> CHOOSE s \in Suffix : d[i][s] # NoFile]
           f == [i \in H |-> <<i, name[i]>>]
           g == [b \in Held(H) |-> <<<<b[1], name[b[1]]>>, b[2]>>]
<1>1. H \in SUBSET Ids /\ IsFiniteSet(H) /\ IsFiniteSet(Held(H))
  BY HeldIsFinite DEF Holders
<1>2. \A i \in H : name[i] \in Suffix /\ d[i][name[i]] # NoFile
  BY DEF Holders
<1>3. \A e \in EntriesOf(d) : e[1] \in H /\ e[2] = name[e[1]] /\ e = <<e[1], e[2]>>
  <2> SUFFICES ASSUME NEW e \in EntriesOf(d) PROVE e[1] \in H /\ e[2] = name[e[1]] /\ e = <<e[1], e[2]>>
    OBVIOUS
  <2>1. e[1] \in Ids /\ e[2] \in Suffix /\ e = <<e[1], e[2]>> /\ d[e[1]][e[2]] # NoFile
    BY DEF EntriesOf
  <2>2. e[1] \in H
    BY <2>1 DEF Holders
  <2>3. Single(d[e[1]])
    BY <2>1 DEF Dirs
  <2> DEFINE i == e[1]
             t == e[2]
             n == name[i]
  <2>4. i \in H /\ t \in Suffix /\ d[i][t] # NoFile /\ Single(d[i])
    BY <2>1, <2>2, <2>3
  <2>5. n \in Suffix /\ d[i][n] # NoFile
    BY <1>2, <2>4
  <2> HIDE DEF i, t, n, name, H
  <2>6. t = n
    BY <2>4, <2>5 DEF Single
  <2> QED BY <2>1, <2>2, <2>6 DEF i, t, n
<1> HIDE DEF name, H
<1>4. \A i \in H : <<i, name[i]>> \in EntriesOf(d)
  BY <1>1, <1>2 DEF EntriesOf
<1>5. f \in Bijection(H, EntriesOf(d))
  <2>1. f \in [H -> EntriesOf(d)]
    BY <1>4
  <2>2. \A i, j \in H : f[i] = f[j] => i = j
    OBVIOUS
  <2>3. \A e \in EntriesOf(d) : \E i \in H : f[i] = e
    BY <1>3
  <2> QED BY <2>1, <2>2, <2>3 DEF Bijection, Injection, Surjection, IsInjective
<1>6. g \in Bijection(Held(H), FileBytesOf(d))
  <2>1. \A b \in Held(H) : /\ b[1] \in H /\ b[2] \in 1 .. Size[b[1]] /\ b = <<b[1], b[2]>>
    BY DEF Held, BytesOf
  <2>2. \A b \in Held(H) : <<<<b[1], name[b[1]]>>, b[2]>> \in FileBytesOf(d)
    <3> SUFFICES ASSUME NEW b \in Held(H) PROVE <<<<b[1], name[b[1]]>>, b[2]>> \in FileBytesOf(d)
      OBVIOUS
    <3>1. <<b[1], name[b[1]]>> \in EntriesOf(d)
      BY <1>4, <2>1
    <3> QED BY <2>1, <3>1 DEF FileBytesOf
  <2>3. g \in [Held(H) -> FileBytesOf(d)]
    BY <2>2
  <2>4. \A b, c \in Held(H) : g[b] = g[c] => b = c
    BY <2>1
  <2>5. \A x \in FileBytesOf(d) : \E b \in Held(H) : g[b] = x
    <3> SUFFICES ASSUME NEW x \in FileBytesOf(d) PROVE \E b \in Held(H) : g[b] = x
      OBVIOUS
    <3>1. PICK e \in EntriesOf(d) : x \in {e} \X (1 .. Size[e[1]])
      BY DEF FileBytesOf
    <3>2. x = <<e, x[2]>> /\ x[2] \in 1 .. Size[e[1]]
      BY <3>1
    <3>3. e[1] \in H /\ e = <<e[1], name[e[1]]>>
      BY <1>3
    <3>4. <<e[1], x[2]>> \in Held(H)
      BY <3>2, <3>3 DEF Held, BytesOf
    <3> QED BY <3>2, <3>3, <3>4
  <2> QED BY <2>3, <2>4, <2>5 DEF Bijection, Injection, Surjection, IsInjective
<1>7. Cardinality(EntriesOf(d)) = Cardinality(H)
  BY <1>1, <1>5, FS_Bijection DEF ExistsBijection
<1>8. Cardinality(FileBytesOf(d)) = Cardinality(Held(H))
  BY <1>1, <1>6, FS_Bijection DEF ExistsBijection
<1> QED BY <1>1, <1>7, <1>8 DEF H

\* What a step does to the identities that have a file, and to the account.
Stops == open' = FALSE /\ used' = 0
Counts == ~open /\ open' = TRUE /\ used' = Bytes /\ dir' = dir
Renames == open' = open /\ used' = used /\ Holders(dir') = Holders(dir)
Adds(i) == /\ open /\ open' = open /\ used' = used + Size[i] /\ ~PutFull(i)
           /\ i \notin Holders(dir) /\ Holders(dir') = Holders(dir) \cup {i}
Drops(i) == /\ open /\ open' = open /\ used' = used - Size[i]
            /\ i \notin Holders(dir') /\ Holders(dir) = Holders(dir') \cup {i}

\* The visible directory has one file per identity.
LEMMA DirIsSingle == IInv => dir \in Dirs
  BY DEF IInv, DiskTypeOK, VisibleIsPossible, PossibleIsSound, Sound, Dirs

\* Renames, rot and the second put of an entry leave every identity its file.
LEMMA SameHolders ==
  ASSUME dir \in Dirs, dir' \in [Ids -> [Suffix -> Content]],
         \A j \in Ids : \/ dir'[j] = dir[j]
                        \/ /\ \E s \in Suffix : dir[j][s] # NoFile
                           /\ \E s \in Suffix : dir'[j][s] # NoFile
  PROVE  Holders(dir') = Holders(dir)
  BY DEF Holders

\* Each step is one of these five.
LEMMA StepCounts ==
  ASSUME IInv, IInv', [Next]_qvars
  PROVE  Stops \/ Counts \/ Renames \/ \E i \in Ids : Adds(i) \/ Drops(i)
<1>1. dir \in Dirs /\ dir \in [Ids -> [Suffix -> Content]] /\ dir' \in [Ids -> [Suffix -> Content]]
  BY DirIsSingle DEF Dirs, IInv, DiskTypeOK
<1>2. ASSUME NEW i \in Ids, NEW from \in Suffix, NEW to \in Suffix, from # to, Exists(i, from),
             dir' = [dir EXCEPT ![i] = Renamed(i, from, to)]
      PROVE  Holders(dir') = Holders(dir)
  <2>1. \A j \in Ids \ {i} : dir'[j] = dir[j]
    BY <1>1, <1>2
  <2>2. dir'[i][to] # NoFile /\ dir[i][from] # NoFile
    BY <1>1, <1>2 DEF Renamed, Exists
  <2> QED BY <1>1, <2>1, <2>2, SameHolders
<1>3. ASSUME NEW i \in Ids, Put(i) PROVE Renames \/ Adds(i)
  <2>1. PICK d \in Data, t \in Times, stamp \in BOOLEAN :
            PutOk(i, d, t, stamp) \/ PutFlushError(i, d, t, stamp)
    BY <1>3 DEF Put
  <2> DEFINE rec == Stamped(i, d, t, stamp)
  <2>2. rec \in Record
    BY StampedType DEF IInv
  <2> HIDE DEF rec
  <2>3. CASE PutAgain(i, rec, stamp)
    BY <2>3 DEF PutAgain, Renames
  <2>4. CASE open /\ (PutWritten(i, rec, stamp) \/ PutUnflushed(i, rec, stamp))
    <3>1. /\ open' = open /\ used' = used + Size[i] /\ ~PutFull(i)
          /\ ~PutQuarantined(i, stamp) /\ ~Exists(i, "json")
          /\ dir' = [dir EXCEPT ![i]["json"] = rec]
      BY <2>4 DEF PutWritten, PutUnflushed
    <3>2. \A s \in Suffix : dir[i][s] = NoFile
      BY <3>1 DEF PutQuarantined, Exists, Suffix
    <3>3. dir'[i]["json"] = rec /\ rec # NoFile /\ "json" \in Suffix
      BY <1>1, <2>2, <3>1, QueueAssumption DEF Suffix
    <3>4. \A j \in Ids \ {i} : dir'[j] = dir[j]
      BY <1>1, <3>1
    <3>5. i \notin Holders(dir)
      BY <3>2 DEF Holders
    <3>6. Holders(dir') = Holders(dir) \cup {i}
      BY <3>3, <3>4 DEF Holders
    <3> QED BY <2>4, <3>1, <3>5, <3>6 DEF Adds
  <2> QED BY <2>1, <2>3, <2>4 DEF PutOk, PutFlushError, rec
<1>4. ASSUME NEW i \in Ids, NextQuarantine(i) PROVE Renames
  <2>1. Exists(i, "json") /\ dir' = [dir EXCEPT ![i] = Renamed(i, "json", "corrupt")]
        /\ used' = used /\ open' = open
    BY <1>4 DEF NextQuarantine, Head
  <2>2. Holders(dir') = Holders(dir)
    BY <1>2, <2>1 DEF Suffix
  <2> QED BY <2>1, <2>2 DEF Renames
<1>5. ASSUME NEW i \in Ids, Reject(i) PROVE Renames
  <2>1. Exists(i, "json") /\ dir' = [dir EXCEPT ![i] = Renamed(i, "json", "rejected")]
        /\ used' = used /\ open' = open
    BY <1>5 DEF Reject
  <2>2. Holders(dir') = Holders(dir)
    BY <1>2, <2>1 DEF Suffix
  <2> QED BY <2>1, <2>2 DEF Renames
<1>6. ASSUME NEW i \in Ids, Ack(i) PROVE Renames \/ Drops(i)
  <2>1. CASE Exists(i, "json")
    <3>1. open /\ open' = open /\ used' = used - Size[i] /\ dir' = [dir EXCEPT ![i]["json"] = NoFile]
      BY <1>6, <2>1 DEF Ack
    <3>2. \A s \in Suffix \ {"json"} : dir[i][s] = NoFile
      BY <1>1, <2>1 DEF Dirs, Single, Exists, Suffix
    <3>3. \A s \in Suffix : dir'[i][s] = NoFile
      BY <1>1, <3>1, <3>2 DEF Suffix
    <3>4. \A j \in Ids \ {i} : dir'[j] = dir[j]
      BY <1>1, <3>1
    <3>5. i \notin Holders(dir') /\ i \in Holders(dir)
      BY <2>1, <3>3 DEF Holders, Exists, Suffix
    <3>6. Holders(dir) = Holders(dir') \cup {i}
      BY <3>4, <3>5 DEF Holders
    <3> QED BY <3>1, <3>5, <3>6 DEF Drops
  <2>2. CASE ~Exists(i, "json")
    BY <1>6, <2>2 DEF Ack, Renames
  <2> QED BY <2>1, <2>2
<1>7. ASSUME RetryRejected PROVE Renames
  <2>1. PICK done \in SUBSET {i \in Ids : Exists(i, "rejected")} :
            dir' = [i \in Ids |-> IF i \in done THEN Renamed(i, "rejected", "json") ELSE dir[i]]
    BY <1>7 DEF RetryRejected
  <2>2. ASSUME NEW j \in Ids, j \in done
        PROVE  dir'[j]["json"] # NoFile /\ dir[j]["rejected"] # NoFile
    BY <1>1, <2>1, <2>2 DEF Renamed, Exists, Suffix
  <2>3. \A j \in Ids : j \notin done => dir'[j] = dir[j]
    BY <2>1
  <2>4. Holders(dir') = Holders(dir)
    BY <1>1, <2>2, <2>3, SameHolders DEF Suffix
  <2> QED BY <1>7, <2>4 DEF RetryRejected, Renames
<1>8. ASSUME NEW i \in Ids, Damage(i) PROVE Renames
  <2>1. /\ dir' = [dir EXCEPT ![i]["json"] = Damaged] /\ dir[i]["json"] # NoFile
        /\ used' = used /\ open' = open
    BY <1>8, QueueAssumption DEF Damage
  <2>2. \A j \in Ids \ {i} : dir'[j] = dir[j]
    BY <1>1, <2>1
  <2>3. dir'[i]["json"] # NoFile
    BY <1>1, <2>1, QueueAssumption DEF Suffix
  <2>4. Holders(dir') = Holders(dir)
    BY <1>1, <2>1, <2>2, <2>3, SameHolders DEF Suffix
  <2> QED BY <2>1, <2>4 DEF Renames
<1>9. CASE OpenQueue
  BY <1>9 DEF OpenQueue, Counts
<1>10. CASE Close \/ PowerLoss
  BY <1>10 DEF Close, PowerLoss, Stops
<1>11. CASE UNCHANGED qvars
  BY <1>11 DEF qvars, Renames
<1> QED
  BY <1>3, <1>4, <1>5, <1>6, <1>7, <1>8, <1>9, <1>10, <1>11 DEF Next

\* The account is that of the directory while the queue is open, and empty otherwise.
AccountOK == /\ open \in BOOLEAN
             /\ faults \in 0 .. MaxFaults
             /\ used = IF open THEN Bytes ELSE 0

\* The counts of the code, of a fresh OpenQueue and of the identities agree.
LEMMA ByHolder ==
  /\ IInv => /\ Cardinality(Entries) = Cardinality(Holders(dir))
             /\ Bytes = Cardinality(Held(Holders(dir)))
             /\ Holders(dir) \in SUBSET Ids
             /\ Bytes \in Nat /\ Cardinality(Entries) \in Nat
  /\ IInv' => /\ Cardinality(Entries') = Cardinality(Holders(dir'))
              /\ Bytes' = Cardinality(Held(Holders(dir')))
              /\ Holders(dir') \in SUBSET Ids
              /\ Bytes' \in Nat /\ Cardinality(Entries') \in Nat
<1>1. IInv' => dir' \in Dirs
  BY DEF IInv, DiskTypeOK, VisibleIsPossible, PossibleIsSound, Sound, Dirs
<1>2. Entries = EntriesOf(dir) /\ Entries' = EntriesOf(dir')
  BY DEF Entries, EntriesOf, Exists
<1>3. FileBytes = FileBytesOf(dir) /\ FileBytes' = FileBytesOf(dir')
  BY <1>2 DEF FileBytes, FileBytesOf
<1>4. \A H \in SUBSET Ids : Cardinality(Held(H)) \in Nat /\ Cardinality(H) \in Nat
  BY HeldIsFinite, FS_CardinalityType
<1> QED BY <1>1, <1>2, <1>3, <1>4, DirIsSingle, CountedByHolder DEF Bytes

\* The numbers behind a step that adds, drops or keeps files.
LEMMA CountsFollow ==
  ASSUME IInv, IInv'
  PROVE  /\ Holders(dir') = Holders(dir) =>
              Bytes' = Bytes /\ Cardinality(Entries') = Cardinality(Entries)
         /\ \A i \in Ids : Adds(i) => /\ Bytes' = Bytes + Size[i]
                                      /\ Cardinality(Entries') = Cardinality(Entries) + 1
         /\ \A i \in Ids : Drops(i) => /\ Bytes = Bytes' + Size[i]
                                       /\ Cardinality(Entries) = Cardinality(Entries') + 1
<1>1. Holders(dir') = Holders(dir) => Bytes' = Bytes /\ Cardinality(Entries') = Cardinality(Entries)
  BY ByHolder
<1>2. ASSUME NEW i \in Ids, Adds(i)
      PROVE  Bytes' = Bytes + Size[i] /\ Cardinality(Entries') = Cardinality(Entries) + 1
  <2>1. Holders(dir) \in SUBSET Ids /\ i \notin Holders(dir) /\ Holders(dir') = Holders(dir) \cup {i}
    BY <1>2, ByHolder DEF Adds
  <2> QED BY <2>1, ByHolder, HeldGrows
<1>3. ASSUME NEW i \in Ids, Drops(i)
      PROVE  Bytes = Bytes' + Size[i] /\ Cardinality(Entries) = Cardinality(Entries') + 1
  <2>1. Holders(dir') \in SUBSET Ids /\ i \notin Holders(dir') /\ Holders(dir) = Holders(dir') \cup {i}
    BY <1>3, ByHolder DEF Drops
  <2> QED BY <2>1, ByHolder, HeldGrows
<1> QED BY <1>1, <1>2, <1>3

\* Every step keeps the account.
LEMMA AccountKept ==
  ASSUME IInv, IInv', AccountOK, [Next]_qvars
  PROVE  AccountOK'
<1>1. faults' \in 0 .. MaxFaults
  <2>1. faults' = faults \/ Fault
    BY DEF Next, Put, PutOk, PutFlushError, PutAgain, PutWritten, PutUnflushed, NextQuarantine, Ack,
           Reject, Damage, RetryRejected, OpenQueue, Close, PowerLoss, Flushed, Unflushed, qvars
  <2> QED BY <2>1, QueueAssumption DEF Fault, AccountOK
<1>2. Bytes \in Nat /\ Bytes' \in Nat
  BY ByHolder
<1>3. CASE Stops
  BY <1>1, <1>3 DEF Stops, AccountOK
<1>4. CASE Counts
  <2>1. Bytes' = Bytes
    BY <1>4, CountsFollow DEF Counts
  <2> QED BY <1>1, <1>4, <2>1 DEF Counts, AccountOK
<1>5. CASE Renames
  <2>1. Bytes' = Bytes
    BY <1>5, CountsFollow DEF Renames
  <2> QED BY <1>1, <1>5, <2>1 DEF Renames, AccountOK
<1>6. ASSUME NEW i \in Ids, Adds(i) PROVE AccountOK'
  <2>1. Bytes' = Bytes + Size[i] /\ open /\ open' = open /\ used' = used + Size[i]
    BY <1>6, CountsFollow DEF Adds
  <2> QED BY <1>1, <2>1 DEF AccountOK
<1>7. ASSUME NEW i \in Ids, Drops(i) PROVE AccountOK'
  <2>1. Bytes = Bytes' + Size[i] /\ open /\ open' = open /\ used' = used - Size[i] /\ Size[i] \in Nat
    BY <1>7, CountsFollow, BytesOfOne DEF Drops
  <2>2. used' = Bytes'
    <3>1. used = Bytes
      BY <2>1 DEF AccountOK
    <3> DEFINE n == Size[i]
               b == Bytes'
               c == Bytes
               u == used
               v == used'
    <3>2. v = u - n /\ u = c /\ c = b + n /\ n \in Nat /\ b \in Nat
      BY <1>2, <2>1, <3>1, Zenon
    <3> HIDE DEF n, b, c, u, v
    <3>3. v = b
      BY <3>2
    <3> QED BY <3>3 DEF v, b
  <2> QED BY <1>1, <2>1, <2>2 DEF AccountOK
<1> QED BY <1>3, <1>4, <1>5, <1>6, <1>7, StepCounts

\* The queue starts with an empty account.
LEMMA AccountInit == Init => AccountOK
<1> SUFFICES ASSUME Init PROVE AccountOK
  OBVIOUS
<1>1. faults \in 0 .. MaxFaults
  BY QueueAssumption DEF Init
<1>2. open = FALSE /\ used = 0
  BY DEF Init
<1> QED BY <1>1, <1>2, Zenon DEF AccountOK

\* Through failed flushes, quarantines, retries, crashes and power losses an
\* identity has one file, and Queue.used is the number of bytes OpenQueue would
\* count in the directory.
THEOREM QueueCountsRight == Spec => []DirectoryIsSound
<1>1. IInv /\ AccountOK => DirectoryIsSound
  <2> SUFFICES ASSUME IInv, AccountOK PROVE DirectoryIsSound
    OBVIOUS
  <2>1. used \in Nat
    BY ByHolder DEF AccountOK
  <2>2. TypeOK
    BY <2>1 DEF TypeOK, AccountOK, IInv
  <2>3. UsedIsExact
    BY DEF UsedIsExact, AccountOK
  <2> QED BY <2>2, <2>3, IInvImplies DEF DirectoryIsSound
<1> QED BY <1>1, InitIInv, NextIInv, AccountInit, AccountKept, PTL DEF Spec

\* put refuses in time: no step of an open queue adds a file that takes it over
\* the number of entries or of bytes it was opened with.
THEOREM QueueStaysWithin == Spec => CapacityRespected
<1> DEFINE A == Cardinality(Entries') > Cardinality(Entries) /\ open' =>
                  Cardinality(Entries') <= MaxItems /\ Bytes' <= MaxBytes
<1>1. ASSUME IInv, IInv', AccountOK, AccountOK', [Next]_qvars PROVE A \/ UNCHANGED qvars
  <2> SUFFICES ASSUME Cardinality(Entries') > Cardinality(Entries), open'
               PROVE  Cardinality(Entries') <= MaxItems /\ Bytes' <= MaxBytes
    OBVIOUS
  <2>1. Cardinality(Entries) \in Nat /\ Cardinality(Entries') \in Nat
    BY <1>1, ByHolder
  <2>2. ~Stops
    BY DEF Stops
  <2>3. ~Counts /\ ~Renames
    <3>1. Cardinality(Entries') # Cardinality(Entries)
      BY <2>1
    <3>2. Holders(dir') # Holders(dir)
      BY <1>1, <3>1, CountsFollow, Zenon
    <3> QED BY <3>2, Zenon DEF Counts, Renames
  <2>4. \A i \in Ids : ~Drops(i)
    BY <1>1, <2>1, CountsFollow
  <2>5. PICK i \in Ids : Adds(i)
    BY <1>1, <2>2, <2>3, <2>4, StepCounts
  <2>6. Cardinality(Entries') = Cardinality(Entries) + 1 /\ Cardinality(Entries) < MaxItems
    BY <1>1, <2>1, <2>5, CountsFollow, QueueAssumption DEF Adds, PutFull
  <2>7. Bytes' = used' /\ used' = used + Size[i] /\ ~(used + Size[i] > MaxBytes)
    BY <1>1, <2>5 DEF Adds, PutFull, AccountOK
  <2>8. Bytes' \in Nat /\ MaxBytes \in Nat /\ MaxItems \in Nat
    BY <1>1, ByHolder, QueueAssumption
  <2> QED BY <2>1, <2>6, <2>7, <2>8
<1>2. IInv /\ IInv' /\ AccountOK /\ AccountOK' /\ [Next]_qvars => [A]_qvars
  BY <1>1
<1> QED
  BY <1>2, InitIInv, NextIInv, AccountInit, AccountKept, PTL DEF Spec, CapacityRespected

-----------------------------------------------------------------------------
(* MqttInbox. *)


WorkerOK == /\ worker \in [at : {"next", "handle", "finish"}, id : Ids \cup {None},
                           verdict : {"none", "ack", "reject"}]
            /\ worker.at # "next" => worker.id \in Ids

Promise == /\ receipt \in [Ids -> BOOLEAN]
           /\ \A i \in Ids : receipt[i] => owed[i] # NoFile /\ ~Finishing(i)

InboxInv == IInv /\ WorkerOK /\ Promise

\* Each action of the receiver is a step of the queue, or leaves it alone.
LEMMA InboxStepIsQueueStep ==
    ASSUME WorkerOK, [InboxNext]_ivars
    PROVE  [Next]_qvars
<1>1. ASSUME NEW i \in Ids, Receive(i) PROVE [Next]_qvars
  <2>1. Put(i) \/ UNCHANGED qvars
    BY <1>1 DEF Receive, ReceiveStored, ReceiveFailed, ReceiveDropped, Put
  <2> QED
    BY <2>1 DEF Next
<1>2. CASE WorkerFinish
  <2>1. worker.id \in Ids /\ (Ack(worker.id) \/ Reject(worker.id))
    BY <1>2 DEF WorkerFinish, WorkerOK
  <2> QED
    BY <2>1 DEF Next
<1>3. ASSUME NEW i \in Ids, Publish(i) \/ BrokerAck(i) \/ WorkerNext(i)
      PROVE  UNCHANGED qvars
  BY <1>3 DEF Publish, BrokerAck, WorkerNext
<1>4. ASSUME NEW i \in Ids, WorkerQuarantine(i) \/ DiskDamage(i) PROVE Next
  BY <1>4 DEF WorkerQuarantine, DiskDamage, Next
<1>5. CASE LinkLost \/ Connect \/ ExpireRead \/ ClearReconnecting \/ WorkerHandle
           \/ Register \/ Shutdown
  BY <1>5 DEF LinkLost, Connect, ExpireRead, ClearReconnecting, WorkerHandle, Register,
              Shutdown
<1>6. CASE Start \/ ShutdownDone \/ Crash \/ MachineFails
  BY <1>6 DEF Start, ShutdownDone, Crash, MachineFails, Next
<1>7. CASE UNCHANGED ivars
  BY <1>7 DEF ivars
<1> QED
  BY <1>1, <1>2, <1>3, <1>4, <1>5, <1>6, <1>7 DEF InboxNext

\* What a step may do to the promises: put makes one, the worker's removal ends
\* one, nothing else touches them.
LEMMA OwedStep ==
    ASSUME DiskTypeOK, NEW i \in Ids
    PROVE  /\ \A d \in Data, t \in Times : PutOk(i, d, t, TRUE) =>
                owed'[i] # NoFile /\ \A j \in Ids \ {i} : owed'[j] = owed[j]
           /\ Ack(i) => \A j \in Ids \ {i} : owed'[j] = owed[j]
<1>1. ASSUME NEW d \in Data, NEW t \in Times, PutOk(i, d, t, TRUE)
      PROVE  owed'[i] # NoFile /\ \A j \in Ids \ {i} : owed'[j] = owed[j]
  <2>1. Stamped(i, d, t, TRUE) \in Record
    BY StampedType
  <2>2. owed' = [owed EXCEPT ![i] = Stamped(i, d, t, TRUE)]
    BY <1>1 DEF PutOk, PutAgain, PutWritten
  <2> QED
    BY <2>1, <2>2, QueueAssumption DEF DiskTypeOK
<1>2. Ack(i) => \A j \in Ids \ {i} : owed'[j] = owed[j]
  BY DEF Ack, DiskTypeOK
<1> QED
  BY <1>1, <1>2

\* Nothing has been acknowledged at the start.
LEMMA InboxInvInit == InboxInit => InboxInv
<1> SUFFICES ASSUME InboxInit PROVE InboxInv
  OBVIOUS
<1>1. IInv
  BY InitIInv DEF InboxInit
<1>2. WorkerOK
  BY DEF InboxInit, WorkerOK, AtNext
<1>3. Promise
  BY DEF InboxInit, Promise
<1> QED
  BY <1>1, <1>2, <1>3 DEF InboxInv

\* The receiver keeps the promises, the worker among them.
LEMMA InboxInvNext == InboxInv /\ [InboxNext]_ivars => InboxInv'
<1> SUFFICES ASSUME InboxInv, [InboxNext]_ivars PROVE InboxInv'
  OBVIOUS
<1>1. IInv /\ WorkerOK /\ Promise /\ DiskTypeOK
  BY DEF InboxInv, IInv
<1>2. IInv'
  BY <1>1, InboxStepIsQueueStep, NextIInv
<1> SUFFICES WorkerOK' /\ Promise'
  BY <1>2 DEF InboxInv
<1>3. ASSUME owed' = owed, receipt' = receipt, worker' = worker
      PROVE  WorkerOK' /\ Promise'
  BY <1>1, <1>3 DEF WorkerOK, Promise, Finishing
<1>4. ASSUME owed' = owed, receipt' = receipt, worker' = AtNext
      PROVE  WorkerOK' /\ Promise'
  BY <1>1, <1>4 DEF WorkerOK, Promise, Finishing, AtNext
<1>5. ASSUME NEW i \in Ids, Receive(i) PROVE WorkerOK' /\ Promise'
  <2>1. worker' = worker
    BY <1>5 DEF Receive, wvars
  <2>2. CASE ReceiveStored(i)
    <3>1. /\ receipt' = [receipt EXCEPT ![i] = ~Finishing(i)]
          /\ owed'[i] # NoFile /\ \A j \in Ids \ {i} : owed'[j] = owed[j]
      BY <1>1, <2>2, OwedStep DEF ReceiveStored
    <3>2. \A j \in Ids : Finishing(j)' <=> Finishing(j)
      BY <2>1 DEF Finishing
    <3>3. Promise'
      BY <1>1, <3>1, <3>2 DEF Promise
    <3> QED
      BY <1>1, <2>1, <3>3 DEF WorkerOK
  <2>3. CASE ReceiveFailed(i) \/ ReceiveDropped(i)
    BY <1>3, <2>1, <2>3 DEF ReceiveFailed, ReceiveDropped, PutFlushError, PutUnflushed, qvars
  <2> QED
    BY <1>5, <2>2, <2>3 DEF Receive
<1>6. ASSUME NEW i \in Ids, WorkerNext(i) PROVE WorkerOK' /\ Promise'
  BY <1>1, <1>6 DEF WorkerNext, WorkerOK, Promise, Finishing, qvars
<1>7. CASE WorkerHandle
  <2>1. owed' = owed /\ worker.id \in Ids
    BY <1>1, <1>7 DEF WorkerHandle, WorkerOK, qvars
  <2>2. CASE HandleSucceeds
    <3>1. /\ worker'.at = "finish" /\ worker'.id = worker.id
          /\ receipt' = [receipt EXCEPT ![worker.id] = FALSE]
      BY <1>1, <2>2 DEF HandleSucceeds, WorkerOK
    <3>2. WorkerOK'
      BY <1>1, <2>1, <2>2 DEF HandleSucceeds, WorkerOK
    <3>3. \A j \in Ids \ {worker.id} : ~Finishing(j)'
      BY <3>1 DEF Finishing
    <3>4. Promise'
      BY <1>1, <2>1, <3>1, <3>3 DEF Promise
    <3> QED
      BY <3>2, <3>4
  <2>3. CASE HandleRejects
    <3>1. WorkerOK' /\ worker'.verdict = "reject" /\ receipt' = receipt
      BY <1>1, <2>1, <2>3 DEF HandleRejects, WorkerOK
    <3>2. \A j \in Ids : ~Finishing(j)'
      BY <3>1 DEF Finishing
    <3> QED
      BY <1>1, <2>1, <3>1, <3>2 DEF Promise
  <2>4. CASE HandleRetries
    <3>1. receipt' = receipt /\ worker' = AtNext
      BY <2>4 DEF HandleRetries
    <3> QED
      BY <1>4, <2>1, <3>1
  <2> QED
    BY <1>7, <2>2, <2>3, <2>4 DEF WorkerHandle
<1>8. CASE WorkerFinish
  <2>1. worker.id \in Ids /\ worker' = AtNext /\ receipt' = receipt
    BY <1>1, <1>8 DEF WorkerFinish, WorkerOK
  <2>2. CASE worker.verdict = "ack" /\ Ack(worker.id)
    <3>1. ~receipt[worker.id]
      BY <1>1, <1>8, <2>1, <2>2 DEF Promise, Finishing, WorkerFinish
    <3>2. \A j \in Ids \ {worker.id} : owed'[j] = owed[j]
      BY <1>1, <2>1, <2>2, OwedStep
    <3>3. WorkerOK' /\ \A j \in Ids : ~Finishing(j)'
      BY <2>1 DEF WorkerOK, Finishing, AtNext
    <3> QED
      BY <1>1, <2>1, <3>1, <3>2, <3>3 DEF Promise
  <2>3. CASE Reject(worker.id)
    BY <1>4, <2>1, <2>3 DEF Reject
  <2> QED
    BY <1>8, <2>2, <2>3 DEF WorkerFinish
<1>9. ASSUME NEW i \in Ids,
             Publish(i) \/ BrokerAck(i) \/ WorkerQuarantine(i) \/ DiskDamage(i)
      PROVE  WorkerOK' /\ Promise'
  <2>1. owed' = owed /\ receipt' = receipt /\ worker' = worker
    <3>1. CASE Publish(i) \/ BrokerAck(i)
      BY <3>1 DEF Publish, BrokerAck, qvars, wvars
    <3>2. CASE WorkerQuarantine(i)
      BY <3>2 DEF WorkerQuarantine, NextQuarantine, wvars
    <3>3. CASE DiskDamage(i)
      BY <3>3 DEF DiskDamage, Damage, wvars
    <3> QED
      BY <1>9, <3>1, <3>2, <3>3
  <2> QED
    BY <1>3, <2>1
<1>10. CASE LinkLost \/ Connect \/ ExpireRead \/ ClearReconnecting \/ Register \/ Shutdown
            \/ Start \/ UNCHANGED ivars
  <2>1. owed' = owed /\ receipt' = receipt /\ worker' = worker
    <3>1. CASE LinkLost \/ Connect \/ ExpireRead \/ ClearReconnecting \/ Register \/ Shutdown
      BY <3>1 DEF LinkLost, Connect, ExpireRead, ClearReconnecting, Register, Shutdown,
                  qvars, wvars
    <3>2. CASE Start
      BY <3>2 DEF Start, OpenQueue, wvars
    <3>3. CASE UNCHANGED ivars
      BY <3>3 DEF ivars, qvars, wvars
    <3> QED
      BY <1>10, <3>1, <3>2, <3>3
  <2> QED
    BY <1>3, <2>1
<1>11. CASE ShutdownDone \/ Crash \/ MachineFails
  <2>1. Gone /\ (Close \/ PowerLoss)
    BY <1>11 DEF ShutdownDone, Crash, MachineFails
  <2>2. receipt' = receipt /\ worker' = AtNext
    BY <2>1 DEF Gone
  <2>3. owed' = owed
    BY <2>1 DEF Close, PowerLoss
  <2> QED
    BY <1>4, <2>2, <2>3
<1> QED
  BY <1>5, <1>6, <1>7, <1>8, <1>9, <1>10, <1>11 DEF InboxNext

\* receive acknowledges only what no crash and no power loss takes away before
\* the worker has handled it.
THEOREM InboxKeepsAcked == InboxSafety => []AckedIsKept
<1>1. InboxInv => AckedIsKept
  BY QueueAssumption DEF InboxInv, IInv, DiskTypeOK, PossibleIsSound, Sound, Holds, Promise, AckedIsKept
<1> QED
  BY <1>1, InboxInvInit, InboxInvNext, PTL DEF InboxSafety

-----------------------------------------------------------------------------
(* The life of the process.  The queue is open exactly while a process      *)
(* lives, and only a process that has the queue has a worker inside an      *)
(* entry, through every order of shutdown, crash and power loss.            *)

LineOK == /\ session \in [Ids -> {"none", "queued", "sent"}]
          /\ publishes \in 0 .. MaxPublishes
          /\ acking \subseteq Ids
          /\ link \in BOOLEAN
          /\ reconnecting \in {"no", "pausing", "expired"}
          /\ missed \subseteq Ids
          /\ troubles \in 0 .. MaxTroubles

LifeOK == /\ proc \in {"down", "up", "closing"}
          /\ registered \in BOOLEAN
          /\ open \in BOOLEAN
          /\ proc # "down" <=> open
          /\ worker.at # "next" => open

\* The queue's methods other than Open, Close and a power loss leave it open or shut.
LEMMA OpenStays ==
    ASSUME NEW i \in Ids
    PROVE  /\ \A d \in Data, t \in Times : PutOk(i, d, t, TRUE) \/ PutFlushError(i, d, t, TRUE)
                => open' = open
           /\ Ack(i) \/ Reject(i) \/ NextQuarantine(i) \/ Damage(i) => open' = open
<1>1. \A d \in Data, t \in Times : PutOk(i, d, t, TRUE) \/ PutFlushError(i, d, t, TRUE) => open' = open
  BY DEF PutOk, PutAgain, PutWritten, PutFlushError, PutUnflushed
<1>2. Ack(i) \/ Reject(i) \/ NextQuarantine(i) \/ Damage(i) => open' = open
  BY DEF Ack, Reject, NextQuarantine, Damage
<1> QED BY <1>1, <1>2

\* The broker's side of a step.
LEMMA LineNext == LineOK /\ [InboxNext]_ivars => LineOK'
<1> SUFFICES ASSUME LineOK, [InboxNext]_ivars PROVE LineOK'
  OBVIOUS
<1>0. Trouble => troubles' \in 0 .. MaxTroubles
  BY InboxAssumption DEF LineOK, Trouble
<1>1. ASSUME UNCHANGED cvars, UNCHANGED publishes, UNCHANGED troubles \/ Trouble PROVE LineOK'
  BY <1>0, <1>1 DEF LineOK, cvars
<1>2. Disconnected => /\ session' \in [Ids -> {"none", "queued", "sent"}]
                      /\ acking' \subseteq Ids /\ link' \in BOOLEAN /\ missed' \subseteq Ids
  BY DEF LineOK, Disconnected
<1>3. ASSUME NEW i \in Ids, Publish(i) \/ BrokerAck(i) PROVE LineOK'
  BY <1>3, InboxAssumption DEF Publish, BrokerAck, LineOK
<1>4. ASSUME NEW i \in Ids, Receive(i) PROVE LineOK'
  <2>1. /\ session' = [session EXCEPT ![i] = "sent"] /\ link' = link /\ publishes' = publishes
        /\ acking' = acking \/ acking' = acking \cup {i}
        /\ reconnecting' = reconnecting \/ reconnecting' = "pausing"
        /\ missed' = missed \/ missed' = missed \cup {i}
        /\ troubles' = troubles
    BY <1>4 DEF Receive, ReceiveStored, ReceiveFailed, ReceiveDropped, RetryConnection
  <2> QED BY <2>1 DEF LineOK
<1>5. CASE LinkLost \/ ExpireRead \/ Shutdown
  BY <1>0, <1>2, <1>5 DEF LinkLost, ExpireRead, Shutdown, LineOK
<1>6. CASE Connect \/ ClearReconnecting
  BY <1>6 DEF Connect, ClearReconnecting, LineOK
<1>7. CASE ShutdownDone \/ Crash \/ MachineFails
  <2>1. Gone /\ (UNCHANGED troubles \/ Trouble)
    BY <1>7 DEF ShutdownDone, Crash, MachineFails
  <2> QED BY <1>0, <1>2, <2>1 DEF Gone, LineOK
<1>8. CASE Start
  BY <1>8 DEF Start, LineOK
<1>9. ASSUME NEW i \in Ids, WorkerNext(i) \/ WorkerQuarantine(i) \/ DiskDamage(i) PROVE LineOK'
  BY <1>1, <1>9 DEF WorkerNext, WorkerQuarantine, DiskDamage
<1>10. CASE WorkerHandle \/ WorkerFinish \/ Register
  BY <1>1, <1>10 DEF WorkerHandle, HandleSucceeds, HandleRejects, HandleRetries, WorkerFinish, Register
<1>11. CASE UNCHANGED ivars
  BY <1>1, <1>11 DEF ivars
<1> QED
  BY <1>3, <1>4, <1>5, <1>6, <1>7, <1>8, <1>9, <1>10, <1>11 DEF InboxNext

\* The process's side of a step.
LEMMA LifeNext == WorkerOK /\ LifeOK /\ [InboxNext]_ivars => LifeOK'
<1> SUFFICES ASSUME WorkerOK, LifeOK, [InboxNext]_ivars PROVE LifeOK'
  OBVIOUS
<1>1. ASSUME UNCHANGED <<open, proc, registered, worker>> PROVE LifeOK'
  BY <1>1 DEF LifeOK
<1>2. ASSUME UNCHANGED <<open, proc, registered>>, worker' = AtNext PROVE LifeOK'
  BY <1>2 DEF LifeOK, AtNext
<1>3. ASSUME NEW i \in Ids, Publish(i) \/ BrokerAck(i) PROVE LifeOK'
  BY <1>1, <1>3 DEF Publish, BrokerAck, qvars, wvars
<1>4. ASSUME NEW i \in Ids, Receive(i) PROVE LifeOK'
  <2>1. open' = open
    BY <1>4, OpenStays DEF Receive, ReceiveStored, ReceiveFailed, ReceiveDropped, qvars
  <2> QED BY <1>1, <1>4, <2>1 DEF Receive, wvars
<1>5. ASSUME NEW i \in Ids, WorkerQuarantine(i) \/ DiskDamage(i) PROVE LifeOK'
  BY <1>1, <1>5, OpenStays DEF WorkerQuarantine, DiskDamage, wvars
<1>6. ASSUME NEW i \in Ids, WorkerNext(i) PROVE LifeOK'
  BY <1>6 DEF WorkerNext, NextFound, LifeOK, qvars
<1>7. CASE LinkLost \/ Connect \/ ExpireRead \/ ClearReconnecting
  BY <1>1, <1>7 DEF LinkLost, Connect, ExpireRead, ClearReconnecting, qvars, wvars
<1>8. CASE WorkerHandle
  <2>1. open /\ UNCHANGED <<open, proc, registered>>
    BY <1>8 DEF WorkerHandle, LifeOK, qvars
  <2> QED BY <2>1 DEF LifeOK
<1>9. CASE WorkerFinish
  <2>1. worker.id \in Ids /\ (Ack(worker.id) \/ Reject(worker.id))
    BY <1>9 DEF WorkerFinish, WorkerOK
  <2> QED BY <1>2, <1>9, <2>1, OpenStays DEF WorkerFinish
<1>10. CASE Start
  BY <1>10 DEF Start, OpenQueue, LifeOK, wvars
<1>11. CASE Register \/ Shutdown
  BY <1>11 DEF Register, Shutdown, LifeOK, qvars, wvars
<1>12. CASE ShutdownDone \/ Crash \/ MachineFails
  <2>1. Gone /\ open' = FALSE
    BY <1>12 DEF ShutdownDone, Crash, MachineFails, Close, PowerLoss
  <2> QED BY <2>1 DEF Gone, LifeOK, AtNext
<1>13. CASE UNCHANGED ivars
  BY <1>1, <1>13 DEF ivars, qvars, wvars
<1> QED
  BY <1>3, <1>4, <1>5, <1>6, <1>7, <1>8, <1>9, <1>10, <1>11, <1>12, <1>13 DEF InboxNext

\* A worker inside an entry belongs to a live process that holds the queue; no
\* shutdown, crash or power loss leaves one behind or lets two processes hold it.
THEOREM InboxKeepsItsQueue == InboxSafety => []InboxTypeOK
<1>1. InboxInit => LineOK /\ LifeOK
  <2> SUFFICES ASSUME InboxInit PROVE LineOK /\ LifeOK
    OBVIOUS
  <2>1. publishes = MaxPublishes /\ troubles = MaxTroubles /\ session = [i \in Ids |-> "none"]
    BY DEF InboxInit
  <2>2. /\ publishes \in 0 .. MaxPublishes /\ troubles \in 0 .. MaxTroubles
        /\ session \in [Ids -> {"none", "queued", "sent"}]
    BY <2>1, InboxAssumption
  <2>3. LineOK
    BY <2>2, Zenon DEF InboxInit, LineOK
  <2>4. proc = "down" /\ worker.at = "next" /\ registered \in BOOLEAN
    BY DEF InboxInit, AtNext
  <2>5. open = FALSE
    BY DEF InboxInit, Init
  <2>6. LifeOK
    BY <2>4, <2>5, Zenon DEF LifeOK
  <2> QED BY <2>3, <2>6
<1>2. InboxInv /\ LineOK /\ LifeOK => InboxTypeOK
  BY DEF InboxInv, WorkerOK, Promise, LineOK, LifeOK, InboxTypeOK
<1>3. InboxInv => WorkerOK
  BY DEF InboxInv
<1> QED
  BY <1>1, <1>2, <1>3, InboxInvInit, InboxInvNext, LineNext, LifeNext, PTL DEF InboxSafety

=============================================================================
