---------------------------- MODULE DurableQueue ----------------------------
(***************************************************************************)
(* The fsynced receive queue of internal/durablequeue/queue.go: a          *)
(* directory of files named <sha256(tenant,messageId)>.json, renamed to    *)
(* .rejected or .corrupt when an entry is quarantined.                     *)
(*                                                                         *)
(* Every exported method holds Queue.mu for its whole body, so each is one *)
(* action.  What is not atomic is the disk: a rename or a removal reaches  *)
(* stable storage only when the directory has been flushed.  images[i] is  *)
(* the set of contents the directory may hold for identity i after a power *)
(* loss; a successful syncDirectory collapses it to what is visible now.   *)
(***************************************************************************)
EXTENDS Integers, FiniteSets

CONSTANTS
    Ids,        \* message identities, numbered by the order of their file names
    Data,       \* message contents other than the reception time
    Times,      \* reception times
    Size,       \* Size[i]: length of the JSON of a message with identity i
    MaxBytes,   \* Queue.maxBytes
    MaxItems,   \* Queue.maxItems
    MaxFaults,  \* bound on I/O errors, damage, crashes and power losses
    NoFile,     \* the file does not exist
    Damaged     \* the file exists, its bytes do not decode to its identity

Record == [data : Data, at : Times]
Suffix == {"json", "rejected", "corrupt"}
Content == Record \cup {NoFile, Damaged}

\* OpenQueue refuses limits below one; a file is never empty.
ASSUME QueueAssumption ==
    /\ Ids \subseteq Nat
    /\ IsFiniteSet(Ids)
    /\ Size \in [Ids -> Nat \ {0}]
    /\ MaxBytes \in Nat \ {0}
    /\ MaxItems \in Nat \ {0}
    /\ MaxFaults \in Nat
    /\ NoFile \notin Record
    /\ Damaged \notin Record
    /\ NoFile # Damaged

VARIABLES
    dir,     \* dir[i][s]: visible content of the file of identity i with suffix s
    images,  \* images[i]: what dir[i] may be after a power loss
    used,    \* Queue.used, the accounted bytes
    open,    \* the queue is open in a live process (its flock is held)
    owed,    \* owed[i]: the message a Put that returned nil promised to keep
    faults   \* environment faults left

qvars == <<dir, images, used, open, owed, faults>>

Exists(i, s) == dir[i][s] # NoFile
Empty == [s \in Suffix |-> NoFile]
Entries == {e \in Ids \X Suffix : Exists(e[1], e[2])}

\* Every byte of every file: the total length is their number.
FileBytes == UNION {{e} \X (1 .. Size[e[1]]) : e \in Entries}
Bytes == Cardinality(FileBytes)

(***************************************************************************)
(* The disk.                                                               *)
(***************************************************************************)
Fault == faults > 0 /\ faults' = faults - 1

\* syncDirectory succeeds: every earlier rename and removal is stable too.
Flushed == images' = [j \in Ids |-> {dir'[j]}] /\ faults' = faults

\* syncDirectory fails, or the process dies before it.
Unflushed == images' = [j \in Ids |-> images[j] \cup {dir'[j]}] /\ Fault

Renamed(i, from, to) ==
    [dir[i] EXCEPT ![to] = dir[i][from], ![from] = NoFile]

(***************************************************************************)
(* put.  stamp distinguishes PutReceived from Put: it keeps the reception  *)
(* time already saved for the identity.                                    *)
(***************************************************************************)
Stamped(i, d, t, stamp) ==
    [data |-> d,
     at   |-> IF stamp /\ dir[i]["json"] \in Record THEN dir[i]["json"].at ELSE t]

\* Faulty variants, named Bad*, are bugs the properties below must detect.
BadPutQuarantined(i, stamp) == stamp /\ dir[i]["json"] = Damaged

PutQuarantined(i, stamp) ==
    \/ stamp /\ dir[i]["json"] = Damaged
    \/ Exists(i, "rejected")
    \/ Exists(i, "corrupt")

PutConflict(i, rec) == Exists(i, "json") /\ dir[i]["json"] # rec

BadPutFull(i) == Cardinality(Entries) > MaxItems \/ used + Size[i] > MaxBytes

PutFull(i) == Cardinality(Entries) >= MaxItems \/ used + Size[i] > MaxBytes

BadPutAgain(i, rec, stamp) ==
    /\ ~PutQuarantined(i, stamp)
    /\ Exists(i, "json")
    /\ ~PutConflict(i, rec)
    /\ owed' = [owed EXCEPT ![i] = rec]
    /\ UNCHANGED <<dir, images, used, open, faults>>

\* The identical entry is already there: the flush a prior write may have
\* missed is completed before the receipt is reported.
PutAgain(i, rec, stamp) ==
    /\ ~PutQuarantined(i, stamp)
    /\ Exists(i, "json")
    /\ ~PutConflict(i, rec)
    /\ dir' = dir
    /\ Flushed
    /\ owed' = [owed EXCEPT ![i] = rec]
    /\ UNCHANGED <<used, open>>

\* atomicFile renamed the entry into place and flushed the directory.
PutWritten(i, rec, stamp) ==
    /\ ~PutQuarantined(i, stamp)
    /\ ~Exists(i, "json")
    /\ ~PutFull(i)
    /\ dir' = [dir EXCEPT ![i]["json"] = rec]
    /\ used' = used + Size[i]
    /\ Flushed
    /\ owed' = [owed EXCEPT ![i] = rec]
    /\ UNCHANGED open

BadPutUnflushed(i, rec, stamp) ==
    /\ ~PutQuarantined(i, stamp)
    /\ ~Exists(i, "json")
    /\ ~PutFull(i)
    /\ dir' = [dir EXCEPT ![i]["json"] = rec]
    /\ Unflushed
    /\ UNCHANGED <<used, open, owed>>

\* atomicFile renamed the entry but the flush failed: put reports the error
\* and still accounts for the file.
PutUnflushed(i, rec, stamp) ==
    /\ ~PutQuarantined(i, stamp)
    /\ ~Exists(i, "json")
    /\ ~PutFull(i)
    /\ dir' = [dir EXCEPT ![i]["json"] = rec]
    /\ used' = used + Size[i]
    /\ Unflushed
    /\ UNCHANGED <<open, owed>>

\* The outcomes of put that return nil.  PutUnflushed returns an error, as do
\* the refusals (quarantined, conflict, full), which change nothing.
PutOk(i, d, t, stamp) ==
    /\ open
    /\ LET rec == Stamped(i, d, t, stamp)
       IN  PutAgain(i, rec, stamp) \/ PutWritten(i, rec, stamp)

PutFlushError(i, d, t, stamp) ==
    /\ open
    /\ PutUnflushed(i, Stamped(i, d, t, stamp), stamp)

PutRefused(i, d, t, stamp) ==
    \/ PutQuarantined(i, stamp)
    \/ PutConflict(i, Stamped(i, d, t, stamp))
    \/ ~Exists(i, "json") /\ PutFull(i)

(***************************************************************************)
(* Next.  Entries are read in the order of their names.  A readable head   *)
(* is returned and nothing changes; a damaged one is renamed to .corrupt.  *)
(***************************************************************************)
Head(i) == Exists(i, "json") /\ \A j \in Ids : Exists(j, "json") => i <= j

NextFound(i) == open /\ Head(i) /\ dir[i]["json"] \in Record

NextQuarantine(i) ==
    /\ open
    /\ Head(i)
    /\ dir[i]["json"] = Damaged
    /\ ~Exists(i, "corrupt")
    /\ dir' = [dir EXCEPT ![i] = Renamed(i, "json", "corrupt")]
    /\ Flushed \/ Unflushed
    /\ UNCHANGED <<used, open, owed>>

(***************************************************************************)
(* Ack, Reject and RetryRejected.                                          *)
(***************************************************************************)
\* The caller has finished with the message: the promise ends here, whether
\* the file was still there or not.
Ack(i) ==
    /\ open
    /\ owed' = [owed EXCEPT ![i] = NoFile]
    /\ \/ /\ Exists(i, "json")
          /\ dir' = [dir EXCEPT ![i]["json"] = NoFile]
          /\ used' = used - Size[i]
          /\ Flushed \/ Unflushed
       \/ /\ ~Exists(i, "json")
          /\ UNCHANGED <<dir, images, used, faults>>
    /\ UNCHANGED open

BadReject(i) ==
    /\ open
    /\ Exists(i, "json")
    /\ dir' = [dir EXCEPT ![i] = Renamed(i, "json", "rejected")]
    /\ used' = used - Size[i]
    /\ Flushed \/ Unflushed
    /\ UNCHANGED <<open, owed>>

Reject(i) ==
    /\ open
    /\ Exists(i, "json")
    /\ dir' = [dir EXCEPT ![i] = Renamed(i, "json", "rejected")]
    /\ Flushed \/ Unflushed
    /\ UNCHANGED <<used, open, owed>>

\* Operator action.  A failing rename, or an active entry with the same name,
\* ends the loop after the entries in done, without a flush.
RetryRejected ==
    /\ open
    /\ LET rejected == {i \in Ids : Exists(i, "rejected")}
           blocked  == {i \in rejected : Exists(i, "json")}
       IN \E done \in SUBSET (rejected \ blocked) :
            /\ \A i \in done, j \in rejected : j < i => j \in done
            /\ dir' = [i \in Ids |-> IF i \in done THEN Renamed(i, "rejected", "json")
                                     ELSE dir[i]]
            /\ Unflushed \/ (done = rejected /\ Flushed)
    /\ UNCHANGED <<used, open, owed>>

(***************************************************************************)
(* The process and the machine.                                            *)
(***************************************************************************)
\* OpenQueue takes the directory lock and recounts the bytes.
OpenQueue ==
    /\ ~open
    /\ open' = TRUE
    /\ used' = Bytes
    /\ UNCHANGED <<dir, images, owed, faults>>

\* Close, or the death of the process: the lock goes, the files stay.
Close ==
    /\ open
    /\ open' = FALSE
    /\ used' = 0
    /\ UNCHANGED <<dir, images, owed, faults>>

\* The machine loses power: what was not flushed may be there or not.
PowerLoss ==
    /\ Fault
    /\ open' = FALSE
    /\ used' = 0
    /\ dir' \in [Ids -> UNION {images[i] : i \in Ids}]
    /\ \A i \in Ids : dir'[i] \in images[i]
    /\ images' = [i \in Ids |-> {dir'[i]}]
    /\ UNCHANGED owed

\* The bytes of an active entry rot on disk (its length stays).
Damage(i) ==
    /\ Fault
    /\ dir[i]["json"] \in Record
    /\ dir' = [dir EXCEPT ![i]["json"] = Damaged]
    /\ images' = [images EXCEPT ![i] =
                    {[img EXCEPT !["json"] = IF @ = NoFile THEN NoFile ELSE Damaged]
                        : img \in images[i]}]
    /\ UNCHANGED <<used, open, owed>>

Init ==
    /\ dir = [i \in Ids |-> Empty]
    /\ images = [i \in Ids |-> {Empty}]
    /\ used = 0
    /\ open = FALSE
    /\ owed = [i \in Ids |-> NoFile]
    /\ faults = MaxFaults

Put(i) ==
    \E d \in Data, t \in Times, stamp \in BOOLEAN :
        PutOk(i, d, t, stamp) \/ PutFlushError(i, d, t, stamp)

Next ==
    \/ \E i \in Ids : Put(i) \/ NextQuarantine(i) \/ Ack(i) \/ Reject(i) \/ Damage(i)
    \/ RetryRejected
    \/ OpenQueue
    \/ Close
    \/ PowerLoss

Spec == Init /\ [][Next]_qvars

-----------------------------------------------------------------------------
(***************************************************************************)
(* Properties.                                                             *)
(***************************************************************************)
DiskTypeOK ==
    /\ dir \in [Ids -> [Suffix -> Content]]
    /\ images \in [Ids -> SUBSET [Suffix -> Content]]
    /\ owed \in [Ids -> Record \cup {NoFile}]

\* The shape of the state; the accounted bytes never go negative.
TypeOK ==
    /\ DiskTypeOK
    /\ used \in Nat
    /\ open \in BOOLEAN
    /\ faults \in 0 .. MaxFaults

\* At most one of the three names of an identity holds a file.
Single(img) == \A s1, s2 \in Suffix : img[s1] # NoFile /\ img[s2] # NoFile => s1 = s2

\* What a rename could destroy: in every state the disk may come back with, an
\* identity has one file, active or quarantined, so no rename overwrites one
\* and a quarantined message is not also active.
OneNamePerIdentity == \A i \in Ids : Single(dir[i]) /\ \A img \in images[i] : Single(img)

\* A message whose put returned nil, and that was not acknowledged since, is on
\* disk in every state the disk may come back with: under one of its names, with
\* the content and the first reception time it was accepted with, or as damaged
\* bytes that are kept.
AcceptedSurvives ==
    \A i \in Ids : owed[i] # NoFile =>
        \A img \in images[i] : \E s \in Suffix : img[s] \in {owed[i], Damaged}

\* Queue.used, kept incrementally across failed flushes, removals and
\* quarantines, is the byte count a fresh OpenQueue would compute.
UsedIsExact == open => used = Bytes

\* No step of a live queue takes the directory over either limit.  (After a
\* power loss a removal that was not flushed may come back.)
CapacityRespected ==
    [][Cardinality(Entries') > Cardinality(Entries) /\ open' =>
         Cardinality(Entries') <= MaxItems /\ Bytes' <= MaxBytes]_qvars

\* The directory is sound: its files have their shape, an identity has one name,
\* and the count kept in memory is that of the files.
DirectoryIsSound == TypeOK /\ OneNamePerIdentity /\ UsedIsExact

=============================================================================
