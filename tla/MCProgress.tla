------------------------------ MODULE MCProgress ------------------------------
(***************************************************************************)
(* Components whose work must come to an end, checked side by side: part   *)
(* says which of them runs, the others keep their initial state. Their     *)
(* fair actions are not enabled there, so each fairness formula constrains *)
(* its own component only.                                                 *)
(***************************************************************************)
EXTENDS WorkProperties, ListenerSession, DeviceCredential, EventBus

CONSTANTS p1, p2

VARIABLE part

MCEndpointOf == [j \in Readers |-> "e"]
\* Two processes: the first worker's, and that of everybody else.
MCProcOf == [w \in Actors |-> IF w = (CHOOSE v \in Workers : TRUE) THEN p1 ELSE p2]

Init ==
    /\ part \in {"video", "replay", "listener", "credential", "collect", "jobs", "state", "bus"}
    /\ VideoInit /\ ReplayInit /\ ListenerInit /\ CredentialInit /\ CollectInit /\ JobsInit
    /\ BusInit
    /\ IF part = "replay" THEN Len(index) = 2 /\ index[2] \in Pinned /\ ~binding
       ELSE index = <<>> /\ binding
    /\ (part # "video" => Rows = {})
    /\ NothingYet /\ now = IF part = "state" THEN 1 ELSE MaxTime

\* Bound: tokens of the first credential only, and no edit of the device beside them.
FirstTokens == asking' \subseteq {1} /\ edit' = <<>>

\* Bound: the parse stage reaches one of the messages that are put on the raw topic again.
OneParsed == handler'.raw \in {RNone} \cup Pinned

allvars == <<part, vvars, rvars, lvars, kvars, mvars, jvars, statevars,
             bvars>>
Keep(p, v) == IF part = p THEN TRUE ELSE UNCHANGED v
OthersIdle ==
    /\ UNCHANGED part
    /\ Keep("video", vvars) /\ Keep("replay", rvars) /\ Keep("listener", lvars)
    /\ Keep("credential", kvars) /\ Keep("collect", mvars) /\ Keep("jobs", jvars)
    /\ Keep("state", statevars) /\ Keep("bus", bvars)

Next ==
    /\ \/ part = "video" /\ VideoNext
       \/ part = "replay" /\ ReplayNext /\ OneParsed
       \/ part = "listener" /\ ListenerNext
       \/ part = "credential" /\ CredentialNext /\ FirstTokens
       \/ part = "collect" /\ CollectNext
       \/ part = "jobs" /\ JobsNext
       \/ part = "state" /\ StateNext
       \/ part = "bus" /\ BusNext
    /\ OthersIdle

(***************************************************************************)
(* The fairness formulas of the components. Each strong one doubles the    *)
(* cases TLC looks at, so the formulas of different components share one:  *)
(* since part never changes, fairness of part = "p" /\ A or part = "q" /\  *)
(* B is fairness of A in the behaviours of p and of B in those of q.       *)
(***************************************************************************)
MediaOrder == SetToSeq(MediaJobs)
SessionOrder == SetToSeq(Sessions)
ReaderOrder == SetToSeq(Readers)
ActorOrder == SetToSeq(Actors)
JobOrder == SetToSeq(JobWorkers)
ScanOrder == SetToSeq(Scanners)
TopicOrder == SetToSeq(Topics)
Has(p, order, i) == part = p /\ i <= Len(order)

StrongStep(i) ==
    \/ Has("video", MediaOrder, i) /\ processVideoMedia(MediaOrder[i], TRUE)
    \/ Has("listener", SessionOrder, i) /\ CloseStep(SessionOrder[i])
    \/ Has("collect", ReaderOrder, i) /\ LockBus(ReaderOrder[i])
    \/ Has("state", ActorOrder, i) /\ Step(ActorOrder[i])
    \/ /\ part = "credential"
       /\ CASE i = 1 -> \E k \in Keys : RetryRevocations(k)
            [] i = 2 -> RevokeBan(RevokeLoop)
            [] i = 3 -> RevokeKick(RevokeLoop)
            [] i = 4 -> UpdateRevocation(RevokeLoop)

WeakStep(i) ==
    \/ part = "replay" /\ i = 1 /\ runReplay
    \/ Has("video", MediaOrder, i) /\ MediaStep(MediaOrder[i])
    \/ part = "video" /\ i = 3 /\ retryPendingVideoMedia
    \/ Has("listener", SessionOrder, i) /\ FrameGoesOn(SessionOrder[i])
    \/ part = "listener" /\ i = 2 /\ \E q \in Commands : CommandTimeout(q)
    \/ Has("collect", ReaderOrder, i) /\ ReadStep(ReaderOrder[i])
    \/ Has("jobs", JobOrder, i) /\ JobStep(JobOrder[i])
    \/ Has("state", ScanOrder, i) /\ ScanOffline(ScanOrder[i])
    \/ part = "state" /\ i = 2 /\ Tick
    \/ Has("bus", TopicOrder, i) /\ ReaderStep(TopicOrder[i])

Spec ==
    /\ Init /\ [][Next]_allvars
    /\ \A i \in 1 .. 4 : SF_allvars(StrongStep(i) /\ OthersIdle)
    /\ \A i \in 1 .. 3 : WF_allvars(WeakStep(i) /\ OthersIdle)

-----------------------------------------------------------------------------
\* What an operator asks for takes effect: a command that was sent is answered or
\* fails (CommandTimeout), and a replaced credential is cut off (RetryRevocations).
RequestsTakeEffect == CommandsEnd /\ ReplacedIsCutOff

=============================================================================
