------------------------------- MODULE GbGateway -------------------------------
(***************************************************************************)
(* The stand-alone GB26875 gateway: one goroutine per TCP connection and   *)
(* one for UDP read frames, register the device with the platform, forward *)
(* the frame, confirm it to the device, and hand frames to the control     *)
(* calls that wait for a confirmation of a time synchronisation.           *)
(***************************************************************************)
EXTENDS Naturals

CONSTANTS
    Links,          \* TCP connections, and the UDP socket, of one device
    UdpLink,
    Syncs,          \* control API calls
    SeqMax,         \* 65535 in the code: sequence numbers wrap around past it
    MaxFrames,      \* bound: frames the device sends
    GNone
ASSUME GatewayAssumption == SeqMax \in Nat \ {0} /\ GNone \notin Syncs

Kinds == {"report", "ack", "timeRequest"}

VARIABLES
    link,       \* link[l]: closed, reading, or the step processing its frame
    frames,     \* frames read so far, the last one's number
    known,      \* platformClient.devices: the device was registered by this process
    registered, \* the device exists on the platform
    accepted,   \* frames the platform accepted
    confirmedFrames,  \* frames the device got an answer for
    session,    \* byDevice: whether it exists, the link it writes to, its sequence
    waitingSyncs,    \* waitingSyncs[s]: the call waiting for sequence s
    sync,       \* sync[y]: step, sequence, the frame it was given and that frame's sequence
    turn,       \* how often the numbers have started again at 1
    turnOf,     \* turnOf[y]: the turn in which the call took its number
    reused      \* calls that took the number of a waiting call, or had theirs taken

turnVars == <<turn, turnOf, reused>>
gvars == <<link, frames, known, registered, accepted, confirmedFrames, session, waitingSyncs, sync, turnVars>>

Reading == [at |-> "reading", no |-> 0, kind |-> "none", seq |-> 0]
Shut == [Reading EXCEPT !.at = "closed"]
NoSession == [live |-> FALSE, via |-> GNone, seq |-> 0]
NewSync == [at |-> "new", seq |-> 0, got |-> 0, kind |-> "none", gotSeq |-> 0]

GatewayInit ==
    /\ link = [l \in Links |-> IF l = UdpLink THEN Reading ELSE Shut]
    /\ frames = 0 /\ known = FALSE /\ registered = FALSE /\ accepted = {} /\ confirmedFrames = {}
    /\ session = NoSession /\ waitingSyncs = [s \in 1 .. SeqMax |-> GNone]
    /\ sync = [y \in Syncs |-> NewSync]
    /\ turn = 0 /\ turnOf = [y \in Syncs |-> 0] /\ reused = {}

AcceptConn(l) ==
    /\ l # UdpLink /\ link[l] = Shut /\ frames < MaxFrames
    /\ link' = [link EXCEPT ![l] = Reading]
    /\ UNCHANGED <<frames, known, registered, accepted, confirmedFrames, session, waitingSyncs, sync, turnVars>>

\* readFrame, or one UDP datagram: a frame whose parser accepts it. The device numbers
\* its own frames; a confirmation carries the number of what it confirms.
readFrame(l, kind, seq) ==
    /\ link[l].at = "reading" /\ frames < MaxFrames
    /\ frames' = frames + 1
    /\ link' = [link EXCEPT ![l] = [at |-> "forward", no |-> frames + 1, kind |-> kind, seq |-> seq]]
    /\ UNCHANGED <<known, registered, accepted, confirmedFrames, session, waitingSyncs, sync, turnVars>>

\* forward: the device is registered once per process, before its first frame.
RegisterDevice(l) ==
    /\ link[l].at = "forward" /\ ~known
    /\ registered' = TRUE /\ known' = TRUE
    /\ UNCHANGED <<link, frames, accepted, confirmedFrames, session, waitingSyncs, sync, turnVars>>

\* The frame is posted. A failure, or a lost answer, leaves the frame unconfirmed and
\* the goroutine goes on reading.
ForwardRaw(l, answered) ==
    /\ link[l].at = "forward" /\ known /\ registered
    /\ accepted' = accepted \cup {link[l].no}
    /\ link' = [link EXCEPT ![l] = IF answered THEN [@ EXCEPT !.at = "session"] ELSE Reading]
    /\ UNCHANGED <<frames, known, registered, confirmedFrames, session, waitingSyncs, sync, turnVars>>
BadForwardFails(l) ==
    /\ link[l].at = "forward"
    /\ link' = [link EXCEPT ![l].at = "session"]
    /\ UNCHANGED <<frames, known, registered, accepted, confirmedFrames, session, waitingSyncs, sync, turnVars>>
ForwardFails(l) ==
    /\ link[l].at = "forward"
    /\ link' = [link EXCEPT ![l] = Reading]
    /\ UNCHANGED <<frames, known, registered, accepted, confirmedFrames, session, waitingSyncs, sync, turnVars>>

\* registerTCP and registerUDP: the session of the device is reused and now writes to
\* this link.
RegisterSession(l) ==
    /\ link[l].at = "session"
    /\ session' = [live |-> TRUE, via |-> l, seq |-> session.seq]
    /\ link' = [link EXCEPT ![l].at = "deliver"]
    /\ UNCHANGED <<frames, known, registered, accepted, confirmedFrames, waitingSyncs, sync, turnVars>>

\* deliver: a waiter of this sequence number is given the frame, if it has none yet.
deliver(l) ==
    /\ link[l].at = "deliver"
    /\ link' = [link EXCEPT ![l].at = "answer"]
    /\ LET y == IF link[l].seq \in DOMAIN waitingSyncs THEN waitingSyncs[link[l].seq] ELSE GNone
       IN sync' = IF session.live /\ y # GNone /\ sync[y].got = 0
                  THEN [sync EXCEPT ![y].got = link[l].no, ![y].kind = link[l].kind,
                                        ![y].gotSeq = link[l].seq]
                  ELSE sync
    /\ UNCHANGED <<frames, known, registered, accepted, confirmedFrames, session, waitingSyncs, turnVars>>

\* A report is confirmed, a request for the time is answered with it, a confirmation is
\* not confirmed. A TCP link whose write fails is closed.
Answer(l, ok) ==
    /\ link[l].at = "answer"
    /\ confirmedFrames' = IF ok /\ link[l].kind # "ack" THEN confirmedFrames \cup {link[l].no} ELSE confirmedFrames
    /\ link' = [link EXCEPT ![l] = IF ~ok /\ l # UdpLink /\ link[l].kind # "ack" THEN Shut ELSE Reading]
    /\ UNCHANGED <<frames, known, registered, accepted, session, waitingSyncs, sync, turnVars>>

\* The device disconnects or is silent for 90 seconds. The deferred remove is given the
\* outer deviceID, which the loop's own deviceID shadows: it is empty and nothing is removed.
Disconnect(l) ==
    /\ l # UdpLink /\ link[l].at = "reading"
    /\ link' = [link EXCEPT ![l] = Shut]
    /\ UNCHANGED <<frames, known, registered, accepted, confirmedFrames, session, waitingSyncs, sync, turnVars>>

\* requestTimeSync: the next number, never 0, and a waiter for it in the place of whatever
\* call has the number; then the write.
NextSeq(s) == IF s + 1 > SeqMax THEN 1 ELSE s + 1
Holders(s) == {z \in Syncs : sync[z].at = "wait" /\ sync[z].seq = s}
TakeNumber(y, s) ==
    /\ sync[y].at = "new" /\ session.live
    /\ waitingSyncs' = [waitingSyncs EXCEPT ![s] = y]
    /\ sync' = [sync EXCEPT ![y].at = "wait", ![y].seq = s]
    /\ turn' = IF s <= session.seq THEN turn + 1 ELSE turn
    /\ turnOf' = [turnOf EXCEPT ![y] = turn']
    /\ reused' = IF Holders(s) = {} THEN reused ELSE reused \cup Holders(s) \cup {y}
    /\ UNCHANGED <<link, frames, known, registered, accepted, confirmedFrames>>
BadRequestTimeSync(y) == TakeNumber(y, NextSeq(session.seq)) /\ UNCHANGED session
requestTimeSync(y) ==
    /\ TakeNumber(y, NextSeq(session.seq))
    /\ session' = [session EXCEPT !.seq = NextSeq(@)]

\* The call returns with a frame, or after 30 seconds, or because the link is gone; its
\* waiter is deleted by number.
SyncReturns(y, result) ==
    /\ sync[y].at = "wait"
    /\ \/ result = "done" /\ sync[y].got # 0
       \/ result = "failed"
    /\ sync' = [sync EXCEPT ![y].at = result]
    /\ waitingSyncs' = [waitingSyncs EXCEPT ![sync[y].seq] = GNone]
    /\ UNCHANGED <<link, frames, known, registered, accepted, confirmedFrames, session, turnVars>>

GatewayNext ==
    \/ \E l \in Links :
          \/ AcceptConn(l) \/ RegisterDevice(l) \/ ForwardFails(l) \/ RegisterSession(l)
          \/ deliver(l) \/ Disconnect(l)
          \/ \E kind \in Kinds, seq \in 1 .. SeqMax : readFrame(l, kind, seq)
          \/ \E ok \in BOOLEAN : ForwardRaw(l, ok) \/ Answer(l, ok)
    \/ \E y \in Syncs : requestTimeSync(y) \/ \E r \in {"done", "failed"} : SyncReturns(y, r)

GatewaySpec == GatewayInit /\ [][GatewayNext]_gvars

-----------------------------------------------------------------------------
\* docs/GB26875_DAHUA_V103.md: a report is confirmed once the platform has the frame. A
\* device may forget what is confirmed, so nothing is confirmed that was not accepted.
ConfirmedIsAccepted == confirmedFrames \subseteq accepted

\* A control call that waits is found under its number, whatever other calls for the
\* device start, return or time out meanwhile. The waiters are kept and deleted by number
\* (main.go:131-136), so calls whose number was used twice at a time are excepted; that
\* takes a full turn of the numbers within one wait.
WaiterIsReachable ==
    /\ \A y \in Syncs \ reused : sync[y].at = "wait" => waitingSyncs[sync[y].seq] = y
    /\ \A y \in reused : \E z \in reused : sync[z].seq = sync[y].seq /\ turnOf[z] # turnOf[y]

\* A call is only ever given a frame that carries its own number, also when its number was
\* taken by another call or deleted by one that returned.
FrameIsForItsCall == \A y \in Syncs : sync[y].got # 0 => sync[y].gotSeq = sync[y].seq

\* The gateway confirms nothing the platform does not have, loses no waiting call but by
\* a full turn of the numbers, and mixes up no two calls.
GatewayIsSound == ConfirmedIsAccepted /\ WaiterIsReachable /\ FrameIsForItsCall

=============================================================================
