--------------------------- MODULE ListenerSession ---------------------------
(***************************************************************************)
(* One protocol listener (or dialler) and its TCP sessions: reconciliation *)
(* with the access profile, acceptance, frames, identification of the      *)
(* device, commands that wait for a correlated reply, and closing.         *)
(*                                                                         *)
(* A frame runs under the session's lock, but other sessions, Command and  *)
(* close() run between its steps: fstep[s] says how far it is; "none" and  *)
(* "ended" (the receiving goroutine returned) mean that the lock is free.  *)
(***************************************************************************)
EXTENDS Naturals, FiniteSets

CONSTANTS
    Sessions,           \* connections, each used once
    LDevices,           \* devices that may identify themselves
    Commands,           \* calls of Command; every package uses one correlation id
    MaxSessions,        \* sessions a listener accepts, 128 in the code
    LNil

ASSUME ListenerAssumption ==
    /\ MaxSessions \in Nat \ {0} /\ IsFiniteSet(Sessions)
    /\ LNil \notin LDevices \cup Commands \cup Sessions

VARIABLES
    host,           \* "down", "up", "cancelled" (its context ended), "stopping"
    boundVersion,   \* version of the release the product is bound to
    sess,           \* "none", "open", "closed" (flag set), "removed", "reported"
    doomed,         \* sessions on which close() has been called
    dev,            \* dev[s]: the device the session identified, or LNil
    partial, version,
    fstep, fdev, freply,    \* the frame in progress: step, its device, whose reply it is
    identified,     \* identified[d]: the session commands for d go to
    pending,        \* pending[s]: the command that waits on the session
    command,        \* command[q]: "new", "wait", "timeout", or its result; "misled"
                    \* is an acknowledgement by the reply to another command
    on,             \* on[q]: the session the command was written to
    wire,           \* replies the device has yet to send: <<s, q>>
    sentVersion,    \* history: sentVersion[q]: the release that encoded the command
    counts, online      \* connectionCounts, and the last reported projection

lvars == <<host, boundVersion, sess, doomed, dev, partial, version, fstep, fdev, freply,
           identified, pending, command, on, wire, sentVersion, counts, online>>

IsOpen(s) == sess[s] = "open"
Free(s) == fstep[s] \in {"none", "ended"}
Live == {s \in Sessions : sess[s] \in {"open", "closed"}}      \* h.sessions

ListenerInit ==
    /\ host = "down" /\ boundVersion = 1
    /\ sess = [s \in Sessions |-> "none"] /\ doomed = {}
    /\ dev = [s \in Sessions |-> LNil] /\ partial = [s \in Sessions |-> FALSE]
    /\ version = [s \in Sessions |-> 0]
    /\ fstep = [s \in Sessions |-> "none"] /\ fdev = [s \in Sessions |-> LNil]
    /\ freply = [s \in Sessions |-> LNil]
    /\ identified = [d \in LDevices |-> LNil]
    /\ pending = [s \in Sessions |-> LNil]
    /\ command = [q \in Commands |-> "new"] /\ on = [q \in Commands |-> LNil]
    /\ wire = {} /\ sentVersion = [q \in Commands |-> 0]
    /\ counts = [d \in LDevices |-> 0] /\ online = [d \in LDevices |-> FALSE]

frameVars == <<partial, version, fstep, fdev, freply>>
commandVars == <<pending, command, on, wire>>
projection == <<counts, online>>

-----------------------------------------------------------------------------
(* The listener. *)

\* A tick of the reconciliation opens the socket (or starts dialling).
Reconcile ==
    /\ host = "down" /\ \A s \in Sessions : sess[s] = "none"    \* bound: opened once
    /\ host' = "up"
    /\ UNCHANGED <<boundVersion, sess, doomed, dev, frameVars, identified, commandVars,
                   sentVersion, projection>>

\* The profile is disabled or changed, the lease is lost, or the process ends:
\* the context is cancelled first, then the sessions of the moment are closed.
StopHost ==
    \/ /\ host = "up" /\ host' = "cancelled" /\ UNCHANGED doomed
       /\ UNCHANGED <<boundVersion, sess, dev, frameVars, identified, commandVars, sentVersion, projection>>
    \/ /\ host = "cancelled" /\ host' = "stopping" /\ doomed' = doomed \cup Live
       /\ UNCHANGED <<boundVersion, sess, dev, frameVars, identified, commandVars, sentVersion, projection>>
    \/ /\ host = "stopping" /\ doomed \cap Live = {} /\ host' = "down" /\ UNCHANGED doomed
       /\ UNCHANGED <<boundVersion, sess, dev, frameVars, identified, commandVars, sentVersion, projection>>

\* The product is bound to another release.
Rebind ==
    /\ boundVersion = 1 /\ boundVersion' = 2
    /\ UNCHANGED <<host, sess, doomed, dev, frameVars, identified, commandVars, sentVersion, projection>>

BadAccept(s) ==
    /\ host \in {"up", "cancelled", "stopping"} /\ sess[s] = "none" /\ Cardinality(Live) < MaxSessions
    /\ sess' = [sess EXCEPT ![s] = "open"]
    /\ UNCHANGED <<host, boundVersion, doomed, dev, frameVars, identified, commandVars, sentVersion,
                   projection>>

\* A connection is accepted; the limit and the context are checked
\* under the listener's lock.
Accept(s) ==
    /\ host = "up" /\ sess[s] = "none" /\ Cardinality(Live) < MaxSessions
    /\ sess' = [sess EXCEPT ![s] = "open"]
    /\ UNCHANGED <<host, boundVersion, doomed, dev, frameVars, identified, commandVars, sentVersion,
                   projection>>

\* A host that dials has one session after the other and no limit to check.
dial(s) ==
    /\ host = "up" /\ sess[s] = "none" /\ Live = {}
    /\ sess' = [sess EXCEPT ![s] = "open"]
    /\ UNCHANGED <<host, boundVersion, doomed, dev, frameVars, identified, commandVars, sentVersion,
                   projection>>

-----------------------------------------------------------------------------
(* Frames. *)

BadSelectRelease(s) == IF version[s] # 0 /\ partial[s] THEN version[s] ELSE boundVersion

\* A half frame and outstanding commands keep their version.
selectRelease(s) ==
    IF version[s] # 0 /\ (partial[s] \/ pending[s] # LNil) THEN version[s] ELSE boundVersion

\* A frame that cannot be handled ends the session (receiveTCP returns).
FrameFails(s) ==
    /\ IsOpen(s) /\ (s \notin doomed \/ ~Free(s))
    /\ doomed' = doomed \cup {s}
    /\ fstep' = [fstep EXCEPT ![s] = "ended"]
    /\ fdev' = [fdev EXCEPT ![s] = LNil] /\ freply' = [freply EXCEPT ![s] = LNil]
    /\ UNCHANGED <<host, boundVersion, sess, dev, partial, version, identified,
                   commandVars, sentVersion, projection>>

\* Bytes arrive: an incomplete frame, or one of device d that may answer q.
FrameBegin(s, d, q) ==
    /\ IsOpen(s) /\ fstep[s] = "none" /\ host = "up"
    /\ dev[s] # LNil => identified[dev[s]] = s /\ d = dev[s]
    /\ version' = [version EXCEPT ![s] = selectRelease(s)]
    /\ \/ /\ q = LNil /\ partial' = [partial EXCEPT ![s] = TRUE]      \* needMore
          /\ UNCHANGED <<fstep, fdev, freply, wire>>
       \/ /\ fstep' = [fstep EXCEPT ![s] = "decoded"] /\ fdev' = [fdev EXCEPT ![s] = d]
          /\ q # LNil => <<s, q>> \in wire
          /\ freply' = [freply EXCEPT ![s] = q]
          /\ wire' = wire \ {<<s, q>>}
          /\ UNCHANGED partial
    /\ UNCHANGED <<host, boundVersion, sess, doomed, dev, identified, pending, command, on,
                   sentVersion, projection>>

\* device() accepts the device, and the frame and its children are ingested;
\* if the profile was disabled or a child is refused, FrameFails happens.
FrameIngest(s) ==
    /\ fstep[s] = "decoded"
    /\ fstep' = [fstep EXCEPT ![s] = "ingested"]
    /\ UNCHANGED <<host, boundVersion, sess, doomed, dev, partial, version, fdev, freply,
                   identified, pending, command, on, wire, sentVersion, projection>>

\* The counter of sessions per device; only its edges are projected.
reportConnection(d, connected) ==
    /\ counts' = [counts EXCEPT ![d] = IF connected THEN @ + 1 ELSE IF @ > 0 THEN @ - 1 ELSE 0]
    /\ online' = [online EXCEPT ![d] = IF connected THEN TRUE ELSE IF counts[d] > 1 THEN @ ELSE FALSE]

\* The session takes the device over; a previous session of it is closed.
FrameIdentify(s) ==
    LET d == fdev[s]
        previous == identified[d] IN
    /\ fstep[s] = "ingested"
    /\ fstep' = [fstep EXCEPT ![s] = "identified"]
    /\ partial' = [partial EXCEPT ![s] = FALSE]
    /\ IF dev[s] = LNil THEN reportConnection(d, TRUE) ELSE UNCHANGED projection
    /\ dev' = [dev EXCEPT ![s] = d]
    /\ identified' = [identified EXCEPT ![d] = s]
    /\ doomed' = doomed \cup ({previous} \ {LNil, s})
    /\ UNCHANGED <<host, boundVersion, sess, version, fdev, freply, commandVars, sentVersion>>

\* The reply is written, and a frame with the correlation id completes the
\* command that waits on the session.
FrameReply(s) ==
    /\ fstep[s] = "identified"
    /\ fstep' = [fstep EXCEPT ![s] = "none"]
    /\ fdev' = [fdev EXCEPT ![s] = LNil] /\ freply' = [freply EXCEPT ![s] = LNil]
    /\ IF freply[s] # LNil /\ pending[s] # LNil
       THEN /\ command' = [command EXCEPT ![pending[s]] =
                            IF @ # "wait" THEN @ ELSE IF freply[s] = pending[s] THEN "acknowledged" ELSE "misled"]
            /\ pending' = [pending EXCEPT ![s] = LNil]
       ELSE UNCHANGED <<command, pending>>
    /\ UNCHANGED <<host, boundVersion, sess, doomed, dev, partial, version, identified, on,
                   wire, sentVersion, projection>>

-----------------------------------------------------------------------------
(* close(): the flag and the pending results, then the listener's maps, then *)
(* the connection report.                                                    *)
CloseSession(s) ==
    /\ s \in doomed /\ IsOpen(s) /\ Free(s)
    /\ sess' = [sess EXCEPT ![s] = "closed"]
    /\ partial' = [partial EXCEPT ![s] = FALSE] /\ version' = [version EXCEPT ![s] = 0]
    /\ wire' = {x \in wire : x[1] # s}
    /\ command' = [q \in Commands |-> IF pending[s] = q /\ command[q] = "wait" THEN "failed" ELSE command[q]]
    /\ pending' = [pending EXCEPT ![s] = LNil]
    /\ UNCHANGED <<host, boundVersion, doomed, dev, fstep, fdev, freply, identified, on,
                   sentVersion, projection>>

CloseRemove(s) ==
    /\ sess[s] = "closed"
    /\ sess' = [sess EXCEPT ![s] = "removed"]
    /\ identified' = [d \in LDevices |-> IF d = dev[s] /\ identified[d] = s THEN LNil ELSE identified[d]]
    /\ UNCHANGED <<host, boundVersion, doomed, dev, frameVars, commandVars, sentVersion, projection>>

BadCloseReport(s) ==
    /\ sess[s] = "removed"
    /\ sess' = [sess EXCEPT ![s] = "reported"]
    /\ IF dev[s] # LNil /\ identified[dev[s]] = LNil THEN reportConnection(dev[s], FALSE) ELSE UNCHANGED projection
    /\ UNCHANGED <<host, boundVersion, doomed, dev, frameVars, identified, commandVars, sentVersion>>

CloseReport(s) ==
    /\ sess[s] = "removed"
    /\ sess' = [sess EXCEPT ![s] = "reported"]
    /\ IF dev[s] # LNil THEN reportConnection(dev[s], FALSE) ELSE UNCHANGED projection
    /\ UNCHANGED <<host, boundVersion, doomed, dev, frameVars, identified, commandVars, sentVersion>>

-----------------------------------------------------------------------------
(* Command: one at a time per session, by an operator or the poll loop. *)

\* Some command is between its write and its return on the session.
commandBusy(s) == \E q \in Commands : on[q] = s /\ command[q] \in {"wait", "timeout"}

WriteCommand(q, d, s) ==
    /\ command[q] = "new" /\ host # "down"
    /\ IsOpen(s) /\ Free(s) /\ dev[s] = d /\ ~partial[s]
    /\ identified[d] \in {s, LNil}
    /\ ~commandBusy(s) /\ pending[s] = LNil
    /\ version' = [version EXCEPT ![s] = selectRelease(s)]
    /\ on' = [on EXCEPT ![q] = s] /\ sentVersion' = [sentVersion EXCEPT ![q] = version'[s]]
    /\ \/ /\ command' = [command EXCEPT ![q] = "wait"]       \* written
          /\ pending' = [pending EXCEPT ![s] = q] /\ wire' = wire \cup {<<s, q>>} /\ UNCHANGED doomed
       \/ /\ command' = [command EXCEPT ![q] = "failed"]     \* the write failed
          /\ doomed' = doomed \cup {s} /\ UNCHANGED <<pending, wire>>
    /\ UNCHANGED <<host, boundVersion, sess, dev, partial, fstep, fdev, freply, identified,
                   projection>>

BadCommandTimeout(q) ==
    /\ command[q] = "wait"
    /\ command' = [command EXCEPT ![q] = "failed"]
    /\ pending' = [s \in Sessions |-> IF pending[s] = q THEN LNil ELSE pending[s]]
    /\ UNCHANGED <<host, boundVersion, sess, doomed, dev, frameVars, identified, on, wire,
                   sentVersion, projection>>

WorseCommandTimeout(q) ==
    /\ \/ command[q] = "wait" /\ command' = [command EXCEPT ![q] = "timeout"]
       \/ command[q] = "timeout" /\ sess[on[q]] = "reported"
          /\ command' = [command EXCEPT ![q] = "failed"]
    /\ UNCHANGED <<host, boundVersion, sess, doomed, dev, frameVars, identified, pending, on, wire,
                   sentVersion, projection>>

\* The wait ends without a result: the session is closed, and the command
\* returns only after that.
CommandTimeout(q) ==
    /\ \/ command[q] = "wait" /\ doomed' = doomed \cup {on[q]}
          /\ command' = [command EXCEPT ![q] = "timeout"]
       \/ command[q] = "timeout" /\ sess[on[q]] = "reported" /\ UNCHANGED doomed
          /\ command' = [command EXCEPT ![q] = "failed"]
    /\ UNCHANGED <<host, boundVersion, sess, dev, frameVars, identified, pending, on, wire,
                   sentVersion, projection>>

FrameStep(s) ==
    \/ \E d \in LDevices, q \in Commands \cup {LNil} : FrameBegin(s, d, q)
    \/ FrameFails(s) \/ FrameIngest(s) \/ FrameIdentify(s) \/ FrameReply(s)

FrameGoesOn(s) ==
    ~Free(s) /\ (FrameFails(s) \/ FrameIngest(s) \/ FrameIdentify(s) \/ FrameReply(s))

CloseStep(s) == CloseSession(s) \/ CloseRemove(s) \/ CloseReport(s)

ListenerNext ==
    \/ Reconcile \/ StopHost \/ Rebind
    \/ \E s \in Sessions : Accept(s) \/ dial(s) \/ FrameStep(s) \/ CloseStep(s)
    \/ \E q \in Commands :
        \/ CommandTimeout(q)
        \/ \E d \in LDevices, s \in Sessions : WriteCommand(q, d, s)

ListenerSpec == ListenerInit /\ [][ListenerNext]_lvars

\* Goroutines run: a frame in progress goes on or fails, close() gets the
\* lock (Go's mutex does not starve a waiter), a wait ends at its timeout.
ListenerFairness ==
    /\ \A s \in Sessions :
        /\ SF_lvars(CloseStep(s))
        /\ WF_lvars(FrameGoesOn(s))
    /\ \A q \in Commands : WF_lvars(CommandTimeout(q))

-----------------------------------------------------------------------------
\* A device is projected as connected exactly while a session that identified
\* it has not finished closing, in whatever order sessions open, replace each
\* other and close ("closing one of several sessions must not project a false
\* disconnect").
ConnectionIsProjected ==
    \A d \in LDevices :
        /\ counts[d] = Cardinality({s \in Sessions : dev[s] = d /\ sess[s] # "reported"})
        /\ online[d] <=> counts[d] > 0

\* A command is acknowledged only by the reply to that command, although the
\* package gives every command the same correlation id and replies come late.
OwnReplyOnly == \A q \in Commands : command[q] # "misled"

\* The reply to a command is decoded by the release that encoded the command,
\* although the product may be bound to another one while the command waits.
PendingKeepsVersion ==
    \A s \in Sessions : pending[s] # LNil /\ IsOpen(s) => version[s] = sentVersion[pending[s]]

\* Once a listener has stopped, none of its sessions is open, also when a
\* connection was being accepted meanwhile.
StoppedHasNoSession == host = "down" => \A s \in Sessions : ~IsOpen(s)

\* Every command that was written gets a result.
CommandsEnd == \A q \in Commands : command[q] \in {"wait", "timeout"} ~> command[q] \in {"acknowledged", "failed"}

\* Sessions are sound: connections are projected as they are, none survives its
\* listener, and a command is answered by its own reply, read by its own release.
SessionsAreSound ==
    ConnectionIsProjected /\ StoppedHasNoSession /\ OwnReplyOnly /\ PendingKeepsVersion

=============================================================================
