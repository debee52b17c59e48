--------------------------- MODULE ExecutionLease ---------------------------
(***************************************************************************)
(* The execution lease that lets one access node at a time run an access   *)
(* profile: Coordinator (internal/protocolruntime/coordinator.go) in each  *)
(* process, over the execution_lease row of internal/adapters/postgres/    *)
(* execution.go, for one profile.                                          *)
(*                                                                         *)
(* Coordinator.mu is held across each database call, so a process has at   *)
(* most one call under way; the call is sent, executed by the database and *)
(* answered at different times, and timers fire in between.  A process     *)
(* that restarts has a new owner name, so a process that died stays dead.  *)
(***************************************************************************)
EXTENDS Integers

CONSTANTS
    Procs,        \* processes, each with its own owner name
    Ttl,          \* the database lease: 10 seconds
    Local,        \* the local deadline: 8 seconds
    Untouched,    \* a lease Claim has not touched for longer is released: 3 seconds
    MaxTime,      \* bound on the clock
    MaxTroubles,  \* bound on failing calls
    MaxFrames,    \* bound on the frames that are validated
    Nil           \* no owner, no session, no call, no frame

ASSUME LeaseAssumption ==
    /\ Ttl \in Nat /\ Local \in Nat /\ Untouched \in Nat
    /\ 0 < Local /\ Local < Ttl
    /\ MaxTime \in Nat
    /\ MaxTroubles \in Nat /\ MaxFrames \in Nat
    /\ Nil \notin Procs

Session == [token : Nat, deadline : Nat, touched : Nat, live : BOOLEAN]
Waiting == -1    \* no reply yet; a reply is the token, or Refused
Refused == 0
Call == [kind : {"claim", "renew", "release"}, at : Nat, reply : Nat \cup {Waiting}]

\* A frame waits for Coordinator.mu, for the lease row, for the profile row, and then
\* for its archive.
Frame == [at : {"lock", "lease", "profile", "archive"}, token : Nat]

ASSUME NilAssumption == Nil \notin Session \cup Call \cup Frame

VARIABLES
    now,       \* time; the database clock and the monotonic clocks run at one rate
    lease,     \* the execution_lease row: [owner, token, expires]
    held,      \* held[p]: Coordinator.held: [token, deadline, touched, live], or Nil
    call,      \* call[p]: the call under way: [kind, at, reply], or Nil
    sockets,   \* processes whose listener or poller is open
    frame,     \* frame[p]: a frame of p that Validate is called for, or Nil
    status,    \* status[p]: "up", "stopping" or "dead"
    troubles,  \* failing calls left
    frames     \* frames left

vars == <<now, lease, held, call, sockets, frame, status, troubles, frames>>

\* The session context of p is not cancelled.
Live(p) == held[p] # Nil /\ held[p].live
Free(p) == status[p] # "dead" /\ call[p] = Nil

(***************************************************************************)
(* The execution_lease row.                                                *)
(***************************************************************************)
Expired == lease.expires <= now

\* Faulty variants, named Bad*, are bugs the properties below must detect.
BadAcquireExecutionLease(p) ==
    /\ lease' = [owner |-> p, token |-> lease.token, expires |-> now + Ttl]
    /\ call' = [call EXCEPT ![p].reply = lease'.token]

AcquireExecutionLease(p) ==
    /\ lease' = [owner |-> p, token |-> IF Expired THEN lease.token + 1 ELSE lease.token,
                 expires |-> now + Ttl]
    /\ call' = [call EXCEPT ![p].reply = lease'.token]

BadReleaseExecutionLease(p) ==
    /\ lease' = [lease EXCEPT !.expires = 0]
    /\ call' = [call EXCEPT ![p].reply = held[p].token]

\* An owner that was replaced meanwhile releases nothing.
ReleaseExecutionLease(p) ==
    /\ lease' = IF lease.owner = p /\ lease.token = held[p].token
                THEN [lease EXCEPT !.expires = 0] ELSE lease
    /\ call' = [call EXCEPT ![p].reply = held[p].token]

\* The database executes the statement of p.
Execute(p) ==
    /\ call[p] # Nil
    /\ call[p].reply = Waiting
    /\ \/ /\ call[p].kind \in {"claim", "renew"}
          /\ lease.owner = p \/ Expired
          /\ AcquireExecutionLease(p)
       \/ /\ call[p].kind \in {"claim", "renew"}
          /\ ~(lease.owner = p \/ Expired)
          /\ call' = [call EXCEPT ![p].reply = Refused]
          /\ UNCHANGED lease
       \/ /\ call[p].kind = "release"
          /\ ReleaseExecutionLease(p)
    /\ UNCHANGED <<now, held, sockets, frame, frames, status, troubles>>

(***************************************************************************)
(* Claim.                                                                  *)
(***************************************************************************)
ClaimHeld(p) ==
    /\ Free(p)
    /\ Live(p)
    /\ held' = [held EXCEPT ![p].touched = now]
    /\ UNCHANGED <<now, lease, call, sockets, frame, frames, status, troubles>>

Sent(p, kind) == call' = [call EXCEPT ![p] = [kind |-> kind, at |-> now, reply |-> Waiting]]

ClaimSend(p) ==
    /\ Free(p)
    /\ status[p] = "up"
    /\ ~Live(p)
    /\ Sent(p, "claim")
    /\ UNCHANGED <<now, lease, held, sockets, frame, frames, status, troubles>>

Answered(p, kind) == call[p] # Nil /\ call[p].kind = kind /\ call[p].reply # Waiting

BadClaimDone(p) ==
    /\ Answered(p, "claim")
    /\ held' = IF call[p].reply = Refused THEN held
               ELSE [held EXCEPT ![p] = [token |-> call[p].reply, deadline |-> now + Local,
                                         touched |-> call[p].at, live |-> TRUE]]
    /\ call' = [call EXCEPT ![p] = Nil]
    /\ UNCHANGED <<now, lease, sockets, frame, frames, status, troubles>>

\* The deadline counts from before the call; a late answer is already stale.
ClaimDone(p) ==
    /\ Answered(p, "claim")
    /\ held' = IF call[p].reply = Refused THEN held
               ELSE [held EXCEPT ![p] = [token |-> call[p].reply,
                                         deadline |-> call[p].at + Local,
                                         touched |-> call[p].at,
                                         live |-> now < call[p].at + Local]]
    /\ call' = [call EXCEPT ![p] = Nil]
    /\ UNCHANGED <<now, lease, sockets, frame, frames, status, troubles>>

(***************************************************************************)
(* Run: each tick renews the lease, or gives it up.                        *)
(***************************************************************************)
GivesUp(p) == now - held[p].touched > Untouched \/ ~held[p].live

RenewSend(p) ==
    /\ Free(p)
    /\ held[p] # Nil
    /\ ~GivesUp(p)
    /\ Sent(p, "renew")
    /\ UNCHANGED <<now, lease, held, sockets, frame, frames, status, troubles>>

\* The same token moves the deadline; anything else ends the session.  A timer
\* that fired during the call stays fired.
RenewDone(p) ==
    /\ Answered(p, "renew")
    /\ held' = IF call[p].reply = held[p].token
               THEN [held EXCEPT ![p].deadline = call[p].at + Local]
               ELSE [held EXCEPT ![p] = Nil]
    /\ call' = [call EXCEPT ![p] = Nil]
    /\ UNCHANGED <<now, lease, sockets, frame, frames, status, troubles>>

\* Cancel the session, then release the row.
ReleaseSend(p) ==
    /\ Free(p)
    /\ held[p] # Nil
    /\ GivesUp(p)
    /\ held' = [held EXCEPT ![p].live = FALSE]
    /\ Sent(p, "release")
    /\ UNCHANGED <<now, lease, sockets, frame, frames, status, troubles>>

ReleaseDone(p) ==
    /\ Answered(p, "release")
    /\ held' = [held EXCEPT ![p] = Nil]
    /\ call' = [call EXCEPT ![p] = Nil]
    /\ UNCHANGED <<now, lease, sockets, frame, frames, status, troubles>>

\* A call fails, executed or not: Claim returns false, a renewal that failed
\* cancels the session, the error of a release is ignored.
CallFails(p) ==
    /\ call[p] # Nil
    /\ troubles > 0
    /\ troubles' = troubles - 1
    /\ held' = IF call[p].kind = "claim" THEN held ELSE [held EXCEPT ![p] = Nil]
    /\ call' = [call EXCEPT ![p] = Nil]
    /\ UNCHANGED <<now, lease, sockets, frame, frames, status>>

BadTimerFires(p) ==
    /\ Live(p)
    /\ held[p].deadline <= now
    /\ held' = [held EXCEPT ![p] = Nil]
    /\ UNCHANGED <<now, lease, call, sockets, frame, frames, status, troubles>>

\* time.AfterFunc(..., cancel).
TimerFires(p) ==
    /\ Live(p)
    /\ held[p].deadline <= now
    /\ held' = [held EXCEPT ![p].live = FALSE]
    /\ UNCHANGED <<now, lease, call, sockets, frame, frames, status, troubles>>

(***************************************************************************)
(* What runs under the session: sockets and frames.                        *)
(***************************************************************************)
\* reconcile opens the profile's sockets under the session Claim returned.
OpenSockets(p) ==
    /\ Live(p)
    /\ sockets' = sockets \cup {p}
    /\ UNCHANGED <<now, lease, held, call, frame, frames, status, troubles>>

\* context.AfterFunc(hostCtx, h.stop), some time after the cancellation.
StopSockets(p) ==
    /\ p \in sockets
    /\ ~Live(p)
    /\ sockets' = sockets \ {p}
    /\ UNCHANGED <<now, lease, held, call, frame, frames, status, troubles>>

\* Validate begins while the host's context is alive.
ValidateBegin(p) ==
    /\ p \in sockets /\ Live(p) /\ frame[p] = Nil
    /\ frames > 0 /\ frames' = frames - 1
    /\ frame' = [frame EXCEPT ![p] = [at |-> "lock", token |-> 0]]
    /\ UNCHANGED <<now, lease, held, call, sockets, status, troubles>>

\* Under Coordinator.mu, which a call under way keeps: the token held now.
ReadToken(p) ==
    /\ frame[p] # Nil /\ frame[p].at = "lock" /\ Free(p)
    /\ frame' = [frame EXCEPT ![p] = [at |-> "lease",
                                      token |-> IF held[p] = Nil THEN 0 ELSE held[p].token]]
    /\ UNCHANGED <<now, lease, held, call, sockets, frames, status, troubles>>

\* Validate returns an error: the frame is dropped.
Goes(p, ok, next) ==
    frame' = [frame EXCEPT ![p] = IF ok THEN [frame[p] EXCEPT !.at = next] ELSE Nil]

BadGetExecutionLease(p) ==
    /\ frame[p] # Nil /\ frame[p].at = "lease"
    /\ Goes(p, lease.token >= frame[p].token, "profile")
    /\ UNCHANGED <<now, lease, held, call, sockets, frames, status, troubles>>

\* The unexpired row is this process's, under that token.
GetExecutionLease(p) ==
    /\ frame[p] # Nil /\ frame[p].at = "lease"
    /\ Goes(p, lease.owner = p /\ ~Expired /\ lease.token = frame[p].token, "profile")
    /\ UNCHANGED <<now, lease, held, call, sockets, frames, status, troubles>>

\* A later read.  Operators edit the profile at any time: the stored configuration is
\* the one of the host's snapshot and enabled, or it is not.
GetDeviceAccessProfile(p) ==
    /\ frame[p] # Nil /\ frame[p].at = "profile"
    /\ \E same \in BOOLEAN : Goes(p, same, "archive")
    /\ UNCHANGED <<now, lease, held, call, sockets, frames, status, troubles>>

\* The frame is archived, however long after Validate; or a read or the archive has
\* failed, as it does when the context is cancelled.
Ingest(p) ==
    /\ frame[p] # Nil
    /\ frame' = [frame EXCEPT ![p] = Nil]
    /\ UNCHANGED <<now, lease, held, call, sockets, frames, status, troubles>>

\* The application's context is cancelled: so is the session, and Run's deferred
\* function releases the lease as ReleaseSend does.
Shutdown(p) ==
    /\ status[p] = "up"
    /\ status' = [status EXCEPT ![p] = "stopping"]
    /\ held' = IF Live(p) THEN [held EXCEPT ![p].live = FALSE] ELSE held
    /\ UNCHANGED <<now, lease, call, sockets, frame, frames, troubles>>

Die(p) ==
    /\ status[p] # "dead"
    /\ status' = [status EXCEPT ![p] = "dead"]
    /\ held' = [held EXCEPT ![p] = Nil]
    /\ call' = [call EXCEPT ![p] = Nil]
    /\ sockets' = sockets \ {p}
    /\ frame' = [frame EXCEPT ![p] = Nil]
    /\ UNCHANGED <<now, lease, frames, troubles>>

\* Timers fire, and cancelled sockets are closed, within one unit of time.
Tick ==
    /\ now < MaxTime
    /\ \A p \in Procs : Live(p) => now < held[p].deadline
    /\ \A p \in sockets : Live(p)
    /\ now' = now + 1
    /\ UNCHANGED <<lease, held, call, sockets, frame, frames, status, troubles>>

Init ==
    /\ now = 0
    /\ lease = [owner |-> Nil, token |-> 0, expires |-> 0]
    /\ held = [p \in Procs |-> Nil]
    /\ call = [p \in Procs |-> Nil]
    /\ sockets = {}
    /\ frame = [p \in Procs |-> Nil]
    /\ status = [p \in Procs |-> "up"]
    /\ troubles = MaxTroubles
    /\ frames = MaxFrames

Next ==
    \/ \E p \in Procs :
          \/ Execute(p) \/ ClaimHeld(p) \/ ClaimSend(p) \/ ClaimDone(p)
          \/ RenewSend(p) \/ RenewDone(p) \/ ReleaseSend(p) \/ ReleaseDone(p)
          \/ CallFails(p) \/ TimerFires(p)
          \/ OpenSockets(p) \/ StopSockets(p)
          \/ ValidateBegin(p) \/ ReadToken(p) \/ GetExecutionLease(p)
          \/ GetDeviceAccessProfile(p) \/ Ingest(p)
          \/ Shutdown(p) \/ Die(p)
    \/ Tick

Spec == Init /\ [][Next]_vars

-----------------------------------------------------------------------------
\* The shape of the state; a renewal or a release is under way only for a lease
\* the process holds.
TypeOK ==
    /\ now \in Nat
    /\ lease \in [owner : Procs \cup {Nil}, token : Nat, expires : Nat]
    /\ held \in [Procs -> Session \cup {Nil}]
    /\ call \in [Procs -> Call \cup {Nil}]
    /\ sockets \subseteq Procs
    /\ frame \in [Procs -> Frame \cup {Nil}]
    /\ status \in [Procs -> {"up", "stopping", "dead"}]
    /\ troubles \in 0 .. MaxTroubles
    /\ frames \in 0 .. MaxFrames
    /\ \A p \in Procs : call[p] # Nil /\ call[p].kind # "claim" => held[p] # Nil

\* A process with a live session owns the row, with the token of the session, and
\* the row does not expire before the local deadline has passed.
LiveOwnsLease ==
    \A p \in Procs : Live(p) =>
        /\ lease.owner = p
        /\ lease.token = held[p].token
        /\ lease.expires > now

\* At most one process executes the profile: no two sessions are live at once,
\* whatever is delayed, fails or dies.
OneLiveSession == \A p, q \in Procs : Live(p) /\ Live(q) => p = q

\* Fencing: the row changes hands only with a larger token.
TakeoverFences ==
    [][lease'.owner # lease.owner => lease'.token > lease.token]_vars

\* A frame has passed the lease check of Validate.
Checked(p) == frame[p] # Nil /\ frame[p].at \in {"profile", "archive"}

\* The lease check of a frame succeeds only while no other process has a live session.
\* It may be archived much later: a process that has taken over by then has a larger
\* token than the one the frame was checked with.
ValidateIsExclusive ==
    /\ [](\A p, q \in Procs : p # q /\ Checked(p) /\ Live(q) => frame[p].token < held[q].token)
    /\ [][\A p, q \in Procs : p # q /\ Checked(p)' /\ ~Checked(p) => ~Live(q)]_vars

\* "Stale sockets stop before another process may acquire the same resource."
StaleSocketsStopFirst ==
    \A p, q \in Procs : p \in sockets /\ Live(q) => p = q

\* The lease is exclusive: one live session at most, and it owns the row.
LeaseIsExclusive == TypeOK /\ LiveOwnsLease /\ OneLiveSession

=============================================================================
