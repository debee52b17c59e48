------------------------ MODULE ExecutionLeaseProofs ------------------------
(***************************************************************************)
(* Proof that at most one session of ExecutionLease is live, for any       *)
(* number of processes and any Local < Ttl.                                *)
(***************************************************************************)
EXTENDS ExecutionLease, TLAPS

Grants(p) == call[p] # Nil /\ call[p].kind \in {"claim", "renew"}
             /\ call[p].reply \notin {Waiting, Refused}

\* A live session is before its deadline, and its row outlives the deadline by
\* the margin between the two durations.
LiveInv(p) == Live(p) =>
    /\ now <= held[p].deadline
    /\ held[p].deadline <= now + Local
    /\ lease.owner = p
    /\ lease.token = held[p].token
    /\ held[p].deadline + Ttl <= lease.expires + Local

\* A granted call still holds the row, unless its whole term has passed.
GrantInv(p) == Grants(p) =>
    \/ now >= call[p].at + Ttl
    \/ lease.owner = p /\ lease.token = call[p].reply /\ lease.expires >= call[p].at + Ttl

\* What a call under way says of the session of its process.
CallInv(p) == call[p] # Nil =>
    /\ call[p].at <= now
    /\ call[p].kind # "renew" => ~Live(p)
    /\ Live(p) => held[p].deadline <= call[p].at + Local

TokenInv(p) == held[p] # Nil => held[p].token > 0

Inv(p) == LiveInv(p) /\ GrantInv(p) /\ CallInv(p) /\ TokenInv(p)
IInv == TypeOK /\ \A p \in Procs : Inv(p)

\* Nothing lives, and nothing is under way, at the start.
THEOREM InitIInv == Init => IInv
  BY LeaseAssumption DEF Init, IInv, TypeOK, Inv, LiveInv, GrantInv, CallInv, TokenInv,
     Live, Grants

\* A process that the step does not touch keeps its part of the invariant.
LEMMA OthersKeep ==
  ASSUME NEW q \in Procs, Inv(q), UNCHANGED <<now, lease>>,
         held'[q] = held[q], call'[q] = call[q]
  PROVE  Inv(q)'
  BY DEF Inv, LiveInv, GrantInv, CallInv, TokenInv, Live, Grants

\* A repeated claim only moves the time of the last touch.
LEMMA ClaimHeldKeeps ==
  ASSUME NEW p \in Procs, IInv, ClaimHeld(p)
  PROVE  IInv'
<1> USE LeaseAssumption, NilAssumption
<1>0. held[p] \in Session \cup {Nil} /\ call[p] \in Call \cup {Nil}
  BY DEF IInv, TypeOK
<1>1. TypeOK'
  BY <1>0 DEF IInv, TypeOK, ClaimHeld, Free, Live, Session, Call, Waiting, Refused
<1>2. \A q \in Procs : q # p => Inv(q)'
  BY OthersKeep DEF IInv, TypeOK, ClaimHeld, Free, Live
<1>3. Inv(p)'
  BY <1>0 DEF IInv, TypeOK, ClaimHeld, Free, Live, Inv, LiveInv, GrantInv, CallInv, TokenInv, Live, Grants, Session, Call, Waiting, Refused
<1> QED
  BY <1>1, <1>2, <1>3 DEF IInv

\* A claim that is sent changes no session.
LEMMA ClaimSendKeeps ==
  ASSUME NEW p \in Procs, IInv, ClaimSend(p)
  PROVE  IInv'
<1> USE LeaseAssumption, NilAssumption
<1>0. held[p] \in Session \cup {Nil} /\ call[p] \in Call \cup {Nil}
  BY DEF IInv, TypeOK
<1>1. TypeOK'
  BY <1>0 DEF IInv, TypeOK, ClaimSend, Free, Live, Sent, Session, Call, Waiting, Refused
<1>2. \A q \in Procs : q # p => Inv(q)'
  BY OthersKeep DEF IInv, TypeOK, ClaimSend, Free, Live, Sent
<1>3. Inv(p)'
  BY <1>0 DEF IInv, TypeOK, ClaimSend, Free, Live, Sent, Inv, LiveInv, GrantInv, CallInv, TokenInv, Live, Grants, Session, Call, Waiting, Refused
<1> QED
  BY <1>1, <1>2, <1>3 DEF IInv

\* A grant answered before the deadline still has the row; a later one starts
\* no live session.
LEMMA ClaimDoneKeeps ==
  ASSUME NEW p \in Procs, IInv, ClaimDone(p)
  PROVE  IInv'
<1> USE LeaseAssumption, NilAssumption
<1>0. held[p] \in Session \cup {Nil} /\ call[p] \in Call \cup {Nil}
  BY DEF IInv, TypeOK
<1>1. TypeOK'
  BY <1>0 DEF IInv, TypeOK, ClaimDone, Answered, Session, Call, Waiting, Refused
<1>2. \A q \in Procs : q # p => Inv(q)'
  BY OthersKeep DEF IInv, TypeOK, ClaimDone, Answered
<1>3. CASE call[p].reply = Refused
  <2>1. call'[p] = Nil /\ held'[p] = held[p]
    BY <1>3 DEF IInv, TypeOK, ClaimDone
  <2> QED
    BY <2>1, <1>1, <1>2, OthersKeep
       DEF IInv, Inv, LiveInv, GrantInv, CallInv, TokenInv, Live, Grants, ClaimDone
<1>4. CASE call[p].reply # Refused
  <2>1. /\ call[p] \in Call /\ call[p].kind = "claim" /\ call[p].reply \in Nat \ {0}
        /\ Grants(p)
    BY <1>0, <1>4 DEF ClaimDone, Answered, Call, Waiting, Refused, Grants
  <2>2. /\ held'[p] = [token |-> call[p].reply, deadline |-> call[p].at + Local,
                       touched |-> call[p].at, live |-> now < call[p].at + Local]
        /\ call'[p] = Nil /\ now' = now /\ lease' = lease
    BY <1>4 DEF IInv, TypeOK, ClaimDone
  <2>3. Live(p)' => now < call[p].at + Local
    <3>1. held'[p].live = (now < call[p].at + Local)
      BY <2>2, SMT
    <3> QED
      BY <3>1, Zenon DEF Live
  <2>4. call[p].at \in Nat /\ now \in Nat /\ call[p].at <= now
    BY <2>1 DEF IInv, TypeOK, Inv, CallInv, Call
  <2>5. now < call[p].at + Local =>
            /\ lease.owner = p /\ lease.token = call[p].reply
            /\ lease.expires >= call[p].at + Ttl
    BY <2>1, <2>4 DEF IInv, Inv, GrantInv
  <2>6. lease.expires \in Nat
    BY DEF IInv, TypeOK
  <2>7. LiveInv(p)'
    BY <2>2, <2>3, <2>4, <2>5, <2>6 DEF LiveInv
  <2>8. GrantInv(p)' /\ CallInv(p)' /\ TokenInv(p)'
    BY <2>1, <2>2 DEF GrantInv, CallInv, TokenInv, Grants
  <2> QED
    BY <2>7, <2>8, <1>1, <1>2 DEF IInv, Inv
<1> QED
  BY <1>3, <1>4

\* A renewal starts while the deadline is at most Local away.
LEMMA RenewSendKeeps ==
  ASSUME NEW p \in Procs, IInv, RenewSend(p)
  PROVE  IInv'
<1> USE LeaseAssumption, NilAssumption
<1>0. held[p] \in Session \cup {Nil} /\ call[p] \in Call \cup {Nil}
  BY DEF IInv, TypeOK
<1>1. TypeOK'
  BY <1>0 DEF IInv, TypeOK, RenewSend, Free, Sent, GivesUp, Session, Call, Waiting, Refused
<1>2. \A q \in Procs : q # p => Inv(q)'
  BY OthersKeep DEF IInv, TypeOK, RenewSend, Free, Sent, GivesUp
<1>3. Inv(p)'
  BY <1>0 DEF IInv, TypeOK, RenewSend, Free, Sent, GivesUp, Inv, LiveInv, GrantInv, CallInv, TokenInv, Live, Grants, Session, Call, Waiting, Refused
<1> QED
  BY <1>1, <1>2, <1>3 DEF IInv

\* A renewal under a live session was granted within the old deadline, so the
\* row is still held.
LEMMA RenewDoneKeeps ==
  ASSUME NEW p \in Procs, IInv, RenewDone(p)
  PROVE  IInv'
<1> USE LeaseAssumption, NilAssumption
<1>0. held[p] \in Session \cup {Nil} /\ call[p] \in Call \cup {Nil}
  BY DEF IInv, TypeOK
<1>1. TypeOK'
  BY <1>0 DEF IInv, TypeOK, RenewDone, Answered, Session, Call, Waiting, Refused
<1>2. \A q \in Procs : q # p => Inv(q)'
  BY OthersKeep DEF IInv, TypeOK, RenewDone, Answered
<1>3. Inv(p)'
  BY <1>0 DEF IInv, TypeOK, RenewDone, Answered, Inv, LiveInv, GrantInv, CallInv, TokenInv, Live, Grants, Session, Call, Waiting, Refused
<1> QED
  BY <1>1, <1>2, <1>3 DEF IInv

\* A session is cancelled before its release is sent.
LEMMA ReleaseSendKeeps ==
  ASSUME NEW p \in Procs, IInv, ReleaseSend(p)
  PROVE  IInv'
<1> USE LeaseAssumption, NilAssumption
<1>0. held[p] \in Session \cup {Nil} /\ call[p] \in Call \cup {Nil}
  BY DEF IInv, TypeOK
<1>1. TypeOK'
  <2>1. held' \in [Procs -> Session \cup {Nil}]
    BY <1>0 DEF IInv, TypeOK, ReleaseSend, Live, Session
  <2>2. call' \in [Procs -> Call \cup {Nil}]
    BY <1>0 DEF IInv, TypeOK, ReleaseSend, Free, Sent, GivesUp, Call, Waiting
  <2>3. \A q \in Procs : call'[q] # Nil /\ call'[q].kind # "claim" => held'[q] # Nil
    <3>1. \A q \in Procs : held'[q] = Nil => held[q] = Nil
      BY <1>0 DEF IInv, TypeOK, ReleaseSend, Live, Session
    <3>2. \A q \in Procs : call'[q] # Nil /\ call'[q].kind # "claim" => held[q] # Nil
      BY <1>0 DEF IInv, TypeOK, ReleaseSend, Free, Sent, GivesUp, Session
    <3> QED
      BY <3>1, <3>2
  <2> QED
    BY <2>1, <2>2, <2>3 DEF IInv, TypeOK, ReleaseSend
<1>2. \A q \in Procs : q # p => Inv(q)'
  BY OthersKeep DEF IInv, TypeOK, ReleaseSend, Free, Sent, GivesUp
<1>3. Inv(p)'
  BY <1>0 DEF IInv, TypeOK, ReleaseSend, Free, Sent, GivesUp, Inv, LiveInv, GrantInv, CallInv, TokenInv, Live, Grants, Session, Call, Waiting, Refused
<1> QED
  BY <1>1, <1>2, <1>3 DEF IInv

\* After a release the session is forgotten.
LEMMA ReleaseDoneKeeps ==
  ASSUME NEW p \in Procs, IInv, ReleaseDone(p)
  PROVE  IInv'
<1> USE LeaseAssumption, NilAssumption
<1>0. held[p] \in Session \cup {Nil} /\ call[p] \in Call \cup {Nil}
  BY DEF IInv, TypeOK
<1>1. TypeOK'
  BY <1>0 DEF IInv, TypeOK, ReleaseDone, Answered, Session, Call, Waiting, Refused
<1>2. \A q \in Procs : q # p => Inv(q)'
  BY OthersKeep DEF IInv, TypeOK, ReleaseDone, Answered
<1>3. Inv(p)'
  BY <1>0 DEF IInv, TypeOK, ReleaseDone, Answered, Inv, LiveInv, GrantInv, CallInv, TokenInv, Live, Grants, Session, Call, Waiting, Refused
<1> QED
  BY <1>1, <1>2, <1>3 DEF IInv

\* A failed call ends the session or leaves everything as it was.
LEMMA CallFailsKeeps ==
  ASSUME NEW p \in Procs, IInv, CallFails(p)
  PROVE  IInv'
<1> USE LeaseAssumption, NilAssumption
<1>0. held[p] \in Session \cup {Nil} /\ call[p] \in Call \cup {Nil}
  BY DEF IInv, TypeOK
<1>1. TypeOK'
  BY <1>0 DEF IInv, TypeOK, CallFails, Live, Session, Call, Waiting, Refused
<1>2. \A q \in Procs : q # p => Inv(q)'
  BY OthersKeep DEF IInv, TypeOK, CallFails, Live
<1>3. Inv(p)'
  BY <1>0 DEF IInv, TypeOK, CallFails, Live, Inv, LiveInv, GrantInv, CallInv, TokenInv, Live, Grants, Session, Call, Waiting, Refused
<1> QED
  BY <1>1, <1>2, <1>3 DEF IInv

\* A deadline only ends sessions.
LEMMA TimerFiresKeeps ==
  ASSUME NEW p \in Procs, IInv, TimerFires(p)
  PROVE  IInv'
<1> USE LeaseAssumption, NilAssumption
<1>0. held[p] \in Session \cup {Nil} /\ call[p] \in Call \cup {Nil}
  BY DEF IInv, TypeOK
<1>1. TypeOK'
  <2>1. held' \in [Procs -> Session \cup {Nil}]
    BY <1>0 DEF IInv, TypeOK, TimerFires, Live, Session
  <2>2. call' \in [Procs -> Call \cup {Nil}]
    BY <1>0 DEF IInv, TypeOK, TimerFires, Live, Call, Waiting
  <2>3. \A q \in Procs : call'[q] # Nil /\ call'[q].kind # "claim" => held'[q] # Nil
    <3>1. \A q \in Procs : held'[q] = Nil => held[q] = Nil
      <4>1. held[p] \in Session
        BY <1>0 DEF TimerFires, Live
      <4>2. [held[p] EXCEPT !.live = FALSE] \in Session
        BY <4>1 DEF Session
      <4>3. held' = [held EXCEPT ![p] = [held[p] EXCEPT !.live = FALSE]]
        BY DEF TimerFires
      <4> QED
        BY <4>1, <4>2, <4>3 DEF IInv, TypeOK
    <3>2. \A q \in Procs : call'[q] # Nil /\ call'[q].kind # "claim" => held[q] # Nil
      BY <1>0 DEF IInv, TypeOK, TimerFires, Live, Session
    <3> QED
      BY <3>1, <3>2
  <2> QED
    BY <2>1, <2>2, <2>3 DEF IInv, TypeOK, TimerFires
<1>2. \A q \in Procs : q # p => Inv(q)'
  BY OthersKeep DEF IInv, TypeOK, TimerFires, Live
<1>3. Inv(p)'
  BY <1>0 DEF IInv, TypeOK, TimerFires, Live, Inv, LiveInv, GrantInv, CallInv, TokenInv, Live, Grants, Session, Call, Waiting, Refused
<1> QED
  BY <1>1, <1>2, <1>3 DEF IInv

\* A shutdown only ends the session of its process.
LEMMA ShutdownKeeps ==
  ASSUME NEW p \in Procs, IInv, Shutdown(p)
  PROVE  IInv'
<1> USE LeaseAssumption, NilAssumption
<1>0. held[p] \in Session \cup {Nil} /\ call[p] \in Call \cup {Nil}
  BY DEF IInv, TypeOK
<1>1. TypeOK'
  <2>1. held' \in [Procs -> Session \cup {Nil}]
    BY <1>0 DEF IInv, TypeOK, Shutdown, Live, Session
  <2>2. call' \in [Procs -> Call \cup {Nil}]
    BY <1>0 DEF IInv, TypeOK, Shutdown, Live, Call, Waiting
  <2>3. \A q \in Procs : call'[q] # Nil /\ call'[q].kind # "claim" => held'[q] # Nil
    BY <1>0 DEF IInv, TypeOK, Shutdown, Live, Session
  <2> QED
    BY <2>1, <2>2, <2>3 DEF IInv, TypeOK, Shutdown
<1>2. \A q \in Procs : q # p => Inv(q)'
  BY OthersKeep DEF IInv, TypeOK, Shutdown, Live
<1>3. Inv(p)'
  BY <1>0 DEF IInv, TypeOK, Shutdown, Live, Inv, LiveInv, GrantInv, CallInv, TokenInv, Live, Grants, Session, Call, Waiting, Refused
<1> QED
  BY <1>1, <1>2, <1>3 DEF IInv

\* A death only ends the session of its process.
LEMMA DieKeeps ==
  ASSUME NEW p \in Procs, IInv, Die(p)
  PROVE  IInv'
<1> USE LeaseAssumption, NilAssumption
<1>0. held[p] \in Session \cup {Nil} /\ call[p] \in Call \cup {Nil}
  BY DEF IInv, TypeOK
<1>1. TypeOK'
  BY <1>0 DEF IInv, TypeOK, Die, Live, Session, Call, Waiting, Refused
<1>2. \A q \in Procs : q # p => Inv(q)'
  BY OthersKeep DEF IInv, TypeOK, Die, Live
<1>3. Inv(p)'
  BY <1>0 DEF IInv, TypeOK, Die, Live, Inv, LiveInv, GrantInv, CallInv, TokenInv, Live, Grants, Session, Call, Waiting, Refused
<1> QED
  BY <1>1, <1>2, <1>3 DEF IInv

\* Time passes only while no live session has reached its deadline.
LEMMA TickKeeps ==
  ASSUME IInv, Tick
  PROVE  IInv'
<1> USE LeaseAssumption, NilAssumption
<1>1. TypeOK'
  BY DEF IInv, TypeOK, Tick
<1>2. ASSUME NEW q \in Procs PROVE Inv(q)'
  <2>1. held[q] \in Session \cup {Nil} /\ call[q] \in Call \cup {Nil}
    BY DEF IInv, TypeOK
  <2> QED
    BY <2>1 DEF IInv, TypeOK, Tick, Inv, LiveInv, GrantInv, CallInv, TokenInv, Live, Grants, Session, Call
<1> QED
  BY <1>1, <1>2 DEF IInv

\* The database step: an acquisition that takes the row from another process
\* finds it expired, so no other session is live and every other grant has run
\* its term; an acquisition under a live session keeps the token.
LEMMA ExecuteKeeps ==
  ASSUME NEW p \in Procs, IInv, Execute(p)
  PROVE  IInv'
<1> USE LeaseAssumption, NilAssumption
<1>0. /\ \A q \in Procs : held[q] \in Session \cup {Nil} /\ call[q] \in Call \cup {Nil}
      /\ call[p] \in Call /\ call[p].reply = Waiting
      /\ \A q \in Procs : Inv(q)
      /\ lease \in [owner : Procs \cup {Nil}, token : Nat, expires : Nat]
      /\ now \in Nat /\ now' = now /\ held' = held
  BY DEF IInv, TypeOK, Execute
<1>1. CASE /\ call[p].kind \in {"claim", "renew"}
           /\ lease.owner = p \/ Expired
           /\ AcquireExecutionLease(p)
  <2>1. /\ lease'.owner = p /\ lease'.expires = now + Ttl
        /\ lease'.token = (IF Expired THEN lease.token + 1 ELSE lease.token)
        /\ lease' \in [owner : Procs \cup {Nil}, token : Nat, expires : Nat]
    BY <1>0, <1>1 DEF AcquireExecutionLease
  <2>2. /\ call' = [call EXCEPT ![p].reply = lease'.token]
        /\ call'[p] = [call[p] EXCEPT !.reply = lease'.token]
        /\ call'[p] \in Call /\ call'[p].kind = call[p].kind /\ call'[p].at = call[p].at
        /\ call'[p].reply = lease'.token
        /\ \A q \in Procs : q # p => call'[q] = call[q]
    BY <1>0, <1>1, <2>1 DEF AcquireExecutionLease, IInv, TypeOK, Call
  <2>3. TypeOK'
    BY <1>0, <2>1, <2>2 DEF IInv, TypeOK, Execute
  <2>4. ASSUME NEW q \in Procs, q # p PROVE Inv(q)'
    <3>1. ~Live(q)
      BY <1>0, <1>1, <2>4 DEF Inv, LiveInv, Live, Session, Expired
    <3> QED
      BY <1>0, <1>1, <2>2, <2>4, <3>1 DEF Inv, LiveInv, GrantInv, CallInv, TokenInv, Live, Grants, Expired, Call
  <2>5. Inv(p)'
    <3>1. Live(p) => ~Expired /\ held[p].deadline <= now + Local
      BY <1>0 DEF Inv, LiveInv, Live, Session, Expired
    <3>2. LiveInv(p)'
      BY <1>0, <2>1, <3>1 DEF Inv, LiveInv, Live, Session
    <3>3. GrantInv(p)'
      BY <1>0, <2>1, <2>2 DEF Inv, GrantInv, CallInv, Call
    <3>4. CallInv(p)' /\ TokenInv(p)'
      BY <1>0, <2>2 DEF Inv, CallInv, TokenInv, Live
    <3> QED
      BY <3>2, <3>3, <3>4 DEF Inv
  <2> QED
    BY <2>3, <2>4, <2>5 DEF IInv
<1>2. CASE /\ call' = [call EXCEPT ![p].reply = Refused] /\ UNCHANGED lease
  <2>1. /\ call'[p] \in Call /\ call'[p].kind = call[p].kind /\ call'[p].at = call[p].at
        /\ call'[p].reply = Refused
        /\ \A q \in Procs : q # p => call'[q] = call[q]
    BY <1>0, <1>2 DEF IInv, TypeOK, Call, Refused
  <2>2. TypeOK'
    BY <1>0, <1>2, <2>1 DEF IInv, TypeOK, Execute
  <2>3. \A q \in Procs : q # p => Inv(q)'
    BY <1>0, <1>2, <2>1, OthersKeep
  <2>4. Inv(p)'
    BY <1>0, <1>2, <2>1 DEF Inv, LiveInv, GrantInv, CallInv, TokenInv, Live, Grants
  <2> QED
    BY <2>2, <2>3, <2>4 DEF IInv
<1>3. CASE call[p].kind = "release" /\ ReleaseExecutionLease(p)
  <2>1. ~Live(p) /\ held[p] \in Session
    BY <1>0, <1>3 DEF Inv, CallInv, IInv, TypeOK, Execute
  <2>2. /\ call'[p] \in Call /\ call'[p].kind = "release" /\ call'[p].at = call[p].at
        /\ \A q \in Procs : q # p => call'[q] = call[q]
        /\ call' \in [Procs -> Call \cup {Nil}]
    BY <1>0, <1>3, <2>1 DEF ReleaseExecutionLease, IInv, TypeOK, Call, Session
  <2>3. /\ lease' \in [owner : Procs \cup {Nil}, token : Nat, expires : Nat]
        /\ lease' = lease \/ lease.owner = p
        /\ lease'.owner = lease.owner /\ lease'.token = lease.token
    BY <1>0, <1>3 DEF ReleaseExecutionLease
  <2>4. TypeOK'
    BY <1>0, <2>1, <2>2, <2>3 DEF IInv, TypeOK, Execute
  <2>5. ASSUME NEW q \in Procs, q # p PROVE Inv(q)'
    BY <1>0, <2>2, <2>3, <2>5 DEF Inv, LiveInv, GrantInv, CallInv, TokenInv, Live, Grants
  <2>6. Inv(p)'
    BY <1>0, <2>1, <2>2 DEF Inv, LiveInv, GrantInv, CallInv, TokenInv, Live, Grants
  <2> QED
    BY <2>4, <2>5, <2>6 DEF IInv
<1> QED
  BY <1>1, <1>2, <1>3 DEF Execute

\* The steps under a session keep frames frames.
LEMMA FramesKeepShape ==
  ASSUME NEW p \in Procs, TypeOK,
         \/ OpenSockets(p) \/ StopSockets(p) \/ ValidateBegin(p) \/ ReadToken(p)
         \/ GetExecutionLease(p) \/ GetDeviceAccessProfile(p) \/ Ingest(p)
  PROVE  frame' \in [Procs -> Frame \cup {Nil}] /\ frames' \in 0 .. MaxFrames
<1>0. /\ frame \in [Procs -> Frame \cup {Nil}] /\ frames \in 0 .. MaxFrames
      /\ MaxFrames \in Nat
      /\ held[p] = Nil \/ held[p].token \in Nat
  BY LeaseAssumption DEF TypeOK, Session
<1>1. CASE OpenSockets(p) \/ StopSockets(p)
  BY <1>0, <1>1 DEF OpenSockets, StopSockets
<1>2. CASE ValidateBegin(p)
  BY <1>0, <1>2 DEF ValidateBegin, Frame
<1>3. CASE ReadToken(p)
  BY <1>0, <1>3 DEF ReadToken, Frame
<1>4. CASE GetExecutionLease(p) \/ GetDeviceAccessProfile(p)
  <2>1. /\ frame[p] \in Frame
        /\ frames' = frames
        /\ \/ frame' = [frame EXCEPT ![p] = Nil]
           \/ frame' = [frame EXCEPT ![p] = [frame[p] EXCEPT !.at = "profile"]]
           \/ frame' = [frame EXCEPT ![p] = [frame[p] EXCEPT !.at = "archive"]]
    BY <1>0, <1>4 DEF GetExecutionLease, GetDeviceAccessProfile, Goes
  <2>2. /\ [frame[p] EXCEPT !.at = "profile"] \in Frame
        /\ [frame[p] EXCEPT !.at = "archive"] \in Frame
    BY <2>1 DEF Frame
  <2> QED
    BY <1>0, <2>1, <2>2
<1>5. CASE Ingest(p)
  BY <1>0, <1>5 DEF Ingest
<1> QED
  BY <1>1, <1>2, <1>3, <1>4, <1>5

\* Every step keeps the invariant.
THEOREM NextIInv == IInv /\ [Next]_vars => IInv'
<1> SUFFICES ASSUME IInv, [Next]_vars PROVE IInv'
  OBVIOUS
<1>1. ASSUME NEW p \in Procs,
             \/ OpenSockets(p) \/ StopSockets(p) \/ ValidateBegin(p) \/ ReadToken(p)
             \/ GetExecutionLease(p) \/ GetDeviceAccessProfile(p) \/ Ingest(p)
      PROVE  IInv'
  <2>1. /\ UNCHANGED <<now, lease, held, call, status, troubles>>
        /\ sockets' \subseteq Procs
    BY <1>1 DEF OpenSockets, StopSockets, ValidateBegin, ReadToken, GetExecutionLease,
       GetDeviceAccessProfile, Ingest, IInv, TypeOK
  <2>2. frame' \in [Procs -> Frame \cup {Nil}] /\ frames' \in 0 .. MaxFrames
    BY <1>1, FramesKeepShape DEF IInv
  <2>3. TypeOK'
    BY <2>1, <2>2 DEF IInv, TypeOK
  <2> QED
    BY <2>1, <2>3, OthersKeep DEF IInv
<1>2. CASE UNCHANGED vars
  <2>1. TypeOK'
    BY <1>2 DEF IInv, TypeOK, vars
  <2> QED
    BY <1>2, <2>1, OthersKeep DEF IInv, vars
<1> QED
  BY <1>1, <1>2, ExecuteKeeps, ClaimHeldKeeps, ClaimSendKeeps, ClaimDoneKeeps, RenewSendKeeps,
     RenewDoneKeeps, ReleaseSendKeeps, ReleaseDoneKeeps, CallFailsKeeps, TimerFiresKeeps,
     ShutdownKeeps, DieKeeps, TickKeeps DEF Next

\* The invariant says that a live session has the row, unexpired, under its token.
LEMMA IInvOwns == IInv => TypeOK /\ LiveOwnsLease /\ OneLiveSession
<1> SUFFICES ASSUME IInv PROVE TypeOK /\ LiveOwnsLease /\ OneLiveSession
  OBVIOUS
<1>1. LiveOwnsLease
  <2> SUFFICES ASSUME NEW p \in Procs, Live(p)
               PROVE  lease.owner = p /\ lease.token = held[p].token /\ lease.expires > now
    BY DEF LiveOwnsLease
  <2>1. held[p].deadline \in Nat /\ lease.expires \in Nat /\ now \in Nat
    BY DEF IInv, TypeOK, Live, Session
  <2> QED
    BY <2>1, LeaseAssumption DEF IInv, Inv, LiveInv
<1>2. OneLiveSession
  BY <1>1 DEF LiveOwnsLease, OneLiveSession
<1> QED
  BY <1>1, <1>2 DEF IInv

\* A process with a live session owns the unexpired row under the token of its
\* session, for any number of processes and any Local < Ttl.
THEOREM LiveSessionOwnsLease == Spec => [](TypeOK /\ LiveOwnsLease)
<1>1. IInv => TypeOK /\ LiveOwnsLease
  BY IInvOwns
<1> QED
  BY <1>1, InitIInv, NextIInv, PTL DEF Spec

\* No two processes execute the profile at once.
THEOREM SessionsExclude == Spec => []OneLiveSession
<1>1. IInv => OneLiveSession
  BY IInvOwns
<1> QED
  BY <1>1, InitIInv, NextIInv, PTL DEF Spec

\* Ownership and exclusion together, as the run checks them.
THEOREM LeaseExcludes == Spec => []LeaseIsExclusive
  BY LiveSessionOwnsLease, SessionsExclude, PTL DEF LeaseIsExclusive

\* The token a frame was checked with is the row's, and the row its process's, or the
\* row has a larger one by now.
FrameInv(p) == Checked(p) =>
    /\ frame[p].token <= lease.token
    /\ frame[p].token = lease.token => lease.owner = p

\* The row a step leaves: the same owner and token, or a larger token.
LEMMA RowAdvances ==
  ASSUME IInv, [Next]_vars
  PROVE  /\ lease.token \in Nat /\ lease'.token \in Nat
         /\ \/ lease'.owner = lease.owner /\ lease'.token = lease.token
            \/ lease'.token > lease.token
<1>0. lease \in [owner : Procs \cup {Nil}, token : Nat, expires : Nat] /\ now \in Nat
  BY DEF IInv, TypeOK
<1>1. CASE lease' = lease
  BY <1>0, <1>1
<1>2. CASE lease' # lease
  <2>1. PICK p \in Procs : Execute(p)
    BY <1>2 DEF Next, vars, ClaimHeld, ClaimSend, ClaimDone, RenewSend, RenewDone,
       ReleaseSend, ReleaseDone, CallFails, TimerFires, OpenSockets, StopSockets,
       ValidateBegin, ReadToken, GetExecutionLease, GetDeviceAccessProfile, Ingest,
       Shutdown, Die, Tick
  <2>2. CASE ReleaseExecutionLease(p)
    BY <1>0, <2>2 DEF ReleaseExecutionLease
  <2>3. CASE (lease.owner = p \/ Expired) /\ AcquireExecutionLease(p)
    BY <1>0, <2>3 DEF AcquireExecutionLease
  <2> QED
    BY <1>2, <2>1, <2>2, <2>3 DEF Execute
<1> QED
  BY <1>1, <1>2

\* A frame passes the lease check in GetExecutionLease alone; a checked frame keeps its
\* token.
LEMMA FrameSteps ==
  ASSUME IInv, [Next]_vars, NEW p \in Procs, Checked(p)'
  PROVE  \/ Checked(p) /\ frame'[p].token = frame[p].token
         \/ /\ lease.owner = p /\ lease' = lease
            /\ frame'[p].token = lease.token
<1>0. frame \in [Procs -> Frame \cup {Nil}]
  BY DEF IInv, TypeOK
<1>1. CASE frame'[p] = frame[p]
  BY <1>1 DEF Checked
<1>2. CASE frame'[p] # frame[p]
  <2>1. PICK r \in Procs : \/ ValidateBegin(r) \/ ReadToken(r) \/ GetExecutionLease(r)
                           \/ GetDeviceAccessProfile(r) \/ Ingest(r) \/ Die(r)
    BY <1>2 DEF Next, vars, Execute, ClaimHeld, ClaimSend, ClaimDone, RenewSend, RenewDone,
       ReleaseSend, ReleaseDone, CallFails, TimerFires, OpenSockets, StopSockets, Shutdown,
       Tick
  <2>2. r = p
    BY <1>0, <1>2, <2>1 DEF ValidateBegin, ReadToken, GetExecutionLease,
       GetDeviceAccessProfile, Ingest, Die, Goes
  <2>3. frame'[p] # Nil /\ frame'[p].at \in {"profile", "archive"}
    BY DEF Checked
  <2>4. ~ValidateBegin(p) /\ ~ReadToken(p) /\ ~Ingest(p) /\ ~Die(p)
    BY <1>0, <2>3 DEF ValidateBegin, ReadToken, Ingest, Die
  <2>5. CASE GetExecutionLease(p)
    <3>1. /\ lease.owner = p /\ lease.token = frame[p].token /\ lease' = lease
          /\ frame'[p] = [frame[p] EXCEPT !.at = "profile"]
      BY <1>0, <2>3, <2>5 DEF GetExecutionLease, Goes
    <3>2. frame[p] \in Frame
      BY <1>0, <2>5 DEF GetExecutionLease
    <3> QED
      BY <3>1, <3>2 DEF Frame
  <2>6. CASE GetDeviceAccessProfile(p)
    <3>1. /\ frame[p] # Nil /\ frame[p].at = "profile"
          /\ frame'[p] = [frame[p] EXCEPT !.at = "archive"]
      BY <1>0, <2>3, <2>6 DEF GetDeviceAccessProfile, Goes
    <3>2. frame[p] \in Frame
      BY <1>0, <3>1
    <3> QED
      BY <3>1, <3>2 DEF Frame, Checked
  <2> QED
    BY <2>1, <2>2, <2>4, <2>5, <2>6
<1> QED
  BY <1>1, <1>2

\* A frame passes the lease check only while no other process has a live session; a
\* process that is live when the frame reaches the archive has a larger token.
THEOREM FramesAreExclusive == Spec => ValidateIsExclusive
<1> DEFINE F == \A p \in Procs : FrameInv(p)
           S == \A p, q \in Procs : p # q /\ Checked(p) /\ Live(q)
                                    => frame[p].token < held[q].token
           A == \A p, q \in Procs : p # q /\ Checked(p)' /\ ~Checked(p) => ~Live(q)
<1>1. Init => F
  BY DEF Init, FrameInv, Checked
<1>2. ASSUME IInv, F, [Next]_vars PROVE F'
  <2> SUFFICES ASSUME NEW p \in Procs, Checked(p)'
               PROVE  /\ frame'[p].token <= lease'.token
                      /\ frame'[p].token = lease'.token => lease'.owner = p
    BY DEF FrameInv
  <2>1. /\ lease.token \in Nat /\ lease'.token \in Nat
        /\ \/ lease'.owner = lease.owner /\ lease'.token = lease.token
           \/ lease'.token > lease.token
    BY <1>2, RowAdvances
  <2>2. CASE Checked(p) /\ frame'[p].token = frame[p].token
    <3>1. frame[p].token \in Nat
      BY <1>2, <2>2 DEF Checked, IInv, TypeOK, Frame
    <3>2. /\ frame[p].token <= lease.token
          /\ frame[p].token = lease.token => lease.owner = p
      BY <1>2, <2>2 DEF FrameInv
    <3> QED
      BY <2>1, <2>2, <3>1, <3>2
  <2>3. CASE /\ lease.owner = p /\ lease' = lease
             /\ frame'[p].token = lease.token
    BY <2>1, <2>3
  <2> QED
    BY <1>2, <2>2, <2>3, FrameSteps
<1>3. ASSUME IInv, F PROVE S
  <2> SUFFICES ASSUME NEW p \in Procs, NEW q \in Procs, p # q, Checked(p), Live(q)
               PROVE  frame[p].token < held[q].token
    OBVIOUS
  <2>1. lease.owner = q /\ lease.token = held[q].token
    BY <1>3, IInvOwns DEF LiveOwnsLease
  <2>2. frame[p].token \in Nat /\ lease.token \in Nat
    BY <1>3 DEF Checked, IInv, TypeOK, Frame
  <2>3. /\ frame[p].token <= lease.token
        /\ frame[p].token = lease.token => lease.owner = p
    BY <1>3 DEF FrameInv
  <2> QED
    BY <2>1, <2>2, <2>3
<1>4. ASSUME IInv, [Next]_vars PROVE A
  <2> SUFFICES ASSUME NEW p \in Procs, NEW q \in Procs, p # q, Checked(p)', ~Checked(p)
               PROVE  ~Live(q)
    OBVIOUS
  <2>1. lease.owner = p
    BY <1>4, FrameSteps
  <2> QED
    BY <1>4, <2>1, IInvOwns DEF LiveOwnsLease
<1>5. IInv /\ [Next]_vars => [A]_vars
  BY <1>4
<1>6. IInv /\ F /\ [Next]_vars => F'
  BY <1>2
<1>7. IInv /\ F => S
  BY <1>3
<1> HIDE DEF F, S, A
<1>8. Spec => []S /\ [][A]_vars
  BY <1>1, <1>5, <1>6, <1>7, InitIInv, NextIInv, PTL DEF Spec
<1> QED
  BY <1>8 DEF ValidateIsExclusive, S, A

\* Every takeover of the row raises the fencing token.
THEOREM TakeoverRaisesToken == Spec => TakeoverFences
<1> DEFINE A == lease'.owner # lease.owner => lease'.token > lease.token
<1>1. ASSUME IInv, [Next]_vars PROVE A
  <2> SUFFICES ASSUME lease'.owner # lease.owner PROVE lease'.token > lease.token
    OBVIOUS
  <2>0. lease \in [owner : Procs \cup {Nil}, token : Nat, expires : Nat]
    BY <1>1 DEF IInv, TypeOK
  <2>1. lease'.owner = lease.owner \/ lease'.token > lease.token
    BY <1>1, RowAdvances
  <2> QED
    BY <2>1
<1>2. IInv /\ [Next]_vars => [A]_vars
  BY <1>1
<1> QED
  BY <1>2, InitIInv, NextIInv, PTL DEF Spec, TakeoverFences

=============================================================================
