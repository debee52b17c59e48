---------------------------- MODULE MCAlarmRules ----------------------------
(* Values for AlarmRules: rule r1 matches m1 (after a while) and m2 ends it. *)
EXTENDS AlarmRules, TLC

CONSTANTS m1, m2, r1, t1, t2

MCSources == Rules \cup {Direct} \cup Others
MCRuleOf == [s \in MCSources |-> IF s = Direct THEN Direct ELSE r1]
\* m1 is a report; m2 satisfies the recovery and clears direct alarms.
MCMatching == [r \in Rules |-> {m1}]
MCRecovering == [r \in Rules |-> {m2}]
MCTopicOf == [m \in Msgs |-> IF m = m1 THEN t1 ELSE t2]
MCDuration == [r \in Rules |-> IF r = r1 THEN 1 ELSE 0]

\* Bounds: requests and failures of the bus together, and no failures beside an alarm
\* of another device.
MaxBoth == 2
Elsewhere == \E a \in Rows : alarm[a].source \in Others
FewNext == Next /\ edits' + crashes' <= MaxBoth /\ (Elsewhere => crashes' = 0)
\* Bound: beside an alarm of another device the window has begun.
FewInit == Init /\ (Rows # {} => pending[r1] = 0)
FewSpec == FewInit /\ [][FewNext]_vars

Sym == Permutations(Operators) \cup Permutations(AlarmIds)
=============================================================================
