-------------------------- MODULE MCComponentAlarm --------------------------
(* Model values and symmetry for ComponentAlarm. *)
EXTENDS ComponentAlarm, TLC

\* Messages, alarm identities, handlers and operators are interchangeable.
Sym == Permutations(Msgs) \cup Permutations(AlarmIds) \cup Permutations(Handlers)
       \cup Permutations(Operators)

=============================================================================
