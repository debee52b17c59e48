--------------------------- MODULE MCDurableQueue ---------------------------
(* Model values and bounds for DurableQueue. *)
EXTENDS DurableQueue

\* Entry i is i units long: with MaxBytes = 6 and MaxItems = 2, {3, 4} exceeds
\* the byte limit only and {1, 2, 3} the item limit only.
MCSize == [i \in Ids |-> i]

=============================================================================
