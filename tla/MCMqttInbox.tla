---------------------------- MODULE MCMqttInbox ----------------------------
(* Model values and bounds for MqttInbox. *)
EXTENDS MqttInbox

MCSize == [i \in Ids |-> i]

=============================================================================
