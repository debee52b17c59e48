-------------------------- MODULE ControlProperties --------------------------
(***************************************************************************)
(* What several components around the message pipeline promise together.   *)
(* The components share no state; each property is a conjunction over      *)
(* those that concern one subject.                                         *)
(***************************************************************************)
EXTENDS DeviceCredential, DeviceCommand, ProductAccess, DeviceRegistry, RequestRoute,
        WorkerRuntime, StandardIngress

\* What reaches a device is under control: a command once, with the first reply
\* deciding (SendCommand), and nothing under a credential that was revoked
\* (RevokeUsername bans before it disconnects).
DevicesAreControlled == CommandsAreSettled /\ RevokedIsCutOff

\* Limits hold at their edge: messages of a device in a window and devices in the
\* table (Allow), hops of a request (executionRoute), output of a worker and builds.
LimitsHold == RateIsLimited /\ HopsAreCounted /\ WorkersAreContained

\* What is registered fits: an onboarded device its product (Create), a
\* child the profile and the main device it was found through, and no discovery
\* changes a status that an operator set (RegisterProtocolChild).
RegistrationsFit == OnboardedFitsProduct /\ RegistryIsSound

=============================================================================
