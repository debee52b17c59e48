---------------------------- MODULE StandardIngress ---------------------------
(***************************************************************************)
(* The rate limit of the standard ingress (HTTP and MQTT): a counter of    *)
(* each device's messages that starts again a second after it began, in a  *)
(* table that forgets idle devices only when it is full, and the checks of *)
(* the device before a message is counted. The table belongs to one        *)
(* process (onboarding/service.go:71): what is claimed here is claimed of  *)
(* what one process lets through, and several processes let through as     *)
(* many times that.                                                        *)
(***************************************************************************)
EXTENDS Naturals, FiniteSets

CONSTANTS
    StdDevices,
    Window,         \* one second
    PerWindow,      \* 20 in the code
    MaxRates,       \* 10000 in the code
    IdleAfter,      \* one minute
    MaxTime         \* bound of the clock
ASSUME IngressAssumption ==
    /\ IsFiniteSet(StdDevices) /\ MaxRates \in Nat /\ PerWindow \in Nat \ {0} /\ MaxTime \in Nat \ {0}
    /\ Window \in Nat \ {0} /\ IdleAfter \in Nat /\ IdleAfter >= Window

VARIABLES
    time,
    active,     \* devices that are ENABLED with a secret and a product in use
    rates,      \* rates[d]: the start and the count of its bucket, no entry: count 0
    grants      \* history: grants[d][t], messages let through at time t or before

yvars == <<time, active, rates, grants>>

IngressInit ==
    /\ time = 1 /\ active = StdDevices
    /\ rates = [d \in StdDevices |-> [at |-> 0, n |-> 0]]
    /\ grants = [d \in StdDevices |-> [t \in 0 .. MaxTime |-> 0]]

Entries(r) == {d \in StdDevices : r[d].n > 0}
\* Allow: the bucket of the device, fresh when a window has passed.
Bucket(d) == IF rates[d].n = 0 \/ time - rates[d].at >= Window THEN [at |-> time, n |-> 0] ELSE rates[d]
\* A full table drops the devices that have been idle for a minute.
BadEvict(r) == IF Cardinality(Entries(r)) < MaxRates THEN r
               ELSE [d \in StdDevices |-> [at |-> 0, n |-> 0]]
Evict(r) == IF Cardinality(Entries(r)) < MaxRates THEN r
            ELSE [d \in StdDevices |-> IF time - r[d].at > IdleAfter THEN [at |-> 0, n |-> 0] ELSE r[d]]
\* A device without an entry is refused while the table is full of others.
BadHasRoom(d) == TRUE
HasRoom(d) == d \in Entries(Evict(rates)) \/ Cardinality(Entries(Evict(rates))) < MaxRates
Allow(d) == Bucket(d).n < PerWindow /\ HasRoom(d)

\* PrepareStandard: the device and its product are checked before the message counts;
\* StandardRaw names the raw message after the device, the kind and the device's own id.
PrepareStandard(d) == d \in active /\ Allow(d)
\* standardDeviceIngest, and the MQTT subscription.
standardDeviceIngest(d) ==
    /\ PrepareStandard(d)
    /\ rates' = [Evict(rates) EXCEPT ![d] = [at |-> Bucket(d).at, n |-> Bucket(d).n + 1]]
    /\ grants' = [grants EXCEPT ![d] = [t \in 0 .. MaxTime |->
                                         IF t < time THEN grants[d][t] ELSE grants[d][t] + 1]]
    /\ UNCHANGED <<time, active>>
\* A message that is refused leaves the table as it was: nothing was dropped if there
\* is no room afterwards.
SetActive(s) == active' = s /\ UNCHANGED <<time, rates, grants>>
ClockTick == time < MaxTime /\ time' = time + 1 /\ UNCHANGED <<active, rates, grants>>

IngressNext ==
    \/ \E d \in StdDevices : standardDeviceIngest(d)
    \/ \E s \in SUBSET StdDevices : s # active /\ SetActive(s)
    \/ ClockTick

IngressSpec == IngressInit /\ [][IngressNext]_yvars

-------------------------------------------------------------------------------
\* No device gets twice the limit through one process in any span of one window, wherever it
\* begins and whatever the table forgets meanwhile.
UnderTwicePerWindow ==
    \A d \in StdDevices, t \in 1 .. MaxTime - Window + 1 :
        grants[d][t + Window - 1] < grants[d][t - 1] + 2 * PerWindow

\* The table never outgrows its limit.
RatesBounded == Cardinality(Entries(rates)) <= MaxRates

\* A device stays within its rate, and the table of rates within its size.
RateIsLimited == UnderTwicePerWindow /\ RatesBounded

===============================================================================
