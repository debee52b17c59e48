---------------------------- MODULE ProductAccess ----------------------------
(***************************************************************************)
(* One product, the protocol release it is bound to, its access profiles   *)
(* and its devices, written by the onboarding wizard (test, create), by    *)
(* bind and roll back, by edits of the product and of profiles, and by     *)
(* devices that register through a listener. Handlers read and check in    *)
(* one statement and write in others; only SaveOnboarding is a transaction *)
(* under a lock.                                                           *)
(***************************************************************************)
EXTENDS Naturals, FiniteSets

CONSTANTS
    Rels,           \* published releases of protocols
    ListenerRels,   \* those with the ingress capability for the network
    StdRel,         \* the built-in standard release of HTTP and MQTT devices
    ODevices,       \* device ids; an onboarded profile is named after its device
    ManualIds,      \* ids of profiles created by hand
    Ports,
    Wizard,         \* onboarding requests: [dev, kind, port, rel]
    OCalls, BCalls, ACalls,     \* requests: onboarding, bind, profile
    ANil

OResults == {"created", "reused", "conflict", "failed"}     \* answers to a creation
ODeviceRows == [req : Wizard \cup {ANil}, key : OCalls \cup {ANil}]

ASSUME AccessAssumption ==
    /\ ListenerRels \subseteq Rels /\ StdRel \notin Rels
    /\ ANil \notin OResults \cup ODeviceRows \cup Rels \cup {StdRel}
    /\ Wizard \subseteq [dev : ODevices, kind : {"std", "tcp"}, port : Ports, rel : Rels \cup {ANil}]

AccessIds == ODevices \cup ManualIds

VARIABLES
    prod,           \* the product: on (ENABLED) and pkg (ProtocolPackageID)
    binding,        \* [rel, prev]; rel is ANil when the product has no binding
    profile,        \* profile[i]: ANil or [on, port, rel]
    odev,           \* odev[d]: ANil or [req (digest), key (call that made the secret)]
    ocall, bcall, acall,    \* requests; ocall[c].rel: the release its test token was signed for
    byHand          \* history: profiles saved by saveDeviceAccessProfileV2

avars == <<prod, binding, profile, odev, ocall, bcall, acall, byHand>>

OIdle == [at |-> "idle", q |-> ANil, rel |-> ANil, result |-> ANil]
BIdle == [at |-> "idle", rel |-> ANil, prod |-> ANil, prev |-> ANil]
AIdle == [at |-> "idle", id |-> ANil, row |-> ANil]

AccessInit ==
    /\ prod = [on |-> TRUE, pkg |-> ANil] /\ binding = [rel |-> ANil, prev |-> ANil]
    /\ profile = [i \in AccessIds |-> ANil] /\ odev = [d \in ODevices |-> ANil]
    /\ byHand = {}
    /\ ocall = [c \in OCalls |-> OIdle] /\ bcall = [b \in BCalls |-> BIdle]
    /\ acall = [a \in ACalls |-> AIdle]

Listening(i) == profile[i] # ANil /\ profile[i].on
PortUsed(port, besides) == \E i \in AccessIds \ besides : Listening(i) /\ profile[i].port = port

-----------------------------------------------------------------------------
(* Onboarding. *)

PlannedRel(q) == IF q.kind = "std" THEN StdRel ELSE IF binding.rel # ANil THEN binding.rel ELSE q.rel

\* The request fits the product and its binding; a first binding is only made for a
\* product without devices.
plan(q) ==
    /\ prod.on
    /\ q.kind = "tcp" =>
        /\ PlannedRel(q) \in ListenerRels
        /\ binding.rel # ANil => q.rel \in {ANil, binding.rel}
        /\ binding.rel = ANil => \A d \in ODevices : odev[d] = ANil

\* Test probes the device or the port and signs the request and the release.
\* The port of a new listener can be bound; a frame of the device parses.
probe(q) == q.kind = "tcp" => ~PortUsed(q.port, {})
TestOnboarding(c, q) ==
    /\ ocall[c].at = "idle" /\ plan(q) /\ probe(q)
    /\ ocall' = [ocall EXCEPT ![c] = [OIdle EXCEPT !.at = "tested", !.q = q, !.rel = PlannedRel(q)]]
    /\ UNCHANGED <<prod, binding, profile, odev, bcall, acall, byHand>>

\* recover: the same request gets the device again, another one a conflict.
RecoverResult(q) ==
    IF odev[q.dev] = ANil THEN "failed" ELSE IF odev[q.dev].req = q THEN "reused" ELSE "conflict"

\* Create: an existing device is recovered without a token; otherwise the request is
\* planned again and the token must be for the same request and release.
CreateDevice(c) ==
    LET q == ocall[c].q IN
    /\ ocall[c].at = "tested"
    /\ \/ /\ odev[q.dev] # ANil
          /\ ocall' = [ocall EXCEPT ![c].at = "done", ![c].result = RecoverResult(q)]
       \/ /\ odev[q.dev] = ANil /\ plan(q) /\ PlannedRel(q) = ocall[c].rel
          /\ ocall' = [ocall EXCEPT ![c].at = "save"]
    /\ UNCHANGED <<prod, binding, profile, odev, bcall, acall, byHand>>

\* The checks of the transaction, made again under the advisory lock.
BadBundleFits(c) == prod.on /\ odev[ocall[c].q.dev] = ANil
BundleFits(c) ==
    LET q == ocall[c].q IN
    /\ prod.on /\ odev[q.dev] = ANil
    /\ q.kind = "tcp" =>
        /\ binding.rel \in {ANil, ocall[c].rel}
        /\ ~PortUsed(q.port, {}) /\ profile[q.dev] = ANil

BadSaveOnboarding(c) ==         \* the device row is upserted
    LET q == ocall[c].q IN
    /\ ocall[c].at = "save"
    /\ odev' = [odev EXCEPT ![q.dev] = [req |-> q, key |-> c]]
    /\ ocall' = [ocall EXCEPT ![c].at = "done", ![c].result = "created"]
    /\ UNCHANGED <<prod, binding, profile, bcall, acall, byHand>>
SaveOnboarding(c) ==
    LET q == ocall[c].q IN
    /\ ocall[c].at = "save"
    /\ IF BundleFits(c)
       THEN /\ odev' = [odev EXCEPT ![q.dev] = [req |-> q, key |-> c]]
            /\ binding' = IF q.kind = "tcp" /\ binding.rel = ANil
                          THEN [rel |-> ocall[c].rel, prev |-> ANil] ELSE binding
            /\ profile' = IF q.kind = "std" THEN profile
                          ELSE [profile EXCEPT ![q.dev] =
                                  [on |-> TRUE, port |-> q.port, rel |-> ocall[c].rel]]
            /\ ocall' = [ocall EXCEPT ![c].at = "done", ![c].result = "created"]
       ELSE /\ ocall' = [ocall EXCEPT ![c].at = "done", ![c].result = RecoverResult(q)]
            /\ UNCHANGED <<odev, binding, profile>>
    /\ UNCHANGED <<prod, bcall, acall, byHand>>

\* A device that speaks through an enabled listener of the product registers itself.
RegisterProtocolDevice(d, i) ==
    /\ Listening(i) /\ prod.on /\ odev[d] = ANil
    /\ odev' = [odev EXCEPT ![d] = [req |-> ANil, key |-> ANil]]
    /\ UNCHANGED <<prod, binding, profile, ocall, bcall, acall, byHand>>

-----------------------------------------------------------------------------
(* Binding: bindProtocolRelease and rollbackProductProtocolV2. *)

ListenersSupported(r) == (\E i \in AccessIds : Listening(i)) => r \in ListenerRels

bindProtocolRelease(b, r) ==
    /\ bcall[b].at = "idle" /\ r # binding.rel /\ ListenersSupported(r)
    /\ bcall' = [bcall EXCEPT ![b] = [at |-> "product", rel |-> r, prod |-> prod, prev |-> binding.rel]]
    /\ UNCHANGED <<prod, binding, profile, odev, ocall, acall, byHand>>

rollbackProductProtocolV2(b) == binding.prev # ANil /\ bindProtocolRelease(b, binding.prev)

\* SaveProduct writes the copy read before, with the new package.
BindSaveProduct(b) ==
    /\ bcall[b].at = "product"
    /\ prod' = [bcall[b].prod EXCEPT !.pkg = bcall[b].rel]
    /\ bcall' = [bcall EXCEPT ![b].at = "binding"]
    /\ UNCHANGED <<binding, profile, odev, ocall, acall, byHand>>

SaveProductProtocolBinding(b) ==
    /\ bcall[b].at = "binding"
    /\ binding' = [rel |-> bcall[b].rel, prev |-> bcall[b].prev]
    /\ bcall' = [bcall EXCEPT ![b].at = "done"]
    /\ UNCHANGED <<prod, profile, odev, ocall, acall, byHand>>

\* saveProduct with another status.
SaveProductStatus ==
    /\ prod' = [prod EXCEPT !.on = ~@]
    /\ UNCHANGED <<binding, profile, odev, ocall, bcall, acall, byHand>>

-----------------------------------------------------------------------------
(* saveDeviceAccessProfileV2 and SaveDeviceAccessProfile. *)

saveDeviceAccessProfileV2(a, i, port, on) ==
    /\ acall[a].at = "idle"
    /\ binding.rel \in ListenerRels /\ (on => ~PortUsed(port, {i}))
    /\ acall' = [acall EXCEPT ![a] = [at |-> "save", id |-> i,
                                      row |-> [on |-> on, port |-> port, rel |-> binding.rel]]]
    /\ UNCHANGED <<prod, binding, profile, odev, ocall, bcall, byHand>>

SaveDeviceAccessProfile(a) ==
    /\ acall[a].at = "save"
    /\ profile' = [profile EXCEPT ![acall[a].id] = acall[a].row]
    /\ byHand' = byHand \cup {acall[a].id}
    /\ acall' = [acall EXCEPT ![a].at = "done"]
    /\ UNCHANGED <<prod, binding, odev, ocall, bcall>>

AccessNext ==
    \/ \E c \in OCalls : (\E q \in Wizard : TestOnboarding(c, q)) \/ CreateDevice(c) \/ SaveOnboarding(c)
    \/ \E d \in ODevices, i \in AccessIds : RegisterProtocolDevice(d, i)
    \/ \E b \in BCalls : \/ \E r \in Rels : bindProtocolRelease(b, r)
                         \/ rollbackProductProtocolV2(b)
                         \/ BindSaveProduct(b) \/ SaveProductProtocolBinding(b)
    \/ SaveProductStatus
    \/ \E a \in ACalls : \/ \E i \in AccessIds, p \in Ports, on \in BOOLEAN :
                               saveDeviceAccessProfileV2(a, i, p, on)
                         \/ SaveDeviceAccessProfile(a)

AccessSpec == AccessInit /\ [][AccessNext]_avars

-----------------------------------------------------------------------------
\* Requests that are repeated, sent twice at once or answered too late create a device
\* and its secret once ("相同请求重试 ... 重复请求不再生成产品、设备或 Secret"): whoever was
\* told "created" holds the secret of the row, and a different request is refused.
OneDeviceOneSecret ==
    \A c \in OCalls :
        /\ ocall[c].result = "created" => odev[ocall[c].q.dev] = [req |-> ocall[c].q, key |-> c]
        /\ ocall[c].result = "reused" => odev[ocall[c].q.dev].req = ocall[c].q

\* At the moment a device is onboarded the product is enabled, its profile carries the
\* protocol the product is bound to, and the test proof was for that protocol, although
\* the binding and the product may have changed since the request was planned.
OnboardedFitsProduct ==
    [][\A c \in OCalls :
        ocall'[c].result = "created" /\ ocall[c].result # "created"
            => LET q == ocall[c].q IN
               /\ prod'.on
               /\ q.kind = "tcp" =>
                    profile'[q.dev].rel = binding'.rel /\ binding'.rel = ocall[c].rel]_avars

\* Onboarding reserves a port: two enabled listeners share one only when a profile that
\* was saved by hand is among them.
OnboardingReservesPort ==
    \A i, j \in AccessIds \ byHand :
        Listening(i) /\ Listening(j) /\ profile[i].port = profile[j].port => i = j

\* An onboarded device has one secret and a port of its own (SaveOnboarding).
AccessIsSound == OneDeviceOneSecret /\ OnboardingReservesPort

=============================================================================
