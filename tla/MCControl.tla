------------------------------ MODULE MCControl ------------------------------
(***************************************************************************)
(* The components around the message pipeline, checked side by side: part  *)
(* says which of them runs, the others keep their initial state. Where the *)
(* interleavings of all operations of a component are too many, two parts  *)
(* cover it with different operations left out; the bounds say which.      *)
(***************************************************************************)
EXTENDS ControlProperties, ListenerSession, ProtocolRelease, BackupService, AiProvider,
        GbGateway, WireCodecs, PointTable, StoreLayers

CONSTANTS d1, d2, r1, s2, q2, u2, y3

VARIABLE part

Parts ==
    {"listener, one command", "listener, one session", "credential", "command",
     "release, no market", "release, one upload", "access", "backup", "backup, drill",
     "provider", "chat", "gateway, two calls", "gateway, one frame", "codecs", "children", "registry", "route", "worker",
     "ingress", "table", "layers"}

MCWizard ==
    {[dev |-> d1, kind |-> "tcp", port |-> 4000, rel |-> r1],
     [dev |-> d2, kind |-> "tcp", port |-> 4000, rel |-> ANil],
     [dev |-> d1, kind |-> "std", port |-> 4000, rel |-> ANil]}
MCFirstHops == {-1, 0, 3}
MCTables == {<<"raw", "ch">>, <<"parsed", "pg">>}
MCGbSamples ==
    {[seq |-> 513, source |-> <<1, 2, 3, 4, 5, 64>>, command |-> 7, data |-> <<>>, words |-> <<>>],
     [seq |-> 65535, source |-> <<0, 0, 35, 35, 64, 64>>, command |-> 3, data |-> <<>>,
      words |-> <<>>],
     [seq |-> 1, source |-> <<9, 9, 9, 9, 9, 9>>, command |-> 1,
      data |-> <<90, 1, 0, 35, 35, 64, 64, 255>>, words |-> <<>>],
     [seq |-> 256, source |-> <<1, 2, 3, 4, 5, 6>>, command |-> 2, data |-> <<>>,
      words |-> <<0, 8192, 2>>],
     [seq |-> 256, source |-> <<1, 2, 3, 4, 5, 6>>, command |-> 2, data |-> <<>>,
      words |-> <<0, 8192>>]}
MCMemories ==
    {[a \in 0 .. 3 |-> m[a + 1]] : m \in {<<0, 1, 258, 65535>>, <<4096, 0, 8224, 2>>, <<1, 0, 65, 40>>}}
MCGbPrefixes == {<<>>, <<35, 0, 64, 1>>, <<64>>, <<35, 35, 64>>, <<64, 64>>, <<0, 64, 64, 64>>}
Shape == [type |-> "uint16", width |-> 1, order |-> "ABCD", little |-> FALSE, bit |-> -1, scale |-> 0, offset |-> 0]
MCPointShapes ==
    {[Shape EXCEPT !.type = t, !.little = l, !.bit = b, !.offset = b + 1] :
        t \in {"bool", "bits", "uint16", "int16"}, l \in BOOLEAN, b \in {-1, 0, 15}}
    \cup {[Shape EXCEPT !.type = t, !.width = n, !.order = o, !.little = l, !.bit = IF l THEN 3 ELSE -1] :
            t \in {"uint32", "int32", "float32", "uint16", "string"}, n \in {1, 2},
            o \in {"ABCD", "CDAB", "BADC", "DCBA"}, l \in BOOLEAN}
    \cup {[Shape EXCEPT !.type = t, !.width = n, !.order = o, !.scale = 10] :
            t \in {"uint64", "int32", "float64", "string"}, n \in {2, 4},
            o \in {"ABCD", "GHEFCDAB", "BADCFEHG", "HGFEDCBA"}}
MCHexSamples == {<<>>, <<85>>, <<1, 255, 85>>}
Cell == [id |-> "", slug |-> "", n |-> 0, notation |-> "", fc |-> 3, type |-> "", count |-> 0,
         order |-> "", poll |-> 0]
MCTableRows ==
    {[Cell EXCEPT !.slug = s, !.n = a, !.type = t, !.poll = p] :
        s \in {"a", "b", "c"}, a \in {0, 1, 2}, t \in {"uint16", "float32"}, p \in {0, 30}}
    \cup {[Cell EXCEPT !.slug = "d", !.n = a, !.count = 3, !.type = "string"] : a \in {0, 1, 4}}
    \cup {[Cell EXCEPT !.n = 40003, !.fc = f, !.notation = "one_based"] : f \in {0, 3, 4}}
    \cup {[Cell EXCEPT !.n = a, !.fc = 1] : a \in {3, 4, 5}}
    \cup {[Cell EXCEPT !.id = "e", !.n = a, !.notation = x, !.type = "float64", !.order = o] :
            a \in {1, 65535}, x \in {"one_based", "hex"}, o \in {"", "ABCDEFGH"}}

In(ps, fixed) == part \in ps \/ fixed

Init ==
    /\ part \in Parts
    /\ ListenerInit /\ CredentialInit /\ CommandInit /\ AccessInit /\ BackupInit /\ GatewayInit
    /\ CodecInit /\ WorkerInit /\ IngressInit /\ TableInit /\ LayersInit
    /\ ReleaseInit /\ In({"release, no market"}, catalog = PNil)
    /\ ProviderInit /\ In({"chat"}, policy = CHOOSE x \in Policies : TRUE)
    /\ RouteInit /\ In({"route"}, owner = NoNode /\ request.hops = 0)
    /\ RegistryInit /\ In({"children", "registry"}, childProfile.map = CHOOSE x \in KidProducts : TRUE)

-----------------------------------------------------------------------------
(* Bounds of the parts that leave something out.                           *)

NoDrills ==
    /\ drill' = NoDrill /\ Cardinality(dbRows') <= 2 /\ Cardinality(processed' \cup lateRows') <= 1
    /\ \A b \in BackupIds : /\ \A f \in BackupFiles : object'[b].files[f] # Damaged
                           /\ ~Garbled(object'[b].manifest)
OneBackup ==
    /\ btask'[2].status = "none" /\ lateRows' = {} /\ Cardinality(dbRows') <= 1
    /\ stops' = 0 /\ timer' = timer
OnlyKid ==
    /\ DNone \in {ensure', found'} /\ \A d \in Mains : draft'[d] = DNone
    /\ UNCHANGED <<prodOn, prodBound>>
OnlyMain ==
    /\ Cardinality((KidProducts \cup {MainProduct}) \ prodOn')
          + Cardinality(KidProducts \ prodBound') <= 1
    /\ ensure' = DNone /\ found' = DNone
    /\ \A d \in RegIds \ {KidMain} : draft'[d] = DNone

-----------------------------------------------------------------------------
Keep(ps, v) == IF part \in ps THEN TRUE ELSE UNCHANGED v

Next ==
    /\ \/ part = "listener, one command" /\ ListenerNext /\ command'[q2] = "new"
       \/ part = "listener, one session" /\ ListenerNext /\ sess'[s2] = "none"
       \/ part = "credential" /\ CredentialNext
       \/ part = "command" /\ CommandNext
       \/ part = "release, no market" /\ ReleaseNext /\ market' = PNil
       \/ part = "release, one upload" /\ ReleaseNext /\ catalog' = catalog /\ up'[u2].at = "idle"
       \/ part = "access" /\ AccessNext
       \/ part = "backup" /\ BackupNext /\ NoDrills
       \/ part = "backup, drill" /\ BackupNext /\ OneBackup
       \/ part = "provider" /\ ProviderNext /\ chat' = chat /\ policy' = policy
       \/ part = "chat" /\ ProviderNext /\ upd' = UpdIdle /\ sidecarSync' = SyncOff
       \/ part = "gateway, two calls" /\ GatewayNext /\ sync'[y3].at = "new"
       \/ part = "gateway, one frame" /\ GatewayNext /\ frames' <= 1
       \/ part = "codecs" /\ CodecNext
       \/ part = "children" /\ RegistryNext /\ OnlyKid
       \/ part = "registry" /\ RegistryNext /\ OnlyMain
       \/ part = "route" /\ RouteNext
       \/ part = "worker" /\ WorkerNext
       \/ part = "ingress" /\ IngressNext /\ active' \in {StdDevices, StdDevices \ {d1}}
       \/ part = "table" /\ TableNext
       \/ part = "layers" /\ LayersNext
    /\ UNCHANGED part
    /\ Keep({"listener, one command", "listener, one session"}, lvars)
    /\ Keep({"credential"}, kvars) /\ Keep({"command"}, cvars)
    /\ Keep({"release, no market", "release, one upload"}, pvars) /\ Keep({"access"}, avars)
    /\ Keep({"backup", "backup, drill"}, qvars) /\ Keep({"provider", "chat"}, ivars)
    /\ Keep({"gateway, two calls", "gateway, one frame"}, gvars) /\ Keep({"codecs"}, wvars) /\ Keep({"children", "registry"}, dvars)
    /\ Keep({"route"}, hvars) /\ Keep({"worker"}, xvars) /\ Keep({"ingress"}, yvars)
    /\ Keep({"table"}, tvars) /\ Keep({"layers"}, svars)

Spec ==
    Init /\ [][Next]_<<part, lvars, kvars, cvars, pvars, avars, qvars, ivars, gvars, wvars, dvars,
                       hvars, xvars, yvars, tvars, svars>>

-----------------------------------------------------------------------------
\* What is read from the field is right: the compiled blocks bring every point, and
\* the frames that carry them decode to what was sent or are refused.
FieldDataIsRight == FramesReadRight /\ BlocksFitPoints

=============================================================================
