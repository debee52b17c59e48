----------------------------- MODULE RequestRoute -----------------------------
(***************************************************************************)
(* Where a request about a device's connection is served. The API process  *)
(* passes it to the access gateway; a gateway looks up the lease of the    *)
(* profile and passes the request on to the process that owns it, while    *)
(* the lease expires and moves.                                            *)
(***************************************************************************)
EXTENDS Integers

CONSTANTS
    Nodes,          \* access processes
    Gateway,        \* the one AccessGatewayURL names
    MaxHops,        \* 2 in the code
    FirstHops,      \* values of X-Iot-Gateway-Hops a client may send; 0 stands for no header
    MaxMoves,       \* bound: changes of the lease
    NoNode
ASSUME RouteAssumption == Gateway \in Nodes /\ MaxHops \in Nat /\ FirstHops \subseteq Int

VARIABLES
    owner,      \* endpoint of the profile's live lease, or NoNode
    moves,
    request,    \* where the request is, its X-Iot-Gateway-Hops, those it came with, its outcome
    passed      \* history: how often one access process passed it to another

hvars == <<owner, moves, request, passed>>

RouteInit ==
    /\ owner \in Nodes \cup {NoNode} /\ moves = 0
    /\ \E h \in FirstHops : request = [at |-> "api", hops |-> h, first |-> h, out |-> "none"]
    /\ passed = 0

\* The lease of the profile is acquired, expires or is released (module ExecutionLease).
LeaseMoves(n) ==
    /\ n # owner /\ moves < MaxMoves
    /\ owner' = n /\ moves' = moves + 1
    /\ UNCHANGED <<request, passed>>

\* roleHandler of the api role: the routes of accessRoute go to the gateway.
roleHandler ==
    /\ request.at = "api" /\ request.out = "none"
    /\ request' = [request EXCEPT !.at = Gateway]
    /\ UNCHANGED <<owner, moves, passed>>

\* executionTarget: "" when the lookup fails, there is no lease or it is this process's;
\* the request is then served here.
Served ==
    /\ request.at \in Nodes /\ request.out = "none"
    /\ request' = [request EXCEPT !.out = "served"]
    /\ UNCHANGED <<owner, moves, passed>>
executionTarget ==
    /\ request.at \in Nodes /\ owner \in {NoNode, request.at}
    /\ Served
LookupFails == Served

BadForwardedHops(h) == h
ForwardedHops(h) == h + 1
\* executionProxy: at the limit the request is refused, below it the header grows.
executionProxy ==
    /\ request.at \in Nodes /\ request.out = "none"
    /\ owner \notin {NoNode, request.at}
    /\ IF request.hops >= MaxHops
       THEN request' = [request EXCEPT !.out = "refused"] /\ UNCHANGED passed
       ELSE /\ request' = [request EXCEPT !.at = owner, !.hops = ForwardedHops(@)]
            /\ passed' = passed + 1
    /\ UNCHANGED <<owner, moves>>
\* The next process cannot be reached, or its answer is lost: 503, unconfirmed.
ProxyFails ==
    /\ request.at \in Nodes /\ request.out = "none"
    /\ request' = [request EXCEPT !.out = "unconfirmed"]
    /\ UNCHANGED <<owner, moves, passed>>

RouteNext ==
    \/ roleHandler \/ executionTarget \/ LookupFails \/ executionProxy \/ ProxyFails
    \/ \E n \in Nodes \cup {NoNode} : LeaseMoves(n)

RouteSpec == RouteInit /\ [][RouteNext]_hvars

-------------------------------------------------------------------------------
\* However the lease moves, a request is passed between processes at most as often as the
\* count it came with leaves of MaxHops: two processes that each take the other for the
\* owner do not bounce it for ever. No process clears the header of a client (line 58 reads
\* it as it comes), so a request with a negative count is passed on more than twice.
HopsAreCounted == passed <= IF request.first > MaxHops THEN 0 ELSE MaxHops - request.first
===============================================================================
