--------------------------- MODULE DeviceCredential ---------------------------
(***************************************************************************)
(* Rotation and removal of a device's MQTT credential: the revocation row  *)
(* written with the new credential, the ban and the disconnection at the   *)
(* broker, the loop that retries them, and the tokens that devices obtain  *)
(* with a credential that may be replaced at any moment. An edit of the    *)
(* device writes back the credential it read.                              *)
(***************************************************************************)
EXTENDS Naturals, FiniteSets

CONSTANTS
    MaxKeys,            \* bound: credentials ever issued for the device
    Revokers,           \* HTTP requests, and RevokeLoop, that call revoke
    RevokeLoop          \* RetryRevocations

VARIABLES
    key, secretOn,  \* the device's access key; FALSE when the secret was removed
    lastKey,        \* the newest access key generated
    retired,        \* history: keys that were replaced or whose secret was removed
    edit,           \* the copy of <<key, secretOn>> an edit is about to save, or <<>>
    revocation,     \* revocation[k]: "none", "PENDING", "REVOKED"
    banned, clients,    \* broker: banned user names, connected user names
    tokens,         \* signed tokens in the hands of devices, by user name
    asking,         \* token requests that passed Authenticate
    rev             \* rev[p]: step and key of the revocation p carries out

kvars == <<key, secretOn, lastKey, retired, edit, revocation, banned, clients, tokens, asking, rev>>

Keys == 1 .. MaxKeys
device == <<key, secretOn, lastKey, retired, edit>>
RevIdle == [at |-> "idle", k |-> 0]

CredentialInit ==
    /\ key = 1 /\ secretOn = TRUE /\ lastKey = 1 /\ retired = {} /\ edit = <<>>
    /\ revocation = [k \in Keys |-> "none"]
    /\ banned = {} /\ clients = {} /\ tokens = {} /\ asking = {}
    /\ rev = [p \in Revokers |-> RevIdle]

\* One transaction: the revocation row of the old key (kept if it exists) and the
\* new credential. A removal keeps the key and empties the hash.
BadChangeDeviceCredential(rotate) ==
    /\ secretOn' = rotate
    /\ key' = IF rotate THEN lastKey + 1 ELSE key
    /\ lastKey' = IF rotate THEN lastKey + 1 ELSE lastKey
    /\ retired' = retired \cup {key}
    /\ UNCHANGED revocation
ChangeDeviceCredential(rotate) ==
    /\ secretOn' = rotate
    /\ key' = IF rotate THEN lastKey + 1 ELSE key
    /\ lastKey' = IF rotate THEN lastKey + 1 ELSE lastKey
    /\ retired' = retired \cup {key}
    /\ revocation' = [revocation EXCEPT ![key] = IF @ = "none" THEN "PENDING" ELSE @]

\* The request goes on with the row it read: nothing to do when it says REVOKED.
ChangeCredential(p, rotate) ==
    /\ p # RevokeLoop /\ rev[p].at = "idle" /\ (rotate => lastKey < MaxKeys)
    /\ ChangeDeviceCredential(rotate)
    /\ rev' = [rev EXCEPT ![p] = IF revocation[key] = "REVOKED" THEN RevIdle
                                 ELSE [at |-> "ban", k |-> key]]
    /\ UNCHANGED <<edit, banned, clients, tokens, asking>>

\* The loop takes the rows that are not REVOKED, every 30 seconds.
RetryRevocations(k) ==
    /\ rev[RevokeLoop].at = "idle" /\ revocation[k] = "PENDING"
    /\ rev' = [rev EXCEPT ![RevokeLoop] = [at |-> "ban", k |-> k]]
    /\ UNCHANGED <<device, revocation, banned, clients, tokens, asking>>

\* Admin.RevokeUsername: the ban comes first (a 400 or 409 counts when the ban is
\* listed already), then every client of the name is disconnected until none is left.
RevokeBan(p) ==
    /\ rev[p].at = "ban"
    /\ banned' = banned \cup {rev[p].k}
    /\ rev' = [rev EXCEPT ![p].at = "kick"]
    /\ UNCHANGED <<device, revocation, clients, tokens, asking>>
RevokeKick(p) ==
    /\ rev[p].at = "kick"
    /\ clients' = clients \ {rev[p].k}
    /\ rev' = [rev EXCEPT ![p].at = "update"]
    /\ UNCHANGED <<device, revocation, banned, tokens, asking>>

\* The broker refuses or does not answer within ten seconds; a request that failed
\* may have been executed all the same. The end of the process looks the same.
BadRevokeFails(p) ==     \* the error is taken for success
    /\ rev[p].at \in {"ban", "kick"}
    /\ rev' = [rev EXCEPT ![p].at = "update"]
    /\ UNCHANGED <<device, revocation, banned, clients, tokens, asking>>
RevokeFails(p) ==
    /\ rev[p].at \in {"ban", "kick"}
    /\ banned' \in {banned, banned \cup {rev[p].k}}
    /\ clients' \in (IF rev[p].at = "ban" THEN {clients} ELSE {clients, clients \ {rev[p].k}})
    /\ rev' = [rev EXCEPT ![p] = RevIdle]
    /\ UNCHANGED <<device, revocation, tokens, asking>>

\* UpdateCredentialRevocation with REVOKED, or its failure: the row stays PENDING.
UpdateRevocation(p) ==
    /\ rev[p].at = "update"
    /\ revocation' = [revocation EXCEPT ![rev[p].k] = "REVOKED"]
    /\ rev' = [rev EXCEPT ![p] = RevIdle]
    /\ UNCHANGED <<device, banned, clients, tokens, asking>>
UpdateRevocationFails(p) ==
    /\ rev[p].at = "update"
    /\ rev' = [rev EXCEPT ![p] = RevIdle]
    /\ UNCHANGED <<device, revocation, banned, clients, tokens, asking>>

\* saveManagedDevice reads the device, takes over its credential and writes the
\* whole row (ON CONFLICT DO UPDATE) when the request has been validated.
EditRead ==
    /\ edit = <<>> /\ edit' = <<key, secretOn>>
    /\ UNCHANGED <<key, secretOn, lastKey, retired, revocation, banned, clients, tokens, asking,
                   rev>>
SaveManagedDevice ==
    /\ edit # <<>> /\ edit' = <<>> /\ key' = edit[1] /\ secretOn' = edit[2]
    /\ UNCHANGED <<lastKey, retired, revocation, banned, clients, tokens, asking, rev>>

\* deviceMQTTToken: Authenticate reads the device, the token is signed later.
AskToken ==
    /\ secretOn /\ asking' = asking \cup {key}
    /\ UNCHANGED <<device, revocation, banned, clients, tokens, rev>>
deviceMQTTToken(k) ==
    /\ k \in asking
    /\ asking' = asking \ {k} /\ tokens' = tokens \cup {k}
    /\ UNCHANGED <<device, revocation, banned, clients, rev>>

\* The broker checks the signature and its own list of bans, nothing else.
DeviceConnects(k) ==
    /\ k \in tokens \ banned /\ clients' = clients \cup {k}
    /\ UNCHANGED <<device, revocation, banned, tokens, asking, rev>>

CredentialNext ==
    \/ \E p \in Revokers, rotate \in BOOLEAN : ChangeCredential(p, rotate)
    \/ \E k \in Keys : RetryRevocations(k)
    \/ \E p \in Revokers : RevokeBan(p) \/ RevokeKick(p) \/ RevokeFails(p)
                           \/ UpdateRevocation(p) \/ UpdateRevocationFails(p)
    \/ EditRead \/ SaveManagedDevice \/ AskToken
    \/ \E k \in Keys : deviceMQTTToken(k) \/ DeviceConnects(k)

CredentialSpec == CredentialInit /\ [][CredentialNext]_kvars

\* The loop keeps running, and the broker and the database do not fail every time.
CredentialFairness ==
    /\ SF_kvars(\E k \in Keys : RetryRevocations(k))
    /\ SF_kvars(RevokeBan(RevokeLoop)) /\ SF_kvars(RevokeKick(RevokeLoop))
    /\ SF_kvars(UpdateRevocation(RevokeLoop))

-----------------------------------------------------------------------------
\* A row says REVOKED only when the broker refuses the user name and no client uses
\* it any more: the ban precedes the disconnection, so a client that still holds a
\* signed token cannot come back in between.
RevokedIsCutOff ==
    \A k \in Keys : revocation[k] = "REVOKED" => k \in banned \ clients

\* Every credential that was replaced or removed is cut off from the broker in the
\* end, for good, although a token for it may be signed after its replacement and an
\* edit may write it back.
ReplacedIsCutOff == \A k \in Keys : k \in retired ~> [](k \notin clients)

=============================================================================
