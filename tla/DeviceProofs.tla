----------------------------- MODULE DeviceProofs -----------------------------
(***************************************************************************)
(* Proofs about the components that face devices: credentials, commands,   *)
(* limits, onboarding and registration, the GB26875 gateway and listener   *)
(* sessions.  Each component is proved for every number of keys, commands, *)
(* requests, devices, sessions and calls.                                  *)
(***************************************************************************)
EXTENDS ControlProperties, ListenerSession, GbGateway, FiniteSetTheorems, TLAPS

-------------------------------------------------------------------------------
(* DeviceCredential.  Whoever is about to disconnect a name has banned it, *)
(* and whoever is about to record the revocation has done both.            *)

RevocationInv ==
    /\ DOMAIN revocation = Keys
    /\ rev \in [Revokers -> [at: {"idle", "ban", "kick", "update"}, k: Nat]]
    /\ \A p \in Revokers :
         /\ rev[p].at = "kick" => rev[p].k \in banned
         /\ rev[p].at = "update" => rev[p].k \in banned \ clients
    /\ key \in Nat /\ lastKey \in Nat
    /\ edit # <<>> => edit[1] \in Nat
    /\ RevokedIsCutOff

LEMMA RevocationStep == ASSUME RevocationInv, [CredentialNext]_kvars PROVE RevocationInv'
<1> USE DEF RevocationInv, RevokedIsCutOff, device
<1>1. ASSUME NEW p \in Revokers, NEW rotate \in BOOLEAN, ChangeCredential(p, rotate)
      PROVE  RevocationInv'
  <2>1. key' \in Nat /\ lastKey' \in Nat /\ UNCHANGED <<edit, banned, clients>>
    BY <1>1 DEF ChangeCredential, ChangeDeviceCredential
  <2>2. DOMAIN revocation' = Keys /\ \A k \in Keys : revocation'[k] = "REVOKED" => revocation[k] = "REVOKED"
    BY <1>1 DEF ChangeCredential, ChangeDeviceCredential
  <2>3. PICK x \in {RevIdle, [at |-> "ban", k |-> key]} : rev' = [rev EXCEPT ![p] = x]
    BY <1>1 DEF ChangeCredential
  <2> QED BY <2>1, <2>2, <2>3 DEF RevIdle
<1>2. ASSUME NEW k \in Keys, RetryRevocations(k) PROVE RevocationInv'
  <2>1. k \in Nat
    BY DEF Keys
  <2> QED BY <1>2, <2>1 DEF RetryRevocations
<1>3. ASSUME NEW p \in Revokers, RevokeBan(p) PROVE RevocationInv'
  BY <1>3 DEF RevokeBan
<1>4. ASSUME NEW p \in Revokers, RevokeKick(p) PROVE RevocationInv'
  BY <1>4 DEF RevokeKick
<1>5. ASSUME NEW p \in Revokers, RevokeFails(p) PROVE RevocationInv'
  BY <1>5 DEF RevokeFails, RevIdle
<1>6. ASSUME NEW p \in Revokers, UpdateRevocation(p) PROVE RevocationInv'
  BY <1>6 DEF UpdateRevocation, RevIdle
<1>7. ASSUME NEW p \in Revokers, UpdateRevocationFails(p) PROVE RevocationInv'
  BY <1>7 DEF UpdateRevocationFails, RevIdle
<1>8. CASE EditRead
  BY <1>8 DEF EditRead
<1>9. CASE SaveManagedDevice
  BY <1>9 DEF SaveManagedDevice
<1>10. CASE AskToken
  BY <1>10 DEF AskToken
<1>11. ASSUME NEW k \in Keys, deviceMQTTToken(k) PROVE RevocationInv'
  BY <1>11 DEF deviceMQTTToken
<1>12. ASSUME NEW k \in Keys, DeviceConnects(k) PROVE RevocationInv'
  BY <1>12 DEF DeviceConnects
<1>13. CASE UNCHANGED kvars
  BY <1>13 DEF kvars
<1> QED
  BY <1>1, <1>2, <1>3, <1>4, <1>5, <1>6, <1>7, <1>8, <1>9, <1>10, <1>11, <1>12, <1>13 DEF CredentialNext

\* RevokeUsername: for any number of keys and of revocations at the same time, a name that is
\* recorded as REVOKED is banned at the broker and nobody is connected with it.
THEOREM RevokedStaysCutOff == CredentialSpec => []RevokedIsCutOff
<1>1. CredentialInit => RevocationInv
  BY DEF CredentialInit, RevocationInv, RevokedIsCutOff, RevIdle, Keys
<1>2. RevocationInv => RevokedIsCutOff
  BY DEF RevocationInv
<1> QED BY <1>1, <1>2, RevocationStep, PTL DEF CredentialSpec

-------------------------------------------------------------------------------
(* DeviceCommand.  Only the call that created the row publishes, and it    *)
(* publishes once; a reply needs a publication.                            *)

SendTypes == [at: {"idle", "publish", "sent", "unknown", "done", "refused", "dead"},
              id: CommandIds \cup {CNil}, body: Bodies \cup {CNil}, seen: Statuses]

\* The call that holds the row of i before its publication.
Publishing(c, i) == scall[c].at = "publish" /\ scall[c].id = i
PublishingOK(c) ==
    scall[c].at = "publish" =>
        /\ scall[c].id \in CommandIds /\ scall[c].body \in Bodies
        /\ crow[scall[c].id] # "none" /\ cbody[scall[c].id] = scall[c].body
        /\ \A b \in Bodies : sentBodies[scall[c].id][b] = 0
        /\ \A e \in SendCalls : Publishing(e, scall[c].id) => e = c

CommandInv ==
    /\ scall \in [SendCalls -> SendTypes]
    /\ crow \in [CommandIds -> Statuses] /\ DOMAIN cbody = CommandIds
    /\ sentBodies \in [CommandIds -> [Bodies -> Nat]]
    /\ firstReply \in [CommandIds -> Terminal \cup {"none"}]
    /\ \A c \in SendCalls : PublishingOK(c)
    /\ \A c \in SendCalls : scall[c].at \in {"sent", "unknown"} => scall[c].id \in CommandIds
    /\ \A c \in SendCalls : scall[c].seen \in Terminal => scall[c].id \in CommandIds
    /\ \A i \in CommandIds : crow[i] = "none" =>
         firstReply[i] = "none" /\ \A b \in Bodies : sentBodies[i][b] = 0
    /\ \A i \in CommandIds : crow[i] \in Terminal => firstReply[i] = crow[i]
    /\ \A i \in CommandIds, o \in Terminal : <<i, o>> \in creplies => crow[i] # "none"
    /\ CommandsAreSettled

LEMMA CommandStep == ASSUME CommandInv, [CommandNext]_cvars PROVE CommandInv'
<1>t. /\ scall \in [SendCalls -> SendTypes]
      /\ crow \in [CommandIds -> Statuses] /\ DOMAIN cbody = CommandIds
      /\ sentBodies \in [CommandIds -> [Bodies -> Nat]]
      /\ firstReply \in [CommandIds -> Terminal \cup {"none"}]
  BY DEF CommandInv
<1>p. \A c \in SendCalls : PublishingOK(c)
  BY DEF CommandInv
<1>s. /\ \A c \in SendCalls : scall[c].at \in {"sent", "unknown"} => scall[c].id \in CommandIds
      /\ \A c \in SendCalls : scall[c].seen \in Terminal => scall[c].id \in CommandIds
  BY DEF CommandInv
<1>n. \A i \in CommandIds : crow[i] = "none" =>
         firstReply[i] = "none" /\ \A b \in Bodies : sentBodies[i][b] = 0
  BY DEF CommandInv
<1>f. \A i \in CommandIds : crow[i] \in Terminal => firstReply[i] = crow[i]
  BY DEF CommandInv
<1>r. \A i \in CommandIds, o \in Terminal : <<i, o>> \in creplies => crow[i] # "none"
  BY DEF CommandInv
<1>o. /\ \A i \in CommandIds, b \in Bodies : sentBodies[i][b] <= (IF cbody[i] = b THEN 1 ELSE 0)
      /\ \A i \in CommandIds : firstReply[i] # "none" => crow[i] = firstReply[i]
      /\ \A c \in SendCalls : scall[c].seen \in Terminal => crow[scall[c].id] = scall[c].seen
  BY DEF CommandInv, CommandsAreSettled, CommandSentOnce, FirstReplyDecides
<1> USE DEF CommandsAreSettled, CommandSentOnce, FirstReplyDecides, PublishingOK, Publishing, Terminal, Statuses
<1>1. ASSUME NEW c \in SendCalls, NEW i \in CommandIds, NEW b \in Bodies, SendCommand(c, i, b)
      PROVE  CommandInv'
  <2>1. crow[i] = "none" /\ scall[c].at = "idle"
    BY <1>1 DEF SendCommand, CreateDeviceCommand
  <2> DEFINE x == [at |-> "publish", id |-> i, body |-> b, seen |-> "none"]
  <2>2. scall' = [scall EXCEPT ![c] = x]
    BY <1>1 DEF SendCommand
  <2>3. x.at = "publish" /\ x.id = i /\ x.body = b /\ x.seen = "none" /\ x \in SendTypes
    BY DEF SendTypes
  <2>4. crow' = [crow EXCEPT ![i] = "DISPATCHING"] /\ cbody' = [cbody EXCEPT ![i] = b]
        /\ UNCHANGED <<sentBodies, creplies, firstReply>>
    BY <1>1 DEF SendCommand, CreateDeviceCommand
  <2> HIDE DEF x
  <2>5. \A e \in SendCalls : ~Publishing(e, i) /\ ~(scall[e].seen \in Terminal /\ scall[e].id = i)
    BY <2>1, <1>p, <1>o
  <2>6. \A e \in SendCalls : e # c => scall'[e] = scall[e]
    BY <2>2, <1>t
  <2>7. scall'[c] = x /\ scall' \in [SendCalls -> SendTypes]
    BY <2>2, <2>3, <1>t
  <2>8. CommandSentOnce'
    BY <2>1, <2>4, <1>t, <1>n, <1>o
  <2>9. FirstReplyDecides'
    BY <2>1, <2>3, <2>4, <2>5, <2>6, <2>7, <1>t, <1>n, <1>o, <1>s
  <2>10. \A e \in SendCalls : PublishingOK(e)'
    BY <2>1, <2>3, <2>4, <2>5, <2>6, <2>7, <1>t, <1>n, <1>p
  <2>11. /\ \A e \in SendCalls : scall'[e].at \in {"sent", "unknown"} => scall'[e].id \in CommandIds
         /\ \A e \in SendCalls : scall'[e].seen \in Terminal => scall'[e].id \in CommandIds
    BY <2>3, <2>6, <2>7, <1>s
  <2> QED BY <2>1, <2>4, <2>7, <2>8, <2>9, <2>10, <2>11, <1>t, <1>n, <1>f, <1>r DEF CommandInv
<1>2. ASSUME NEW c \in SendCalls, NEW i \in CommandIds, NEW b \in Bodies, SendCommandAgain(c, i, b)
      PROVE  CommandInv'
  <2>0. PICK late \in BOOLEAN :
         scall' = [scall EXCEPT ![c] =
            [at |-> IF cbody[i] = b THEN "done" ELSE "refused", id |-> i, body |-> b,
             seen |-> IF cbody[i] = b THEN ObservedOutcome(crow[i], late) ELSE "none"]]
    BY <1>2 DEF SendCommandAgain
  <2> DEFINE a == IF cbody[i] = b THEN "done" ELSE "refused"
             w == IF cbody[i] = b THEN ObservedOutcome(crow[i], late) ELSE "none"
  <2>1. /\ scall' = [scall EXCEPT ![c] = [at |-> a, id |-> i, body |-> b, seen |-> w]]
        /\ a \in {"done", "refused"} /\ w \in Statuses /\ (w \in Terminal => w = crow[i])
    BY <2>0, <1>t DEF ObservedOutcome
  <2> HIDE DEF a, w
  <2> DEFINE x == [at |-> a, id |-> i, body |-> b, seen |-> w]
  <2>2. UNCHANGED <<crow, cbody, sentBodies, creplies, firstReply>>
    BY <1>2 DEF SendCommandAgain
  <2>3. x.at = a /\ x.id = i /\ x.seen = w /\ x \in SendTypes
    BY <2>1 DEF SendTypes
  <2> HIDE DEF x
  <2>4. scall' \in [SendCalls -> SendTypes] /\ scall'[c] = x /\ \A e \in SendCalls : e # c => scall'[e] = scall[e]
    BY <2>1, <2>3, <1>t DEF x
  <2>5. \A e \in SendCalls : PublishingOK(e)'
    BY <2>1, <2>2, <2>3, <2>4, <1>p
  <2>6. FirstReplyDecides' /\ CommandSentOnce'
    BY <2>1, <2>2, <2>3, <2>4, <1>o
  <2>7. /\ \A e \in SendCalls : scall'[e].at \in {"sent", "unknown"} => scall'[e].id \in CommandIds
        /\ \A e \in SendCalls : scall'[e].seen \in Terminal => scall'[e].id \in CommandIds
    BY <2>3, <2>4, <1>s
  <2> QED BY <2>2, <2>4, <2>5, <2>6, <2>7, <1>t, <1>n, <1>f, <1>r DEF CommandInv
<1>3. ASSUME NEW c \in SendCalls, PublishCommand(c) PROVE CommandInv'
  <2>1. PICK i \in CommandIds, b \in Bodies :
          /\ i = scall[c].id /\ b = scall[c].body /\ cbody[i] = b /\ crow[i] # "none"
          /\ \A e \in Bodies : sentBodies[i][e] = 0
          /\ \A e \in SendCalls : Publishing(e, i) => e = c
    BY <1>3, <1>p DEF PublishCommand
  <2>2. PICK a \in {"sent", "unknown"} : scall' = [scall EXCEPT ![c].at = a]
    BY <1>3 DEF PublishCommand
  <2>3. sentBodies' = [sentBodies EXCEPT ![i][b] = @ + 1]
    BY <1>3, <2>1 DEF PublishCommand
  <2>4. creplies' \subseteq creplies \cup {<<i, o>> : o \in Terminal}
    BY <1>3, <2>1 DEF PublishCommand
  <2>5. UNCHANGED <<crow, cbody, firstReply>>
    BY <1>3 DEF PublishCommand
  <2>6. /\ sentBodies' \in [CommandIds -> [Bodies -> Nat]]
        /\ \A j \in CommandIds, e \in Bodies : j # i => sentBodies'[j][e] = sentBodies[j][e]
        /\ \A e \in Bodies : sentBodies'[i][e] = IF e = b THEN 1 ELSE 0
    BY <2>1, <2>3, <1>t
  <2> DEFINE x == [scall[c] EXCEPT !.at = a]
  <2>x. x \in SendTypes /\ x.at = a /\ x.id = i /\ x.body = b /\ x.seen = scall[c].seen
    BY <2>1, <1>t DEF SendTypes
  <2>y. scall' = [scall EXCEPT ![c] = x]
    BY <2>2
  <2> HIDE DEF x
  <2>7. scall' \in [SendCalls -> SendTypes] /\ scall'[c] = x /\ \A e \in SendCalls : e # c => scall'[e] = scall[e]
    BY <2>x, <2>y, <1>t
  <2>9. \A j \in CommandIds, o \in Terminal : <<j, o>> \in creplies' => crow'[j] # "none"
    <3> SUFFICES ASSUME NEW j \in CommandIds, NEW o \in Terminal, <<j, o>> \in creplies' PROVE crow'[j] # "none"
      OBVIOUS
    <3>1. <<j, o>> \in creplies \/ j = i
      BY <2>4
    <3> QED BY <3>1, <2>1, <2>5, <1>r
  <2>10. \A e \in SendCalls : PublishingOK(e)'
    <3> SUFFICES ASSUME NEW e \in SendCalls, scall'[e].at = "publish" PROVE PublishingOK(e)'
      OBVIOUS
    <3>1. e # c /\ scall'[e] = scall[e]
      BY <2>7, <2>x
    <3>2. scall[e].id # i
      BY <3>1, <2>1
    <3>3. \A d \in SendCalls : Publishing(d, scall[e].id)' => Publishing(d, scall[e].id)
      BY <2>7, <2>x, <3>1
    <3> QED BY <1>p, <3>1, <3>2, <3>3, <2>5, <2>6, <2>7, <2>x
  <2>11. CommandSentOnce'
    BY <2>1, <2>5, <2>6, <1>o
  <2>12. FirstReplyDecides'
    BY <2>1, <2>5, <2>7, <2>x, <1>o
  <2>13. /\ \A e \in SendCalls : scall'[e].at \in {"sent", "unknown"} => scall'[e].id \in CommandIds
         /\ \A e \in SendCalls : scall'[e].seen \in Terminal => scall'[e].id \in CommandIds
    BY <2>1, <2>7, <2>x, <1>s
  <2>14. \A j \in CommandIds : crow'[j] = "none" =>
            firstReply'[j] = "none" /\ \A e \in Bodies : sentBodies'[j][e] = 0
    BY <2>1, <2>5, <2>6, <1>n
  <2> QED BY <2>5, <2>6, <2>7, <2>9, <2>10, <2>11, <2>12, <2>13, <2>14, <1>t, <1>f DEF CommandInv
<1>4. ASSUME NEW c \in SendCalls, DispatchDone(c) PROVE CommandInv'
  <2>1. PICK s \in {"SENT", "UNKNOWN"}, r \in {"SENT", "UNKNOWN", "none"} :
          /\ crow' \in {crow, IF crow[scall[c].id] = "DISPATCHING" THEN [crow EXCEPT ![scall[c].id] = s] ELSE crow}
          /\ scall' = [scall EXCEPT ![c] = [at |-> "done", id |-> scall[c].id, body |-> scall[c].body,
                                            seen |-> r]]
    BY <1>4 DEF DispatchDone, UpdateDispatch
  <2>2. UNCHANGED <<cbody, sentBodies, creplies, firstReply>>
    BY <1>4 DEF DispatchDone
  <2> DEFINE x == [at |-> "done", id |-> scall[c].id, body |-> scall[c].body, seen |-> r]
  <2>x. x \in SendTypes /\ x.at = "done" /\ x.id = scall[c].id /\ x.seen = r
    BY <1>t DEF SendTypes
  <2>y. scall' = [scall EXCEPT ![c] = x]
    BY <2>1
  <2> HIDE DEF x
  <2>3. scall' \in [SendCalls -> SendTypes] /\ scall'[c] = x /\ \A e \in SendCalls : e # c => scall'[e] = scall[e]
    BY <2>x, <2>y, <1>t
  <2>5. \A i \in CommandIds : \/ crow'[i] = crow[i]
                              \/ crow[i] = "DISPATCHING" /\ crow'[i] \in {"SENT", "UNKNOWN"}
    BY <2>1, <1>t
  <2>6. crow' \in [CommandIds -> Statuses]
    BY <2>1, <1>t
  <2>7. \A i \in CommandIds : firstReply[i] # "none" => crow[i] \in Terminal
    BY <1>t, <1>o
  <2>8. \A e \in SendCalls : PublishingOK(e)'
    BY <2>2, <2>3, <2>x, <2>5, <1>p
  <2>9. FirstReplyDecides' /\ CommandSentOnce'
    BY <2>2, <2>3, <2>x, <2>5, <2>7, <1>o, <1>s
  <2>10. /\ \A e \in SendCalls : scall'[e].at \in {"sent", "unknown"} => scall'[e].id \in CommandIds
         /\ \A e \in SendCalls : scall'[e].seen \in Terminal => scall'[e].id \in CommandIds
    BY <2>3, <2>x, <1>s
  <2>11. \A i \in CommandIds : crow'[i] = "none" =>
            firstReply'[i] = "none" /\ \A b \in Bodies : sentBodies'[i][b] = 0
    BY <2>2, <2>5, <1>n
  <2>12. \A i \in CommandIds : crow'[i] \in Terminal => firstReply'[i] = crow'[i]
    BY <2>2, <2>5, <1>f
  <2>13. \A i \in CommandIds, o \in Terminal : <<i, o>> \in creplies' => crow'[i] # "none"
    BY <2>2, <2>5, <1>r
  <2>14. sentBodies' \in [CommandIds -> [Bodies -> Nat]] /\ DOMAIN cbody' = CommandIds
         /\ firstReply' \in [CommandIds -> Terminal \cup {"none"}]
    BY <2>2, <1>t
  <2> HIDE DEF CommandSentOnce, FirstReplyDecides, PublishingOK, Publishing, Terminal, Statuses
  <2> QED BY <2>3, <2>6, <2>8, <2>9, <2>10, <2>11, <2>12, <2>13, <2>14 DEF CommandInv
<1>5. ASSUME NEW i \in CommandIds, NEW o \in Terminal, HandleReply(i, o) PROVE CommandInv'
  <2>1. crow[i] # "none"
    BY <1>5, <1>r DEF HandleReply
  <2>2. crow' = IF crow[i] \in Terminal THEN crow ELSE [crow EXCEPT ![i] = o]
    BY <1>5, <2>1 DEF HandleReply, CompleteDeviceCommand
  <2>3. firstReply' = IF firstReply[i] = "none" THEN [firstReply EXCEPT ![i] = o] ELSE firstReply
    BY <1>5, <1>t DEF HandleReply
  <2>4. UNCHANGED <<cbody, scall, sentBodies, creplies>>
    BY <1>5 DEF HandleReply
  <2>5. crow[i] \in Terminal <=> firstReply[i] # "none"
    BY <1>t, <1>f, <1>o
  <2>6. crow' \in [CommandIds -> Statuses] /\ firstReply' \in [CommandIds -> Terminal \cup {"none"}]
    BY <2>2, <2>3, <1>t
  <2>7. \A j \in CommandIds : (crow'[j] = crow[j] /\ firstReply'[j] = firstReply[j])
                              \/ (j = i /\ crow[i] \notin Terminal /\ crow'[i] = o /\ firstReply'[i] = o)
    BY <2>2, <2>3, <2>5, <1>t
  <2>8. \A e \in SendCalls : PublishingOK(e)'
    BY <2>1, <2>4, <2>7, <1>p
  <2>9. FirstReplyDecides' /\ CommandSentOnce'
    BY <2>4, <2>7, <1>o, <1>s
  <2>10. /\ \A e \in SendCalls : scall'[e].at \in {"sent", "unknown"} => scall'[e].id \in CommandIds
         /\ \A e \in SendCalls : scall'[e].seen \in Terminal => scall'[e].id \in CommandIds
    BY <2>4, <1>s
  <2>11. \A j \in CommandIds : crow'[j] = "none" =>
            firstReply'[j] = "none" /\ \A b \in Bodies : sentBodies'[j][b] = 0
    BY <2>4, <2>7, <1>n
  <2>12. \A j \in CommandIds : crow'[j] \in Terminal => firstReply'[j] = crow'[j]
    BY <2>7, <1>f
  <2>13. \A j \in CommandIds, q \in Terminal : <<j, q>> \in creplies' => crow'[j] # "none"
    BY <2>4, <2>7, <1>r
  <2>14. scall' \in [SendCalls -> SendTypes] /\ DOMAIN cbody' = CommandIds
         /\ sentBodies' \in [CommandIds -> [Bodies -> Nat]]
    BY <2>4, <1>t
  <2> HIDE DEF CommandSentOnce, FirstReplyDecides, PublishingOK, Publishing, Terminal, Statuses
  <2> QED BY <2>6, <2>8, <2>9, <2>10, <2>11, <2>12, <2>13, <2>14 DEF CommandInv
<1>6. CASE CrashCommands
  <2>1. scall' = [c \in SendCalls |->
                   IF scall[c].at = "idle" THEN scall[c] ELSE [scall[c] EXCEPT !.at = "dead"]]
    BY <1>6 DEF CrashCommands
  <2>2. UNCHANGED <<crow, cbody, sentBodies, creplies, firstReply>>
    BY <1>6 DEF CrashCommands
  <2>3. \A c \in SendCalls : /\ scall'[c] \in SendTypes /\ scall'[c].at \in {"idle", "dead"}
                             /\ scall'[c].id = scall[c].id /\ scall'[c].seen = scall[c].seen
    <3> SUFFICES ASSUME NEW c \in SendCalls
                 PROVE  /\ scall'[c] \in SendTypes /\ scall'[c].at \in {"idle", "dead"}
                        /\ scall'[c].id = scall[c].id /\ scall'[c].seen = scall[c].seen
      OBVIOUS
    <3>1. scall[c] \in SendTypes
      BY <1>t
    <3>2. CASE scall[c].at = "idle"
      BY <3>1, <3>2, <2>1
    <3>3. CASE scall[c].at # "idle"
      <4>1. scall'[c] = [scall[c] EXCEPT !.at = "dead"]
        BY <3>3, <2>1
      <4> QED BY <4>1, <3>1 DEF SendTypes
    <3> QED BY <3>2, <3>3
  <2>4. scall' \in [SendCalls -> SendTypes]
    BY <2>1, <2>3
  <2>5. FirstReplyDecides' /\ CommandSentOnce' /\ \A e \in SendCalls : PublishingOK(e)'
    BY <2>2, <2>3, <1>o
  <2>6. /\ \A e \in SendCalls : scall'[e].at \in {"sent", "unknown"} => scall'[e].id \in CommandIds
        /\ \A e \in SendCalls : scall'[e].seen \in Terminal => scall'[e].id \in CommandIds
    BY <2>3, <1>s
  <2> QED BY <2>2, <2>4, <2>5, <2>6, <1>t, <1>n, <1>f, <1>r DEF CommandInv
<1>7. CASE UNCHANGED cvars
  BY <1>7 DEF cvars, CommandInv
<1> QED BY <1>1, <1>2, <1>3, <1>4, <1>5, <1>6, <1>7 DEF CommandNext

\* SendCommand, and the device_command row: for any number of clients, identities and
\* retries a device gets a command once, and its first reply decides.
THEOREM CommandsStaySettled == CommandSpec => []CommandsAreSettled
<1>1. CommandInit => CommandInv
  BY DEF CommandInit, CommandInv, CommandsAreSettled, CommandSentOnce, FirstReplyDecides, PublishingOK,
         SendIdle, SendTypes, Statuses, Terminal
<1>2. CommandInv => CommandsAreSettled
  BY DEF CommandInv
<1> QED BY <1>1, <1>2, CommandStep, PTL DEF CommandSpec

\* What reaches a device is under control, in a platform that runs both components.
THEOREM DevicesStayControlled == CredentialSpec /\ CommandSpec => []DevicesAreControlled
BY RevokedStaysCutOff, CommandsStaySettled, PTL DEF DevicesAreControlled

-------------------------------------------------------------------------------
(* RequestRoute.  The header counts every passing-on.                      *)

RouteInv ==
    /\ request \in [at: Nodes \cup {"api"}, hops: Int, first: Int,
                    out: {"none", "served", "refused", "unconfirmed"}]
    /\ owner \in Nodes \cup {NoNode} /\ passed \in Nat
    /\ request.hops = request.first + passed /\ (passed > 0 => request.hops <= MaxHops)

LEMMA RouteStep == ASSUME RouteInv, [RouteNext]_hvars PROVE RouteInv'
<1> USE RouteAssumption DEF RouteInv
<1>1. CASE roleHandler
  BY <1>1 DEF roleHandler
<1>2. CASE Served
  BY <1>2 DEF Served
<1>3. CASE executionProxy
  <2>1. owner \in Nodes /\ UNCHANGED owner
    BY <1>3 DEF executionProxy
  <2>2. CASE request.hops >= MaxHops
    BY <1>3, <2>1, <2>2 DEF executionProxy
  <2>3. CASE request.hops < MaxHops
    <3>1. PICK h \in Int : h = request.hops + 1
      OBVIOUS
    <3>2. request' = [request EXCEPT !.at = owner, !.hops = h] /\ passed' = passed + 1
      BY <1>3, <2>3, <3>1 DEF executionProxy, ForwardedHops
    <3>3. request' \in [at: Nodes \cup {"api"}, hops: Int, first: Int,
                          out: {"none", "served", "refused", "unconfirmed"}]
          /\ request'.hops = h /\ request'.first = request.first
      BY <2>1, <3>2
    <3> QED BY <2>1, <2>3, <3>1, <3>2, <3>3
  <2> QED BY <2>2, <2>3
<1>4. CASE ProxyFails
  BY <1>4 DEF ProxyFails
<1>5. ASSUME NEW n \in Nodes \cup {NoNode}, LeaseMoves(n) PROVE RouteInv'
  BY <1>5 DEF LeaseMoves
<1>6. CASE UNCHANGED hvars
  BY <1>6 DEF hvars
<1> QED BY <1>1, <1>2, <1>3, <1>4, <1>5, <1>6 DEF RouteNext, executionTarget, LookupFails

\* executionProxy: for any number of processes and however the lease moves, a request is
\* passed on at most as often as the count it came with leaves of MaxHops.
THEOREM RequestsStayNear == RouteSpec => []HopsAreCounted
<1>1. RouteInit => RouteInv
  <2> SUFFICES ASSUME RouteInit PROVE RouteInv
    OBVIOUS
  <2>1. PICK h \in FirstHops : request = [at |-> "api", hops |-> h, first |-> h, out |-> "none"]
    BY DEF RouteInit
  <2>2. h \in Int /\ passed = 0
    BY RouteAssumption DEF RouteInit
  <2>3. request \in [at: Nodes \cup {"api"}, hops: Int, first: Int,
                     out: {"none", "served", "refused", "unconfirmed"}]
        /\ request.hops = h /\ request.first = h
    BY <2>1, <2>2
  <2> QED BY <2>2, <2>3, RouteAssumption DEF RouteInit, RouteInv
<1>2. RouteInv => HopsAreCounted
  <2> SUFFICES ASSUME RouteInv PROVE HopsAreCounted
    OBVIOUS
  <2>1. request.first \in Int /\ request.hops \in Int /\ MaxHops \in Nat /\ passed \in Nat
        /\ request.hops = request.first + passed /\ (passed > 0 => request.hops <= MaxHops)
    BY RouteAssumption DEF RouteInv
  <2> QED BY <2>1 DEF HopsAreCounted
<1> QED BY <1>1, <1>2, RouteStep, PTL DEF RouteSpec

-------------------------------------------------------------------------------
(* WorkerRuntime.  What was cut is known to be cut, and whoever compiles    *)
(* holds the one slot.                                                      *)

WCallTypes == [at: {"new", "run", "done"}, wrote: Nat, kept: Nat, cut: BOOLEAN,
               run: {"none", "exit0", "failed", "deadline", "cancelled", "copyFailed"},
               got: {"none", "output", "error"}]
WBuildTypes == [at: {"new", "next", "compile", "busy", "failed", "installed"}, left: SUBSET Targets]
WCallOK(x) ==
    /\ x \in WCallTypes
    /\ ~x.cut => x.kept = x.wrote
    /\ x.at # "done" => x.got = "none"
    /\ x.got = "output" => x.run = "exit0" /\ ~x.cut

WorkerInv ==
    /\ DOMAIN call = WCalls /\ \A c \in WCalls : WCallOK(call[c])
    /\ build \in [Builds -> WBuildTypes]
    /\ \A b \in Builds : build[b].at \in {"next", "compile"} => b \in buildSlot
    /\ buildSlot = {} \/ \E b \in Builds : buildSlot = {b}
    /\ \A d \in workDirs : d[1] \in buildSlot /\ build[d[1]].at = "compile"

\* boundedBuffer.Write keeps everything or says that it did not.
LEMMA WriteOutOK == ASSUME NEW r, WCallOK(r), r.at = "run" PROVE WCallOK(WriteOut(r))
<1>t. r \in WCallTypes
  BY DEF WCallOK
<1>1. PICK w \in Nat : w = r.wrote + 1
  BY <1>t DEF WCallTypes
<1>2. PICK k \in Nat : k = IF r.kept < OutLimit THEN r.kept + 1 ELSE r.kept
  BY <1>t DEF WCallTypes
<1>3. PICK t \in BOOLEAN : t <=> (r.cut \/ r.kept >= OutLimit)
  BY <1>t DEF WCallTypes
<1> DEFINE x == [at |-> r.at, wrote |-> w, kept |-> k, cut |-> t, run |-> r.run, got |-> r.got]
<1>4. WriteOut(r) = x
  BY <1>t, <1>1, <1>2, <1>3 DEF WriteOut, WCallTypes
<1>5. x \in WCallTypes /\ x.at = "run" /\ x.wrote = w /\ x.kept = k /\ (x.cut <=> t) /\ x.got = r.got
  BY <1>t DEF WCallTypes
<1>6. ~t => k = w
  BY <1>t, <1>1, <1>2, <1>3, WorkerAssumption DEF WCallOK, WCallTypes
<1> QED BY <1>4, <1>5, <1>6 DEF WCallOK

\* A call that changes alone stays sound when its own record does.
LEMMA WorkerCallStep ==
    ASSUME WorkerInv, NEW c \in WCalls, NEW x, WCallOK(x),
           call' = [call EXCEPT ![c] = x], UNCHANGED runVars
    PROVE  WorkerInv'
BY DEF WorkerInv, runVars

LEMMA WorkerStep == ASSUME WorkerInv, [WorkerNext]_xvars PROVE WorkerInv'
<1>1. \A c \in WCalls : WCallOK(call[c]) /\ call[c] \in WCallTypes
  BY DEF WorkerInv, WCallOK
<1>2. ASSUME NEW c \in WCalls, WorkerWrites(c) PROVE WorkerInv'
  BY <1>1, <1>2, WriteOutOK, WorkerCallStep DEF WorkerWrites
<1>3. ASSUME NEW c \in WCalls, LateDeadline(c) PROVE WorkerInv'
  <2> DEFINE x == [call[c] EXCEPT !.run = "deadline"]
  <2>1. call' = [call EXCEPT ![c] = x] /\ UNCHANGED runVars /\ call[c].at = "run"
    BY <1>3 DEF LateDeadline
  <2>2. WCallOK(x)
    BY <1>1, <2>1 DEF WCallOK, WCallTypes
  <2> QED BY <2>1, <2>2, WorkerCallStep
<1>4. ASSUME NEW c \in WCalls, NEW ok \in BOOLEAN, verifyExternalArtifact(c, ok) PROVE WorkerInv'
  <2> DEFINE x == IF ok THEN [call[c] EXCEPT !.at = "run"] ELSE [call[c] EXCEPT !.at = "done", !.got = "error"]
  <2>1. call' = [call EXCEPT ![c] = x] /\ UNCHANGED runVars /\ call[c].at = "new"
    BY <1>4 DEF verifyExternalArtifact
  <2>2. WCallOK([call[c] EXCEPT !.at = "run"])
    BY <1>1, <2>1 DEF WCallOK, WCallTypes
  <2>3. WCallOK([call[c] EXCEPT !.at = "done", !.got = "error"])
    BY <1>1, <2>1 DEF WCallOK, WCallTypes
  <2>4. WCallOK(x)
    BY <2>2, <2>3
  <2> QED BY <2>1, <2>4, WorkerCallStep
<1>5. ASSUME NEW c \in WCalls, NEW ok \in BOOLEAN, InvokeEnd(c, ok) PROVE WorkerInv'
  <2>1. PICK g \in {"output", "error"} :
            /\ call' = [call EXCEPT ![c].at = "done", ![c].got = g]
            /\ g = "output" => call[c].run = "exit0" /\ ~call[c].cut
    BY <1>5 DEF InvokeEnd, InvokeResult
  <2> DEFINE x == [call[c] EXCEPT !.at = "done", !.got = g]
  <2>2. call' = [call EXCEPT ![c] = x] /\ UNCHANGED runVars
    BY <1>5, <2>1 DEF InvokeEnd
  <2>3. WCallOK(x)
    BY <1>1, <2>1 DEF WCallOK, WCallTypes
  <2> QED BY <2>2, <2>3, WorkerCallStep
<1>6. ASSUME NEW c \in WCalls, NEW how \in {"exit0", "failed", "deadline", "cancelled"}, WorkerExits(c, how)
      PROVE  WorkerInv'
  <2>1. PICK r \in {"exit0", "failed", "deadline", "cancelled", "copyFailed"} : call' = [call EXCEPT ![c].run = r]
    BY <1>6 DEF WorkerExits
  <2> DEFINE x == [call[c] EXCEPT !.run = r]
  <2>2. call' = [call EXCEPT ![c] = x] /\ UNCHANGED runVars /\ call[c].at = "run"
    BY <1>6, <2>1 DEF WorkerExits
  <2>3. WCallOK(x)
    BY <1>1, <2>2 DEF WCallOK, WCallTypes
  <2> QED BY <2>2, <2>3, WorkerCallStep
<1>7. ASSUME NEW b \in Builds, BuildBegin(b) PROVE WorkerInv'
  <2>1. build' = [build EXCEPT ![b].at = "next"] /\ buildSlot = {} /\ buildSlot' = {b} /\ UNCHANGED <<call, workDirs>>
    BY <1>7 DEF BuildBegin, TakeBuildSlot
  <2> QED BY <2>1 DEF WorkerInv, WBuildTypes
<1>8. ASSUME NEW b \in Builds, BuildRefused(b) PROVE WorkerInv'
  BY <1>8 DEF BuildRefused, WorkerInv, WBuildTypes
<1>9. ASSUME NEW b \in Builds, BuildCompiles(b) PROVE WorkerInv'
  BY <1>9 DEF BuildCompiles, RemoveAll, WorkerInv, WBuildTypes
<1>10. ASSUME NEW b \in Builds, BuildFails(b) PROVE WorkerInv'
  <2>1. /\ b \in buildSlot /\ buildSlot = {b} /\ buildSlot' = {} /\ UNCHANGED call
        /\ build' = [build EXCEPT ![b].at = "failed"] /\ workDirs' = {}
    BY <1>10 DEF BuildFails, RemoveAll, WorkerInv, WBuildTypes
  <2> QED BY <2>1 DEF WorkerInv, WBuildTypes
<1>11. ASSUME NEW b \in Builds, BuildInstalls(b) PROVE WorkerInv'
  <2>1. /\ b \in buildSlot /\ buildSlot = {b} /\ buildSlot' = {} /\ UNCHANGED <<call, workDirs>>
        /\ build' = [build EXCEPT ![b].at = "installed"] /\ workDirs = {}
    BY <1>11 DEF BuildInstalls, WorkerInv
  <2> QED BY <2>1 DEF WorkerInv, WBuildTypes
<1>12. ASSUME NEW b \in Builds, NEW t \in Targets, BuildPrepare(b, t) PROVE WorkerInv'
  <2>1. PICK l \in SUBSET Targets : build' = [build EXCEPT ![b] = [at |-> "compile", left |-> l]]
    BY <1>12 DEF BuildPrepare, WorkerInv, WBuildTypes
  <2>2. b \in buildSlot /\ workDirs' = workDirs \cup {<<b, t>>} /\ UNCHANGED <<call, buildSlot>>
    BY <1>12 DEF BuildPrepare, WorkerInv
  <2> QED BY <2>1, <2>2 DEF WorkerInv, WBuildTypes
<1>13. CASE WorkerDeath
  <2>1. buildSlot' = {} /\ workDirs' = {}
    BY <1>13 DEF WorkerDeath
  <2>2. build' \in [Builds -> WBuildTypes] /\ \A b \in Builds : build'[b].at \notin {"next", "compile"}
    BY <1>13 DEF WorkerDeath, WorkerInv, WBuildTypes
  <2>3. call' = [c \in WCalls |-> IF call[c].at = "run" THEN [call[c] EXCEPT !.at = "done"] ELSE call[c]]
    BY <1>13 DEF WorkerDeath
  <2>4. ASSUME NEW c \in WCalls PROVE WCallOK(call'[c])
    <3>1. WCallOK([call[c] EXCEPT !.at = "done"])
      BY <1>1 DEF WCallOK, WCallTypes
    <3> QED BY <1>1, <2>3, <3>1
  <2> QED BY <2>1, <2>2, <2>3, <2>4 DEF WorkerInv
<1>14. CASE UNCHANGED xvars
  BY <1>14 DEF xvars, WorkerInv
<1> QED
  BY <1>2, <1>3, <1>4, <1>5, <1>6, <1>7, <1>8, <1>9, <1>10, <1>11, <1>12, <1>13, <1>14 DEF WorkerNext

\* Invoke and uploadProtocolSource: for any number of calls, builds and targets, whatever
\* the limits.
THEOREM WorkersStayContained == WorkerSpec => []WorkersAreContained
<1>1. WorkerInit => WorkerInv
  BY DEF WorkerInit, WorkerInv, NewCall, NewBuild, WCallOK, WCallTypes, WBuildTypes
<1>2. WorkerInv => WorkersAreContained
  <2> SUFFICES ASSUME WorkerInv PROVE WorkersAreContained
    OBVIOUS
  <2>1. OutputIsWhole
    <3> SUFFICES ASSUME NEW c \in WCalls, call[c].got = "output"
                 PROVE  call[c].run = "exit0" /\ call[c].kept = call[c].wrote
      BY DEF OutputIsWhole
    <3> QED BY DEF WorkerInv, WCallOK
  <2> DEFINE B == {b \in Builds : build[b].at \in {"next", "compile"}}
  <2>2. B = {} \/ \E b \in Builds : B = {b}
    BY DEF WorkerInv
  <2>3. Cardinality(B) <= 1
    <3>1. Cardinality({}) = 0 /\ \A b \in Builds : Cardinality({b}) = 1
      BY FS_EmptySet, FS_Singleton
    <3> HIDE DEF B
    <3> QED BY <2>2, <3>1
  <2>4. buildSlot = {} => workDirs = {}
    BY DEF WorkerInv
  <2> QED BY <2>1, <2>3, <2>4 DEF WorkersAreContained, OneCleanBuild
<1> QED BY <1>1, <1>2, WorkerStep, PTL DEF WorkerSpec

-------------------------------------------------------------------------------
(* StandardIngress.  C is what a device was let through so far, r its      *)
(* bucket: what the bucket counts is what came since it began, and less    *)
(* than a bucket came in any window that reaches back before it.           *)

Times == 0 .. MaxTime
CountOK(C) ==
    /\ C \in [Times -> Nat]
    /\ \A u, v \in Times : u <= v => C[u] <= C[v]
    /\ \A u \in Times : u >= time => C[u] = C[time]
SpansOK(C) == \A t \in 1 .. MaxTime - Window + 1 : C[t + Window - 1] < C[t - 1] + 2 * PerWindow
\* Nothing came at this moment, and less than a bucket in the window that ends now.
Quiet(C) ==
    /\ C[time] = C[time - 1]
    /\ \A t \in 1 .. MaxTime : t <= time /\ time < t + Window => C[time] < C[t - 1] + PerWindow
BucketOK(r, C) ==
    /\ r.at \in 1 .. time /\ r.n <= PerWindow
    /\ C[time] = C[r.at - 1] + r.n
    /\ C[r.at - 1] < C[r.at]
    /\ \A u \in Times : r.at + Window <= u + 1 => C[u] = C[time]
    /\ \A t \in 1 .. MaxTime : t < r.at /\ r.at < t + Window => C[r.at - 1] < C[t - 1] + PerWindow

RateOK(r, C) ==
    /\ CountOK(C) /\ SpansOK(C)
    /\ r.n = 0 => Quiet(C)
    /\ r.n # 0 => BucketOK(r, C)

IngressInv ==
    /\ time \in 1 .. MaxTime
    /\ rates \in [StdDevices -> [at: Nat, n: Nat]]
    /\ DOMAIN grants = StdDevices
    /\ \A d \in StdDevices : RateOK(rates[d], grants[d])
    /\ RatesBounded

\* A bucket that began a window ago or earlier is as good as none.
LEMMA OldBucketIsQuiet ==
    ASSUME time \in 1 .. MaxTime, NEW C, NEW r \in [at: Nat, n: Nat], CountOK(C), BucketOK(r, C),
           r.at + Window <= time, r.n # 0
    PROVE  Quiet(C)
<1> USE IngressAssumption DEF Times
<1>1. time - 1 \in Times /\ C[time - 1] = C[time]
  BY DEF BucketOK
<1>2. ASSUME NEW t \in 1 .. MaxTime, t <= time, time < t + Window PROVE C[time] < C[t - 1] + PerWindow
  <2>1. r.at \in Times /\ r.at - 1 \in Times /\ t - 1 \in Times /\ r.at <= t - 1
    BY <1>2 DEF BucketOK
  <2>2. C[r.at] <= C[t - 1] /\ C[r.at - 1] < C[r.at] /\ C[time] = C[r.at - 1] + r.n /\ r.n <= PerWindow
    BY <2>1 DEF BucketOK, CountOK
  <2>3. C[r.at] \in Nat /\ C[t - 1] \in Nat /\ C[r.at - 1] \in Nat /\ r.n \in Nat
    BY <2>1 DEF CountOK
  <2> QED BY <2>2, <2>3
<1> QED BY <1>1, <1>2 DEF Quiet

\* One more message, in a bucket that began at a.
LEMMA MessageCounts ==
    ASSUME time \in 1 .. MaxTime, NEW C, NEW a \in 1 .. time, NEW n \in Nat, CountOK(C), SpansOK(C),
           n < PerWindow, n = 0 => a = time /\ Quiet(C), n # 0 => BucketOK([at |-> a, n |-> n], C),
           n # 0 => time < a + Window
    PROVE  LET D == [t \in Times |-> IF t < time THEN C[t] ELSE C[t] + 1]
           IN  CountOK(D) /\ SpansOK(D) /\ BucketOK([at |-> a, n |-> n + 1], D)
<1> USE IngressAssumption DEF Times
<1> DEFINE D == [t \in Times |-> IF t < time THEN C[t] ELSE C[t] + 1]
<1>1. C \in [Times -> Nat] /\ (\A u, v \in Times : u <= v => C[u] <= C[v])
      /\ \A u \in Times : u >= time => C[u] = C[time]
  BY DEF CountOK
<1>2. /\ \A u \in Times : u < time => D[u] = C[u]
      /\ \A u \in Times : u >= time => D[u] = C[time] + 1
      /\ D \in [Times -> Nat]
  BY <1>1
<1> HIDE DEF D
<1>3. CountOK(D)
  <2>1. ASSUME NEW u \in Times, NEW v \in Times, u <= v PROVE D[u] <= D[v]
    <3>1. C[u] \in Nat /\ C[v] \in Nat /\ C[time] \in Nat
      BY <1>1
    <3>2. CASE v < time
      BY <1>1, <1>2, <2>1, <3>2
    <3>3. CASE v >= time /\ u < time
      BY <1>1, <1>2, <2>1, <3>1, <3>3
    <3>4. CASE u >= time
      BY <1>2, <2>1, <3>4
    <3> QED BY <3>2, <3>3, <3>4
  <2>2. \A u \in Times : u >= time => D[u] = D[time]
    BY <1>2
  <2> QED BY <1>2, <2>1, <2>2 DEF CountOK
<1>4. a - 1 \in Times /\ a \in Times /\ time \in Times /\ time - 1 \in Times
  OBVIOUS
<1>5. C[time] = C[a - 1] + n
  <2>1. CASE n = 0
    BY <2>1, <1>1, <1>4 DEF Quiet
  <2>2. CASE n # 0
    BY <2>2, <1>4 DEF BucketOK
  <2> QED BY <2>1, <2>2
<1>6. D[time] = C[time] + 1 /\ D[a - 1] = C[a - 1]
  BY <1>2, <1>4
<1>7. D[a - 1] < D[a]
  <2>1. CASE n = 0
    BY <2>1, <1>1, <1>2, <1>4, <1>5, <1>6
  <2>2. CASE n # 0
    <3>1. C[a - 1] < C[a]
      BY <2>2 DEF BucketOK
    <3>2. D[a] >= C[a]
      BY <1>1, <1>2, <1>4
    <3> QED BY <1>1, <1>2, <1>4, <1>6, <3>1, <3>2
  <2> QED BY <2>1, <2>2
<1>8. \A u \in Times : a + Window <= u + 1 => D[u] = D[time]
  BY <1>2, <1>4
<1>9. ASSUME NEW t \in 1 .. MaxTime, t < a, a < t + Window PROVE D[a - 1] < D[t - 1] + PerWindow
  <2>1. t - 1 \in Times /\ D[t - 1] = C[t - 1]
    BY <1>2, <1>9
  <2>2. CASE n = 0
    <3>1. C[time] < C[t - 1] + PerWindow
      BY <1>9, <2>2 DEF Quiet
    <3> QED BY <1>1, <1>4, <1>5, <1>6, <2>1, <2>2, <3>1
  <2>3. CASE n # 0
    <3>1. C[a - 1] < C[t - 1] + PerWindow
      BY <1>9, <2>3 DEF BucketOK
    <3> QED BY <1>6, <2>1, <3>1
  <2> QED BY <2>2, <2>3
<1>10. BucketOK([at |-> a, n |-> n + 1], D)
  <2>1. D[time] = D[a - 1] + (n + 1)
    BY <1>1, <1>4, <1>5, <1>6
  <2>2. n + 1 <= PerWindow
    OBVIOUS
  <2> DEFINE m == n + 1
  <2>3. D[time] = D[a - 1] + m /\ m <= PerWindow
    BY <2>1, <2>2
  <2> HIDE DEF m
  <2>4. BucketOK([at |-> a, n |-> m], D)
    BY <2>3, <1>7, <1>8, <1>9 DEF BucketOK
  <2> QED BY <2>4 DEF m
<1>11. SpansOK(D)
  <2> SUFFICES ASSUME NEW t \in 1 .. MaxTime - Window + 1
               PROVE  D[t + Window - 1] < D[t - 1] + 2 * PerWindow
    BY DEF SpansOK
  <2>1. PICK e \in Times : e = t + Window - 1
    OBVIOUS
  <2>2. PICK b \in Times : b = t - 1
    OBVIOUS
  <2>3. C[e] < C[b] + 2 * PerWindow
    BY <2>1, <2>2 DEF SpansOK
  <2>4. D[e] \in Nat /\ D[b] \in Nat /\ C[e] \in Nat /\ C[b] \in Nat /\ C[a - 1] \in Nat /\ C[time] \in Nat /\ D[time] \in Nat
    BY <1>1, <1>2, <1>4
  <2>5. CASE e < time
    <3>1. b < time
      BY <2>1, <2>2, <2>5
    <3>2. D[e] = C[e] /\ D[b] = C[b]
      BY <1>2, <2>5, <3>1
    <3> QED BY <2>1, <2>2, <2>3, <3>2
  <2>6. CASE b >= time
    <3>1. D[e] = D[b]
      BY <1>2, <2>1, <2>2, <2>6
    <3> QED BY <2>1, <2>2, <2>4, <3>1
  <2>7. CASE e >= time /\ b < time /\ b >= a - 1
    <3>1. D[e] = D[time] /\ D[b] = C[b] /\ C[b] >= C[a - 1]
      BY <1>1, <1>2, <1>4, <2>7
    <3>2. D[time] = C[a - 1] + n + 1
      BY <1>5, <1>6, <2>4
    <3> QED BY <2>1, <2>2, <2>4, <3>1, <3>2
  <2>8. CASE e >= time /\ b < a - 1
    <3>1. D[e] = D[time] /\ D[b] = C[b]
      BY <1>2, <1>4, <2>8
    <3>2. D[a - 1] < D[t - 1] + PerWindow
      BY <1>9, <2>1, <2>2, <2>8
    <3>3. D[time] = C[a - 1] + n + 1
      BY <1>5, <1>6, <2>4
    <3> QED BY <1>6, <2>1, <2>2, <2>4, <3>1, <3>2, <3>3
  <2> QED BY <2>5, <2>6, <2>7, <2>8
<1> QED BY <1>3, <1>10, <1>11 DEF D

\* Evict drops what began more than a minute ago, and nothing else.
LEMMA EvictedRates ==
    ASSUME IngressInv
    PROVE  /\ Evict(rates) \in [StdDevices -> [at: Nat, n: Nat]]
           /\ \A d \in StdDevices :
                \/ Evict(rates)[d] = rates[d]
                \/ Evict(rates)[d] = [at |-> 0, n |-> 0] /\ rates[d].at + Window < time
BY IngressAssumption DEF Evict, IngressInv

LEMMA EvictedRateOK ==
    ASSUME IngressInv, NEW d \in StdDevices PROVE RateOK(Evict(rates)[d], grants[d])
<1>1. RateOK(rates[d], grants[d]) /\ rates[d] \in [at: Nat, n: Nat] /\ time \in 1 .. MaxTime
  BY DEF IngressInv
<1>2. CASE Evict(rates)[d] = rates[d]
  BY <1>1, <1>2
<1>3. CASE Evict(rates)[d] = [at |-> 0, n |-> 0] /\ rates[d].at + Window < time
  <2>1. CountOK(grants[d]) /\ SpansOK(grants[d]) /\ (rates[d].n = 0 => Quiet(grants[d]))
        /\ (rates[d].n # 0 => BucketOK(rates[d], grants[d]))
    BY <1>1 DEF RateOK
  <2>2. rates[d].at + Window <= time
    BY <1>1, <1>3, IngressAssumption
  <2>3. Quiet(grants[d])
    BY <1>1, <2>1, <2>2, OldBucketIsQuiet
  <2>4. Evict(rates)[d].n = 0
    BY <1>3
  <2> QED BY <2>1, <2>3, <2>4 DEF RateOK
<1> QED BY <1>2, <1>3, EvictedRates

\* The table after a message: the device had an entry, or there was room for one.
LEMMA RatesStayBounded ==
    ASSUME IngressInv, NEW d \in StdDevices, HasRoom(d), NEW R,
           R \in [StdDevices -> [at: Nat, n: Nat]],
           \A e \in StdDevices : e # d => R[e] = Evict(rates)[e]
    PROVE  Cardinality(Entries(R)) <= MaxRates
<1> DEFINE E == Entries(Evict(rates))
<1>1. IsFiniteSet(Entries(rates)) /\ Cardinality(Entries(rates)) <= MaxRates
  BY IngressAssumption, FS_Subset DEF IngressInv, RatesBounded, Entries
<1>2. E \subseteq Entries(rates)
  BY EvictedRates DEF Entries
<1>3. IsFiniteSet(E) /\ Cardinality(E) <= Cardinality(Entries(rates))
  BY <1>1, <1>2, FS_Subset
<1>4. Cardinality(E) \in Nat /\ Cardinality(Entries(rates)) \in Nat /\ MaxRates \in Nat
  BY <1>1, <1>3, FS_CardinalityType, IngressAssumption
<1>5. Entries(R) \subseteq E \cup {d}
  BY DEF Entries
<1>6. /\ IsFiniteSet(E \cup {d})
      /\ Cardinality(E \cup {d}) = IF d \in E THEN Cardinality(E) ELSE Cardinality(E) + 1
  BY <1>3, FS_AddElement
<1>7. Cardinality(Entries(R)) <= Cardinality(E \cup {d}) /\ IsFiniteSet(Entries(R))
  BY <1>5, <1>6, FS_Subset
<1>8. Cardinality(Entries(R)) \in Nat
  BY <1>7, FS_CardinalityType
<1>9. d \in E \/ Cardinality(E) < MaxRates
  BY DEF HasRoom
<1> HIDE DEF E
<1> QED BY <1>1, <1>3, <1>4, <1>6, <1>7, <1>8, <1>9

LEMMA IngressStep == ASSUME IngressInv, [IngressNext]_yvars PROVE IngressInv'
<1>t. time \in 1 .. MaxTime /\ rates \in [StdDevices -> [at: Nat, n: Nat]] /\ DOMAIN grants = StdDevices
  BY DEF IngressInv
<1>1. ASSUME NEW d \in StdDevices, standardDeviceIngest(d) PROVE IngressInv'
  <2> DEFINE C == grants[d]
             b == Bucket(d)
  <2>1. RateOK(rates[d], C) /\ rates[d] \in [at: Nat, n: Nat]
    BY <1>t DEF IngressInv
  <2>2. CountOK(C) /\ SpansOK(C) /\ (rates[d].n = 0 => Quiet(C)) /\ (rates[d].n # 0 => BucketOK(rates[d], C))
    BY <2>1 DEF RateOK
  <2>3. b.n < PerWindow /\ HasRoom(d)
    BY <1>1 DEF standardDeviceIngest, PrepareStandard, Allow
  <2>4. PICK a \in 1 .. time, n \in Nat :
           /\ b = [at |-> a, n |-> n]
           /\ n = 0 => a = time /\ Quiet(C)
           /\ n # 0 => BucketOK([at |-> a, n |-> n], C) /\ time < a + Window
    <3>1. CASE rates[d].n = 0 \/ time - rates[d].at >= Window
      <4>1. b = [at |-> time, n |-> 0]
        BY <3>1 DEF Bucket
      <4>2. Quiet(C)
        <5>1. CASE rates[d].n = 0
          BY <2>2, <5>1
        <5>2. CASE rates[d].n # 0
          <6>1. rates[d].at + Window <= time
            BY <1>t, <2>1, <3>1, <5>2, IngressAssumption
          <6> QED BY <1>t, <2>1, <2>2, <5>2, <6>1, OldBucketIsQuiet
        <5> QED BY <5>1, <5>2
      <4>3. time \in 1 .. time /\ 0 \in Nat
        BY <1>t
      <4> QED BY <4>1, <4>2, <4>3
    <3>2. CASE ~(rates[d].n = 0 \/ time - rates[d].at >= Window)
      <4>1. b = rates[d]
        BY <3>2 DEF Bucket
      <4>2. PICK a \in Nat, n \in Nat : rates[d] = [at |-> a, n |-> n]
        BY <2>1
      <4>3. n # 0 /\ BucketOK([at |-> a, n |-> n], C) /\ time < a + Window
        BY <1>t, <2>2, <3>2, <4>2, IngressAssumption
      <4>4. a \in 1 .. time
        BY <4>3 DEF BucketOK
      <4> QED BY <4>1, <4>2, <4>3, <4>4
    <3> QED BY <3>1, <3>2
  <2> DEFINE D == [t \in Times |-> IF t < time THEN C[t] ELSE C[t] + 1]
             m == n + 1
             x == [at |-> a, n |-> m]
  <2>5. n < PerWindow
    BY <2>3, <2>4
  <2>6. CountOK(D) /\ SpansOK(D) /\ BucketOK([at |-> a, n |-> n + 1], D)
    BY <1>t, <2>2, <2>4, <2>5, MessageCounts
  <2>7. m \in Nat /\ m # 0 /\ a \in Nat
    BY <1>t
  <2>8. BucketOK(x, D) /\ x.n = m /\ x \in [at: Nat, n: Nat]
    BY <2>6, <2>7
  <2>9. rates' = [Evict(rates) EXCEPT ![d] = x]
    BY <1>1, <2>4 DEF standardDeviceIngest
  <2>10. grants' = [grants EXCEPT ![d] = D] /\ UNCHANGED time
    BY <1>1 DEF standardDeviceIngest, Times
  <2>11. CountOK(D) /\ SpansOK(D)
    BY <2>6
  <2> HIDE DEF D, m, x, C, b
  <2>12. RateOK(x, D)
    BY <2>7, <2>8, <2>11 DEF RateOK
  <2>13. /\ rates' \in [StdDevices -> [at: Nat, n: Nat]]
         /\ rates'[d] = x /\ \A e \in StdDevices : e # d => rates'[e] = Evict(rates)[e]
    BY <2>8, <2>9, EvictedRates
  <2>14. DOMAIN grants' = StdDevices /\ grants'[d] = D /\ \A e \in StdDevices : e # d => grants'[e] = grants[e]
    BY <2>10, <1>t
  <2>15. ASSUME NEW e \in StdDevices PROVE RateOK(rates'[e], grants'[e])
    BY <2>12, <2>13, <2>14, EvictedRateOK
  <2>16. \A e \in StdDevices : RateOK(rates[e], grants[e])'
    BY <2>15, <2>10 DEF RateOK, CountOK, Quiet, BucketOK
  <2>17. RatesBounded'
    <3>1. Cardinality(Entries(rates')) <= MaxRates
      BY <2>3, <2>13, RatesStayBounded
    <3> QED BY <3>1 DEF RatesBounded, Entries
  <2> QED BY <1>t, <2>10, <2>13, <2>14, <2>16, <2>17 DEF IngressInv
<1>2. ASSUME UNCHANGED <<time, rates, grants>> PROVE IngressInv'
  BY <1>2 DEF IngressInv, RateOK, CountOK, Quiet, BucketOK, RatesBounded, Entries
<1>3. CASE ClockTick
  <2>1. time < MaxTime /\ time' = time + 1 /\ UNCHANGED <<rates, grants>>
    BY <1>3 DEF ClockTick
  <2>2. time' \in 1 .. MaxTime
    BY <1>t, <2>1, IngressAssumption
  <2>3. ASSUME NEW d \in StdDevices PROVE RateOK(rates[d], grants[d])'
    <3> DEFINE C == grants[d]  r == rates[d]
    <3>1. RateOK(r, C) /\ r \in [at: Nat, n: Nat]
      BY <1>t DEF IngressInv
    <3> HIDE DEF C, r
    <3>2. C \in [Times -> Nat] /\ (\A u \in Times : u >= time => C[u] = C[time]) /\ time \in Times /\ time' \in Times
      BY <1>t, <2>2, <3>1, IngressAssumption DEF RateOK, CountOK, Times
    <3>3. C[time'] = C[time] /\ C[time' - 1] = C[time]
      BY <1>t, <2>1, <3>2
    <3>4. C' = C /\ r' = r
      BY <2>1 DEF C, r
    <3>5. CountOK(C)'
      <4>1. \A u \in Times : u >= time' => C[u] = C[time']
        BY <1>t, <2>1, <3>2, <3>3 DEF Times
      <4> QED BY <3>1, <3>4, <4>1 DEF RateOK, CountOK, Times
    <3>6. SpansOK(C)'
      BY <3>1, <3>4 DEF RateOK, SpansOK
    <3>7. r'.n = 0 => Quiet(C)'
      <4> SUFFICES ASSUME r.n = 0 PROVE Quiet(C)'
        BY <3>4
      <4>1. ASSUME NEW t \in 1 .. MaxTime, t <= time', time' < t + Window PROVE C[time'] < C[t - 1] + PerWindow
        <5>1. CASE t <= time
          <6>1. time < t + Window
            BY <1>t, <2>1, <4>1, IngressAssumption
          <6> QED BY <3>1, <3>3, <5>1, <6>1 DEF RateOK, Quiet
        <5>2. CASE t = time + 1
          <6>1. t - 1 = time
            BY <1>t, <5>2
          <6> QED BY <3>2, <3>3, <6>1, IngressAssumption
        <5> QED BY <1>t, <2>1, <4>1, <5>1, <5>2
      <4> QED BY <3>3, <3>4, <4>1 DEF Quiet
    <3>8. r'.n # 0 => BucketOK(r, C)'
      <4> SUFFICES ASSUME r.n # 0 PROVE BucketOK(r, C)'
        BY <3>4
      <4>1. BucketOK(r, C)
        BY <3>1 DEF RateOK
      <4>2. r.at \in 1 .. time'
        BY <1>t, <2>1, <4>1 DEF BucketOK
      <4> QED BY <3>3, <3>4, <4>1, <4>2 DEF BucketOK, Times
    <3> QED BY <3>5, <3>6, <3>7, <3>8 DEF RateOK, C, r
  <2>4. RatesBounded'
    BY <2>1 DEF IngressInv, RatesBounded, Entries
  <2> QED BY <1>t, <2>1, <2>2, <2>3, <2>4 DEF IngressInv
<1> QED BY <1>1, <1>2, <1>3 DEF IngressNext, SetActive, yvars

\* Allow: for any number of devices, any limit and any size of the table, no device gets
\* twice the limit through in a window, and the table keeps its size.
THEOREM RatesStayLimited == IngressSpec => []RateIsLimited
<1>1. IngressInit => IngressInv
  <2> SUFFICES ASSUME IngressInit PROVE IngressInv
    OBVIOUS
  <2> DEFINE Z == [t \in 0 .. MaxTime |-> 0]
  <2>1. time = 1 /\ 1 \in 1 .. MaxTime /\ rates = [d \in StdDevices |-> [at |-> 0, n |-> 0]]
        /\ grants = [d \in StdDevices |-> Z]
    BY IngressAssumption DEF IngressInit
  <2>2. Z \in [Times -> Nat] /\ \A u \in Times : Z[u] = 0
    BY DEF Times
  <2> HIDE DEF Z
  <2>3. CountOK(Z)
    BY <2>1, <2>2, IngressAssumption DEF CountOK, Times
  <2>4. SpansOK(Z)
    <3>1. \A t \in 1 .. MaxTime - Window + 1 : t + Window - 1 \in Times /\ t - 1 \in Times
      BY IngressAssumption DEF Times
    <3>2. ASSUME NEW t \in 1 .. MaxTime - Window + 1 PROVE Z[t + Window - 1] < Z[t - 1] + 2 * PerWindow
      <4>1. Z[t + Window - 1] = 0 /\ Z[t - 1] = 0
        BY <2>2, <3>1
      <4> QED BY <4>1, IngressAssumption
    <3> QED BY <3>2 DEF SpansOK
  <2>5. Quiet(Z)
    <3>1. 0 \in Times /\ 1 \in Times /\ \A t \in 1 .. MaxTime : t - 1 \in Times
      BY IngressAssumption DEF Times
    <3>2. Z[time] = Z[time - 1]
      BY <2>1, <2>2, <3>1
    <3> QED BY <2>1, <2>2, <3>1, <3>2, IngressAssumption DEF Quiet
  <2>6. \A d \in StdDevices : RateOK(rates[d], grants[d])
    BY <2>1, <2>3, <2>4, <2>5 DEF RateOK
  <2>7. Entries(rates) = {}
    BY <2>1 DEF Entries
  <2>8. RatesBounded
    BY <2>7, FS_EmptySet, IngressAssumption DEF RatesBounded
  <2> QED BY <2>1, <2>6, <2>8 DEF IngressInv
<1>2. IngressInv => RateIsLimited
  BY DEF IngressInv, RateOK, SpansOK, RateIsLimited, UnderTwicePerWindow
<1> QED BY <1>1, <1>2, IngressStep, PTL DEF IngressSpec

\* Limits hold at their edge, in a platform that runs the three components.
THEOREM LimitsStayHeld == RouteSpec /\ WorkerSpec /\ IngressSpec => []LimitsHold
BY RequestsStayNear, WorkersStayContained, RatesStayLimited, PTL DEF LimitsHold

-----------------------------------------------------------------------------
(* ProductAccess.  The rows are only ever created: a device that exists is  *)
(* not replaced, so whoever was told "created" keeps the secret.            *)

OCallTypes == [at: {"idle", "tested", "save", "done"}, q: Wizard \cup {ANil},
               rel: Rels \cup {StdRel, ANil}, result: OResults \cup {ANil}]
OCallOK(x) ==
    /\ x \in OCallTypes
    /\ x.at # "idle" => x.q \in Wizard
    /\ x.at # "done" => x.result = ANil
    /\ x.result = "reused" => odev[x.q.dev] # ANil

AccessInv ==
    /\ ocall \in [OCalls -> OCallTypes]
    /\ \A c \in OCalls : OCallOK(ocall[c])
    /\ odev \in [ODevices -> ODeviceRows \cup {ANil}]
    /\ DOMAIN profile = AccessIds
    /\ \A a \in ACalls : acall[a].at = "save" => acall[a].id \in AccessIds
    /\ DOMAIN acall = ACalls
    /\ AccessIsSound

\* What is known of the constants: a missing row is not a row, no answer is not an answer.
LEMMA WizardFacts ==
    /\ \A q \in Wizard : q.dev \in ODevices /\ q.dev \in AccessIds /\ q.kind \in {"std", "tcp"}
    /\ \A q \in Wizard, c \in OCalls : [req |-> q, key |-> c] \in ODeviceRows
    /\ [req |-> ANil, key |-> ANil] \in ODeviceRows
    /\ ANil \notin ODeviceRows
    /\ ANil # "created" /\ ANil # "reused"
<1>1. ANil \notin ODeviceRows /\ ANil # "created" /\ ANil # "reused"
  BY AccessAssumption DEF OResults
<1>2. \A q \in Wizard : q.dev \in ODevices /\ q.kind \in {"std", "tcp"}
  BY AccessAssumption
<1>3. /\ \A q \in Wizard, c \in OCalls : [req |-> q, key |-> c] \in ODeviceRows
      /\ [req |-> ANil, key |-> ANil] \in ODeviceRows
  BY DEF ODeviceRows
<1> QED BY <1>1, <1>2, <1>3 DEF AccessIds

\* Whoever was told "created" or "reused" was told of a device that exists.
LEMMA AnsweredExists ==
    ASSUME AccessInv, NEW c \in OCalls, ocall[c].result \in {"created", "reused"}
    PROVE  ocall[c].q \in Wizard /\ odev[ocall[c].q.dev] # ANil
<1>1. OCallOK(ocall[c]) /\ OneDeviceOneSecret
  BY DEF AccessInv, AccessIsSound
<1>2. ocall[c].q \in Wizard
  BY <1>1, WizardFacts DEF OCallOK
<1>3. CASE ocall[c].result = "created"
  <2>1. [req |-> ocall[c].q, key |-> c] \in ODeviceRows
    BY <1>2, WizardFacts
  <2>2. odev[ocall[c].q.dev] = [req |-> ocall[c].q, key |-> c]
    BY <1>1, <1>3 DEF OneDeviceOneSecret
  <2> QED BY <1>2, <2>1, <2>2, WizardFacts
<1>4. CASE ocall[c].result = "reused"
  BY <1>1, <1>2, <1>4 DEF OCallOK
<1> QED BY <1>3, <1>4

\* One request moves on, and devices are only added: all answers stay true.
LEMMA OneCallMoves ==
    ASSUME AccessInv, NEW c \in OCalls, NEW x \in OCallTypes, ocall' = [ocall EXCEPT ![c] = x],
           x.at # "idle" => x.q \in Wizard, x.at # "done" => x.result = ANil,
           odev' \in [ODevices -> ODeviceRows \cup {ANil}],
           \A d \in ODevices : odev[d] # ANil => odev'[d] = odev[d],
           x.result = "reused" => odev'[x.q.dev] # ANil /\ odev'[x.q.dev].req = x.q,
           x.result = "created" => odev'[x.q.dev] = [req |-> x.q, key |-> c]
    PROVE  /\ ocall' \in [OCalls -> OCallTypes]
           /\ \A e \in OCalls : OCallOK(ocall[e])'
           /\ OneDeviceOneSecret'
<1>1. ocall' \in [OCalls -> OCallTypes] /\ ocall'[c] = x /\ \A e \in OCalls \ {c} : ocall'[e] = ocall[e]
  BY DEF AccessInv
<1>2. ASSUME NEW e \in OCalls \ {c}, ocall[e].result \in {"created", "reused"}
      PROVE  ocall[e].q \in Wizard /\ odev[ocall[e].q.dev] # ANil
             /\ odev'[ocall[e].q.dev] = odev[ocall[e].q.dev]
  <2>1. ocall[e].q \in Wizard /\ odev[ocall[e].q.dev] # ANil
    BY <1>2, AnsweredExists
  <2> QED BY <2>1, WizardFacts
<1>3. ASSUME NEW e \in OCalls PROVE OCallOK(ocall[e])'
  <2>1. CASE e = c
    BY <1>1, <2>1 DEF OCallOK
  <2>2. CASE e # c
    BY <1>1, <1>2, <2>2 DEF OCallOK, AccessInv
  <2> QED BY <2>1, <2>2
<1>4. ASSUME NEW e \in OCalls
      PROVE  /\ ocall'[e].result = "created" => odev'[ocall'[e].q.dev] = [req |-> ocall'[e].q, key |-> e]
             /\ ocall'[e].result = "reused" => odev'[ocall'[e].q.dev].req = ocall'[e].q
  <2>1. CASE e = c
    BY <1>1, <2>1
  <2>2. CASE e # c
    BY <1>1, <1>2, <2>2 DEF AccessInv, AccessIsSound, OneDeviceOneSecret
  <2> QED BY <2>1, <2>2
<1> QED BY <1>1, <1>3, <1>4 DEF OneDeviceOneSecret

\* The invariant of the onboarding is inductive.
LEMMA AccessStepInv == AccessInv /\ [AccessNext]_avars => AccessInv'
<1> SUFFICES ASSUME AccessInv, [AccessNext]_avars PROVE AccessInv'
  OBVIOUS
<1>1. CASE UNCHANGED <<ocall, odev, profile, acall, byHand>>
  BY <1>1 DEF AccessInv, OCallOK, AccessIsSound, OneDeviceOneSecret, OnboardingReservesPort, Listening
<1>2. ASSUME NEW c \in OCalls, NEW q \in Wizard, TestOnboarding(c, q) PROVE AccessInv'
  <2> DEFINE x == [OIdle EXCEPT !.at = "tested", !.q = q, !.rel = PlannedRel(q)]
  <2>1. ocall' = [ocall EXCEPT ![c] = x] /\ UNCHANGED <<odev, profile, acall, byHand>>
    BY <1>2 DEF TestOnboarding
  <2>2. PlannedRel(q) \in Rels \cup {StdRel, ANil}
    BY <1>2, AccessAssumption DEF TestOnboarding, plan, PlannedRel
  <2>3. x \in OCallTypes /\ x.at = "tested" /\ x.q = q /\ x.result = ANil
    BY <2>2 DEF OIdle, OCallTypes
  <2> HIDE DEF x
  <2>4. odev' \in [ODevices -> ODeviceRows \cup {ANil}]
    BY <2>1 DEF AccessInv
  <2>5. ocall' \in [OCalls -> OCallTypes] /\ (\A e \in OCalls : OCallOK(ocall[e])') /\ OneDeviceOneSecret'
    BY <1>2, <2>1, <2>3, <2>4, WizardFacts, OneCallMoves
  <2> QED BY <2>1, <2>4, <2>5 DEF AccessInv, AccessIsSound, OnboardingReservesPort, Listening
<1>3. ASSUME NEW c \in OCalls, ocall[c].at \in {"tested", "save"}, UNCHANGED <<odev, profile, acall, byHand>>,
             \/ ocall' = [ocall EXCEPT ![c].at = "save"]
             \/ ocall' = [ocall EXCEPT ![c].at = "done", ![c].result = RecoverResult(ocall[c].q)]
      PROVE  AccessInv'
  <2> DEFINE q == ocall[c].q
             at == IF ocall' = [ocall EXCEPT ![c].at = "save"] THEN "save" ELSE "done"
             res == IF ocall' = [ocall EXCEPT ![c].at = "save"] THEN ANil ELSE RecoverResult(q)
             x == [ocall[c] EXCEPT !.at = at, !.result = res]
  <2>1. ocall[c] \in OCallTypes /\ q \in Wizard /\ ocall[c].result = ANil /\ ocall \in [OCalls -> OCallTypes]
    BY <1>3 DEF AccessInv, OCallOK
  <2>2. x \in OCallTypes /\ x.at = at /\ x.q = q /\ x.result = res
    BY <2>1 DEF OCallTypes, RecoverResult, OResults
  <2>3. ocall' = [ocall EXCEPT ![c] = x]
    <3>1. CASE ocall' = [ocall EXCEPT ![c].at = "save"]
      BY <2>1, <3>1 DEF OCallTypes
    <3>2. CASE ocall' # [ocall EXCEPT ![c].at = "save"]
      BY <1>3, <2>1, <3>2 DEF OCallTypes
    <3> QED BY <3>1, <3>2
  <2>4. /\ (at = "save" /\ res = ANil) \/ (at = "done" /\ res = RecoverResult(q))
    OBVIOUS
  <2>5. res # "created" /\ (res = "reused" => odev[q.dev] # ANil /\ odev[q.dev].req = q)
    BY <2>4, WizardFacts DEF RecoverResult
  <2> HIDE DEF x, q, at, res
  <2>6. odev' = odev /\ odev' \in [ODevices -> ODeviceRows \cup {ANil}]
    BY <1>3 DEF AccessInv
  <2>7. ocall' \in [OCalls -> OCallTypes] /\ (\A e \in OCalls : OCallOK(ocall[e])') /\ OneDeviceOneSecret'
    BY <2>1, <2>2, <2>3, <2>4, <2>5, <2>6, OneCallMoves
  <2> QED BY <1>3, <2>6, <2>7 DEF AccessInv, AccessIsSound, OnboardingReservesPort, Listening
<1>4. ASSUME NEW c \in OCalls, CreateDevice(c) PROVE AccessInv'
  BY <1>3, <1>4 DEF CreateDevice
<1>5. ASSUME NEW c \in OCalls, SaveOnboarding(c) PROVE AccessInv'
  <2>1. CASE ~BundleFits(c)
    BY <1>3, <1>5, <2>1 DEF SaveOnboarding
  <2>2. CASE BundleFits(c)
    <3> DEFINE q == ocall[c].q
               x == [ocall[c] EXCEPT !.at = "done", !.result = "created"]
               rec == [req |-> q, key |-> c]
    <3>1. ocall[c] \in OCallTypes /\ q \in Wizard /\ ocall \in [OCalls -> OCallTypes] /\ odev[q.dev] = ANil
          /\ q.dev \in ODevices /\ q.dev \in AccessIds /\ rec \in ODeviceRows
          /\ odev \in [ODevices -> ODeviceRows \cup {ANil}]
      BY <1>5, <2>2, WizardFacts DEF AccessInv, OCallOK, SaveOnboarding, BundleFits
    <3>2. x \in OCallTypes /\ x.at = "done" /\ x.q = q /\ x.result = "created"
      BY <3>1 DEF OCallTypes, OResults
    <3>3. ocall' = [ocall EXCEPT ![c] = x] /\ odev' = [odev EXCEPT ![q.dev] = rec]
          /\ UNCHANGED <<acall, byHand>>
      BY <1>5, <2>2, <3>1 DEF SaveOnboarding, OCallTypes
    <3>4. DOMAIN profile' = AccessIds
          /\ \A i \in AccessIds : \/ profile'[i] = profile[i]
                                  \/ (i = q.dev /\ profile'[i].port = q.port /\ ~PortUsed(q.port, {}))
      <4>1. DOMAIN profile = AccessIds /\ q.kind \in {"std", "tcp"}
        BY <3>1, WizardFacts DEF AccessInv
      <4>2. CASE q.kind = "std"
        <5>1. profile' = profile
          BY <1>5, <2>2, <4>2 DEF SaveOnboarding
        <5> QED BY <4>1, <5>1
      <4>3. CASE q.kind = "tcp"
        <5>1. profile' = [profile EXCEPT ![q.dev] = [on |-> TRUE, port |-> q.port, rel |-> ocall[c].rel]]
          BY <1>5, <2>2, <4>3 DEF SaveOnboarding
        <5>2. ~PortUsed(q.port, {})
          BY <2>2, <4>3 DEF BundleFits
        <5> HIDE DEF q
        <5> QED BY <4>1, <5>1, <5>2
      <4> QED BY <4>1, <4>2, <4>3
    <3> HIDE DEF x, rec
    <3>5. odev' \in [ODevices -> ODeviceRows \cup {ANil}] /\ odev'[q.dev] = rec
          /\ \A d \in ODevices : odev[d] # ANil => odev'[d] = odev[d]
      BY <3>1, <3>3
    <3>6. x.result = "created" => odev'[x.q.dev] = [req |-> x.q, key |-> c]
      BY <3>2, <3>5 DEF rec
    <3>7. ocall' \in [OCalls -> OCallTypes] /\ (\A e \in OCalls : OCallOK(ocall[e])') /\ OneDeviceOneSecret'
      BY <3>1, <3>2, <3>3, <3>5, <3>6, OneCallMoves
    <3>8. OnboardingReservesPort'
      <4>1. \A i \in AccessIds : Listening(i) => profile[i].port # q.port \/ PortUsed(q.port, {})
        BY DEF PortUsed
      <4>2. ASSUME NEW i \in AccessIds \ byHand, NEW j \in AccessIds \ byHand,
                   Listening(i)', Listening(j)', profile'[i].port = profile'[j].port
            PROVE  i = j
        BY <3>3, <3>4, <4>1, <4>2 DEF AccessInv, AccessIsSound, OnboardingReservesPort, Listening
      <4> QED BY <3>3, <4>2 DEF OnboardingReservesPort
    <3> QED BY <3>3, <3>4, <3>5, <3>7, <3>8 DEF AccessInv, AccessIsSound
  <2> QED BY <2>1, <2>2
<1>6. ASSUME NEW d \in ODevices, NEW i \in AccessIds, RegisterProtocolDevice(d, i) PROVE AccessInv'
  <2>1. odev[d] = ANil /\ odev' = [odev EXCEPT ![d] = [req |-> ANil, key |-> ANil]]
        /\ UNCHANGED <<profile, ocall, acall, byHand>> /\ odev \in [ODevices -> ODeviceRows \cup {ANil}]
    BY <1>6 DEF RegisterProtocolDevice, AccessInv
  <2>2. odev' \in [ODevices -> ODeviceRows \cup {ANil}] /\ \A e \in ODevices : odev[e] # ANil => odev'[e] = odev[e]
    BY <2>1, WizardFacts
  <2>3. ASSUME NEW c \in OCalls, ocall[c].result \in {"created", "reused"}
        PROVE  odev'[ocall[c].q.dev] = odev[ocall[c].q.dev] /\ odev[ocall[c].q.dev] # ANil
    <3>1. ocall[c].q \in Wizard /\ odev[ocall[c].q.dev] # ANil
      BY <2>3, AnsweredExists
    <3> QED BY <2>2, <3>1, WizardFacts
  <2>4. (\A c \in OCalls : OCallOK(ocall[c])') /\ OneDeviceOneSecret'
    BY <2>1, <2>3 DEF AccessInv, AccessIsSound, OCallOK, OneDeviceOneSecret
  <2> QED BY <2>1, <2>2, <2>4 DEF AccessInv, AccessIsSound, OnboardingReservesPort, Listening
<1>7. ASSUME NEW a \in ACalls, NEW i \in AccessIds, NEW p \in Ports, NEW w \in BOOLEAN,
             saveDeviceAccessProfileV2(a, i, p, w)
      PROVE  AccessInv'
  <2>1. UNCHANGED <<profile, odev, ocall, byHand>>
        /\ acall' = [acall EXCEPT ![a] = [at |-> "save", id |-> i,
                                          row |-> [on |-> w, port |-> p, rel |-> binding.rel]]]
    BY <1>7 DEF saveDeviceAccessProfileV2
  <2>2. DOMAIN acall' = ACalls /\ \A b \in ACalls : acall'[b].at = "save" => acall'[b].id \in AccessIds
    BY <2>1 DEF AccessInv
  <2> QED BY <2>1, <2>2 DEF AccessInv, OCallOK, AccessIsSound, OneDeviceOneSecret,
        OnboardingReservesPort, Listening
<1>8. ASSUME NEW a \in ACalls, SaveDeviceAccessProfile(a) PROVE AccessInv'
  <2> DEFINE id == acall[a].id
  <2>1. UNCHANGED <<odev, ocall>> /\ profile' = [profile EXCEPT ![id] = acall[a].row] /\ id \in AccessIds
        /\ byHand' = byHand \cup {id} /\ acall' = [acall EXCEPT ![a].at = "done"]
    BY <1>8 DEF SaveDeviceAccessProfile, AccessInv
  <2>2. DOMAIN acall' = ACalls /\ \A b \in ACalls : acall'[b].at = "save" => acall'[b].id \in AccessIds
    BY <2>1 DEF AccessInv
  <2>3. DOMAIN profile' = AccessIds /\ \A i \in AccessIds \ byHand' : profile'[i] = profile[i]
    BY <2>1 DEF AccessInv
  <2>4. OnboardingReservesPort'
    BY <2>1, <2>3 DEF AccessInv, AccessIsSound, OnboardingReservesPort, Listening
  <2> QED BY <2>1, <2>2, <2>3, <2>4 DEF AccessInv, OCallOK, AccessIsSound, OneDeviceOneSecret
<1>9. ASSUME NEW b \in BCalls,
             (\E r \in Rels : bindProtocolRelease(b, r)) \/ rollbackProductProtocolV2(b)
                \/ BindSaveProduct(b) \/ SaveProductProtocolBinding(b)
      PROVE  UNCHANGED <<ocall, odev, profile, acall, byHand>>
  BY <1>9 DEF bindProtocolRelease, rollbackProductProtocolV2, BindSaveProduct, SaveProductProtocolBinding
<1>10. SaveProductStatus \/ UNCHANGED avars => UNCHANGED <<ocall, odev, profile, acall, byHand>>
  BY DEF SaveProductStatus, avars
<1> QED BY <1>1, <1>2, <1>4, <1>5, <1>6, <1>7, <1>8, <1>9, <1>10 DEF AccessNext

\* Before the first request nothing exists.
LEMMA AccessInitInv == AccessInit => AccessInv
<1> SUFFICES ASSUME AccessInit PROVE AccessInv
  OBVIOUS
<1>1. OIdle \in OCallTypes /\ OIdle.at = "idle" /\ OIdle.result = ANil
  BY DEF OIdle, OCallTypes
<1>2. AIdle.at = "idle"
  BY DEF AIdle
<1> QED BY <1>1, <1>2, WizardFacts DEF AccessInit, AccessInv, OCallOK, AccessIsSound, OneDeviceOneSecret,
      OnboardingReservesPort, Listening

\* SaveOnboarding: for any number of wizards, bindings and profiles edited at the same time
\* a device is created once, with one secret, on a port of its own.
THEOREM OnboardingStaysSound == AccessSpec => []AccessIsSound
<1>1. AccessInv => AccessIsSound
  BY DEF AccessInv
<1> QED BY <1>1, AccessInitInv, AccessStepInv, PTL DEF AccessSpec

\* A creation is only answered by SaveOnboarding, with what it has just checked.
LEMMA CreationFits ==
    ASSUME AccessInv, [AccessNext]_avars, NEW c \in OCalls,
           ocall'[c].result = "created", ocall[c].result # "created"
    PROVE  LET q == ocall[c].q IN
           /\ prod'.on
           /\ q.kind = "tcp" => profile'[q.dev].rel = binding'.rel /\ binding'.rel = ocall[c].rel
<1>1. ocall \in [OCalls -> OCallTypes]
  BY DEF AccessInv
<1>2. ASSUME NEW e \in OCalls, NEW q \in Wizard, TestOnboarding(e, q) PROVE FALSE
  BY <1>1, <1>2, WizardFacts DEF TestOnboarding, OIdle
<1>3. ASSUME NEW e \in OCalls, CreateDevice(e) PROVE FALSE
  BY <1>1, <1>3 DEF CreateDevice, RecoverResult, OCallTypes
<1>4. ASSUME NEW e \in OCalls, SaveOnboarding(e) PROVE e = c /\ BundleFits(c)
  BY <1>1, <1>4 DEF SaveOnboarding, RecoverResult, OCallTypes
<1>5. UNCHANGED ocall => FALSE
  OBVIOUS
<1>6. SaveOnboarding(c) /\ BundleFits(c)
  BY <1>2, <1>3, <1>4, <1>5 DEF AccessNext, avars, RegisterProtocolDevice, bindProtocolRelease,
    rollbackProductProtocolV2, BindSaveProduct, SaveProductProtocolBinding, SaveProductStatus,
    saveDeviceAccessProfileV2, SaveDeviceAccessProfile
<1>7. ocall[c].q \in Wizard /\ ocall[c].q.dev \in AccessIds /\ DOMAIN profile = AccessIds
  BY <1>6, WizardFacts DEF SaveOnboarding, AccessInv, OCallOK
<1>8. ASSUME ocall[c].q.kind = "tcp"
      PROVE  profile'[ocall[c].q.dev].rel = ocall[c].rel /\ binding'.rel = ocall[c].rel
  BY <1>6, <1>7, <1>8 DEF SaveOnboarding, BundleFits
<1>9. prod'.on
  BY <1>6 DEF SaveOnboarding, BundleFits
<1> QED BY <1>8, <1>9

\* SaveOnboarding checks again under its lock: at the moment a device is created the product
\* is enabled and bound to the protocol the request was tested with.
THEOREM OnboardingFits == AccessSpec => OnboardedFitsProduct
<1>1. AccessInv /\ [AccessNext]_avars =>
        [\A c \in OCalls : ocall'[c].result = "created" /\ ocall[c].result # "created"
            => LET q == ocall[c].q IN
               /\ prod'.on
               /\ q.kind = "tcp" =>
                    profile'[q.dev].rel = binding'.rel /\ binding'.rel = ocall[c].rel]_avars
  BY CreationFits
<1> QED BY <1>1, AccessInitInv, AccessStepInv, PTL DEF AccessSpec, OnboardedFitsProduct

-------------------------------------------------------------------------------
(* DeviceRegistry.  While the transaction of RegisterProtocolChild holds    *)
(* its locks, what it read is what is stored.                               *)

MainRows == [st: {"ENABLED", "DISABLED"}, role: Roles, gw: Mains \cup {DNone}, prod: {MainProduct},
             src: {"MANUAL"}, tagged: {FALSE}]

RegistryInv ==
    /\ DOMAIN row = RegIds /\ DOMAIN draft = RegIds
    /\ \A d \in Mains : row[d] \in MainRows /\ draft[d] \in MainRows \cup {DNone}
    /\ regTx.at = "locked" => regTx.cur = childProfile /\ regTx.par = row[KidMain]

LEMMA RegistryFacts == KidMain \in RegIds /\ Kid \in RegIds /\ Kid # KidMain /\ Kid \notin Mains /\ Mains \subseteq RegIds
BY RegistryAssumption DEF RegIds

\* RegisterCommit writes the main device's row back as it is, but for its role.
LEMMA CommitRows ==
    ASSUME RegistryInv, RegisterCommit
    PROVE  /\ DOMAIN row' = RegIds
           /\ \A d \in Mains : row'[d] \in MainRows /\ row'[d].st = row[d].st
           /\ regTx'.at # "locked" /\ UNCHANGED <<childProfile, draft>>
<1> DEFINE y == [regTx.par EXCEPT !.role = "GATEWAY"]
<1>1. regTx.at = "locked" /\ regTx.par = row[KidMain] /\ row[KidMain] \in MainRows
  BY RegistryAssumption DEF RegisterCommit, RegistryInv
<1>2. y \in MainRows /\ y.st = row[KidMain].st
  BY <1>1 DEF MainRows, Roles
<1>3. PICK k : row' = row \/ row' = [row EXCEPT ![Kid] = k, ![KidMain] = y]
  BY DEF RegisterCommit
<1> HIDE DEF y
<1>4. DOMAIN row' = RegIds /\ \A d \in Mains : row'[d] = row[d] \/ (d = KidMain /\ row'[d] = y)
  BY <1>3, RegistryFacts DEF RegistryInv
<1>5. \A d \in Mains : row'[d] \in MainRows /\ row'[d].st = row[d].st
  BY <1>2, <1>4 DEF RegistryInv
<1>6. regTx'.at # "locked" /\ UNCHANGED <<childProfile, draft>>
  BY DEF RegisterCommit, TxIdle
<1> QED BY <1>4, <1>5, <1>6

LEMMA RegistryStep == ASSUME RegistryInv, [RegistryNext]_dvars PROVE RegistryInv'
<1>1. CASE RegisterLock
  BY <1>1 DEF RegisterLock, RegistryInv
<1>2. CASE RegisterCommit
  BY <1>2, CommitRows DEF RegistryInv
<1>3. CASE RegisterEnd
  BY <1>3 DEF RegisterEnd, TxIdle, RegistryInv
<1>4. CASE TakeProfile
  BY <1>4 DEF TakeProfile, RegistryInv
<1>5. ASSUME NEW e \in BOOLEAN, NEW p \in KidProducts, SaveProfile(e, p) PROVE RegistryInv'
  BY <1>5 DEF SaveProfile, ShareFree, RegistryInv
<1>6. ASSUME NEW e \in SUBSET (KidProducts \cup {MainProduct}), NEW b \in SUBSET KidProducts, ChangeProduct(e, b)
      PROVE  RegistryInv'
  BY <1>6 DEF ChangeProduct, RegistryInv
<1>7. ASSUME NEW g \in Mains, NEW p \in KidProducts, EnsureRead(g, p) PROVE RegistryInv'
  BY <1>7 DEF EnsureRead, RegistryInv
<1>8. CASE EnsureSave
  BY <1>8, RegistryFacts DEF EnsureSave, RegistryInv
<1>9. CASE DiscoverSave
  BY <1>9, RegistryFacts DEF DiscoverSave, RegistryInv
<1>10. ASSUME NEW p \in KidProducts, DiscoverRead(p) PROVE RegistryInv'
  BY <1>10 DEF DiscoverRead, RegistryInv
<1>11. ASSUME NEW d \in Mains, NEW st \in {"ENABLED", "DISABLED"}, NEW role \in Roles,
              NEW g \in Mains \cup {DNone}, DraftRead(d, st, role, g, MainProduct)
       PROVE  RegistryInv'
  <2> DEFINE x == [st |-> st, role |-> role, gw |-> g, prod |-> MainProduct, tagged |-> row[d].tagged,
                   src |-> IF row[d].st = "none" THEN "MANUAL" ELSE row[d].src]
  <2>1. draft' = [draft EXCEPT ![d] = x] /\ UNCHANGED <<row, childProfile, regTx>>
    BY <1>11 DEF DraftRead
  <2>2. row[d] \in MainRows
    BY DEF RegistryInv
  <2>3. x \in MainRows
    BY <2>2 DEF MainRows
  <2> HIDE DEF x
  <2> QED BY <2>1, <2>3 DEF RegistryInv
<1>12. ASSUME NEW st \in {"ENABLED", "DISABLED"}, NEW role \in Roles, NEW g \in Mains \cup {DNone},
              NEW p \in KidProducts, DraftRead(Kid, st, role, g, p)
       PROVE  RegistryInv'
  <2>1. PICK x : draft' = [draft EXCEPT ![Kid] = x]
    BY <1>12 DEF DraftRead
  <2>2. UNCHANGED <<row, childProfile, regTx>>
    BY <1>12 DEF DraftRead
  <2> QED BY <2>1, <2>2, RegistryFacts DEF RegistryInv
<1>13. ASSUME NEW d \in RegIds, DraftSave(d) PROVE RegistryInv'
  <2>1. /\ draft[d] # DNone /\ (regTx.at = "idle" \/ d # KidMain)
        /\ row' = [row EXCEPT ![d] = draft[d]] /\ draft' = [draft EXCEPT ![d] = DNone]
        /\ UNCHANGED <<childProfile, regTx>>
    BY <1>13 DEF DraftSave, RowFree
  <2> QED BY <2>1, RegistryFacts DEF RegistryInv
<1>14. CASE UNCHANGED dvars
  BY <1>14 DEF dvars, RegistryInv
<1> QED
  BY <1>1, <1>2, <1>3, <1>4, <1>5, <1>6, <1>7, <1>8, <1>9, <1>10, <1>11, <1>12, <1>13, <1>14 DEF RegistryNext

\* Only RegisterCommit ends the transaction, and only with what it read under its locks.
LEMMA ReportFits ==
    ASSUME RegistryInv, [RegistryNext]_dvars, regTx.at = "locked", regTx'.at = "ok"
    PROVE  /\ childProfile.on /\ row'[Kid].prod = childProfile.map /\ held = childProfile
           /\ childProfile.map \in prodOn /\ childProfile.map \in prodBound
           /\ row[KidMain].st = "ENABLED" /\ row[KidMain].prod \in prodOn
           /\ row'[Kid].gw = KidMain /\ row'[Kid].role = "CHILD" /\ row'[Kid].st = "ENABLED"
<1>1. RegisterCommit
  BY DEF RegistryNext, dvars, RegisterLock, RegisterEnd, TakeProfile, SaveProfile, ChangeProduct, EnsureRead,
         EnsureSave, DiscoverRead, DiscoverSave, DraftRead, DraftSave
<1>2. regTx.cur = childProfile /\ regTx.par = row[KidMain] /\ DOMAIN row = RegIds
  BY DEF RegistryInv
<1> DEFINE d == ProtocolChildDevice(held, regTx.cur, regTx.par)
           e == [st |-> "ENABLED", role |-> "CHILD", gw |-> KidMain, prod |-> regTx.cur.map,
                 src |-> "PROTOCOL_CHILD_AUTO", tagged |-> TRUE]
<1>3. /\ d # DNone /\ (row[Kid].st = "none" \/ ExistingProtocolChild(row[Kid], d))
      /\ row' = [row EXCEPT ![Kid] = IF @.st = "none" THEN d ELSE @,
                            ![KidMain] = [regTx.par EXCEPT !.role = "GATEWAY"]]
  BY <1>1 DEF RegisterCommit, TxIdle
<1>4. /\ held = regTx.cur /\ regTx.cur.on /\ regTx.par.st = "ENABLED" /\ regTx.par.prod \in prodOn
      /\ regTx.cur.map \in prodOn /\ regTx.cur.map \in prodBound /\ d = e
  BY <1>3 DEF ProtocolChildDevice
<1>5. row'[Kid] = IF row[Kid].st = "none" THEN d ELSE row[Kid]
  BY <1>2, <1>3, RegistryFacts
<1>6. e.gw = KidMain /\ e.role = "CHILD" /\ e.st = "ENABLED" /\ e.prod = regTx.cur.map
  OBVIOUS
<1> HIDE DEF d, e
<1>7. /\ row'[Kid].gw = KidMain /\ row'[Kid].role = "CHILD" /\ row'[Kid].st = "ENABLED"
      /\ row'[Kid].prod = regTx.cur.map
  BY <1>3, <1>4, <1>5, <1>6 DEF ExistingProtocolChild
<1> QED BY <1>2, <1>4, <1>7

\* The status of a main device changes when an operator's edit is stored, and only then.
LEMMA StatusChanges ==
    ASSUME RegistryInv, [RegistryNext]_dvars, NEW d \in Mains, row'[d].st # row[d].st
    PROVE  draft[d] # DNone /\ draft'[d] = DNone
<1>1. row' # row
  OBVIOUS
<1>2. ~RegisterCommit /\ ~EnsureSave /\ ~DiscoverSave
  BY CommitRows, RegistryFacts DEF RegistryInv, EnsureSave, DiscoverSave
<1>3. PICK e \in RegIds : DraftSave(e)
  BY <1>1, <1>2 DEF RegistryNext, dvars, RegisterLock, RegisterEnd, TakeProfile, SaveProfile, ChangeProduct,
         EnsureRead, DiscoverRead, DraftRead
<1>4. e = d
  BY <1>3 DEF DraftSave, RegistryInv
<1> QED BY <1>3, <1>4, RegistryFacts DEF DraftSave, RegistryInv

\* RegisterProtocolChild: for any number of main devices and products, and however
\* operators, gateways and discoveries write meanwhile.
THEOREM RegistryStaysSound == RegistrySpec => RegistryIsSound
<1>1. RegistryInit => RegistryInv
  <2>1. Main("DIRECT") \in MainRows /\ Main("GATEWAY") \in MainRows
    BY DEF Main, MainRows, Roles
  <2> QED BY <2>1, RegistryFacts DEF RegistryInit, RegistryInv, TxIdle
<1>2. RegistryInv /\ [RegistryNext]_dvars =>
        [regTx.at = "locked" /\ regTx'.at = "ok" =>
           /\ childProfile.on /\ row'[Kid].prod = childProfile.map /\ held = childProfile
           /\ childProfile.map \in prodOn /\ childProfile.map \in prodBound
           /\ row[KidMain].st = "ENABLED" /\ row[KidMain].prod \in prodOn]_dvars
  BY ReportFits
<1>3. RegistryInv /\ [RegistryNext]_dvars =>
        [regTx.at = "locked" /\ regTx'.at = "ok" =>
           row'[Kid].gw = KidMain /\ row'[Kid].role = "CHILD" /\ row'[Kid].st = "ENABLED"]_dvars
  BY ReportFits
<1>4. RegistryInv /\ [RegistryNext]_dvars =>
        [\A d \in Mains : row'[d].st # row[d].st => draft[d] # DNone /\ draft'[d] = DNone]_dvars
  BY StatusChanges
<1> QED BY <1>1, <1>2, <1>3, <1>4, RegistryStep, PTL
    DEF RegistrySpec, RegistryIsSound, ChildFitsProfile, ChildBelongs, OperatorDecidesStatus

\* What is registered fits, in a platform that runs both components.
THEOREM RegistrationsStayFit == AccessSpec /\ RegistrySpec => RegistrationsFit
BY OnboardingFits, RegistryStaysSound, PTL DEF RegistrationsFit

-------------------------------------------------------------------------------
(* GbGateway.  A frame goes past the forwarding only when the platform has *)
(* it. A number and its turn were never given out before, so a call that    *)
(* shares its number with another took it in another turn.                  *)

LinkTypes == [at: {"closed", "reading", "forward", "session", "deliver", "answer"}, no: Nat,
              kind: Kinds \cup {"none"}, seq: Nat]
SyncTypes == [at: {"new", "wait", "done", "failed"}, seq: Nat, got: Nat, kind: Kinds \cup {"none"},
              gotSeq: Nat]
Begun == {y \in Syncs : sync[y].at # "new"}

ForwardInv ==
    /\ link \in [Links -> LinkTypes] /\ frames \in Nat
    /\ \A l \in Links : link[l].at \in {"session", "deliver", "answer"} => link[l].no \in accepted
    /\ ConfirmedIsAccepted

\* The numbers given out so far, turn by turn.
GivenOut(y) == turnOf[y] < turn \/ (turnOf[y] = turn /\ sync[y].seq <= session.seq)

GatewayTypes ==
    /\ session \in [live: BOOLEAN, via: Links \cup {GNone}, seq: 0 .. SeqMax]
    /\ sync \in [Syncs -> SyncTypes]
    /\ waitingSyncs \in [1 .. SeqMax -> Syncs \cup {GNone}]
    /\ turn \in Nat /\ turnOf \in [Syncs -> Nat] /\ reused \subseteq Begun

NumbersInv ==
    /\ \A y \in Begun : sync[y].seq \in 1 .. SeqMax /\ GivenOut(y)
    /\ \A y, z \in Syncs :
          sync[y].at = "wait" /\ sync[z].at = "wait" /\ sync[y].seq = sync[z].seq /\ y # z => y \in reused
    /\ WaiterIsReachable

FramesInv ==
    /\ \A y \in Syncs : sync[y].at = "new" => sync[y].got = 0
    /\ \A n \in 1 .. SeqMax : waitingSyncs[n] # GNone =>
          waitingSyncs[n] \in Begun /\ sync[waitingSyncs[n]].seq = n
    /\ FrameIsForItsCall

SyncInv == GatewayTypes /\ NumbersInv /\ FramesInv

LEMMA ForwardStep == ASSUME ForwardInv, [GatewayNext]_gvars PROVE ForwardInv'
<1> USE DEF ForwardInv, ConfirmedIsAccepted
<1>0. Reading \in LinkTypes /\ Shut \in LinkTypes /\ Reading.at = "reading" /\ Shut.at = "closed"
  BY DEF Reading, Shut, LinkTypes
<1>1. ASSUME NEW l \in Links, AcceptConn(l) PROVE ForwardInv'
  BY <1>0, <1>1 DEF AcceptConn
<1>2. ASSUME NEW l \in Links, RegisterDevice(l) PROVE ForwardInv'
  BY <1>2 DEF RegisterDevice
<1>3. ASSUME NEW l \in Links, ForwardFails(l) PROVE ForwardInv'
  BY <1>0, <1>3 DEF ForwardFails
<1>4. ASSUME NEW l \in Links, RegisterSession(l) PROVE ForwardInv'
  BY <1>4 DEF RegisterSession, LinkTypes
<1>5. ASSUME NEW l \in Links, deliver(l) PROVE ForwardInv'
  BY <1>5 DEF deliver, LinkTypes
<1>6. ASSUME NEW l \in Links, Disconnect(l) PROVE ForwardInv'
  BY <1>0, <1>6 DEF Disconnect
<1>7. ASSUME NEW l \in Links, NEW kind \in Kinds, NEW seq \in 1 .. SeqMax, readFrame(l, kind, seq)
      PROVE  ForwardInv'
  <2>1. PICK n \in Nat : n = frames + 1
    OBVIOUS
  <2>2. seq \in Nat
    BY GatewayAssumption
  <2> DEFINE x == [at |-> "forward", no |-> n, kind |-> kind, seq |-> seq]
  <2>3. link' = [link EXCEPT ![l] = x] /\ frames' = n /\ UNCHANGED <<accepted, confirmedFrames>>
    BY <1>7, <2>1 DEF readFrame
  <2>4. x \in LinkTypes /\ x.at = "forward"
    BY <2>2 DEF LinkTypes
  <2> HIDE DEF x
  <2> QED BY <2>3, <2>4
<1>8. ASSUME NEW l \in Links, NEW ok \in BOOLEAN, ForwardRaw(l, ok) PROVE ForwardInv'
  <2> DEFINE x == [link[l] EXCEPT !.at = "session"]
  <2>1. x \in LinkTypes /\ x.no = link[l].no
    BY DEF LinkTypes
  <2>2. link' = [link EXCEPT ![l] = x] \/ link' = [link EXCEPT ![l] = Reading]
    BY <1>8 DEF ForwardRaw
  <2>3. accepted' = accepted \cup {link[l].no} /\ UNCHANGED <<frames, confirmedFrames>>
    BY <1>8 DEF ForwardRaw
  <2> HIDE DEF x
  <2> QED BY <1>0, <2>1, <2>2, <2>3
<1>9. ASSUME NEW l \in Links, NEW ok \in BOOLEAN, Answer(l, ok) PROVE ForwardInv'
  <2>1. link' = [link EXCEPT ![l] = Shut] \/ link' = [link EXCEPT ![l] = Reading]
    BY <1>9 DEF Answer
  <2>2. link[l].no \in accepted /\ confirmedFrames' \subseteq confirmedFrames \cup {link[l].no}
        /\ UNCHANGED <<frames, accepted>>
    BY <1>9 DEF Answer
  <2> QED BY <1>0, <2>1, <2>2
<1>10. ASSUME NEW y \in Syncs, requestTimeSync(y) PROVE ForwardInv'
  BY <1>10 DEF requestTimeSync, TakeNumber
<1>11. ASSUME NEW y \in Syncs, NEW r \in {"done", "failed"}, SyncReturns(y, r) PROVE ForwardInv'
  BY <1>11 DEF SyncReturns
<1>12. CASE UNCHANGED gvars
  BY <1>12 DEF gvars
<1> QED
  BY <1>1, <1>2, <1>3, <1>4, <1>5, <1>6, <1>7, <1>8, <1>9, <1>10, <1>11, <1>12 DEF GatewayNext

\* The next number lies past every one that was given out.
LEMMA NumberIsNew ==
    ASSUME SyncInv, NEW y \in Syncs, NEW n, n = NextSeq(session.seq),
           turn' = IF n <= session.seq THEN turn + 1 ELSE turn
    PROVE  /\ n \in 1 .. SeqMax /\ turn' \in Nat /\ turn' >= turn /\ (turn' > turn \/ n > session.seq)
           /\ \A z \in Begun : sync[z].seq = n => turnOf[z] # turn'
           /\ \A z \in Begun : turnOf[z] < turn' \/ (turnOf[z] = turn' /\ sync[z].seq <= n)
<1>1. session.seq \in 0 .. SeqMax /\ turn \in Nat /\ SeqMax \in Nat /\ SeqMax >= 1
  BY GatewayAssumption DEF SyncInv, GatewayTypes
<1>2. n \in 1 .. SeqMax /\ turn' \in Nat /\ turn' >= turn /\ (turn' > turn \/ n > session.seq)
  BY <1>1 DEF NextSeq
<1>3. ASSUME NEW z \in Begun
      PROVE  /\ sync[z].seq = n => turnOf[z] # turn'
             /\ turnOf[z] < turn' \/ (turnOf[z] = turn' /\ sync[z].seq <= n)
  <2>1. sync[z].seq \in 1 .. SeqMax /\ turnOf[z] \in Nat
        /\ (turnOf[z] < turn \/ (turnOf[z] = turn /\ sync[z].seq <= session.seq))
    BY <1>3 DEF SyncInv, GatewayTypes, NumbersInv, GivenOut, Begun
  <2> QED BY <1>1, <1>2, <2>1
<1> QED BY <1>2, <1>3

\* A call that begins.
LEMMA BeginKeeps == ASSUME SyncInv, NEW y \in Syncs, requestTimeSync(y) PROVE SyncInv'
<1>t. GatewayTypes /\ NumbersInv /\ FramesInv
  BY DEF SyncInv
<1>1. PICK n : n = NextSeq(session.seq) /\ TakeNumber(y, n) /\ session' = [session EXCEPT !.seq = n]
  BY DEF requestTimeSync
<1>2. /\ sync[y].at = "new" /\ waitingSyncs' = [waitingSyncs EXCEPT ![n] = y]
      /\ sync' = [sync EXCEPT ![y].at = "wait", ![y].seq = n]
      /\ turn' = IF n <= session.seq THEN turn + 1 ELSE turn
      /\ turnOf' = [turnOf EXCEPT ![y] = turn']
      /\ reused' = IF Holders(n) = {} THEN reused ELSE reused \cup Holders(n) \cup {y}
  BY <1>1 DEF TakeNumber
<1>3. /\ n \in 1 .. SeqMax /\ turn' \in Nat /\ turn' >= turn /\ (turn' > turn \/ n > session.seq)
      /\ \A z \in Begun : sync[z].seq = n => turnOf[z] # turn'
      /\ \A z \in Begun : turnOf[z] < turn' \/ (turnOf[z] = turn' /\ sync[z].seq <= n)
  BY <1>1, <1>2, NumberIsNew
<1>4. n \in Nat /\ n \in 0 .. SeqMax
  BY <1>3, GatewayAssumption
<1> DEFINE x == [sync[y] EXCEPT !.at = "wait", !.seq = n]
<1>5. x \in SyncTypes /\ x.at = "wait" /\ x.seq = n /\ x.got = sync[y].got /\ x.gotSeq = sync[y].gotSeq
  BY <1>t, <1>4 DEF SyncTypes, GatewayTypes
<1>6. sync' = [sync EXCEPT ![y] = x]
  BY <1>2
<1> HIDE DEF x
<1>7. sync' \in [Syncs -> SyncTypes] /\ sync'[y] = x /\ \A z \in Syncs : z # y => sync'[z] = sync[z]
  BY <1>t, <1>5, <1>6 DEF GatewayTypes
<1>8. Begun' = Begun \cup {y} /\ y \notin Begun /\ Begun \subseteq Syncs /\ Holders(n) \subseteq Begun
  BY <1>2, <1>5, <1>7 DEF Begun, Holders
<1>9. session' \in [live: BOOLEAN, via: Links \cup {GNone}, seq: 0 .. SeqMax] /\ session'.seq = n
  BY <1>t, <1>1, <1>4 DEF GatewayTypes
<1>10. waitingSyncs' \in [1 .. SeqMax -> Syncs \cup {GNone}] /\ waitingSyncs'[n] = y
       /\ \A k \in 1 .. SeqMax : k # n => waitingSyncs'[k] = waitingSyncs[k]
  BY <1>t, <1>2, <1>3 DEF GatewayTypes
<1>11. turnOf' \in [Syncs -> Nat] /\ turnOf'[y] = turn' /\ \A z \in Syncs : z # y => turnOf'[z] = turnOf[z]
  BY <1>t, <1>2, <1>3 DEF GatewayTypes
<1>12. reused \subseteq reused' /\ reused' \subseteq Begun' /\ reused \subseteq Begun
       /\ reused' \subseteq reused \cup Holders(n) \cup {y}
  BY <1>t, <1>2, <1>8 DEF GatewayTypes
<1>13. GatewayTypes'
  BY <1>3, <1>7, <1>9, <1>10, <1>11, <1>12 DEF GatewayTypes
<1>14. ASSUME NEW z \in Begun' PROVE sync'[z].seq \in 1 .. SeqMax /\ GivenOut(z)'
  <2>1. CASE z = y
    BY <1>3, <1>4, <1>5, <1>7, <1>9, <1>11, <2>1 DEF GivenOut
  <2>2. CASE z \in Begun
    BY <1>t, <1>3, <1>7, <1>8, <1>9, <1>11, <2>2 DEF GivenOut, NumbersInv
  <2> QED BY <1>8, <2>1, <2>2
<1>15. ASSUME NEW w \in Syncs, NEW z \in Syncs, sync'[w].at = "wait", sync'[z].at = "wait",
              sync'[w].seq = sync'[z].seq, w # z
       PROVE  w \in reused'
  <2>1. CASE w = y \/ z = y
    <3>1. \E v \in Syncs : v \in Holders(n) /\ (v = w \/ v = z)
      BY <1>5, <1>7, <1>15, <2>1 DEF Holders
    <3>2. reused' = reused \cup Holders(n) \cup {y}
      BY <1>2, <3>1
    <3>3. w \in Holders(n) \cup {y}
      <4>1. CASE w = y
        BY <4>1
      <4>2. CASE w # y
        <5>1. sync'[w] = sync[w] /\ sync'[w].seq = n
          BY <1>5, <1>7, <1>15, <2>1, <4>2
        <5> QED BY <1>15, <5>1 DEF Holders
      <4> QED BY <4>1, <4>2
    <3> QED BY <3>2, <3>3
  <2>2. CASE w # y /\ z # y
    BY <1>t, <1>7, <1>12, <1>15, <2>2 DEF NumbersInv
  <2> QED BY <2>1, <2>2
<1>16. ASSUME NEW z \in Syncs \ reused', sync'[z].at = "wait" PROVE waitingSyncs'[sync'[z].seq] = z
  <2>1. CASE z = y
    BY <1>5, <1>7, <1>10, <2>1
  <2>2. CASE z # y
    <3>1. sync'[z] = sync[z] /\ z \in Begun /\ z \notin reused
      BY <1>7, <1>12, <1>16, <2>2 DEF Begun
    <3>2. sync[z].seq # n
      <4>1. sync[z].seq = n => z \in Holders(n)
        BY <1>16, <3>1 DEF Holders
      <4>2. z \in Holders(n) => z \in reused'
        BY <1>2
      <4> QED BY <1>16, <4>1, <4>2
    <3>3. waitingSyncs[sync[z].seq] = z /\ sync[z].seq \in 1 .. SeqMax
      BY <1>t, <1>16, <3>1 DEF NumbersInv, WaiterIsReachable
    <3> QED BY <1>10, <3>1, <3>2, <3>3
  <2> QED BY <2>1, <2>2
<1>17. ASSUME NEW w \in reused'
       PROVE  \E z \in reused' : sync'[z].seq = sync'[w].seq /\ turnOf'[z] # turnOf'[w]
  <2>1. CASE w \in reused
    <3>1. PICK z \in reused : sync[z].seq = sync[w].seq /\ turnOf[z] # turnOf[w]
      BY <1>t, <2>1 DEF NumbersInv, WaiterIsReachable
    <3>2. z # y /\ w # y /\ z \in Syncs /\ w \in Syncs /\ z \in reused'
      BY <1>8, <1>12, <2>1, <3>1
    <3> QED BY <1>7, <1>11, <3>1, <3>2
  <2>2. CASE w \notin reused
    <3>1. w \in Holders(n) \cup {y} /\ Holders(n) # {}
      BY <1>2, <1>12, <1>17, <2>2
    <3>2. PICK h \in Holders(n) : w = h \/ w = y
      BY <3>1
    <3>3. h \in Begun /\ h # y /\ h \in Syncs /\ sync[h].seq = n /\ turnOf[h] # turn'
      BY <1>3, <1>8, <3>2 DEF Holders
    <3>4. h \in reused' /\ y \in reused'
      BY <1>2, <3>1, <3>2
    <3>5. sync'[h].seq = n /\ turnOf'[h] = turnOf[h] /\ sync'[y].seq = n /\ turnOf'[y] = turn'
      BY <1>5, <1>7, <1>11, <3>3
    <3> QED BY <3>2, <3>3, <3>4, <3>5
  <2> QED BY <2>1, <2>2
<1>18. WaiterIsReachable'
  BY <1>16, <1>17 DEF WaiterIsReachable
<1>19. NumbersInv'
  BY <1>14, <1>15, <1>18 DEF NumbersInv
<1>20. sync[y].got = 0
  BY <1>t, <1>2 DEF FramesInv
<1>21. \A z \in Syncs : /\ sync'[z].at = "new" => sync'[z].got = 0
                        /\ sync'[z].got # 0 => sync'[z].gotSeq = sync'[z].seq
  BY <1>t, <1>5, <1>7, <1>20 DEF FramesInv, FrameIsForItsCall
<1>22. ASSUME NEW k \in 1 .. SeqMax, waitingSyncs'[k] # GNone
       PROVE  waitingSyncs'[k] \in Begun' /\ sync'[waitingSyncs'[k]].seq = k
  <2>1. CASE k = n
    BY <1>5, <1>7, <1>8, <1>10, <2>1
  <2>2. CASE k # n
    <3>1. waitingSyncs'[k] = waitingSyncs[k] /\ waitingSyncs[k] \in Begun /\ sync[waitingSyncs[k]].seq = k
      BY <1>t, <1>10, <1>22, <2>2 DEF FramesInv
    <3> QED BY <1>7, <1>8, <3>1
  <2> QED BY <2>1, <2>2
<1>23. FramesInv'
  BY <1>21, <1>22 DEF FramesInv, FrameIsForItsCall
<1> QED BY <1>13, <1>19, <1>23 DEF SyncInv

\* A call that returns deletes the waiter of its number, whoever it belongs to by then.
LEMMA ReturnKeeps ==
    ASSUME SyncInv, NEW y \in Syncs, NEW r \in {"done", "failed"}, SyncReturns(y, r)
    PROVE  SyncInv'
<1>t. GatewayTypes /\ NumbersInv /\ FramesInv
  BY DEF SyncInv
<1>1. /\ sync[y].at = "wait" /\ sync' = [sync EXCEPT ![y].at = r]
      /\ waitingSyncs' = [waitingSyncs EXCEPT ![sync[y].seq] = GNone]
      /\ UNCHANGED <<session, turn, turnOf, reused>>
  BY DEF SyncReturns, turnVars
<1> DEFINE x == [sync[y] EXCEPT !.at = r]
<1>2. /\ sync' = [sync EXCEPT ![y] = x] /\ x \in SyncTypes /\ x.at = r /\ x.seq = sync[y].seq
      /\ x.got = sync[y].got /\ x.gotSeq = sync[y].gotSeq
  BY <1>t, <1>1 DEF SyncTypes, GatewayTypes
<1> HIDE DEF x
<1>3. sync' \in [Syncs -> SyncTypes] /\ sync'[y] = x /\ \A z \in Syncs : z # y => sync'[z] = sync[z]
  BY <1>t, <1>2 DEF GatewayTypes
<1>4. Begun' = Begun /\ y \in Begun /\ Begun \subseteq Syncs
  BY <1>1, <1>2, <1>3 DEF Begun
<1>5. \A z \in Syncs : sync'[z].seq = sync[z].seq /\ (sync'[z].at = "wait" => sync[z].at = "wait" /\ z # y)
  BY <1>2, <1>3
<1>6. sync[y].seq \in 1 .. SeqMax
  BY <1>t, <1>4 DEF NumbersInv
<1>7. waitingSyncs' \in [1 .. SeqMax -> Syncs \cup {GNone}]
      /\ \A k \in 1 .. SeqMax : waitingSyncs'[k] = IF k = sync[y].seq THEN GNone ELSE waitingSyncs[k]
  BY <1>t, <1>1, <1>6 DEF GatewayTypes
<1>8. GatewayTypes'
  BY <1>t, <1>1, <1>3, <1>4, <1>7 DEF GatewayTypes
<1>9. ASSUME NEW z \in Syncs \ reused, sync'[z].at = "wait" PROVE waitingSyncs'[sync'[z].seq] = z
  <2>1. z # y /\ sync[z].at = "wait" /\ z \in Begun
    BY <1>5, <1>9 DEF Begun
  <2>2. waitingSyncs[sync[z].seq] = z /\ sync[z].seq \in 1 .. SeqMax
    BY <1>t, <1>9, <2>1 DEF NumbersInv, WaiterIsReachable
  <2>3. sync[z].seq # sync[y].seq
    BY <1>t, <1>1, <1>9, <2>1 DEF NumbersInv
  <2> QED BY <1>5, <1>7, <2>2, <2>3
<1>10. \A w \in reused : \E z \in reused : sync'[z].seq = sync'[w].seq /\ turnOf[z] # turnOf[w]
  <2>1. reused \subseteq Syncs
    BY <1>t, <1>4 DEF GatewayTypes
  <2> QED BY <1>t, <1>5, <2>1 DEF NumbersInv, WaiterIsReachable
<1>11. WaiterIsReachable'
  BY <1>1, <1>9, <1>10 DEF WaiterIsReachable
<1>12. NumbersInv'
  <2>1. \A z \in Begun' : sync'[z].seq \in 1 .. SeqMax /\ GivenOut(z)'
    BY <1>t, <1>1, <1>4, <1>5 DEF NumbersInv, GivenOut
  <2>2. \A w, z \in Syncs :
           sync'[w].at = "wait" /\ sync'[z].at = "wait" /\ sync'[w].seq = sync'[z].seq /\ w # z => w \in reused'
    BY <1>t, <1>1, <1>5 DEF NumbersInv
  <2> QED BY <1>11, <2>1, <2>2 DEF NumbersInv
<1>13. FramesInv'
  <2>1. \A z \in Syncs : /\ sync'[z].at = "new" => sync'[z].got = 0
                         /\ sync'[z].got # 0 => sync'[z].gotSeq = sync'[z].seq
    BY <1>t, <1>2, <1>3 DEF FramesInv, FrameIsForItsCall
  <2>2. \A k \in 1 .. SeqMax : waitingSyncs'[k] # GNone =>
           waitingSyncs'[k] \in Begun' /\ sync'[waitingSyncs'[k]].seq = k
    BY <1>t, <1>4, <1>5, <1>7 DEF FramesInv
  <2> QED BY <2>1, <2>2 DEF FramesInv, FrameIsForItsCall
<1> QED BY <1>8, <1>12, <1>13 DEF SyncInv

\* A frame that is handed over goes to the call that has its number.
LEMMA DeliverKeeps ==
    ASSUME ForwardInv, SyncInv, NEW l \in Links, deliver(l), sync' # sync
    PROVE  SyncInv'
<1>t. GatewayTypes /\ NumbersInv /\ FramesInv /\ link \in [Links -> LinkTypes]
  BY DEF SyncInv, ForwardInv
<1>1. PICK y \in Syncs :
         /\ link[l].seq \in 1 .. SeqMax /\ waitingSyncs[link[l].seq] = y /\ y # GNone
         /\ sync' = [sync EXCEPT ![y].got = link[l].no, ![y].kind = link[l].kind, ![y].gotSeq = link[l].seq]
  BY <1>t DEF deliver, GatewayTypes
<1>2. UNCHANGED <<session, waitingSyncs, turn, turnOf, reused>>
  BY DEF deliver, turnVars
<1>3. PICK n \in Nat, kd \in Kinds \cup {"none"}, q \in Nat :
         n = link[l].no /\ kd = link[l].kind /\ q = link[l].seq
  BY <1>t DEF LinkTypes
<1>4. sync[y].seq = q /\ y \in Begun
  BY <1>t, <1>1, <1>3 DEF FramesInv
<1> DEFINE x == [sync[y] EXCEPT !.got = n, !.kind = kd, !.gotSeq = q]
<1>5. x \in SyncTypes /\ x.at = sync[y].at /\ x.seq = sync[y].seq /\ x.gotSeq = q
  <2>1. sync[y] \in SyncTypes
    BY <1>t DEF GatewayTypes
  <2> QED BY <2>1, <1>3 DEF SyncTypes
<1>6. sync' = [sync EXCEPT ![y] = x]
  BY <1>1, <1>3
<1> HIDE DEF x
<1>7. /\ sync' \in [Syncs -> SyncTypes] /\ sync'[y] = x
      /\ \A z \in Syncs : /\ sync'[z].at = sync[z].at /\ sync'[z].seq = sync[z].seq
                          /\ z # y => sync'[z] = sync[z]
  BY <1>t, <1>5, <1>6 DEF GatewayTypes
<1>8. Begun' = Begun /\ Begun \subseteq Syncs
  BY <1>7 DEF Begun
<1>9. GatewayTypes'
  BY <1>t, <1>2, <1>7, <1>8 DEF GatewayTypes
<1>10. WaiterIsReachable'
  <2>1. reused \subseteq Syncs
    BY <1>t, <1>8 DEF GatewayTypes
  <2>2. \A z \in Syncs \ reused : sync'[z].at = "wait" => waitingSyncs[sync'[z].seq] = z
    BY <1>t, <1>7 DEF NumbersInv, WaiterIsReachable
  <2>3. \A w \in reused : \E z \in reused : sync'[z].seq = sync'[w].seq /\ turnOf[z] # turnOf[w]
    BY <1>t, <1>7, <2>1 DEF NumbersInv, WaiterIsReachable
  <2> QED BY <1>2, <2>2, <2>3 DEF WaiterIsReachable
<1>11. NumbersInv'
  <2>1. \A z \in Begun' : sync'[z].seq \in 1 .. SeqMax /\ GivenOut(z)'
    BY <1>t, <1>2, <1>7, <1>8 DEF NumbersInv, GivenOut
  <2>2. \A w, z \in Syncs :
           sync'[w].at = "wait" /\ sync'[z].at = "wait" /\ sync'[w].seq = sync'[z].seq /\ w # z => w \in reused'
    BY <1>t, <1>2, <1>7 DEF NumbersInv
  <2> QED BY <1>10, <2>1, <2>2 DEF NumbersInv
<1>12. FramesInv'
  <2>1. \A z \in Syncs : sync'[z].at = "new" => sync'[z].got = 0
    BY <1>t, <1>4, <1>7 DEF FramesInv, Begun
  <2>2. \A z \in Syncs : sync'[z].got # 0 => sync'[z].gotSeq = sync'[z].seq
    BY <1>t, <1>4, <1>5, <1>7 DEF FramesInv, FrameIsForItsCall
  <2>3. \A k \in 1 .. SeqMax : waitingSyncs'[k] # GNone =>
           waitingSyncs'[k] \in Begun' /\ sync'[waitingSyncs'[k]].seq = k
    BY <1>t, <1>2, <1>7, <1>8 DEF FramesInv
  <2> QED BY <2>1, <2>2, <2>3 DEF FramesInv, FrameIsForItsCall
<1> QED BY <1>9, <1>11, <1>12 DEF SyncInv

LEMMA SyncStep == ASSUME ForwardInv, SyncInv, [GatewayNext]_gvars PROVE SyncInv'
<1>1. ASSUME UNCHANGED <<session, waitingSyncs, sync, turnVars>> PROVE SyncInv'
  <2>1. UNCHANGED <<turn, turnOf, reused, Begun>>
    BY <1>1 DEF turnVars, Begun
  <2> QED BY <1>1, <2>1 DEF SyncInv, GatewayTypes, NumbersInv, FramesInv, GivenOut, WaiterIsReachable, FrameIsForItsCall
<1>2. ASSUME NEW l \in Links, RegisterSession(l) PROVE SyncInv'
  <2>1. session' = [live |-> TRUE, via |-> l, seq |-> session.seq] /\ UNCHANGED <<waitingSyncs, sync, turn, turnOf, reused>>
    BY <1>2 DEF RegisterSession, turnVars
  <2>2. session' \in [live: BOOLEAN, via: Links \cup {GNone}, seq: 0 .. SeqMax] /\ session'.seq = session.seq
    BY <2>1 DEF SyncInv, GatewayTypes
  <2>3. Begun' = Begun
    BY <2>1 DEF Begun
  <2> QED BY <2>1, <2>2, <2>3 DEF SyncInv, GatewayTypes, NumbersInv, FramesInv, GivenOut, WaiterIsReachable, FrameIsForItsCall
<1>3. ASSUME NEW l \in Links, deliver(l) PROVE SyncInv'
  <2>1. UNCHANGED <<session, waitingSyncs, turnVars>>
    BY <1>3 DEF deliver
  <2> QED BY <1>1, <1>3, <2>1, DeliverKeeps
<1>4. ASSUME NEW y \in Syncs, requestTimeSync(y) PROVE SyncInv'
  BY <1>4, BeginKeeps
<1>5. ASSUME NEW y \in Syncs, NEW r \in {"done", "failed"}, SyncReturns(y, r) PROVE SyncInv'
  BY <1>5, ReturnKeeps
<1> QED BY <1>1, <1>2, <1>3, <1>4, <1>5 DEF GatewayNext, gvars, AcceptConn, RegisterDevice, ForwardFails,
      Disconnect, readFrame, ForwardRaw, Answer

\* The stand-alone gateway, for any number of connections, frames and calls: what it
\* confirms is accepted, a frame goes to the call that has its number, and a call loses
\* its place only to one that took the same number in another turn.
THEOREM GatewayStaysSound == GatewaySpec => []GatewayIsSound
<1>0. Reading \in LinkTypes /\ Shut \in LinkTypes /\ Reading.at = "reading" /\ Shut.at = "closed"
  BY DEF Reading, Shut, LinkTypes
<1>1. GatewayInit => ForwardInv
  BY <1>0 DEF GatewayInit, ForwardInv, ConfirmedIsAccepted
<1>2. GatewayInit => SyncInv
  <2> SUFFICES ASSUME GatewayInit PROVE SyncInv
    OBVIOUS
  <2>1. NewSync \in SyncTypes /\ NewSync.at = "new"
    BY DEF NewSync, SyncTypes
  <2>2. sync \in [Syncs -> SyncTypes] /\ \A y \in Syncs : sync[y].at = "new"
    BY <2>1 DEF GatewayInit
  <2>3. Begun = {} /\ \A y \in Syncs : sync[y].got = 0
    BY <2>2 DEF Begun, GatewayInit, NewSync
  <2>4. session \in [live: BOOLEAN, via: Links \cup {GNone}, seq: 0 .. SeqMax]
    BY GatewayAssumption DEF GatewayInit, NoSession
  <2>5. \A n \in 1 .. SeqMax : waitingSyncs[n] = GNone
    BY DEF GatewayInit
  <2>6. GatewayTypes
    BY <2>2, <2>3, <2>4 DEF GatewayInit, GatewayTypes
  <2>7. NumbersInv
    BY <2>2, <2>3 DEF GatewayInit, NumbersInv, WaiterIsReachable
  <2>8. FramesInv
    BY <2>3, <2>5 DEF FramesInv, FrameIsForItsCall
  <2> QED BY <2>6, <2>7, <2>8 DEF SyncInv
<1>3. ForwardInv /\ SyncInv /\ [GatewayNext]_gvars => (ForwardInv /\ SyncInv)'
  BY ForwardStep, SyncStep
<1>4. ForwardInv /\ SyncInv => GatewayIsSound
  BY DEF ForwardInv, SyncInv, NumbersInv, FramesInv, GatewayIsSound
<1> QED BY <1>1, <1>2, <1>3, <1>4, PTL DEF GatewaySpec

-------------------------------------------------------------------------------
(* ListenerSession.  A frame in progress keeps its session open and belongs *)
(* to the session's device; the reply on the wire or in a frame is the one  *)
(* the session waits for; a listener that stops has doomed what is open.    *)

FSteps == {"none", "decoded", "ingested", "identified", "ended"}
SessionTypes ==
    /\ sess \in [Sessions -> {"none", "open", "closed", "removed", "reported"}]
    /\ fstep \in [Sessions -> FSteps]
    /\ dev \in [Sessions -> LDevices \cup {LNil}] /\ fdev \in [Sessions -> LDevices \cup {LNil}]
    /\ freply \in [Sessions -> Commands \cup {LNil}] /\ pending \in [Sessions -> Commands \cup {LNil}]
    /\ version \in [Sessions -> Nat] /\ sentVersion \in [Commands -> Nat]
    /\ DOMAIN command = Commands /\ boundVersion \in {1, 2}

FrameInv ==
    \A s \in Sessions :
        IF Free(s) THEN freply[s] = LNil
        ELSE sess[s] = "open" /\ fdev[s] \in LDevices /\ (dev[s] # LNil => fdev[s] = dev[s])

HostInv ==
    /\ host = "stopping" => \A s \in Sessions : IsOpen(s) => s \in doomed
    /\ StoppedHasNoSession

PendingInv ==
    /\ OwnReplyOnly
    /\ \A s \in Sessions, q \in Commands : <<s, q>> \in wire => pending[s] = q /\ freply[s] = LNil
    /\ \A s \in Sessions : freply[s] # LNil => pending[s] = freply[s]
    /\ \A s \in Sessions : pending[s] # LNil => command[pending[s]] # "new"
    /\ \A s \in Sessions : pending[s] # LNil /\ IsOpen(s) =>
         version[s] = sentVersion[pending[s]] /\ version[s] # 0

\* The sessions that count as connections of d.
Attached(d) == {s \in Sessions : dev[s] = d /\ sess[s] # "reported"}
CountInv ==
    /\ DOMAIN counts = LDevices /\ DOMAIN online = LDevices
    /\ \A d \in LDevices : counts[d] = Cardinality(Attached(d)) /\ (online[d] <=> counts[d] > 0)

LEMMA LNilIsNone == LNil \notin LDevices /\ LNil \notin Commands /\ LNil \notin Sessions
BY ListenerAssumption

LEMMA SelectedVersion ==
    ASSUME SessionTypes, NEW s \in Sessions
    PROVE  /\ selectRelease(s) \in Nat \ {0}
           /\ version[s] # 0 /\ pending[s] # LNil => selectRelease(s) = version[s]
BY DEF SessionTypes, selectRelease

LEMMA SessionTypesStep == ASSUME SessionTypes, [ListenerNext]_lvars PROVE SessionTypes'
<1> USE DEF SessionTypes, frameVars, commandVars, FSteps
<1>1. CASE Reconcile \/ StopHost \/ Rebind
  BY <1>1 DEF Reconcile, StopHost, Rebind
<1>2. ASSUME NEW s \in Sessions, Accept(s) \/ dial(s) PROVE SessionTypes'
  BY <1>2 DEF Accept, dial
<1>3. ASSUME NEW s \in Sessions, NEW d \in LDevices, NEW q \in Commands \cup {LNil}, FrameBegin(s, d, q)
      PROVE  SessionTypes'
  <2>1. version' \in [Sessions -> Nat]
    BY <1>3, SelectedVersion DEF FrameBegin
  <2> QED BY <1>3, <2>1 DEF FrameBegin
<1>4. ASSUME NEW s \in Sessions, FrameFails(s) PROVE SessionTypes'
  BY <1>4 DEF FrameFails
<1>5. ASSUME NEW s \in Sessions, FrameIngest(s) PROVE SessionTypes'
  BY <1>5 DEF FrameIngest
<1>6. ASSUME NEW s \in Sessions, FrameIdentify(s) PROVE SessionTypes'
  BY <1>6 DEF FrameIdentify
<1>7. ASSUME NEW s \in Sessions, FrameReply(s) PROVE SessionTypes'
  <2>1. DOMAIN command' = Commands
    BY <1>7 DEF FrameReply
  <2>2. pending' = pending \/ pending' = [pending EXCEPT ![s] = LNil]
    BY <1>7 DEF FrameReply
  <2> QED BY <1>7, <2>1, <2>2 DEF FrameReply
<1>8. ASSUME NEW s \in Sessions, CloseSession(s) PROVE SessionTypes'
  BY <1>8 DEF CloseSession
<1>9. ASSUME NEW s \in Sessions, CloseRemove(s) \/ CloseReport(s) PROVE SessionTypes'
  BY <1>9 DEF CloseRemove, CloseReport
<1>10. ASSUME NEW q \in Commands, CommandTimeout(q) PROVE SessionTypes'
  BY <1>10 DEF CommandTimeout
<1>11. ASSUME NEW q \in Commands, NEW d \in LDevices, NEW s \in Sessions, WriteCommand(q, d, s)
       PROVE  SessionTypes'
  <2>1. version' \in [Sessions -> Nat] /\ version'[s] \in Nat
    BY <1>11, SelectedVersion DEF WriteCommand
  <2>2. sentVersion' \in [Commands -> Nat]
    BY <1>11, <2>1 DEF WriteCommand
  <2> QED BY <1>11, <2>1, <2>2 DEF WriteCommand
<1>12. CASE UNCHANGED lvars
  BY <1>12 DEF lvars
<1> QED BY <1>1, <1>2, <1>3, <1>4, <1>5, <1>6, <1>7, <1>8, <1>9, <1>10, <1>11, <1>12
        DEF ListenerNext, FrameStep, CloseStep

LEMMA FrameInvStep == ASSUME SessionTypes, FrameInv, [ListenerNext]_lvars PROVE FrameInv'
<1> USE DEF FrameInv, Free, frameVars, commandVars
<1>t. /\ sess \in [Sessions -> {"none", "open", "closed", "removed", "reported"}]
      /\ fstep \in [Sessions -> FSteps]
      /\ dev \in [Sessions -> LDevices \cup {LNil}] /\ fdev \in [Sessions -> LDevices \cup {LNil}]
      /\ freply \in [Sessions -> Commands \cup {LNil}]
  BY DEF SessionTypes
<1>1. CASE Reconcile \/ StopHost \/ Rebind
  BY <1>1 DEF Reconcile, StopHost, Rebind
<1>2. ASSUME NEW s \in Sessions, Accept(s) \/ dial(s) PROVE FrameInv'
  BY <1>2, <1>t DEF Accept, dial
<1>3. ASSUME NEW s \in Sessions, NEW d \in LDevices, NEW q \in Commands \cup {LNil}, FrameBegin(s, d, q)
      PROVE  FrameInv'
  <2>1. /\ sess[s] = "open" /\ fstep[s] = "none" /\ (dev[s] # LNil => d = dev[s])
        /\ UNCHANGED <<sess, dev>>
    BY <1>3 DEF FrameBegin, IsOpen
  <2>2. \/ UNCHANGED <<fstep, fdev, freply>>
        \/ /\ fstep' = [fstep EXCEPT ![s] = "decoded"] /\ fdev' = [fdev EXCEPT ![s] = d]
           /\ freply' = [freply EXCEPT ![s] = q]
    BY <1>3 DEF FrameBegin
  <2> QED BY <1>t, <2>1, <2>2
<1>4. ASSUME NEW s \in Sessions, FrameFails(s) PROVE FrameInv'
  BY <1>4, <1>t DEF FrameFails
<1>5. ASSUME NEW s \in Sessions, FrameIngest(s) PROVE FrameInv'
  BY <1>5, <1>t DEF FrameIngest
<1>6. ASSUME NEW s \in Sessions, FrameIdentify(s) PROVE FrameInv'
  <2>1. /\ fstep[s] = "ingested" /\ fstep' = [fstep EXCEPT ![s] = "identified"]
        /\ dev' = [dev EXCEPT ![s] = fdev[s]] /\ UNCHANGED <<sess, fdev, freply>>
    BY <1>6 DEF FrameIdentify
  <2> QED BY <1>t, <2>1
<1>7. ASSUME NEW s \in Sessions, FrameReply(s) PROVE FrameInv'
  <2>1. /\ fstep' = [fstep EXCEPT ![s] = "none"] /\ freply' = [freply EXCEPT ![s] = LNil]
        /\ fdev' = [fdev EXCEPT ![s] = LNil] /\ UNCHANGED <<sess, dev>>
    BY <1>7 DEF FrameReply
  <2> QED BY <1>t, <2>1
<1>8. ASSUME NEW s \in Sessions, CloseSession(s) PROVE FrameInv'
  BY <1>8, <1>t DEF CloseSession
<1>9. ASSUME NEW s \in Sessions, CloseRemove(s) \/ CloseReport(s) PROVE FrameInv'
  BY <1>9, <1>t DEF CloseRemove, CloseReport
<1>10. ASSUME NEW q \in Commands, CommandTimeout(q) PROVE FrameInv'
  BY <1>10 DEF CommandTimeout
<1>11. ASSUME NEW q \in Commands, NEW d \in LDevices, NEW s \in Sessions, WriteCommand(q, d, s)
       PROVE  FrameInv'
  BY <1>11 DEF WriteCommand
<1>12. CASE UNCHANGED lvars
  BY <1>12 DEF lvars
<1> QED BY <1>1, <1>2, <1>3, <1>4, <1>5, <1>6, <1>7, <1>8, <1>9, <1>10, <1>11, <1>12
        DEF ListenerNext, FrameStep, CloseStep

LEMMA HostInvStep == ASSUME SessionTypes, HostInv, [ListenerNext]_lvars PROVE HostInv'
<1> USE DEF HostInv, StoppedHasNoSession, IsOpen
<1>t. sess \in [Sessions -> {"none", "open", "closed", "removed", "reported"}]
  BY DEF SessionTypes
<1>1. CASE Reconcile
  BY <1>1 DEF Reconcile
<1>2. CASE StopHost
  BY <1>2 DEF StopHost, Live
<1>3. ASSUME NEW s \in Sessions, Accept(s) \/ dial(s) PROVE HostInv'
  BY <1>3 DEF Accept, dial
<1>4. ASSUME UNCHANGED host, doomed \subseteq doomed',
             \A s \in Sessions : sess'[s] = "open" => sess[s] = "open"
      PROVE  HostInv'
  BY <1>4
<1>5. ASSUME NEW s \in Sessions, CloseStep(s) PROVE HostInv'
  BY <1>4, <1>5, <1>t DEF CloseStep, CloseSession, CloseRemove, CloseReport
<1>6. ASSUME NEW s \in Sessions, FrameStep(s) PROVE HostInv'
  BY <1>4, <1>6 DEF FrameStep, FrameBegin, FrameFails, FrameIngest, FrameIdentify, FrameReply
<1>7. ASSUME NEW q \in Commands, CommandTimeout(q) PROVE HostInv'
  BY <1>4, <1>7 DEF CommandTimeout
<1>8. ASSUME NEW q \in Commands, NEW d \in LDevices, NEW s \in Sessions, WriteCommand(q, d, s) PROVE HostInv'
  BY <1>4, <1>8 DEF WriteCommand
<1>9. CASE Rebind \/ UNCHANGED lvars
  BY <1>4, <1>9 DEF Rebind, lvars
<1> QED BY <1>1, <1>2, <1>3, <1>5, <1>6, <1>7, <1>8, <1>9 DEF ListenerNext

\* A connection that has not been made waits for nothing.
NewIsIdle == \A s \in Sessions : sess[s] = "none" => pending[s] = LNil

\* Steps that leave the commands and the versions of open sessions alone.
LEMMA PendingKept ==
    ASSUME PendingInv, SessionTypes, UNCHANGED <<wire, pending, freply, command, version, sentVersion>>,
           \A s \in Sessions : sess'[s] = "open" => sess[s] = "open" \/ pending[s] = LNil
    PROVE  PendingInv'
BY DEF PendingInv, OwnReplyOnly, IsOpen

LEMMA PendingInvStep ==
    ASSUME SessionTypes, NewIsIdle, FrameInv, PendingInv, [ListenerNext]_lvars
    PROVE  PendingInv'
<1>t. /\ freply \in [Sessions -> Commands \cup {LNil}] /\ pending \in [Sessions -> Commands \cup {LNil}]
      /\ version \in [Sessions -> Nat] /\ sentVersion \in [Commands -> Nat] /\ DOMAIN command = Commands
      /\ sess \in [Sessions -> {"none", "open", "closed", "removed", "reported"}]
  BY DEF SessionTypes
<1>o. \A q \in Commands : command[q] # "misled"
  BY DEF PendingInv, OwnReplyOnly
<1>w. \A s \in Sessions, q \in Commands : <<s, q>> \in wire => pending[s] = q /\ freply[s] = LNil
  BY DEF PendingInv
<1>r. \A s \in Sessions : freply[s] # LNil => pending[s] = freply[s]
  BY DEF PendingInv
<1>n. \A s \in Sessions : pending[s] # LNil => command[pending[s]] # "new"
  BY DEF PendingInv
<1>v. \A s \in Sessions : pending[s] # LNil /\ IsOpen(s) =>
         version[s] = sentVersion[pending[s]] /\ version[s] # 0
  BY DEF PendingInv
<1> USE DEF frameVars, commandVars
<1>1. CASE Reconcile \/ StopHost \/ Rebind
  BY <1>1, PendingKept DEF Reconcile, StopHost, Rebind
<1>2. ASSUME NEW s \in Sessions, Accept(s) \/ dial(s) PROVE PendingInv'
  <2>1. sess' = [sess EXCEPT ![s] = "open"] /\ sess[s] = "none"
        /\ UNCHANGED <<wire, pending, freply, command, version, sentVersion>>
    BY <1>2 DEF Accept, dial
  <2> QED BY <1>t, <2>1, PendingKept DEF NewIsIdle
<1>3. ASSUME NEW s \in Sessions, NEW d \in LDevices, NEW q \in Commands \cup {LNil}, FrameBegin(s, d, q)
      PROVE  PendingInv'
  <2>1. /\ IsOpen(s) /\ fstep[s] = "none" /\ UNCHANGED <<sess, pending, command, sentVersion>>
        /\ version' = [version EXCEPT ![s] = selectRelease(s)]
    BY <1>3 DEF FrameBegin
  <2>2. \A e \in Sessions : pending[e] # LNil /\ IsOpen(e) => version'[e] = version[e]
    BY <1>t, <1>v, <2>1, SelectedVersion
  <2>3. \A e \in Sessions : pending'[e] # LNil /\ IsOpen(e)' =>
          version'[e] = sentVersion'[pending'[e]] /\ version'[e] # 0
    BY <1>v, <2>1, <2>2 DEF IsOpen
  <2>4. freply[s] = LNil
    BY <2>1 DEF FrameInv, Free
  <2>5. \/ UNCHANGED <<wire, freply>>
        \/ /\ freply' = [freply EXCEPT ![s] = q] /\ wire' = wire \ {<<s, q>>} /\ (q # LNil => <<s, q>> \in wire)
    BY <1>3 DEF FrameBegin
  <2>6. ASSUME NEW e \in Sessions, NEW p \in Commands, <<e, p>> \in wire'
        PROVE  pending'[e] = p /\ freply'[e] = LNil
    <3>1. <<e, p>> \in wire /\ pending[e] = p /\ freply[e] = LNil
      BY <1>w, <2>5, <2>6
    <3>2. CASE UNCHANGED <<wire, freply>>
      BY <2>1, <3>1, <3>2
    <3>3. CASE freply' = [freply EXCEPT ![s] = q] /\ wire' = wire \ {<<s, q>>} /\ (q # LNil => <<s, q>> \in wire)
      <4>1. CASE e # s
        BY <1>t, <2>1, <3>1, <3>3, <4>1
      <4>2. CASE e = s
        <5>1. q # LNil => q \in Commands /\ pending[s] = q
          BY <1>w, <3>3
        <5>2. p # q
          BY <2>6, <3>3, <4>2
        <5>3. q = LNil
          BY <3>1, <4>2, <5>1, <5>2
        <5> QED BY <1>t, <2>1, <3>1, <3>3, <4>2, <5>3
      <4> QED BY <4>1, <4>2
    <3> QED BY <2>5, <3>2, <3>3
  <2>7. ASSUME NEW e \in Sessions, freply'[e] # LNil PROVE pending'[e] = freply'[e]
    <3>1. CASE UNCHANGED <<wire, freply>>
      BY <1>r, <2>1, <2>7, <3>1
    <3>2. CASE freply' = [freply EXCEPT ![s] = q] /\ (q # LNil => <<s, q>> \in wire)
      BY <1>t, <1>r, <1>w, <2>1, <2>7, <3>2
    <3> QED BY <2>5, <3>1, <3>2
  <2> QED BY <1>o, <1>n, <2>1, <2>3, <2>6, <2>7 DEF PendingInv, OwnReplyOnly
<1>4. ASSUME NEW s \in Sessions, FrameFails(s) PROVE PendingInv'
  <2>1. /\ freply' = [freply EXCEPT ![s] = LNil]
        /\ UNCHANGED <<sess, wire, pending, command, version, sentVersion>>
    BY <1>4 DEF FrameFails
  <2> QED BY <1>t, <1>o, <1>w, <1>r, <1>n, <1>v, <2>1 DEF PendingInv, OwnReplyOnly, IsOpen
<1>5. ASSUME NEW s \in Sessions, FrameIngest(s) PROVE PendingInv'
  BY <1>5, PendingKept DEF FrameIngest
<1>6. ASSUME NEW s \in Sessions, FrameIdentify(s) PROVE PendingInv'
  BY <1>6, PendingKept DEF FrameIdentify
<1>7. ASSUME NEW s \in Sessions, FrameReply(s) PROVE PendingInv'
  <2>1. freply' = [freply EXCEPT ![s] = LNil] /\ UNCHANGED <<sess, wire, version, sentVersion>>
    BY <1>7 DEF FrameReply
  <2>2. CASE freply[s] # LNil /\ pending[s] # LNil
    <3>1. PICK q \in Commands : pending[s] = q /\ freply[s] = q
      BY <1>t, <1>r, <2>2
    <3>2. /\ command' = [command EXCEPT ![q] = IF @ # "wait" THEN @ ELSE "acknowledged"]
          /\ pending' = [pending EXCEPT ![s] = LNil]
      BY <1>7, <2>2, <3>1 DEF FrameReply
    <3>3. \A p \in Commands : command'[p] # "misled" /\ (command'[p] = "new" => command[p] = "new")
      BY <1>t, <1>o, <3>2
    <3>4. \A e \in Sessions, p \in Commands : <<e, p>> \in wire => e # s
      BY <1>w, <2>2
    <3>5. \A e \in Sessions : pending'[e] = IF e = s THEN LNil ELSE pending[e]
      BY <1>t, <3>2
    <3>6. \A e \in Sessions : freply'[e] = IF e = s THEN LNil ELSE freply[e]
      BY <1>t, <2>1
    <3>7. OwnReplyOnly' /\ \A e \in Sessions : pending'[e] # LNil => command'[pending'[e]] # "new"
      BY <1>t, <1>n, <3>3, <3>5 DEF OwnReplyOnly
    <3>8. \A e \in Sessions, p \in Commands : <<e, p>> \in wire' => pending'[e] = p /\ freply'[e] = LNil
      BY <1>w, <2>1, <3>4, <3>5, <3>6
    <3> QED BY <1>r, <1>v, <2>1, <3>5, <3>6, <3>7, <3>8 DEF PendingInv, IsOpen
  <2>3. CASE ~(freply[s] # LNil /\ pending[s] # LNil)
    <3>1. UNCHANGED <<command, pending>>
      BY <1>7, <2>3 DEF FrameReply
    <3> QED BY <1>t, <1>o, <1>w, <1>r, <1>n, <1>v, <2>1, <3>1 DEF PendingInv, OwnReplyOnly, IsOpen
  <2> QED BY <2>2, <2>3
<1>8. ASSUME NEW s \in Sessions, CloseSession(s) PROVE PendingInv'
  <2>1. /\ sess' = [sess EXCEPT ![s] = "closed"] /\ version' = [version EXCEPT ![s] = 0]
        /\ wire' = {x \in wire : x[1] # s} /\ pending' = [pending EXCEPT ![s] = LNil] /\ Free(s)
        /\ UNCHANGED <<freply, sentVersion>>
    BY <1>8 DEF CloseSession
  <2>2. \A p \in Commands : command'[p] = command[p] \/ command'[p] = "failed"
    BY <1>8 DEF CloseSession
  <2>3. freply[s] = LNil
    BY <2>1 DEF FrameInv
  <2>4. \A e \in Sessions : pending'[e] = IF e = s THEN LNil ELSE pending[e]
    BY <1>t, <2>1
  <2>5. \A e \in Sessions : e # s => sess'[e] = sess[e] /\ version'[e] = version[e]
    BY <1>t, <2>1
  <2>6. \A e \in Sessions, p \in Commands : <<e, p>> \in wire' => pending'[e] = p /\ freply'[e] = LNil
    BY <1>w, <2>1, <2>4
  <2>7. OwnReplyOnly' /\ \A e \in Sessions : pending'[e] # LNil => command'[pending'[e]] # "new"
    BY <1>t, <1>o, <1>n, <2>2, <2>4 DEF OwnReplyOnly
  <2>8. \A e \in Sessions : freply'[e] # LNil => pending'[e] = freply'[e]
    BY <1>r, <2>1, <2>3, <2>4
  <2>9. \A e \in Sessions : pending'[e] # LNil /\ IsOpen(e)' =>
           version'[e] = sentVersion'[pending'[e]] /\ version'[e] # 0
    BY <1>v, <2>1, <2>4, <2>5 DEF IsOpen
  <2> QED BY <2>6, <2>7, <2>8, <2>9 DEF PendingInv
<1>9. ASSUME NEW s \in Sessions, CloseRemove(s) \/ CloseReport(s) PROVE PendingInv'
  <2>1. PICK w \in {"removed", "reported"} : sess' = [sess EXCEPT ![s] = w]
    BY <1>9 DEF CloseRemove, CloseReport
  <2>2. UNCHANGED <<wire, pending, freply, command, version, sentVersion>>
    BY <1>9 DEF CloseRemove, CloseReport
  <2> QED BY <1>t, <2>1, <2>2, PendingKept
<1>10. ASSUME NEW q \in Commands, CommandTimeout(q) PROVE PendingInv'
  <2>1. PICK w \in {"timeout", "failed"} : command' = [command EXCEPT ![q] = w]
    BY <1>10 DEF CommandTimeout
  <2>2. UNCHANGED <<sess, wire, pending, freply, version, sentVersion>>
    BY <1>10 DEF CommandTimeout
  <2>3. \A p \in Commands : command'[p] # "misled" /\ (command'[p] = "new" => command[p] = "new")
    BY <1>t, <1>o, <2>1
  <2> QED BY <1>t, <1>w, <1>r, <1>n, <1>v, <2>2, <2>3 DEF PendingInv, OwnReplyOnly, IsOpen
<1>11. ASSUME NEW q \in Commands, NEW d \in LDevices, NEW s \in Sessions, WriteCommand(q, d, s)
       PROVE  PendingInv'
  <2>1. /\ command[q] = "new" /\ IsOpen(s) /\ Free(s) /\ pending[s] = LNil
        /\ version' = [version EXCEPT ![s] = selectRelease(s)]
        /\ sentVersion' = [sentVersion EXCEPT ![q] = version'[s]] /\ UNCHANGED <<sess, freply>>
    BY <1>11 DEF WriteCommand
  <2>2. \/ /\ command' = [command EXCEPT ![q] = "wait"] /\ pending' = [pending EXCEPT ![s] = q]
           /\ wire' = wire \cup {<<s, q>>}
        \/ command' = [command EXCEPT ![q] = "failed"] /\ UNCHANGED <<pending, wire>>
    BY <1>11 DEF WriteCommand
  <2>3. version'[s] \in Nat \ {0} /\ sentVersion'[q] = version'[s]
    BY <1>t, <2>1, SelectedVersion
  <2>4. freply[s] = LNil
    BY <2>1 DEF FrameInv
  <2>5. \A e \in Sessions : pending[e] # LNil => pending[e] # q /\ e # s
    BY <1>n, <2>1
  <2>6. \A p \in Commands : /\ command'[p] # "misled" /\ (command'[p] = "new" => command[p] = "new")
                            /\ p # q => sentVersion'[p] = sentVersion[p]
    BY <1>t, <1>o, <2>1, <2>2
  <2>7. command'[q] # "new"
    BY <1>t, <2>2
  <2>8. \A e \in Sessions : pending'[e] # LNil =>
             pending'[e] = pending[e] \/ (e = s /\ pending'[e] = q)
    BY <1>t, <2>2
  <2>9. \A e \in Sessions, p \in Commands : <<e, p>> \in wire' =>
             <<e, p>> \in wire \/ (e = s /\ p = q /\ pending'[s] = q)
    BY <1>t, <2>2
  <2>10. \A e \in Sessions : pending[e] # LNil => pending'[e] = pending[e]
    BY <1>t, <2>2, <2>5
  <2>11. \A e \in Sessions, p \in Commands : <<e, p>> \in wire' => pending'[e] = p /\ freply'[e] = LNil
    <3> SUFFICES ASSUME NEW e \in Sessions, NEW p \in Commands, <<e, p>> \in wire'
                 PROVE  pending'[e] = p /\ freply'[e] = LNil
      OBVIOUS
    <3>1. CASE <<e, p>> \in wire
      <4>1. pending[e] = p /\ freply[e] = LNil /\ p # LNil
        BY <1>w, <3>1, LNilIsNone
      <4> QED BY <2>1, <2>10, <4>1
    <3>2. CASE e = s /\ p = q /\ pending'[s] = q
      BY <2>1, <2>4, <3>2
    <3> QED BY <2>9, <3>1, <3>2
  <2>12. \A e \in Sessions : freply'[e] # LNil => pending'[e] = freply'[e]
    BY <1>r, <2>1, <2>10
  <2>13. \A e \in Sessions : pending'[e] # LNil => command'[pending'[e]] # "new"
    BY <1>t, <1>n, <2>6, <2>7, <2>8
  <2>14. ASSUME NEW e \in Sessions, pending'[e] # LNil, IsOpen(e)'
         PROVE  version'[e] = sentVersion'[pending'[e]] /\ version'[e] # 0
    <3>1. CASE e = s /\ pending'[e] = q
      BY <2>3, <3>1
    <3>2. CASE pending'[e] = pending[e]
      <4>1. pending[e] # LNil /\ IsOpen(e) /\ e # s /\ pending[e] # q /\ pending[e] \in Commands
        BY <1>t, <2>1, <2>5, <2>14, <3>2 DEF IsOpen
      <4>2. version'[e] = version[e] /\ sentVersion'[pending[e]] = sentVersion[pending[e]]
        BY <1>t, <2>1, <2>6, <4>1
      <4> QED BY <1>v, <3>2, <4>1, <4>2
    <3> QED BY <2>8, <2>14, <3>1, <3>2
  <2> QED BY <2>6, <2>11, <2>12, <2>13, <2>14 DEF PendingInv, OwnReplyOnly
<1>12. CASE UNCHANGED lvars
  BY <1>12, PendingKept DEF lvars
<1> QED BY <1>1, <1>2, <1>3, <1>4, <1>5, <1>6, <1>7, <1>8, <1>9, <1>10, <1>11, <1>12
        DEF ListenerNext, FrameStep, CloseStep

LEMMA NewIsIdleStep == ASSUME SessionTypes, NewIsIdle, [ListenerNext]_lvars PROVE NewIsIdle'
<1> USE DEF NewIsIdle, SessionTypes, frameVars, commandVars
<1>1. ASSUME NEW s \in Sessions, FrameStep(s) PROVE NewIsIdle'
  BY <1>1 DEF FrameStep, FrameBegin, FrameFails, FrameIngest, FrameIdentify, FrameReply
<1>2. ASSUME NEW s \in Sessions, CloseStep(s) PROVE NewIsIdle'
  BY <1>2 DEF CloseStep, CloseSession, CloseRemove, CloseReport
<1>3. ASSUME NEW q \in Commands, NEW d \in LDevices, NEW s \in Sessions, WriteCommand(q, d, s) PROVE NewIsIdle'
  BY <1>3 DEF WriteCommand, IsOpen
<1>4. ASSUME NEW s \in Sessions, Accept(s) \/ dial(s) PROVE NewIsIdle'
  BY <1>4 DEF Accept, dial
<1>5. ASSUME NEW q \in Commands, CommandTimeout(q) PROVE NewIsIdle'
  BY <1>5 DEF CommandTimeout
<1> QED BY <1>1, <1>2, <1>3, <1>4, <1>5 DEF ListenerNext, Reconcile, StopHost, Rebind, lvars

\* The first frame of a session that names its device, and the end of a session.
LEMMA AttachedFinite == ASSUME NEW d PROVE IsFiniteSet(Attached(d)) /\ Cardinality(Attached(d)) \in Nat
<1>1. Attached(d) \in SUBSET Sessions
  BY DEF Attached
<1> QED BY <1>1, FS_Subset, FS_CardinalityType, ListenerAssumption

LEMMA CountInvStep == ASSUME SessionTypes, FrameInv, CountInv, [ListenerNext]_lvars PROVE CountInv'
<1>t. /\ sess \in [Sessions -> {"none", "open", "closed", "removed", "reported"}]
      /\ dev \in [Sessions -> LDevices \cup {LNil}] /\ fdev \in [Sessions -> LDevices \cup {LNil}]
  BY DEF SessionTypes
<1>c. /\ DOMAIN counts = LDevices /\ DOMAIN online = LDevices
      /\ \A d \in LDevices : counts[d] = Cardinality(Attached(d)) /\ (online[d] <=> counts[d] > 0)
      /\ \A d \in LDevices : counts[d] \in Nat
  BY AttachedFinite DEF CountInv
<1> USE DEF frameVars, commandVars, projection
<1>1. ASSUME UNCHANGED <<counts, online, dev>>,
             \A s \in Sessions : sess'[s] = "reported" <=> sess[s] = "reported"
      PROVE  CountInv'
  <2>1. \A d \in LDevices : Attached(d)' = Attached(d)
    BY <1>1 DEF Attached
  <2> QED BY <1>1, <1>c, <2>1 DEF CountInv
<1>2. CASE Reconcile \/ StopHost \/ Rebind
  BY <1>1, <1>2 DEF Reconcile, StopHost, Rebind
<1>3. ASSUME NEW s \in Sessions, Accept(s) \/ dial(s) PROVE CountInv'
  BY <1>1, <1>3, <1>t DEF Accept, dial
<1>4. ASSUME NEW s \in Sessions, NEW d \in LDevices, NEW q \in Commands \cup {LNil}, FrameBegin(s, d, q)
      PROVE  CountInv'
  BY <1>1, <1>4 DEF FrameBegin
<1>5. ASSUME NEW s \in Sessions, FrameFails(s) \/ FrameIngest(s) \/ FrameReply(s) PROVE CountInv'
  BY <1>1, <1>5 DEF FrameFails, FrameIngest, FrameReply
<1>6. ASSUME NEW s \in Sessions, FrameIdentify(s) PROVE CountInv'
  <2>1. PICK d \in LDevices : d = fdev[s]
    BY <1>6 DEF FrameInv, Free, FrameIdentify
  <2>2. sess[s] = "open" /\ (dev[s] # LNil => d = dev[s])
    BY <1>6, <2>1 DEF FrameInv, Free, FrameIdentify
  <2>3. dev' = [dev EXCEPT ![s] = d] /\ UNCHANGED sess
    BY <1>6, <2>1 DEF FrameIdentify
  <2>4. CASE dev[s] # LNil
    <3>1. dev' = dev /\ UNCHANGED <<counts, online>>
      BY <1>6, <1>t, <2>2, <2>3, <2>4 DEF FrameIdentify
    <3> QED BY <1>1, <2>3, <3>1
  <2>5. CASE dev[s] = LNil
    <3>1. counts' = [counts EXCEPT ![d] = counts[d] + 1] /\ online' = [online EXCEPT ![d] = TRUE]
      BY <1>6, <2>1, <2>5 DEF FrameIdentify, reportConnection
    <3>2. Attached(d)' = Attached(d) \cup {s} /\ s \notin Attached(d)
      BY <1>t, <2>2, <2>3, <2>5, LNilIsNone DEF Attached
    <3>3. \A e \in LDevices : e # d => Attached(e)' = Attached(e)
      BY <1>t, <2>3, <2>5, LNilIsNone DEF Attached
    <3>4. Cardinality(Attached(d)') = counts[d] + 1
      <4>1. IsFiniteSet(Attached(d))
        BY AttachedFinite
      <4>2. Cardinality(Attached(d) \cup {s}) = Cardinality(Attached(d)) + 1
        BY <3>2, <4>1, FS_AddElement
      <4> QED BY <1>c, <3>2, <4>2
    <3>5. counts'[d] = counts[d] + 1 /\ counts'[d] > 0 /\ online'[d] = TRUE
      BY <1>c, <3>1
    <3>6. \A e \in LDevices : e # d => counts'[e] = counts[e] /\ online'[e] = online[e]
      BY <1>c, <3>1
    <3>7. DOMAIN counts' = LDevices /\ DOMAIN online' = LDevices
      BY <1>c, <3>1
    <3>8. \A e \in LDevices : counts'[e] = Cardinality(Attached(e)')
      BY <1>c, <3>3, <3>4, <3>5, <3>6
    <3>9. \A e \in LDevices : online'[e] <=> counts'[e] > 0
      BY <1>c, <3>5, <3>6
    <3> QED BY <3>7, <3>8, <3>9 DEF CountInv
  <2> QED BY <2>4, <2>5
<1>7. ASSUME NEW s \in Sessions, CloseSession(s) \/ CloseRemove(s) PROVE CountInv'
  BY <1>1, <1>7, <1>t DEF CloseSession, CloseRemove, IsOpen
<1>8. ASSUME NEW s \in Sessions, CloseReport(s) PROVE CountInv'
  <2>1. sess[s] = "removed" /\ sess' = [sess EXCEPT ![s] = "reported"] /\ UNCHANGED dev
    BY <1>8 DEF CloseReport
  <2>2. \A e \in LDevices : Attached(e)' = Attached(e) \ {s}
    BY <1>t, <2>1 DEF Attached
  <2>3. CASE dev[s] = LNil
    <3>1. UNCHANGED <<counts, online>>
      BY <1>8, <2>3 DEF CloseReport
    <3>2. \A e \in LDevices : Attached(e)' = Attached(e)
      BY <2>2, <2>3, LNilIsNone DEF Attached
    <3> QED BY <1>c, <3>1, <3>2 DEF CountInv
  <2>4. CASE dev[s] # LNil
    <3>1. PICK d \in LDevices : d = dev[s]
      BY <1>t, <2>4
    <3>2. s \in Attached(d) /\ \A e \in LDevices : e # d => Attached(e)' = Attached(e)
      BY <2>1, <2>2, <3>1 DEF Attached
    <3>3. Cardinality(Attached(d)') = counts[d] - 1 /\ Cardinality(Attached(d)') \in Nat
      <4>1. IsFiniteSet(Attached(d)) /\ Cardinality(Attached(d) \ {s}) = Cardinality(Attached(d)) - 1
            /\ IsFiniteSet(Attached(d) \ {s})
        BY <3>2, AttachedFinite, FS_RemoveElement
      <4> QED BY <1>c, <2>2, <4>1, FS_CardinalityType
    <3>4. PICK n \in Nat : n = counts[d] - 1
      BY <3>3
    <3>5. counts' = [counts EXCEPT ![d] = n]
      BY <1>8, <1>c, <2>4, <3>1, <3>4 DEF CloseReport, reportConnection
    <3>6. online' = [online EXCEPT ![d] = IF counts[d] > 1 THEN @ ELSE FALSE]
      BY <1>8, <2>4, <3>1 DEF CloseReport, reportConnection
    <3>7. online'[d] <=> n > 0
      <4>1. CASE counts[d] > 1
        <5>1. online'[d] = online[d]
          BY <1>c, <3>6, <4>1
        <5>2. online[d] /\ n > 0
          BY <1>c, <3>4, <4>1
        <5> QED BY <5>1, <5>2
      <4>2. CASE ~(counts[d] > 1)
        <5>1. online'[d] = FALSE
          BY <1>c, <3>6, <4>2
        <5>2. ~(n > 0)
          BY <1>c, <3>4, <4>2
        <5> QED BY <5>1, <5>2
      <4> QED BY <4>1, <4>2
    <3>8. \A e \in LDevices : e # d => counts'[e] = counts[e] /\ online'[e] = online[e]
      BY <1>c, <3>5, <3>6
    <3>9. DOMAIN counts' = LDevices /\ DOMAIN online' = LDevices /\ counts'[d] = n
      BY <1>c, <3>5, <3>6
    <3>10. \A e \in LDevices : counts'[e] = Cardinality(Attached(e)')
      BY <1>c, <3>2, <3>3, <3>4, <3>8, <3>9
    <3>11. \A e \in LDevices : online'[e] <=> counts'[e] > 0
      BY <1>c, <3>7, <3>8, <3>9
    <3> QED BY <3>9, <3>10, <3>11 DEF CountInv
  <2> QED BY <2>3, <2>4
<1>9. ASSUME NEW q \in Commands, CommandTimeout(q) PROVE CountInv'
  BY <1>1, <1>9 DEF CommandTimeout
<1>10. ASSUME NEW q \in Commands, NEW d \in LDevices, NEW s \in Sessions, WriteCommand(q, d, s) PROVE CountInv'
  BY <1>1, <1>10 DEF WriteCommand
<1>11. CASE UNCHANGED lvars
  BY <1>1, <1>11 DEF lvars
<1> QED BY <1>2, <1>3, <1>4, <1>5, <1>6, <1>7, <1>8, <1>9, <1>10, <1>11 DEF ListenerNext, FrameStep, CloseStep

ListenerInv == SessionTypes /\ NewIsIdle /\ FrameInv /\ HostInv /\ PendingInv /\ CountInv

\* A listener with any number of sessions, devices and commands: connections are projected
\* as they are, a stopped listener has none, and a command is answered by its own reply.
THEOREM SessionsStaySound == ListenerSpec => []SessionsAreSound
<1>1. ListenerInit => ListenerInv
  <2> SUFFICES ASSUME ListenerInit PROVE ListenerInv
    OBVIOUS
  <2>1. SessionTypes /\ NewIsIdle
    BY DEF ListenerInit, SessionTypes, FSteps, NewIsIdle
  <2>2. FrameInv /\ HostInv
    BY DEF ListenerInit, FrameInv, Free, HostInv, StoppedHasNoSession, IsOpen
  <2>3. PendingInv
    BY DEF ListenerInit, PendingInv, OwnReplyOnly, IsOpen
  <2>4. \A d \in LDevices : Attached(d) = {}
    BY LNilIsNone DEF ListenerInit, Attached
  <2>5. \A d \in LDevices : counts[d] = 0 /\ online[d] = FALSE
    BY DEF ListenerInit
  <2>6. \A d \in LDevices : counts[d] = Cardinality(Attached(d))
    BY <2>4, <2>5, FS_EmptySet
  <2>7. CountInv
    BY <2>5, <2>6 DEF CountInv, ListenerInit
  <2> QED BY <2>1, <2>2, <2>3, <2>7 DEF ListenerInv
<1>2. ListenerInv /\ [ListenerNext]_lvars => ListenerInv'
  BY SessionTypesStep, NewIsIdleStep, FrameInvStep, HostInvStep, PendingInvStep, CountInvStep DEF ListenerInv
<1>3. ListenerInv => SessionsAreSound
  <2> SUFFICES ASSUME ListenerInv PROVE SessionsAreSound
    OBVIOUS
  <2>1. ConnectionIsProjected
    BY DEF ListenerInv, CountInv, ConnectionIsProjected, Attached
  <2>2. StoppedHasNoSession /\ OwnReplyOnly /\ PendingKeepsVersion
    BY DEF ListenerInv, HostInv, PendingInv, PendingKeepsVersion
  <2> QED BY <2>1, <2>2 DEF SessionsAreSound
<1> QED BY <1>1, <1>2, <1>3, PTL DEF ListenerSpec

===============================================================================
