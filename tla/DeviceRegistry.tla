---------------------------- MODULE DeviceRegistry ----------------------------
(***************************************************************************)
(* The registry of devices behind a gateway. A child device reaches it     *)
(* four ways: reported by the protocol of its main device (one database    *)
(* transaction with row locks), named in a message of a gateway, picked    *)
(* from the discovered devices, or edited by an operator; the last three   *)
(* read first and write the whole row later.                               *)
(***************************************************************************)
EXTENDS Naturals, FiniteSets

CONSTANTS
    Mains,          \* main devices
    KidMain,        \* the main device whose protocol reports the child
    Kid,            \* ChildDeviceID(tenant, KidMain, address)
    KidProducts,    \* products a child may have
    MainProduct,    \* the product of the main devices
    MaxProfiles,    \* bound: editions of the access profile
    DNone
ASSUME RegistryAssumption == KidMain \in Mains /\ Kid \notin Mains
                             /\ MainProduct \notin KidProducts

RegIds == Mains \cup {Kid}
Roles == {"DIRECT", "GATEWAY", "CHILD"}

VARIABLES
    row,        \* row[d]: the row of device_registry, st = "none" when there is none
    prodOn,     \* products that are ENABLED
    prodBound,  \* products bound to a PUBLISHED release
    childProfile,   \* the stored access profile: edition, enabled, product of the child's type
    held,       \* the copy the running session holds
    regTx,      \* the transaction of RegisterProtocolChild, with what it read
    ensure,     \* the write ensureGatewayChild is about to make, or DNone
    draft,      \* the rows saveManagedDevice is about to write: draft[d] or DNone
    found       \* the write registerDiscoveredDevice is about to make, or DNone

dvars == <<row, prodOn, prodBound, childProfile, held, regTx, ensure, draft, found>>

NoRow == [st |-> "none", role |-> "DIRECT", gw |-> DNone, prod |-> DNone, src |-> "none",
          tagged |-> FALSE]
TxIdle == [at |-> "idle", cur |-> DNone, par |-> DNone]
Main(role) == [st |-> "ENABLED", role |-> role, gw |-> DNone, prod |-> MainProduct, src |-> "MANUAL",
               tagged |-> FALSE]

RegistryInit ==
    /\ row = [d \in RegIds |-> IF d = Kid THEN NoRow
                               ELSE IF d = KidMain THEN Main("DIRECT") ELSE Main("GATEWAY")]
    /\ prodOn = KidProducts \cup {MainProduct} /\ prodBound = KidProducts
    /\ \E p \in KidProducts : childProfile = [no |-> 1, on |-> TRUE, map |-> p]
    /\ held = childProfile
    /\ regTx = TxIdle /\ ensure = DNone /\ found = DNone
    /\ draft = [d \in RegIds |-> DNone]

-------------------------------------------------------------------------------
(* Row locks of the registration's transaction: FOR SHARE on the profile,  *)
(* the products and the binding, FOR UPDATE on the main device's row.      *)

BadRowFree(d) == TRUE
RowFree(d) == regTx.at = "idle" \/ d # KidMain
BadShareFree == TRUE
ShareFree == regTx.at = "idle"

\* ValidateProtocolAccess and ValidateChildProducts: the child's type maps to an
\* enabled product, bound to a published release.
ValidProfile(p) == p.map \in prodOn /\ p.map \in prodBound
SaveProfile(on, p) ==
    /\ ShareFree /\ childProfile.no < MaxProfiles
    /\ childProfile' = [no |-> childProfile.no + 1, on |-> on, map |-> p]
    /\ ValidProfile(childProfile')
    /\ UNCHANGED <<row, prodOn, prodBound, held, regTx, ensure, draft, found>>
\* The listener takes over the edition it finds.
TakeProfile ==
    /\ held # childProfile /\ held' = childProfile
    /\ UNCHANGED <<row, prodOn, prodBound, childProfile, regTx, ensure, draft, found>>

\* A product is disabled or enabled, its release withdrawn or published.
ChangeProduct(on, bound) ==
    /\ ShareFree /\ prodOn' = on /\ prodBound' = bound
    /\ UNCHANGED <<row, childProfile, held, regTx, ensure, draft, found>>

-------------------------------------------------------------------------------
(* RegisterProtocolChild.                                                  *)

RegisterLock ==
    /\ regTx.at = "idle"
    /\ regTx' = [at |-> "locked", cur |-> childProfile, par |-> row[KidMain]]
    /\ UNCHANGED <<row, prodOn, prodBound, childProfile, held, ensure, draft, found>>

\* The device of the report, or DNone when the profile was changed or the main
\* device, or its product, may not have children.
ProtocolChildDevice(expected, cur, par) ==
    IF expected = cur /\ cur.on /\ par.st = "ENABLED" /\ par.role # "CHILD" /\ par.prod \in prodOn
       /\ cur.map \in prodOn /\ cur.map \in prodBound
    THEN [st |-> "ENABLED", role |-> "CHILD", gw |-> KidMain, prod |-> cur.map,
          src |-> "PROTOCOL_CHILD_AUTO", tagged |-> TRUE]
    ELSE DNone

BadExistingProtocolChild(old, new) == TRUE
ExistingProtocolChild(old, new) ==
    /\ old.prod = new.prod /\ old.gw = new.gw /\ old.role = "CHILD" /\ old.st = "ENABLED"
    /\ old.tagged

\* INSERT ... ON CONFLICT DO NOTHING; an existing row must be this very child and
\* keeps its content; the main device becomes a GATEWAY. "ok" lets the session
\* archive the child's message.
RegisterCommit ==
    /\ regTx.at = "locked"
    /\ LET d == ProtocolChildDevice(held, regTx.cur, regTx.par)
           ok == d # DNone /\ (row[Kid].st = "none" \/ ExistingProtocolChild(row[Kid], d))
       IN  /\ row' = IF ~ok THEN row
                     ELSE [row EXCEPT ![Kid] = IF @.st = "none" THEN d ELSE @,
                                      ![KidMain] = [regTx.par EXCEPT !.role = "GATEWAY"]]
           /\ regTx' = [TxIdle EXCEPT !.at = IF ok THEN "ok" ELSE "idle"]
    /\ UNCHANGED <<prodOn, prodBound, childProfile, held, ensure, draft, found>>
RegisterEnd ==
    /\ regTx.at = "ok" /\ regTx' = TxIdle
    /\ UNCHANGED <<row, prodOn, prodBound, childProfile, held, ensure, draft, found>>

-------------------------------------------------------------------------------
(* The registrations that read first and write later.                      *)

\* deviceIngest, prepareManagedRaw: an enabled device speaks for a child of its own.
PrepareManagedRaw(g, p) == row[g].st = "ENABLED" /\ p \in prodOn
\* ensureGatewayChild: a known child must belong to the gateway; an unknown one is
\* registered.
EnsureRead(g, p) ==
    /\ ensure = DNone /\ PrepareManagedRaw(g, p)
    /\ row[g].role = "GATEWAY" /\ row[Kid].st = "none"
    /\ ensure' = [st |-> "ENABLED", role |-> "CHILD", gw |-> g, prod |-> p,
                  src |-> "GATEWAY_AUTO", tagged |-> FALSE]
    /\ UNCHANGED <<row, prodOn, prodBound, childProfile, held, regTx, draft, found>>
EnsureSave ==
    /\ ensure # DNone /\ RowFree(Kid)
    /\ row' = [row EXCEPT ![Kid] = ensure] /\ ensure' = DNone
    /\ UNCHANGED <<prodOn, prodBound, childProfile, held, regTx, draft, found>>

\* registerDiscoveredDevice: a device with a state and no row.
DiscoverRead(p) ==
    /\ found = DNone /\ row[Kid].st = "none"
    /\ found' = [NoRow EXCEPT !.st = "ENABLED", !.prod = p, !.src = "DISCOVERY"]
    /\ UNCHANGED <<row, prodOn, prodBound, childProfile, held, regTx, ensure, draft>>
DiscoverSave ==
    /\ found # DNone /\ RowFree(Kid)
    /\ row' = [row EXCEPT ![Kid] = found] /\ found' = DNone
    /\ UNCHANGED <<prodOn, prodBound, childProfile, held, regTx, ensure, draft>>

\* saveManagedDevice: the product and the main device of a protocol's child cannot be
\* edited; the parent of a child must be a gateway. The tags are those of the row read.
SaveAllowed(d, st, role, g, p) ==
    /\ row[d].src = "PROTOCOL_CHILD_AUTO" => p = row[d].prod /\ g = row[d].gw /\ role = "CHILD"
    /\ IF role = "CHILD" THEN g \in Mains \ {d} /\ row[g].role = "GATEWAY" ELSE g = DNone
DraftRead(d, st, role, g, p) ==
    /\ draft[d] = DNone /\ SaveAllowed(d, st, role, g, p)
    /\ draft' = [draft EXCEPT ![d] =
           [st |-> st, role |-> role, gw |-> g, prod |-> p, tagged |-> row[d].tagged,
            src |-> IF row[d].st = "none" THEN "MANUAL" ELSE row[d].src]]
    /\ UNCHANGED <<row, prodOn, prodBound, childProfile, held, regTx, ensure, found>>
DraftSave(d) ==
    /\ draft[d] # DNone /\ RowFree(d)
    /\ row' = [row EXCEPT ![d] = draft[d]] /\ draft' = [draft EXCEPT ![d] = DNone]
    /\ UNCHANGED <<prodOn, prodBound, childProfile, held, regTx, ensure, found>>

RegistryNext ==
    \/ RegisterLock \/ RegisterCommit \/ RegisterEnd \/ TakeProfile
    \/ \E on \in BOOLEAN, p \in KidProducts : SaveProfile(on, p)
    \/ \E on \in SUBSET (KidProducts \cup {MainProduct}), bound \in SUBSET KidProducts :
           ChangeProduct(on, bound)
    \/ \E g \in Mains, p \in KidProducts : EnsureRead(g, p)
    \/ EnsureSave \/ DiscoverSave \/ \E p \in KidProducts : DiscoverRead(p)
    \/ \E d \in Mains, st \in {"ENABLED", "DISABLED"}, role \in Roles, g \in Mains \cup {DNone} :
           DraftRead(d, st, role, g, MainProduct)
    \/ \E st \in {"ENABLED", "DISABLED"}, role \in Roles, g \in Mains \cup {DNone},
          p \in KidProducts : DraftRead(Kid, st, role, g, p)
    \/ \E d \in RegIds : DraftSave(d)

RegistrySpec == RegistryInit /\ [][RegistryNext]_dvars

-------------------------------------------------------------------------------
\* A report of the protocol is answered with a child only while the profile that is
\* stored maps the type to the child's product, the profile and both products are in use
\* and the main device is enabled, whatever the session still holds and whoever edits
\* in between.
ChildFitsProfile ==
    [][regTx.at = "locked" /\ regTx'.at = "ok" =>
           /\ childProfile.on /\ row'[Kid].prod = childProfile.map /\ held = childProfile
           /\ childProfile.map \in prodOn /\ childProfile.map \in prodBound
           /\ row[KidMain].st = "ENABLED" /\ row[KidMain].prod \in prodOn]_dvars

\* ... and only with a device that is an enabled child of that main device: a device of
\* the same identity that another gateway or an operator registered is not taken over.
ChildBelongs ==
    [][regTx.at = "locked" /\ regTx'.at = "ok" =>
           row'[Kid].gw = KidMain /\ row'[Kid].role = "CHILD" /\ row'[Kid].st = "ENABLED"]_dvars

\* A main device that an operator disabled is enabled again by an operator only: the
\* registration of a child, which writes the main device's whole row back, never does it.
OperatorDecidesStatus ==
    [][\A d \in Mains : row'[d].st # row[d].st => draft[d] # DNone /\ draft'[d] = DNone]_dvars

\* Registration by protocol respects what operators have stored meanwhile.
RegistryIsSound == ChildFitsProfile /\ ChildBelongs /\ OperatorDecidesStatus

===============================================================================
