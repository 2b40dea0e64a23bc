---------------------------- MODULE Provisioning ----------------------------
(***************************************************************************)
(* How a smart-home device comes to belong to a user.                      *)
(*                                                                         *)
(* A consumer asks the API for a binding token and hands it to a device    *)
(* over BLE; the device publishes it to smarthome/register; the MQTT       *)
(* bridge of some worker process redeems the token in MongoDB, looks the   *)
(* device model up in the catalog and inserts the device document.  The    *)
(* owner may rename or release the device, an administrator may delete it  *)
(* or edit the catalog, all while registrations are in flight.             *)
(*                                                                         *)
(* A MongoDB collection is a set of documents, a filter is the set of the  *)
(* documents it matches, and one MongoDB call is one step; between two     *)
(* calls of a handler every other actor may run.  A registration message   *)
(* is received whenever the model likes, any number of times and in any    *)
(* order: QoS 1 redelivery, a retrying device and lost messages are all    *)
(* behaviours of ReceiveRegistration.                                      *)
(***************************************************************************)
EXTENDS Naturals

CONSTANTS
    Users,    \* consumers, by their ObjectId
    Macs,     \* MAC addresses as stored: lower-cased and stripped
    Tokens,   \* binding token strings; one never minted stands for garbage
    Models,   \* device model slugs
    Layouts,  \* endpoint lists a catalog entry can carry
    Workers,  \* handlers at work: one for each worker process, and one more for
              \* each cancelled one whose database call has begun
    None      \* no user, no layout, no target

ASSUME NoneAssumption ==
    /\ None \notin Users
    /\ None \notin Macs
    /\ None \notin Tokens
    /\ None \notin Layouts

Messages == [mac : Macs, token : Tokens, model : Models]

TokenDocs == [token : Tokens, user : Users, used : BOOLEAN]

\* namedBy abstracts the display name: None while it is the one copied from
\* the catalog, else the user whose rename request it carries.
DeviceDocs == [mac : Macs, user : Users, model : Models, layout : Layouts,
               namedBy : Users \cup {None}]

CatalogDocs == [model : Models, layout : Layouts]

Stages == {"idle", "consume", "check", "lookup", "create"}

VARIABLES
    bindingTokens,  \* collection binding_tokens
    devices,        \* collection smarthome_devices
    catalog,        \* collection device_models
    expired,        \* tokens whose expires_at has passed
    stage,          \* where each worker's registration handler stands
    msg,            \* the message it is handling
    userId,         \* token_doc["user_id"], once a token document was returned
    layout,         \* model_doc["endpoints"], once the model was found
    adminTarget,    \* the MAC an admin delete has looked up and not yet deleted
    issuedTo,       \* history: the user each token was minted for
    claims,         \* history: device documents each token has paid for
    grant           \* history: the token behind the last insert for each MAC

dbVars      == <<bindingTokens, devices, catalog, expired>>
handlerVars == <<stage, msg, userId, layout>>
historyVars == <<issuedTo, claims, grant>>
vars        == <<dbVars, handlerVars, adminTarget, historyVars>>

NoMessage == [mac |-> None, token |-> None, model |-> None]

(***************************************************************************)
(* Filters of the MongoDB calls                                            *)
(***************************************************************************)

\* Plausible slips of the consuming filter.
RedeemableAgain(t)    == {d \in bindingTokens : d.token = t}
RedeemableByAnyone(t) == {d \in bindingTokens : ~d.used}

\* {"token": binding_token, "used": False}
Redeemable(t) == {d \in bindingTokens : d.token = t /\ ~d.used}

\* Plausible slip: the owner is left out of the filter.
OwnedByAnyone(m, u) == {d \in devices : d.mac = m}

\* {"mac": mac, "user_id": oid}
Owned(m, u) == {d \in devices : d.mac = m /\ d.user = u}

WithMac(m) == {d \in devices : d.mac = m}

CatalogEntries(k) == {c \in catalog : c.model = k}

\* Plausible slip: the double check is left to the TTL index.
NeverExpired(t) == FALSE

\* expires_at < now, for the document a handler has in hand
PastExpiry(t) == t \in expired

\* Plausible slip: no unique index on mac.
MacAlwaysFree(m) == TRUE

\* The unique index on mac lets an insert through.
MacFree(m) == WithMac(m) = {}

-----------------------------------------------------------------------------

Init ==
    /\ bindingTokens = {}
    /\ devices = {}
    /\ catalog \in SUBSET CatalogDocs
    /\ \A c, d \in catalog : c.model = d.model => c = d
    /\ expired = {}
    /\ stage = [w \in Workers |-> "idle"]
    /\ msg = [w \in Workers |-> NoMessage]
    /\ userId = [w \in Workers |-> None]
    /\ layout = [w \in Workers |-> None]
    /\ adminTarget = None
    /\ issuedTo = [t \in Tokens |-> None]
    /\ claims = [t \in Tokens |-> 0]
    /\ grant = [m \in Macs |-> None]

(***************************************************************************)
(* Binding tokens: minting, the clock, the TTL index                       *)
(***************************************************************************)

\* POST /devices/binding-token: secrets.token_urlsafe never repeats a token.
RequestBindingToken(u, t) ==
    /\ issuedTo[t] = None
    /\ bindingTokens' =
           bindingTokens \cup {[token |-> t, user |-> u, used |-> FALSE]}
    /\ issuedTo' = [issuedTo EXCEPT ![t] = u]
    /\ UNCHANGED <<devices, catalog, expired, handlerVars, adminTarget,
                   claims, grant>>

\* The clock passes the expires_at of a minted token.
PassExpiry(t) ==
    /\ issuedTo[t] # None
    /\ t \notin expired
    /\ expired' = expired \cup {t}
    /\ UNCHANGED <<bindingTokens, devices, catalog, handlerVars, adminTarget,
                   historyVars>>

\* MongoDB's TTL monitor removes an expired document, some time later.
TtlSweep(t) ==
    /\ t \in expired
    /\ \E d \in bindingTokens : d.token = t
    /\ bindingTokens' = {d \in bindingTokens : d.token # t}
    /\ UNCHANGED <<devices, catalog, expired, handlerVars, adminTarget,
                   historyVars>>

(***************************************************************************)
(* The registration handler                                                *)
(***************************************************************************)

\* A well-formed message arrives while the listener of w is free (it handles
\* one message at a time).  A malformed one returns before any effect.
ReceiveRegistration(w, m) ==
    /\ stage[w] = "idle"
    /\ stage' = [stage EXCEPT ![w] = "consume"]
    /\ msg' = [msg EXCEPT ![w] = m]
    /\ UNCHANGED <<dbVars, userId, layout, adminTarget, historyVars>>

\* The handler returns, or is cut short: its locals are gone.
Return(w) ==
    /\ stage' = [stage EXCEPT ![w] = "idle"]
    /\ msg' = [msg EXCEPT ![w] = NoMessage]
    /\ userId' = [userId EXCEPT ![w] = None]
    /\ layout' = [layout EXCEPT ![w] = None]

\* find_one_and_update matches nothing.
RejectToken(w) ==
    /\ stage[w] = "consume"
    /\ Redeemable(msg[w].token) = {}
    /\ Return(w)
    /\ UNCHANGED <<dbVars, adminTarget, historyVars>>

\* find_one_and_update sets used and returns the document, atomically.
ConsumeToken(w) ==
    /\ stage[w] = "consume"
    /\ \E d \in Redeemable(msg[w].token) :
           /\ bindingTokens' =
                  (bindingTokens \ {d}) \cup {[d EXCEPT !.used = TRUE]}
           /\ userId' = [userId EXCEPT ![w] = d.user]
    /\ stage' = [stage EXCEPT ![w] = "check"]
    /\ UNCHANGED <<devices, catalog, expired, msg, layout, adminTarget,
                   historyVars>>

\* The document came back past its expiry: the token stays used.
RefuseExpired(w) ==
    /\ stage[w] = "check"
    /\ PastExpiry(msg[w].token)
    /\ Return(w)
    /\ UNCHANGED <<dbVars, adminTarget, historyVars>>

PassCheck(w) ==
    /\ stage[w] = "check"
    /\ ~PastExpiry(msg[w].token)
    /\ stage' = [stage EXCEPT ![w] = "lookup"]
    /\ UNCHANGED <<dbVars, msg, userId, layout, adminTarget, historyVars>>

\* Plausible slip: a device of an unknown model is created without endpoints.
UnknownModelGoesOn(w) ==
    /\ stage[w] = "lookup"
    /\ CatalogEntries(msg[w].model) = {}
    /\ stage' = [stage EXCEPT ![w] = "create"]
    /\ UNCHANGED <<dbVars, msg, userId, layout, adminTarget, historyVars>>

\* The catalog has no such model: the token stays used.
UnknownModel(w) ==
    /\ stage[w] = "lookup"
    /\ CatalogEntries(msg[w].model) = {}
    /\ Return(w)
    /\ UNCHANGED <<dbVars, adminTarget, historyVars>>

\* get_by_model_id returns a copy of the entry.
FindModel(w) ==
    /\ stage[w] = "lookup"
    /\ \E c \in CatalogEntries(msg[w].model) :
           layout' = [layout EXCEPT ![w] = c.layout]
    /\ stage' = [stage EXCEPT ![w] = "create"]
    /\ UNCHANGED <<dbVars, msg, userId, adminTarget, historyVars>>

\* DuplicateKeyError, turned into ValueError: the token stays used.
MacAlreadyClaimed(w) ==
    /\ stage[w] = "create"
    /\ ~MacFree(msg[w].mac)
    /\ Return(w)
    /\ UNCHANGED <<dbVars, adminTarget, historyVars>>

NewDevice(w) ==
    [mac |-> msg[w].mac, user |-> userId[w], model |-> msg[w].model,
     layout |-> layout[w], namedBy |-> None]

\* The device document is in the collection, paid for by the message's token.
Record(w) ==
    /\ claims' = [claims EXCEPT ![msg[w].token] = @ + 1]
    /\ grant' = [grant EXCEPT ![msg[w].mac] = msg[w].token]
    /\ Return(w)
    /\ UNCHANGED <<bindingTokens, catalog, expired, adminTarget, issuedTo>>

\* Plausible slip: an upsert by MAC, so that the latest registration wins.
UpsertDevice(w) ==
    /\ stage[w] = "create"
    /\ devices' = (devices \ WithMac(msg[w].mac)) \cup {NewDevice(w)}
    /\ Record(w)

\* insert_one succeeds.
CreateDevice(w) ==
    /\ stage[w] = "create"
    /\ MacFree(msg[w].mac)
    /\ devices' = devices \cup {NewDevice(w)}
    /\ Record(w)

\* A database error is caught by _listen_messages; a cancellation by stop() or
\* by the sibling task of the TaskGroup, or a crash of the process, is not.
\* In each case the handler is gone and what it wrote stays.
Abort(w) ==
    /\ stage[w] # "idle"
    /\ Return(w)
    /\ UNCHANGED <<dbVars, adminTarget, historyVars>>

(***************************************************************************)
(* The consumer API                                                        *)
(***************************************************************************)

\* PATCH /devices/{mac}: one update_one filtered by MAC and owner.
RenameDevice(u, m) ==
    /\ \E d \in Owned(m, u) :
           devices' = (devices \ {d}) \cup {[d EXCEPT !.namedBy = u]}
    /\ UNCHANGED <<bindingTokens, catalog, expired, handlerVars, adminTarget,
                   historyVars>>

\* DELETE /devices/{mac}: one delete_one filtered by MAC and owner.
ReleaseDevice(u, m) ==
    /\ \E d \in Owned(m, u) : devices' = devices \ {d}
    /\ UNCHANGED <<bindingTokens, catalog, expired, handlerVars, adminTarget,
                   historyVars>>

(***************************************************************************)
(* The admin API                                                           *)
(***************************************************************************)

\* DELETE /smarthome-devices/{mac} reads first, to answer 404.
AdminFindDevice(m) ==
    /\ adminTarget = None
    /\ WithMac(m) # {}
    /\ adminTarget' = m
    /\ UNCHANGED <<dbVars, handlerVars, historyVars>>

\* Plausible slip: a forced delete gives the owner the token back.
AdminReleasesToken ==
    /\ adminTarget # None
    /\ devices' = devices \ WithMac(adminTarget)
    /\ bindingTokens' =
           {IF d.token = grant[adminTarget] THEN [d EXCEPT !.used = FALSE] ELSE d :
                d \in bindingTokens}
    /\ adminTarget' = None
    /\ UNCHANGED <<catalog, expired, handlerVars, historyVars>>

\* It then deletes by MAC alone: whichever document has that MAC by now, if
\* any does.
AdminDeleteDevice ==
    /\ adminTarget # None
    /\ devices' = devices \ WithMac(adminTarget)
    /\ adminTarget' = None
    /\ UNCHANGED <<bindingTokens, catalog, expired, handlerVars, historyVars>>

\* POST: the unique index on model_id refuses a second entry.
CreateModel(k, l) ==
    /\ CatalogEntries(k) = {}
    /\ catalog' = catalog \cup {[model |-> k, layout |-> l]}
    /\ UNCHANGED <<bindingTokens, devices, expired, handlerVars, adminTarget,
                   historyVars>>

\* Plausible slip: a catalog edit is pushed to the devices of the model.
UpdateModelEverywhere(k, l) ==
    /\ CatalogEntries(k) # {}
    /\ catalog' =
           (catalog \ CatalogEntries(k)) \cup {[model |-> k, layout |-> l]}
    /\ devices' = {IF d.model = k THEN [d EXCEPT !.layout = l] ELSE d :
                       d \in devices}
    /\ UNCHANGED <<bindingTokens, expired, handlerVars, adminTarget,
                   historyVars>>

\* PATCH with endpoints in it.
UpdateModel(k, l) ==
    /\ CatalogEntries(k) # {}
    /\ catalog' =
           (catalog \ CatalogEntries(k)) \cup {[model |-> k, layout |-> l]}
    /\ UNCHANGED <<bindingTokens, devices, expired, handlerVars, adminTarget,
                   historyVars>>

DeleteModel(k) ==
    /\ CatalogEntries(k) # {}
    /\ catalog' = catalog \ CatalogEntries(k)
    /\ UNCHANGED <<bindingTokens, devices, expired, handlerVars, adminTarget,
                   historyVars>>

-----------------------------------------------------------------------------

Handle(w) ==
    \/ RejectToken(w)
    \/ ConsumeToken(w)
    \/ RefuseExpired(w)
    \/ PassCheck(w)
    \/ UnknownModel(w)
    \/ FindModel(w)
    \/ MacAlreadyClaimed(w)
    \/ CreateDevice(w)
    \/ Abort(w)

Next ==
    \/ \E u \in Users, t \in Tokens : RequestBindingToken(u, t)
    \/ \E t \in Tokens : PassExpiry(t)
    \/ \E t \in Tokens : TtlSweep(t)
    \/ \E w \in Workers, m \in Messages : ReceiveRegistration(w, m)
    \/ \E w \in Workers : Handle(w)
    \/ \E u \in Users, m \in Macs : RenameDevice(u, m)
    \/ \E u \in Users, m \in Macs : ReleaseDevice(u, m)
    \/ \E m \in Macs : AdminFindDevice(m)
    \/ AdminDeleteDevice
    \/ \E k \in Models, l \in Layouts : CreateModel(k, l)
    \/ \E k \in Models, l \in Layouts : UpdateModel(k, l)
    \/ \E k \in Models : DeleteModel(k)

Spec == Init /\ [][Next]_vars

(***************************************************************************)
(* Properties                                                              *)
(***************************************************************************)

\* Every variable holds what the code can put there.
TypeOK ==
    /\ bindingTokens \subseteq TokenDocs
    /\ devices \subseteq DeviceDocs
    /\ catalog \subseteq CatalogDocs
    /\ expired \subseteq Tokens
    /\ stage \in [Workers -> Stages]
    /\ msg \in [Workers -> Messages \cup {NoMessage}]
    /\ userId \in [Workers -> Users \cup {None}]
    /\ layout \in [Workers -> Layouts \cup {None}]
    /\ adminTarget \in Macs \cup {None}
    /\ issuedTo \in [Tokens -> Users \cup {None}]
    /\ claims \in [Tokens -> Nat]
    /\ grant \in [Macs -> Tokens \cup {None}]
    /\ \A w \in Workers :
           /\ stage[w] # "idle" => msg[w] \in Messages
           /\ stage[w] \in {"check", "lookup", "create"} => userId[w] \in Users
           /\ stage[w] = "create" => layout[w] \in Layouts

\* A binding token is one-time: however often its message is delivered, to
\* however many workers, and whatever happens to the device afterwards, it pays
\* for at most one device document ever.
OneDevicePerToken == \A t \in Tokens : claims[t] <= 1

\* The handler of w has consumed t and not returned.
Held(w, t) ==
    stage[w] \in {"check", "lookup", "create"} /\ msg[w].token = t

\* A token between its consumption and the insert is in one pair of hands: one
\* handler holds it, for the user it was minted for, no other can redeem it,
\* and it has paid for nothing yet.
HeldTokenIsReserved ==
    \A w \in Workers, t \in Tokens : Held(w, t) =>
        /\ userId[w] = issuedTo[t]
        /\ Redeemable(t) = {}
        /\ claims[t] = 0
        /\ \A v \in Workers : Held(v, t) => v = w

\* A token document names the user the token was minted for, is the only one
\* of its token, and if it is not used the token has paid for nothing.
TokenDocsAreSound ==
    \A d \in bindingTokens :
        /\ issuedTo[d.token] = d.user
        /\ \A e \in bindingTokens : e.token = d.token => e = d
        /\ ~d.used => claims[d.token] = 0

\* Nothing is claimed by a token that was never minted.
UnissuedTokensAreIdle ==
    \A t \in Tokens : issuedTo[t] = None => claims[t] = 0

\* The inductive strengthening of OneDevicePerToken.
TokenInv ==
    /\ HeldTokenIsReserved
    /\ TokenDocsAreSound
    /\ UnissuedTokensAreIdle
    /\ OneDevicePerToken

\* A device belongs to the user who asked for the very token the device
\* presented, not to the holder of another token redeemed at the same time.
OwnerHeldTheToken ==
    \A d \in devices :
        /\ grant[d.mac] \in Tokens
        /\ issuedTo[grant[d.mac]] = d.user

\* No MAC has two device documents, so find_one({"mac": ...}) is unambiguous.
OneDocumentPerMac ==
    \A d, e \in devices : d.mac = e.mac => d = e

\* A device never shows a name chosen by somebody who does not own it, a
\* previous owner of the same MAC included.
NameChosenByOwner ==
    \A d \in devices : d.namedBy \in {None, d.user}

\* Who owns what, taken together.
OwnershipInv ==
    /\ OwnerHeldTheToken
    /\ OneDocumentPerMac
    /\ NameChosenByOwner

\* A provisioned device is linked for good: no step moves an existing document
\* to another user, model or endpoint list.  Registrations of a claimed MAC
\* and catalog edits leave it alone; only a delete makes the MAC claimable.
LinkIsPermanent ==
    [][\A d \in devices, e \in devices' :
           d.mac = e.mac =>
               /\ e.user = d.user
               /\ e.model = d.model
               /\ e.layout = d.layout]_vars

\* Some handler has passed the expiry check for t.
Cleared(t) ==
    \E w \in Workers : stage[w] \in {"lookup", "create"} /\ msg[w].token = t

\* Once a token is past its expiry with no handler beyond the check, no
\* interleaving of the TTL monitor and the handlers gets a device out of it.
ExpiredTokenIsDead ==
    [][\A t \in expired :
           ~Cleared(t) => ~Cleared(t)' /\ claims'[t] = claims[t]]_vars

(***************************************************************************)
(* Refinement                                                              *)
(***************************************************************************)

\* A token may still claim a device while its document is unused, or while a
\* handler is between consuming it and inserting the device.
OpenTokens ==
    {t \in Tokens : Redeemable(t) # {} \/ \E w \in Workers : Held(w, t)}

Owns == {<<d.mac, d.user>> : d \in devices}

Claimed == INSTANCE DeviceClaims
               WITH holder <- issuedTo, open <- OpenTokens, owns <- Owns

\* The three database calls of the handler, interleaved with everything else,
\* look from outside like the atomic claim of DeviceClaims.
ImplementsDeviceClaims == Claimed!Spec

=============================================================================
