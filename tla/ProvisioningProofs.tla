-------------------------- MODULE ProvisioningProofs --------------------------
(***************************************************************************)
(* Proofs about Provisioning, for any sets of users, MACs, tokens, models, *)
(* endpoint lists and workers.                                             *)
(***************************************************************************)
EXTENDS Provisioning, TLAPS

(***************************************************************************)
(* Typing                                                                  *)
(***************************************************************************)

LEMMA ReturnTyped ==
    ASSUME TypeOK, NEW w \in Workers, Return(w)
    PROVE  /\ stage' \in [Workers -> Stages]
           /\ msg' \in [Workers -> Messages \cup {NoMessage}]
           /\ userId' \in [Workers -> Users \cup {None}]
           /\ layout' \in [Workers -> Layouts \cup {None}]
           /\ \A v \in Workers :
                  /\ stage'[v] # "idle" => msg'[v] \in Messages
                  /\ stage'[v] \in {"check", "lookup", "create"} =>
                         userId'[v] \in Users
                  /\ stage'[v] = "create" => layout'[v] \in Layouts
  BY DEF TypeOK, Return, Stages

LEMMA TypedStep == TypeOK /\ [Next]_vars => TypeOK'
<1> SUFFICES ASSUME TypeOK, [Next]_vars PROVE TypeOK'
  OBVIOUS
<1>1. ASSUME NEW u \in Users, NEW t \in Tokens, RequestBindingToken(u, t)
      PROVE  TypeOK'
  <2>1. [token |-> t, user |-> u, used |-> FALSE] \in TokenDocs
    BY DEF TokenDocs
  <2>2. bindingTokens' \subseteq TokenDocs
    BY <1>1, <2>1 DEF TypeOK, RequestBindingToken
  <2> QED
    BY <1>1, <2>2 DEF TypeOK, RequestBindingToken, handlerVars
<1>2. ASSUME NEW t \in Tokens, PassExpiry(t) PROVE TypeOK'
  BY <1>2 DEF TypeOK, PassExpiry, handlerVars, historyVars
<1>3. ASSUME NEW t \in Tokens, TtlSweep(t) PROVE TypeOK'
  BY <1>3 DEF TypeOK, TtlSweep, handlerVars, historyVars
<1>4. ASSUME NEW w \in Workers, NEW m \in Messages, ReceiveRegistration(w, m)
      PROVE  TypeOK'
  BY <1>4 DEF TypeOK, ReceiveRegistration, Stages, dbVars, historyVars
<1>5. ASSUME NEW w \in Workers, Handle(w) PROVE TypeOK'
  <2>1. ASSUME Return(w), UNCHANGED <<dbVars, adminTarget, historyVars>>
        PROVE  TypeOK'
    BY <2>1, ReturnTyped DEF TypeOK, dbVars, historyVars
  <2>2. CASE ConsumeToken(w)
    <3>1. PICK d \in Redeemable(msg[w].token) :
            /\ bindingTokens' =
                   (bindingTokens \ {d}) \cup {[d EXCEPT !.used = TRUE]}
            /\ userId' = [userId EXCEPT ![w] = d.user]
      BY <2>2 DEF ConsumeToken
    <3>2. d \in TokenDocs
      BY DEF Redeemable, TypeOK
    <3>3. [d EXCEPT !.used = TRUE] \in TokenDocs /\ d.user \in Users
      BY <3>2 DEF TokenDocs
    <3>4. bindingTokens' \subseteq TokenDocs
      BY <3>1, <3>3 DEF TypeOK
    <3> QED
      BY <2>2, <3>1, <3>3, <3>4 DEF ConsumeToken, TypeOK, Stages, historyVars
  <2>3. CASE PassCheck(w)
    BY <2>3 DEF PassCheck, TypeOK, Stages, dbVars, historyVars
  <2>4. CASE FindModel(w)
    <3>1. PICK c \in CatalogEntries(msg[w].model) :
            layout' = [layout EXCEPT ![w] = c.layout]
      BY <2>4 DEF FindModel
    <3>2. c.layout \in Layouts
      BY DEF CatalogEntries, TypeOK, CatalogDocs
    <3> QED
      BY <2>4, <3>1, <3>2 DEF FindModel, TypeOK, Stages, dbVars, historyVars
  <2>5. CASE CreateDevice(w)
    <3>1. NewDevice(w) \in DeviceDocs
      BY <2>5 DEF CreateDevice, NewDevice, DeviceDocs, TypeOK, Messages
    <3>2. Return(w) /\ msg[w] \in Messages
      BY <2>5 DEF CreateDevice, Record, TypeOK
    <3>3. devices' \subseteq DeviceDocs
      BY <2>5, <3>1 DEF CreateDevice, TypeOK
    <3>4. claims' \in [Tokens -> Nat] /\ grant' \in [Macs -> Tokens \cup {None}]
      BY <2>5, <3>2 DEF CreateDevice, Record, TypeOK, Messages
    <3> QED
      BY <2>5, <3>2, <3>3, <3>4, ReturnTyped DEF CreateDevice, Record, TypeOK
  <2> QED
    BY <1>5, <2>1, <2>2, <2>3, <2>4, <2>5
    DEF Handle, RejectToken, RefuseExpired, UnknownModel, MacAlreadyClaimed,
        Abort
<1>6. ASSUME NEW u \in Users, NEW m \in Macs, RenameDevice(u, m) PROVE TypeOK'
  <2>1. PICK d \in Owned(m, u) :
          devices' = (devices \ {d}) \cup {[d EXCEPT !.namedBy = u]}
    BY <1>6 DEF RenameDevice
  <2>2. [d EXCEPT !.namedBy = u] \in DeviceDocs
    BY DEF Owned, TypeOK, DeviceDocs
  <2> QED
    BY <1>6, <2>1, <2>2 DEF RenameDevice, TypeOK, handlerVars, historyVars
<1>7. ASSUME NEW u \in Users, NEW m \in Macs, ReleaseDevice(u, m) PROVE TypeOK'
  BY <1>7 DEF ReleaseDevice, TypeOK, handlerVars, historyVars
<1>8. ASSUME NEW m \in Macs, AdminFindDevice(m) PROVE TypeOK'
  BY <1>8 DEF AdminFindDevice, TypeOK, handlerVars, historyVars, dbVars
<1>9. CASE AdminDeleteDevice
  BY <1>9 DEF AdminDeleteDevice, TypeOK, handlerVars, historyVars
<1>10. ASSUME NEW k \in Models, NEW l \in Layouts, CreateModel(k, l) \/ UpdateModel(k, l)
       PROVE  TypeOK'
  BY <1>10 DEF CreateModel, UpdateModel, TypeOK, CatalogDocs, handlerVars, historyVars
<1>11. ASSUME NEW k \in Models, DeleteModel(k) PROVE TypeOK'
  BY <1>11 DEF DeleteModel, TypeOK, handlerVars, historyVars
<1>12. CASE UNCHANGED vars
  BY <1>12 DEF TypeOK, vars, dbVars, handlerVars, historyVars
<1> QED
  BY <1>1, <1>2, <1>3, <1>4, <1>5, <1>6, <1>7, <1>8, <1>9, <1>10, <1>11, <1>12
  DEF Next

\* Every variable keeps its type, whatever the interleaving.
THEOREM Typing == Spec => []TypeOK
<1>1. Init => TypeOK
  BY DEF Init, TypeOK, Stages
<1> QED
  BY <1>1, TypedStep, PTL DEF Spec

(***************************************************************************)
(* A binding token is one-time                                             *)
(***************************************************************************)

LEMMA TokenFrame ==
    ASSUME TokenInv,
           UNCHANGED <<bindingTokens, stage, msg, userId, issuedTo, claims>>
    PROVE  TokenInv'
  BY DEF TokenInv, HeldTokenIsReserved, TokenDocsAreSound,
         UnissuedTokensAreIdle, OneDevicePerToken, Held, Redeemable

\* A handler that returns gives up what it held; the token stays used.
LEMMA TokenReturn ==
    ASSUME TypeOK, TokenInv, NEW w \in Workers, Return(w),
           UNCHANGED <<bindingTokens, issuedTo, claims>>
    PROVE  TokenInv'
<1>1. ASSUME NEW v \in Workers, NEW t \in Tokens, Held(v, t)'
      PROVE  v # w /\ Held(v, t) /\ userId'[v] = userId[v]
  BY <1>1 DEF Held, Return, TypeOK
<1> QED
  BY <1>1 DEF TokenInv, HeldTokenIsReserved, TokenDocsAreSound,
              UnissuedTokensAreIdle, OneDevicePerToken, Redeemable

\* A token nobody minted is neither held nor in the collection.
LEMMA UnissuedIsNowhere ==
    ASSUME TypeOK, TokenInv, NEW t \in Tokens, issuedTo[t] = None
    PROVE  /\ \A w \in Workers : ~Held(w, t)
           /\ \A d \in bindingTokens : d.token # t
  BY NoneAssumption DEF TypeOK, TokenInv, HeldTokenIsReserved,
                        TokenDocsAreSound, Held, TokenDocs

LEMMA TokenMinted ==
    ASSUME TypeOK, TokenInv, NEW u \in Users, NEW t \in Tokens,
           RequestBindingToken(u, t)
    PROVE  TokenInv'
<1> DEFINE doc == [token |-> t, user |-> u, used |-> FALSE]
<1>1. /\ bindingTokens' = bindingTokens \cup {doc}
      /\ issuedTo[t] = None
      /\ issuedTo' = [issuedTo EXCEPT ![t] = u]
      /\ UNCHANGED <<stage, msg, userId, claims>>
  BY DEF RequestBindingToken, handlerVars
<1>2. /\ \A w \in Workers : ~Held(w, t)
      /\ \A d \in bindingTokens : d.token # t
  BY <1>1, UnissuedIsNowhere
<1>3. doc.token = t /\ doc.user = u /\ ~doc.used
  OBVIOUS
<1>4. u # None /\ issuedTo'[t] = u /\ \A s \in Tokens \ {t} : issuedTo'[s] = issuedTo[s]
  BY <1>1, NoneAssumption DEF TypeOK
<1>5. \A w \in Workers, s \in Tokens : Held(w, s)' <=> Held(w, s)
  BY <1>1 DEF Held
<1> HIDE DEF doc
<1>6. HeldTokenIsReserved'
  <2> SUFFICES ASSUME NEW w \in Workers, NEW s \in Tokens, Held(w, s)
               PROVE  /\ userId'[w] = issuedTo'[s]
                      /\ Redeemable(s)' = {}
                      /\ claims'[s] = 0
                      /\ \A v \in Workers : Held(v, s) => v = w
    BY <1>5 DEF HeldTokenIsReserved
  <2>1. s # t
    BY <1>2
  <2> QED
    BY <2>1, <1>1, <1>3, <1>4 DEF TokenInv, HeldTokenIsReserved, Redeemable
<1>7. TokenDocsAreSound'
  <2>1. claims[t] = 0
    BY <1>1 DEF TokenInv, UnissuedTokensAreIdle
  <2>2. \A d \in bindingTokens : d.token \in Tokens
    BY DEF TypeOK, TokenDocs
  <2> QED
    BY <1>1, <1>2, <1>3, <1>4, <2>1, <2>2 DEF TokenInv, TokenDocsAreSound
<1>8. UnissuedTokensAreIdle' /\ OneDevicePerToken'
  BY <1>1, <1>4 DEF TokenInv, UnissuedTokensAreIdle, OneDevicePerToken
<1> QED
  BY <1>6, <1>7, <1>8 DEF TokenInv

LEMMA TokenConsumed ==
    ASSUME TypeOK, TokenInv, NEW w \in Workers, ConsumeToken(w)
    PROVE  TokenInv'
<1>0. PICK t \in Tokens : t = msg[w].token
  BY DEF ConsumeToken, TypeOK, Messages
<1>1. PICK d \in Redeemable(t) :
        /\ bindingTokens' =
               (bindingTokens \ {d}) \cup {[d EXCEPT !.used = TRUE]}
        /\ userId' = [userId EXCEPT ![w] = d.user]
  BY <1>0 DEF ConsumeToken
<1>2. /\ stage[w] = "consume"
      /\ stage' = [stage EXCEPT ![w] = "check"]
      /\ UNCHANGED <<msg, issuedTo, claims>>
  BY DEF ConsumeToken, historyVars
<1> DEFINE e == [d EXCEPT !.used = TRUE]
<1>3. /\ d \in bindingTokens /\ d \in TokenDocs
      /\ d.token = t /\ ~d.used
      /\ d.user \in Users
  BY DEF Redeemable, TypeOK, TokenDocs
<1>4. e.token = d.token /\ e.user = d.user /\ e.used
  BY <1>3 DEF TokenDocs
<1>5. bindingTokens' = (bindingTokens \ {d}) \cup {e}
  BY <1>1
<1> HIDE DEF e
<1>6. \A v \in Workers : ~Held(v, t)
  BY <1>3 DEF TokenInv, HeldTokenIsReserved, Redeemable
<1>7. \A v \in Workers, s \in Tokens :
        Held(v, s)' <=> Held(v, s) \/ (v = w /\ s = t)
  BY <1>0, <1>2 DEF Held, TypeOK
<1>8. TokenDocsAreSound'
  BY <1>2, <1>3, <1>4, <1>5 DEF TokenInv, TokenDocsAreSound
<1>9. \A s \in Tokens : Redeemable(s)' = Redeemable(s) \ {d}
  BY <1>4, <1>5 DEF Redeemable
<1>10. Redeemable(t)' = {} /\ claims[t] = 0 /\ issuedTo[t] = d.user
  <2>1. /\ claims[t] = 0 /\ issuedTo[t] = d.user
        /\ \A f \in bindingTokens : f.token = t => f = d
    BY <1>3 DEF TokenInv, TokenDocsAreSound
  <2>2. Redeemable(t) \subseteq {d}
    BY <2>1 DEF Redeemable
  <2>3. Redeemable(t)' = Redeemable(t) \ {d}
    BY <1>3, <1>9
  <2> QED
    BY <2>1, <2>2, <2>3
<1>11. userId'[w] = d.user /\ \A v \in Workers \ {w} : userId'[v] = userId[v]
  BY <1>1 DEF TypeOK
<1>12. HeldTokenIsReserved'
  <2> SUFFICES ASSUME NEW v \in Workers, NEW s \in Tokens, Held(v, s)'
               PROVE  /\ userId'[v] = issuedTo'[s]
                      /\ Redeemable(s)' = {}
                      /\ claims'[s] = 0
                      /\ \A x \in Workers : Held(x, s)' => x = v
    BY DEF HeldTokenIsReserved
  <2>1. CASE s = t
    <3>1. v = w /\ \A x \in Workers : Held(x, s)' => x = w
      BY <2>1, <1>6, <1>7
    <3> QED
      BY <2>1, <3>1, <1>2, <1>10, <1>11
  <2>2. CASE s # t
    <3>1. Held(v, s) /\ v # w
      BY <2>2, <1>2, <1>7 DEF Held
    <3> QED
      BY <2>2, <3>1, <1>2, <1>7, <1>9, <1>11
      DEF TokenInv, HeldTokenIsReserved
  <2> QED
    BY <2>1, <2>2
<1> QED
  BY <1>2, <1>8, <1>12
  DEF TokenInv, UnissuedTokensAreIdle, OneDevicePerToken

LEMMA TokenSpent ==
    ASSUME TypeOK, TokenInv, NEW w \in Workers, CreateDevice(w)
    PROVE  TokenInv'
<1> DEFINE t == msg[w].token
<1>1. /\ stage[w] = "create" /\ Return(w)
      /\ claims' = [claims EXCEPT ![t] = @ + 1]
      /\ UNCHANGED <<bindingTokens, issuedTo>>
  BY DEF CreateDevice, Record
<1>2. t \in Tokens /\ userId[w] \in Users
  BY <1>1 DEF TypeOK, Messages
<1>3. Held(w, t)
  BY <1>1 DEF Held
<1> HIDE DEF t
<1>4. /\ claims[t] = 0 /\ Redeemable(t) = {}
      /\ issuedTo[t] # None
      /\ \A v \in Workers : Held(v, t) => v = w
  BY <1>2, <1>3, NoneAssumption DEF TokenInv, HeldTokenIsReserved
<1>5. claims'[t] = 1 /\ \A s \in Tokens \ {t} : claims'[s] = claims[s]
  BY <1>1, <1>2, <1>4 DEF TypeOK
<1>6. ASSUME NEW v \in Workers, NEW s \in Tokens, Held(v, s)'
      PROVE  v # w /\ Held(v, s) /\ s # t /\ userId'[v] = userId[v]
  BY <1>1, <1>4, <1>6 DEF Held, Return, TypeOK
<1>7. HeldTokenIsReserved'
  BY <1>1, <1>5, <1>6 DEF TokenInv, HeldTokenIsReserved, Redeemable
<1>8. TokenDocsAreSound'
  <2>1. \A d \in bindingTokens : d.token \in Tokens /\ (d.token = t => d.used)
    BY <1>4 DEF Redeemable, TypeOK, TokenDocs
  <2> QED
    BY <1>1, <1>5, <2>1 DEF TokenInv, TokenDocsAreSound
<1>9. UnissuedTokensAreIdle' /\ OneDevicePerToken'
  BY <1>1, <1>4, <1>5 DEF TokenInv, UnissuedTokensAreIdle, OneDevicePerToken
<1> QED
  BY <1>7, <1>8, <1>9 DEF TokenInv

LEMMA TokenStep == TypeOK /\ TokenInv /\ [Next]_vars => TokenInv'
<1> SUFFICES ASSUME TypeOK, TokenInv, [Next]_vars PROVE TokenInv'
  OBVIOUS
<1>1. ASSUME NEW u \in Users, NEW t \in Tokens, RequestBindingToken(u, t)
      PROVE  TokenInv'
  BY <1>1, TokenMinted
<1>2. ASSUME NEW t \in Tokens, TtlSweep(t) PROVE TokenInv'
  <2>1. /\ bindingTokens' \subseteq bindingTokens
        /\ UNCHANGED <<stage, msg, userId, issuedTo, claims>>
    BY <1>2 DEF TtlSweep, handlerVars, historyVars
  <2> QED
    BY <2>1 DEF TokenInv, HeldTokenIsReserved, TokenDocsAreSound,
                UnissuedTokensAreIdle, OneDevicePerToken, Held, Redeemable
<1>3. ASSUME NEW w \in Workers, NEW m \in Messages, ReceiveRegistration(w, m)
      PROVE  TokenInv'
  <2>1. \A v \in Workers, t \in Tokens : Held(v, t)' => Held(v, t)
    BY <1>3 DEF ReceiveRegistration, Held, TypeOK
  <2>2. UNCHANGED <<bindingTokens, userId, issuedTo, claims>>
    BY <1>3 DEF ReceiveRegistration, dbVars, historyVars
  <2> QED
    BY <2>1, <2>2 DEF TokenInv, HeldTokenIsReserved, TokenDocsAreSound,
                      UnissuedTokensAreIdle, OneDevicePerToken, Redeemable
<1>4. ASSUME NEW w \in Workers, Handle(w) PROVE TokenInv'
  <2>1. ASSUME Return(w), UNCHANGED <<dbVars, adminTarget, historyVars>>
        PROVE  TokenInv'
    BY <2>1, TokenReturn DEF dbVars, historyVars
  <2>2. CASE PassCheck(w)
    <3>1. \A v \in Workers, t \in Tokens : Held(v, t)' <=> Held(v, t)
      BY <2>2 DEF PassCheck, Held, TypeOK
    <3>2. UNCHANGED <<bindingTokens, userId, issuedTo, claims>>
      BY <2>2 DEF PassCheck, dbVars, historyVars
    <3> QED
      BY <3>1, <3>2 DEF TokenInv, HeldTokenIsReserved, TokenDocsAreSound,
                        UnissuedTokensAreIdle, OneDevicePerToken, Redeemable
  <2>3. CASE FindModel(w)
    <3>1. \A v \in Workers, t \in Tokens : Held(v, t)' <=> Held(v, t)
      BY <2>3 DEF FindModel, Held, TypeOK
    <3>2. UNCHANGED <<bindingTokens, userId, issuedTo, claims>>
      BY <2>3 DEF FindModel, dbVars, historyVars
    <3> QED
      BY <3>1, <3>2 DEF TokenInv, HeldTokenIsReserved, TokenDocsAreSound,
                        UnissuedTokensAreIdle, OneDevicePerToken, Redeemable
  <2> QED
    BY <1>4, <2>1, <2>2, <2>3, TokenConsumed, TokenSpent
    DEF Handle, RejectToken, RefuseExpired, UnknownModel, MacAlreadyClaimed,
        Abort
<1>5. ASSUME UNCHANGED <<bindingTokens, handlerVars, historyVars>>
      PROVE  TokenInv'
  BY <1>5, TokenFrame DEF handlerVars, historyVars
<1> QED
  BY <1>1, <1>2, <1>3, <1>4, <1>5
  DEF Next, PassExpiry, RenameDevice, ReleaseDevice, AdminFindDevice,
      AdminDeleteDevice, CreateModel, UpdateModel, DeleteModel, vars, dbVars

\* Whatever is redelivered, aborted, swept or released, a token is held by at
\* most one handler and pays for at most one device.
THEOREM TokenSafety == Spec => []TokenInv
<1>1. Init => TokenInv
  BY DEF Init, TokenInv, HeldTokenIsReserved, TokenDocsAreSound,
         UnissuedTokensAreIdle, OneDevicePerToken, Held
<1> QED
  BY <1>1, TokenStep, Typing, PTL DEF Spec

\* A binding token is one-time, for every number of workers and deliveries.
THEOREM TokensAreOneTime == Spec => []OneDevicePerToken
<1>1. TokenInv => OneDevicePerToken
  BY DEF TokenInv
<1> QED
  BY <1>1, TokenSafety, PTL

(***************************************************************************)
(* Who owns a device                                                       *)
(***************************************************************************)

LEMMA OwnershipAfterDelete ==
    ASSUME TypeOK, OwnershipInv, devices' \subseteq devices,
           UNCHANGED historyVars
    PROVE  OwnershipInv'
  BY DEF OwnershipInv, OwnerHeldTheToken, OneDocumentPerMac, NameChosenByOwner,
         historyVars

LEMMA OwnershipAfterCreate ==
    ASSUME TypeOK, TokenInv, OwnershipInv, NEW w \in Workers, CreateDevice(w)
    PROVE  OwnershipInv'
<1> DEFINE d == NewDevice(w)
<1>0. PICK m \in Messages : m = msg[w]
  BY DEF CreateDevice, TypeOK
<1>1. /\ d.mac = m.mac /\ d.user = userId[w] /\ d.namedBy = None
      /\ m.mac \in Macs /\ m.token \in Tokens
  BY <1>0 DEF NewDevice, Messages
<1>2. /\ \A e \in devices : e.mac # m.mac
      /\ devices' = devices \cup {d}
      /\ grant' = [grant EXCEPT ![m.mac] = m.token]
      /\ UNCHANGED issuedTo
  BY <1>0 DEF CreateDevice, Record, MacFree, WithMac
<1>3. issuedTo[m.token] = userId[w]
  <2>1. Held(w, m.token)
    BY <1>0 DEF CreateDevice, Held
  <2> QED
    BY <1>1, <2>1 DEF TokenInv, HeldTokenIsReserved
<1>4. PICK x : x = d
  OBVIOUS
<1>5. /\ devices' = devices \cup {x}
      /\ x.mac = m.mac /\ x.user = userId[w] /\ x.namedBy = None
  BY <1>1, <1>2, <1>4
<1>6. OneDocumentPerMac'
  BY <1>2, <1>5 DEF OwnershipInv, OneDocumentPerMac
<1>7. NameChosenByOwner'
  BY <1>5 DEF OwnershipInv, NameChosenByOwner
<1>8. OwnerHeldTheToken'
  <2>1. /\ grant'[m.mac] = m.token
        /\ \A e \in devices : e.mac \in Macs /\ grant'[e.mac] = grant[e.mac]
    BY <1>1, <1>2 DEF TypeOK, DeviceDocs
  <2> QED
    BY <1>1, <1>2, <1>3, <1>5, <2>1 DEF OwnershipInv, OwnerHeldTheToken
<1> QED
  BY <1>6, <1>7, <1>8 DEF OwnershipInv

LEMMA OwnershipAfterRename ==
    ASSUME TypeOK, OwnershipInv, NEW u \in Users, NEW m \in Macs,
           RenameDevice(u, m)
    PROVE  OwnershipInv'
<1>1. PICK d \in Owned(m, u) :
        devices' = (devices \ {d}) \cup {[d EXCEPT !.namedBy = u]}
  BY DEF RenameDevice
<1>2. d \in devices /\ d \in DeviceDocs /\ d.user = u
  BY DEF Owned, TypeOK
<1>3. PICK x : x = [d EXCEPT !.namedBy = u]
  OBVIOUS
<1>4. /\ devices' = (devices \ {d}) \cup {x}
      /\ x.mac = d.mac /\ x.user = d.user /\ x.namedBy = d.user
  BY <1>1, <1>2, <1>3 DEF DeviceDocs
<1>5. UNCHANGED <<issuedTo, grant>>
  BY DEF RenameDevice, historyVars
<1> QED
  BY <1>2, <1>4, <1>5
  DEF OwnershipInv, OwnerHeldTheToken, OneDocumentPerMac, NameChosenByOwner

LEMMA OwnershipStep ==
    TypeOK /\ TokenInv /\ OwnershipInv /\ [Next]_vars => OwnershipInv'
<1> SUFFICES ASSUME TypeOK, TokenInv, OwnershipInv, [Next]_vars
             PROVE  OwnershipInv'
  OBVIOUS
<1>1. ASSUME UNCHANGED <<devices, historyVars>> PROVE OwnershipInv'
  BY <1>1, OwnershipAfterDelete
<1>2. ASSUME NEW u \in Users, NEW t \in Tokens, RequestBindingToken(u, t)
      PROVE  OwnershipInv'
  <2>1. UNCHANGED <<devices, grant>>
    BY <1>2 DEF RequestBindingToken
  <2>2. \A d \in devices : /\ grant[d.mac] \in Tokens
                           /\ d.user # None
                           /\ issuedTo[grant[d.mac]] = d.user
    BY NoneAssumption DEF OwnershipInv, OwnerHeldTheToken, TypeOK, DeviceDocs
  <2>3. \A s \in Tokens : issuedTo[s] # None => issuedTo'[s] = issuedTo[s]
    BY <1>2 DEF RequestBindingToken, TypeOK
  <2>4. OwnerHeldTheToken'
    BY <2>1, <2>2, <2>3 DEF OwnerHeldTheToken
  <2> QED
    BY <2>1, <2>4 DEF OwnershipInv, OneDocumentPerMac, NameChosenByOwner
<1>3. ASSUME NEW w \in Workers, Handle(w) PROVE OwnershipInv'
  BY <1>3, <1>1, OwnershipAfterCreate
  DEF Handle, RejectToken, ConsumeToken, RefuseExpired, PassCheck,
      UnknownModel, FindModel, MacAlreadyClaimed, Abort, dbVars
<1>4. ASSUME NEW u \in Users, NEW m \in Macs, ReleaseDevice(u, m)
      PROVE  OwnershipInv'
  <2>1. devices' \subseteq devices /\ UNCHANGED historyVars
    BY <1>4 DEF ReleaseDevice
  <2> QED
    BY <2>1, OwnershipAfterDelete
<1>5. CASE AdminDeleteDevice
  <2>1. devices' \subseteq devices /\ UNCHANGED historyVars
    BY <1>5 DEF AdminDeleteDevice
  <2> QED
    BY <2>1, OwnershipAfterDelete
<1> QED
  BY <1>1, <1>2, <1>3, <1>4, <1>5, OwnershipAfterRename
  DEF Next, PassExpiry, TtlSweep, ReceiveRegistration, AdminFindDevice,
      CreateModel, UpdateModel, DeleteModel, vars, dbVars

LEMMA OwnershipHolds == Spec => []OwnershipInv
<1>1. Init => OwnershipInv
  BY DEF Init, OwnershipInv, OwnerHeldTheToken, OneDocumentPerMac,
         NameChosenByOwner
<1> QED
  BY <1>1, OwnershipStep, Typing, TokenSafety, PTL DEF Spec

\* Every device belongs to the user its token was minted for.
THEOREM OwnersHeldTheToken == Spec => []OwnerHeldTheToken
<1>1. OwnershipInv => OwnerHeldTheToken
  BY DEF OwnershipInv
<1> QED
  BY <1>1, OwnershipHolds, PTL

\* A MAC has one device document at most.
THEOREM DocumentsAreUnique == Spec => []OneDocumentPerMac
<1>1. OwnershipInv => OneDocumentPerMac
  BY DEF OwnershipInv
<1> QED
  BY <1>1, OwnershipHolds, PTL

\* No device shows a name somebody else chose.
THEOREM NamesAreTheOwners == Spec => []NameChosenByOwner
<1>1. OwnershipInv => NameChosenByOwner
  BY DEF OwnershipInv
<1> QED
  BY <1>1, OwnershipHolds, PTL

\* No step hands an existing device to another user, model or endpoint list.
THEOREM LinksArePermanent == Spec => LinkIsPermanent
<1> DEFINE Kept == \A d \in devices, e \in devices' :
                       d.mac = e.mac =>
                           /\ e.user = d.user
                           /\ e.model = d.model
                           /\ e.layout = d.layout
<1>1. TypeOK /\ OneDocumentPerMac /\ [Next]_vars => [Kept]_vars
  <2> SUFFICES ASSUME TypeOK, OneDocumentPerMac, Next PROVE Kept
    OBVIOUS
  <2>1. ASSUME devices' \subseteq devices PROVE Kept
    BY <2>1 DEF OneDocumentPerMac
  <2>2. ASSUME NEW w \in Workers, CreateDevice(w) PROVE Kept
    <3>1. /\ devices' = devices \cup {NewDevice(w)}
          /\ \A d \in devices : d.mac # NewDevice(w).mac
      BY <2>2 DEF CreateDevice, MacFree, WithMac, NewDevice
    <3> QED
      BY <3>1 DEF OneDocumentPerMac
  <2>3. ASSUME NEW u \in Users, NEW m \in Macs, RenameDevice(u, m) PROVE Kept
    <3>1. PICK d \in Owned(m, u) :
            devices' = (devices \ {d}) \cup {[d EXCEPT !.namedBy = u]}
      BY <2>3 DEF RenameDevice
    <3>2. d \in devices /\ d \in DeviceDocs
      BY DEF Owned, TypeOK
    <3>3. PICK x : x = [d EXCEPT !.namedBy = u]
      OBVIOUS
    <3>4. /\ x.mac = d.mac /\ x.user = d.user
          /\ x.model = d.model /\ x.layout = d.layout
      BY <3>2, <3>3 DEF DeviceDocs
    <3> QED
      BY <3>1, <3>2, <3>3, <3>4 DEF OneDocumentPerMac
  <2> QED
    BY <2>1, <2>2, <2>3
    DEF Next, RequestBindingToken, PassExpiry, TtlSweep, ReceiveRegistration,
        Handle, RejectToken, ConsumeToken, RefuseExpired, PassCheck,
        UnknownModel, FindModel, MacAlreadyClaimed, Abort, ReleaseDevice,
        AdminFindDevice, AdminDeleteDevice, CreateModel, UpdateModel,
        DeleteModel, dbVars
<1> QED
  BY <1>1, Typing, DocumentsAreUnique, PTL DEF Spec, LinkIsPermanent

(***************************************************************************)
(* An expired token                                                        *)
(***************************************************************************)

\* Past its expiry and past every check under way, a token yields no device.
THEOREM ExpiredTokensAreDead == Spec => ExpiredTokenIsDead
<1> DEFINE Dead == \A t \in expired :
                       ~Cleared(t) => ~Cleared(t)' /\ claims'[t] = claims[t]
<1>1. TypeOK /\ [Next]_vars => [Dead]_vars
  <2> SUFFICES ASSUME TypeOK, Next, NEW t \in expired, ~Cleared(t)
               PROVE  ~Cleared(t)' /\ claims'[t] = claims[t]
    OBVIOUS
  <2>1. ASSUME UNCHANGED <<stage, msg, claims>>
        PROVE  ~Cleared(t)' /\ claims'[t] = claims[t]
    BY <2>1 DEF Cleared
  <2>2. ASSUME NEW w \in Workers, NEW m \in Messages, ReceiveRegistration(w, m)
        PROVE  ~Cleared(t)' /\ claims'[t] = claims[t]
    BY <2>2 DEF ReceiveRegistration, Cleared, historyVars, TypeOK
  <2>3. ASSUME NEW w \in Workers, Handle(w)
        PROVE  ~Cleared(t)' /\ claims'[t] = claims[t]
    <3>1. ASSUME Return(w), UNCHANGED claims
          PROVE  ~Cleared(t)' /\ claims'[t] = claims[t]
      BY <3>1 DEF Return, Cleared, TypeOK
    <3>2. CASE ConsumeToken(w)
      BY <3>2 DEF ConsumeToken, Cleared, historyVars, TypeOK
    <3>3. CASE PassCheck(w)
      BY <3>3 DEF PassCheck, PastExpiry, Cleared, historyVars, TypeOK
    <3>4. CASE FindModel(w)
      BY <3>4 DEF FindModel, Cleared, historyVars, TypeOK
    <3>5. CASE CreateDevice(w)
      <4>1. /\ stage[w] = "create" /\ Return(w)
            /\ claims' = [claims EXCEPT ![msg[w].token] = @ + 1]
        BY <3>5 DEF CreateDevice, Record
      <4>2. msg[w].token # t
        BY <4>1 DEF Cleared
      <4>3. ~Cleared(t)'
        BY <4>1 DEF Return, Cleared, TypeOK
      <4> QED
        BY <4>1, <4>2, <4>3 DEF TypeOK
    <3> QED
      BY <2>3, <3>1, <3>2, <3>3, <3>4, <3>5
      DEF Handle, RejectToken, RefuseExpired, UnknownModel, MacAlreadyClaimed,
          Abort, historyVars
  <2> QED
    BY <2>1, <2>2, <2>3
    DEF Next, RequestBindingToken, PassExpiry, TtlSweep, RenameDevice,
        ReleaseDevice, AdminFindDevice, AdminDeleteDevice, CreateModel,
        UpdateModel, DeleteModel, handlerVars, historyVars
<1> QED
  BY <1>1, Typing, PTL DEF Spec, ExpiredTokenIsDead

(***************************************************************************)
(* The handler implements the atomic claim                                 *)
(***************************************************************************)

\* A handler that gives up a held token voids it.
LEMMA GiveUpIsVoid ==
    ASSUME TypeOK, TokenInv, NEW w \in Workers, Return(w),
           UNCHANGED <<bindingTokens, devices, issuedTo>>
    PROVE  [Claimed!Next]_(Claimed!claimVars)
<1>1. Owns' = Owns /\ issuedTo' = issuedTo
  BY DEF Owns
<1>2. \A v \in Workers, t \in Tokens : Held(v, t)' <=> Held(v, t) /\ v # w
  BY DEF Held, Return, TypeOK
<1>3. \A t \in Tokens : Redeemable(t)' = Redeemable(t)
  BY DEF Redeemable
<1>4. CASE \E t \in Tokens : Held(w, t)
  <2>1. PICK t \in Tokens : Held(w, t)
    BY <1>4
  <2>2. Redeemable(t) = {} /\ \A v \in Workers : Held(v, t) => v = w
    BY <2>1 DEF TokenInv, HeldTokenIsReserved
  <2>3. \A s \in Tokens : Held(w, s) => s = t
    BY <2>1 DEF Held
  <2>4. t \in OpenTokens /\ OpenTokens' = OpenTokens \ {t}
    BY <1>2, <1>3, <2>1, <2>2, <2>3 DEF OpenTokens
  <2> QED
    BY <1>1, <2>4 DEF Claimed!Next, Claimed!Void, Claimed!claimVars
<1>5. CASE \A t \in Tokens : ~Held(w, t)
  <2>1. OpenTokens' = OpenTokens
    BY <1>2, <1>3, <1>5 DEF OpenTokens
  <2> QED
    BY <1>1, <2>1 DEF Claimed!claimVars
<1> QED
  BY <1>4, <1>5

LEMMA CreateIsClaim ==
    ASSUME TypeOK, TokenInv, NEW w \in Workers, CreateDevice(w)
    PROVE  Claimed!Next
<1>0. PICK m \in Messages : m = msg[w]
  BY DEF CreateDevice, TypeOK
<1>1. /\ stage[w] = "create" /\ Return(w)
      /\ UNCHANGED <<bindingTokens, issuedTo>>
      /\ devices' = devices \cup {NewDevice(w)}
      /\ \A d \in devices : d.mac # m.mac
  BY <1>0 DEF CreateDevice, Record, MacFree, WithMac
<1>2. /\ NewDevice(w).mac = m.mac /\ NewDevice(w).user = userId[w]
      /\ m.mac \in Macs /\ m.token \in Tokens
  BY <1>0 DEF NewDevice, Messages
<1>3. Held(w, m.token)
  BY <1>0, <1>1 DEF Held
<1>4. /\ userId[w] = issuedTo[m.token] /\ Redeemable(m.token) = {}
      /\ \A v \in Workers : Held(v, m.token) => v = w
  BY <1>2, <1>3 DEF TokenInv, HeldTokenIsReserved
<1>5. \A v \in Workers, t \in Tokens : Held(v, t)' <=> Held(v, t) /\ v # w
  BY <1>1 DEF Held, Return, TypeOK
<1>6. \A t \in Tokens : Held(w, t) => t = m.token
  BY <1>0 DEF Held
<1>7. m.token \in OpenTokens /\ OpenTokens' = OpenTokens \ {m.token}
  BY <1>1, <1>2, <1>3, <1>4, <1>5, <1>6 DEF OpenTokens, Redeemable
<1>8. Owns' = Owns \cup {<<m.mac, issuedTo[m.token]>>}
  BY <1>1, <1>2, <1>4 DEF Owns
<1>9. \A u \in Users : <<m.mac, u>> \notin Owns
  BY <1>1 DEF Owns
<1>10. Claimed!Claim(m.token, m.mac)
  BY <1>1, <1>7, <1>8, <1>9 DEF Claimed!Claim
<1> QED
  BY <1>2, <1>10 DEF Claimed!Next

LEMMA RefinementStep ==
    TypeOK /\ TokenInv /\ OwnershipInv /\ [Next]_vars
        => [Claimed!Next]_(Claimed!claimVars)
<1> SUFFICES ASSUME TypeOK, TokenInv, OwnershipInv, [Next]_vars
             PROVE  [Claimed!Next]_(Claimed!claimVars)
  OBVIOUS
<1>1. ASSUME UNCHANGED <<bindingTokens, devices, issuedTo>>,
             \A v \in Workers, t \in Tokens : Held(v, t)' <=> Held(v, t)
      PROVE  UNCHANGED Claimed!claimVars
  BY <1>1 DEF Claimed!claimVars, OpenTokens, Owns, Redeemable
<1>2. ASSUME NEW u \in Users, NEW t \in Tokens, RequestBindingToken(u, t)
      PROVE  Claimed!Next
  <2> DEFINE doc == [token |-> t, user |-> u, used |-> FALSE]
  <2>1. /\ bindingTokens' = bindingTokens \cup {doc}
        /\ issuedTo[t] = None /\ issuedTo' = [issuedTo EXCEPT ![t] = u]
        /\ UNCHANGED <<devices, stage, msg>>
    BY <1>2 DEF RequestBindingToken, handlerVars
  <2>2. doc \in Redeemable(t)'
    BY <2>1 DEF Redeemable
  <2>3. \A s \in Tokens \ {t} : Redeemable(s)' = Redeemable(s)
    BY <2>1 DEF Redeemable
  <2>4. \A v \in Workers, s \in Tokens : Held(v, s)' <=> Held(v, s)
    BY <2>1 DEF Held
  <2>5. OpenTokens' = OpenTokens \cup {t} /\ Owns' = Owns
    BY <2>1, <2>2, <2>3, <2>4 DEF OpenTokens, Owns
  <2> QED
    BY <2>1, <2>5 DEF Claimed!Next, Claimed!Issue
<1>3. ASSUME NEW t \in Tokens, TtlSweep(t)
      PROVE  [Claimed!Next]_(Claimed!claimVars)
  <2>1. /\ UNCHANGED <<devices, issuedTo, stage, msg>>
        /\ bindingTokens' = {d \in bindingTokens : d.token # t}
    BY <1>3 DEF TtlSweep, handlerVars, historyVars
  <2>2. \A v \in Workers, s \in Tokens : Held(v, s)' <=> Held(v, s)
    BY <2>1 DEF Held
  <2>3. /\ Redeemable(t)' = {}
        /\ \A s \in Tokens \ {t} : Redeemable(s)' = Redeemable(s)
    BY <2>1 DEF Redeemable
  <2>4. Owns' = Owns
    BY <2>1 DEF Owns
  <2>5. CASE \E w \in Workers : Held(w, t)
    <3>1. Redeemable(t) = {}
      BY <2>5 DEF TokenInv, HeldTokenIsReserved
    <3>2. OpenTokens' = OpenTokens
      BY <2>2, <2>3, <3>1 DEF OpenTokens
    <3> QED
      BY <2>1, <2>4, <3>2 DEF Claimed!claimVars
  <2>6. CASE \A w \in Workers : ~Held(w, t)
    <3>1. OpenTokens' = OpenTokens \ {t}
      BY <2>2, <2>3, <2>6 DEF OpenTokens
    <3> QED
      BY <2>1, <2>4, <3>1 DEF Claimed!Next, Claimed!Void, Claimed!claimVars
  <2> QED
    BY <2>5, <2>6
<1>4. ASSUME NEW w \in Workers, NEW m \in Messages, ReceiveRegistration(w, m)
      PROVE  UNCHANGED Claimed!claimVars
  <2>1. \A v \in Workers, t \in Tokens : Held(v, t)' <=> Held(v, t)
    BY <1>4 DEF ReceiveRegistration, Held, TypeOK
  <2> QED
    BY <1>1, <1>4, <2>1 DEF ReceiveRegistration, dbVars, historyVars
<1>5. ASSUME NEW w \in Workers, Handle(w)
      PROVE  [Claimed!Next]_(Claimed!claimVars)
  <2>1. ASSUME Return(w), UNCHANGED <<dbVars, historyVars>>
        PROVE  [Claimed!Next]_(Claimed!claimVars)
    BY <2>1, GiveUpIsVoid DEF dbVars, historyVars
  <2>2. CASE ConsumeToken(w)
    <3>0. PICK t \in Tokens : t = msg[w].token
      BY <2>2 DEF ConsumeToken, TypeOK, Messages
    <3>1. PICK d \in Redeemable(t) :
            bindingTokens' = (bindingTokens \ {d}) \cup {[d EXCEPT !.used = TRUE]}
      BY <2>2, <3>0 DEF ConsumeToken
    <3>2. PICK e : e = [d EXCEPT !.used = TRUE]
      OBVIOUS
    <3>3. /\ d \in bindingTokens /\ d \in TokenDocs /\ d.token = t
          /\ e.token = t /\ e.used
          /\ bindingTokens' = (bindingTokens \ {d}) \cup {e}
      BY <3>1, <3>2 DEF Redeemable, TypeOK, TokenDocs
    <3>4. \A s \in Tokens \ {t} : Redeemable(s)' = Redeemable(s)
      BY <3>3 DEF Redeemable
    <3>5. \A v \in Workers, s \in Tokens :
            Held(v, s)' <=> Held(v, s) \/ (v = w /\ s = t)
      BY <2>2, <3>0 DEF ConsumeToken, Held, TypeOK
    <3>6. t \in OpenTokens /\ t \in OpenTokens'
      BY <3>1, <3>5 DEF OpenTokens
    <3>7. OpenTokens' = OpenTokens
      BY <3>4, <3>5, <3>6 DEF OpenTokens
    <3> QED
      BY <2>2, <3>7 DEF ConsumeToken, Claimed!claimVars, Owns, historyVars
  <2>3. CASE PassCheck(w)
    <3>1. \A v \in Workers, t \in Tokens : Held(v, t)' <=> Held(v, t)
      BY <2>3 DEF PassCheck, Held, TypeOK
    <3> QED
      BY <1>1, <2>3, <3>1 DEF PassCheck, dbVars, historyVars
  <2>4. CASE FindModel(w)
    <3>1. \A v \in Workers, t \in Tokens : Held(v, t)' <=> Held(v, t)
      BY <2>4 DEF FindModel, Held, TypeOK
    <3> QED
      BY <1>1, <2>4, <3>1 DEF FindModel, dbVars, historyVars
  <2> QED
    BY <1>5, <2>1, <2>2, <2>3, <2>4, CreateIsClaim
    DEF Handle, RejectToken, RefuseExpired, UnknownModel, MacAlreadyClaimed,
        Abort
<1>6. ASSUME NEW u \in Users, NEW m \in Macs, RenameDevice(u, m)
      PROVE  UNCHANGED Claimed!claimVars
  <2>1. PICK d \in Owned(m, u) :
          devices' = (devices \ {d}) \cup {[d EXCEPT !.namedBy = u]}
    BY <1>6 DEF RenameDevice
  <2>2. PICK e : e = [d EXCEPT !.namedBy = u]
    OBVIOUS
  <2>3. /\ d \in devices /\ e.mac = d.mac /\ e.user = d.user
        /\ devices' = (devices \ {d}) \cup {e}
    BY <2>1, <2>2 DEF Owned, TypeOK, DeviceDocs
  <2>4. Owns' = Owns
    BY <2>3 DEF Owns
  <2>5. OpenTokens' = OpenTokens
    BY <1>6 DEF RenameDevice, OpenTokens, Redeemable, Held, handlerVars
  <2> QED
    BY <1>6, <2>4, <2>5 DEF RenameDevice, Claimed!claimVars, historyVars
<1>7. ASSUME NEW m \in Macs,
             devices' = {d \in devices : d.mac # m},
             UNCHANGED <<bindingTokens, handlerVars, issuedTo>>
      PROVE  Claimed!Next
  <2>1. Owns' = {p \in Owns : p[1] # m}
    <3>1. \A d \in devices : <<d.mac, d.user>>[1] = d.mac
      OBVIOUS
    <3>2. Owns' = {<<d.mac, d.user>> : d \in {e \in devices : e.mac # m}}
      BY <1>7 DEF Owns
    <3> QED
      BY <3>1, <3>2, Zenon DEF Owns
  <2>2. OpenTokens' = OpenTokens
    BY <1>7 DEF OpenTokens, Redeemable, Held, handlerVars
  <2> QED
    BY <1>7, <2>1, <2>2 DEF Claimed!Next, Claimed!Release
<1>8. ASSUME NEW u \in Users, NEW m \in Macs, ReleaseDevice(u, m)
      PROVE  Claimed!Next
  <2>1. PICK d \in Owned(m, u) : devices' = devices \ {d}
    BY <1>8 DEF ReleaseDevice
  <2>2. devices' = {e \in devices : e.mac # m}
    BY <2>1 DEF Owned, OwnershipInv, OneDocumentPerMac
  <2> QED
    BY <1>7, <1>8, <2>2 DEF ReleaseDevice, historyVars
<1>9. ASSUME AdminDeleteDevice PROVE Claimed!Next
  <2>1. PICK m \in Macs : m = adminTarget
    BY <1>9 DEF AdminDeleteDevice, TypeOK
  <2>2. devices' = {d \in devices : d.mac # m}
    BY <1>9, <2>1 DEF AdminDeleteDevice, WithMac
  <2> QED
    BY <1>7, <1>9, <2>2 DEF AdminDeleteDevice, historyVars
<1>10. ASSUME UNCHANGED <<bindingTokens, devices, handlerVars, issuedTo>>
       PROVE  UNCHANGED Claimed!claimVars
  BY <1>10 DEF Claimed!claimVars, OpenTokens, Owns, Redeemable, Held,
               handlerVars
<1> QED
  BY <1>2, <1>3, <1>4, <1>5, <1>6, <1>8, <1>9, <1>10
  DEF Next, PassExpiry, AdminFindDevice, CreateModel, UpdateModel,
      DeleteModel, vars, dbVars, historyVars

\* Every behaviour of the interleaved handlers, the TTL monitor, the consumer
\* API and the admin API is one of DeviceClaims: a claim happens in one step.
THEOREM ProvisioningImplementsClaims == Spec => ImplementsDeviceClaims
<1>1. Init => Claimed!Init
  BY DEF Init, Claimed!Init, OpenTokens, Owns, Redeemable, Held
<1> QED
  BY <1>1, RefinementStep, Typing, TokenSafety, OwnershipHolds, PTL
  DEF Spec, ImplementsDeviceClaims, Claimed!Spec

===============================================================================
