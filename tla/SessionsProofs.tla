---------------------------- MODULE SessionsProofs ----------------------------
(***************************************************************************)
(* Proofs about Sessions, for any accounts, codes, refresh tokens and      *)
(* number of requests.                                                     *)
(***************************************************************************)
EXTENDS Sessions, TLAPS

(***************************************************************************)
(* Typing                                                                  *)
(***************************************************************************)

LEMMA ReturnTyped ==
    ASSUME TypeOK, NEW r \in Requests, Return(r)
    PROVE  /\ stage' \in [Requests -> Stages]
           /\ userId' \in [Requests -> Users \cup {None}]
           /\ via' \in [Requests -> Grants \cup {None}]
           /\ \A q \in Requests :
                  /\ stage'[q] # "idle" => userId'[q] \in Users
                  /\ stage'[q] \in {"idle", "issueCode"} => via'[q] = None
                  /\ stage'[q] = "check" => via'[q] \in Grants
                  /\ stage'[q] = "delete" => via'[q] \in Refreshes
  BY DEF TypeOK, Return, Stages

LEMMA TypedStep == TypeOK /\ [Next]_vars => TypeOK'
<1> SUFFICES ASSUME TypeOK, [Next]_vars PROVE TypeOK'
  OBVIOUS
<1>1. ASSUME NEW r \in Requests, NEW u \in Users, SignIn(r, u) \/ Authorize(r, u)
      PROVE  TypeOK'
  BY <1>1 DEF SignIn, Authorize, Upsert, TypeOK, Stages, historyVars
<1>2. ASSUME NEW r \in Requests, NEW c \in Codes, IssueCode(r, c)
      PROVE  TypeOK'
  <2>1. userId[r] \in Users /\ c \in Grants
    BY <1>2 DEF IssueCode, TypeOK, Grants
  <2>2. [code |-> c, user |-> userId[r], used |-> FALSE] \in CodeDocs
    BY <2>1 DEF CodeDocs
  <2>3. oauthCodes' \subseteq CodeDocs /\ issuedTo' \in [Grants -> Users \cup {None}]
    BY <1>2, <2>1, <2>2 DEF IssueCode, TypeOK
  <2>4. Return(r)
    BY <1>2 DEF IssueCode
  <2> QED
    BY <1>2, <2>3, <2>4, ReturnTyped DEF IssueCode, TypeOK
<1>3. ASSUME NEW r \in Requests, NEW c \in Codes, ConsumeCode(r, c)
      PROVE  TypeOK'
  <2>1. PICK d \in Redeemable(c) :
          /\ oauthCodes' = (oauthCodes \ {d}) \cup {[d EXCEPT !.used = TRUE]}
          /\ userId' = [userId EXCEPT ![r] = d.user]
    BY <1>3 DEF ConsumeCode
  <2>2. d \in CodeDocs /\ d.user \in Users /\ c \in Grants
    BY DEF Redeemable, TypeOK, CodeDocs, Grants
  <2>3. [d EXCEPT !.used = TRUE] \in CodeDocs
    BY <2>2 DEF CodeDocs
  <2> QED
    BY <1>3, <2>1, <2>2, <2>3 DEF ConsumeCode, TypeOK, Stages, historyVars
<1>4. ASSUME NEW r \in Requests, NEW t \in Refreshes, FindRefresh(r, t)
      PROVE  TypeOK'
  <2>1. PICK d \in Found(t) : userId' = [userId EXCEPT ![r] = d.user]
    BY <1>4 DEF FindRefresh
  <2>2. d.user \in Users /\ t \in Grants
    BY DEF Found, TypeOK, RefreshDocs, Grants
  <2> QED
    BY <1>4, <2>1, <2>2 DEF FindRefresh, TypeOK, Stages, dbVars, historyVars
<1>5. ASSUME NEW r \in Requests, NEW t \in Refreshes, Mint(r, t) PROVE TypeOK'
  <2>1. userId[r] \in Users /\ t \in Grants
    BY <1>5 DEF Mint, TypeOK, Grants
  <2>2. [token |-> t, user |-> userId[r]] \in RefreshDocs
    BY <2>1 DEF RefreshDocs
  <2>3. /\ refreshTokens' \subseteq RefreshDocs
        /\ issuedTo' \in [Grants -> Users \cup {None}]
        /\ source' \in [Refreshes -> Grants \cup {None}]
    BY <1>5, <2>1, <2>2 DEF Mint, TypeOK
  <2>4. pairs' \in [Grants -> Nat]
    BY <1>5 DEF Mint, TypeOK
  <2>5. Return(r)
    BY <1>5 DEF Mint
  <2> QED
    BY <1>5, <2>3, <2>4, <2>5, ReturnTyped DEF Mint, TypeOK
<1>6. ASSUME NEW r \in Requests, Handle(r) PROVE TypeOK'
  <2>1. CASE RefuseExpired(r) \/ Abort(r)
    <3>1. Return(r) /\ UNCHANGED <<dbVars, historyVars>>
      BY <2>1 DEF RefuseExpired, Abort
    <3> QED
      BY <3>1, ReturnTyped DEF TypeOK, dbVars, historyVars
  <2>2. CASE PassCheck(r)
    BY <2>2 DEF PassCheck, TypeOK, Stages, Grants, dbVars, historyVars
  <2>3. CASE DeleteRefresh(r)
    BY <2>3 DEF DeleteRefresh, TypeOK, Stages, historyVars
  <2> QED
    BY <1>6, <2>1, <2>2, <2>3 DEF Handle
<1>7. ASSUME NEW x \in Grants, PassExpiry(x) \/ TtlSweep(x) PROVE TypeOK'
  BY <1>7 DEF PassExpiry, TtlSweep, TypeOK, requestVars, historyVars
<1>8. CASE UNCHANGED vars
  BY <1>8 DEF TypeOK, vars, dbVars, requestVars, historyVars
<1> QED
  BY <1>1, <1>2, <1>3, <1>4, <1>5, <1>6, <1>7, <1>8 DEF Next

\* Every variable of Sessions keeps its type.
THEOREM Typing == Spec => []TypeOK
<1>1. Init => TypeOK
  BY DEF Init, TypeOK, Stages
<1> QED
  BY <1>1, TypedStep, PTL DEF Spec

(***************************************************************************)
(* An authorization code is good for one pair                              *)
(***************************************************************************)

\* Steps that touch neither codes nor the requests that hold one.
LEMMA CodeFrame ==
    ASSUME CodeInv, UNCHANGED <<oauthCodes, via>>,
           \A c \in Codes : issuedTo'[c] = issuedTo[c] /\ pairs'[c] = pairs[c],
           \A r \in Requests : via[r] \in Codes => userId'[r] = userId[r],
           oauthCodes \subseteq CodeDocs
    PROVE  CodeInv'
<1>1. HeldCodeIsReserved'
  BY DEF CodeInv, HeldCodeIsReserved, Redeemable
<1>2. CodeDocsAreSound'
  BY DEF CodeInv, CodeDocsAreSound, CodeDocs
<1> QED
  BY <1>1, <1>2 DEF CodeInv, OnePairPerCode

\* A request that returns gives up its code, which stays used.
LEMMA CodeReturn ==
    ASSUME TypeOK, CodeInv, NEW r \in Requests, Return(r),
           UNCHANGED <<oauthCodes, issuedTo, pairs>>
    PROVE  CodeInv'
<1>1. ASSUME NEW q \in Requests, NEW c \in Codes, via'[q] = c
      PROVE  q # r /\ via[q] = c /\ userId'[q] = userId[q]
  BY <1>1, SessionsAssumption DEF Return, TypeOK
<1>2. HeldCodeIsReserved'
  BY <1>1 DEF CodeInv, HeldCodeIsReserved, Redeemable
<1> QED
  BY <1>2 DEF CodeInv, CodeDocsAreSound, OnePairPerCode

LEMMA CodeIssued ==
    ASSUME TypeOK, CodeInv, NEW r \in Requests, NEW c \in Codes, IssueCode(r, c)
    PROVE  CodeInv'
<1> DEFINE new == [code |-> c, user |-> userId[r], used |-> FALSE]
<1>1. /\ oauthCodes' = oauthCodes \cup {new}
      /\ issuedTo' = [issuedTo EXCEPT ![c] = userId[r]]
      /\ Return(r) /\ UNCHANGED pairs
      /\ issuedTo[c] = None
      /\ c \in Grants
  BY DEF IssueCode, Grants
<1>2. ASSUME NEW d \in oauthCodes PROVE d.code # c
  BY <1>1, SessionsAssumption DEF CodeInv, CodeDocsAreSound, TypeOK, CodeDocs
<1>3. ASSUME NEW q \in Requests, NEW b \in Codes, via'[q] = b
      PROVE  q # r /\ via[q] = b /\ userId'[q] = userId[q] /\ b # c
  <2>1. q # r /\ via[q] = b /\ userId'[q] = userId[q]
    BY <1>1, <1>3, SessionsAssumption DEF Return, TypeOK
  <2>2. stage[q] # "idle"
    BY <2>1, SessionsAssumption DEF TypeOK
  <2>3. userId[q] \in Users /\ userId[q] = issuedTo[b]
    BY <2>1, <2>2 DEF TypeOK, CodeInv, HeldCodeIsReserved
  <2> QED
    BY <1>1, <2>1, <2>3, SessionsAssumption
<1>4. HeldCodeIsReserved'
  <2> SUFFICES ASSUME NEW q \in Requests, NEW b \in Codes, via'[q] = b
               PROVE  /\ userId'[q] = issuedTo'[b]
                      /\ Redeemable(b)' = {}
                      /\ pairs'[b] = 0
                      /\ \A p \in Requests : via'[p] = b => p = q
    BY DEF HeldCodeIsReserved
  <2>1. b # c /\ via[q] = b /\ userId'[q] = userId[q]
    BY <1>3
  <2>2. Redeemable(b) = {} /\ pairs[b] = 0 /\ userId[q] = issuedTo[b]
    BY <2>1 DEF CodeInv, HeldCodeIsReserved
  <2>3. Redeemable(b)' = {}
    BY <1>1, <2>1, <2>2 DEF Redeemable
  <2>4. \A p \in Requests : via'[p] = b => p = q
    BY <1>3, <2>1 DEF CodeInv, HeldCodeIsReserved
  <2> QED
    BY <1>1, <2>1, <2>2, <2>3, <2>4 DEF TypeOK
<1>5. CodeDocsAreSound'
  <2> SUFFICES ASSUME NEW d \in oauthCodes'
               PROVE  /\ issuedTo'[d.code] = d.user
                      /\ \A e \in oauthCodes' : e.code = d.code => e = d
                      /\ ~d.used => pairs'[d.code] = 0
    BY DEF CodeDocsAreSound
  <2>1. CASE d = new
    BY <1>1, <1>2, <2>1 DEF TypeOK, CodeInv
  <2>2. CASE d \in oauthCodes
    BY <1>1, <1>2, <2>2 DEF TypeOK, CodeInv, CodeDocsAreSound, CodeDocs, Grants
  <2> QED
    BY <1>1, <2>1, <2>2
<1> QED
  BY <1>1, <1>4, <1>5, SessionsAssumption
  DEF CodeInv, OnePairPerCode, TypeOK

LEMMA CodeConsumed ==
    ASSUME TypeOK, CodeInv, NEW r \in Requests, NEW c \in Codes, ConsumeCode(r, c)
    PROVE  CodeInv'
<1>1. PICK d \in Redeemable(c) :
        /\ oauthCodes' = (oauthCodes \ {d}) \cup {[d EXCEPT !.used = TRUE]}
        /\ userId' = [userId EXCEPT ![r] = d.user]
  BY DEF ConsumeCode
<1> DEFINE spent == [d EXCEPT !.used = TRUE]
<1>2. d \in oauthCodes /\ d \in CodeDocs /\ d.code = c /\ ~d.used
  BY DEF Redeemable, TypeOK
<1>3. spent.code = c /\ spent.user = d.user /\ spent.used
  BY <1>2 DEF CodeDocs
<1>4. issuedTo[c] = d.user /\ pairs[c] = 0
  BY <1>2 DEF CodeInv, CodeDocsAreSound
<1>5. \A e \in oauthCodes : e.code = c => e = d
  BY <1>2 DEF CodeInv, CodeDocsAreSound
<1>6. \A q \in Requests : via[q] # c
  BY <1>1 DEF CodeInv, HeldCodeIsReserved
<1>7. UNCHANGED <<issuedTo, pairs>> /\ via' = [via EXCEPT ![r] = c]
  BY DEF ConsumeCode, historyVars
<1>8. HeldCodeIsReserved'
  <2> SUFFICES ASSUME NEW q \in Requests, NEW b \in Codes, via'[q] = b
               PROVE  /\ userId'[q] = issuedTo'[b]
                      /\ Redeemable(b)' = {}
                      /\ pairs'[b] = 0
                      /\ \A p \in Requests : via'[p] = b => p = q
    BY DEF HeldCodeIsReserved
  <2>1. CASE q = r
    <3>1. b = c /\ userId'[q] = d.user
      BY <1>1, <1>7, <2>1 DEF TypeOK
    <3>2. Redeemable(c)' = {}
      BY <1>1, <1>3, <1>5 DEF Redeemable
    <3> QED
      BY <1>4, <1>6, <1>7, <2>1, <3>1, <3>2 DEF TypeOK
  <2>2. CASE q # r
    <3>1. via[q] = b /\ userId'[q] = userId[q] /\ b # c
      BY <1>1, <1>6, <1>7, <2>2 DEF TypeOK
    <3>2. Redeemable(b) = {}
      BY <3>1 DEF CodeInv, HeldCodeIsReserved
    <3>3. Redeemable(b)' = {}
      BY <1>1, <1>3, <3>1, <3>2 DEF Redeemable
    <3> QED
      BY <1>7, <3>1, <3>3 DEF TypeOK, CodeInv, HeldCodeIsReserved
  <2> QED
    BY <2>1, <2>2
<1>9. CodeDocsAreSound'
  <2> SUFFICES ASSUME NEW e \in oauthCodes'
               PROVE  /\ issuedTo[e.code] = e.user
                      /\ \A f \in oauthCodes' : f.code = e.code => f = e
                      /\ ~e.used => pairs[e.code] = 0
    BY <1>7 DEF CodeDocsAreSound
  <2>1. \A f \in oauthCodes' : f = spent \/ (f \in oauthCodes /\ f.code # c)
    BY <1>1, <1>5
  <2>2. CASE e = spent
    BY <1>3, <1>4, <2>1, <2>2
  <2>3. CASE e \in oauthCodes /\ e.code # c
    BY <1>3, <2>1, <2>3 DEF CodeInv, CodeDocsAreSound
  <2> QED
    BY <2>1, <2>2, <2>3
<1> QED
  BY <1>7, <1>8, <1>9 DEF CodeInv, OnePairPerCode

LEMMA CodeMinted ==
    ASSUME TypeOK, CodeInv, NEW r \in Requests, NEW t \in Refreshes, Mint(r, t)
    PROVE  CodeInv'
<1>1. /\ Return(r) /\ UNCHANGED oauthCodes
      /\ issuedTo' = [issuedTo EXCEPT ![t] = userId[r]]
      /\ pairs' = [x \in Grants |-> IF x = via[r] THEN pairs[x] + 1 ELSE pairs[x]]
  BY DEF Mint
<1>2. ASSUME NEW c \in Codes
      PROVE  /\ c \in Grants
             /\ issuedTo'[c] = issuedTo[c]
             /\ c # via[r] => pairs'[c] = pairs[c]
             /\ c = via[r] => pairs'[c] = 1 /\ issuedTo[c] # None
  <2>1. c \in Grants /\ c # t
    BY SessionsAssumption DEF Grants
  <2>2. c = via[r] => pairs[c] = 0 /\ userId[r] = issuedTo[c]
    BY DEF CodeInv, HeldCodeIsReserved
  <2>3. userId[r] # None
    BY SessionsAssumption DEF Mint, TypeOK
  <2> QED
    BY <1>1, <2>1, <2>2, <2>3 DEF TypeOK
<1>3. ASSUME NEW q \in Requests, NEW c \in Codes, via'[q] = c
      PROVE  q # r /\ via[q] = c /\ userId'[q] = userId[q] /\ c # via[r]
  <2>1. q # r /\ via[q] = c /\ userId'[q] = userId[q]
    BY <1>1, <1>3, SessionsAssumption DEF Return, TypeOK
  <2> QED
    BY <2>1 DEF CodeInv, HeldCodeIsReserved
<1>4. HeldCodeIsReserved'
  BY <1>1, <1>2, <1>3 DEF CodeInv, HeldCodeIsReserved, Redeemable
<1>5. CodeDocsAreSound'
  <2> SUFFICES ASSUME NEW d \in oauthCodes
               PROVE  /\ issuedTo'[d.code] = d.user
                      /\ \A e \in oauthCodes : e.code = d.code => e = d
                      /\ ~d.used => pairs'[d.code] = 0
    BY <1>1 DEF CodeDocsAreSound
  <2>1. d.code \in Codes
    BY DEF TypeOK, CodeDocs
  <2>2. ~d.used => d.code # via[r]
    BY <2>1 DEF CodeInv, HeldCodeIsReserved, Redeemable
  <2> QED
    BY <1>2, <2>1, <2>2 DEF CodeInv, CodeDocsAreSound
<1> QED
  BY <1>2, <1>4, <1>5 DEF CodeInv, OnePairPerCode

LEMMA CodeStep == TypeOK /\ CodeInv /\ [Next]_vars => CodeInv'
<1> SUFFICES ASSUME TypeOK, CodeInv, [Next]_vars PROVE CodeInv'
  OBVIOUS
<1>0. oauthCodes \subseteq CodeDocs
  BY DEF TypeOK
<1>1. ASSUME NEW r \in Requests, NEW u \in Users, SignIn(r, u) \/ Authorize(r, u)
      PROVE  CodeInv'
  <2>1. /\ UNCHANGED <<oauthCodes, via, issuedTo, pairs>>
        /\ stage[r] = "idle"
        /\ userId' = [userId EXCEPT ![r] = u]
    BY <1>1 DEF SignIn, Authorize, Upsert, historyVars
  <2>2. \A q \in Requests : via[q] \in Codes => userId'[q] = userId[q]
    BY <2>1, SessionsAssumption DEF TypeOK
  <2> QED
    BY <1>0, <2>1, <2>2, CodeFrame
<1>2. ASSUME NEW r \in Requests, NEW c \in Codes, IssueCode(r, c) \/ ConsumeCode(r, c)
      PROVE  CodeInv'
  BY <1>2, CodeIssued, CodeConsumed
<1>3. ASSUME NEW r \in Requests, NEW t \in Refreshes, FindRefresh(r, t)
      PROVE  CodeInv'
  <2>1. /\ UNCHANGED <<oauthCodes, issuedTo, pairs>>
        /\ via' = [via EXCEPT ![r] = t]
        /\ stage[r] = "idle"
    BY <1>3 DEF FindRefresh, dbVars, historyVars
  <2>2. ASSUME NEW q \in Requests, NEW c \in Codes, via'[q] = c
        PROVE  q # r /\ via[q] = c /\ userId'[q] = userId[q]
    BY <1>3, <2>1, <2>2, SessionsAssumption DEF FindRefresh, TypeOK
  <2>3. HeldCodeIsReserved'
    BY <2>1, <2>2 DEF CodeInv, HeldCodeIsReserved, Redeemable
  <2> QED
    BY <2>1, <2>3 DEF CodeInv, CodeDocsAreSound, OnePairPerCode
<1>4. ASSUME NEW r \in Requests, NEW t \in Refreshes, Mint(r, t) PROVE CodeInv'
  BY <1>4, CodeMinted
<1>5. ASSUME NEW r \in Requests, Handle(r) PROVE CodeInv'
  <2>1. CASE RefuseExpired(r) \/ Abort(r)
    BY <2>1, CodeReturn DEF RefuseExpired, Abort, dbVars, historyVars
  <2>2. CASE PassCheck(r) \/ DeleteRefresh(r)
    <3>1. UNCHANGED <<oauthCodes, via, userId, issuedTo, pairs>>
      BY <2>2 DEF PassCheck, DeleteRefresh, dbVars, historyVars
    <3> QED
      BY <1>0, <3>1, CodeFrame
  <2> QED
    BY <1>5, <2>1, <2>2 DEF Handle
<1>6. ASSUME NEW x \in Grants, PassExpiry(x) PROVE CodeInv'
  BY <1>0, <1>6, CodeFrame DEF PassExpiry, requestVars, historyVars
<1>7. ASSUME NEW x \in Grants, TtlSweep(x) PROVE CodeInv'
  <2>1. /\ oauthCodes' \subseteq oauthCodes
        /\ UNCHANGED <<via, userId, issuedTo, pairs>>
    BY <1>7 DEF TtlSweep, requestVars, historyVars
  <2>2. HeldCodeIsReserved'
    BY <2>1 DEF CodeInv, HeldCodeIsReserved, Redeemable
  <2>3. CodeDocsAreSound'
    BY <2>1 DEF CodeInv, CodeDocsAreSound
  <2> QED
    BY <2>1, <2>2, <2>3 DEF CodeInv, OnePairPerCode
<1>8. CASE UNCHANGED vars
  BY <1>0, <1>8, CodeFrame DEF vars, dbVars, requestVars, historyVars
<1> QED
  BY <1>1, <1>2, <1>3, <1>4, <1>5, <1>6, <1>7, <1>8 DEF Next

\* The inductive invariant of the codes: one that a request has consumed is
\* that request's alone and has paid for nothing yet.
THEOREM CodeSafety == Spec => []CodeInv
<1>1. Init => CodeInv
  BY SessionsAssumption
  DEF Init, CodeInv, HeldCodeIsReserved, CodeDocsAreSound, OnePairPerCode, Grants
<1> QED
  BY <1>1, Typing, CodeStep, PTL DEF Spec

\* An authorization code is good for one pair at most.
THEOREM CodesAreOneTime == Spec => []OnePairPerCode
<1>1. CodeInv => OnePairPerCode
  BY DEF CodeInv
<1> QED
  BY <1>1, CodeSafety, PTL

(***************************************************************************)
(* A session stays with its account                                        *)
(***************************************************************************)

\* Steps that issue nothing, add no refresh token and give no request a grant.
LEMMA OwnerFrame ==
    ASSUME SessionStaysWithUser, UNCHANGED <<issuedTo, source>>,
           refreshTokens' \subseteq refreshTokens,
           \A r \in Requests : via'[r] \in Grants =>
               via'[r] = via[r] /\ userId'[r] = userId[r]
    PROVE  SessionStaysWithUser'
  BY DEF SessionStaysWithUser

\* A step that issues the new grant x to u, as the refresh token t or as a code.
LEMMA OwnerIssued ==
    ASSUME TypeOK, SessionStaysWithUser, NEW r \in Requests, NEW x \in Grants,
           issuedTo[x] = None, userId[r] \in Users, Return(r),
           issuedTo' = [issuedTo EXCEPT ![x] = userId[r]],
           \A d \in refreshTokens' :
               d \in refreshTokens \/ (d.token = x /\ d.user = userId[r]),
           \A t \in Refreshes :
               source'[t] = source[t] \/ (t = x /\ source'[t] = via[r])
    PROVE  SessionStaysWithUser'
<1>1. \A y \in Grants : issuedTo[y] # None => y # x /\ issuedTo'[y] = issuedTo[y]
  BY DEF TypeOK
<1>2. issuedTo'[x] = userId[r] /\ userId[r] # None
  BY SessionsAssumption DEF TypeOK
<1>3. via[r] \in Grants => issuedTo'[via[r]] = userId[r]
  BY <1>1, <1>2 DEF SessionStaysWithUser
<1>4. ASSUME NEW t \in Refreshes, source'[t] \in Grants
      PROVE  issuedTo'[t] # None /\ issuedTo'[t] = issuedTo'[source'[t]]
  <2>0. t \in Grants
    BY DEF Grants
  <2>1. CASE source'[t] = source[t]
    BY <1>1, <1>4, <2>0, <2>1 DEF SessionStaysWithUser
  <2>2. CASE t = x /\ source'[t] = via[r]
    BY <1>2, <1>3, <1>4, <2>2
  <2> QED
    BY <2>1, <2>2
<1>5. ASSUME NEW d \in refreshTokens' PROVE issuedTo'[d.token] = d.user
  <2>1. CASE d \in refreshTokens
    <3>1. d.token \in Grants /\ d.user # None /\ issuedTo[d.token] = d.user
      BY <2>1, SessionsAssumption DEF TypeOK, RefreshDocs, Grants, SessionStaysWithUser
    <3> QED
      BY <1>1, <3>1
  <2>2. CASE d.token = x /\ d.user = userId[r]
    BY <1>2, <2>2
  <2> QED
    BY <2>1, <2>2
<1>6. ASSUME NEW q \in Requests, via'[q] \in Grants
      PROVE  userId'[q] = issuedTo'[via'[q]]
  <2>1. q # r /\ via'[q] = via[q] /\ userId'[q] = userId[q]
    BY <1>6, SessionsAssumption DEF Return, TypeOK, Grants
  <2>2. userId[q] # None
    BY <1>6, <2>1, SessionsAssumption DEF TypeOK, Grants
  <2> QED
    BY <1>1, <1>6, <2>1, <2>2 DEF SessionStaysWithUser
<1> QED
  BY <1>4, <1>5, <1>6 DEF SessionStaysWithUser

\* A step in which a request takes the grant x for the user it was issued to.
LEMMA OwnerPresents ==
    ASSUME TypeOK, SessionStaysWithUser, NEW r \in Requests, NEW x \in Grants,
           NEW u \in Users, issuedTo[x] = u,
           UNCHANGED <<refreshTokens, issuedTo, source>>,
           via' = [via EXCEPT ![r] = x], userId' = [userId EXCEPT ![r] = u]
    PROVE  SessionStaysWithUser'
<1>1. ASSUME NEW q \in Requests, via'[q] \in Grants
      PROVE  userId'[q] = issuedTo[via'[q]]
  BY <1>1 DEF TypeOK, SessionStaysWithUser
<1> QED
  BY <1>1 DEF SessionStaysWithUser

LEMMA OwnerStep ==
    TypeOK /\ CodeInv /\ SessionStaysWithUser /\ [Next]_vars => SessionStaysWithUser'
<1> SUFFICES ASSUME TypeOK, CodeInv, SessionStaysWithUser, [Next]_vars
             PROVE  SessionStaysWithUser'
  OBVIOUS
<1>1. ASSUME NEW r \in Requests, NEW u \in Users, SignIn(r, u) \/ Authorize(r, u)
      PROVE  SessionStaysWithUser'
  <2>1. /\ UNCHANGED <<refreshTokens, via, issuedTo, source>>
        /\ stage[r] = "idle"
        /\ userId' = [userId EXCEPT ![r] = u]
    BY <1>1 DEF SignIn, Authorize, Upsert, historyVars
  <2>2. \A q \in Requests : via[q] \in Grants => userId'[q] = userId[q]
    BY <2>1, SessionsAssumption DEF TypeOK, Grants
  <2> QED
    BY <2>1, <2>2, OwnerFrame
<1>2. ASSUME NEW r \in Requests, NEW c \in Codes, IssueCode(r, c)
      PROVE  SessionStaysWithUser'
  <2>1. c \in Grants /\ userId[r] \in Users
    BY <1>2 DEF IssueCode, TypeOK, Grants
  <2> QED
    BY <1>2, <2>1, OwnerIssued DEF IssueCode
<1>3. ASSUME NEW r \in Requests, NEW c \in Codes, ConsumeCode(r, c)
      PROVE  SessionStaysWithUser'
  <2>1. PICK d \in Redeemable(c) : userId' = [userId EXCEPT ![r] = d.user]
    BY <1>3 DEF ConsumeCode
  <2>2. c \in Grants /\ d.user \in Users /\ issuedTo[c] = d.user
    BY DEF Redeemable, TypeOK, CodeDocs, Grants, CodeInv, CodeDocsAreSound
  <2> QED
    BY <1>3, <2>1, <2>2, OwnerPresents DEF ConsumeCode, historyVars
<1>4. ASSUME NEW r \in Requests, NEW t \in Refreshes, FindRefresh(r, t)
      PROVE  SessionStaysWithUser'
  <2>1. PICK d \in Found(t) : userId' = [userId EXCEPT ![r] = d.user]
    BY <1>4 DEF FindRefresh
  <2>2. t \in Grants /\ d.user \in Users /\ issuedTo[t] = d.user
    BY DEF Found, TypeOK, RefreshDocs, Grants, SessionStaysWithUser
  <2> QED
    BY <1>4, <2>1, <2>2, OwnerPresents DEF FindRefresh, dbVars, historyVars
<1>5. ASSUME NEW r \in Requests, NEW t \in Refreshes, Mint(r, t)
      PROVE  SessionStaysWithUser'
  <2>1. t \in Grants /\ userId[r] \in Users
    BY <1>5 DEF Mint, TypeOK, Grants
  <2>2. \A d \in refreshTokens' :
            d \in refreshTokens \/ (d.token = t /\ d.user = userId[r])
    BY <1>5 DEF Mint
  <2>3. \A s \in Refreshes : source'[s] = source[s] \/ (s = t /\ source'[s] = via[r])
    BY <1>5 DEF Mint, TypeOK
  <2> QED
    BY <1>5, <2>1, <2>2, <2>3, OwnerIssued DEF Mint
<1>6. ASSUME NEW r \in Requests, Handle(r) PROVE SessionStaysWithUser'
  <2>1. UNCHANGED <<issuedTo, source>> /\ refreshTokens' \subseteq refreshTokens
    BY <1>6
    DEF Handle, RefuseExpired, PassCheck, DeleteRefresh, Abort, dbVars, historyVars
  <2>2. Return(r) \/ UNCHANGED <<userId, via>>
    BY <1>6 DEF Handle, RefuseExpired, PassCheck, DeleteRefresh, Abort
  <2>3. \A q \in Requests : via'[q] \in Grants =>
            via'[q] = via[q] /\ userId'[q] = userId[q]
    BY <2>2, SessionsAssumption DEF Return, TypeOK, Grants
  <2> QED
    BY <2>1, <2>3, OwnerFrame
<1>7. ASSUME NEW x \in Grants, PassExpiry(x) \/ TtlSweep(x)
      PROVE  SessionStaysWithUser'
  <2>1. /\ UNCHANGED <<issuedTo, source, via, userId>>
        /\ refreshTokens' \subseteq refreshTokens
    BY <1>7 DEF PassExpiry, TtlSweep, requestVars, historyVars
  <2> QED
    BY <2>1, OwnerFrame
<1>8. CASE UNCHANGED vars
  BY <1>8, OwnerFrame DEF vars, dbVars, requestVars, historyVars
<1> QED
  BY <1>1, <1>2, <1>3, <1>4, <1>5, <1>6, <1>7, <1>8 DEF Next

\* Every token pair, and every request under way, is for the account its grant
\* was issued to.
THEOREM SessionsStayWithTheirUser == Spec => []SessionStaysWithUser
<1>1. Init => SessionStaysWithUser
  BY SessionsAssumption DEF Init, SessionStaysWithUser, Grants
<1> QED
  BY <1>1, Typing, CodeSafety, OwnerStep, PTL DEF Spec

(***************************************************************************)
(* A dead grant stays dead                                                 *)
(***************************************************************************)

\* A dead grant stays dead in a step that offers it no new document and brings
\* no request further with it.
LEMMA DeadFrame ==
    ASSUME NEW x \in Grants, ~Live(x), expired \subseteq expired',
           x \in Codes /\ x \notin expired => Redeemable(x)' \subseteq Redeemable(x),
           x \in Refreshes /\ x \notin expired => Found(x)' \subseteq Found(x),
           \A r \in Requests :
               /\ stage'[r] \in {"delete", "mint"} /\ via'[r] = x =>
                      stage[r] \in {"delete", "mint"} /\ via[r] = x
               /\ x \notin expired /\ stage'[r] = "check" /\ via'[r] = x =>
                      stage[r] = "check" /\ via[r] = x
    PROVE  ~Live(x)'
  BY DEF Live

LEMMA DeadStep ==
    ASSUME TypeOK, [Next]_vars, NEW x \in Grants, issuedTo[x] # None, ~Live(x)
    PROVE  ~Live(x)' /\ pairs'[x] = pairs[x]
<1> USE DEF Stages
<1>0. x # None
  BY SessionsAssumption DEF Grants
<1>1. ASSUME NEW r \in Requests, NEW u \in Users, SignIn(r, u) \/ Authorize(r, u)
      PROVE  ~Live(x)' /\ pairs'[x] = pairs[x]
  <2>1. /\ UNCHANGED <<oauthCodes, refreshTokens, expired, via, pairs>>
        /\ \E next \in {"mint", "issueCode"} : stage' = [stage EXCEPT ![r] = next]
        /\ via[r] = None
    BY <1>1 DEF SignIn, Authorize, Upsert, TypeOK, historyVars
  <2>2. \A q \in Requests : via'[q] = x => stage'[q] = stage[q]
    BY <1>0, <2>1 DEF TypeOK
  <2> QED
    BY <2>1, <2>2, DeadFrame DEF Redeemable, Found
<1>2. ASSUME NEW r \in Requests, Return(r)
      PROVE  \A q \in Requests :
                 stage'[q] # "idle" => stage'[q] = stage[q] /\ via'[q] = via[q]
  BY <1>2 DEF Return, TypeOK
<1>3. ASSUME NEW r \in Requests, NEW c \in Codes, IssueCode(r, c)
      PROVE  ~Live(x)' /\ pairs'[x] = pairs[x]
  <2>1. c # x /\ Return(r) /\ UNCHANGED <<refreshTokens, expired, pairs>>
    BY <1>3 DEF IssueCode
  <2>2. Redeemable(x)' \subseteq Redeemable(x)
    BY <1>3, <2>1 DEF IssueCode, Redeemable
  <2> QED
    BY <1>2, <2>1, <2>2, DeadFrame DEF Found
<1>4. ASSUME NEW r \in Requests, NEW g \in Grants,
             x \notin expired => g # x,
             stage' = [stage EXCEPT ![r] = "check"],
             via' = [via EXCEPT ![r] = g]
      PROVE  \A q \in Requests :
                 /\ stage'[q] # "check" => stage'[q] = stage[q] /\ via'[q] = via[q]
                 /\ stage'[q] = "check" /\ via'[q] = x /\ x \notin expired =>
                        stage[q] = "check" /\ via[q] = x
  BY <1>4 DEF TypeOK
<1>5. ASSUME NEW r \in Requests, NEW c \in Codes, ConsumeCode(r, c)
      PROVE  ~Live(x)' /\ pairs'[x] = pairs[x]
  <2>1. PICK d \in Redeemable(c) :
            oauthCodes' = (oauthCodes \ {d}) \cup {[d EXCEPT !.used = TRUE]}
    BY <1>5 DEF ConsumeCode
  <2>2. c \in Grants /\ (x \notin expired => c # x)
    BY <2>1 DEF Live, Grants
  <2>3. [d EXCEPT !.used = TRUE].used
    BY DEF Redeemable, TypeOK, CodeDocs
  <2>4. Redeemable(x)' \subseteq Redeemable(x)
    BY <2>1, <2>3 DEF Redeemable
  <2>5. /\ UNCHANGED <<refreshTokens, expired, pairs>>
        /\ stage' = [stage EXCEPT ![r] = "check"]
        /\ via' = [via EXCEPT ![r] = c]
    BY <1>5 DEF ConsumeCode, historyVars
  <2> QED
    BY <1>4, <2>2, <2>4, <2>5, DeadFrame DEF Found
<1>6. ASSUME NEW r \in Requests, NEW t \in Refreshes, FindRefresh(r, t)
      PROVE  ~Live(x)' /\ pairs'[x] = pairs[x]
  <2>1. t \in Grants /\ (x \notin expired => t # x)
    BY <1>6 DEF FindRefresh, Live, Grants
  <2>2. /\ UNCHANGED <<oauthCodes, refreshTokens, expired, pairs>>
        /\ stage' = [stage EXCEPT ![r] = "check"]
        /\ via' = [via EXCEPT ![r] = t]
    BY <1>6 DEF FindRefresh, dbVars, historyVars
  <2> QED
    BY <1>4, <2>1, <2>2, DeadFrame DEF Found, Redeemable
<1>7. ASSUME NEW r \in Requests, NEW t \in Refreshes, Mint(r, t)
      PROVE  ~Live(x)' /\ pairs'[x] = pairs[x]
  <2>1. t # x /\ via[r] # x /\ Return(r) /\ UNCHANGED <<oauthCodes, expired>>
    BY <1>7 DEF Mint, Live
  <2>2. Found(x)' \subseteq Found(x)
    BY <1>7, <2>1 DEF Mint, Found
  <2>3. pairs'[x] = pairs[x]
    BY <1>7, <2>1 DEF Mint
  <2> QED
    BY <1>2, <2>1, <2>2, <2>3, DeadFrame DEF Redeemable
<1>8. ASSUME NEW r \in Requests, Handle(r)
      PROVE  ~Live(x)' /\ pairs'[x] = pairs[x]
  <2>1. CASE RefuseExpired(r) \/ Abort(r)
    <3>1. Return(r) /\ UNCHANGED <<oauthCodes, refreshTokens, expired, pairs>>
      BY <2>1 DEF RefuseExpired, Abort, dbVars, historyVars
    <3> QED
      BY <1>2, <3>1, DeadFrame DEF Found, Redeemable
  <2>2. CASE PassCheck(r)
    <3>1. via[r] # x
      BY <2>2 DEF PassCheck, PastExpiry, Live
    <3>2. UNCHANGED <<oauthCodes, refreshTokens, expired, via, pairs>>
      BY <2>2 DEF PassCheck, dbVars, historyVars
    <3>3. \A q \in Requests : via'[q] = x => stage'[q] = stage[q]
      BY <2>2, <3>1, <3>2 DEF PassCheck, TypeOK
    <3> QED
      BY <3>2, <3>3, DeadFrame DEF Found, Redeemable
  <2>3. CASE DeleteRefresh(r)
    <3>1. via[r] # x
      BY <2>3 DEF DeleteRefresh, Live
    <3>2. /\ UNCHANGED <<oauthCodes, expired, via, pairs>>
          /\ refreshTokens' \subseteq refreshTokens
      BY <2>3 DEF DeleteRefresh, historyVars
    <3>3. \A q \in Requests : via'[q] = x => stage'[q] = stage[q]
      BY <2>3, <3>1, <3>2 DEF DeleteRefresh, TypeOK
    <3> QED
      BY <3>2, <3>3, DeadFrame DEF Found, Redeemable
  <2> QED
    BY <1>8, <2>1, <2>2, <2>3 DEF Handle
<1>9. ASSUME NEW y \in Grants, PassExpiry(y) \/ TtlSweep(y)
      PROVE  ~Live(x)' /\ pairs'[x] = pairs[x]
  <2>1. /\ oauthCodes' \subseteq oauthCodes
        /\ refreshTokens' \subseteq refreshTokens
        /\ expired \subseteq expired'
        /\ UNCHANGED <<stage, via, pairs>>
    BY <1>9 DEF PassExpiry, TtlSweep, requestVars, historyVars
  <2> QED
    BY <2>1, DeadFrame DEF Found, Redeemable
<1>10. CASE UNCHANGED vars
  BY <1>10, DeadFrame DEF vars, dbVars, requestVars, historyVars, Found, Redeemable
<1> QED
  BY <1>1, <1>3, <1>5, <1>6, <1>7, <1>8, <1>9, <1>10 DEF Next

\* A used, rotated or expired grant that no request carries past the check
\* never yields another pair.
THEOREM DeadGrantsStayDead == Spec => DeadGrantStaysDead
<1>1. TypeOK /\ [Next]_vars =>
          [\A x \in Grants :
               issuedTo[x] # None /\ ~Live(x) => ~Live(x)' /\ pairs'[x] = pairs[x]]_vars
  BY DeadStep
<1> QED
  BY <1>1, Typing, PTL DEF Spec, DeadGrantStaysDead

===============================================================================
