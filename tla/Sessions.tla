------------------------------- MODULE Sessions -------------------------------
(***************************************************************************)
(* Signing in, account linking and refresh: how a Google account gets and  *)
(* keeps a session.                                                        *)
(*                                                                         *)
(* A sign-in through the app ends with a token pair; Google's account      *)
(* linking gets an authorization code and exchanges it for a pair; a       *)
(* refresh token is exchanged for a new pair, by the consumer endpoint or  *)
(* by the OAuth endpoint, whose code is the same and whose collection is   *)
(* shared.  Each request makes two or three database calls, and between    *)
(* two of them every other request, the clock and the TTL monitor may run. *)
(*                                                                         *)
(* An access token is a signed JWT that nothing stores, so a pair is its   *)
(* refresh token.  A user is its Google account: google_sub is unique and  *)
(* upserted in one step.  A code or refresh token is a grant.              *)
(***************************************************************************)
EXTENDS Naturals

CONSTANTS
    Users,     \* Google accounts
    Codes,     \* authorization codes
    Refreshes, \* refresh tokens
    Requests,  \* requests at work at a time
    None       \* no user, no grant

ASSUME SessionsAssumption ==
    /\ Codes \cap Refreshes = {}
    /\ None \notin Users /\ None \notin Codes /\ None \notin Refreshes

Grants == Codes \cup Refreshes

CodeDocs    == [code : Codes, user : Users, used : BOOLEAN]
RefreshDocs == [token : Refreshes, user : Users]

\* The database call a request makes next: insert a code, check the document
\* that came back and go on, delete the refresh token, insert a new one.
Stages == {"idle", "issueCode", "check", "delete", "mint"}

VARIABLES
    users,          \* collection users
    oauthCodes,     \* collection oauth_codes
    refreshTokens,  \* collection refresh_tokens
    expired,        \* grants whose expires_at has passed
    stage,          \* where each request stands
    userId,         \* the user it works for
    via,            \* the grant it presents, None for a sign-in
    issuedTo,       \* history: the user each grant was issued to
    source,         \* history: the grant each refresh token was had for
    pairs           \* history: pairs had for each grant

dbVars      == <<users, oauthCodes, refreshTokens, expired>>
requestVars == <<stage, userId, via>>
historyVars == <<issuedTo, source, pairs>>
vars        == <<dbVars, requestVars, historyVars>>

\* Plausible slip of the consuming filter.
CodesOf(c) == {d \in oauthCodes : d.code = c}

\* {"code": code, "used": False}
Redeemable(c) == {d \in oauthCodes : d.code = c /\ ~d.used}

\* {"token": refresh_token}
Found(t) == {d \in refreshTokens : d.token = t}

\* Plausible slip: expiry is left to the TTL index.
NeverExpired(x) == FALSE

\* expires_at < now
PastExpiry(x) == x \in expired

-----------------------------------------------------------------------------

Init ==
    /\ users = {}
    /\ oauthCodes = {}
    /\ refreshTokens = {}
    /\ expired = {}
    /\ stage = [r \in Requests |-> "idle"]
    /\ userId = [r \in Requests |-> None]
    /\ via = [r \in Requests |-> None]
    /\ issuedTo = [x \in Grants |-> None]
    /\ source = [t \in Refreshes |-> None]
    /\ pairs = [x \in Grants |-> 0]

\* The request is answered, or cut short: its locals are gone.
Return(r) ==
    /\ stage' = [stage EXCEPT ![r] = "idle"]
    /\ userId' = [userId EXCEPT ![r] = None]
    /\ via' = [via EXCEPT ![r] = None]

(***************************************************************************)
(* Google sign-in and authorization                                        *)
(***************************************************************************)

\* Google vouched for u: upsert_by_google_sub, then next.  An upsert that a
\* unique index refuses ends the request with nothing changed.
Upsert(r, u, next) ==
    /\ stage[r] = "idle"
    /\ users' = users \cup {u}
    /\ stage' = [stage EXCEPT ![r] = next]
    /\ userId' = [userId EXCEPT ![r] = u]
    /\ UNCHANGED <<oauthCodes, refreshTokens, expired, via, historyVars>>

\* POST /auth/google
SignIn(r, u) == Upsert(r, u, "mint")

\* GET /oauth/authorize
Authorize(r, u) == Upsert(r, u, "issueCode")

\* secrets.token_urlsafe never repeats a code.
IssueCode(r, c) ==
    /\ stage[r] = "issueCode"
    /\ issuedTo[c] = None
    /\ oauthCodes' = oauthCodes \cup {[code |-> c, user |-> userId[r], used |-> FALSE]}
    /\ issuedTo' = [issuedTo EXCEPT ![c] = userId[r]]
    /\ Return(r)
    /\ UNCHANGED <<users, refreshTokens, expired, source, pairs>>

(***************************************************************************)
(* Exchanging a grant                                                      *)
(***************************************************************************)

\* find_one_and_update sets used and returns the document, atomically.  If it
\* matches nothing the request is answered with an error and changes nothing.
ConsumeCode(r, c) ==
    /\ stage[r] = "idle"
    /\ \E d \in Redeemable(c) :
           /\ oauthCodes' = (oauthCodes \ {d}) \cup {[d EXCEPT !.used = TRUE]}
           /\ userId' = [userId EXCEPT ![r] = d.user]
    /\ stage' = [stage EXCEPT ![r] = "check"]
    /\ via' = [via EXCEPT ![r] = c]
    /\ UNCHANGED <<users, refreshTokens, expired, historyVars>>

\* find_one returns the document and leaves it there.
FindRefresh(r, t) ==
    /\ stage[r] = "idle"
    /\ \E d \in Found(t) : userId' = [userId EXCEPT ![r] = d.user]
    /\ stage' = [stage EXCEPT ![r] = "check"]
    /\ via' = [via EXCEPT ![r] = t]
    /\ UNCHANGED <<dbVars, historyVars>>

\* The grant is past its expiry; a code stays used, a token stays.
RefuseExpired(r) ==
    /\ stage[r] = "check"
    /\ PastExpiry(via[r])
    /\ Return(r)
    /\ UNCHANGED <<dbVars, historyVars>>

\* Plausible slip: the OAuth handler treats a code like a refresh token.
PassCheckToDelete(r) ==
    /\ stage[r] = "check"
    /\ ~PastExpiry(via[r])
    /\ stage' = [stage EXCEPT ![r] = "delete"]
    /\ UNCHANGED <<dbVars, userId, via, historyVars>>

\* A code is used by now, a refresh token must be deleted first.
PassCheck(r) ==
    /\ stage[r] = "check"
    /\ ~PastExpiry(via[r])
    /\ stage' = [stage EXCEPT
                   ![r] = IF via[r] \in Codes THEN "mint" ELSE "delete"]
    /\ UNCHANGED <<dbVars, userId, via, historyVars>>

\* delete_one; nothing looks at its result, so it may delete nothing.
DeleteRefresh(r) ==
    /\ stage[r] = "delete"
    /\ refreshTokens' = refreshTokens \ Found(via[r])
    /\ stage' = [stage EXCEPT ![r] = "mint"]
    /\ UNCHANGED <<users, oauthCodes, expired, userId, via, historyVars>>

\* Plausible slip: the pair is for whoever signed in last.
MintForAnyone(r, t) ==
    /\ stage[r] = "mint"
    /\ issuedTo[t] = None
    /\ \E u \in users :
           /\ refreshTokens' = refreshTokens \cup {[token |-> t, user |-> u]}
           /\ issuedTo' = [issuedTo EXCEPT ![t] = u]
    /\ source' = [source EXCEPT ![t] = via[r]]
    /\ pairs' = [x \in Grants |-> IF x = via[r] THEN pairs[x] + 1 ELSE pairs[x]]
    /\ Return(r)
    /\ UNCHANGED <<users, oauthCodes, expired>>

\* _mint_token_pair: the new refresh token is stored and the request answered.
Mint(r, t) ==
    /\ stage[r] = "mint"
    /\ issuedTo[t] = None
    /\ refreshTokens' = refreshTokens \cup {[token |-> t, user |-> userId[r]]}
    /\ issuedTo' = [issuedTo EXCEPT ![t] = userId[r]]
    /\ source' = [source EXCEPT ![t] = via[r]]
    /\ pairs' = [x \in Grants |-> IF x = via[r] THEN pairs[x] + 1 ELSE pairs[x]]
    /\ Return(r)
    /\ UNCHANGED <<users, oauthCodes, expired>>

\* A database error or a crash ends the request between two calls.
Abort(r) ==
    /\ stage[r] # "idle"
    /\ Return(r)
    /\ UNCHANGED <<dbVars, historyVars>>

(***************************************************************************)
(* The clock and the TTL monitor                                           *)
(***************************************************************************)

PassExpiry(x) ==
    /\ issuedTo[x] # None
    /\ x \notin expired
    /\ expired' = expired \cup {x}
    /\ UNCHANGED <<users, oauthCodes, refreshTokens, requestVars, historyVars>>

TtlSweep(x) ==
    /\ x \in expired
    /\ oauthCodes' = {d \in oauthCodes : d.code # x}
    /\ refreshTokens' = {d \in refreshTokens : d.token # x}
    /\ UNCHANGED <<users, expired, requestVars, historyVars>>

-----------------------------------------------------------------------------

Handle(r) ==
    \/ RefuseExpired(r)
    \/ PassCheck(r)
    \/ DeleteRefresh(r)
    \/ Abort(r)

Next ==
    \/ \E r \in Requests, u \in Users : SignIn(r, u) \/ Authorize(r, u)
    \/ \E r \in Requests, c \in Codes : IssueCode(r, c) \/ ConsumeCode(r, c)
    \/ \E r \in Requests, t \in Refreshes : FindRefresh(r, t) \/ Mint(r, t)
    \/ \E r \in Requests : Handle(r)
    \/ \E x \in Grants : PassExpiry(x) \/ TtlSweep(x)

Spec == Init /\ [][Next]_vars

(***************************************************************************)
(* Properties                                                              *)
(***************************************************************************)

TypeOK ==
    /\ users \subseteq Users
    /\ oauthCodes \subseteq CodeDocs
    /\ refreshTokens \subseteq RefreshDocs
    /\ expired \subseteq Grants
    /\ stage \in [Requests -> Stages]
    /\ userId \in [Requests -> Users \cup {None}]
    /\ via \in [Requests -> Grants \cup {None}]
    /\ issuedTo \in [Grants -> Users \cup {None}]
    /\ source \in [Refreshes -> Grants \cup {None}]
    /\ pairs \in [Grants -> Nat]
    /\ \A r \in Requests :
           /\ stage[r] # "idle" => userId[r] \in Users
           /\ stage[r] \in {"idle", "issueCode"} => via[r] = None
           /\ stage[r] = "check" => via[r] \in Grants
           /\ stage[r] = "delete" => via[r] \in Refreshes

\* An authorization code is good for one pair, however many requests present
\* it at once and whenever they fail.
OnePairPerCode == \A c \in Codes : pairs[c] <= 1

\* The same of a refresh token, which is what rotating it means.
OnePairPerRefreshToken == \A t \in Refreshes : pairs[t] <= 1

\* A request that holds a code has it alone and for the user it was issued to:
\* nobody else can redeem it, and nothing was had for it yet.
HeldCodeIsReserved ==
    \A r \in Requests, c \in Codes : via[r] = c =>
        /\ userId[r] = issuedTo[c]
        /\ Redeemable(c) = {}
        /\ pairs[c] = 0
        /\ \A q \in Requests : via[q] = c => q = r

\* An unused code has paid for nothing, and no code has two documents.
CodeDocsAreSound ==
    \A d \in oauthCodes :
        /\ issuedTo[d.code] = d.user
        /\ \A e \in oauthCodes : e.code = d.code => e = d
        /\ ~d.used => pairs[d.code] = 0

\* The inductive strengthening of OnePairPerCode.
CodeInv ==
    /\ HeldCodeIsReserved
    /\ CodeDocsAreSound
    /\ \A c \in Codes : issuedTo[c] = None => pairs[c] = 0
    /\ OnePairPerCode

\* A session stays with the account it began with: along any chain of codes
\* and refresh tokens, through any mixture of the two endpoints, each pair is
\* for the user of the grant it was had for, and so is every request under way.
SessionStaysWithUser ==
    /\ \A t \in Refreshes :
           source[t] \in Grants => /\ issuedTo[t] # None
                                  /\ issuedTo[t] = issuedTo[source[t]]
    /\ \A d \in refreshTokens : issuedTo[d.token] = d.user
    /\ \A r \in Requests : via[r] \in Grants => userId[r] = issuedTo[via[r]]

\* Some request may still get a pair for x.
Live(x) ==
    \/ /\ x \notin expired
       /\ \/ x \in Codes /\ Redeemable(x) # {}
          \/ x \in Refreshes /\ Found(x) # {}
          \/ \E r \in Requests : stage[r] = "check" /\ via[r] = x
    \/ \E r \in Requests : stage[r] \in {"delete", "mint"} /\ via[r] = x

\* A grant that is used, rotated or past its expiry, with no request that got
\* through before, is dead for good: nothing brings it back, and no pair is
\* had for it any more.
DeadGrantStaysDead ==
    [][\A x \in Grants :
           issuedTo[x] # None /\ ~Live(x) => ~Live(x)' /\ pairs'[x] = pairs[x]]_vars

===============================================================================
