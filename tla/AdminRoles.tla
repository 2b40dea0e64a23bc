----------------------------- MODULE AdminRoles -----------------------------
(***************************************************************************)
(* Who may administer (app/core/security.py, app/api/routers/              *)
(* admin_roles.py, app/repositories/admin_user_repository.py).             *)
(*                                                                         *)
(* A request to an admin route has its Google token verified, is then      *)
(* authorized, against the SUPER_ADMIN_EMAIL setting or the admin_users    *)
(* collection, and then acts.  Each is a step of its own, and what was     *)
(* true at one of them may no longer be at the next.                       *)
(*                                                                         *)
(* Emails arrive in any spelling and are lowered and stripped at every     *)
(* door: Canon is the spelling that results.                               *)
(***************************************************************************)
CONSTANTS
    Emails,         \* email addresses as people spell them
    Canon,          \* spelling -> the lowered and stripped one
    AdminRequests,  \* requests that may be under way
    None

Roles == {"super_admin", "admin"}

ASSUME NoEmailAssumption == None \notin Emails \cup Roles
ASSUME CanonAssumption ==
    /\ Canon \in [Emails -> Emails]
    /\ \A e \in Emails : Canon[Canon[e]] = Canon[e]

VARIABLES
    adminUsers,     \* the documents of admin_users
    superAdmin,     \* the SUPER_ADMIN_EMAIL setting, or None
    requests,       \* request -> its progress
    entitled,       \* history: request -> its sender had access since it came
    supers          \* history: everyone the setting has named

rolesVars == <<adminUsers, superAdmin, requests, entitled, supers>>

Grant == [email : Emails, role : Roles, grantedBy : Emails]

NoRequest == [stage |-> "idle", subject |-> None, role |-> None]

RolesTypeOK ==
    /\ adminUsers \subseteq Grant
    /\ superAdmin \in Emails \cup {None}
    /\ requests \in [AdminRequests ->
          [stage : {"verified"}, subject : Emails, role : {None}]
          \cup [stage : {"authorized"}, subject : Emails, role : Roles]
          \cup {NoRequest}]
    /\ entitled \in [AdminRequests -> BOOLEAN]
    /\ supers \subseteq Emails

IsSuper(e) == superAdmin # None /\ e = Canon[superAdmin]

IsGranted(e) == \E d \in adminUsers : d.email = e

HasAccess(e) == IsSuper(e) \/ IsGranted(e)

\* The setting is read once, when the process starts.
Configured(setting) == IF setting = None THEN {} ELSE {Canon[setting]}

RolesInit ==
    /\ adminUsers = {}
    /\ superAdmin \in Emails \cup {None}
    /\ requests = [q \in AdminRequests |-> NoRequest]
    /\ entitled = [q \in AdminRequests |-> FALSE]
    /\ supers = Configured(superAdmin)

\* admin_auth: the token is verified in a thread and names an email.
Verify(q, e) ==
    /\ requests[q] = NoRequest
    /\ requests' = [requests EXCEPT ![q] =
          [stage |-> "verified", subject |-> Canon[e], role |-> None]]
    /\ entitled' = [entitled EXCEPT ![q] = HasAccess(Canon[e])]
    /\ UNCHANGED <<adminUsers, superAdmin, supers>>

\* The request is over, whatever it was answered.
Done(q) ==
    /\ requests' = [requests EXCEPT ![q] = NoRequest]
    /\ entitled' = [entitled EXCEPT ![q] = FALSE]

\* Plausible slip: whoever is not refused by the setting is an admin.
AuthorizeByDefault(q) ==
    /\ requests[q].stage = "verified"
    /\ requests' = [requests EXCEPT ![q].stage = "authorized",
          ![q].role = IF IsSuper(requests[q].subject) THEN "super_admin" ELSE "admin"]
    /\ UNCHANGED <<adminUsers, superAdmin, entitled, supers>>

\* Plausible slip: the role of the document is not passed on.
AuthorizeWithoutRole(q) ==
    /\ requests[q].stage = "verified"
    /\ HasAccess(requests[q].subject)
    /\ requests' = [requests EXCEPT ![q].stage = "authorized",
          ![q].role = IF IsSuper(requests[q].subject) THEN "super_admin" ELSE None]
    /\ UNCHANGED <<adminUsers, superAdmin, entitled, supers>>

\* admin_auth: the setting makes a super admin, a document gives the role it
\* holds, anyone else is told 403.
Authorize(q) ==
    LET e == requests[q].subject
        As(role) == /\ requests' = [requests EXCEPT ![q].stage = "authorized",
                                                    ![q].role = role]
                    /\ UNCHANGED entitled
    IN
    /\ requests[q].stage = "verified"
    /\ \/ IsSuper(e) /\ As("super_admin")
       \/ /\ ~IsSuper(e)
          /\ \E d \in adminUsers : d.email = e /\ As(d.role)
       \/ ~HasAccess(e) /\ Done(q)
    /\ UNCHANGED <<adminUsers, superAdmin, supers>>

\* What a change of admin_users means for the history of requests not yet
\* authorized, q's own being over.
Recorded(q) ==
    entitled' = [p \in AdminRequests |->
        /\ p # q
        /\ entitled[p] \/ (requests[p].stage = "verified"
                             /\ \E d \in adminUsers' : d.email = requests[p].subject)]

\* _require_super_admin
IsSuperRequest(q) == requests[q].stage = "authorized" /\ requests[q].role = "super_admin"

\* Plausible slip: the email is stored as it was spelled.
GrantAsSpelled(q, e) ==
    /\ IsSuperRequest(q)
    /\ ~IsGranted(e)
    /\ adminUsers' = adminUsers \cup
          {[email |-> e, role |-> "admin", grantedBy |-> requests[q].subject]}
    /\ requests' = [requests EXCEPT ![q] = NoRequest]
    /\ Recorded(q)
    /\ UNCHANGED <<superAdmin, supers>>

\* Plausible slip: the grant carries the role of the one who makes it.
GrantOwnRole(q, e) ==
    /\ IsSuperRequest(q)
    /\ ~IsGranted(Canon[e])
    /\ adminUsers' = adminUsers \cup
          {[email |-> Canon[e], role |-> requests[q].role, grantedBy |-> requests[q].subject]}
    /\ requests' = [requests EXCEPT ![q] = NoRequest]
    /\ Recorded(q)
    /\ UNCHANGED <<superAdmin, supers>>

\* POST /admin/roles: the unique index refuses an email already granted.
GrantAdmin(q, e) ==
    /\ IsSuperRequest(q)
    /\ ~IsGranted(Canon[e])
    /\ adminUsers' = adminUsers \cup
          {[email |-> Canon[e], role |-> "admin", grantedBy |-> requests[q].subject]}
    /\ requests' = [requests EXCEPT ![q] = NoRequest]
    /\ Recorded(q)
    /\ UNCHANGED <<superAdmin, supers>>

\* DELETE /admin/roles/{email}: not for the super admin's own email.
RevokeAdmin(q, e) ==
    /\ IsSuperRequest(q)
    /\ Canon[e] # requests[q].subject
    /\ adminUsers' = {d \in adminUsers : d.email # Canon[e]}
    /\ requests' = [requests EXCEPT ![q] = NoRequest]
    /\ Recorded(q)
    /\ UNCHANGED <<superAdmin, supers>>

\* Any other admin route, a list, a refusal or a failure: access is not changed.
Serve(q) ==
    /\ requests[q].stage = "authorized"
    /\ Done(q)
    /\ UNCHANGED <<adminUsers, superAdmin, supers>>

\* The process is started again, perhaps with another setting.
Reconfigure ==
    /\ \E setting \in Emails \cup {None} :
          /\ superAdmin' = setting
          /\ supers' = supers \cup Configured(setting)
    /\ requests' = [q \in AdminRequests |-> NoRequest]
    /\ entitled' = [q \in AdminRequests |-> FALSE]
    /\ UNCHANGED adminUsers

RolesStep ==
    \E q \in AdminRequests :
        \/ Authorize(q) \/ Serve(q)
        \/ \E e \in Emails : Verify(q, e) \/ GrantAdmin(q, e) \/ RevokeAdmin(q, e)

RolesNext == RolesStep \/ Reconfigure

RolesSpec == RolesInit /\ [][RolesNext]_rolesVars

-----------------------------------------------------------------------------

(***************************************************************************)
(* A person has at most one grant, however their email was spelled, and    *)
(* revoking it under any spelling finds it.                                *)
(***************************************************************************)
OneGrantPerPerson ==
    \A d1, d2 \in adminUsers :
        Canon[d1.email] = Canon[d2.email] => d1 = d2 /\ d1.email = Canon[d1.email]

(***************************************************************************)
(* Only the setting makes a super admin: no chain of grants and revokes    *)
(* ends with a request that acts as one for anybody else.                  *)
(***************************************************************************)
OnlySettingMakesSuper ==
    \A q \in AdminRequests :
        requests[q].role = "super_admin" => IsSuper(requests[q].subject)

(***************************************************************************)
(* Every grant was made by somebody who was the super admin at the time.   *)
(***************************************************************************)
GrantsComeFromSupers == \A d \in adminUsers : d.grantedBy \in supers

(***************************************************************************)
(* A request acts only for somebody who had access at some moment since it *)
(* came; access revoked after it was authorized does not stop it.          *)
(***************************************************************************)
ActsOnlyWithAccess ==
    \A q \in AdminRequests : requests[q].stage = "authorized" => entitled[q]

=============================================================================
