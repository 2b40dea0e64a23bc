------------------------------ MODULE Releases ------------------------------
(***************************************************************************)
(* The administrators' side of firmware updates: releases, the firmware    *)
(* files uploaded for them, and the per-device overrides (app/services/    *)
(* admin_service.py, app/api/routers/admin.py and their repositories).     *)
(*                                                                         *)
(* An upload of a firmware file takes three database steps: it finds its   *)
(* release, stores the bytes in GridFS and then points the release to      *)
(* them.  Every other operation is a single update.  Any number of uploads *)
(* may be under way, for one release as for several, and an upload that    *)
(* stops between two steps is one whose next step is never taken.          *)
(* Releases are for one device type, the only one that checks for updates. *)
(***************************************************************************)
EXTENDS Integers

CONSTANTS
    Versions,       \* version strings a release may carry
    Reported,       \* version strings a device may report as the one it runs
    Rank,           \* semver precedence; versions that differ only in build
                    \* metadata have the same rank
    Uploads,        \* upload requests, each with the file it sends; the file
                    \* stands for its contents and for their SHA-256
    Percentages,    \* rollout percentages administrators set
    Macs,           \* MAC addresses of devices
    None

ASSUME RankAssumption == Rank \in [Versions \cup Reported -> Nat]
ASSUME PercentagesAssumption == Percentages \subseteq 0..100
VARIABLES
    releases,       \* version -> its document, or None
    uploads,        \* upload -> how far it is and which release it is for
    overrides       \* device -> the version it is pinned to, or None

releaseVars == <<releases, uploads, overrides>>

Release == [enabled : BOOLEAN, percentage : Percentages,
            file : Uploads \cup {None}, sha256 : Uploads \cup {None}]

ASSUME NoneAssumption == None \notin Versions \cup Reported \cup Uploads \cup Release

Upload == [stage : {"found", "stored", "linked"}, version : Versions]

NotStarted == [stage |-> "not started", version |-> None]

ReleaseTypeOK ==
    /\ releases \in [Versions -> Release \cup {None}]
    /\ uploads \in [Uploads -> Upload \cup {NotStarted}]
    /\ overrides \in [Macs -> Versions \cup {None}]

Exists(v) == releases[v] # None

HasFile(v) == Exists(v) /\ releases[v].file # None

\* is_greater: one version strictly precedes the other.
Greater(v, w) == Rank[v] > Rank[w]

\* Plausible slip: the newest release, whether it is enabled or not.
Latest ==
    {v \in Versions : Exists(v) /\ \A w \in Versions : Exists(w) => ~Greater(w, v)}

\* get_active_latest: the enabled releases no other enabled one is above.  The
\* sort is stable and the cursor unordered, so any of them may come first.
ActiveLatest ==
    LET enabled == {v \in Versions : Exists(v) /\ releases[v].enabled}
    IN  {v \in enabled : \A w \in enabled : ~Greater(w, v)}

ReleaseInit ==
    /\ releases = [v \in Versions |-> None]
    /\ uploads = [u \in Uploads |-> NotStarted]
    /\ overrides = [m \in Macs |-> None]

\* Plausible slip: without the unique index a version is released over itself.
CreateReleaseAgain(v) ==
    /\ \E enabled \in BOOLEAN, p \in Percentages :
          releases' = [releases EXCEPT ![v] =
             [enabled |-> enabled, percentage |-> p, file |-> None, sha256 |-> None]]
    /\ UNCHANGED <<uploads, overrides>>

\* POST /admin/releases: the unique index refuses a second release of a version.
CreateRelease(v) ==
    /\ ~Exists(v)
    /\ \E enabled \in BOOLEAN, p \in Percentages :
          releases' = [releases EXCEPT ![v] =
             [enabled |-> enabled, percentage |-> p, file |-> None, sha256 |-> None]]
    /\ UNCHANGED <<uploads, overrides>>

\* POST /admin/releases/{id}/firmware: the release is looked up,
FindRelease(u, v) ==
    /\ uploads[u] = NotStarted
    /\ Exists(v)
    /\ uploads' = [uploads EXCEPT ![u] = [stage |-> "found", version |-> v]]
    /\ UNCHANGED <<releases, overrides>>

\* the bytes are written to GridFS under a new file id,
StoreFile(u) ==
    /\ uploads[u].stage = "found"
    /\ uploads' = [uploads EXCEPT ![u].stage = "stored"]
    /\ UNCHANGED <<releases, overrides>>

\* Plausible slip: the file id is written by an update of its own.
LinkFileOnly(u) ==
    /\ uploads[u].stage = "stored"
    /\ uploads' = [uploads EXCEPT ![u].stage = "linked"]
    /\ releases' = [releases EXCEPT ![uploads[u].version].file = u]
    /\ UNCHANGED overrides

\* Plausible slip: the update is sent again after it was applied.
LinkFileTwice(u) ==
    /\ uploads[u].stage \in {"stored", "linked"}
    /\ uploads' = [uploads EXCEPT ![u].stage = "linked"]
    /\ releases' = [releases EXCEPT ![uploads[u].version].file = u,
                                    ![uploads[u].version].sha256 = u]
    /\ UNCHANGED overrides

\* and one update writes the file id and the hash into the release.
LinkFile(u) ==
    /\ uploads[u].stage = "stored"
    /\ uploads' = [uploads EXCEPT ![u].stage = "linked"]
    /\ releases' = [releases EXCEPT ![uploads[u].version].file = u,
                                    ![uploads[u].version].sha256 = u]
    /\ UNCHANGED overrides

\* PATCH /admin/releases/{id}/enabled
SetEnabled(v) ==
    /\ Exists(v)
    /\ \E enabled \in BOOLEAN : releases' = [releases EXCEPT ![v].enabled = enabled]
    /\ UNCHANGED <<uploads, overrides>>

\* PATCH /admin/releases/{id}/rollout
SetRollout(v) ==
    /\ Exists(v)
    /\ \E p \in Percentages : releases' = [releases EXCEPT ![v].percentage = p]
    /\ UNCHANGED <<uploads, overrides>>

\* PUT /admin/overrides/{device_type}/{mac}: any version may be pinned, whether
\* it has been released or not.
UpsertOverride(m, v) ==
    /\ overrides' = [overrides EXCEPT ![m] = v]
    /\ UNCHANGED <<releases, uploads>>

\* DELETE /admin/overrides/{device_type}/{mac}
DeleteOverride(m) ==
    /\ overrides[m] # None
    /\ overrides' = [overrides EXCEPT ![m] = None]
    /\ UNCHANGED <<releases, uploads>>

Administer ==
    \/ \E v \in Versions : CreateRelease(v) \/ SetEnabled(v) \/ SetRollout(v)
    \/ \E u \in Uploads : StoreFile(u) \/ LinkFile(u)
    \/ \E u \in Uploads, v \in Versions : FindRelease(u, v)
    \/ \E m \in Macs, v \in Versions : UpsertOverride(m, v)
    \/ \E m \in Macs : DeleteOverride(m)

ReleaseSpec == ReleaseInit /\ [][Administer]_releaseVars

-----------------------------------------------------------------------------

\* A file a release once pointed to and points to no more.
Superseded(u) ==
    /\ uploads[u].stage = "linked"
    /\ releases[uploads[u].version].file # u

(***************************************************************************)
(* However uploads interleave, a release's file id and hash are of one     *)
(* upload, whose bytes are stored and which was made for that release.     *)
(***************************************************************************)
ReleaseIsWhole ==
    \A v \in Versions : Exists(v) =>
        LET r == releases[v] IN
        /\ r.file = r.sha256
        /\ r.file # None => uploads[r.file] = [stage |-> "linked", version |-> v]

(***************************************************************************)
(* Firmware that a newer upload has replaced never comes back: an upload   *)
(* points its release to its file once, however late that is.              *)
(***************************************************************************)
SupersededStaysGone ==
    [][\A u \in Uploads : Superseded(u) => Superseded(u)']_releaseVars

=============================================================================
