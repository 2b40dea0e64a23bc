--------------------------------- MODULE Ota ---------------------------------
(***************************************************************************)
(* Devices checking for firmware and downloading it, while administrators  *)
(* change what there is to be had (app/services/check_service.py, app/api/ *)
(* routers/smart_switch.py).                                               *)
(*                                                                         *)
(* A check is a chain of awaited database calls, and what it read at one   *)
(* of them may have changed by the next.  Its stage names the call it does *)
(* next: "touch" and "find" (upsert_last_seen), "override", "pinned",      *)
(* "latest", then "result" and "log" (_finalize).  Any call may fail: the  *)
(* route then answers "no update" through the same _finalize, and if that  *)
(* fails too, with an error.  The device downloads by version, later.      *)
(***************************************************************************)
EXTENDS Releases, Sequences

CONSTANTS
    Requests,       \* requests devices may have under way
    Bucket          \* device -> its rollout bucket, a hash of its MAC

ASSUME BucketAssumption == Bucket \in [Macs -> 0..99]

VARIABLES
    devices,        \* device -> "unseen" (no document), "seen" or "blocked"
    checks,         \* request -> the check it is doing, or has done
    since           \* history: request -> what held since its check began

otaVars == <<releases, uploads, overrides, devices, checks, since>>

\* What a check can come to.  "override_invalid" is left out: the schema of the
\* request that sets a pin accepts none that does not parse.
Results == {"invalid_version", "blocked", "no_active_release", "version_not_greater",
            "rollout_not_included", "update_available", "error_fallback"}

Offer == [version : Versions, sha256 : Uploads \cup {None}]

Reading == {"touch", "find", "override", "pinned", "latest"}
Finalizing == {"result", "log"}
Answered == {"answered", "download"}
Stages == {"idle"} \cup Reading \cup Finalizing \cup Answered

Verdict == [result : Results, offer : Offer \cup {None}]

Idle == [stage |-> "idle", mac |-> None, version |-> None, pin |-> None,
         verdict |-> None, log |-> <<>>, file |-> None, got |-> None]

Nothing == [blocked |-> FALSE, pin |-> None, available |-> {}]

NotFound == "firmware_not_found"
Forbidden == "invalid_or_expired_signature"

ASSUME OtaAssumption == None \notin Offer \cup Verdict /\ NotFound \notin Uploads

Check == [stage : Stages,
          mac : Macs \cup {None}, version : Reported \cup {None},
          pin : Versions \cup {None}, verdict : Verdict \cup {None}, log : Seq(Verdict),
          file : Uploads \cup {None}, got : Uploads \cup {None, NotFound, Forbidden}]

History == [blocked : BOOLEAN, pin : Versions \cup {None}, available : SUBSET Versions]

TypeOK ==
    /\ ReleaseTypeOK
    /\ devices \in [Macs -> {"unseen", "seen", "blocked"}]
    /\ checks \in [Requests -> Check]
    /\ since \in [Requests -> History]
    /\ \A r \in Requests :
          \/ checks[r] = Idle /\ since[r] = Nothing
          \/ /\ checks[r].stage # "idle" /\ checks[r].mac \in Macs
             /\ checks[r].verdict = None <=> checks[r].stage \in Reading
             /\ Len(checks[r].log) <= 2

\* in_rollout: whether a device is among the first p of the hundred buckets.
InRollout(m, p) == p >= 100 \/ (p > 0 /\ Bucket[m] < p)

\* The versions enabled now, and the one the device at m is pinned to.
Available(m) ==
    {v \in Versions : overrides[m] = v \/ (Exists(v) /\ releases[v].enabled)}

\* The version m is pinned to now, if a check of a device running w must obey it.
BindingPin(m, w) ==
    IF overrides[m] # None /\ w # None /\ Greater(overrides[m], w) /\ HasFile(overrides[m])
    THEN overrides[m] ELSE None

Init ==
    /\ ReleaseInit
    /\ devices = [m \in Macs |-> "unseen"]
    /\ checks = [r \in Requests |-> Idle]
    /\ since = [r \in Requests |-> Nothing]

-----------------------------------------------------------------------------
(* The steps of a check. *)

\* What the steps of a check leave alone.
OthersUnchanged == UNCHANGED <<releases, uploads, overrides, since>>

\* r's check goes on to its next call.
GoTo(r, stage) == checks' = [checks EXCEPT ![r].stage = stage]

\* The check is decided and goes on to _finalize.
Decide(r, result, offer) ==
    checks' = [checks EXCEPT ![r].stage = "result", ![r].pin = None,
                             ![r].verdict = [result |-> result, offer |-> offer]]

OfferOf(v) == [version |-> v, sha256 |-> releases[v].sha256]

\* GET /smart_switch/check.  A version that does not parse is decided at once,
\* before the device is written down.
Begin(r) ==
    /\ checks[r].stage \in {"idle"} \cup Answered
    /\ \E m \in Macs, w \in Reported \cup {None} :
          LET begun == [Idle EXCEPT !.stage = "touch", !.mac = m, !.version = w] IN
          /\ checks' = [checks EXCEPT ![r] =
                IF w # None THEN begun
                ELSE [begun EXCEPT !.stage = "result",
                         !.verdict = [result |-> "invalid_version", offer |-> None]]]
          /\ since' = [since EXCEPT ![r] =
                [blocked |-> devices[m] = "blocked",
                 pin |-> BindingPin(m, w), available |-> Available(m)]]
    /\ UNCHANGED <<releases, uploads, overrides, devices>>

\* Plausible slip: the upsert sets blocked on every check, not on the first.
TouchAfresh(r) ==
    /\ checks[r].stage = "touch"
    /\ devices' = [devices EXCEPT ![checks[r].mac] = "seen"]
    /\ GoTo(r, "find")
    /\ OthersUnchanged

\* upsert_last_seen, the update: a device seen for the first time is not blocked,
\* one seen before keeps what it is.
Touch(r) ==
    LET m == checks[r].mac IN
    /\ checks[r].stage = "touch"
    /\ devices' = IF devices[m] = "unseen" THEN [devices EXCEPT ![m] = "seen"] ELSE devices
    /\ GoTo(r, "find")
    /\ OthersUnchanged

\* upsert_last_seen, the document read back, and the test of its blocked flag.
Find(r) ==
    /\ checks[r].stage = "find"
    /\ IF devices[checks[r].mac] = "blocked"
       THEN Decide(r, "blocked", None)
       ELSE GoTo(r, "override")
    /\ UNCHANGED devices /\ OthersUnchanged

\* get_override: a pin that is not above the running version is ignored.
ReadOverride(r) ==
    LET pin == overrides[checks[r].mac] IN
    /\ checks[r].stage = "override"
    /\ IF pin # None /\ Greater(pin, checks[r].version)
       THEN checks' = [checks EXCEPT ![r].stage = "pinned", ![r].pin = pin]
       ELSE GoTo(r, "latest")
    /\ UNCHANGED devices /\ OthersUnchanged

\* Plausible slip: a pinned release must be enabled, as any other.
ReadPinnedIfEnabled(r) ==
    LET pin == checks[r].pin IN
    /\ checks[r].stage = "pinned"
    /\ IF HasFile(pin) /\ releases[pin].enabled
       THEN Decide(r, "update_available", OfferOf(pin))
       ELSE checks' = [checks EXCEPT ![r].stage = "latest", ![r].pin = None]
    /\ UNCHANGED devices /\ OthersUnchanged

\* get_by_device_version: a pinned release with a file is offered, enabled or
\* not; without one the check goes on as if there were no pin.
ReadPinned(r) ==
    LET pin == checks[r].pin IN
    /\ checks[r].stage = "pinned"
    /\ IF HasFile(pin)
       THEN Decide(r, "update_available", OfferOf(pin))
       ELSE checks' = [checks EXCEPT ![r].stage = "latest", ![r].pin = None]
    /\ UNCHANGED devices /\ OthersUnchanged

\* get_active_latest and the tests after it.  Nothing asks for a file here.
ReadLatest(r) ==
    /\ checks[r].stage = "latest"
    /\ \/ /\ ActiveLatest = {}
          /\ Decide(r, "no_active_release", None)
       \/ \E v \in ActiveLatest :
             IF ~Greater(v, checks[r].version)
             THEN Decide(r, "version_not_greater", None)
             ELSE IF ~InRollout(checks[r].mac, releases[v].percentage)
             THEN Decide(r, "rollout_not_included", None)
             ELSE Decide(r, "update_available", OfferOf(v))
    /\ UNCHANGED devices /\ OthersUnchanged

\* _finalize, first half: last_check_result goes into the device's document.
\* Nothing ever reads it, so what is left of the call is that it may fail.
WriteResult(r) ==
    /\ checks[r].stage = "result"
    /\ GoTo(r, "log")
    /\ UNCHANGED devices /\ OthersUnchanged

Logged(r) == Append(checks[r].log, checks[r].verdict)

\* _finalize, second half: the audit entry, after which the device is answered.
Log(r) ==
    /\ checks[r].stage = "log"
    /\ checks' = [checks EXCEPT ![r].stage = "answered", ![r].log = Logged(r)]
    /\ UNCHANGED devices /\ OthersUnchanged

FallingBack(r) ==
    checks[r].verdict # None /\ checks[r].verdict.result = "error_fallback"

\* Plausible slip: the fallback answers without finalizing.
FailUnlogged(r) ==
    /\ checks[r].stage \in Reading \cup Finalizing
    /\ \E log \in {checks[r].log} \cup IF checks[r].stage = "log" THEN {Logged(r)} ELSE {} :
          checks' = [checks EXCEPT ![r].stage = "answered", ![r].log = log,
             ![r].pin = None, ![r].verdict = [result |-> "error_fallback", offer |-> None]]
    /\ UNCHANGED devices /\ OthersUnchanged

\* Plausible slip: a fallback that fails falls back again.
FailOverAndOver(r) ==
    /\ checks[r].stage \in Reading \cup Finalizing
    /\ \E log \in {checks[r].log} \cup IF checks[r].stage = "log" THEN {Logged(r)} ELSE {} :
          checks' = [checks EXCEPT ![r].stage = "result", ![r].log = log,
             ![r].pin = None, ![r].verdict = [result |-> "error_fallback", offer |-> None]]
    /\ UNCHANGED devices /\ OthersUnchanged

\* fallback_on_error: a call of the check failed (the audit entry may have been
\* written all the same), and the check is finalized anew as one without update.
Fail(r) ==
    /\ checks[r].stage \in Reading \cup Finalizing
    /\ ~FallingBack(r)
    /\ \E log \in {checks[r].log} \cup IF checks[r].stage = "log" THEN {Logged(r)} ELSE {} :
          checks' = [checks EXCEPT ![r].stage = "result", ![r].log = log,
             ![r].pin = None, ![r].verdict = [result |-> "error_fallback", offer |-> None]]
    /\ UNCHANGED devices /\ OthersUnchanged

\* A check without an answer: the fallback failed too, or the process died.
Cut(r) ==
    /\ checks[r].stage \in Reading \cup Finalizing
    /\ checks' = [checks EXCEPT ![r] = Idle]
    /\ since' = [since EXCEPT ![r] = Nothing]
    /\ UNCHANGED <<releases, uploads, overrides, devices>>

-----------------------------------------------------------------------------
(* The download, and what others do meanwhile. *)

\* GET /firmware/{device_type}/{version}/download, when the signature of the
\* offered URL has expired: the device must check again.
RefuseDownload(r) ==
    /\ checks[r].stage = "answered" /\ checks[r].verdict.offer # None
    /\ checks' = [checks EXCEPT ![r].got = Forbidden]
    /\ UNCHANGED devices /\ OthersUnchanged

\* While it has not: the release is looked up again, by the offered version,
LookUpFile(r) ==
    LET c == checks[r]
        file == releases[c.verdict.offer.version].file
    IN
    /\ c.stage = "answered" /\ c.verdict.offer # None
    /\ checks' = IF file = None
          THEN [checks EXCEPT ![r].got = NotFound]
          ELSE [checks EXCEPT ![r].stage = "download", ![r].file = file]
    /\ UNCHANGED devices /\ OthersUnchanged

\* and the file it named is streamed from GridFS.
Stream(r) ==
    /\ checks[r].stage = "download"
    /\ checks' = [checks EXCEPT ![r].stage = "answered", ![r].file = None,
                                ![r].got = checks[r].file]
    /\ UNCHANGED devices /\ OthersUnchanged

\* An administrator's step, and what it means for the history of the checks
\* that are still reading.
AdminStep ==
    /\ Administer
    /\ UNCHANGED <<devices, checks>>
    /\ since' = [r \in Requests |->
          LET m == checks[r].mac IN
          IF checks[r].stage \in Reading
          THEN [since[r] EXCEPT !.available = @ \cup Available(m)',
                                !.pin = IF overrides'[m] = overrides[m] THEN @ ELSE None]
          ELSE since[r]]

\* No code blocks a device: somebody sets the flag in the database by hand.
Block(m) ==
    /\ devices[m] = "seen"
    /\ devices' = [devices EXCEPT ![m] = "blocked"]
    /\ UNCHANGED checks /\ OthersUnchanged

CheckStep(r) ==
    \/ Begin(r) \/ Touch(r) \/ Find(r)
    \/ ReadOverride(r) \/ ReadPinned(r) \/ ReadLatest(r)
    \/ WriteResult(r) \/ Log(r) \/ Fail(r) \/ Cut(r)
    \/ RefuseDownload(r) \/ LookUpFile(r) \/ Stream(r)

Next ==
    \/ AdminStep
    \/ \E r \in Requests : CheckStep(r)
    \/ \E m \in Macs : Block(m)

Spec == Init /\ [][Next]_otaVars

-----------------------------------------------------------------------------
(* Properties *)

Ended(r) == checks[r].stage \in Answered

OfferMade(r) == checks[r].verdict # None /\ checks[r].verdict.offer # None

(***************************************************************************)
(* A version is offered only if at some moment of the check it was enabled *)
(* or the device was pinned to it, and it is above what the device runs.   *)
(* The override, the pinned release and the latest release are read at     *)
(* three moments between which administrators may change them all: a pin   *)
(* may be gone before the release it named is even created.                *)
(***************************************************************************)
OfferWasAvailable ==
    \A r \in Requests : OfferMade(r) =>
        LET v == checks[r].verdict.offer.version IN
        /\ v \in since[r].available
        /\ Greater(v, checks[r].version)

(***************************************************************************)
(* A pin wins over the releases: if for the whole check the device was     *)
(* pinned to a newer version with firmware, that version is the answer,    *)
(* enabled or not and whatever its rollout, unless the device was found    *)
(* blocked or the check failed.                                            *)
(***************************************************************************)
PinIsObeyed ==
    \A r \in Requests :
        Ended(r) /\ since[r].pin # None
           /\ checks[r].verdict.result \notin {"blocked", "error_fallback"}
        => OfferMade(r) /\ checks[r].verdict.offer.version = since[r].pin

(***************************************************************************)
(* A device blocked before its check began is offered nothing, however     *)
(* often it checks: being seen again does not unblock it.                  *)
(***************************************************************************)
BlockedGetsNothing ==
    \A r \in Requests : since[r].blocked => ~OfferMade(r)

(***************************************************************************)
(* What the device was answered is what the audit log says last of its     *)
(* check.  Without a failure it is all the log says; after one, an update  *)
(* may have been logged that the device was never told of.                 *)
(***************************************************************************)
AnsweredIsAudited ==
    \A r \in Requests : Ended(r) =>
        LET log == checks[r].log IN
        /\ log # <<>> /\ log[Len(log)] = checks[r].verdict
        /\ checks[r].verdict.result # "error_fallback" => Len(log) = 1

(***************************************************************************)
(* The download names a version, not a file: what the device gets is       *)
(* firmware of the version it was offered, and it is the file whose hash   *)
(* it was given unless a newer upload has replaced that one.  Only an      *)
(* offer made without a hash, of a release without a file, can end in 404. *)
(***************************************************************************)
ReceivedAsOffered ==
    \A r \in Requests : checks[r].got \notin {None, Forbidden} =>
        LET offer == checks[r].verdict.offer IN
        IF checks[r].got = NotFound THEN offer.sha256 = None
        ELSE /\ uploads[checks[r].got].version = offer.version
             /\ offer.sha256 \in {None, checks[r].got} \/ Superseded(offer.sha256)

=============================================================================
