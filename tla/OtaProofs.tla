------------------------------- MODULE OtaProofs -------------------------------
(***************************************************************************)
(* Proofs about Ota, for any versions, uploads, devices, buckets and       *)
(* number of checks at a time.                                             *)
(***************************************************************************)
EXTENDS Ota, ReleasesProofs, SequenceTheorems

(***************************************************************************)
(* The inductive invariants                                                *)
(***************************************************************************)

\* What the audit log holds of a check, and of an answered one that it is the answer.
LogFollows(r) ==
    LET c == checks[r] IN
    /\ c.stage \in Reading => c.log = <<>>
    /\ c.stage \in Finalizing =>
          /\ Len(c.log) <= 1
          /\ c.verdict.result # "error_fallback" => c.log = <<>>
    /\ c.stage \in Answered =>
          /\ c.log # <<>> /\ c.log[Len(c.log)] = c.verdict
          /\ c.verdict.result # "error_fallback" => Len(c.log) = 1

\* While a check reads, its history has all that is available; a pin it has read,
\* as the offer it makes, was available and is above what the device runs.
AvailableIsRecorded(r) ==
    LET c == checks[r] IN
    /\ c.stage \in Reading => c.version # None /\ Available(c.mac) \subseteq since[r].available
    /\ c.stage = "pinned" => c.pin \in since[r].available /\ Greater(c.pin, c.version)
    /\ OfferMade(r) => /\ c.verdict.offer.version \in since[r].available
                       /\ Greater(c.verdict.offer.version, c.version)

\* A pin that has held since the check began is what the check reads and offers:
\* it does not come to the latest release.
PinIsFollowed(r) ==
    LET c == checks[r]
        pin == since[r].pin
    IN
    pin # None =>
        /\ c.stage \in Reading =>
              overrides[c.mac] = pin /\ HasFile(pin) /\ Greater(pin, c.version)
        /\ c.stage = "pinned" => c.pin = pin
        /\ c.stage # "latest"
        /\ c.stage \in Finalizing \cup Answered =>
              \/ c.verdict.result \in {"blocked", "error_fallback"}
              \/ OfferMade(r) /\ c.verdict.offer.version = pin

\* A device blocked before the check is so as long as the check reads, and the
\* check does not get past the test of the flag.
BlockedStaysBlocked(r) ==
    since[r].blocked =>
        /\ checks[r].stage \in Reading => devices[checks[r].mac] = "blocked"
        /\ checks[r].stage \notin {"override", "pinned", "latest"}
        /\ ~OfferMade(r)

\* The file u is firmware that was made for version v.
FileFor(u, v) == u \in Uploads /\ uploads[u] = [stage |-> "linked", version |-> v]

\* The device that was offered this may be sent the file u.
GoodFor(offer, u) ==
    /\ FileFor(u, offer.version)
    /\ offer.sha256 \in {None, u} \/ Superseded(offer.sha256)

\* An offer is of a release, and its hash is of a file for it; so is the file that
\* the device is sent, or was.
FilesAreOfTheOffer(r) ==
    LET c == checks[r]
        offer == checks[r].verdict.offer
    IN
    /\ OfferMade(r) =>
          /\ Exists(offer.version)
          /\ offer.sha256 # None => FileFor(offer.sha256, offer.version)
    /\ c.stage = "download" => OfferMade(r) /\ GoodFor(offer, c.file)
    /\ c.stage \notin Answered => c.got = None
    /\ c.got \notin {None, Forbidden} =>
          /\ OfferMade(r)
          /\ IF c.got = NotFound THEN offer.sha256 = None ELSE GoodFor(offer, c.got)

CheckInv(r) ==
    LogFollows(r) /\ AvailableIsRecorded(r) /\ PinIsFollowed(r) /\ BlockedStaysBlocked(r)
    /\ FilesAreOfTheOffer(r)

OtaInv == TypeOK /\ ReleasesInv /\ \A r \in Requests : CheckInv(r)

(***************************************************************************)
(* What the steps of a check do to it                                      *)
(***************************************************************************)

\* The check of r goes on with this stage, pin, verdict, log, file and got, for
\* the same device and version; no other check changes.
Becomes(r, stage, pin, verdict, log, file, got) ==
    /\ checks' \in [Requests -> Check]
    /\ \A q \in Requests \ {r} : checks'[q] = checks[q]
    /\ checks'[r].stage = stage
    /\ checks'[r].mac = checks[r].mac /\ checks'[r].version = checks[r].version
    /\ checks'[r].pin = pin /\ checks'[r].verdict = verdict /\ checks'[r].log = log
    /\ checks'[r].file = file /\ checks'[r].got = got

Moves(r, stage, pin) ==
    Becomes(r, stage, pin, checks[r].verdict, checks[r].log, checks[r].file, checks[r].got)

Ends(r, result, offer, log) ==
    Becomes(r, "result", None, [result |-> result, offer |-> offer], log, checks[r].file,
            checks[r].got)

LEMMA CheckTyped ==
    ASSUME OtaInv, NEW r \in Requests
    PROVE  /\ checks \in [Requests -> Check] /\ checks[r] \in Check
           /\ checks[r].stage # "idle" => checks[r].mac \in Macs
           /\ checks[r].verdict \in Verdict <=> checks[r].stage \in Finalizing \cup Answered
           /\ checks[r].verdict = None \/ checks[r].verdict \in Verdict
           /\ checks[r].stage = "pinned" => checks[r].pin \in Versions
<1>1. /\ checks \in [Requests -> Check] /\ checks[r] \in Check
      /\ since[r] \in History
  BY DEF OtaInv, TypeOK
<1>2. CASE checks[r] = Idle
  <2>1. checks[r].stage = "idle" /\ checks[r].verdict = None
    BY <1>2 DEF Idle
  <2> QED
    BY <1>1, <2>1, OtaAssumption DEF Reading, Finalizing, Answered
<1>3. CASE checks[r] # Idle
  <2>1. /\ checks[r].stage # "idle" /\ checks[r].mac \in Macs
        /\ checks[r].verdict = None <=> checks[r].stage \in Reading
    BY <1>3 DEF OtaInv, TypeOK
  <2>2. /\ checks[r].verdict \in Verdict \cup {None}
        /\ checks[r].stage \in Stages
        /\ since[r].available \subseteq Versions
    BY <1>1 DEF Check, History
  <2>3. checks[r].stage = "pinned" => checks[r].pin \in since[r].available
    BY DEF OtaInv, CheckInv, AvailableIsRecorded
  <2> QED
    BY <1>1, <2>1, <2>2, <2>3, OtaAssumption DEF Stages, Reading, Finalizing, Answered
<1> QED
  BY <1>2, <1>3

LEMMA GoesTo ==
    ASSUME OtaInv, NEW r \in Requests,
           NEW s \in Stages, GoTo(r, s)
    PROVE  Moves(r, s, checks[r].pin)
  BY CheckTyped DEF GoTo, Moves, Becomes, Check

LEMMA GoesOnWith ==
    ASSUME OtaInv, NEW r \in Requests,
           NEW s \in Stages,
           NEW pin \in Versions \cup {None},
           checks' = [checks EXCEPT ![r].stage = s, ![r].pin = pin]
    PROVE  Moves(r, s, pin)
<1> DEFINE c == [checks[r] EXCEPT !.stage = s, !.pin = pin]
<1>1. checks \in [Requests -> Check]
  BY CheckTyped
<1>2. c \in Check
  BY <1>1 DEF Check
<1>3. checks' = [checks EXCEPT ![r] = c]
  BY <1>1
<1>4. checks' \in [Requests -> Check]
  <2> HIDE DEF c
  <2> QED
    BY <1>1, <1>2, <1>3
<1> QED
  BY <1>1, <1>4 DEF Moves, Becomes, Check

LEMMA Decides ==
    ASSUME OtaInv, NEW r \in Requests, NEW result \in Results, NEW offer \in Offer \cup {None},
           Decide(r, result, offer)
    PROVE  Ends(r, result, offer, checks[r].log)
<1>1. [result |-> result, offer |-> offer] \in Verdict
  BY DEF Verdict
<1>2. ASSUME NEW v \in Verdict,
             checks' = [checks EXCEPT ![r].stage = "result", ![r].pin = None, ![r].verdict = v]
      PROVE  Becomes(r, "result", None, v, checks[r].log, checks[r].file, checks[r].got)
  <2>1. checks \in [Requests -> Check]
    BY CheckTyped
  <2> DEFINE c == [checks[r] EXCEPT !.stage = "result", !.pin = None, !.verdict = v]
  <2>2. checks' \in [Requests -> Check]
    <3>1. "result" \in Stages
      BY DEF Stages, Finalizing
    <3>2. c \in Check
      BY <2>1, <3>1 DEF Check
    <3>3. checks' = [checks EXCEPT ![r] = c]
      BY <1>2, <2>1
    <3> HIDE DEF c
    <3> QED
      BY <2>1, <3>2, <3>3
  <2> QED
    BY <1>2, <2>1, <2>2 DEF Becomes, Check
<1> QED
  BY <1>1, <1>2 DEF Decide, Ends

\* A release that exists can be offered.
LEMMA OfferTyped ==
    ASSUME OtaInv, NEW v \in Versions, Exists(v)
    PROVE  /\ OfferOf(v) \in Offer
           /\ OfferOf(v).version = v /\ OfferOf(v).sha256 = releases[v].file
           /\ releases[v].file \in Uploads \cup {None}
<1>1. releases[v] \in Release /\ releases[v].file = releases[v].sha256
  BY DEF OtaInv, ReleasesInv, ReleaseTypeOK, ReleaseIsWhole, Exists
<1> QED
  BY <1>1 DEF Release, OfferOf, Offer

\* The stages and the results the steps name.
LEMMA Names ==
    /\ {"touch", "find", "override", "pinned", "latest"} = Reading
    /\ {"result", "log"} = Finalizing /\ {"answered", "download"} = Answered
    /\ {"blocked", "no_active_release", "version_not_greater", "rollout_not_included",
        "update_available", "error_fallback"} \subseteq Results
    /\ Reading \cup Finalizing \cup Answered \subseteq Stages
  BY DEF Reading, Finalizing, Answered, Stages, Results

LEMMA TouchDoes ==
    ASSUME OtaInv, NEW r \in Requests, Touch(r)
    PROVE  Moves(r, "find", checks[r].pin)
  BY GoesTo, Names DEF Touch

LEMMA FindDoes ==
    ASSUME OtaInv, NEW r \in Requests, Find(r)
    PROVE  IF devices[checks[r].mac] = "blocked"
           THEN Ends(r, "blocked", None, checks[r].log)
           ELSE Moves(r, "override", checks[r].pin)
  BY GoesTo, Decides, Names DEF Find

LEMMA ReadOverrideDoes ==
    ASSUME OtaInv, NEW r \in Requests, ReadOverride(r)
    PROVE  LET pin == overrides[checks[r].mac] IN
           IF pin # None /\ Greater(pin, checks[r].version)
           THEN Moves(r, "pinned", pin)
           ELSE Moves(r, "latest", checks[r].pin)
<1> DEFINE pin == overrides[checks[r].mac]
<1>1. CASE pin # None /\ Greater(pin, checks[r].version)
  <2>1. checks[r].stage = "override" /\ checks[r].mac \in Macs
    BY CheckTyped DEF ReadOverride
  <2>2. pin \in Versions
    BY <1>1, <2>1 DEF OtaInv, ReleasesInv, ReleaseTypeOK
  <2>3. checks' = [checks EXCEPT ![r].stage = "pinned", ![r].pin = pin]
    BY <1>1 DEF ReadOverride
  <2>4. ASSUME NEW v \in Versions, checks' = [checks EXCEPT ![r].stage = "pinned", ![r].pin = v]
        PROVE  Moves(r, "pinned", v)
    BY <2>4, GoesOnWith, Names
  <2> QED
    BY <1>1, <2>2, <2>3, <2>4
<1>2. CASE ~(pin # None /\ Greater(pin, checks[r].version))
  BY <1>2, GoesTo, Names DEF ReadOverride
<1> QED
  BY <1>1, <1>2

LEMMA ReadPinnedDoes ==
    ASSUME OtaInv, NEW r \in Requests, ReadPinned(r)
    PROVE  IF HasFile(checks[r].pin)
           THEN /\ checks[r].pin \in Versions /\ OfferOf(checks[r].pin) \in Offer
                /\ Ends(r, "update_available", OfferOf(checks[r].pin), checks[r].log)
           ELSE Moves(r, "latest", None)
<1>1. checks[r].pin \in Versions
  BY CheckTyped DEF ReadPinned
<1>2. CASE HasFile(checks[r].pin)
  <2>1. OfferOf(checks[r].pin) \in Offer
    BY <1>1, <1>2, OfferTyped DEF HasFile
  <2> QED
    BY <1>1, <1>2, <2>1, Decides, Names DEF ReadPinned
<1>3. CASE ~HasFile(checks[r].pin)
  BY <1>3, GoesOnWith, Names DEF ReadPinned
<1> QED
  BY <1>2, <1>3

LEMMA ReadLatestDoes ==
    ASSUME OtaInv, NEW r \in Requests, ReadLatest(r)
    PROVE  \/ \E result \in Results \ {"error_fallback", "blocked"} :
                Ends(r, result, None, checks[r].log)
           \/ \E v \in ActiveLatest :
                /\ Greater(v, checks[r].version) /\ OfferOf(v) \in Offer
                /\ Ends(r, "update_available", OfferOf(v), checks[r].log)
<1>1. \A v \in ActiveLatest : v \in Versions /\ Exists(v)
  BY DEF ActiveLatest
<1>2. CASE Decide(r, "no_active_release", None)
  BY <1>2, Decides, Names
<1>3. ASSUME NEW v \in ActiveLatest,
             IF ~Greater(v, checks[r].version)
             THEN Decide(r, "version_not_greater", None)
             ELSE IF ~InRollout(checks[r].mac, releases[v].percentage)
             THEN Decide(r, "rollout_not_included", None)
             ELSE Decide(r, "update_available", OfferOf(v))
      PROVE  \/ \E result \in Results \ {"error_fallback", "blocked"} :
                  Ends(r, result, None, checks[r].log)
             \/ /\ Greater(v, checks[r].version) /\ OfferOf(v) \in Offer
                /\ Ends(r, "update_available", OfferOf(v), checks[r].log)
  <2>1. OfferOf(v) \in Offer
    BY <1>1, OfferTyped
  <2> QED
    BY <1>3, <2>1, Decides, Names
<1> QED
  BY <1>2, <1>3 DEF ReadLatest

LEMMA WriteResultDoes ==
    ASSUME OtaInv, NEW r \in Requests, WriteResult(r)
    PROVE  Moves(r, "log", checks[r].pin)
  BY GoesTo, Names DEF WriteResult

\* What is logged next is well typed, and it is the first or the second entry.
LEMMA LoggedTyped ==
    ASSUME OtaInv, NEW r \in Requests, checks[r].stage \in Reading \cup Finalizing
    PROVE  /\ checks[r].log \in Seq(Verdict) /\ Len(checks[r].log) <= 1
           /\ checks[r].stage \in Finalizing =>
                 /\ Logged(r) \in Seq(Verdict)
                 /\ Logged(r) # <<>>
                 /\ Len(Logged(r)) = Len(checks[r].log) + 1
                 /\ Logged(r)[Len(Logged(r))] = checks[r].verdict
                 /\ checks[r].verdict.result # "error_fallback" =>
                       checks[r].log = <<>> /\ Len(Logged(r)) = 1
<1>1. checks[r].log \in Seq(Verdict)
  BY CheckTyped DEF Check
<1>2. Len(checks[r].log) <= 1
  <2>1. checks[r].log = <<>> => Len(checks[r].log) = 0
    OBVIOUS
  <2>3. checks[r].log = <<>> \/ Len(checks[r].log) <= 1
    BY DEF OtaInv, CheckInv, LogFollows
  <2> QED
    BY <2>1, <2>3
<1>3. ASSUME checks[r].stage \in Finalizing PROVE checks[r].verdict \in Verdict
  BY <1>3, CheckTyped
<1>4. ASSUME checks[r].stage \in Finalizing, checks[r].verdict.result # "error_fallback"
      PROVE  checks[r].log = <<>> /\ Len(checks[r].log) = 0
  BY <1>4 DEF OtaInv, CheckInv, LogFollows
<1> QED
  BY <1>1, <1>2, <1>3, <1>4, AppendProperties DEF Logged

LEMMA LogDoes ==
    ASSUME OtaInv, NEW r \in Requests, Log(r)
    PROVE  Becomes(r, "answered", checks[r].pin, checks[r].verdict, Logged(r), checks[r].file,
                   checks[r].got)
<1> DEFINE c(log) == [checks[r] EXCEPT !.stage = "answered", !.log = log]
<1>1. checks \in [Requests -> Check] /\ Logged(r) \in Seq(Verdict)
  BY CheckTyped, LoggedTyped, Names DEF Log
<1>2. ASSUME NEW log \in Seq(Verdict),
             checks' = [checks EXCEPT ![r].stage = "answered", ![r].log = log]
      PROVE  Becomes(r, "answered", checks[r].pin, checks[r].verdict, log, checks[r].file,
                     checks[r].got)
  <2>4. "answered" \in Stages
    BY Names
  <2>1. c(log) \in Check
    BY <1>1, <2>4 DEF Check
  <2>2. checks' = [checks EXCEPT ![r] = c(log)]
    BY <1>1, <1>2
  <2>3. checks' \in [Requests -> Check]
    <3> HIDE DEF c
    <3> QED
      BY <1>1, <2>1, <2>2
  <2> QED
    BY <1>1, <1>2, <2>3 DEF Becomes, Check
<1> QED
  BY <1>1, <1>2 DEF Log

LEMMA FailDoes ==
    ASSUME OtaInv, NEW r \in Requests, Fail(r)
    PROVE  \E log \in Seq(Verdict) :
              Len(log) <= 1 /\ Ends(r, "error_fallback", None, log)
<1> DEFINE fallback == [result |-> "error_fallback", offer |-> None]
<1> DEFINE c(log, v) == [checks[r] EXCEPT !.stage = "result", !.log = log, !.pin = None,
                                          !.verdict = v]
<1>1. checks \in [Requests -> Check] /\ checks[r].stage \in Reading \cup Finalizing
  BY CheckTyped DEF Fail
<1>2. PICK log \in {checks[r].log} \cup IF checks[r].stage = "log" THEN {Logged(r)} ELSE {} :
        checks' = [checks EXCEPT ![r].stage = "result", ![r].log = log, ![r].pin = None,
                                 ![r].verdict = fallback]
  BY DEF Fail
<1>3. log \in Seq(Verdict) /\ Len(log) <= 1
  <2>1. CASE log = checks[r].log
    <3>1. checks[r].log \in Seq(Verdict) /\ Len(checks[r].log) <= 1
      BY <1>1, LoggedTyped
    <3> QED
      BY <2>1, <3>1
  <2>2. CASE checks[r].stage = "log" /\ log = Logged(r)
    <3>1. checks[r].verdict.result # "error_fallback"
      BY <2>2, CheckTyped, OtaAssumption, Names DEF Fail, FallingBack
    <3> QED
      BY <2>2, <3>1, LoggedTyped, Names
  <2> QED
    BY <1>2, <2>1, <2>2
<1>4. fallback \in Verdict
  BY Names DEF Verdict
<1>5. ASSUME NEW l \in Seq(Verdict), NEW v \in Verdict,
             checks' = [checks EXCEPT ![r].stage = "result", ![r].log = l, ![r].pin = None,
                                      ![r].verdict = v]
      PROVE  Becomes(r, "result", None, v, l, checks[r].file, checks[r].got)
  <2>4. "result" \in Stages
    BY Names
  <2>1. c(l, v) \in Check
    BY <1>1, <2>4 DEF Check
  <2>2. checks' = [checks EXCEPT ![r] = c(l, v)]
    BY <1>1, <1>5
  <2>3. checks' \in [Requests -> Check]
    <3> HIDE DEF c
    <3> QED
      BY <1>1, <2>1, <2>2
  <2> QED
    BY <1>1, <1>5, <2>3 DEF Becomes, Check
<1>6. Becomes(r, "result", None, fallback, log, checks[r].file, checks[r].got)
  <2> HIDE DEF fallback
  <2> QED
    BY <1>2, <1>3, <1>4, <1>5
<1> QED
  BY <1>3, <1>6 DEF Ends

LEMMA RefuseDownloadDoes ==
    ASSUME OtaInv, NEW r \in Requests, RefuseDownload(r)
    PROVE  Becomes(r, "answered", checks[r].pin, checks[r].verdict, checks[r].log,
                   checks[r].file, Forbidden)
  BY CheckTyped DEF RefuseDownload, Becomes, Check

\* The offered version is looked up again: it has a file or has none.
LEMMA LookUpFileDoes ==
    ASSUME OtaInv, NEW r \in Requests, LookUpFile(r)
    PROVE  LET v == checks[r].verdict.offer.version IN
           /\ OfferMade(r) /\ v \in Versions /\ Exists(v)
           /\ IF releases[v].file = None
              THEN Becomes(r, "answered", checks[r].pin, checks[r].verdict, checks[r].log,
                           checks[r].file, NotFound)
              ELSE /\ releases[v].file \in Uploads
                   /\ Becomes(r, "download", checks[r].pin, checks[r].verdict, checks[r].log,
                              releases[v].file, checks[r].got)
<1> DEFINE v == checks[r].verdict.offer.version
<1>1. /\ checks \in [Requests -> Check] /\ checks[r].stage = "answered"
      /\ checks[r].verdict \in Verdict /\ checks[r].verdict.offer # None
  BY CheckTyped, Names DEF LookUpFile
<1>2. OfferMade(r) /\ v \in Versions /\ Exists(v)
  <2>1. OfferMade(r)
    BY <1>1, OtaAssumption DEF OfferMade
  <2>2. checks[r].verdict.offer \in Offer
    BY <1>1 DEF Verdict
  <2> QED
    BY <2>1, <2>2 DEF Offer, OtaInv, CheckInv, FilesAreOfTheOffer
<1>3. releases[v].file \in Uploads \cup {None}
  BY <1>2, OfferTyped
<1>4. CASE releases[v].file = None
  <2>1. checks' = [checks EXCEPT ![r].got = NotFound]
    BY <1>4 DEF LookUpFile
  <2>2. Becomes(r, "answered", checks[r].pin, checks[r].verdict, checks[r].log,
                checks[r].file, NotFound)
    BY <1>1, <2>1 DEF Becomes, Check
  <2> QED
    BY <1>2, <1>4, <2>2
<1>5. CASE releases[v].file # None
  <2>1. checks' = [checks EXCEPT ![r].stage = "download", ![r].file = releases[v].file]
    BY <1>5 DEF LookUpFile
  <2>2. ASSUME NEW u \in Uploads,
               checks' = [checks EXCEPT ![r].stage = "download", ![r].file = u]
        PROVE  Becomes(r, "download", checks[r].pin, checks[r].verdict, checks[r].log,
                       u, checks[r].got)
    <3> DEFINE c == [checks[r] EXCEPT !.stage = "download", !.file = u]
    <3>4. "download" \in Stages
      BY Names
    <3>1. c \in Check
      BY <1>1, <3>4 DEF Check
    <3>2. checks' = [checks EXCEPT ![r] = c]
      BY <1>1, <2>2
    <3>3. checks' \in [Requests -> Check]
      <4> HIDE DEF c
      <4> QED
        BY <1>1, <3>1, <3>2
    <3> QED
      BY <1>1, <2>2, <3>3 DEF Becomes, Check
  <2> QED
    BY <1>2, <1>3, <1>5, <2>1, <2>2
<1> QED
  BY <1>4, <1>5

LEMMA StreamDoes ==
    ASSUME OtaInv, NEW r \in Requests, Stream(r)
    PROVE  Becomes(r, "answered", checks[r].pin, checks[r].verdict, checks[r].log, None,
                   checks[r].file)
<1>1. checks \in [Requests -> Check] /\ checks[r] \in Check
  BY CheckTyped
<1>2. checks[r].file \in Uploads \cup {None, NotFound, Forbidden}
  BY <1>1 DEF Check
<1>3. ASSUME NEW got \in Uploads \cup {None, NotFound, Forbidden},
             checks' = [checks EXCEPT ![r].stage = "answered", ![r].file = None, ![r].got = got]
      PROVE  Becomes(r, "answered", checks[r].pin, checks[r].verdict, checks[r].log, None, got)
  <2> DEFINE c == [checks[r] EXCEPT !.stage = "answered", !.file = None, !.got = got]
  <2>4. "answered" \in Stages
    BY Names
  <2>1. c \in Check
    BY <1>1, <2>4 DEF Check
  <2>2. checks' = [checks EXCEPT ![r] = c]
    BY <1>1, <1>3
  <2>3. checks' \in [Requests -> Check]
    <3> HIDE DEF c
    <3> QED
      BY <1>1, <2>1, <2>2
  <2> QED
    BY <1>1, <1>3, <2>3 DEF Becomes, Check
<1> QED
  BY <1>2, <1>3 DEF Stream

LEMMA BeginDoes ==
    ASSUME OtaInv, NEW r \in Requests, Begin(r)
    PROVE  \E m \in Macs, w \in Reported \cup {None} :
              /\ checks' \in [Requests -> Check]
              /\ \A q \in Requests \ {r} : checks'[q] = checks[q]
              /\ checks'[r].stage = IF w # None THEN "touch" ELSE "result"
              /\ checks'[r].mac = m /\ checks'[r].version = w /\ checks'[r].pin = None
              /\ checks'[r].verdict = IF w # None THEN None
                                      ELSE [result |-> "invalid_version", offer |-> None]
              /\ checks'[r].log = <<>>
              /\ checks'[r].file = None /\ checks'[r].got = None
              /\ since' \in [Requests -> History]
              /\ since' = [since EXCEPT ![r] =
                    [blocked |-> devices[m] = "blocked",
                     pin |-> BindingPin(m, w), available |-> Available(m)]]
<1> DEFINE refused == [result |-> "invalid_version", offer |-> None]
<1> DEFINE begun(m, w) == [Idle EXCEPT !.stage = "touch", !.mac = m, !.version = w]
<1> DEFINE c(m, w) == IF w # None THEN begun(m, w)
                      ELSE [begun(m, w) EXCEPT !.stage = "result", !.verdict = refused]
<1> DEFINE h(m, w) == [blocked |-> devices[m] = "blocked",
                       pin |-> BindingPin(m, w), available |-> Available(m)]
<1>1. PICK m \in Macs, w \in Reported \cup {None} :
        /\ checks' = [checks EXCEPT ![r] = c(m, w)]
        /\ since' = [since EXCEPT ![r] = h(m, w)]
  BY DEF Begin
<1>2. refused \in Verdict
  BY DEF Verdict, Results
<1>3. /\ c(m, w) \in Check
      /\ c(m, w).stage = IF w # None THEN "touch" ELSE "result"
      /\ c(m, w).mac = m /\ c(m, w).version = w /\ c(m, w).pin = None
      /\ c(m, w).verdict = IF w # None THEN None ELSE refused
      /\ c(m, w).log = <<>> /\ c(m, w).file = None /\ c(m, w).got = None
  <2> HIDE DEF refused
  <2>1. "touch" \in Stages /\ "result" \in Stages /\ <<>> \in Seq(Verdict)
    BY Names
  <2>2. c(m, w) = [stage |-> IF w # None THEN "touch" ELSE "result", mac |-> m,
                   version |-> w, pin |-> None,
                   verdict |-> IF w # None THEN None ELSE refused,
                   log |-> <<>>, file |-> None, got |-> None]
    BY DEF Idle
  <2> HIDE DEF c
  <2>3. c(m, w) \in Check
    BY <1>2, <2>1, <2>2 DEF Check
  <2> QED
    BY <2>2, <2>3
<1>4. h(m, w) \in History
  <2>1. BindingPin(m, w) \in Versions \cup {None}
    BY DEF BindingPin, OtaInv, ReleasesInv, ReleaseTypeOK
  <2> QED
    BY <2>1 DEF Available, History
<1>5. checks \in [Requests -> Check] /\ since \in [Requests -> History]
  BY DEF OtaInv, TypeOK
<1> HIDE DEF c
<1>6. /\ checks' \in [Requests -> Check] /\ checks'[r] = c(m, w)
      /\ \A q \in Requests \ {r} : checks'[q] = checks[q]
  BY <1>1, <1>3, <1>5
<1> QED
  BY <1>1, <1>3, <1>4, <1>5, <1>6

\* The parts of the state a step of r's check leaves alone.
LEMMA OnlyItsCheck ==
    ASSUME OtaInv, NEW r \in Requests, CheckStep(r)
    PROVE  /\ checks' \in [Requests -> Check] /\ since' \in [Requests -> History]
           /\ \A q \in Requests \ {r} : checks'[q] = checks[q] /\ since'[q] = since[q]
           /\ UNCHANGED <<releases, uploads, overrides>>
           /\ devices' \in [Macs -> {"unseen", "seen", "blocked"}]
           /\ \A m \in Macs : devices[m] = "blocked" => devices'[m] = "blocked"
<1>1. /\ devices \in [Macs -> {"unseen", "seen", "blocked"}]
      /\ since \in [Requests -> History] /\ checks \in [Requests -> Check]
  BY DEF OtaInv, TypeOK
<1>2. CASE Begin(r)
  <2>1. UNCHANGED <<releases, uploads, overrides, devices>>
    BY <1>2 DEF Begin
  <2>2. \A q \in Requests \ {r} : since'[q] = since[q]
    BY <1>1, <1>2 DEF Begin
  <2> QED
    BY <1>1, <1>2, <2>1, <2>2, BeginDoes
<1>3. CASE Touch(r)
  BY <1>1, <1>3, TouchDoes DEF Touch, OthersUnchanged, Moves, Becomes
<1>4. CASE Find(r)
  BY <1>1, <1>4, FindDoes DEF Find, OthersUnchanged, Moves, Ends, Becomes
<1>5. CASE ReadOverride(r)
  BY <1>1, <1>5, ReadOverrideDoes DEF ReadOverride, OthersUnchanged, Moves, Becomes
<1>6. CASE ReadPinned(r)
  BY <1>1, <1>6, ReadPinnedDoes DEF ReadPinned, OthersUnchanged, Moves, Ends, Becomes
<1>7. CASE ReadLatest(r)
  BY <1>1, <1>7, ReadLatestDoes DEF ReadLatest, OthersUnchanged, Moves, Ends, Becomes
<1>8. CASE WriteResult(r)
  BY <1>1, <1>8, WriteResultDoes DEF WriteResult, OthersUnchanged, Moves, Becomes
<1>9. CASE Log(r)
  BY <1>1, <1>9, LogDoes DEF Log, OthersUnchanged, Becomes
<1>10. CASE Fail(r)
  BY <1>1, <1>10, FailDoes DEF Fail, OthersUnchanged, Ends, Becomes
<1>11. CASE Cut(r)
  <2>1. Idle \in Check /\ Nothing \in History
    BY DEF Idle, Check, Stages, Nothing, History
  <2> QED
    BY <1>1, <1>11, <2>1 DEF Cut
<1>12. CASE RefuseDownload(r)
  BY <1>1, <1>12, RefuseDownloadDoes DEF RefuseDownload, OthersUnchanged, Becomes
<1>13. CASE LookUpFile(r)
  BY <1>1, <1>13, LookUpFileDoes DEF LookUpFile, OthersUnchanged, Becomes
<1>14. CASE Stream(r)
  BY <1>1, <1>14, StreamDoes DEF Stream, OthersUnchanged, Becomes
<1> QED
  BY <1>2, <1>3, <1>4, <1>5, <1>6, <1>7, <1>8, <1>9, <1>10, <1>11, <1>12, <1>13, <1>14
     DEF CheckStep

\* What an administrator's step does to a check: nothing but to its history.
LEMMA AdminStepDoes ==
    ASSUME OtaInv, AdminStep
    PROVE  /\ UNCHANGED <<devices, checks>> /\ [Administer]_releaseVars
           /\ since' \in [Requests -> History]
           /\ \A r \in Requests :
                 /\ since'[r].blocked = since[r].blocked
                 /\ since[r].available \subseteq since'[r].available
                 /\ checks[r].stage \notin Reading => since'[r] = since[r]
                 /\ checks[r].stage \in Reading =>
                       Available(checks[r].mac)' \subseteq since'[r].available
                 /\ since'[r].pin # None =>
                       /\ since'[r].pin = since[r].pin
                       /\ checks[r].stage \in Reading =>
                             overrides'[checks[r].mac] = overrides[checks[r].mac]
<1>1. since \in [Requests -> History]
  BY DEF OtaInv, TypeOK
<1>2. UNCHANGED <<devices, checks>> /\ [Administer]_releaseVars
  BY DEF AdminStep
<1>3. \A m : Available(m)' \subseteq Versions
  BY DEF Available
<1> DEFINE kept(r) == IF overrides'[checks[r].mac] = overrides[checks[r].mac]
                      THEN since[r].pin ELSE None
<1> DEFINE h(r) == [blocked |-> since[r].blocked, pin |-> kept(r),
                    available |-> since[r].available \cup Available(checks[r].mac)']
<1>4. \A r \in Requests : h(r) \in History
  BY <1>1, <1>3 DEF History
<1>5. since' = [r \in Requests |-> IF checks[r].stage \in Reading THEN h(r) ELSE since[r]]
  <2>1. since' = [r \in Requests |->
          LET m == checks[r].mac IN
          IF checks[r].stage \in Reading
          THEN [since[r] EXCEPT !.available = @ \cup Available(m)',
                                !.pin = IF overrides'[m] = overrides[m] THEN @ ELSE None]
          ELSE since[r]]
    BY DEF AdminStep
  <2>2. ASSUME NEW r \in Requests
        PROVE  [since[r] EXCEPT !.available = @ \cup Available(checks[r].mac)',
                                !.pin = IF overrides'[checks[r].mac] = overrides[checks[r].mac]
                                        THEN @ ELSE None] = h(r)
    <3>1. ASSUME NEW a \in SUBSET Versions, NEW p \in Versions \cup {None}
          PROVE  [since[r] EXCEPT !.available = a, !.pin = p]
                    = [blocked |-> since[r].blocked, pin |-> p, available |-> a]
      <4> DEFINE k == [since[r] EXCEPT !.available = a, !.pin = p]
      <4>1. since[r] \in History
        BY <1>1
      <4>2. k \in History /\ k.blocked = since[r].blocked /\ k.pin = p /\ k.available = a
        BY <4>1 DEF History
      <4> HIDE DEF k
      <4>3. k = [blocked |-> since[r].blocked, pin |-> p, available |-> a]
        BY <4>2 DEF History
      <4> QED
        BY <4>3 DEF k
    <3>2. /\ since[r].available \cup Available(checks[r].mac)' \in SUBSET Versions
          /\ kept(r) \in Versions \cup {None}
      BY <1>1, <1>3 DEF History
    <3> QED
      BY <3>1, <3>2
  <2> QED
    BY <2>1, <2>2
<1> QED
  BY <1>1, <1>2, <1>4, <1>5

Shaped(r) ==
    \/ checks[r] = Idle /\ since[r] = Nothing
    \/ /\ checks[r].stage # "idle" /\ checks[r].mac \in Macs
       /\ checks[r].verdict = None <=> checks[r].stage \in Reading
       /\ Len(checks[r].log) <= 2

(***************************************************************************)
(* A step of a check, and its log                                          *)
(***************************************************************************)

LEMMA LogStep ==
    ASSUME OtaInv, NEW r \in Requests, CheckStep(r)
    PROVE  LogFollows(r)'
<1>1. LogFollows(r)
  BY DEF OtaInv, CheckInv
<1>2. ASSUME NEW result, NEW offer, NEW log, Ends(r, result, offer, log),
             Len(log) <= 1, result # "error_fallback" => log = <<>>
      PROVE  LogFollows(r)'
  BY <1>2, Names DEF Ends, Becomes, LogFollows
<1>3. ASSUME NEW stage \in Reading, NEW pin, Moves(r, stage, pin), checks[r].stage \in Reading
      PROVE  LogFollows(r)'
  BY <1>1, <1>3, Names DEF Moves, Becomes, LogFollows
<1>4. ASSUME NEW stage \in Answered, NEW pin, NEW file, NEW got, checks[r].stage \in Answered,
             Becomes(r, stage, pin, checks[r].verdict, checks[r].log, file, got)
      PROVE  LogFollows(r)'
  BY <1>1, <1>4, Names DEF Becomes, LogFollows
<1>5. checks[r].stage \in Reading => checks[r].log = <<>> /\ Len(checks[r].log) = 0
  BY <1>1 DEF LogFollows
<1>6. CASE Begin(r)
  <2>1. /\ checks'[r].stage \in {"touch", "result"} /\ checks'[r].log = <<>>
        /\ Len(checks'[r].log) = 0
    BY <1>6, BeginDoes
  <2> QED
    BY <2>1, Names DEF LogFollows
<1>7. CASE Touch(r)
  BY <1>3, <1>7, TouchDoes, Names DEF Touch
<1>8. CASE Find(r)
  BY <1>2, <1>3, <1>5, <1>8, FindDoes, Names DEF Find
<1>9. CASE ReadOverride(r)
  BY <1>3, <1>9, ReadOverrideDoes, Names DEF ReadOverride
<1>10. CASE ReadPinned(r)
  BY <1>2, <1>3, <1>5, <1>10, ReadPinnedDoes, Names DEF ReadPinned
<1>11. CASE ReadLatest(r)
  BY <1>2, <1>5, <1>11, ReadLatestDoes, Names DEF ReadLatest
<1>12. CASE WriteResult(r)
  BY <1>1, <1>12, WriteResultDoes, Names DEF WriteResult, Moves, Becomes, LogFollows
<1>13. CASE Log(r)
  <2>1. /\ checks'[r].stage = "answered" /\ checks'[r].verdict = checks[r].verdict
        /\ checks'[r].log = Logged(r) /\ checks[r].stage = "log"
    BY <1>13, LogDoes DEF Log, Becomes
  <2>2. /\ Logged(r) # <<>> /\ Logged(r)[Len(Logged(r))] = checks[r].verdict
        /\ checks[r].verdict.result # "error_fallback" => Len(Logged(r)) = 1
    BY <2>1, LoggedTyped, Names
  <2> QED
    BY <2>1, <2>2, Names DEF LogFollows
<1>14. CASE Fail(r)
  <2>1. PICK log \in Seq(Verdict) : Len(log) <= 1 /\ Ends(r, "error_fallback", None, log)
    BY <1>14, FailDoes
  <2> QED
    BY <1>2, <2>1
<1>15. CASE Cut(r)
  <2>1. checks'[r].stage = "idle"
    BY <1>15, CheckTyped DEF Cut, Idle
  <2> QED
    BY <2>1, Names DEF LogFollows
<1>16. CASE RefuseDownload(r)
  BY <1>4, <1>16, RefuseDownloadDoes, Names DEF RefuseDownload
<1>17. CASE LookUpFile(r)
  BY <1>4, <1>17, LookUpFileDoes, Names DEF LookUpFile
<1>18. CASE Stream(r)
  BY <1>4, <1>18, StreamDoes, Names DEF Stream
<1> QED
  BY <1>6, <1>7, <1>8, <1>9, <1>10, <1>11, <1>12, <1>13, <1>14, <1>15, <1>16, <1>17, <1>18
     DEF CheckStep

(***************************************************************************)
(* A step of a check, and its shape                                        *)
(***************************************************************************)

LEMMA ShapeStep ==
    ASSUME OtaInv, NEW r \in Requests, CheckStep(r)
    PROVE  Shaped(r)'
<1>1. /\ Shaped(r)
      /\ checks[r].stage # "idle" => checks[r].mac \in Macs
      /\ checks[r].verdict = None <=> checks[r].stage \notin Finalizing \cup Answered
  <2>1. Shaped(r)
    BY DEF OtaInv, TypeOK, Shaped
  <2> QED
    BY <2>1, CheckTyped, OtaAssumption
<1>2. Idle.stage = "idle"
  BY DEF Idle
<1>3. checks[r].stage # "idle" => Len(checks[r].log) <= 2
  BY <1>1, <1>2 DEF Shaped
<1>4. ASSUME NEW result \in Results, NEW offer \in Offer \cup {None}, NEW log,
             Ends(r, result, offer, log), Len(log) <= 2, checks[r].stage # "idle"
      PROVE  Shaped(r)'
  <2>1. checks'[r].verdict \in Verdict
    BY <1>4 DEF Ends, Becomes, Verdict
  <2> QED
    BY <1>1, <1>4, <2>1, OtaAssumption, Names DEF Ends, Becomes, Shaped
<1>5. ASSUME NEW stage \in Reading, NEW pin, Moves(r, stage, pin), checks[r].stage \in Reading
      PROVE  Shaped(r)'
  BY <1>1, <1>3, <1>5, Names DEF Moves, Becomes, Shaped
<1>6. ASSUME NEW stage \in Finalizing \cup Answered, NEW pin, NEW log, NEW file, NEW got,
             checks[r].stage \in Finalizing \cup Answered, Len(log) <= 2,
             Becomes(r, stage, pin, checks[r].verdict, log, file, got)
      PROVE  Shaped(r)'
  BY <1>1, <1>6, Names DEF Becomes, Shaped
<1>7. CASE Begin(r)
  <2>1. PICK m \in Macs, w \in Reported \cup {None} :
          /\ checks'[r].stage = IF w # None THEN "touch" ELSE "result"
          /\ checks'[r].mac = m
          /\ checks'[r].verdict = IF w # None THEN None
                                  ELSE [result |-> "invalid_version", offer |-> None]
          /\ checks'[r].log = <<>>
    BY <1>7, BeginDoes
  <2>2. [result |-> "invalid_version", offer |-> None] \in Verdict
    BY DEF Verdict, Results
  <2>3. Len(checks'[r].log) = 0
    BY <2>1
  <2>4. [result |-> "invalid_version", offer |-> None] # None
    BY <2>2, OtaAssumption
  <2> QED
    BY <2>1, <2>3, <2>4, Names DEF Shaped
<1>8. CASE Touch(r)
  BY <1>5, <1>8, TouchDoes, Names DEF Touch
<1>9. CASE Find(r)
  BY <1>3, <1>4, <1>5, <1>9, FindDoes, Names DEF Find
<1>10. CASE ReadOverride(r)
  BY <1>5, <1>10, ReadOverrideDoes, Names DEF ReadOverride
<1>11. CASE ReadPinned(r)
  BY <1>3, <1>4, <1>5, <1>11, ReadPinnedDoes, Names DEF ReadPinned
<1>12. CASE ReadLatest(r)
  BY <1>3, <1>4, <1>12, ReadLatestDoes, Names DEF ReadLatest
<1>13. CASE WriteResult(r)
  BY <1>3, <1>6, <1>13, WriteResultDoes, Names DEF WriteResult, Moves
<1>14. CASE Log(r)
  <2>1. checks[r].stage \in Finalizing /\ Len(Logged(r)) <= 2
    <3>1. checks[r].stage \in Finalizing
      BY <1>14, Names DEF Log
    <3>2. checks[r].log \in Seq(Verdict) /\ Len(checks[r].log) <= 1
      BY <3>1, LoggedTyped
    <3>3. Len(Logged(r)) = Len(checks[r].log) + 1
      BY <3>1, LoggedTyped
    <3>4. Len(checks[r].log) \in Nat
      BY <3>2
    <3> QED
      BY <3>1, <3>2, <3>3, <3>4
  <2> QED
    BY <1>6, <1>14, <2>1, LogDoes, Names
<1>15. CASE Fail(r)
  <2>1. PICK log \in Seq(Verdict) : Len(log) <= 1 /\ Ends(r, "error_fallback", None, log)
    BY <1>15, FailDoes
  <2>2. checks[r].stage # "idle" /\ Len(log) <= 2
    <3>1. Len(log) \in Nat
      OBVIOUS
    <3> QED
      BY <1>15, <2>1, <3>1, Names DEF Fail
  <2> QED
    BY <1>4, <2>1, <2>2, Names
<1>16. CASE Cut(r)
  <2>1. since \in [Requests -> History]
    BY DEF OtaInv, TypeOK
  <2> QED
    BY <1>16, <2>1, CheckTyped DEF Cut, Shaped
<1>17. CASE RefuseDownload(r)
  BY <1>3, <1>6, <1>17, RefuseDownloadDoes, Names DEF RefuseDownload
<1>18. CASE LookUpFile(r)
  BY <1>3, <1>6, <1>18, LookUpFileDoes, Names DEF LookUpFile
<1>19. CASE Stream(r)
  BY <1>3, <1>6, <1>19, StreamDoes, Names DEF Stream
<1> QED
  BY <1>7, <1>8, <1>9, <1>10, <1>11, <1>12, <1>13, <1>14, <1>15, <1>16, <1>17, <1>18, <1>19
     DEF CheckStep

(***************************************************************************)
(* A step of a check, and what was available                               *)
(***************************************************************************)

LEMMA AvailableStep ==
    ASSUME OtaInv, NEW r \in Requests, CheckStep(r)
    PROVE  AvailableIsRecorded(r)'
<1>1. AvailableIsRecorded(r)
  BY DEF OtaInv, CheckInv
<1>2. ASSUME UNCHANGED <<since, releases, uploads, overrides>>,
             NEW result, NEW offer, NEW log, Ends(r, result, offer, log),
             offer # None => /\ offer.version \in since[r].available
                             /\ Greater(offer.version, checks[r].version)
      PROVE  AvailableIsRecorded(r)'
  <2>1. /\ checks'[r].verdict.offer = offer /\ checks'[r].stage = "result"
        /\ checks'[r].version = checks[r].version
    BY <1>2 DEF Ends, Becomes
  <2> QED
    BY <1>2, <2>1, Names DEF AvailableIsRecorded, OfferMade, Greater
<1>3. ASSUME UNCHANGED <<since, releases, uploads, overrides>>,
             NEW stage \in Reading, NEW pin, Moves(r, stage, pin), checks[r].stage \in Reading,
             stage = "pinned" => /\ pin \in since[r].available
                                 /\ Greater(pin, checks[r].version)
      PROVE  AvailableIsRecorded(r)'
  <2>1. checks[r].verdict = None
    BY <1>3, CheckTyped, Names
  <2>2. Available(checks[r].mac)' = Available(checks[r].mac)
    BY <1>3 DEF Moves, Becomes, Available, Exists
  <2> QED
    BY <1>1, <1>3, <2>1, <2>2, Names
       DEF Moves, Becomes, AvailableIsRecorded, OfferMade, Greater, Available, Exists
<1>4. ASSUME UNCHANGED <<since, releases, uploads, overrides>>,
             NEW stage \in Finalizing \cup Answered, NEW pin, NEW log, NEW file, NEW got,
             Becomes(r, stage, pin, checks[r].verdict, log, file, got)
      PROVE  AvailableIsRecorded(r)'
  BY <1>1, <1>4, Names DEF Becomes, AvailableIsRecorded, OfferMade, Greater
<1>5. CASE Begin(r)
  <2>1. PICK m \in Macs, w \in Reported \cup {None} :
          /\ checks'[r].stage = IF w # None THEN "touch" ELSE "result"
          /\ checks'[r].mac = m /\ checks'[r].version = w
          /\ checks'[r].verdict = IF w # None THEN None
                                  ELSE [result |-> "invalid_version", offer |-> None]
          /\ since' = [since EXCEPT ![r] =
                [blocked |-> devices[m] = "blocked",
                 pin |-> BindingPin(m, w), available |-> Available(m)]]
    BY <1>5, BeginDoes
  <2>2. since'[r].available = Available(m)
    BY <2>1 DEF OtaInv, TypeOK
  <2>3. Available(checks[r].mac)' = Available(m)
    BY <1>5, <2>1 DEF Begin, Available, Exists
  <2> QED
    BY <2>1, <2>2, <2>3, Names DEF AvailableIsRecorded, OfferMade
<1>6. CASE Touch(r)
  BY <1>3, <1>6, TouchDoes, Names DEF Touch, OthersUnchanged
<1>7. CASE Find(r)
  BY <1>2, <1>3, <1>7, FindDoes, Names DEF Find, OthersUnchanged
<1>8. CASE ReadOverride(r)
  <2> DEFINE pin == overrides[checks[r].mac]
  <2>1. checks[r].stage = "override" /\ checks[r].mac \in Macs
    BY <1>8, CheckTyped DEF ReadOverride
  <2>2. pin # None => pin \in since[r].available
    <3>1. pin \in Versions \cup {None}
      BY <2>1 DEF OtaInv, ReleasesInv, ReleaseTypeOK
    <3>2. Available(checks[r].mac) \subseteq since[r].available
      BY <1>1, <2>1, Names DEF AvailableIsRecorded
    <3> QED
      BY <3>1, <3>2 DEF Available
  <2> QED
    BY <1>3, <1>8, <2>1, <2>2, ReadOverrideDoes, Names DEF ReadOverride, OthersUnchanged
<1>9. CASE ReadPinned(r)
  <2>1. /\ checks[r].stage = "pinned" /\ UNCHANGED <<since, releases, uploads, overrides>>
        /\ checks[r].pin \in since[r].available /\ Greater(checks[r].pin, checks[r].version)
    BY <1>1, <1>9 DEF ReadPinned, OthersUnchanged, AvailableIsRecorded
  <2>2. CASE HasFile(checks[r].pin)
    BY <1>2, <1>9, <2>1, <2>2, ReadPinnedDoes DEF OfferOf
  <2>3. CASE ~HasFile(checks[r].pin)
    BY <1>3, <1>9, <2>1, <2>3, ReadPinnedDoes, Names
  <2> QED
    BY <2>2, <2>3
<1>10. CASE ReadLatest(r)
  <2>1. /\ checks[r].stage = "latest" /\ UNCHANGED <<since, releases, uploads, overrides>>
        /\ Available(checks[r].mac) \subseteq since[r].available
    BY <1>1, <1>10, Names DEF ReadLatest, OthersUnchanged, AvailableIsRecorded
  <2>2. ActiveLatest \subseteq since[r].available
    BY <2>1 DEF ActiveLatest, Available
  <2> QED
    BY <1>2, <1>10, <2>1, <2>2, ReadLatestDoes DEF OfferOf
<1>11. CASE WriteResult(r)
  BY <1>4, <1>11, WriteResultDoes, Names DEF WriteResult, Moves, OthersUnchanged
<1>12. CASE Log(r)
  BY <1>4, <1>12, LogDoes, Names DEF Log, OthersUnchanged
<1>13. CASE Fail(r)
  BY <1>2, <1>13, FailDoes DEF Fail, OthersUnchanged
<1>14. CASE Cut(r)
  <2>1. checks'[r].stage = "idle" /\ checks'[r].verdict = None
    BY <1>14, CheckTyped DEF Cut, Idle
  <2> QED
    BY <2>1, Names DEF AvailableIsRecorded, OfferMade
<1>15. CASE RefuseDownload(r)
  BY <1>4, <1>15, RefuseDownloadDoes, Names DEF RefuseDownload, OthersUnchanged
<1>16. CASE LookUpFile(r)
  BY <1>4, <1>16, LookUpFileDoes, Names DEF LookUpFile, OthersUnchanged
<1>17. CASE Stream(r)
  BY <1>4, <1>17, StreamDoes, Names DEF Stream, OthersUnchanged
<1> QED
  BY <1>5, <1>6, <1>7, <1>8, <1>9, <1>10, <1>11, <1>12, <1>13, <1>14, <1>15, <1>16, <1>17
     DEF CheckStep

(***************************************************************************)
(* A step of a check, and the pin                                          *)
(***************************************************************************)

LEMMA PinStep ==
    ASSUME OtaInv, NEW r \in Requests, CheckStep(r)
    PROVE  PinIsFollowed(r)'
<1>1. PinIsFollowed(r)
  BY DEF OtaInv, CheckInv
<1>2. ASSUME UNCHANGED <<since, releases, uploads, overrides>>,
             NEW result \in Results, NEW offer \in Offer \cup {None}, NEW log,
             Ends(r, result, offer, log),
             since[r].pin # None => \/ result \in {"blocked", "error_fallback"}
                                    \/ offer # None /\ offer.version = since[r].pin
      PROVE  PinIsFollowed(r)'
  <2>1. /\ checks'[r].verdict = [result |-> result, offer |-> offer]
        /\ checks'[r].stage = "result"
    BY <1>2 DEF Ends, Becomes
  <2>2. checks'[r].verdict # None
    BY <2>1, OtaAssumption DEF Verdict
  <2>3. checks'[r].verdict.result = result /\ checks'[r].verdict.offer = offer
    BY <2>1
  <2> QED
    BY <1>2, <2>1, <2>2, <2>3, Names DEF PinIsFollowed, OfferMade
<1>3. ASSUME UNCHANGED <<since, releases, uploads, overrides>>,
             NEW stage \in Reading, NEW pin, Moves(r, stage, pin), checks[r].stage \in Reading,
             since[r].pin # None => /\ stage # "latest"
                                    /\ stage = "pinned" => pin = since[r].pin
      PROVE  PinIsFollowed(r)'
  <2>1. /\ checks'[r].stage = stage /\ checks'[r].mac = checks[r].mac
        /\ checks'[r].version = checks[r].version /\ checks'[r].pin = pin
    BY <1>3 DEF Moves, Becomes
  <2> QED
    BY <1>1, <1>3, <2>1, Names DEF PinIsFollowed, HasFile, Exists, Greater
<1>4. ASSUME UNCHANGED <<since, releases, uploads, overrides>>,
             NEW stage \in Finalizing \cup Answered, NEW pin, NEW log, NEW file, NEW got,
             checks[r].stage \in Finalizing \cup Answered,
             Becomes(r, stage, pin, checks[r].verdict, log, file, got)
      PROVE  PinIsFollowed(r)'
  BY <1>1, <1>4, Names DEF Becomes, PinIsFollowed, OfferMade
<1>5. CASE Begin(r)
  <2>1. PICK m \in Macs, w \in Reported \cup {None} :
          /\ checks'[r].stage = IF w # None THEN "touch" ELSE "result"
          /\ checks'[r].mac = m /\ checks'[r].version = w
          /\ since' = [since EXCEPT ![r] =
                [blocked |-> devices[m] = "blocked",
                 pin |-> BindingPin(m, w), available |-> Available(m)]]
    BY <1>5, BeginDoes
  <2>2. since'[r].pin = BindingPin(m, w)
    BY <2>1 DEF OtaInv, TypeOK
  <2>3. UNCHANGED <<releases, overrides>>
    BY <1>5 DEF Begin
  <2> QED
    BY <2>1, <2>2, <2>3, Names DEF PinIsFollowed, BindingPin, HasFile, Exists, Greater
<1>6. CASE Touch(r)
  BY <1>3, <1>6, TouchDoes, Names DEF Touch, OthersUnchanged
<1>7. CASE Find(r)
  BY <1>2, <1>3, <1>7, FindDoes, Names DEF Find, OthersUnchanged
<1>8. CASE ReadOverride(r)
  <2>1. since[r].pin # None =>
          /\ overrides[checks[r].mac] = since[r].pin
          /\ Greater(since[r].pin, checks[r].version)
    BY <1>1, <1>8, Names DEF ReadOverride, PinIsFollowed
  <2> QED
    BY <1>3, <1>8, <2>1, ReadOverrideDoes, Names DEF ReadOverride, OthersUnchanged
<1>9. CASE ReadPinned(r)
  <2>1. /\ checks[r].stage = "pinned" /\ UNCHANGED <<since, releases, uploads, overrides>>
        /\ since[r].pin # None => checks[r].pin = since[r].pin /\ HasFile(checks[r].pin)
    BY <1>1, <1>9, Names DEF ReadPinned, OthersUnchanged, PinIsFollowed
  <2>2. CASE HasFile(checks[r].pin)
    <3>1. /\ OfferOf(checks[r].pin) \in Offer
          /\ OfferOf(checks[r].pin).version = checks[r].pin
          /\ Ends(r, "update_available", OfferOf(checks[r].pin), checks[r].log)
      BY <1>9, <2>2, ReadPinnedDoes DEF OfferOf
    <3> QED
      BY <1>2, <2>1, <3>1, OtaAssumption, Names
  <2>3. CASE ~HasFile(checks[r].pin)
    BY <1>3, <1>9, <2>1, <2>3, ReadPinnedDoes, Names
  <2> QED
    BY <2>2, <2>3
<1>10. CASE ReadLatest(r)
  <2>1. /\ since[r].pin = None /\ UNCHANGED <<since, releases, uploads, overrides>>
    BY <1>1, <1>10 DEF ReadLatest, OthersUnchanged, PinIsFollowed
  <2> QED
    BY <1>2, <1>10, <2>1, ReadLatestDoes, Names
<1>11. CASE WriteResult(r)
  BY <1>4, <1>11, WriteResultDoes, Names DEF WriteResult, Moves, OthersUnchanged
<1>12. CASE Log(r)
  BY <1>4, <1>12, LogDoes, Names DEF Log, OthersUnchanged
<1>13. CASE Fail(r)
  BY <1>2, <1>13, FailDoes, Names DEF Fail, OthersUnchanged
<1>14. CASE Cut(r)
  <2>1. since'[r].pin = None
    BY <1>14 DEF Cut, OtaInv, TypeOK, Nothing
  <2> QED
    BY <2>1 DEF PinIsFollowed
<1>15. CASE RefuseDownload(r)
  BY <1>4, <1>15, RefuseDownloadDoes, Names DEF RefuseDownload, OthersUnchanged
<1>16. CASE LookUpFile(r)
  BY <1>4, <1>16, LookUpFileDoes, Names DEF LookUpFile, OthersUnchanged
<1>17. CASE Stream(r)
  BY <1>4, <1>17, StreamDoes, Names DEF Stream, OthersUnchanged
<1> QED
  BY <1>5, <1>6, <1>7, <1>8, <1>9, <1>10, <1>11, <1>12, <1>13, <1>14, <1>15, <1>16, <1>17
     DEF CheckStep

(***************************************************************************)
(* A step of a check, and the blocked flag                                 *)
(***************************************************************************)

LEMMA BlockedStep ==
    ASSUME OtaInv, NEW r \in Requests, CheckStep(r)
    PROVE  BlockedStaysBlocked(r)'
<1>1. /\ BlockedStaysBlocked(r)
      /\ checks[r].stage \in Reading => checks[r].mac \in Macs /\ checks[r].verdict = None
      /\ \A m \in Macs : devices[m] = "blocked" => devices'[m] = "blocked"
  BY OnlyItsCheck, CheckTyped, Names DEF OtaInv, CheckInv, Reading
<1>2. ASSUME UNCHANGED since, NEW result, NEW offer, NEW log, Ends(r, result, offer, log),
             since[r].blocked => offer = None
      PROVE  BlockedStaysBlocked(r)'
  <2>1. checks'[r].verdict.offer = offer /\ checks'[r].stage = "result"
    BY <1>2 DEF Ends, Becomes
  <2> QED
    BY <1>2, <2>1, Names DEF BlockedStaysBlocked, OfferMade
<1>3. ASSUME UNCHANGED since, NEW stage \in Reading, NEW pin, Moves(r, stage, pin),
             checks[r].stage \in Reading,
             since[r].blocked => stage \notin {"override", "pinned", "latest"}
      PROVE  BlockedStaysBlocked(r)'
  BY <1>1, <1>3, Names DEF Moves, Becomes, BlockedStaysBlocked, OfferMade
<1>4. ASSUME UNCHANGED since,
             NEW stage \in Finalizing \cup Answered, NEW pin, NEW log, NEW file, NEW got,
             Becomes(r, stage, pin, checks[r].verdict, log, file, got)
      PROVE  BlockedStaysBlocked(r)'
  BY <1>1, <1>4, Names DEF Becomes, BlockedStaysBlocked, OfferMade
<1>5. CASE Begin(r)
  <2>1. PICK m \in Macs, w \in Reported \cup {None} :
          /\ checks'[r].stage = IF w # None THEN "touch" ELSE "result"
          /\ checks'[r].mac = m
          /\ checks'[r].verdict = IF w # None THEN None
                                  ELSE [result |-> "invalid_version", offer |-> None]
          /\ since' = [since EXCEPT ![r] =
                [blocked |-> devices[m] = "blocked",
                 pin |-> BindingPin(m, w), available |-> Available(m)]]
    BY <1>5, BeginDoes
  <2>2. since'[r].blocked = (devices[m] = "blocked")
    BY <2>1 DEF OtaInv, TypeOK
  <2>3. checks'[r].verdict = None \/ checks'[r].verdict.offer = None
    BY <2>1
  <2>4. UNCHANGED devices /\ checks'[r].stage \in {"touch", "result"}
    BY <1>5, <2>1 DEF Begin
  <2> QED
    BY <2>1, <2>2, <2>3, <2>4, Names DEF BlockedStaysBlocked, OfferMade
<1>6. CASE Touch(r)
  BY <1>3, <1>6, TouchDoes, Names DEF Touch, OthersUnchanged
<1>7. CASE Find(r)
  <2>1. since[r].blocked => devices[checks[r].mac] = "blocked"
    BY <1>1, <1>7, Names DEF Find, BlockedStaysBlocked
  <2> QED
    BY <1>2, <1>3, <1>7, <2>1, FindDoes, Names DEF Find, OthersUnchanged
<1>8. CASE ReadOverride(r) \/ ReadPinned(r) \/ ReadLatest(r)
  <2>1. ~since[r].blocked /\ UNCHANGED since
    BY <1>1, <1>8
       DEF ReadOverride, ReadPinned, ReadLatest, OthersUnchanged, BlockedStaysBlocked
  <2> QED
    BY <2>1 DEF BlockedStaysBlocked
<1>9. CASE WriteResult(r)
  BY <1>4, <1>9, WriteResultDoes, Names DEF WriteResult, Moves, OthersUnchanged
<1>10. CASE Log(r)
  BY <1>4, <1>10, LogDoes, Names DEF Log, OthersUnchanged
<1>11. CASE Fail(r)
  BY <1>2, <1>11, FailDoes DEF Fail, OthersUnchanged
<1>12. CASE Cut(r)
  <2>1. since'[r].blocked = FALSE
    BY <1>12 DEF Cut, OtaInv, TypeOK, Nothing
  <2> QED
    BY <2>1 DEF BlockedStaysBlocked
<1>13. CASE RefuseDownload(r)
  BY <1>4, <1>13, RefuseDownloadDoes, Names DEF RefuseDownload, OthersUnchanged
<1>14. CASE LookUpFile(r)
  BY <1>4, <1>14, LookUpFileDoes, Names DEF LookUpFile, OthersUnchanged
<1>15. CASE Stream(r)
  BY <1>4, <1>15, StreamDoes, Names DEF Stream, OthersUnchanged
<1> QED
  BY <1>5, <1>6, <1>7, <1>8, <1>9, <1>10, <1>11, <1>12, <1>13, <1>14, <1>15 DEF CheckStep

(***************************************************************************)
(* A step of a check, and the files                                        *)
(***************************************************************************)

\* The file of a release that exists is firmware for it.
LEMMA OfferedFile ==
    ASSUME OtaInv, NEW v \in Versions, Exists(v), OfferOf(v).sha256 # None
    PROVE  FileFor(OfferOf(v).sha256, v)
<1>1. releases[v].file # None /\ OfferOf(v).sha256 = releases[v].file
  BY OfferTyped
<1>2. uploads[releases[v].file] = [stage |-> "linked", version |-> v]
  BY <1>1 DEF OtaInv, ReleasesInv, ReleaseIsWhole
<1> QED
  BY <1>1, <1>2, OfferTyped DEF FileFor

LEMMA FilesStep ==
    ASSUME OtaInv, NEW r \in Requests, CheckStep(r)
    PROVE  FilesAreOfTheOffer(r)'
<1>1. /\ FilesAreOfTheOffer(r) /\ UNCHANGED <<releases, uploads>>
      /\ checks[r].stage \in Reading \cup Finalizing => checks[r].got = None
      /\ checks[r].stage \in Reading => checks[r].verdict = None
  BY OnlyItsCheck, CheckTyped, Names
     DEF OtaInv, CheckInv, FilesAreOfTheOffer, Reading, Finalizing, Answered
<1>2. ASSUME NEW result, NEW offer, NEW log, Ends(r, result, offer, log),
             checks[r].stage \in Reading \cup Finalizing,
             offer # None => /\ offer.version \in Versions /\ Exists(offer.version)
                             /\ offer = OfferOf(offer.version)
      PROVE  FilesAreOfTheOffer(r)'
  <2>1. /\ checks'[r].verdict.offer = offer /\ checks'[r].stage = "result"
        /\ checks'[r].got = None
    BY <1>1, <1>2 DEF Ends, Becomes
  <2>2. offer # None /\ offer.sha256 # None => FileFor(offer.sha256, offer.version)
    BY <1>2, OfferedFile
  <2> QED
    BY <1>1, <1>2, <2>1, <2>2, Names
       DEF FilesAreOfTheOffer, OfferMade, FileFor, Exists
<1>3. ASSUME NEW stage \in Reading, NEW pin, Moves(r, stage, pin), checks[r].stage \in Reading
      PROVE  FilesAreOfTheOffer(r)'
  BY <1>1, <1>3, Names DEF Moves, Becomes, FilesAreOfTheOffer, OfferMade
<1>4. ASSUME NEW stage \in Finalizing \cup Answered, NEW pin, NEW log, NEW file, NEW got,
             Becomes(r, stage, pin, checks[r].verdict, log, file, got),
             stage = "download" => OfferMade(r) /\ GoodFor(checks[r].verdict.offer, file),
             stage \notin Answered => got = None,
             got \notin {None, Forbidden} =>
                /\ OfferMade(r)
                /\ IF got = NotFound THEN checks[r].verdict.offer.sha256 = None
                   ELSE GoodFor(checks[r].verdict.offer, got)
      PROVE  FilesAreOfTheOffer(r)'
  BY <1>1, <1>4, Names
     DEF Becomes, FilesAreOfTheOffer, OfferMade, GoodFor, FileFor, Exists, Superseded
<1>5. CASE Begin(r)
  <2>1. /\ checks'[r].stage \in {"touch", "result"} /\ checks'[r].got = None
        /\ checks'[r].verdict = None \/ checks'[r].verdict.offer = None
    BY <1>5, BeginDoes
  <2> QED
    BY <2>1, Names DEF FilesAreOfTheOffer, OfferMade
<1>6. CASE Touch(r)
  BY <1>3, <1>6, TouchDoes, Names DEF Touch
<1>7. CASE Find(r)
  BY <1>2, <1>3, <1>7, FindDoes, Names DEF Find
<1>8. CASE ReadOverride(r)
  BY <1>3, <1>8, ReadOverrideDoes, Names DEF ReadOverride
<1>9. CASE ReadPinned(r)
  <2>1. checks[r].stage = "pinned"
    BY <1>9 DEF ReadPinned
  <2>2. CASE HasFile(checks[r].pin)
    BY <1>2, <1>9, <2>1, <2>2, ReadPinnedDoes, Names DEF OfferOf, HasFile
  <2>3. CASE ~HasFile(checks[r].pin)
    BY <1>3, <1>9, <2>1, <2>3, ReadPinnedDoes, Names
  <2> QED
    BY <2>2, <2>3
<1>10. CASE ReadLatest(r)
  <2>1. checks[r].stage = "latest" /\ \A v \in ActiveLatest : v \in Versions /\ Exists(v)
    BY <1>10 DEF ReadLatest, ActiveLatest
  <2> QED
    BY <1>2, <1>10, <2>1, ReadLatestDoes, Names DEF OfferOf
<1>11. CASE WriteResult(r)
  BY <1>1, <1>4, <1>11, WriteResultDoes, Names DEF WriteResult, Moves
<1>12. CASE Log(r)
  BY <1>1, <1>4, <1>12, LogDoes, Names DEF Log
<1>13. CASE Fail(r)
  BY <1>2, <1>13, FailDoes DEF Fail
<1>14. CASE Cut(r)
  <2>1. checks'[r].stage = "idle" /\ checks'[r].verdict = None /\ checks'[r].got = None
    BY <1>14, CheckTyped DEF Cut, Idle
  <2> QED
    BY <2>1, Names DEF FilesAreOfTheOffer, OfferMade
<1>15. CASE RefuseDownload(r)
  BY <1>4, <1>15, RefuseDownloadDoes, Names
<1>16. CASE LookUpFile(r)
  <2> DEFINE offer == checks[r].verdict.offer
  <2> DEFINE v == offer.version
  <2>1. /\ checks[r].stage = "answered"
        /\ OfferMade(r) /\ v \in Versions /\ Exists(v)
        /\ offer.sha256 # None => FileFor(offer.sha256, v)
    BY <1>1, <1>16, LookUpFileDoes DEF LookUpFile, FilesAreOfTheOffer
  <2>2. offer.sha256 # None => releases[v].file # None
    BY <2>1 DEF FileFor, HasFile, OtaInv, ReleasesInv, UploadsHaveReleases
  <2>3. CASE releases[v].file = None
    BY <1>4, <1>16, <2>1, <2>2, <2>3, LookUpFileDoes, Names
  <2>4. CASE releases[v].file # None
    <3>1. FileFor(releases[v].file, v)
      BY <2>1, <2>4, OfferedFile, OfferTyped
    <3>2. GoodFor(offer, releases[v].file)
      BY <2>1, <3>1 DEF GoodFor, FileFor, Superseded
    <3>3. checks[r].got \notin {None, Forbidden} =>
            IF checks[r].got = NotFound THEN offer.sha256 = None ELSE GoodFor(offer, checks[r].got)
      BY <1>1 DEF FilesAreOfTheOffer
    <3> QED
      BY <1>4, <1>16, <2>1, <2>4, <3>2, <3>3, LookUpFileDoes, Names
  <2> QED
    BY <2>3, <2>4
<1>17. CASE Stream(r)
  <2>1. OfferMade(r) /\ GoodFor(checks[r].verdict.offer, checks[r].file)
    BY <1>1, <1>17 DEF Stream, FilesAreOfTheOffer
  <2>2. checks[r].file # NotFound
    BY <2>1, OtaAssumption DEF GoodFor, FileFor
  <2> QED
    BY <1>4, <1>17, <2>1, <2>2, StreamDoes, Names
<1> QED
  BY <1>5, <1>6, <1>7, <1>8, <1>9, <1>10, <1>11, <1>12, <1>13, <1>14, <1>15, <1>16, <1>17
     DEF CheckStep

(***************************************************************************)
(* The steps of the others                                                 *)
(***************************************************************************)

\* A check that does not move is not disturbed by those that do.
LEMMA CheckStays ==
    ASSUME OtaInv, NEW q \in Requests,
           checks'[q] = checks[q], since'[q] = since[q],
           UNCHANGED <<releases, uploads, overrides>>,
           \A m \in Macs : devices[m] = "blocked" => devices'[m] = "blocked"
    PROVE  CheckInv(q)' /\ Shaped(q)'
<1>1. CheckInv(q) /\ Shaped(q)
  BY DEF OtaInv, TypeOK, Shaped
<1>2. LogFollows(q)'
  BY <1>1 DEF CheckInv, LogFollows
<1>3. AvailableIsRecorded(q)'
  <2>1. Available(checks[q].mac)' = Available(checks[q].mac)
    BY DEF Available, Exists
  <2> QED
    BY <1>1, <2>1 DEF CheckInv, AvailableIsRecorded, OfferMade, Greater, Available, Exists
<1>4. PinIsFollowed(q)'
  BY <1>1 DEF CheckInv, PinIsFollowed, OfferMade, HasFile, Exists, Greater
<1>5. BlockedStaysBlocked(q)'
  BY <1>1, CheckTyped, Names DEF CheckInv, BlockedStaysBlocked, OfferMade, Reading
<1>6. FilesAreOfTheOffer(q)'
  BY <1>1
     DEF CheckInv, FilesAreOfTheOffer, OfferMade, Exists, FileFor, GoodFor, Superseded
<1>7. Shaped(q)'
  BY <1>1 DEF Shaped
<1> QED
  BY <1>2, <1>3, <1>4, <1>5, <1>6, <1>7 DEF CheckInv

\* Administrators cannot unmake a release nor a stored file, and what they change
\* of what a check may offer is recorded with it.
LEMMA CheckSurvives ==
    ASSUME OtaInv, AdminStep, NEW q \in Requests
    PROVE  CheckInv(q)' /\ Shaped(q)'
<1>1. /\ CheckInv(q) /\ Shaped(q)
      /\ UNCHANGED <<devices, checks>>
      /\ since \in [Requests -> History]
  BY AdminStepDoes DEF OtaInv, TypeOK, Shaped
<1>2. /\ \A v \in Versions :
            /\ Exists(v) => releases'[v] # None
            /\ HasFile(v) => releases'[v] # None /\ releases'[v].file # None
      /\ \A u \in Uploads : uploads[u].stage = "linked" =>
            /\ uploads'[u] = uploads[u]
            /\ Superseded(u) => releases'[uploads[u].version].file # u
  BY AdminStepDoes, ReleasesKeep DEF OtaInv
<1>3. LogFollows(q)'
  BY <1>1 DEF CheckInv, LogFollows
<1>4. AvailableIsRecorded(q)'
  <2>1. /\ since[q].available \subseteq since'[q].available
        /\ checks[q].stage \in Reading => Available(checks[q].mac)' \subseteq since'[q].available
    BY AdminStepDoes
  <2> QED
    BY <1>1, <2>1 DEF CheckInv, AvailableIsRecorded, OfferMade, Greater
<1>5. PinIsFollowed(q)'
  <2>1. since'[q].pin # None =>
          /\ since'[q].pin = since[q].pin
          /\ checks[q].stage \in Reading =>
                overrides'[checks[q].mac] = overrides[checks[q].mac]
    BY AdminStepDoes
  <2>2. since[q].pin \in Versions \cup {None}
    BY <1>1 DEF History
  <2> QED
    BY <1>1, <1>2, <2>1, <2>2
       DEF CheckInv, PinIsFollowed, OfferMade, HasFile, Exists, Greater
<1>6. BlockedStaysBlocked(q)'
  BY <1>1, AdminStepDoes DEF CheckInv, BlockedStaysBlocked, OfferMade
<1>7. FilesAreOfTheOffer(q)'
  <2> DEFINE offer == checks[q].verdict.offer
  <2>1. OfferMade(q) => offer \in Offer
    BY CheckTyped DEF OfferMade, Verdict
  <2>2. ASSUME NEW u, NEW v, FileFor(u, v) PROVE FileFor(u, v)'
    BY <1>2, <2>2 DEF FileFor
  <2>3. ASSUME OfferMade(q), NEW u, GoodFor(offer, u)
        PROVE  FileFor(u, offer.version)' /\ (offer.sha256 \in {None, u}
                  \/ (uploads'[offer.sha256].stage = "linked"
                      /\ releases'[uploads'[offer.sha256].version].file # offer.sha256))
    <3>1. offer.sha256 \in Uploads \cup {None}
      BY <2>1, <2>3 DEF Offer
    <3>2. Superseded(offer.sha256) /\ offer.sha256 \in Uploads =>
            /\ uploads'[offer.sha256].stage = "linked"
            /\ releases'[uploads'[offer.sha256].version].file # offer.sha256
      <4> DEFINE s == offer.sha256
      <4>1. ASSUME s \in Uploads, Superseded(s)
            PROVE  /\ uploads[s].stage = "linked" /\ uploads'[s] = uploads[s]
                   /\ releases'[uploads[s].version].file # s
        <5>1. uploads[s].stage = "linked"
          BY <4>1 DEF Superseded
        <5> QED
          BY <1>2, <4>1, <5>1
      <4> QED
        BY <4>1
    <3>3. FileFor(u, offer.version)'
      BY <1>1, <2>2, <2>3 DEF GoodFor
    <3>4. \/ offer.sha256 \in {None, u}
          \/ Superseded(offer.sha256) /\ offer.sha256 \in Uploads
      BY <2>3, <3>1 DEF GoodFor
    <3> QED
      BY <3>2, <3>3, <3>4
  <2>4. OfferMade(q) => releases'[offer.version] # None
    BY <1>1, <1>2, <2>1 DEF CheckInv, FilesAreOfTheOffer, Offer
  <2> QED
    BY <1>1, <2>2, <2>3, <2>4
       DEF CheckInv, FilesAreOfTheOffer, OfferMade, Exists, GoodFor, FileFor, Superseded
<1>8. Shaped(q)'
  <2>1. CASE checks[q] = Idle
    <3>1. checks[q].stage \notin Reading
      BY <2>1, Names DEF Idle
    <3> QED
      BY <1>1, <3>1, AdminStepDoes DEF Shaped
  <2>2. CASE checks[q] # Idle
    BY <1>1, <2>2 DEF Shaped
  <2> QED
    BY <2>1, <2>2
<1> QED
  BY <1>3, <1>4, <1>5, <1>6, <1>7, <1>8 DEF CheckInv

(***************************************************************************)
(* The invariant                                                           *)
(***************************************************************************)

LEMMA OtaInit == Init => OtaInv
<1> SUFFICES ASSUME Init PROVE OtaInv
  OBVIOUS
<1>1. ReleasesInv
  BY ReleasesInit DEF Init
<1>2. ASSUME NEW r \in Requests
      PROVE  /\ checks[r] = Idle /\ since[r] = Nothing
             /\ checks[r].stage = "idle" /\ checks[r].verdict = None /\ checks[r].got = None
             /\ ~since[r].blocked /\ since[r].pin = None
  BY DEF Init, Idle, Nothing
<1>3. \A r \in Requests : CheckInv(r)
  BY <1>2, Names
     DEF CheckInv, LogFollows, AvailableIsRecorded, PinIsFollowed, BlockedStaysBlocked,
         FilesAreOfTheOffer, OfferMade
<1>4. TypeOK
  <2>1. Idle \in Check /\ Nothing \in History
    BY DEF Idle, Check, Stages, Nothing, History
  <2> QED
    BY <1>1, <1>2, <2>1 DEF Init, TypeOK, ReleasesInv
<1> QED
  BY <1>1, <1>3, <1>4 DEF OtaInv

LEMMA OtaStep == OtaInv /\ [Next]_otaVars => OtaInv'
<1> SUFFICES ASSUME OtaInv, [Next]_otaVars PROVE OtaInv'
  OBVIOUS
<1>1. /\ devices \in [Macs -> {"unseen", "seen", "blocked"}]
      /\ checks \in [Requests -> Check] /\ since \in [Requests -> History]
  BY DEF OtaInv, TypeOK
<1>2. ASSUME devices' \in [Macs -> {"unseen", "seen", "blocked"}],
             checks' \in [Requests -> Check], since' \in [Requests -> History],
             [Administer]_releaseVars, \A q \in Requests : CheckInv(q)' /\ Shaped(q)'
      PROVE  OtaInv'
  <2>1. ReleasesInv'
    BY <1>2, ReleasesStep DEF OtaInv
  <2> QED
    BY <1>2, <2>1 DEF OtaInv, TypeOK, ReleasesInv, Shaped
<1>3. ASSUME NEW r \in Requests, CheckStep(r) PROVE OtaInv'
  <2>1. \A q \in Requests \ {r} : CheckInv(q)' /\ Shaped(q)'
    BY <1>3, OnlyItsCheck, CheckStays
  <2>2. CheckInv(r)' /\ Shaped(r)'
    BY <1>3, LogStep, AvailableStep, PinStep, BlockedStep, FilesStep, ShapeStep DEF CheckInv
  <2>3. \A q \in Requests : CheckInv(q)' /\ Shaped(q)'
    BY <2>1, <2>2
  <2> QED
    BY <1>2, <1>3, <2>3, OnlyItsCheck DEF releaseVars
<1>4. CASE AdminStep
  BY <1>1, <1>2, <1>4, AdminStepDoes, CheckSurvives
<1>5. ASSUME NEW m \in Macs, Block(m) PROVE OtaInv'
  <2>1. /\ UNCHANGED <<releases, uploads, overrides, since, checks>>
        /\ devices' \in [Macs -> {"unseen", "seen", "blocked"}]
        /\ \A n \in Macs : devices[n] = "blocked" => devices'[n] = "blocked"
    BY <1>1, <1>5 DEF Block, OthersUnchanged
  <2> QED
    BY <1>1, <1>2, <2>1, CheckStays DEF releaseVars
<1>6. CASE UNCHANGED otaVars
  BY <1>1, <1>2, <1>6, CheckStays DEF otaVars, releaseVars
<1> QED
  BY <1>3, <1>4, <1>5, <1>6 DEF Next

\* What the invariant says of the properties that the runs check.
LEMMA OtaInvSays ==
    OtaInv => /\ TypeOK /\ ReleaseIsWhole
              /\ OfferWasAvailable /\ PinIsObeyed /\ BlockedGetsNothing
              /\ AnsweredIsAudited /\ ReceivedAsOffered
<1> SUFFICES ASSUME OtaInv
             PROVE  /\ TypeOK /\ ReleaseIsWhole
                    /\ OfferWasAvailable /\ PinIsObeyed /\ BlockedGetsNothing
                    /\ AnsweredIsAudited /\ ReceivedAsOffered
  OBVIOUS
<1>1. TypeOK /\ ReleaseIsWhole /\ \A r \in Requests : CheckInv(r)
  BY DEF OtaInv, ReleasesInv
<1>2. OfferWasAvailable
  BY <1>1 DEF OfferWasAvailable, CheckInv, AvailableIsRecorded
<1>3. PinIsObeyed
  BY <1>1 DEF PinIsObeyed, Ended, CheckInv, PinIsFollowed
<1>4. BlockedGetsNothing
  BY <1>1 DEF BlockedGetsNothing, CheckInv, BlockedStaysBlocked
<1>5. AnsweredIsAudited
  BY <1>1 DEF AnsweredIsAudited, Ended, CheckInv, LogFollows
<1>6. ReceivedAsOffered
  <2>1. ASSUME NEW r \in Requests, checks[r].got \notin {None, Forbidden, NotFound}
        PROVE  GoodFor(checks[r].verdict.offer, checks[r].got)
    BY <1>1, <2>1 DEF CheckInv, FilesAreOfTheOffer
  <2>2. ASSUME NEW r \in Requests, checks[r].got = NotFound, NotFound \notin {None, Forbidden}
        PROVE  checks[r].verdict.offer.sha256 = None
    BY <1>1, <2>2 DEF CheckInv, FilesAreOfTheOffer
  <2>3. ASSUME NEW offer, NEW u, GoodFor(offer, u)
        PROVE  /\ uploads[u].version = offer.version
               /\ offer.sha256 \in {None, u} \/ Superseded(offer.sha256)
    BY <2>3 DEF GoodFor, FileFor
  <2> QED
    BY <2>1, <2>2, <2>3 DEF ReceivedAsOffered
<1> QED
  BY <1>1, <1>2, <1>3, <1>4, <1>5, <1>6

(***************************************************************************)
(* Checks are always well typed: one that is idle has no history, one is   *)
(* decided exactly from the moment it is past reading, and its audit log   *)
(* has at most two entries.                                                *)
(***************************************************************************)
THEOREM ChecksAreTyped == Spec => []TypeOK
<1>1. OtaInv => TypeOK
  BY OtaInvSays
<1> QED
  BY <1>1, OtaInit, OtaStep, PTL DEF Spec

(***************************************************************************)
(* Devices checking and downloading meanwhile, a release's file id and     *)
(* hash are still of one finished upload that was made for it.             *)
(***************************************************************************)
THEOREM ReleasesStayWhole == Spec => []ReleaseIsWhole
<1>1. OtaInv => ReleaseIsWhole
  BY OtaInvSays
<1> QED
  BY <1>1, OtaInit, OtaStep, PTL DEF Spec

(***************************************************************************)
(* No device is offered a version that was neither enabled nor its pin at  *)
(* any moment of the check, nor one that is not above what it runs.        *)
(***************************************************************************)
THEOREM OffersWereAvailable == Spec => []OfferWasAvailable
<1>1. OtaInv => OfferWasAvailable
  BY OtaInvSays
<1> QED
  BY <1>1, OtaInit, OtaStep, PTL DEF Spec

(***************************************************************************)
(* A pin to a newer version with firmware, if it held all through a check, *)
(* is what the check answered, unless the device was blocked or the check  *)
(* failed: no interleaving with other pins, releases and uploads takes it  *)
(* to the latest release.                                                  *)
(***************************************************************************)
THEOREM PinsAreObeyed == Spec => []PinIsObeyed
<1>1. OtaInv => PinIsObeyed
  BY OtaInvSays
<1> QED
  BY <1>1, OtaInit, OtaStep, PTL DEF Spec

(***************************************************************************)
(* A device that was blocked when its check began is offered nothing by    *)
(* it, whatever other checks of the same device write down meanwhile.      *)
(***************************************************************************)
THEOREM BlockedDevicesGetNothing == Spec => []BlockedGetsNothing
<1>1. OtaInv => BlockedGetsNothing
  BY OtaInvSays
<1> QED
  BY <1>1, OtaInit, OtaStep, PTL DEF Spec

(***************************************************************************)
(* Whichever call of a check failed, the answer the device got is the last *)
(* audit entry of the check, and without a failure the only one.           *)
(***************************************************************************)
THEOREM AnswersAreAudited == Spec => []AnsweredIsAudited
<1>1. OtaInv => AnsweredIsAudited
  BY OtaInvSays
<1> QED
  BY <1>1, OtaInit, OtaStep, PTL DEF Spec

(***************************************************************************)
(* A device gets firmware of the version it was offered, and the file it   *)
(* was given the hash of unless that one has been replaced; only an offer  *)
(* without a hash can end in "not found".                                  *)
(***************************************************************************)
THEOREM DownloadsAreAsOffered == Spec => []ReceivedAsOffered
<1>1. OtaInv => ReceivedAsOffered
  BY OtaInvSays
<1> QED
  BY <1>1, OtaInit, OtaStep, PTL DEF Spec

(***************************************************************************)
(* With devices checking and downloading, replaced firmware still never    *)
(* comes back.                                                             *)
(***************************************************************************)
THEOREM SupersededFirmwareStaysGone == Spec => SupersededStaysGone
<1>1. OtaInv /\ [Next]_otaVars => [Administer]_releaseVars
  BY OnlyItsCheck
     DEF Next, AdminStep, Block, OthersUnchanged, otaVars, releaseVars
<1>2. OtaInv => ReleasesInv
  BY DEF OtaInv
<1>3. OtaInv /\ [Next]_otaVars =>
        [\A u \in Uploads : Superseded(u) => Superseded(u)']_releaseVars
  BY <1>1, <1>2, SupersededStep
<1> QED
  BY <1>3, OtaInit, OtaStep, PTL DEF Spec, SupersededStaysGone

===============================================================================
