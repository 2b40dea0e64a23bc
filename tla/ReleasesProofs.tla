---------------------------- MODULE ReleasesProofs ----------------------------
(***************************************************************************)
(* Proofs about Releases, for any versions, uploads, percentages and       *)
(* devices.                                                                *)
(***************************************************************************)
EXTENDS Releases, TLAPS

\* An upload that found its release has one, and one that is linked gave it a
\* file: releases are not deleted, and a file is replaced by another only.
UploadsHaveReleases ==
    \A u \in Uploads :
        /\ uploads[u] # NotStarted => Exists(uploads[u].version)
        /\ uploads[u].stage = "linked" => HasFile(uploads[u].version)

ReleasesInv == ReleaseTypeOK /\ UploadsHaveReleases /\ ReleaseIsWhole

LEMMA ReleasesInit == ReleaseInit => ReleasesInv
<1> SUFFICES ASSUME ReleaseInit PROVE ReleasesInv
  OBVIOUS
<1>1. ReleaseTypeOK
  BY DEF ReleaseInit, ReleaseTypeOK
<1>2. UploadsHaveReleases
  <2>1. NotStarted.stage # "linked"
    BY DEF NotStarted
  <2> QED
    BY <2>1 DEF ReleaseInit, UploadsHaveReleases
<1>3. ReleaseIsWhole
  BY DEF ReleaseInit, ReleaseIsWhole, Exists
<1> QED
  BY <1>1, <1>2, <1>3 DEF ReleasesInv

\* What an upload that is under way is and which release it is for.
LEMMA UploadTyped ==
    ASSUME ReleasesInv, NEW u \in Uploads, uploads[u].stage # "not started"
    PROVE  /\ uploads[u] \in Upload
           /\ uploads[u].version \in Versions
           /\ releases[uploads[u].version] \in Release
<1>1. uploads[u] # NotStarted
  <2>1. NotStarted.stage = "not started"
    BY DEF NotStarted
  <2> QED
    BY <2>1
<1>2. uploads[u] \in Upload
  BY <1>1 DEF ReleasesInv, ReleaseTypeOK
<1>3. uploads[u].version \in Versions
  BY <1>2 DEF Upload
<1>4. releases[uploads[u].version] \in Release
  BY <1>1, <1>3 DEF ReleasesInv, ReleaseTypeOK, UploadsHaveReleases, Exists
<1> QED
  BY <1>2, <1>3, <1>4

\* What LinkFile does to the release, as one update of its document.
LEMMA Linked ==
    ASSUME ReleasesInv, NEW u \in Uploads, LinkFile(u)
    PROVE  LET v == uploads[u].version
               r == releases[v]
               linked == [enabled |-> r.enabled, percentage |-> r.percentage,
                          file |-> u, sha256 |-> u]
           IN  /\ v \in Versions /\ linked \in Release
               /\ releases' = [releases EXCEPT ![v] = linked]
               /\ uploads' = [uploads EXCEPT ![u] = [stage |-> "linked", version |-> v]]
               /\ UNCHANGED overrides
<1> DEFINE v == uploads[u].version
<1> DEFINE r == releases[v]
<1>1. uploads[u].stage = "stored"
  BY DEF LinkFile
<1>2. /\ uploads[u] \in Upload /\ v \in Versions /\ r \in Release
      /\ releases \in [Versions -> Release \cup {None}]
      /\ uploads \in [Uploads -> Upload \cup {NotStarted}]
  BY <1>1, UploadTyped DEF ReleasesInv, ReleaseTypeOK
<1>3. [uploads[u] EXCEPT !.stage = "linked"] = [stage |-> "linked", version |-> v]
  BY <1>2 DEF Upload
<1>4. releases' = [releases EXCEPT ![v].file = u, ![v].sha256 = u]
  BY DEF LinkFile
<1>5. releases' = [releases EXCEPT ![v] = [enabled |-> r.enabled, percentage |-> r.percentage,
                                           file |-> u, sha256 |-> u]]
  <2>1. /\ releases'[v] \in Release
        /\ releases'[v].enabled = r.enabled /\ releases'[v].percentage = r.percentage
        /\ releases'[v].file = u /\ releases'[v].sha256 = u
    BY <1>2, <1>4 DEF Release
  <2>2. releases'[v] = [enabled |-> r.enabled, percentage |-> r.percentage,
                        file |-> u, sha256 |-> u]
    BY <2>1 DEF Release
  <2>3. releases' = [releases EXCEPT ![v] = releases'[v]]
    BY <1>2, <1>4
  <2> QED
    BY <2>2, <2>3
<1>6. uploads' = [uploads EXCEPT ![u] = [uploads[u] EXCEPT !.stage = "linked"]]
  BY <1>2 DEF LinkFile
<1>7. [enabled |-> r.enabled, percentage |-> r.percentage, file |-> u, sha256 |-> u] \in Release
  BY <1>2 DEF Release
<1> QED
  BY <1>2, <1>3, <1>5, <1>6, <1>7 DEF LinkFile

\* What CreateRelease, SetEnabled and SetRollout do to a release.
LEMMA Created ==
    ASSUME ReleasesInv, NEW v \in Versions, CreateRelease(v)
    PROVE  \E r \in Release :
              /\ r.file = None /\ r.sha256 = None
              /\ releases' = [releases EXCEPT ![v] = r]
<1>1. PICK enabled \in BOOLEAN, p \in Percentages :
        releases' = [releases EXCEPT ![v] =
           [enabled |-> enabled, percentage |-> p, file |-> None, sha256 |-> None]]
  BY DEF CreateRelease
<1>2. [enabled |-> enabled, percentage |-> p, file |-> None, sha256 |-> None] \in Release
  BY DEF Release
<1> QED
  BY <1>1, <1>2

LEMMA Changed ==
    ASSUME ReleasesInv, NEW v \in Versions, SetEnabled(v) \/ SetRollout(v)
    PROVE  \E r \in Release :
              /\ r.file = releases[v].file /\ r.sha256 = releases[v].sha256
              /\ releases' = [releases EXCEPT ![v] = r]
<1>1. /\ releases[v] \in Release
      /\ releases \in [Versions -> Release \cup {None}]
  BY DEF SetEnabled, SetRollout, Exists, ReleasesInv, ReleaseTypeOK
<1>2. CASE SetEnabled(v)
  <2>1. PICK enabled \in BOOLEAN : releases' = [releases EXCEPT ![v].enabled = enabled]
    BY <1>2 DEF SetEnabled
  <2> DEFINE r == [releases[v] EXCEPT !.enabled = enabled]
  <2>2. r \in Release /\ r.file = releases[v].file /\ r.sha256 = releases[v].sha256
    BY <1>1 DEF Release
  <2>3. releases' = [releases EXCEPT ![v] = r]
    BY <1>1, <2>1
  <2> QED
    BY <2>2, <2>3
<1>3. CASE SetRollout(v)
  <2>1. PICK p \in Percentages : releases' = [releases EXCEPT ![v].percentage = p]
    BY <1>3 DEF SetRollout
  <2> DEFINE r == [releases[v] EXCEPT !.percentage = p]
  <2>2. r \in Release /\ r.file = releases[v].file /\ r.sha256 = releases[v].sha256
    BY <1>1 DEF Release
  <2>3. releases' = [releases EXCEPT ![v] = r]
    BY <1>1, <2>1
  <2> QED
    BY <2>2, <2>3
<1> QED
  BY <1>2, <1>3

\* A release comes without a file, or keeps the one it has, or is linked.
LEMMA ReleaseStep ==
    ASSUME ReleasesInv, [Administer]_releaseVars
    PROVE  \/ \E v \in Versions, r \in Release :
                /\ ~Exists(v) /\ r.file = None /\ r.sha256 = None
                /\ releases' = [releases EXCEPT ![v] = r]
                /\ UNCHANGED uploads
           \/ \E v \in Versions, r \in Release :
                /\ Exists(v) /\ r.file = releases[v].file /\ r.sha256 = releases[v].sha256
                /\ releases' = [releases EXCEPT ![v] = r]
                /\ UNCHANGED uploads
           \/ \E u \in Uploads, v \in Versions : FindRelease(u, v)
           \/ \E u \in Uploads : StoreFile(u) \/ LinkFile(u)
           \/ UNCHANGED <<releases, uploads>>
<1>1. CASE \E v \in Versions : CreateRelease(v)
  <2>1. PICK v \in Versions : CreateRelease(v)
    BY <1>1
  <2> QED
    BY <2>1, Created DEF CreateRelease
<1>2. CASE \E v \in Versions : SetEnabled(v) \/ SetRollout(v)
  <2>1. PICK v \in Versions : SetEnabled(v) \/ SetRollout(v)
    BY <1>2
  <2> QED
    BY <2>1, Changed DEF SetEnabled, SetRollout
<1> QED
  BY <1>1, <1>2 DEF Administer, UpsertOverride, DeleteOverride, releaseVars

LEMMA OverridesTyped ==
    ASSUME ReleasesInv, [Administer]_releaseVars
    PROVE  overrides' \in [Macs -> Versions \cup {None}]
  BY DEF ReleasesInv, ReleaseTypeOK, Administer, CreateRelease, SetEnabled, SetRollout,
         FindRelease, StoreFile, LinkFile, UpsertOverride, DeleteOverride, releaseVars

LEMMA ReleasesStep == ReleasesInv /\ [Administer]_releaseVars => ReleasesInv'
<1> SUFFICES ASSUME ReleasesInv, [Administer]_releaseVars PROVE ReleasesInv'
  OBVIOUS
<1>1. /\ releases \in [Versions -> Release \cup {None}]
      /\ uploads \in [Uploads -> Upload \cup {NotStarted}]
      /\ overrides' \in [Macs -> Versions \cup {None}]
      /\ None \notin Release /\ None \notin Uploads
      /\ NotStarted.stage = "not started"
  BY OverridesTyped, NoneAssumption DEF ReleasesInv, ReleaseTypeOK, NotStarted
<1>2. ASSUME NEW v \in Versions, NEW r \in Release,
             releases' = [releases EXCEPT ![v] = r], UNCHANGED uploads,
             \/ ~Exists(v) /\ r.file = None /\ r.sha256 = None
             \/ Exists(v) /\ r.file = releases[v].file /\ r.sha256 = releases[v].sha256
      PROVE  ReleasesInv'
  <2>1. ReleaseTypeOK'
    BY <1>1, <1>2 DEF ReleaseTypeOK
  <2>2. \A w \in Versions : /\ Exists(w) => Exists(w)'
                            /\ HasFile(w) => HasFile(w)'
    BY <1>1, <1>2 DEF Exists, HasFile
  <2>3. UploadsHaveReleases'
    <3> SUFFICES ASSUME NEW u \in Uploads
                 PROVE  /\ uploads[u] # NotStarted => releases'[uploads[u].version] # None
                        /\ uploads[u].stage = "linked" =>
                              /\ releases'[uploads[u].version] # None
                              /\ releases'[uploads[u].version].file # None
      BY <1>2 DEF UploadsHaveReleases, Exists, HasFile
    <3>1. uploads[u] # NotStarted => uploads[u].version \in Versions
      BY <1>1 DEF Upload
    <3> QED
      BY <1>1, <2>2, <3>1 DEF ReleasesInv, UploadsHaveReleases, Exists, HasFile
  <2>4. ReleaseIsWhole'
    BY <1>1, <1>2 DEF ReleasesInv, ReleaseIsWhole, Exists
  <2> QED
    BY <2>1, <2>3, <2>4 DEF ReleasesInv
<1>3. ASSUME NEW u \in Uploads, NEW v \in Versions, NEW s \in {"found", "stored", "linked"},
             uploads' = [uploads EXCEPT ![u] = [stage |-> s, version |-> v]],
             releases'[v] # None, s = "linked" => releases'[v].file # None,
             uploads[u].stage # "linked",
             \A w \in Versions :
                /\ Exists(w) => releases'[w] # None
                /\ HasFile(w) => releases'[w] # None /\ releases'[w].file # None
      PROVE  UploadsHaveReleases'
  <2> SUFFICES ASSUME NEW t \in Uploads
               PROVE  /\ uploads'[t] # NotStarted => releases'[uploads'[t].version] # None
                      /\ uploads'[t].stage = "linked" =>
                            /\ releases'[uploads'[t].version] # None
                            /\ releases'[uploads'[t].version].file # None
    BY DEF UploadsHaveReleases, Exists, HasFile
  <2>1. CASE t = u
    <3>1. uploads'[t] = [stage |-> s, version |-> v]
      BY <1>1, <1>3, <2>1
    <3> QED
      BY <1>3, <3>1
  <2>2. CASE t # u
    <3>1. uploads'[t] = uploads[t] /\ uploads[t] \in Upload \cup {NotStarted}
      BY <1>1, <1>3, <2>2
    <3>2. uploads[t] # NotStarted => uploads[t].version \in Versions
      BY <3>1 DEF Upload
    <3>3. CASE uploads[t] = NotStarted
      BY <1>1, <3>1, <3>3
    <3>4. CASE uploads[t] # NotStarted
      <4>1. /\ uploads[t].version \in Versions /\ Exists(uploads[t].version)
            /\ uploads[t].stage = "linked" => HasFile(uploads[t].version)
        BY <3>2, <3>4 DEF ReleasesInv, UploadsHaveReleases
      <4> QED
        BY <1>3, <3>1, <4>1
    <3> QED
      BY <3>3, <3>4
  <2> QED
    BY <2>1, <2>2
<1>8. ASSUME NEW u \in Uploads, NEW x, uploads' = [uploads EXCEPT ![u] = x],
             uploads[u].stage # "linked", NEW w \in Versions, Exists(w), releases'[w] = releases[w]
      PROVE  /\ releases'[w].file = releases'[w].sha256
             /\ releases'[w].file # None =>
                   uploads'[releases'[w].file] = [stage |-> "linked", version |-> w]
  <2>1. releases[w] \in Release
    BY <1>1, <1>8 DEF Exists
  <2>2. releases[w].file \in Uploads \cup {None}
    BY <2>1 DEF Release
  <2>3. /\ releases[w].file = releases[w].sha256
        /\ releases[w].file # None =>
              uploads[releases[w].file] = [stage |-> "linked", version |-> w]
    BY <1>8 DEF ReleasesInv, ReleaseIsWhole
  <2>4. ASSUME releases[w].file = u PROVE FALSE
    <3>1. uploads[u] = [stage |-> "linked", version |-> w]
      BY <1>1, <2>3, <2>4
    <3>2. uploads[u].stage = "linked"
      BY <3>1
    <3> QED
      BY <1>8, <3>2
  <2> QED
    BY <1>1, <1>8, <2>2, <2>3, <2>4
<1>4. ASSUME NEW u \in Uploads, NEW v \in Versions, FindRelease(u, v) PROVE ReleasesInv'
  <2>1. /\ uploads' = [uploads EXCEPT ![u] = [stage |-> "found", version |-> v]]
        /\ uploads[u].stage # "linked" /\ releases[v] # None /\ UNCHANGED releases
    BY <1>1, <1>4 DEF FindRelease, Exists
  <2>2. UploadsHaveReleases'
    BY <1>3, <2>1 DEF Exists, HasFile
  <2>3. ReleaseTypeOK'
    BY <1>1, <2>1 DEF ReleaseTypeOK, Upload
  <2>4. ReleaseIsWhole'
    BY <1>8, <2>1 DEF ReleaseIsWhole, Exists
  <2> QED
    BY <2>2, <2>3, <2>4 DEF ReleasesInv
<1>5. ASSUME NEW u \in Uploads, StoreFile(u) PROVE ReleasesInv'
  <2> DEFINE v == uploads[u].version
  <2>1. uploads[u].stage = "found"
    BY <1>5 DEF StoreFile
  <2>2. uploads[u] \in Upload /\ v \in Versions /\ releases[v] \in Release
    BY <2>1, UploadTyped
  <2>3. /\ uploads' = [uploads EXCEPT ![u] = [stage |-> "stored", version |-> v]]
        /\ UNCHANGED releases
    <3>1. [uploads[u] EXCEPT !.stage = "stored"] = [stage |-> "stored", version |-> v]
      BY <2>2 DEF Upload
    <3>2. uploads' = [uploads EXCEPT ![u] = [uploads[u] EXCEPT !.stage = "stored"]]
      BY <1>5 DEF StoreFile
    <3> QED
      BY <1>5, <3>1, <3>2 DEF StoreFile
  <2>4. UploadsHaveReleases'
    BY <1>1, <1>3, <2>1, <2>2, <2>3 DEF Exists, HasFile
  <2>5. ReleaseTypeOK'
    BY <1>1, <2>2, <2>3 DEF ReleaseTypeOK, Upload
  <2>6. ReleaseIsWhole'
    BY <1>8, <2>1, <2>3 DEF ReleaseIsWhole, Exists
  <2> QED
    BY <2>4, <2>5, <2>6 DEF ReleasesInv
<1>6. ASSUME NEW u \in Uploads, LinkFile(u) PROVE ReleasesInv'
  <2> DEFINE v == uploads[u].version
  <2>1. PICK r \in Release :
          /\ v \in Versions /\ r.file = u /\ r.sha256 = u
          /\ releases' = [releases EXCEPT ![v] = r]
          /\ uploads' = [uploads EXCEPT ![u] = [stage |-> "linked", version |-> v]]
    BY <1>6, Linked
  <2>2. uploads[u].stage = "stored"
    BY <1>6 DEF LinkFile
  <2>3. \A w \in Versions :
           /\ Exists(w) => releases'[w] # None
           /\ HasFile(w) => releases'[w] # None /\ releases'[w].file # None
    BY <1>1, <2>1 DEF Exists, HasFile
  <2>4. UploadsHaveReleases'
    BY <1>1, <1>3, <2>1, <2>2, <2>3
  <2>5. ReleaseTypeOK'
    BY <1>1, <2>1 DEF ReleaseTypeOK, Upload
  <2>6. ReleaseIsWhole'
    <3> SUFFICES ASSUME NEW w \in Versions, releases'[w] # None
                 PROVE  /\ releases'[w].file = releases'[w].sha256
                        /\ releases'[w].file # None =>
                              uploads'[releases'[w].file] = [stage |-> "linked", version |-> w]
      BY DEF ReleaseIsWhole, Exists
    <3>1. CASE w = v
      BY <1>1, <2>1, <3>1
    <3>2. CASE w # v
      <4>1. releases'[w] = releases[w] /\ Exists(w)
        BY <1>1, <2>1, <3>2 DEF Exists
      <4> QED
        BY <1>8, <2>1, <2>2, <4>1
    <3> QED
      BY <3>1, <3>2
  <2> QED
    BY <2>4, <2>5, <2>6 DEF ReleasesInv
<1>7. CASE UNCHANGED <<releases, uploads>>
  BY <1>1, <1>7 DEF ReleasesInv, ReleaseTypeOK, UploadsHaveReleases, ReleaseIsWhole,
                    Exists, HasFile
<1> QED
  BY <1>2, <1>4, <1>5, <1>6, <1>7, ReleaseStep

\* What no administrator's step takes away: a release, its having a file, a
\* finished upload, and its having been replaced.
LEMMA ReleasesKeep ==
    ASSUME ReleasesInv, [Administer]_releaseVars
    PROVE  /\ \A v \in Versions :
                 /\ Exists(v) => releases'[v] # None
                 /\ HasFile(v) => releases'[v] # None /\ releases'[v].file # None
           /\ \A u \in Uploads : uploads[u].stage = "linked" =>
                 /\ uploads'[u] = uploads[u]
                 /\ Superseded(u) => releases'[uploads[u].version].file # u
<1>1. /\ releases \in [Versions -> Release \cup {None}]
      /\ uploads \in [Uploads -> Upload \cup {NotStarted}]
      /\ None \notin Release /\ None \notin Uploads
  BY NoneAssumption DEF ReleasesInv, ReleaseTypeOK
<1>2. ASSUME NEW u \in Uploads, uploads[u].stage = "linked"
      PROVE  uploads[u].version \in Versions /\ Exists(uploads[u].version)
  BY <1>2, UploadTyped, NoneAssumption DEF Exists
<1>3. ASSUME NEW v \in Versions, NEW r \in Release,
             releases' = [releases EXCEPT ![v] = r], UNCHANGED uploads,
             ~Exists(v) \/ r.file = releases[v].file
      PROVE  /\ \A w \in Versions :
                   /\ Exists(w) => releases'[w] # None
                   /\ HasFile(w) => releases'[w] # None /\ releases'[w].file # None
             /\ \A u \in Uploads : uploads[u].stage = "linked" =>
                   /\ uploads'[u] = uploads[u]
                   /\ Superseded(u) => releases'[uploads[u].version].file # u
  BY <1>1, <1>2, <1>3 DEF Exists, HasFile, Superseded
<1>4. ASSUME NEW u \in Uploads, NEW v \in Versions, FindRelease(u, v)
      PROVE  /\ \A t \in Uploads : uploads[t].stage = "linked" => uploads'[t] = uploads[t]
             /\ UNCHANGED releases
  <2>1. NotStarted.stage # "linked"
    BY DEF NotStarted
  <2> QED
    BY <1>1, <1>4, <2>1 DEF FindRelease
<1>5. ASSUME NEW u \in Uploads, StoreFile(u)
      PROVE  /\ \A t \in Uploads : uploads[t].stage = "linked" => uploads'[t] = uploads[t]
             /\ UNCHANGED releases
  BY <1>1, <1>5 DEF StoreFile
<1>6. ASSUME NEW u \in Uploads, LinkFile(u)
      PROVE  /\ \A w \in Versions :
                   /\ Exists(w) => releases'[w] # None
                   /\ HasFile(w) => releases'[w] # None /\ releases'[w].file # None
             /\ \A t \in Uploads : uploads[t].stage = "linked" =>
                   /\ uploads'[t] = uploads[t]
                   /\ Superseded(t) => releases'[uploads[t].version].file # t
  <2> DEFINE v == uploads[u].version
  <2>1. PICK r \in Release :
          v \in Versions /\ r.file = u /\ releases' = [releases EXCEPT ![v] = r]
    BY <1>6, Linked
  <2>2. \A t \in Uploads : uploads[t].stage = "linked" => t # u /\ uploads'[t] = uploads[t]
    BY <1>1, <1>6 DEF LinkFile
  <2> QED
    BY <1>1, <1>2, <2>1, <2>2 DEF Exists, HasFile, Superseded
<1>7. ASSUME UNCHANGED releases,
             \A u \in Uploads : uploads[u].stage = "linked" => uploads'[u] = uploads[u]
      PROVE  /\ \A v \in Versions :
                   /\ Exists(v) => releases'[v] # None
                   /\ HasFile(v) => releases'[v] # None /\ releases'[v].file # None
             /\ \A u \in Uploads : uploads[u].stage = "linked" =>
                   /\ uploads'[u] = uploads[u]
                   /\ Superseded(u) => releases'[uploads[u].version].file # u
  BY <1>7 DEF Exists, HasFile, Superseded
<1> QED
  BY <1>3, <1>4, <1>5, <1>6, <1>7, ReleaseStep

LEMMA SupersededStep ==
    ReleasesInv /\ [Administer]_releaseVars =>
        [\A u \in Uploads : Superseded(u) => Superseded(u)']_releaseVars
  BY ReleasesKeep DEF Superseded

(***************************************************************************)
(* However many uploads for a release interleave, its file and its hash    *)
(* are of one finished upload that was made for it.                        *)
(***************************************************************************)
THEOREM ReleasesHold == ReleaseSpec => [](ReleasesInv /\ ReleaseIsWhole)
<1>1. ReleasesInv => ReleaseIsWhole
  BY DEF ReleasesInv
<1> QED
  BY <1>1, ReleasesInit, ReleasesStep, PTL DEF ReleaseSpec

(***************************************************************************)
(* A file that another upload for its release replaced is never offered    *)
(* again, however late its own upload began or ended.                      *)
(***************************************************************************)
THEOREM ReplacedFilesStayGone == ReleaseSpec => SupersededStaysGone
<1>1. ReleasesInv /\ [Administer]_releaseVars =>
        [\A u \in Uploads : Superseded(u) => Superseded(u)']_releaseVars
  BY SupersededStep
<1> QED
  BY <1>1, ReleasesInit, ReleasesStep, PTL DEF ReleaseSpec, SupersededStaysGone

===============================================================================
