SPECIFICATION Spec
CONSTANTS
    None = None
    Versions <- MCVersions
    Reported <- MCReported
    Rank <- MCRank
    Percentages <- MCPercentages
    Bucket <- MCBucket
    Uploads = {u1, u2}
    Macs = {m1}
    Requests = {r1}
SYMMETRY Symmetry
INVARIANTS
    TypeOK
    ReleaseIsWhole
    OfferWasAvailable
    PinIsObeyed
    BlockedGetsNothing
    AnsweredIsAudited
    ReceivedAsOffered
PROPERTY SupersededStaysGone
