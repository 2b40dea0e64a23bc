-------------------------------- MODULE MCOta --------------------------------
\* Values for model checking Ota: two versions that can be released, a device
\* that runs the older one or something older still, and whose bucket is the
\* last of the smaller rollout's or the first outside it.
EXTENDS Ota, TLC

MCVersions == {"1.0.0", "1.1.0"}
MCReported == {"0.9.0", "1.0.0"}
MCRank == ("0.9.0" :> 0) @@ ("1.0.0" :> 1) @@ ("1.1.0" :> 2)
MCPercentages == {49, 50}
MCBucket == [m \in Macs |-> 49]

Symmetry == Permutations(Uploads)

=============================================================================
