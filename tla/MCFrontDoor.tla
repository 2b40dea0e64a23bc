----------------------------- MODULE MCFrontDoor -----------------------------
\* Values for model checking FrontDoor: two people, one of whom spells the email
\* in two ways, and two administrators' requests at a time.
EXTENDS FrontDoor, TLC

MCEmails == {"ann", "Ann", "bob"}
MCCanon == ("ann" :> "ann") @@ ("Ann" :> "ann") @@ ("bob" :> "bob")

Symmetry == Permutations(AdminRequests)

=============================================================================
