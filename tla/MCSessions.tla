------------------------------ MODULE MCSessions ------------------------------
EXTENDS Sessions, TLC

Symmetry ==
    Permutations(Users) \cup Permutations(Codes) \cup Permutations(Refreshes)
        \cup Permutations(Requests)

===============================================================================
