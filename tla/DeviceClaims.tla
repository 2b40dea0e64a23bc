----------------------------- MODULE DeviceClaims -----------------------------
(***************************************************************************)
(* What provisioning promises, with no database, worker or message in it:  *)
(* a user is issued one-time claims, a claim is good for one device at     *)
(* most, and a device has at most one owner, the holder of the claim that  *)
(* was spent on it, until it is released.                                  *)
(***************************************************************************)
CONSTANTS Users, Macs, Tokens, None

VARIABLES
    holder,  \* the user each token was issued to, None before
    open,    \* the tokens that may still claim a device
    owns     \* pairs <<mac, user>>

claimVars == <<holder, open, owns>>

Init ==
    /\ holder = [t \in Tokens |-> None]
    /\ open = {}
    /\ owns = {}

Issue(t, u) ==
    /\ holder[t] = None
    /\ holder' = [holder EXCEPT ![t] = u]
    /\ open' = open \cup {t}
    /\ UNCHANGED owns

\* In one step the token is spent and its holder owns a device nobody owned.
Claim(t, m) ==
    /\ t \in open
    /\ \A u \in Users : <<m, u>> \notin owns
    /\ owns' = owns \cup {<<m, holder[t]>>}
    /\ open' = open \ {t}
    /\ UNCHANGED holder

\* Expiry, a refused registration, or a bridge that died half-way.
Void(t) ==
    /\ t \in open
    /\ open' = open \ {t}
    /\ UNCHANGED <<holder, owns>>

Release(m) ==
    /\ owns' = {p \in owns : p[1] # m}
    /\ UNCHANGED <<holder, open>>

Next ==
    \/ \E t \in Tokens, u \in Users : Issue(t, u)
    \/ \E t \in Tokens, m \in Macs : Claim(t, m)
    \/ \E t \in Tokens : Void(t)
    \/ \E m \in Macs : Release(m)

Spec == Init /\ [][Next]_claimVars

===============================================================================
