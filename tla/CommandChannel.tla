---------------------------- MODULE CommandChannel ----------------------------
(***************************************************************************)
(* What the command queues and the bridges promise together, whatever      *)
(* workers, connections and tasks they are made of: a command that the API *)
(* accepted may be delivered as long as it waits, any number of times and  *)
(* in any order, and stops waiting once it was delivered or was dropped.   *)
(***************************************************************************)
EXTENDS Naturals

CONSTANT Commands  \* numbers 1 .. n, in the order of acceptance

VARIABLES
    accepted,   \* number of commands accepted
    waiting,    \* commands that may still be delivered
    delivered,  \* commands that were
    dropped     \* commands given up, delivered or not

channelVars == <<accepted, waiting, delivered, dropped>>

Init ==
    /\ accepted = 0
    /\ waiting = {}
    /\ delivered = {}
    /\ dropped = {}

Accept ==
    /\ accepted + 1 \in Commands
    /\ accepted' = accepted + 1
    /\ waiting' = waiting \cup {accepted + 1}
    /\ UNCHANGED <<delivered, dropped>>

Deliver(c) ==
    /\ c \in waiting
    /\ delivered' = delivered \cup {c}
    /\ UNCHANGED <<accepted, waiting, dropped>>

\* The broker acknowledged it.
Settle(c) ==
    /\ c \in waiting
    /\ c \in delivered
    /\ waiting' = waiting \ {c}
    /\ UNCHANGED <<accepted, delivered, dropped>>

\* A connection or a process is over, and with it what it had in its hands.
Drop(C) ==
    /\ C \subseteq waiting
    /\ waiting' = waiting \ C
    /\ dropped' = dropped \cup C
    /\ UNCHANGED <<accepted, delivered>>

Next ==
    \/ Accept
    \/ \E c \in Commands : Deliver(c) \/ Settle(c)
    \/ \E C \in SUBSET Commands : Drop(C)

Spec == Init /\ [][Next]_channelVars

===============================================================================
