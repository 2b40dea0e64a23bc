---------------------------- MODULE SlidingWindow ----------------------------
(***************************************************************************)
(* What a rate limit promises each client: a request is admitted if and    *)
(* only if fewer than MaxRequests were admitted within the last Window     *)
(* time units, the first instant of the window included.                   *)
(***************************************************************************)
EXTENDS Integers, Sequences

CONSTANTS Clients, MaxRequests, Window

VARIABLES
    now,            \* the time
    admitted,       \* client -> the times of its admitted requests, in order
    answer          \* client -> what its latest request was told

windowVars == <<now, admitted, answer>>

\* The MaxRequests-th latest admission of c is still in the window.
Full(c) ==
    \/ MaxRequests = 0
    \/ /\ Len(admitted[c]) >= MaxRequests
       /\ admitted[c][Len(admitted[c]) - MaxRequests + 1] >= now - Window

WindowInit ==
    /\ now = 0
    /\ admitted = [c \in Clients |-> <<>>]
    /\ answer = [c \in Clients |-> "none"]

Pass ==
    /\ now' = now + 1
    /\ UNCHANGED <<admitted, answer>>

Admit(c) ==
    /\ ~Full(c)
    /\ admitted' = [admitted EXCEPT ![c] = Append(@, now)]
    /\ answer' = [answer EXCEPT ![c] = "admitted"]
    /\ UNCHANGED now

Refuse(c) ==
    /\ Full(c)
    /\ answer' = [answer EXCEPT ![c] = "refused"]
    /\ UNCHANGED <<now, admitted>>

\* The promise starts anew.
Renew ==
    /\ admitted' = [c \in Clients |-> <<>>]
    /\ answer' = [c \in Clients |-> "none"]
    /\ UNCHANGED now

WindowNext == Pass \/ Renew \/ \E c \in Clients : Admit(c) \/ Refuse(c)

WindowSpec == WindowInit /\ [][WindowNext]_windowVars

=============================================================================
