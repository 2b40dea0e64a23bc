----------------------------- MODULE RateLimiter -----------------------------
(***************************************************************************)
(* The rate limiter in front of the update check (app/middleware/          *)
(* rate_limit.py): a queue of admission times per client, from which the   *)
(* times that left the window are taken when the client's next request     *)
(* comes.  A request is counted without an await, so in one step, and only *)
(* if it is admitted.  The queues are the process's own: another worker    *)
(* counts for itself, and a restart forgets them.                          *)
(*                                                                         *)
(* Time is the wall clock in the unit of the limit, and does not go back.  *)
(***************************************************************************)
EXTENDS Integers, Sequences

CONSTANTS
    Clients,        \* addresses requests come from, the first one forwarded
    MaxRequests,    \* the limit: so many requests
    Window,         \* in so much time
    MaxTime         \* bound: the clock stops here

ASSUME LimitAssumption == MaxRequests \in Nat /\ Window \in Nat /\ MaxTime \in Nat

VARIABLES
    now,            \* the clock
    hits,           \* client -> the times in its queue
    answer,         \* client -> how its latest request was answered
    admitted        \* history: client -> when its requests were admitted

limiterVars == <<now, hits, answer, admitted>>

LimiterTypeOK ==
    /\ now \in 0..MaxTime
    /\ hits \in [Clients -> Seq(0..MaxTime)]
    /\ admitted \in [Clients -> Seq(0..MaxTime)]
    /\ answer \in [Clients -> {"admitted", "refused", "none"}]

LimiterInit ==
    /\ now = 0
    /\ hits = [c \in Clients |-> <<>>]
    /\ answer = [c \in Clients |-> "none"]
    /\ admitted = [c \in Clients |-> <<>>]

\* Plausible slip: a time one window old is taken out already.
ExpiredEarly(queue) ==
    {n \in 0..Len(queue) :
        /\ \A i \in 1..n : queue[i] <= now - Window
        /\ n < Len(queue) => queue[n + 1] > now - Window}

\* How many times the loop takes from the front of a queue: all that lie before
\* the window, up to the first that does not.
Expired(queue) ==
    {n \in 0..Len(queue) :
        /\ \A i \in 1..n : queue[i] < now - Window
        /\ n < Len(queue) => queue[n + 1] >= now - Window}

Dropped(queue, n) == SubSeq(queue, n + 1, Len(queue))

\* A request of c passes to the application,
Accept(c) ==
    /\ \E n \in Expired(hits[c]) :
          LET left == Dropped(hits[c], n) IN
          /\ Len(left) < MaxRequests
          /\ hits' = [hits EXCEPT ![c] = Append(left, now)]
    /\ answer' = [answer EXCEPT ![c] = "admitted"]
    /\ admitted' = [admitted EXCEPT ![c] = Append(@, now)]
    /\ UNCHANGED now

\* Plausible slip: a refused request counts like an admitted one.
RejectCounted(c) ==
    /\ \E n \in Expired(hits[c]) :
          LET left == Dropped(hits[c], n) IN
          /\ Len(left) >= MaxRequests
          /\ hits' = [hits EXCEPT ![c] = Append(Tail(left), now)]
    /\ answer' = [answer EXCEPT ![c] = "refused"]
    /\ UNCHANGED <<now, admitted>>

\* or is told 429 and leaves no trace in the queue.
Reject(c) ==
    /\ \E n \in Expired(hits[c]) :
          LET left == Dropped(hits[c], n) IN
          /\ Len(left) >= MaxRequests
          /\ hits' = [hits EXCEPT ![c] = left]
    /\ answer' = [answer EXCEPT ![c] = "refused"]
    /\ UNCHANGED <<now, admitted>>

Tick ==
    /\ now < MaxTime
    /\ now' = now + 1
    /\ UNCHANGED <<hits, answer, admitted>>

\* The process is started again, with empty queues.
Forget ==
    /\ hits' = [c \in Clients |-> <<>>]
    /\ answer' = [c \in Clients |-> "none"]
    /\ admitted' = [c \in Clients |-> <<>>]
    /\ UNCHANGED now

LimiterStep == Tick \/ \E c \in Clients : Accept(c) \/ Reject(c)

LimiterNext == LimiterStep \/ Forget

LimiterSpec == LimiterInit /\ [][LimiterNext]_limiterVars

-----------------------------------------------------------------------------

(***************************************************************************)
(* No client gets more than MaxRequests requests through in any stretch of *)
(* time as long as the window, wherever the stretch begins: of so many and *)
(* one admissions in a row, the last is more than a window after the first.*)
(***************************************************************************)
NeverTooMany ==
    \A c \in Clients : \A i \in 1..Len(admitted[c]) - MaxRequests :
        admitted[c][i + MaxRequests] - admitted[c][i] > Window

(***************************************************************************)
(* A queue is the end of the client's history, never longer than the limit,*)
(* and what it has let go of can no longer count: between two requests it  *)
(* may hold times that left the window, but it lacks none that is in it.   *)
(***************************************************************************)
QueueHoldsTheWindow ==
    \A c \in Clients :
        LET gone == Len(admitted[c]) - Len(hits[c]) IN
        /\ gone >= 0 /\ Len(hits[c]) <= MaxRequests
        /\ \A i \in 1..Len(hits[c]) : hits[c][i] = admitted[c][gone + i]
        /\ \A i \in 1..gone : admitted[c][i] < now - Window

(***************************************************************************)
(* The queue, which forgets, decides as the full history would: nobody is  *)
(* admitted above the limit and nobody is refused below it.                *)
(***************************************************************************)
Promise == INSTANCE SlidingWindow

ImplementsSlidingWindow == Promise!WindowSpec

=============================================================================
