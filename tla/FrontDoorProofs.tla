--------------------------- MODULE FrontDoorProofs ---------------------------
(***************************************************************************)
(* Proofs about the rate limiter and the administrators' roles, for any    *)
(* limit, window, clients, emails and number of requests, and for the      *)
(* process that holds both.                                                *)
(***************************************************************************)
EXTENDS FrontDoor, SequenceTheorems, TLAPS

(***************************************************************************)
(* Rate limiter: typing                                                    *)
(***************************************************************************)

Times == 0..MaxTime

LEMMA DroppedIsSuffix ==
    ASSUME NEW s \in Seq(Times), NEW n \in 0..Len(s)
    PROVE  /\ Dropped(s, n) \in Seq(Times)
           /\ Len(Dropped(s, n)) = Len(s) - n
           /\ \A i \in 1..Len(s) - n : Dropped(s, n)[i] = s[n + i]
<1>1. Len(s) \in Nat
  OBVIOUS
<1>2. \A i \in 1..Len(s) : s[i] \in Times
  OBVIOUS
<1>3. /\ Dropped(s, n) \in Seq(Times)
      /\ Len(Dropped(s, n)) = IF n + 1 <= Len(s) THEN Len(s) - (n + 1) + 1 ELSE 0
      /\ \A i \in 1..Len(s) - (n + 1) + 1 : Dropped(s, n)[i] = s[n + 1 + i - 1]
  <2>1. /\ n + 1 \in 1..Len(s) + 1
        /\ Len(s) \in n..Len(s)
    BY <1>1
  <2> QED
    BY <1>1, <2>1, SubSeqProperties DEF Dropped
<1> QED
  BY <1>1, <1>3

LEMMA LimiterTypedStep == LimiterTypeOK /\ [LimiterNext]_limiterVars => LimiterTypeOK'
<1> SUFFICES ASSUME LimiterTypeOK, [LimiterNext]_limiterVars PROVE LimiterTypeOK'
  OBVIOUS
<1>1. CASE Tick
  BY <1>1, LimitAssumption DEF Tick, LimiterTypeOK
<1>2. CASE Forget
  BY <1>2 DEF Forget, LimiterTypeOK
<1>3. CASE UNCHANGED limiterVars
  BY <1>3 DEF limiterVars, LimiterTypeOK
<1>4. ASSUME NEW c \in Clients, NEW n \in Expired(hits[c])
      PROVE  /\ Dropped(hits[c], n) \in Seq(0..MaxTime)
             /\ Append(Dropped(hits[c], n), now) \in Seq(0..MaxTime)
             /\ Append(admitted[c], now) \in Seq(0..MaxTime)
  <2>1. n \in 0..Len(hits[c])
    BY DEF Expired
  <2>2. hits[c] \in Seq(Times) /\ admitted[c] \in Seq(Times) /\ now \in Times
    BY DEF LimiterTypeOK, Times
  <2>3. Dropped(hits[c], n) \in Seq(Times)
    BY <2>1, <2>2, DroppedIsSuffix
  <2> QED
    BY <2>2, <2>3 DEF Times
<1>5. ASSUME NEW c \in Clients, Accept(c) PROVE LimiterTypeOK'
  <2>1. PICK n \in Expired(hits[c]) :
           hits' = [hits EXCEPT ![c] = Append(Dropped(hits[c], n), now)]
    BY <1>5 DEF Accept
  <2>2. hits' \in [Clients -> Seq(0..MaxTime)]
    BY <2>1, <1>4 DEF LimiterTypeOK
  <2>3. admitted' \in [Clients -> Seq(0..MaxTime)]
    BY <1>5, <1>4, <2>1 DEF Accept, LimiterTypeOK
  <2> QED
    BY <1>5, <2>2, <2>3 DEF Accept, LimiterTypeOK
<1>6. ASSUME NEW c \in Clients, Reject(c) PROVE LimiterTypeOK'
  <2>1. PICK n \in Expired(hits[c]) : hits' = [hits EXCEPT ![c] = Dropped(hits[c], n)]
    BY <1>6 DEF Reject
  <2>2. hits' \in [Clients -> Seq(0..MaxTime)]
    BY <2>1, <1>4 DEF LimiterTypeOK
  <2> QED
    BY <1>6, <2>2 DEF Reject, LimiterTypeOK
<1> QED
  BY <1>1, <1>2, <1>3, <1>5, <1>6 DEF LimiterNext, LimiterStep

(***************************************************************************)
(* Rate limiter: the queue and the history                                 *)
(***************************************************************************)

\* The clock does not go back, so admissions are in order.
Ordered ==
    \A c \in Clients :
        /\ \A i \in 1..Len(admitted[c]) : admitted[c][i] <= now
        /\ \A i, j \in 1..Len(admitted[c]) : i <= j => admitted[c][i] <= admitted[c][j]

LimiterInv == LimiterTypeOK /\ Ordered /\ QueueHoldsTheWindow /\ NeverTooMany

\* Of an ordered history a, of which all but the last m entries lie before start
\* and those m do not, the M-th last entry lies before start just if M > m.
LEMMA WindowIsTheEnd ==
    ASSUME NEW a, NEW k \in Nat, \A i \in 1..k : a[i] \in Int,
           \A i, j \in 1..k : i <= j => a[i] <= a[j],
           NEW start \in Int, NEW m \in 0..k, NEW M \in Nat, M # 0,
           \A i \in 1..k - m : a[i] < start,
           m > 0 => a[k - m + 1] >= start
    PROVE  m >= M <=> (k >= M /\ a[k - M + 1] >= start)
<1>1. ASSUME m >= M PROVE k >= M /\ a[k - M + 1] >= start
  <2>1. k >= M /\ m > 0 /\ k - m + 1 \in 1..k /\ k - M + 1 \in 1..k /\ k - m + 1 <= k - M + 1
    BY <1>1
  <2>2. a[k - m + 1] <= a[k - M + 1]
    BY <2>1
  <2> QED
    BY <2>1, <2>2
<1>2. ASSUME m < M, k >= M PROVE a[k - M + 1] < start
  <2>1. k - M + 1 \in 1..k - m
    BY <1>2
  <2> QED
    BY <2>1
<1>3. ASSUME k >= M PROVE a[k - M + 1] \in Int
  <2>1. k - M + 1 \in 1..k
    BY <1>3
  <2> QED
    BY <2>1
<1> QED
  BY <1>1, <1>2, <1>3

\* A queue h of length k is the end of a history a of length l whose start is
\* out of the window; taking n outdated times from it moves the split by n.
LEMMA GoneAndLeft ==
    ASSUME NEW a, NEW h, NEW l \in Nat, NEW k \in Nat, l - k >= 0,
           NEW n \in 0..k, NEW start \in Int, \A i \in 1..l : a[i] \in Int,
           \A i \in 1..k : h[i] = a[l - k + i],
           \A i \in 1..l - k : a[i] < start,
           \A i \in 1..n : h[i] < start,
           n < k => h[n + 1] >= start
    PROVE  /\ \A i \in 1..l - (k - n) : a[i] < start
           /\ k - n > 0 => a[l - (k - n) + 1] >= start
<1>1. ASSUME NEW i \in 1..l - (k - n) PROVE a[i] < start
  <2>1. CASE i <= l - k
    BY <2>1
  <2>2. CASE i > l - k
    <3>1. PICK j \in 1..n : l - k + j = i
      <4>1. i - (l - k) \in 1..n /\ l - k + (i - (l - k)) = i
        BY <2>2
      <4> QED
        BY <4>1
    <3>2. j \in 1..k
      BY <3>1
    <3> QED
      BY <3>1, <3>2
  <2> QED
    BY <2>1, <2>2
<1>2. ASSUME k - n > 0 PROVE a[l - (k - n) + 1] >= start
  <2>1. n + 1 \in 1..k /\ n < k /\ l - k + (n + 1) = l - (k - n) + 1
    BY <1>2
  <2>2. h[n + 1] = a[l - k + (n + 1)]
    BY <2>1
  <2> QED
    BY <2>1, <2>2
<1> QED
  BY <1>1, <1>2

\* Once the loop has taken n times from the queue, what is left are the
\* admissions in the window: there are as many as the limit just if the window
\* is full.
LEMMA LeftIsTheWindow ==
    ASSUME LimiterInv, NEW c \in Clients, NEW n \in Expired(hits[c])
    PROVE  /\ n \in 0..Len(hits[c])
           /\ Dropped(hits[c], n) \in Seq(Times)
           /\ Len(Dropped(hits[c], n)) = Len(hits[c]) - n
           /\ \A i \in 1..Len(hits[c]) - n : Dropped(hits[c], n)[i] = hits[c][n + i]
           /\ \A i \in 1..Len(admitted[c]) - (Len(hits[c]) - n) :
                 admitted[c][i] < now - Window
           /\ Len(Dropped(hits[c], n)) >= MaxRequests <=> Promise!Full(c)
<1>1. /\ hits[c] \in Seq(Times) /\ admitted[c] \in Seq(Times)
      /\ now \in Int /\ Window \in Int /\ MaxRequests \in Nat
  BY LimitAssumption DEF LimiterInv, LimiterTypeOK, Times
<1>2. /\ n \in 0..Len(hits[c])
      /\ \A i \in 1..n : hits[c][i] < now - Window
      /\ n < Len(hits[c]) => hits[c][n + 1] >= now - Window
  BY DEF Expired
<1>3. /\ Dropped(hits[c], n) \in Seq(Times)
      /\ Len(Dropped(hits[c], n)) = Len(hits[c]) - n
      /\ \A i \in 1..Len(hits[c]) - n : Dropped(hits[c], n)[i] = hits[c][n + i]
  BY <1>1, <1>2, DroppedIsSuffix
<1>4. /\ Len(admitted[c]) - Len(hits[c]) >= 0
      /\ \A i \in 1..Len(hits[c]) :
            hits[c][i] = admitted[c][Len(admitted[c]) - Len(hits[c]) + i]
      /\ \A i \in 1..Len(admitted[c]) - Len(hits[c]) : admitted[c][i] < now - Window
  BY DEF LimiterInv, QueueHoldsTheWindow
<1>5. /\ Len(admitted[c]) \in Nat /\ Len(hits[c]) \in Nat
      /\ \A i \in 1..Len(admitted[c]) : admitted[c][i] \in Int
  <2>1. \A i \in 1..Len(admitted[c]) : admitted[c][i] \in Times
    BY <1>1
  <2> QED
    BY <1>1, <2>1 DEF Times
<1>6. /\ \A i \in 1..Len(admitted[c]) - (Len(hits[c]) - n) : admitted[c][i] < now - Window
      /\ Len(hits[c]) - n > 0
           => admitted[c][Len(admitted[c]) - (Len(hits[c]) - n) + 1] >= now - Window
  <2>1. now - Window \in Int
    BY <1>1
  <2> QED
    BY <2>1, <1>2, <1>4, <1>5, GoneAndLeft
<1>7. ASSUME MaxRequests # 0
      PROVE  Len(hits[c]) - n >= MaxRequests <=>
               /\ Len(admitted[c]) >= MaxRequests
               /\ admitted[c][Len(admitted[c]) - MaxRequests + 1] >= now - Window
  <2> DEFINE m == Len(hits[c]) - n
  <2>1. m \in 0..Len(admitted[c]) /\ now - Window \in Int
    BY <1>1, <1>2, <1>4, <1>5
  <2>2. \A i, j \in 1..Len(admitted[c]) : i <= j => admitted[c][i] <= admitted[c][j]
    BY DEF LimiterInv, Ordered
  <2>3. \A i \in 1..Len(admitted[c]) - m : admitted[c][i] < now - Window
    BY <1>6
  <2>4. m > 0 => admitted[c][Len(admitted[c]) - m + 1] >= now - Window
    BY <1>6
  <2> HIDE DEF m
  <2>5. m >= MaxRequests <=>
               /\ Len(admitted[c]) >= MaxRequests
               /\ admitted[c][Len(admitted[c]) - MaxRequests + 1] >= now - Window
    BY <2>1, <2>2, <2>3, <2>4, <1>1, <1>5, <1>7, WindowIsTheEnd
  <2> QED
    BY <2>5 DEF m
<1>8. Len(Dropped(hits[c], n)) >= MaxRequests <=> Promise!Full(c)
  <2>1. CASE MaxRequests = 0
    BY <2>1, <1>2, <1>3, <1>5 DEF Promise!Full
  <2>2. CASE MaxRequests # 0
    BY <2>2, <1>3, <1>7 DEF Promise!Full
  <2> QED
    BY <2>1, <2>2
<1> QED
  BY <1>2, <1>3, <1>6, <1>8

\* A request the limiter accepts: the window was not full, so the admission
\* MaxRequests before the new one lies before it.
LEMMA AcceptKeeps ==
    ASSUME LimiterInv, NEW c \in Clients, Accept(c)
    PROVE  /\ Promise!Admit(c)
           /\ Ordered' /\ QueueHoldsTheWindow' /\ NeverTooMany'
<1>1. PICK n \in Expired(hits[c]) :
        /\ Len(Dropped(hits[c], n)) < MaxRequests
        /\ hits' = [hits EXCEPT ![c] = Append(Dropped(hits[c], n), now)]
  BY DEF Accept
<1> DEFINE left == Dropped(hits[c], n)
           old == admitted[c]
<1>2. /\ left \in Seq(Times) /\ Len(left) \in Nat
      /\ Len(left) = Len(hits[c]) - n /\ n \in 0..Len(hits[c])
      /\ \A i \in 1..Len(left) : left[i] = hits[c][n + i]
      /\ \A i \in 1..Len(old) - Len(left) : old[i] < now - Window
      /\ ~Promise!Full(c)
  <2>1. left \in Seq(Times) /\ Len(left) = Len(hits[c]) - n /\ n \in 0..Len(hits[c])
    BY LeftIsTheWindow
  <2>2. Len(left) \in Nat
    BY <2>1
  <2>3. \A i \in 1..Len(left) : left[i] = hits[c][n + i]
    BY <2>1, LeftIsTheWindow
  <2>4. \A i \in 1..Len(old) - Len(left) : old[i] < now - Window
    BY <2>1, LeftIsTheWindow
  <2>5. ~Promise!Full(c)
    <3>1. ~(Len(left) >= MaxRequests)
      BY <1>1, <2>2, LimitAssumption
    <3> QED
      BY <3>1, LeftIsTheWindow
  <2> QED
    BY <2>1, <2>2, <2>3, <2>4, <2>5
<1>3. /\ old \in Seq(Times) /\ hits[c] \in Seq(Times) /\ now \in Times
      /\ Len(old) \in Nat /\ Len(hits[c]) \in Nat
  <2>1. old \in Seq(Times) /\ hits[c] \in Seq(Times) /\ now \in Times
    BY DEF LimiterInv, LimiterTypeOK, Times
  <2> QED
    BY <2>1
<1>4. /\ admitted' = [admitted EXCEPT ![c] = Append(old, now)]
      /\ answer' = [answer EXCEPT ![c] = "admitted"] /\ now' = now
      /\ admitted \in [Clients -> Seq(Times)] /\ hits \in [Clients -> Seq(Times)]
  BY DEF Accept, LimiterInv, LimiterTypeOK, Times
<1>5. /\ Len(Append(old, now)) = Len(old) + 1
      /\ \A i \in 1..Len(old) : Append(old, now)[i] = old[i]
      /\ Append(old, now)[Len(old) + 1] = now
  BY <1>3, AppendProperties
<1>6. /\ Len(Append(left, now)) = Len(left) + 1
      /\ \A i \in 1..Len(left) : Append(left, now)[i] = left[i]
      /\ Append(left, now)[Len(left) + 1] = now
  BY <1>2, <1>3, AppendProperties
<1>7. /\ admitted'[c] = Append(old, now) /\ hits'[c] = Append(left, now)
      /\ \A d \in Clients \ {c} : admitted'[d] = admitted[d] /\ hits'[d] = hits[d]
  BY <1>1, <1>4
<1>8. Promise!Admit(c)
  BY <1>2, <1>4 DEF Promise!Admit
<1>9. /\ Len(old) - Len(hits[c]) >= 0
      /\ \A i \in 1..Len(hits[c]) : hits[c][i] = old[Len(old) - Len(hits[c]) + i]
      /\ \A i \in 1..Len(old) : old[i] <= now
      /\ \A i, j \in 1..Len(old) : i <= j => old[i] <= old[j]
  BY DEF LimiterInv, QueueHoldsTheWindow, Ordered
<1>10. \A i \in 1..Len(old) - MaxRequests : old[i + MaxRequests] - old[i] > Window
  BY DEF LimiterInv, NeverTooMany
<1>11. /\ Len(left) < MaxRequests /\ MaxRequests \in Nat /\ Window \in Nat
       /\ MaxRequests # 0
       /\ ~(Len(old) >= MaxRequests /\ old[Len(old) - MaxRequests + 1] >= now - Window)
  BY <1>1, <1>2, LimitAssumption DEF Promise!Full
<1> HIDE DEF left, old
<1>a. Len(left) \in Nat /\ Len(old) \in Nat
  BY <1>2, <1>3
<1>12. Ordered'
  <2>1. \A i \in 1..Len(old) : old[i] \in Int /\ old[i] <= now
    <3>1. \A i \in 1..Len(old) : old[i] \in Times
      BY <1>3
    <3> QED
      BY <3>1, <1>9 DEF Times
  <2>3. \A i \in 1..Len(old) + 1 : Append(old, now)[i] <= now
    BY <1>3, <1>5, <2>1 DEF Times
  <2>4. \A i, j \in 1..Len(old) + 1 :
           i <= j => Append(old, now)[i] <= Append(old, now)[j]
    <3> SUFFICES ASSUME NEW i \in 1..Len(old) + 1, NEW j \in 1..Len(old) + 1, i <= j
                 PROVE  Append(old, now)[i] <= Append(old, now)[j]
      OBVIOUS
    <3>0. i <= j
      OBVIOUS
    <3>1. CASE j \in 1..Len(old)
      <4>1. i \in 1..Len(old)
        BY <3>1, <1>3
      <4> QED
        BY <4>1, <3>1, <3>0, <1>5, <1>9
    <3>2. CASE j = Len(old) + 1
      BY <3>2, <1>5, <2>3
    <3> QED
      BY <3>1, <3>2, <1>3
  <2>5. \A d \in Clients \ {c} :
           /\ \A i \in 1..Len(admitted[d]) : admitted[d][i] <= now
           /\ \A i, j \in 1..Len(admitted[d]) : i <= j => admitted[d][i] <= admitted[d][j]
    BY DEF LimiterInv, Ordered
  <2> QED
    BY <2>3, <2>4, <2>5, <1>4, <1>5, <1>7 DEF Ordered
<1>13. QueueHoldsTheWindow'
  <2> DEFINE gone == Len(old) - Len(left)
  <2>0. gone \in Nat /\ gone + Len(left) = Len(old)
    BY <1>2, <1>3, <1>9
  <2>1. /\ gone \in Nat /\ Len(left) + 1 <= MaxRequests
        /\ Len(old) - Len(hits[c]) + n = gone
        /\ Len(old) + 1 - (Len(left) + 1) = gone
    BY <1>2, <1>3, <1>9, <1>11
  <2>2. \A i \in 1..Len(left) : left[i] = old[gone + i]
    <3> SUFFICES ASSUME NEW i \in 1..Len(left) PROVE left[i] = old[gone + i]
      OBVIOUS
    <3>1. n + i \in 1..Len(hits[c]) /\ Len(old) - Len(hits[c]) + (n + i) = gone + i
      BY <1>2, <1>3, <2>1
    <3>2. hits[c][n + i] = old[Len(old) - Len(hits[c]) + (n + i)]
      BY <3>1, <1>9
    <3> QED
      BY <3>1, <3>2, <1>2
  <2>3. \A i \in 1..Len(left) + 1 : Append(left, now)[i] = Append(old, now)[gone + i]
    <3> SUFFICES ASSUME NEW i \in 1..Len(left) + 1
                 PROVE  Append(left, now)[i] = Append(old, now)[gone + i]
      OBVIOUS
    <3>1. CASE i \in 1..Len(left)
      <4>1. gone + i \in 1..Len(old)
        BY <3>1, <1>a, <2>0
      <4> QED
        BY <4>1, <3>1, <2>2, <1>5, <1>6
    <3>2. CASE i = Len(left) + 1
      <4>1. gone + i = Len(old) + 1
        <5>1. Len(old) - Len(left) + (Len(left) + 1) = Len(old) + 1
          BY <1>a
        <5> QED
          BY <5>1, <3>2
      <4> QED
        BY <4>1, <3>2, <1>5, <1>6
    <3>3. i \in 1..Len(left) \/ i = Len(left) + 1
      BY <1>a
    <3> QED
      BY <3>1, <3>2, <3>3
  <2>4. \A i \in 1..gone : Append(old, now)[i] < now - Window
    <3> SUFFICES ASSUME NEW i \in 1..gone PROVE Append(old, now)[i] < now - Window
      OBVIOUS
    <3>1. i \in 1..Len(old)
      BY <1>2, <1>3, <2>1
    <3> QED
      BY <3>1, <1>2, <1>5
  <2>5. QueueHoldsTheWindow
    BY DEF LimiterInv
  <2> SUFFICES ASSUME NEW d \in Clients
               PROVE  /\ Len(admitted'[d]) - Len(hits'[d]) >= 0
                      /\ Len(hits'[d]) <= MaxRequests
                      /\ \A i \in 1..Len(hits'[d]) :
                            hits'[d][i] = admitted'[d][Len(admitted'[d]) - Len(hits'[d]) + i]
                      /\ \A i \in 1..Len(admitted'[d]) - Len(hits'[d]) :
                            admitted'[d][i] < now' - Window
    BY DEF QueueHoldsTheWindow
  <2>6. CASE d = c
    <3>1. /\ Len(admitted'[d]) = Len(old) + 1 /\ Len(hits'[d]) = Len(left) + 1
          /\ Len(admitted'[d]) - Len(hits'[d]) = gone
      BY <2>6, <2>1, <1>5, <1>6, <1>7
    <3>2. gone >= 0 /\ Len(left) + 1 <= MaxRequests
      BY <2>1
    <3> HIDE DEF gone
    <3> QED
      BY <2>6, <3>1, <3>2, <2>3, <2>4, <1>4, <1>7
  <2>7. CASE d # c
    <3>1. /\ Len(admitted[d]) - Len(hits[d]) >= 0
          /\ Len(hits[d]) <= MaxRequests
          /\ \A i \in 1..Len(hits[d]) :
                hits[d][i] = admitted[d][Len(admitted[d]) - Len(hits[d]) + i]
          /\ \A i \in 1..Len(admitted[d]) - Len(hits[d]) :
                admitted[d][i] < now - Window
      BY <2>5 DEF QueueHoldsTheWindow
    <3>2. admitted'[d] = admitted[d] /\ hits'[d] = hits[d] /\ now' = now
      BY <2>7, <1>4, <1>7
    <3> QED
      BY <3>1, <3>2
  <2> QED
    BY <2>6, <2>7
<1>14. NeverTooMany'
  <2>2. NeverTooMany
    BY DEF LimiterInv
  <2> SUFFICES ASSUME NEW d \in Clients, NEW i \in 1..Len(admitted'[d]) - MaxRequests
               PROVE  admitted'[d][i + MaxRequests] - admitted'[d][i] > Window
    BY DEF NeverTooMany
  <2>3. CASE d # c
    BY <2>3, <2>2, <1>7 DEF NeverTooMany
  <2>4. CASE d = c /\ i + MaxRequests <= Len(old)
    <3>1. i \in 1..Len(old) - MaxRequests /\ i \in 1..Len(old) /\ i + MaxRequests \in 1..Len(old)
      BY <1>11, <2>4, <1>3, <1>5, <1>7
    <3> QED
      BY <3>1, <1>10, <2>4, <1>5, <1>7
  <2>5. CASE d = c /\ i + MaxRequests > Len(old)
    <3>1. /\ i + MaxRequests = Len(old) + 1 /\ i \in 1..Len(old)
          /\ i = Len(old) - MaxRequests + 1 /\ Len(old) >= MaxRequests
      <4>1. Len(admitted'[d]) = Len(old) + 1
        BY <2>5, <1>5, <1>7
      <4>2. i \in 1..Len(old) + 1 - MaxRequests
        BY <4>1, <1>a, LimitAssumption
      <4>3. MaxRequests \in Nat /\ MaxRequests # 0 /\ i + MaxRequests > Len(old)
        BY <1>11, <2>5
      <4> QED
        BY <4>2, <4>3, <1>a
    <3>2. ~(old[i] >= now - Window)
      BY <3>1, <1>11
    <3>3. old[i] \in Int /\ now \in Int
      <4>1. \A j \in 1..Len(old) : old[j] \in Times
        BY <1>3
      <4> QED
        BY <4>1, <3>1, <1>3 DEF Times
    <3>4. now - old[i] > Window
      BY <3>2, <3>3, <1>11
    <3> QED
      BY <3>1, <3>4, <2>5, <1>5, <1>7
  <2> QED
    BY <2>3, <2>4, <2>5, <1>11, <1>3, <1>5, <1>7
<1> QED
  BY <1>8, <1>12, <1>13, <1>14

\* A request it refuses: the window is full, and the queue only lets go of what
\* has left it.
LEMMA RejectKeeps ==
    ASSUME LimiterInv, NEW c \in Clients, Reject(c)
    PROVE  /\ Promise!Refuse(c)
           /\ Ordered' /\ QueueHoldsTheWindow' /\ NeverTooMany'
<1>1. PICK n \in Expired(hits[c]) :
        /\ Len(Dropped(hits[c], n)) >= MaxRequests
        /\ hits' = [hits EXCEPT ![c] = Dropped(hits[c], n)]
  BY DEF Reject
<1>2. /\ answer' = [answer EXCEPT ![c] = "refused"] /\ now' = now /\ admitted' = admitted
      /\ hits \in [Clients -> Seq(Times)]
  BY DEF Reject, LimiterInv, LimiterTypeOK, Times
<1>3. Promise!Refuse(c)
  BY <1>1, <1>2, LeftIsTheWindow DEF Promise!Refuse
<1>4. Ordered' /\ NeverTooMany'
  BY <1>2 DEF LimiterInv, Ordered, NeverTooMany
<1>5. QueueHoldsTheWindow'
  <2> DEFINE left == Dropped(hits[c], n)
             old == admitted[c]
             gone == Len(old) - Len(left)
  <2>1. /\ Len(left) = Len(hits[c]) - n /\ n \in 0..Len(hits[c])
        /\ \A i \in 1..Len(hits[c]) - n : left[i] = hits[c][n + i]
        /\ \A i \in 1..Len(old) - (Len(hits[c]) - n) : old[i] < now - Window
    BY LeftIsTheWindow
  <2>2. /\ Len(old) - Len(hits[c]) >= 0 /\ Len(hits[c]) <= MaxRequests
        /\ \A i \in 1..Len(hits[c]) : hits[c][i] = old[Len(old) - Len(hits[c]) + i]
    BY DEF LimiterInv, QueueHoldsTheWindow
  <2>3. Len(old) \in Nat /\ Len(hits[c]) \in Nat /\ MaxRequests \in Nat
    BY LimitAssumption DEF LimiterInv, LimiterTypeOK
  <2>4. /\ hits'[c] = left /\ \A d \in Clients \ {c} : hits'[d] = hits[d]
        /\ admitted' = admitted /\ now' = now
    BY <1>1, <1>2
  <2> HIDE DEF left, old
  <2>5. gone >= 0 /\ Len(left) <= MaxRequests
    BY <2>1, <2>2, <2>3
  <2>6. ASSUME NEW i \in 1..Len(left) PROVE left[i] = old[gone + i]
    <3>1. n + i \in 1..Len(hits[c]) /\ Len(old) - Len(hits[c]) + (n + i) = gone + i
      BY <2>1, <2>3
    <3>2. hits[c][n + i] = old[Len(old) - Len(hits[c]) + (n + i)]
      BY <3>1, <2>2
    <3>3. left[i] = hits[c][n + i]
      BY <2>1
    <3> QED
      BY <3>1, <3>2, <3>3
  <2>7. \A i \in 1..gone : old[i] < now - Window
    BY <2>1
  <2> SUFFICES ASSUME NEW d \in Clients
               PROVE  /\ Len(admitted[d]) - Len(hits'[d]) >= 0
                      /\ Len(hits'[d]) <= MaxRequests
                      /\ \A i \in 1..Len(hits'[d]) :
                            hits'[d][i] = admitted[d][Len(admitted[d]) - Len(hits'[d]) + i]
                      /\ \A i \in 1..Len(admitted[d]) - Len(hits'[d]) :
                            admitted[d][i] < now - Window
    BY <2>4 DEF QueueHoldsTheWindow
  <2>8. CASE d = c
    BY <2>4, <2>5, <2>6, <2>7, <2>8 DEF old
  <2>9. CASE d # c
    BY <2>4, <2>9 DEF LimiterInv, QueueHoldsTheWindow
  <2> QED
    BY <2>8, <2>9
<1> QED
  BY <1>3, <1>4, <1>5

LEMMA TickKeeps ==
    LimiterInv /\ Tick => Promise!Pass /\ Ordered' /\ QueueHoldsTheWindow' /\ NeverTooMany'
<1> SUFFICES ASSUME LimiterInv, Tick
             PROVE  Promise!Pass /\ Ordered' /\ QueueHoldsTheWindow' /\ NeverTooMany'
  OBVIOUS
<1>1. now' = now + 1 /\ admitted' = admitted /\ hits' = hits /\ answer' = answer
  BY DEF Tick
<1>2. now \in Int /\ Window \in Int
  BY LimitAssumption DEF LimiterInv, LimiterTypeOK
<1>3. \A d \in Clients : \A i \in 1..Len(admitted[d]) : admitted[d][i] \in Int
  <2> SUFFICES ASSUME NEW d \in Clients, NEW i \in 1..Len(admitted[d])
               PROVE  admitted[d][i] \in Int
    OBVIOUS
  <2>1. admitted[d] \in Seq(Times)
    BY DEF LimiterInv, LimiterTypeOK, Times
  <2>2. admitted[d][i] \in Times
    BY <2>1
  <2> QED
    BY <2>2 DEF Times
<1>4. Ordered'
  <2>1. \A d \in Clients : \A i \in 1..Len(admitted[d]) : admitted[d][i] <= now + 1
    BY <1>2, <1>3 DEF LimiterInv, Ordered
  <2> QED
    BY <1>1, <2>1 DEF LimiterInv, Ordered
<1>5. QueueHoldsTheWindow'
  <2>1. ASSUME NEW d \in Clients, NEW i \in 1..Len(admitted[d]) - Len(hits[d])
        PROVE  admitted[d][i] < now + 1 - Window
    <3>1. admitted[d][i] < now - Window
      BY DEF LimiterInv, QueueHoldsTheWindow
    <3>2. i \in 1..Len(admitted[d])
      BY DEF LimiterInv, LimiterTypeOK
    <3> QED
      BY <3>1, <3>2, <1>2, <1>3
  <2>2. \A d \in Clients :
           /\ Len(admitted[d]) - Len(hits[d]) >= 0
           /\ Len(hits[d]) <= MaxRequests
           /\ \A i \in 1..Len(hits[d]) :
                 hits[d][i] = admitted[d][Len(admitted[d]) - Len(hits[d]) + i]
    BY DEF LimiterInv, QueueHoldsTheWindow
  <2> SUFFICES ASSUME NEW d \in Clients
               PROVE  /\ Len(admitted'[d]) - Len(hits'[d]) >= 0
                      /\ Len(hits'[d]) <= MaxRequests
                      /\ \A i \in 1..Len(hits'[d]) :
                            hits'[d][i] = admitted'[d][Len(admitted'[d]) - Len(hits'[d]) + i]
                      /\ \A i \in 1..Len(admitted'[d]) - Len(hits'[d]) :
                            admitted'[d][i] < now' - Window
    BY DEF QueueHoldsTheWindow
  <2>3. \A i \in 1..Len(admitted'[d]) - Len(hits'[d]) : admitted'[d][i] < now' - Window
    <3>1. \A i \in 1..Len(admitted[d]) - Len(hits[d]) : admitted[d][i] < now + 1 - Window
      BY <2>1
    <3>2. admitted' = admitted /\ hits' = hits /\ now' - Window = now + 1 - Window
      BY <1>1, <1>2
    <3> QED
      BY <3>1, <3>2, Zenon
  <2>4. /\ Len(admitted'[d]) - Len(hits'[d]) >= 0
        /\ Len(hits'[d]) <= MaxRequests
        /\ \A i \in 1..Len(hits'[d]) :
              hits'[d][i] = admitted'[d][Len(admitted'[d]) - Len(hits'[d]) + i]
    BY <1>1, <2>2
  <2> QED
    BY <2>3, <2>4
<1>6. NeverTooMany' /\ Promise!Pass
  BY <1>1 DEF LimiterInv, NeverTooMany, Promise!Pass
<1> QED
  BY <1>4, <1>5, <1>6

LEMMA NothingBefore ==
    ASSUME NEW m \in Nat PROVE 0 - 0 = 0 /\ 0 <= m /\ 1..0 = {} /\ 1..(0 - m) = {}
OBVIOUS

\* An empty queue beside an empty history.
LEMMA LimiterStarts == LimiterInit => LimiterInv /\ Promise!WindowInit
<1> SUFFICES ASSUME LimiterInit PROVE LimiterInv /\ Promise!WindowInit
  OBVIOUS
<1>1. LimiterTypeOK
  BY LimitAssumption DEF LimiterInit, LimiterTypeOK
<1>2. Ordered /\ QueueHoldsTheWindow /\ NeverTooMany
  <2>1. \A d \in Clients : Len(hits[d]) = 0 /\ Len(admitted[d]) = 0
    BY DEF LimiterInit
  <2>2. \A d \in Clients : /\ 1..Len(admitted[d]) = {} /\ 1..Len(hits[d]) = {}
                           /\ Len(admitted[d]) - Len(hits[d]) = 0
                           /\ 1..(Len(admitted[d]) - Len(hits[d])) = {}
                           /\ Len(hits[d]) <= MaxRequests
                           /\ 1..(Len(admitted[d]) - MaxRequests) = {}
    BY <2>1, NothingBefore, LimitAssumption
  <2>3. Ordered
    BY <2>2 DEF Ordered
  <2>4. QueueHoldsTheWindow
    <3> SUFFICES ASSUME NEW d \in Clients
                 PROVE  /\ Len(admitted[d]) - Len(hits[d]) >= 0
                        /\ Len(hits[d]) <= MaxRequests
                        /\ \A i \in 1..Len(hits[d]) :
                              hits[d][i] = admitted[d][Len(admitted[d]) - Len(hits[d]) + i]
                        /\ \A i \in 1..Len(admitted[d]) - Len(hits[d]) :
                              admitted[d][i] < now - Window
      BY DEF QueueHoldsTheWindow
    <3>1. Len(admitted[d]) - Len(hits[d]) >= 0 /\ Len(hits[d]) <= MaxRequests
      BY <2>1, LimitAssumption
    <3>2. 1..Len(hits[d]) = {} /\ 1..(Len(admitted[d]) - Len(hits[d])) = {}
      BY <2>2
    <3> QED
      BY <3>1, <3>2, Zenon
  <2>5. NeverTooMany
    BY <2>2 DEF NeverTooMany
  <2> QED
    BY <2>3, <2>4, <2>5
<1> QED
  BY <1>1, <1>2 DEF LimiterInit, LimiterInv, Promise!WindowInit

LEMMA ForgetKeeps ==
    Forget => Promise!Renew /\ Ordered' /\ QueueHoldsTheWindow' /\ NeverTooMany'
<1> SUFFICES ASSUME Forget
             PROVE  Promise!Renew /\ Ordered' /\ QueueHoldsTheWindow' /\ NeverTooMany'
  OBVIOUS
<1>1. Ordered' /\ QueueHoldsTheWindow' /\ NeverTooMany'
  <2>1. \A d \in Clients : Len(hits'[d]) = 0 /\ Len(admitted'[d]) = 0
    BY DEF Forget
  <2>2. \A d \in Clients : /\ 1..Len(admitted'[d]) = {} /\ 1..Len(hits'[d]) = {}
                           /\ Len(admitted'[d]) - Len(hits'[d]) = 0
                           /\ 1..(Len(admitted'[d]) - Len(hits'[d])) = {}
                           /\ Len(hits'[d]) <= MaxRequests
                           /\ 1..(Len(admitted'[d]) - MaxRequests) = {}
    BY <2>1, NothingBefore, LimitAssumption
  <2>3. Ordered'
    BY <2>2 DEF Ordered
  <2>4. QueueHoldsTheWindow'
    <3> SUFFICES ASSUME NEW d \in Clients
                 PROVE  /\ Len(admitted'[d]) - Len(hits'[d]) >= 0
                        /\ Len(hits'[d]) <= MaxRequests
                        /\ \A i \in 1..Len(hits'[d]) :
                              hits'[d][i] = admitted'[d][Len(admitted'[d]) - Len(hits'[d]) + i]
                        /\ \A i \in 1..Len(admitted'[d]) - Len(hits'[d]) :
                              admitted'[d][i] < now' - Window
      BY DEF QueueHoldsTheWindow
    <3>1. Len(admitted'[d]) - Len(hits'[d]) >= 0 /\ Len(hits'[d]) <= MaxRequests
      BY <2>1, LimitAssumption
    <3>2. 1..Len(hits'[d]) = {} /\ 1..(Len(admitted'[d]) - Len(hits'[d])) = {}
      BY <2>2
    <3> QED
      BY <3>1, <3>2, Zenon
  <2>5. NeverTooMany'
    BY <2>2 DEF NeverTooMany
  <2> QED
    BY <2>3, <2>4, <2>5
<1> QED
  BY <1>1 DEF Forget, Promise!Renew

LEMMA LimiterKeeps ==
    LimiterInv /\ [LimiterNext]_limiterVars
      => LimiterInv' /\ [Promise!WindowNext]_(Promise!windowVars)
<1> SUFFICES ASSUME LimiterInv, [LimiterNext]_limiterVars
             PROVE  LimiterInv' /\ [Promise!WindowNext]_(Promise!windowVars)
  OBVIOUS
<1>1. LimiterTypeOK'
  BY LimiterTypedStep DEF LimiterInv
<1>2. ASSUME NEW c \in Clients, Accept(c)
      PROVE  LimiterInv' /\ Promise!WindowNext
  BY <1>1, <1>2, AcceptKeeps DEF LimiterInv, Promise!WindowNext
<1>3. ASSUME NEW c \in Clients, Reject(c)
      PROVE  LimiterInv' /\ Promise!WindowNext
  BY <1>1, <1>3, RejectKeeps DEF LimiterInv, Promise!WindowNext
<1>4. CASE Tick
  BY <1>1, <1>4, TickKeeps DEF LimiterInv, Promise!WindowNext
<1>5. CASE Forget
  BY <1>1, <1>5, ForgetKeeps DEF LimiterInv, Promise!WindowNext
<1>6. CASE UNCHANGED limiterVars
  <2>1. now' = now /\ hits' = hits /\ answer' = answer /\ admitted' = admitted
    BY <1>6 DEF limiterVars
  <2>2. Ordered' /\ QueueHoldsTheWindow' /\ NeverTooMany'
    BY <2>1 DEF LimiterInv, Ordered, QueueHoldsTheWindow, NeverTooMany
  <2> QED
    BY <1>1, <2>1, <2>2 DEF LimiterInv, Promise!windowVars
<1> QED
  BY <1>2, <1>3, <1>4, <1>5, <1>6 DEF LimiterNext, LimiterStep

(***************************************************************************)
(* For every limit and window, no client gets more requests through in a   *)
(* stretch of time as long as the window than the limit says, and the      *)
(* limiter, which forgets what left the window, decides as one that keeps  *)
(* the whole history would.                                                *)
(***************************************************************************)
THEOREM LimiterHolds ==
    LimiterSpec => [](LimiterTypeOK /\ QueueHoldsTheWindow /\ NeverTooMany)
<1>1. LimiterInit => LimiterInv
  BY LimiterStarts
<1>2. LimiterInv /\ [LimiterNext]_limiterVars => LimiterInv'
  BY LimiterKeeps
<1>3. LimiterInv => LimiterTypeOK /\ QueueHoldsTheWindow /\ NeverTooMany
  BY DEF LimiterInv
<1> QED
  BY <1>1, <1>2, <1>3, PTL DEF LimiterSpec

(***************************************************************************)
(* The limiter implements the sliding window it stands for.                *)
(***************************************************************************)
THEOREM LimiterImplements == LimiterSpec => ImplementsSlidingWindow
<1>1. LimiterInit => LimiterInv /\ Promise!WindowInit
  BY LimiterStarts
<1>2. LimiterInv /\ [LimiterNext]_limiterVars
        => LimiterInv' /\ [Promise!WindowNext]_(Promise!windowVars)
  BY LimiterKeeps
<1> QED
  BY <1>1, <1>2, PTL DEF LimiterSpec, ImplementsSlidingWindow, Promise!WindowSpec

(***************************************************************************)
(* Roles                                                                   *)
(***************************************************************************)

\* A grant is for the plain role, and belongs to the spelling everyone is known by.
GrantsArePlain == \A d \in adminUsers : d.role = "admin" /\ Canon[d.email] = d.email

\* The history of the setting includes the present one.
SettingIsRecorded == superAdmin # None => Canon[superAdmin] \in supers

\* Whoever would be let in now is recorded as having had access.
EntitledIfLetIn ==
    \A q \in AdminRequests :
        requests[q].stage = "verified" /\ HasAccess(requests[q].subject) => entitled[q]

RolesInv ==
    /\ RolesTypeOK
    /\ GrantsArePlain /\ OneGrantPerPerson /\ GrantsComeFromSupers
    /\ SettingIsRecorded /\ OnlySettingMakesSuper
    /\ EntitledIfLetIn /\ ActsOnlyWithAccess

LEMMA RolesStart == RolesInit => RolesInv
<1> SUFFICES ASSUME RolesInit PROVE RolesInv
  OBVIOUS
<1>1. RolesTypeOK
  BY CanonAssumption DEF RolesInit, RolesTypeOK, Configured
<1>2. /\ GrantsArePlain /\ OneGrantPerPerson /\ GrantsComeFromSupers
  BY DEF RolesInit, GrantsArePlain, OneGrantPerPerson, GrantsComeFromSupers
<1>3. SettingIsRecorded
  BY DEF RolesInit, SettingIsRecorded, Configured
<1>4. OnlySettingMakesSuper /\ EntitledIfLetIn /\ ActsOnlyWithAccess
  BY NoEmailAssumption DEF RolesInit, NoRequest, OnlySettingMakesSuper,
     EntitledIfLetIn, ActsOnlyWithAccess, Roles
<1> QED
  BY <1>1, <1>2, <1>3, <1>4 DEF RolesInv

\* What a typed request looks like.
LEMMA RequestShape ==
    ASSUME RolesTypeOK, NEW q \in AdminRequests
    PROVE  /\ requests[q].stage = "verified" =>
                requests[q].subject \in Emails /\ requests[q].role = None
           /\ requests[q].stage = "authorized" =>
                requests[q].subject \in Emails /\ requests[q].role \in Roles
           /\ requests[q].role = "super_admin" => requests[q].stage = "authorized"
<1>1. requests[q] \in [stage : {"verified"}, subject : Emails, role : {None}]
          \cup [stage : {"authorized"}, subject : Emails, role : Roles] \cup {NoRequest}
  BY DEF RolesTypeOK
<1> QED
  BY <1>1, NoEmailAssumption DEF NoRequest, Roles

LEMMA VerifyKeeps ==
    ASSUME RolesInv, NEW q \in AdminRequests, NEW e \in Emails, Verify(q, e)
    PROVE  RolesInv'
<1> USE DEF Verify
<1>1. Canon[e] \in Emails
  BY CanonAssumption
<1>2. requests \in [AdminRequests -> [stage : {"verified"}, subject : Emails, role : {None}]
          \cup [stage : {"authorized"}, subject : Emails, role : Roles] \cup {NoRequest}]
  BY DEF RolesInv, RolesTypeOK
<1>3. /\ requests'[q] = [stage |-> "verified", subject |-> Canon[e], role |-> None]
      /\ entitled'[q] = HasAccess(Canon[e])
      /\ \A p \in AdminRequests \ {q} : requests'[p] = requests[p] /\ entitled'[p] = entitled[p]
  BY <1>2 DEF RolesInv, RolesTypeOK
<1>4. RolesTypeOK'
  <2>1. entitled' \in [AdminRequests -> BOOLEAN]
    BY DEF RolesInv, RolesTypeOK, HasAccess, IsSuper, IsGranted
  <2> QED
    BY <2>1, <1>1, <1>2 DEF RolesInv, RolesTypeOK
<1>5. /\ GrantsArePlain' /\ OneGrantPerPerson' /\ GrantsComeFromSupers' /\ SettingIsRecorded'
  BY DEF RolesInv, GrantsArePlain, OneGrantPerPerson, GrantsComeFromSupers, SettingIsRecorded
<1>6. superAdmin' = superAdmin
  OBVIOUS
<1>7. OnlySettingMakesSuper'
  BY <1>3, <1>6, NoEmailAssumption DEF RolesInv, OnlySettingMakesSuper, Roles, IsSuper
<1>8. EntitledIfLetIn'
  <2>0. superAdmin' = superAdmin /\ adminUsers' = adminUsers
    OBVIOUS
  <2> HIDE DEF Verify
  <2> SUFFICES ASSUME NEW p \in AdminRequests, requests'[p].stage = "verified",
                      \/ superAdmin' # None /\ requests'[p].subject = Canon[superAdmin']
                      \/ \E d \in adminUsers' : d.email = requests'[p].subject
               PROVE  entitled'[p]
    BY DEF EntitledIfLetIn, HasAccess, IsSuper, IsGranted
  <2>1. HasAccess(requests'[p].subject)
    BY <2>0 DEF HasAccess, IsSuper, IsGranted
  <2>2. CASE p = q
    BY <2>1, <2>2, <1>3
  <2>3. CASE p # q
    BY <2>1, <2>3, <1>3 DEF RolesInv, EntitledIfLetIn
  <2> QED
    BY <2>2, <2>3
<1>9. ActsOnlyWithAccess'
  BY <1>3 DEF RolesInv, ActsOnlyWithAccess
<1> QED
  BY <1>4, <1>5, <1>7, <1>8, <1>9 DEF RolesInv

\* A request that is over claims nothing.
LEMMA DoneKeeps ==
    ASSUME RolesInv, NEW q \in AdminRequests, Done(q),
           UNCHANGED <<adminUsers, superAdmin, supers>>
    PROVE  RolesInv'
<1>1. requests \in [AdminRequests -> [stage : {"verified"}, subject : Emails, role : {None}]
          \cup [stage : {"authorized"}, subject : Emails, role : Roles] \cup {NoRequest}]
  BY DEF RolesInv, RolesTypeOK
<1>2. /\ requests'[q] = NoRequest
      /\ \A p \in AdminRequests \ {q} : requests'[p] = requests[p] /\ entitled'[p] = entitled[p]
  BY <1>1 DEF Done, RolesInv, RolesTypeOK
<1>3. RolesTypeOK'
  BY <1>1 DEF Done, RolesInv, RolesTypeOK
<1>4. /\ GrantsArePlain' /\ OneGrantPerPerson' /\ GrantsComeFromSupers' /\ SettingIsRecorded'
  BY DEF RolesInv, GrantsArePlain, OneGrantPerPerson, GrantsComeFromSupers, SettingIsRecorded
<1>5. OnlySettingMakesSuper'
  BY <1>2, NoEmailAssumption DEF RolesInv, OnlySettingMakesSuper, IsSuper, NoRequest, Roles
<1>6. EntitledIfLetIn'
  BY <1>2 DEF RolesInv, EntitledIfLetIn, HasAccess, IsSuper, IsGranted, NoRequest
<1>7. ActsOnlyWithAccess'
  BY <1>2 DEF RolesInv, ActsOnlyWithAccess, NoRequest
<1> QED
  BY <1>3, <1>4, <1>5, <1>6, <1>7 DEF RolesInv

LEMMA AuthorizeKeeps ==
    ASSUME RolesInv, NEW q \in AdminRequests, Authorize(q) PROVE RolesInv'
<1>1. ASSUME NEW role \in Roles, role = "super_admin" => IsSuper(requests[q].subject),
             HasAccess(requests[q].subject), requests[q].stage = "verified",
             requests' = [requests EXCEPT ![q].stage = "authorized", ![q].role = role],
             UNCHANGED <<adminUsers, superAdmin, entitled, supers>>
      PROVE  RolesInv'
  <2>1. requests \in [AdminRequests -> [stage : {"verified"}, subject : Emails, role : {None}]
            \cup [stage : {"authorized"}, subject : Emails, role : Roles] \cup {NoRequest}]
    BY DEF RolesInv, RolesTypeOK
  <2>2. requests[q] \in [stage : {"verified"}, subject : Emails, role : {None}]
    BY <2>1, <1>1 DEF NoRequest
  <2>3. /\ requests'[q].stage = "authorized" /\ requests'[q].role = role
        /\ requests'[q].subject = requests[q].subject
        /\ requests'[q] \in [stage : {"authorized"}, subject : Emails, role : Roles]
        /\ \A p \in AdminRequests \ {q} : requests'[p] = requests[p]
    BY <2>1, <2>2, <1>1
  <2>4. RolesTypeOK'
    <3>1. requests' \in [AdminRequests ->
             [stage : {"verified"}, subject : Emails, role : {None}]
             \cup [stage : {"authorized"}, subject : Emails, role : Roles] \cup {NoRequest}]
      BY <2>1, <2>3, <1>1
    <3> QED
      BY <3>1, <1>1 DEF RolesInv, RolesTypeOK
  <2>5. GrantsArePlain' /\ OneGrantPerPerson' /\ GrantsComeFromSupers' /\ SettingIsRecorded'
    BY <1>1 DEF RolesInv, GrantsArePlain, OneGrantPerPerson, GrantsComeFromSupers,
       SettingIsRecorded
  <2>6. OnlySettingMakesSuper'
    BY <2>3, <1>1 DEF RolesInv, OnlySettingMakesSuper, IsSuper
  <2>7. EntitledIfLetIn'
    <3> SUFFICES ASSUME NEW p \in AdminRequests, requests'[p].stage = "verified",
                        \/ superAdmin' # None /\ requests'[p].subject = Canon[superAdmin']
                        \/ \E d \in adminUsers' : d.email = requests'[p].subject
                 PROVE  entitled'[p]
      BY DEF EntitledIfLetIn, HasAccess, IsSuper, IsGranted
    <3>1. p # q /\ requests'[p] = requests[p]
      BY <2>3
    <3>2. HasAccess(requests[p].subject)
      BY <1>1, <3>1 DEF HasAccess, IsSuper, IsGranted
    <3> QED
      BY <3>1, <3>2, <1>1 DEF RolesInv, EntitledIfLetIn
  <2>8. ActsOnlyWithAccess'
    BY <2>3, <1>1 DEF RolesInv, EntitledIfLetIn, ActsOnlyWithAccess
  <2> QED
    BY <2>4, <2>5, <2>6, <2>7, <2>8 DEF RolesInv
<1>2. requests[q].stage = "verified" /\ UNCHANGED <<adminUsers, superAdmin, supers>>
  BY DEF Authorize
<1>3. CASE IsSuper(requests[q].subject)
  <2>1. /\ requests' = [requests EXCEPT ![q].stage = "authorized", ![q].role = "super_admin"]
        /\ UNCHANGED entitled
    BY <1>3 DEF Authorize, HasAccess
  <2> QED
    BY <2>1, <1>1, <1>2, <1>3 DEF Roles, HasAccess
<1>4. CASE /\ ~IsSuper(requests[q].subject)
           /\ \E d \in adminUsers : /\ d.email = requests[q].subject
                 /\ requests' = [requests EXCEPT ![q].stage = "authorized", ![q].role = d.role]
                 /\ UNCHANGED entitled
  <2>1. PICK d \in adminUsers : /\ d.email = requests[q].subject
                 /\ requests' = [requests EXCEPT ![q].stage = "authorized", ![q].role = d.role]
                 /\ UNCHANGED entitled
    BY <1>4
  <2>2. d.role = "admin"
    BY DEF RolesInv, GrantsArePlain
  <2>3. HasAccess(requests[q].subject)
    BY <2>1 DEF HasAccess, IsGranted
  <2> QED
    BY <2>1, <2>2, <2>3, <1>1, <1>2 DEF Roles
<1>5. CASE Done(q)
  BY <1>2, <1>5, DoneKeeps
<1> QED
  BY <1>3, <1>4, <1>5 DEF Authorize

\* An action of the super admin that adds or removes grants.
LEMMA ChangeKeeps ==
    ASSUME RolesInv, NEW q \in AdminRequests, IsSuperRequest(q),
           requests' = [requests EXCEPT ![q] = NoRequest], Recorded(q),
           UNCHANGED <<superAdmin, supers>>,
           adminUsers' \subseteq Grant, GrantsArePlain',
           OneGrantPerPerson', GrantsComeFromSupers'
    PROVE  RolesInv'
<1>1. requests \in [AdminRequests -> [stage : {"verified"}, subject : Emails, role : {None}]
          \cup [stage : {"authorized"}, subject : Emails, role : Roles] \cup {NoRequest}]
  BY DEF RolesInv, RolesTypeOK
<1>2. /\ requests'[q] = NoRequest
      /\ \A p \in AdminRequests \ {q} : requests'[p] = requests[p]
  BY <1>1
<1>3. \A p \in AdminRequests \ {q} :
         entitled'[p] <=> (entitled[p] \/ (requests[p].stage = "verified"
                             /\ \E d \in adminUsers' : d.email = requests[p].subject))
  BY DEF Recorded, RolesInv, RolesTypeOK
<1>4. RolesTypeOK'
  <2>1. requests' \in [AdminRequests ->
             [stage : {"verified"}, subject : Emails, role : {None}]
             \cup [stage : {"authorized"}, subject : Emails, role : Roles] \cup {NoRequest}]
    BY <1>1
  <2>2. entitled' \in [AdminRequests -> BOOLEAN]
    BY DEF Recorded, RolesInv, RolesTypeOK
  <2> QED
    BY <2>1, <2>2 DEF RolesInv, RolesTypeOK
<1>5. SettingIsRecorded'
  BY DEF RolesInv, SettingIsRecorded
<1>6. OnlySettingMakesSuper'
  BY <1>2, NoEmailAssumption DEF RolesInv, OnlySettingMakesSuper, IsSuper, NoRequest, Roles
<1>7. EntitledIfLetIn'
  BY <1>2, <1>3 DEF RolesInv, EntitledIfLetIn, HasAccess, IsSuper, IsGranted, NoRequest
<1>8. ActsOnlyWithAccess'
  BY <1>2, <1>3 DEF RolesInv, ActsOnlyWithAccess, NoRequest
<1> QED
  BY <1>4, <1>5, <1>6, <1>7, <1>8 DEF RolesInv

LEMMA GrantKeeps ==
    ASSUME RolesInv, NEW q \in AdminRequests, NEW e \in Emails, GrantAdmin(q, e)
    PROVE  RolesInv'
<1> DEFINE new == [email |-> Canon[e], role |-> "admin", grantedBy |-> requests[q].subject]
<1>1. /\ IsSuperRequest(q) /\ ~IsGranted(Canon[e])
      /\ adminUsers' = adminUsers \cup {new}
      /\ requests' = [requests EXCEPT ![q] = NoRequest] /\ Recorded(q)
      /\ UNCHANGED <<superAdmin, supers>>
  BY DEF GrantAdmin
<1>2. /\ requests[q].subject \in Emails /\ requests[q].subject \in supers
  <2>1. requests[q].stage = "authorized" /\ requests[q].role = "super_admin"
    BY <1>1 DEF IsSuperRequest
  <2>2. requests[q].subject \in Emails
    BY <2>1, RequestShape DEF RolesInv
  <2>3. IsSuper(requests[q].subject)
    BY <2>1 DEF RolesInv, OnlySettingMakesSuper
  <2> QED
    BY <2>2, <2>3 DEF IsSuper, RolesInv, SettingIsRecorded
<1>3. Canon[e] \in Emails /\ Canon[Canon[e]] = Canon[e]
  BY CanonAssumption
<1>4. new \in Grant /\ new.email = Canon[e] /\ new.role = "admin"
      /\ new.grantedBy = requests[q].subject
  BY <1>2, <1>3 DEF Grant, Roles
<1> HIDE DEF new
<1>5. adminUsers' \subseteq Grant
  BY <1>1, <1>4 DEF RolesInv, RolesTypeOK
<1>6. GrantsArePlain'
  BY <1>1, <1>3, <1>4 DEF RolesInv, GrantsArePlain
<1>7. OneGrantPerPerson'
  <2>1. \A d \in adminUsers : d.email # Canon[e] /\ Canon[d.email] = d.email
    BY <1>1 DEF IsGranted, RolesInv, GrantsArePlain
  <2> QED
    BY <2>1, <1>1, <1>3, <1>4 DEF RolesInv, OneGrantPerPerson
<1>8. GrantsComeFromSupers'
  BY <1>1, <1>2, <1>4 DEF RolesInv, GrantsComeFromSupers
<1> QED
  BY <1>1, <1>5, <1>6, <1>7, <1>8, ChangeKeeps

LEMMA RevokeKeeps ==
    ASSUME RolesInv, NEW q \in AdminRequests, NEW e \in Emails, RevokeAdmin(q, e)
    PROVE  RolesInv'
<1>1. /\ IsSuperRequest(q) /\ adminUsers' \subseteq adminUsers
      /\ requests' = [requests EXCEPT ![q] = NoRequest] /\ Recorded(q)
      /\ UNCHANGED <<superAdmin, supers>>
  BY DEF RevokeAdmin
<1>2. adminUsers' \subseteq Grant
  BY <1>1 DEF RolesInv, RolesTypeOK
<1>3. GrantsArePlain' /\ OneGrantPerPerson' /\ GrantsComeFromSupers'
  BY <1>1 DEF RolesInv, GrantsArePlain, OneGrantPerPerson, GrantsComeFromSupers
<1> QED
  BY <1>1, <1>2, <1>3, ChangeKeeps

LEMMA ReconfigureKeeps == RolesInv /\ Reconfigure => RolesInv'
<1> SUFFICES ASSUME RolesInv, Reconfigure PROVE RolesInv'
  OBVIOUS
<1>1. PICK setting \in Emails \cup {None} :
         superAdmin' = setting /\ supers' = supers \cup Configured(setting)
  BY DEF Reconfigure
<1>2. /\ requests' = [q \in AdminRequests |-> NoRequest]
      /\ entitled' = [q \in AdminRequests |-> FALSE] /\ adminUsers' = adminUsers
  BY DEF Reconfigure
<1>3. RolesTypeOK'
  BY <1>1, <1>2, CanonAssumption DEF RolesInv, RolesTypeOK, Configured
<1>4. GrantsArePlain' /\ OneGrantPerPerson' /\ GrantsComeFromSupers'
  BY <1>1, <1>2 DEF RolesInv, GrantsArePlain, OneGrantPerPerson, GrantsComeFromSupers
<1>5. SettingIsRecorded'
  BY <1>1 DEF SettingIsRecorded, Configured
<1>6. OnlySettingMakesSuper' /\ EntitledIfLetIn' /\ ActsOnlyWithAccess'
  BY <1>2, NoEmailAssumption DEF NoRequest, OnlySettingMakesSuper, EntitledIfLetIn,
     ActsOnlyWithAccess, Roles
<1> QED
  BY <1>3, <1>4, <1>5, <1>6 DEF RolesInv

LEMMA RolesKeep == RolesInv /\ [RolesNext]_rolesVars => RolesInv'
<1> SUFFICES ASSUME RolesInv, [RolesNext]_rolesVars PROVE RolesInv'
  OBVIOUS
<1>1. ASSUME NEW q \in AdminRequests, Authorize(q) PROVE RolesInv'
  BY <1>1, AuthorizeKeeps
<1>2. ASSUME NEW q \in AdminRequests, Serve(q) PROVE RolesInv'
  BY <1>2, DoneKeeps DEF Serve
<1>3. ASSUME NEW q \in AdminRequests, NEW e \in Emails, Verify(q, e) PROVE RolesInv'
  BY <1>3, VerifyKeeps
<1>4. ASSUME NEW q \in AdminRequests, NEW e \in Emails, GrantAdmin(q, e) PROVE RolesInv'
  BY <1>4, GrantKeeps
<1>5. ASSUME NEW q \in AdminRequests, NEW e \in Emails, RevokeAdmin(q, e) PROVE RolesInv'
  BY <1>5, RevokeKeeps
<1>6. CASE Reconfigure
  BY <1>6, ReconfigureKeeps
<1>7. CASE UNCHANGED rolesVars
  BY <1>7 DEF rolesVars, RolesInv, RolesTypeOK, GrantsArePlain, OneGrantPerPerson,
     GrantsComeFromSupers, SettingIsRecorded, OnlySettingMakesSuper, EntitledIfLetIn,
     ActsOnlyWithAccess, HasAccess, IsSuper, IsGranted
<1> QED
  BY <1>1, <1>2, <1>3, <1>4, <1>5, <1>6, <1>7 DEF RolesNext, RolesStep

(***************************************************************************)
(* Whatever is granted and revoked, and however the setting changes from   *)
(* one start to the next: a person has one grant, only the setting makes a *)
(* super admin, every grant was made by one, and a request acts for        *)
(* somebody who had access since it came.                                  *)
(***************************************************************************)
THEOREM RolesHold ==
    RolesSpec => [](/\ RolesTypeOK /\ OneGrantPerPerson /\ OnlySettingMakesSuper
                    /\ GrantsComeFromSupers /\ ActsOnlyWithAccess)
<1>1. RolesInv => /\ RolesTypeOK /\ OneGrantPerPerson /\ OnlySettingMakesSuper
                  /\ GrantsComeFromSupers /\ ActsOnlyWithAccess
  BY DEF RolesInv
<1> QED
  BY <1>1, RolesStart, RolesKeep, PTL DEF RolesSpec

(***************************************************************************)
(* The process that holds both                                             *)
(***************************************************************************)

LEMMA StepsOfBoth ==
    [Next]_frontDoorVars => [LimiterNext]_limiterVars /\ [RolesNext]_rolesVars
BY DEF Next, frontDoorVars, Restart, LimiterNext, RolesNext

\* Each half of the front door behaves as it does alone.
LEMMA Halves == Spec => LimiterSpec /\ RolesSpec
<1>1. Init => LimiterInit /\ RolesInit
  BY DEF Init
<1> QED
  BY <1>1, StepsOfBoth, PTL DEF Spec, LimiterSpec, RolesSpec

(***************************************************************************)
(* The front door is well typed, for any limit, clients and emails.        *)
(***************************************************************************)
THEOREM FrontDoorTyped == Spec => []TypeOK
<1>1. LimiterTypeOK /\ RolesTypeOK => TypeOK
  BY DEF TypeOK
<1> QED
  BY <1>1, Halves, LimiterHolds, RolesHold, PTL

(***************************************************************************)
(* No client passes the front door above the limit of any window.          *)
(***************************************************************************)
THEOREM FrontDoorLimits == Spec => []NeverTooMany
BY Halves, LimiterHolds, PTL

(***************************************************************************)
(* What the limiter forgets can no longer count.                           *)
(***************************************************************************)
THEOREM FrontDoorQueues == Spec => []QueueHoldsTheWindow
BY Halves, LimiterHolds, PTL

(***************************************************************************)
(* The limiter at the front door implements the sliding window.            *)
(***************************************************************************)
THEOREM FrontDoorImplements == Spec => ImplementsSlidingWindow
BY Halves, LimiterImplements, PTL

(***************************************************************************)
(* However an email is spelled, its owner has at most one grant.           *)
(***************************************************************************)
THEOREM GrantedOnce == Spec => []OneGrantPerPerson
BY Halves, RolesHold, PTL

(***************************************************************************)
(* Nobody acts as super admin but the one the setting names.               *)
(***************************************************************************)
THEOREM SuperBySetting == Spec => []OnlySettingMakesSuper
BY Halves, RolesHold, PTL

(***************************************************************************)
(* Every grant goes back to somebody the setting named.                    *)
(***************************************************************************)
THEOREM GrantedBySupers == Spec => []GrantsComeFromSupers
BY Halves, RolesHold, PTL

(***************************************************************************)
(* No request acts for somebody without access since it came.              *)
(***************************************************************************)
THEOREM AccessBeforeAction == Spec => []ActsOnlyWithAccess
BY Halves, RolesHold, PTL

=============================================================================
