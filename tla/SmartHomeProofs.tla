--------------------------- MODULE SmartHomeProofs ---------------------------
(***************************************************************************)
(* Proofs about SmartHome, for any number of users, devices, endpoints,    *)
(* workers, commands, reports and faults.                                  *)
(***************************************************************************)
EXTENDS SmartHome, SequenceTheorems, FiniteSetTheorems, TLAPS

Published == 1 .. Len(reports)

(***************************************************************************)
(* The inductive invariants                                                *)
(***************************************************************************)

\* Everybody whose name is on a device or on a request was its owner.
OwnersAreKnown ==
    /\ \A d \in devices : <<d.mac, d.user>> \in owners
    /\ \A u \in Users : request[u] # None => <<request[u].mac, u>> \in owners
    /\ CommandsAreTheOwners

OneDocument == \A d, x \in devices : d.mac = x.mac => d = x

Only(d, e, i) ==
    /\ i \in 1 .. Len(d.endpoints) /\ d.endpoints[i].id = e
    /\ \A j \in 1 .. Len(d.endpoints) : d.endpoints[j].id = e => j = i

\* What the document of m has to say of e.
Told(m, e) == written[<<m, e>>] > 0 /\ reports[written[<<m, e>>]].on

DocumentsTellLastReport ==
    \A d \in devices : \A e \in EndpointIds : \A i \in Nat :
        Only(d, e, i) => d.endpoints[i].state = Told(d.mac, e)

\* The client of w holds report n, or its handler does.
InHand(w, n) ==
    handling[w] = n \/ \E i \in 1 .. Len(inbox[w]) : inbox[w][i] = n

SameConnection(m, n) == reports[m].connection = reports[n].connection

InboxesAreSorted ==
    \A w \in Workers : \A i, j \in 1 .. Len(inbox[w]) : i < j => inbox[w][i] < inbox[w][j]

\* The reports of one connection are in one worker's hands.
OneHolder ==
    \A v, w \in Workers : \A m, n \in Published :
        InHand(v, m) /\ InHand(w, n) /\ SameConnection(m, n) => v = w

\* Those of the connection that lasts are in the hands of the session's worker.
HoldersAreConnected ==
    \A n \in Published :
        /\ reports[n].connection <= connections
        /\ session # None /\ reports[n].connection = connections =>
              /\ n \notin adrift
              /\ \A w \in Workers : InHand(w, n) => w = session

\* A write is adrift only when nobody holds a report of its connection.
AdriftIsLast ==
    \A m, n \in Published :
        m \in adrift /\ SameConnection(m, n) => \A w \in Workers : ~InHand(w, n)

\* No report is handled or written before an earlier one of its connection.
OneAfterAnother ==
    \A m, n \in Published :
        m < n /\ SameConnection(m, n) /\ InFlight(m) =>
            /\ \A w \in Workers : handling[w] # n
            /\ n \notin adrift
            /\ written[Key(n)] # n

Connections ==
    /\ InboxesAreSorted /\ OneHolder /\ HoldersAreConnected
    /\ AdriftIsLast /\ OneAfterAnother

\* n is the last report of its endpoint.
Last(n) == n \in Published /\ \A o \in Published : Key(o) = Key(n) => o <= n

\* The last report of a reported endpoint tells the physical state.
SwitchFollowsReports ==
    \A o \in Published : \E n \in Published :
        Last(n) /\ Key(n) = Key(o) /\ switch[Key(n)] = reports[n].on

\* The last report of a device is under way, was lost or written over, or is
\* what its document tells.
LastIsAccountedFor ==
    \A d \in devices : \A e \in Ids(d) : \A n \in Published :
        Last(n) /\ Key(n) = <<d.mac, e>> /\ n > d.createdAt =>
            InFlight(n) \/ n \in gone \/ written[Key(n)] = n

SmartHomeInv ==
    /\ TypeOK /\ OwnersAreKnown /\ OneDocument /\ DocumentsTellLastReport
    /\ Connections /\ SwitchFollowsReports /\ LastIsAccountedFor

(***************************************************************************)
(* Sequences and documents                                                 *)
(***************************************************************************)

LEMMA Appended ==
    ASSUME NEW S, NEW q \in Seq(S), NEW x \in S
    PROVE  /\ Append(q, x) \in Seq(S) /\ Len(q) \in Nat
           /\ Len(Append(q, x)) = Len(q) + 1
           /\ Append(q, x)[Len(q) + 1] = x
           /\ \A i \in 1 .. Len(q) : Append(q, x)[i] = q[i]
  OBVIOUS

\* Without its first element, a queue is its tail.
LEMMA FirstTaken ==
    ASSUME NEW S, NEW q \in Seq(S), q # <<>>
    PROVE  LET t == SubSeq(q, 1, FirstFirst(q) - 1) \o SubSeq(q, FirstFirst(q) + 1, Len(q)) IN
           /\ Len(q) \in Nat /\ Len(q) >= 1 /\ q[FirstFirst(q)] = q[1] /\ q[1] \in S
           /\ t \in Seq(S) /\ Len(t) = Len(q) - 1
           /\ \A i \in 1 .. Len(q) - 1 : t[i] = q[i + 1]
<1>1. Tail(q) \in Seq(S) /\ Tail(q) = SubSeq(q, 2, Len(q))
  BY TailIsSubSeq
<1>2. SubSeq(q, 1, 0) = <<>>
  BY SubSeqEmpty
<1>3. SubSeq(q, 1, 0) \o SubSeq(q, 2, Len(q)) = Tail(q)
  BY <1>1, <1>2, ConcatEmptySeq
<1>4. /\ Len(q) \in Nat /\ Len(q) >= 1 /\ q[1] \in S
      /\ Len(Tail(q)) = Len(q) - 1
      /\ \A i \in 1 .. Len(q) - 1 : Tail(q)[i] = q[i + 1]
  OBVIOUS
<1>5. FirstFirst(q) = 1 /\ 1 - 1 = 0 /\ 1 + 1 = 2
  BY DEF FirstFirst
<1>6. SubSeq(q, 1, FirstFirst(q) - 1) \o SubSeq(q, FirstFirst(q) + 1, Len(q)) = Tail(q)
  BY <1>3, <1>5
<1> QED
  BY <1>1, <1>4, <1>5, <1>6

\* An update changes no id, and the state of one endpoint at most.
LEMMA UpdateDoes ==
    ASSUME NEW eps \in Seq(Endpoint), NEW e \in EndpointIds, NEW on \in BOOLEAN
    PROVE  /\ Updated(eps, e, on) \in Seq(Endpoint)
           /\ Len(Updated(eps, e, on)) = Len(eps)
           /\ \A i \in 1 .. Len(eps) :
                 /\ Updated(eps, e, on)[i].id = eps[i].id
                 /\ eps[i].id # e => Updated(eps, e, on)[i].state = eps[i].state
                 /\ (eps[i].id = e /\ \A j \in 1 .. i - 1 : eps[j].id # e)
                       => Updated(eps, e, on)[i].state = on
<1> DEFINE First(i) == eps[i].id = e /\ \A j \in 1 .. i - 1 : eps[j].id # e
           New(i) == IF First(i) THEN [eps[i] EXCEPT !.state = on] ELSE eps[i]
<1>1. Len(eps) \in Nat /\ \A i \in 1 .. Len(eps) : eps[i] \in Endpoint
  OBVIOUS
<1>2. ASSUME NEW i \in 1 .. Len(eps)
      PROVE  /\ New(i) \in Endpoint /\ New(i).id = eps[i].id
             /\ First(i) => New(i).state = on
             /\ ~First(i) => New(i).state = eps[i].state
  <2>1. /\ [eps[i] EXCEPT !.state = on] \in Endpoint
        /\ [eps[i] EXCEPT !.state = on].id = eps[i].id
        /\ [eps[i] EXCEPT !.state = on].state = on
    BY <1>1 DEF Endpoint
  <2> HIDE DEF First
  <2>2. CASE First(i)
    BY <2>1, <2>2
  <2>3. CASE ~First(i)
    BY <1>1, <2>3
  <2> QED
    BY <2>2, <2>3
<1>3. Updated(eps, e, on) = [i \in 1 .. Len(eps) |-> New(i)]
  BY DEF Updated
<1> HIDE DEF New
<1>4. Updated(eps, e, on) \in [1 .. Len(eps) -> Endpoint]
  BY <1>2, <1>3
<1>5. Updated(eps, e, on) \in Seq(Endpoint) /\ Len(Updated(eps, e, on)) = Len(eps)
  BY <1>1, <1>4
<1>6. \A i \in 1 .. Len(eps) : Updated(eps, e, on)[i] = New(i)
  BY <1>3
<1> QED
  BY <1>2, <1>5, <1>6

LEMMA NewDoes ==
    ASSUME NEW l \in Layouts
    PROVE  /\ NewEndpoints(l) \in Seq(Endpoint)
           /\ \A i \in 1 .. Len(NewEndpoints(l)) : NewEndpoints(l)[i].state = FALSE
<1>1. l \in Seq(EndpointIds)
  BY SmartHomeAssumption
<1>2. Len(l) \in Nat /\ \A i \in 1 .. Len(l) : l[i] \in EndpointIds
  BY <1>1
<1>3. \A i \in 1 .. Len(l) : [id |-> l[i], state |-> FALSE] \in Endpoint
  BY <1>2 DEF Endpoint
<1>4. NewEndpoints(l) \in [1 .. Len(l) -> Endpoint]
  BY <1>3 DEF NewEndpoints
<1>5. NewEndpoints(l) \in Seq(Endpoint) /\ Len(NewEndpoints(l)) = Len(l)
  BY <1>2, <1>4
<1> QED
  BY <1>5 DEF NewEndpoints

(***************************************************************************)
(* What the steps do                                                       *)
(***************************************************************************)

LEMMA Typed ==
    ASSUME TypeOK
    PROVE  /\ Len(reports) \in Nat /\ Len(command) \in Nat
           /\ \A n \in Published : /\ reports[n] \in Report /\ reports[n].connection \in Nat
                                   /\ Key(n) = <<reports[n].mac, reports[n].endpoint>>
                                   /\ Key(n) \in Keys
           /\ \A k \in Keys : written[k] \in Nat /\ written[k] <= Len(reports)
           /\ connections \in Nat /\ gone \subseteq Published /\ adrift \subseteq Published
           /\ \A w \in Workers : /\ handling[w] \in Nat /\ handling[w] <= Len(reports)
                                 /\ inbox[w] \in Seq(Published) /\ Len(inbox[w]) \in Nat
                                 /\ \A i \in 1 .. Len(inbox[w]) : inbox[w][i] \in Published
           /\ \A d \in devices : /\ d \in Document /\ Len(d.endpoints) \in Nat
                                 /\ \A i \in 1 .. Len(d.endpoints) : d.endpoints[i] \in Endpoint
           /\ \A c \in 1 .. Len(command) : command[c] \in Command
           /\ None \notin Workers
<1>1. ASSUME NEW S, NEW q \in Seq(S) PROVE Len(q) \in Nat /\ \A i \in 1 .. Len(q) : q[i] \in S
  OBVIOUS
<1>2. Len(reports) \in Nat /\ \A n \in Published : reports[n] \in Report
  BY <1>1 DEF TypeOK, Published
<1>3. Len(command) \in Nat /\ \A c \in 1 .. Len(command) : command[c] \in Command
  BY <1>1 DEF TypeOK
<1>4. connections \in Nat /\ \A r \in Report : r.connection \in Nat
  BY SmartHomeAssumption DEF TypeOK, Report
<1>5. \A n \in Published : Key(n) = <<reports[n].mac, reports[n].endpoint>> /\ Key(n) \in Keys
  BY <1>2 DEF Key, Keys, Report
<1>6. \A k \in Keys : written[k] \in Nat /\ written[k] <= Len(reports)
  BY <1>2 DEF TypeOK
<1>7. ASSUME NEW w \in Workers
      PROVE  /\ handling[w] \in Nat /\ handling[w] <= Len(reports)
             /\ inbox[w] \in Seq(Published) /\ Len(inbox[w]) \in Nat
             /\ \A i \in 1 .. Len(inbox[w]) : inbox[w][i] \in Published
  <2>1. handling[w] \in 0 .. Len(reports) /\ inbox[w] \in Seq(Published)
    BY DEF TypeOK, Published
  <2> QED
    BY <1>1, <1>2, <2>1
<1>8. ASSUME NEW d \in devices
      PROVE  /\ d \in Document /\ Len(d.endpoints) \in Nat
             /\ \A i \in 1 .. Len(d.endpoints) : d.endpoints[i] \in Endpoint
  <2>1. d \in Document /\ d.endpoints \in Seq(Endpoint)
    BY DEF TypeOK, Document
  <2> QED
    BY <1>1, <2>1
<1>9. gone \subseteq Published /\ adrift \subseteq Published /\ None \notin Workers
  BY SmartHomeAssumption DEF TypeOK, Published
<1> QED
  BY <1>2, <1>3, <1>4, <1>5, <1>6, <1>7, <1>8, <1>9

\* What the reports, the documents and the switches are told by.
reportState == <<devices, switch, reports, session, connections, inbox, handling, adrift,
                 written, gone>>

LEMMA CommandTyped ==
    ASSUME TypeOK, NEW c \in waiting
    PROVE  command[c].mac \in Macs /\ command[c].endpoint \in EndpointIds
           /\ command[c].on \in BOOLEAN
<1>1. c \in 1 .. Len(command)
  BY DEF TypeOK
<1> QED
  BY <1>1, Typed DEF Command

\* Every way a step can deal with reports.
LEMMA ReportSteps ==
    ASSUME TypeOK, [Next]_vars
    PROVE  \/ \E m \in Macs, u \in Users, l \in Layouts : Provision(m, u, l)
           \/ \E m \in Macs : Release(m)
           \/ \E m \in Macs, e \in EndpointIds, on \in BOOLEAN : PublishState(m, e, on)
           \/ \E w \in Workers : \/ Connect(w) \/ LeaveClient(w) \/ TakeReport(w)
                                 \/ WriteReport(w) \/ WriteFails(w)
           \/ SessionLost
           \/ \E n \in adrift : LateWrite(n)
           \/ UNCHANGED reportState
<1>1. ASSUME NEW u \in Users, NEW id, NEW on, ExecuteFind(u, id, on) PROVE UNCHANGED reportState
  BY <1>1 DEF ExecuteFind, reportState, deviceVars, clientVars, reportVars
<1>2. ASSUME NEW u \in Users, ExecutePut(u) PROVE UNCHANGED reportState
  BY <1>2 DEF ExecutePut, reportState, deviceVars, clientVars, reportVars
<1>3. ASSUME \/ \E c \in waiting : DeviceMisses(c)
             \/ CommandsLeaveChannel
      PROVE  UNCHANGED reportState
  BY <1>3 DEF DeviceMisses, CommandsLeaveChannel, reportState, deviceVars, clientVars, reportVars
<1>4. ASSUME NEW c \in waiting, DeviceObeys(c)
      PROVE  \E m \in Macs, e \in EndpointIds, on \in BOOLEAN : PublishState(m, e, on)
  <2>1. PICK m \in Macs, e \in EndpointIds, on \in BOOLEAN :
           m = command[c].mac /\ e = command[c].endpoint /\ on = command[c].on
    BY CommandTyped
  <2>2. PublishState(m, e, on)
    BY <1>4, <2>1 DEF DeviceObeys, PublishState
  <2> QED
    BY <2>2
<1>5. ASSUME NEW m \in Macs, NEW e \in EndpointIds, NEW on \in BOOLEAN, DeviceReports(m, e, on)
      PROVE  PublishState(m, e, on)
  BY <1>5 DEF DeviceReports
<1>6. CASE UNCHANGED vars
  BY <1>6 DEF vars, reportState, deviceVars, clientVars, reportVars
<1> QED
  BY <1>1, <1>2, <1>3, <1>4, <1>5, <1>6 DEF Next

LEMMA PublishDoes ==
    ASSUME TypeOK, NEW m \in Macs, NEW e \in EndpointIds, NEW on \in BOOLEAN,
           PublishState(m, e, on)
    PROVE  LET new == Len(reports) + 1 IN
           /\ Len(reports') = new /\ reports' \in Seq(Report)
           /\ \A n \in Published : reports'[n] = reports[n]
           /\ reports'[new].mac = m /\ reports'[new].endpoint = e /\ reports'[new].on = on
           /\ \/ /\ session \in Workers /\ inbox'[session] = Append(inbox[session], new)
                 /\ \A v \in Workers \ {session} : inbox'[v] = inbox[v]
                 /\ inbox' \in [Workers -> Seq(1 .. new)]
                 /\ reports'[new].connection = connections /\ UNCHANGED <<gone, faults>>
              \/ /\ UNCHANGED inbox /\ gone' = gone \cup {new}
                 /\ faults' \in 0 .. MaxFaults
           /\ switch' = [switch EXCEPT ![<<m, e>>] = on]
           /\ UNCHANGED <<devices, request, session, connections, client, handling, adrift,
                          written, owners>>
<1> DEFINE new == Len(reports) + 1
           told == [mac |-> m, endpoint |-> e, on |-> on,
                    connection |-> IF inbox' = inbox THEN 0 ELSE connections]
<1>1. reports \in Seq(Report) /\ new \in Nat /\ new # 0
  BY Typed DEF TypeOK
<1>2. told \in Report
  <2>1. 0 \in 0 .. MaxConnections /\ connections \in 0 .. MaxConnections
    BY SmartHomeAssumption DEF TypeOK
  <2> QED
    BY <2>1 DEF Report
<1>3. reports' = Append(reports, told)
  BY DEF PublishState
<1>4. /\ told.mac = m /\ told.endpoint = e /\ told.on = on
      /\ inbox' # inbox => told.connection = connections
  OBVIOUS
<1> HIDE DEF told
<1>5. /\ Len(reports') = new /\ reports' \in Seq(Report) /\ reports'[new] = told
      /\ \A n \in Published : reports'[n] = reports[n]
  BY <1>1, <1>2, <1>3, Appended DEF Published
<1>6. CASE session # None /\ inbox' = [inbox EXCEPT ![session] = Append(@, new)]
           /\ UNCHANGED <<gone, faults>>
  <2>1. session \in Workers /\ inbox \in [Workers -> Seq(Published)]
    BY <1>6 DEF TypeOK, Published
  <2>2. /\ inbox'[session] = Append(inbox[session], new)
        /\ \A v \in Workers \ {session} : inbox'[v] = inbox[v]
    BY <1>6, <2>1
  <2>3. \A v \in Workers : inbox[v] \in Seq(1 .. new)
    <3>1. Published \subseteq 1 .. new
      BY <1>1, Typed DEF Published
    <3> QED
      BY <2>1, <3>1, SeqMonotonic
  <2>4. new \in 1 .. new
    BY <1>1
  <2>5. /\ Append(inbox[session], new) \in Seq(1 .. new)
        /\ Len(Append(inbox[session], new)) = Len(inbox[session]) + 1
        /\ Len(inbox[session]) \in Nat
    BY <2>1, <2>3, <2>4, Appended
  <2>6. inbox'[session] # inbox[session]
    BY <2>2, <2>5
  <2>7. inbox' # inbox
    BY <2>6
  <2>8. inbox' \in [Workers -> Seq(1 .. new)]
    BY <1>6, <2>1, <2>3, <2>5
  <2>9. told.connection = connections
    BY <1>4, <2>7
  <2> QED
    BY <1>4, <1>5, <1>6, <2>1, <2>2, <2>8, <2>9 DEF PublishState, clientVars
<1>7. CASE (IF session = None THEN UNCHANGED faults ELSE Fault)
           /\ gone' = gone \cup {new} /\ UNCHANGED inbox
  <2>1. faults' \in 0 .. MaxFaults
    BY <1>7, SmartHomeAssumption DEF TypeOK, Fault
  <2> QED
    BY <1>4, <1>5, <1>7, <2>1 DEF PublishState, clientVars
<1> QED
  BY <1>6, <1>7 DEF PublishState

\* A report is stored: it is told by the first endpoint with its id.
LEMMA StoredDoes ==
    ASSUME TypeOK, NEW n \in Published, Stored(n)
    PROVE  /\ devices' = {IF d \in Matching(reports[n].mac, reports[n].endpoint)
                          THEN [d EXCEPT !.endpoints =
                                  Updated(@, reports[n].endpoint, reports[n].on)]
                          ELSE d : d \in devices}
           /\ written'[Key(n)] = n /\ written' \in [Keys -> 0 .. Len(reports)]
           /\ \A k \in Keys : k # Key(n) => written'[k] = written[k]
           /\ gone' = gone \cup {o \in {written[Key(n)]} :
                                    o > n /\ reports[o].connection # reports[n].connection}
           /\ gone' \subseteq Published
<1>1. Key(n) \in Keys /\ written \in [Keys -> 0 .. Len(reports)] /\ n \in 0 .. Len(reports)
  BY Typed DEF TypeOK, Published
<1>2. written' = [written EXCEPT ![Key(n)] = n]
  BY DEF Stored
<1>3. /\ gone' = gone \cup {o \in {written[Key(n)]} :
                               o > n /\ reports[o].connection # reports[n].connection}
      /\ \A o \in {written[Key(n)]} : o > n => o \in Published
  <2>1. n \in Nat /\ n >= 1 /\ written[Key(n)] \in Nat /\ written[Key(n)] <= Len(reports)
        /\ Len(reports) \in Nat
    BY <1>1, Typed DEF Published
  <2>2. written[Key(n)] > n => written[Key(n)] \in Published
    BY <2>1 DEF Published
  <2> QED
    BY <2>2 DEF Stored
<1>4. gone' \subseteq Published
  BY <1>3, Typed
<1> QED
  BY <1>1, <1>2, <1>3, <1>4 DEF Stored

\* Document x once report n is stored.
After(n, x) ==
    IF x \in Matching(reports[n].mac, reports[n].endpoint)
    THEN [x EXCEPT !.endpoints = Updated(@, reports[n].endpoint, reports[n].on)]
    ELSE x

\* Every document after an update was one before, with at most a state changed.
LEMMA DocumentsAfter ==
    ASSUME TypeOK, NEW n \in Published, Stored(n), NEW d \in devices'
    PROVE  \E x \in devices :
              /\ d = After(n, x) /\ d \in Document
              /\ d.mac = x.mac /\ d.user = x.user /\ d.createdAt = x.createdAt
              /\ Len(d.endpoints) = Len(x.endpoints)
              /\ \A i \in 1 .. Len(x.endpoints) :
                    /\ d.endpoints[i].id = x.endpoints[i].id
                    /\ Key(n) # <<x.mac, x.endpoints[i].id>>
                          => d.endpoints[i].state = x.endpoints[i].state
                    /\ /\ Key(n) = <<x.mac, x.endpoints[i].id>>
                       /\ \A j \in 1 .. i - 1 : x.endpoints[j].id # x.endpoints[i].id
                       => d.endpoints[i].state = reports[n].on
<1> DEFINE r == reports[n]
<1>1. r.mac \in Macs /\ r.endpoint \in EndpointIds /\ r.on \in BOOLEAN /\ r \in Report
      /\ Key(n) = <<r.mac, r.endpoint>>
  BY Typed DEF Report
<1> HIDE DEF r
<1>2. PICK x \in devices :
         /\ d = IF x \in Matching(r.mac, r.endpoint)
                THEN [x EXCEPT !.endpoints = Updated(@, r.endpoint, r.on)] ELSE x
         /\ d = After(n, x)
  BY StoredDoes DEF r, After
<1>3. /\ x \in Document /\ x.endpoints \in Seq(Endpoint) /\ Len(x.endpoints) \in Nat
      /\ \A i \in 1 .. Len(x.endpoints) : x.endpoints[i] \in Endpoint
  BY Typed DEF Document
<1>4. CASE x \in Matching(r.mac, r.endpoint)
  <2> DEFINE eps == Updated(x.endpoints, r.endpoint, r.on)
  <2>1. eps \in Seq(Endpoint) /\ Len(eps) = Len(x.endpoints)
    BY <1>1, <1>3, UpdateDoes
  <2>2. \A i \in 1 .. Len(x.endpoints) :
           /\ eps[i].id = x.endpoints[i].id
           /\ x.endpoints[i].id # r.endpoint => eps[i].state = x.endpoints[i].state
           /\ (x.endpoints[i].id = r.endpoint /\ \A j \in 1 .. i - 1 : x.endpoints[j].id # r.endpoint)
                 => eps[i].state = r.on
    BY <1>1, <1>3, UpdateDoes
  <2> HIDE DEF eps
  <2>3. d = [x EXCEPT !.endpoints = eps]
    BY <1>2, <1>4 DEF eps
  <2>4. /\ d \in Document /\ d.mac = x.mac /\ d.user = x.user /\ d.createdAt = x.createdAt
        /\ d.endpoints = eps
    BY <1>3, <2>1, <2>3 DEF Document
  <2>5. x.mac = r.mac
    BY <1>4 DEF Matching
  <2>6. \A i \in 1 .. Len(x.endpoints) :
           Key(n) = <<x.mac, x.endpoints[i].id>> <=> x.endpoints[i].id = r.endpoint
    BY <1>1, <2>5
  <2> QED
    BY <1>2, <2>1, <2>2, <2>4, <2>6 DEF r
<1>5. CASE x \notin Matching(r.mac, r.endpoint)
  <2>1. d = x
    BY <1>2, <1>5
  <2>2. \A i \in 1 .. Len(x.endpoints) : Key(n) # <<x.mac, x.endpoints[i].id>>
    BY <1>1, <1>5 DEF Matching, Ids
  <2> QED
    BY <1>2, <1>3, <2>1, <2>2
<1> QED
  BY <1>4, <1>5

LEMMA TakeDoes ==
    ASSUME TypeOK, NEW w \in Workers, TakeReport(w)
    PROVE  /\ handling[w] = 0 /\ Len(inbox[w]) >= 1
           /\ handling'[w] = inbox[w][1] /\ inbox[w][1] \in Published
           /\ Len(inbox'[w]) = Len(inbox[w]) - 1
           /\ \A i \in 1 .. Len(inbox[w]) - 1 : inbox'[w][i] = inbox[w][i + 1]
           /\ \A v \in Workers \ {w} : handling'[v] = handling[v] /\ inbox'[v] = inbox[v]
           /\ handling' \in [Workers -> 0 .. Len(reports)] /\ inbox' \in [Workers -> Seq(Published)]
           /\ UNCHANGED <<devices, switch, reports, session, connections, adrift, written, gone>>
<1> DEFINE q == inbox[w]
           rest == SubSeq(q, 1, FirstFirst(q) - 1) \o SubSeq(q, FirstFirst(q) + 1, Len(q))
<1>1. q \in Seq(Published) /\ q # <<>> /\ handling[w] = 0
  BY Typed DEF TakeReport
<1>2. /\ Len(q) >= 1 /\ q[FirstFirst(q)] = q[1] /\ q[1] \in Published
      /\ rest \in Seq(Published) /\ Len(rest) = Len(q) - 1
      /\ \A i \in 1 .. Len(q) - 1 : rest[i] = q[i + 1]
  BY <1>1, FirstTaken
<1>3. /\ handling' = [handling EXCEPT ![w] = q[FirstFirst(q)]]
      /\ inbox' = [inbox EXCEPT ![w] = rest]
      /\ UNCHANGED <<devices, switch, reports, session, connections, adrift, written, gone>>
  BY DEF TakeReport, deviceVars, clientVars
<1>4. /\ handling \in [Workers -> 0 .. Len(reports)] /\ inbox \in [Workers -> Seq(Published)]
      /\ q[1] \in 0 .. Len(reports)
  <2>1. handling \in [Workers -> 0 .. Len(reports)] /\ inbox \in [Workers -> Seq(Published)]
    BY DEF TypeOK, Published
  <2>2. \A n \in Published : n \in 0 .. Len(reports)
    BY Typed DEF Published
  <2> QED
    BY <1>2, <2>1, <2>2
<1> HIDE DEF rest
<1>5. handling'[w] = q[1] /\ inbox'[w] = rest
  BY <1>2, <1>3, <1>4
<1>6. \A v \in Workers \ {w} : handling'[v] = handling[v] /\ inbox'[v] = inbox[v]
  BY <1>3, <1>4
<1>7. handling' \in [Workers -> 0 .. Len(reports)] /\ inbox' \in [Workers -> Seq(Published)]
  BY <1>2, <1>3, <1>4
<1> QED
  BY <1>1, <1>2, <1>3, <1>5, <1>6, <1>7

LEMMA LeaveDoes ==
    ASSUME TypeOK, NEW w \in Workers, LeaveClient(w)
    PROVE  /\ handling'[w] = 0 /\ inbox'[w] = <<>>
           /\ \A v \in Workers \ {w} : handling'[v] = handling[v] /\ inbox'[v] = inbox[v]
           /\ handling' \in [Workers -> 0 .. Len(reports)] /\ inbox' \in [Workers -> Seq(Published)]
           /\ session' = IF session = w THEN None ELSE session
           /\ adrift \subseteq adrift' /\ adrift' \subseteq adrift \cup {handling[w]}
           /\ gone \subseteq gone'
           /\ \A n \in Published : InHand(w, n) => n \in adrift' \/ n \in gone'
           /\ adrift' \subseteq Published /\ gone' \subseteq Published
           /\ faults' \in 0 .. MaxFaults
           /\ UNCHANGED <<devices, switch, reports, connections, written>>
<1>1. PICK begun \in SUBSET ({handling[w]} \ {0}) :
         /\ adrift' = adrift \cup begun
         /\ gone' = gone \cup (({handling[w]} \ {0}) \ begun)
                         \cup {inbox[w][i] : i \in 1 .. Len(inbox[w])}
  BY DEF LeaveClient
<1>2. /\ handling' = [handling EXCEPT ![w] = 0] /\ inbox' = [inbox EXCEPT ![w] = <<>>]
      /\ session' = IF session = w THEN None ELSE session
      /\ UNCHANGED <<devices, switch, reports, connections, written>>
  BY DEF LeaveClient, deviceVars
<1>3. /\ handling \in [Workers -> 0 .. Len(reports)] /\ inbox \in [Workers -> Seq(Published)]
      /\ Len(reports) \in Nat
  BY Typed DEF TypeOK, Published
<1>4. handling[w] # 0 => handling[w] \in Published
  BY <1>3 DEF Published
<1>5. /\ handling'[w] = 0 /\ inbox'[w] = <<>>
      /\ \A v \in Workers \ {w} : handling'[v] = handling[v] /\ inbox'[v] = inbox[v]
  BY <1>2, <1>3
<1>6. handling' \in [Workers -> 0 .. Len(reports)] /\ inbox' \in [Workers -> Seq(Published)]
  BY <1>2, <1>3
<1>7. \A n \in Published : InHand(w, n) => n \in adrift' \/ n \in gone'
  BY <1>1 DEF InHand, Published
<1>8. adrift \subseteq adrift' /\ adrift' \subseteq adrift \cup {handling[w]} /\ gone \subseteq gone'
  BY <1>1
<1>9. adrift' \subseteq Published /\ gone' \subseteq Published
  BY <1>1, <1>4, Typed
<1>10. faults' \in 0 .. MaxFaults
  BY SmartHomeAssumption DEF TypeOK, LeaveClient, Fault
<1> QED
  BY <1>2, <1>5, <1>6, <1>7, <1>8, <1>9, <1>10

\* A handler returns, or fails.
LEMMA HandlerEnds ==
    ASSUME TypeOK, NEW w \in Workers, WriteReport(w) \/ WriteFails(w)
    PROVE  /\ handling[w] \in Published /\ handling'[w] = 0
           /\ \A v \in Workers \ {w} : handling'[v] = handling[v]
           /\ handling' \in [Workers -> 0 .. Len(reports)]
           /\ UNCHANGED <<switch, reports, session, connections, inbox, adrift>>
<1>1. /\ handling \in [Workers -> 0 .. Len(reports)] /\ Len(reports) \in Nat /\ handling[w] # 0
      /\ handling' = [handling EXCEPT ![w] = 0]
  BY Typed DEF TypeOK, WriteReport, WriteFails
<1>2. UNCHANGED <<switch, reports, session, connections, inbox, adrift>>
  BY DEF WriteReport, WriteFails, deviceVars, clientVars
<1> QED
  BY <1>1, <1>2 DEF Published

(***************************************************************************)
(* Typing                                                                  *)
(***************************************************************************)

LEMMA SmartHomeInit ==
    ASSUME Init
    PROVE  SmartHomeInv
<1>1. TypeOK
  BY SmartHomeAssumption DEF Init, TypeOK, Channel!Init
<1>2. OwnersAreKnown /\ OneDocument /\ DocumentsTellLastReport /\ LastIsAccountedFor
  BY DEF Init, OwnersAreKnown, CommandsAreTheOwners, OneDocument, DocumentsTellLastReport,
         LastIsAccountedFor
<1>3. Published = {}
  BY DEF Init, Published
<1>4. Connections /\ SwitchFollowsReports
  BY <1>3 DEF Init, Connections, SwitchFollowsReports, InboxesAreSorted, OneHolder,
              HoldersAreConnected, AdriftIsLast, OneAfterAnother
<1> QED
  BY <1>1, <1>2, <1>4 DEF SmartHomeInv

LEMMA PersistTyped ==
    ASSUME TypeOK, NEW n \in Published, Persist(n), UNCHANGED reports
    PROVE  /\ devices' \subseteq Document /\ \A d \in devices' : d.createdAt <= Len(reports)
           /\ written' \in [Keys -> 0 .. Len(reports)] /\ gone' \subseteq Published
<1>1. CASE Stored(n)
  <2>1. \A d \in devices' : d \in Document /\ d.createdAt <= Len(reports)
    BY <1>1, DocumentsAfter DEF TypeOK
  <2> QED
    BY <1>1, <2>1, StoredDoes
<1>2. CASE Unmatched(n)
  BY <1>2, Typed DEF TypeOK, Unmatched
<1> QED
  BY <1>1, <1>2 DEF Persist

LEMMA TypeStep ==
    ASSUME TypeOK, [Next]_vars
    PROVE  TypeOK'
<1>0. Len(reports) \in Nat /\ Len(command) \in Nat
  BY Typed
<1>1. ASSUME NEW m \in Macs, NEW u \in Users, NEW l \in Layouts, Provision(m, u, l)
      PROVE  TypeOK'
  <2>1. [mac |-> m, user |-> u, createdAt |-> Len(reports), endpoints |-> NewEndpoints(l)]
           \in Document
    BY <1>0, NewDoes DEF Document
  <2>2. /\ devices' \subseteq Document /\ \A d \in devices' : d.createdAt <= Len(reports)
    BY <1>0, <1>1, <2>1 DEF TypeOK, Provision
  <2>3. written' \in [Keys -> 0 .. Len(reports)]
    BY <1>0, <1>1 DEF TypeOK, Provision
  <2>4. owners' \subseteq Macs \X Users
    BY <1>1 DEF TypeOK, Provision
  <2> QED
    BY <1>1, <2>2, <2>3, <2>4
       DEF TypeOK, Provision, executeVars, channelVars, deviceVars, clientVars, reportVars
<1>2. ASSUME NEW m \in Macs, Release(m) PROVE TypeOK'
  BY <1>2 DEF TypeOK, Release, executeVars, channelVars, deviceVars, clientVars, reportVars
<1>3. ASSUME NEW u \in Users, NEW id, NEW on \in BOOLEAN, ExecuteFind(u, id, on) PROVE TypeOK'
  <2>1. PICK d \in devices : d.mac = MacOf(id) /\ EndpointOf(id) \in Ids(d)
    BY <1>3 DEF ExecuteFind, Found, Findable
  <2>2. MacOf(id) \in Macs /\ EndpointOf(id) \in EndpointIds
    BY <2>1, Typed DEF Document, Ids, Endpoint
  <2>3. [mac |-> MacOf(id), endpoint |-> EndpointOf(id), on |-> on] \in Requests
    BY <2>2 DEF Requests
  <2>4. request' \in [Users -> Requests \cup {None}]
    BY <1>3, <2>3 DEF TypeOK, ExecuteFind
  <2> QED
    BY <1>3, <2>4 DEF TypeOK, ExecuteFind, channelVars, deviceVars, clientVars, reportVars
<1>4. ASSUME NEW u \in Users, ExecutePut(u) PROVE TypeOK'
  <2>1. request[u] \in Requests
    BY <1>4 DEF TypeOK, ExecutePut
  <2>2. [mac |-> request[u].mac, by |-> u, on |-> request[u].on,
         endpoint |-> request[u].endpoint] \in Command
    BY <2>1 DEF Command, Requests
  <2>3. command' \in Seq(Command) /\ Len(command') = Len(command) + 1
    BY <1>4, <2>2, Appended DEF TypeOK, ExecutePut
  <2>4. /\ waiting' \subseteq 1 .. Len(command') /\ delivered' \subseteq 1 .. Len(command')
        /\ dropped' \subseteq 1 .. Len(command')
    <3>1. /\ waiting' = waiting \cup {Len(command) + 1}
          /\ delivered' = delivered /\ dropped' = dropped
      BY <1>4 DEF ExecutePut, Channel!Accept
    <3>2. 1 .. Len(command) \subseteq 1 .. Len(command) + 1
          /\ Len(command) + 1 \in 1 .. Len(command) + 1
      BY <1>0
    <3> QED
      BY <2>3, <3>1, <3>2 DEF TypeOK
  <2>5. request' \in [Users -> Requests \cup {None}]
    BY <1>4 DEF TypeOK, ExecutePut
  <2> QED
    BY <1>4, <2>3, <2>4, <2>5 DEF TypeOK, ExecutePut, deviceVars, clientVars, reportVars
<1>5. ASSUME NEW m \in Macs, NEW e \in EndpointIds, NEW on \in BOOLEAN, PublishState(m, e, on),
             UNCHANGED command, UNCHANGED <<waiting, dropped>>,
             delivered' \subseteq 1 .. Len(command)
      PROVE  TypeOK'
  <2>1. Len(reports') = Len(reports) + 1 /\ reports' \in Seq(Report)
    BY <1>5, PublishDoes
  <2>2. /\ 0 .. Len(reports) \subseteq 0 .. Len(reports')
        /\ Published \subseteq 1 .. Len(reports') /\ Len(reports') \in 1 .. Len(reports')
    BY <1>0, <2>1 DEF Published
  <2>3. inbox' \in [Workers -> Seq(1 .. Len(reports'))]
    <3>1. CASE UNCHANGED inbox
      <4>1. \A w \in Workers : inbox[w] \in Seq(1 .. Len(reports'))
        BY <2>2, Typed, SeqMonotonic
      <4> QED
        BY <3>1, <4>1 DEF TypeOK
    <3>2. CASE inbox' \in [Workers -> Seq(1 .. Len(reports) + 1)]
      BY <2>1, <3>2
    <3> QED
      BY <1>5, <3>1, <3>2, PublishDoes
  <2>4. /\ gone' \subseteq 1 .. Len(reports') /\ faults' \in 0 .. MaxFaults
        /\ switch' \in [Keys -> BOOLEAN]
    <3>1. gone' = gone \/ gone' = gone \cup {Len(reports')}
      BY <1>5, <2>1, PublishDoes
    <3>2. gone' \subseteq 1 .. Len(reports')
      BY <2>2, <3>1, Typed
    <3>3. faults' \in 0 .. MaxFaults
      BY <1>5, PublishDoes DEF TypeOK
    <3>4. switch' = [switch EXCEPT ![<<m, e>>] = on]
      BY <1>5, PublishDoes
    <3>5. switch' \in [Keys -> BOOLEAN]
      BY <3>4 DEF TypeOK
    <3> QED
      BY <3>2, <3>3, <3>5
  <2>5. /\ handling \in [Workers -> 0 .. Len(reports')] /\ adrift \subseteq 1 .. Len(reports')
        /\ written \in [Keys -> 0 .. Len(reports')]
        /\ \A d \in devices : d.createdAt <= Len(reports')
    <3>1. \A d \in devices : d.createdAt \in Nat /\ d.createdAt <= Len(reports)
      BY Typed DEF TypeOK, Document
    <3>2. \A d \in devices : d.createdAt <= Len(reports')
      BY <1>0, <2>1, <3>1
    <3>3. handling \in [Workers -> 0 .. Len(reports')] /\ written \in [Keys -> 0 .. Len(reports')]
      BY <2>2 DEF TypeOK
    <3> QED
      BY <2>2, <3>2, <3>3, Typed
  <2>6. UNCHANGED <<devices, request, session, connections, client, handling, adrift,
                    written, owners>>
    BY <1>5, PublishDoes
  <2> QED
    BY <1>5, <2>1, <2>3, <2>4, <2>5, <2>6 DEF TypeOK
<1>6. ASSUME NEW m \in Macs, NEW e \in EndpointIds, NEW on \in BOOLEAN, DeviceReports(m, e, on)
      PROVE  TypeOK'
  BY <1>5, <1>6 DEF DeviceReports, channelVars, TypeOK
<1>7. ASSUME NEW c \in waiting, DeviceObeys(c) PROVE TypeOK'
  <2>1. PICK m \in Macs, e \in EndpointIds, on \in BOOLEAN :
           m = command[c].mac /\ e = command[c].endpoint /\ on = command[c].on
    BY CommandTyped
  <2>2. PublishState(m, e, on)
    BY <1>7, <2>1 DEF DeviceObeys, PublishState
  <2>3. UNCHANGED <<command, waiting, dropped>> /\ delivered' \subseteq 1 .. Len(command)
    BY <1>7 DEF DeviceObeys, Channel!Deliver, TypeOK
  <2> QED
    BY <1>5, <2>2, <2>3
<1>8. ASSUME \/ \E c \in waiting : DeviceMisses(c)
             \/ CommandsLeaveChannel
      PROVE  TypeOK'
  <2>1. /\ waiting' \subseteq 1 .. Len(command) /\ delivered' \subseteq 1 .. Len(command)
        /\ dropped' \subseteq 1 .. Len(command)
    BY <1>8 DEF TypeOK, DeviceMisses, CommandsLeaveChannel, Channel!Deliver, Channel!Settle,
                Channel!Drop
  <2> QED
    BY <1>8, <2>1 DEF TypeOK, DeviceMisses, CommandsLeaveChannel, deviceVars, clientVars, reportVars
<1>9. ASSUME NEW w \in Workers, Connect(w) PROVE TypeOK'
  <2>1. connections' \in 0 .. MaxConnections
    BY <1>9, SmartHomeAssumption DEF TypeOK, Connect
  <2> QED
    BY <1>9, <2>1 DEF TypeOK, Connect, executeVars, channelVars, deviceVars, reportVars
<1>10. CASE SessionLost
  <2>1. faults' \in 0 .. MaxFaults
    BY <1>10, SmartHomeAssumption DEF TypeOK, SessionLost, Fault
  <2> QED
    BY <1>10, <2>1 DEF TypeOK, SessionLost, executeVars, channelVars, deviceVars, reportVars
<1>11. ASSUME NEW w \in Workers, LeaveClient(w) PROVE TypeOK'
  <2>1. session' \in Workers \cup {None} /\ client' \in [Workers -> BOOLEAN]
    BY <1>11 DEF TypeOK, LeaveClient
  <2> QED
    BY <1>11, <2>1, LeaveDoes DEF TypeOK, LeaveClient, executeVars, channelVars, Published
<1>12. ASSUME NEW w \in Workers, TakeReport(w) PROVE TypeOK'
  BY <1>12, TakeDoes
     DEF TypeOK, TakeReport, executeVars, channelVars, deviceVars, clientVars, Published
<1>13. ASSUME NEW w \in Workers, WriteReport(w) PROVE TypeOK'
  <2>1. handling[w] \in Published /\ Persist(handling[w]) /\ UNCHANGED reports
    BY <1>13, HandlerEnds DEF WriteReport
  <2>2. /\ devices' \subseteq Document /\ \A d \in devices' : d.createdAt <= Len(reports)
        /\ written' \in [Keys -> 0 .. Len(reports)] /\ gone' \subseteq Published
    BY <2>1, PersistTyped
  <2> QED
    BY <1>13, <2>1, <2>2, HandlerEnds
       DEF TypeOK, WriteReport, executeVars, channelVars, deviceVars, clientVars, Published
<1>14. ASSUME NEW w \in Workers, WriteFails(w) PROVE TypeOK'
  <2>1. faults' \in 0 .. MaxFaults /\ gone' \subseteq Published
    <3>1. faults' \in 0 .. MaxFaults
      BY <1>14, SmartHomeAssumption DEF TypeOK, WriteFails, Fault
    <3>2. gone' = gone \cup {handling[w]} /\ handling[w] \in Published
      BY <1>14, HandlerEnds DEF WriteFails
    <3> QED
      BY <3>1, <3>2, Typed
  <2> QED
    BY <1>14, <2>1, HandlerEnds
       DEF TypeOK, WriteFails, executeVars, channelVars, deviceVars, clientVars, Published
<1>15. ASSUME NEW n \in adrift, LateWrite(n) PROVE TypeOK'
  <2>1. n \in Published /\ Persist(n) /\ UNCHANGED reports
    BY <1>15, Typed DEF LateWrite, deviceVars
  <2>2. /\ devices' \subseteq Document /\ \A d \in devices' : d.createdAt <= Len(reports)
        /\ written' \in [Keys -> 0 .. Len(reports)] /\ gone' \subseteq Published
    BY <2>1, PersistTyped
  <2> QED
    BY <1>15, <2>1, <2>2
       DEF TypeOK, LateWrite, executeVars, channelVars, deviceVars, clientVars, Published
<1>16. CASE UNCHANGED vars
  BY <1>16 DEF TypeOK, vars, executeVars, channelVars, deviceVars, clientVars, reportVars
<1> QED
  BY <1>1, <1>2, <1>3, <1>4, <1>6, <1>7, <1>8, <1>9, <1>10, <1>11, <1>12, <1>13, <1>14, <1>15,
     <1>16 DEF Next

(***************************************************************************)
(* Connections                                                             *)
(***************************************************************************)

\* In every step but a publication, reports only go from the inbox to the
\* handler, and from there to the document or adrift.
LEMMA ConnectionsKept ==
    ASSUME TypeOK, Connections, UNCHANGED reports, InboxesAreSorted',
           \A w \in Workers : \A n \in Published : InHand(w, n)' => InHand(w, n),
           \A n \in adrift' : n \in adrift \/ \E w \in Workers :
              handling[w] = n /\ w # session' /\ \A o \in Published : ~InHand(w, o)',
           \A n \in Published : written'[Key(n)] = n =>
              written[Key(n)] = n \/ n \in adrift \/ \E w \in Workers : handling[w] = n,
           \A w \in Workers : \A n \in Published : handling'[w] = n =>
              handling[w] = n \/ (handling[w] = 0 /\ Len(inbox[w]) >= 1 /\ inbox[w][1] = n),
           \/ session' \in {session, None} /\ UNCHANGED connections
           \/ connections' = connections + 1
    PROVE  Connections'
<1> USE DEF Connections
<1>1. /\ Published' = Published /\ Published \subseteq Nat /\ 0 \notin Published
      /\ \A m, n : SameConnection(m, n)' <=> SameConnection(m, n)
      /\ \A n : Key(n)' = Key(n)
  BY Typed DEF Published, SameConnection, Key
<1>2. ASSUME NEW w \in Workers, NEW n \in Published, handling[w] = n PROVE InHand(w, n)
  BY <1>2 DEF InHand
<1>3. ASSUME NEW n \in Published, InFlight(n)' PROVE InFlight(n)
  <2>1. InFlight(n)' <=> (\E w \in Workers : InHand(w, n)') \/ n \in adrift'
    BY DEF InFlight, InHand
  <2>2. InFlight(n) <=> (\E w \in Workers : InHand(w, n)) \/ n \in adrift
    BY DEF InFlight, InHand
  <2> QED
    BY <1>2, <1>3, <2>1, <2>2
<1>4. OneHolder'
  BY <1>1 DEF OneHolder
<1>5. HoldersAreConnected'
  <2> SUFFICES ASSUME NEW n \in Published
               PROVE  /\ reports[n].connection <= connections'
                      /\ session' # None /\ reports[n].connection = connections' =>
                            /\ n \notin adrift'
                            /\ \A w \in Workers : InHand(w, n)' => w = session'
    BY <1>1 DEF HoldersAreConnected
  <2>1. reports[n].connection \in Nat /\ connections \in Nat /\ reports[n].connection <= connections
    BY Typed DEF HoldersAreConnected
  <2>2. CASE connections' = connections + 1
    BY <2>1, <2>2
  <2>3. CASE session' \in {session, None} /\ UNCHANGED connections
    <3> SUFFICES ASSUME session' # None, reports[n].connection = connections
                 PROVE  n \notin adrift' /\ \A w \in Workers : InHand(w, n)' => w = session'
      BY <2>1, <2>3
    <3>1. session' = session /\ n \notin adrift /\ \A w \in Workers : InHand(w, n) => w = session
      BY <2>3 DEF HoldersAreConnected
    <3> QED
      BY <1>2, <3>1
  <2> QED
    BY <2>2, <2>3
<1>6. AdriftIsLast'
  <2> SUFFICES ASSUME NEW m \in Published, NEW n \in Published, m \in adrift',
                      SameConnection(m, n), NEW w \in Workers, InHand(w, n)'
               PROVE  FALSE
    BY <1>1 DEF AdriftIsLast
  <2>1. InHand(w, n) /\ m \notin adrift
    BY DEF AdriftIsLast
  <2>2. PICK v \in Workers : handling[v] = m /\ ~InHand(v, n)'
    BY <2>1
  <2>3. v = w
    BY <1>2, <2>1, <2>2 DEF OneHolder
  <2> QED
    BY <2>2, <2>3
<1>7. OneAfterAnother'
  <2> SUFFICES ASSUME NEW m \in Published, NEW n \in Published, m < n, SameConnection(m, n),
                      InFlight(m)'
               PROVE  /\ \A w \in Workers : handling'[w] # n
                      /\ n \notin adrift'
                      /\ written'[Key(n)] # n
    BY <1>1 DEF OneAfterAnother
  <2>1. /\ InFlight(m) /\ n \notin adrift /\ written[Key(n)] # n
        /\ \A w \in Workers : handling[w] # n
    BY <1>3 DEF OneAfterAnother
  <2>2. ASSUME NEW v \in Workers, handling[v] = 0, Len(inbox[v]) >= 1, inbox[v][1] = n
        PROVE  FALSE
    <3>1. Len(inbox[v]) \in Nat /\ 1 \in 1 .. Len(inbox[v])
      BY <2>2, Typed
    <3>2. InHand(v, n)
      BY <2>2, <3>1 DEF InHand
    <3>3. m \notin adrift
      BY <3>2 DEF AdriftIsLast
    <3>4. PICK w \in Workers : InHand(w, m)
      BY <2>1, <3>3 DEF InFlight, InHand
    <3>5. w = v
      BY <3>2, <3>4 DEF OneHolder
    <3>6. PICK i \in 1 .. Len(inbox[v]) : inbox[v][i] = m
      BY <1>1, <2>2, <3>4, <3>5 DEF InHand
    <3>7. i = 1 \/ 1 < i
      BY <3>1
    <3>8. 1 < i => n < m
      BY <2>2, <3>1, <3>6 DEF InboxesAreSorted
    <3>9. m \in Nat /\ n \in Nat
      BY <1>1
    <3> QED
      BY <2>2, <3>6, <3>7, <3>8, <3>9
  <2>3. \A w \in Workers : handling'[w] # n
    BY <2>1, <2>2
  <2>4. n \notin adrift' /\ written'[Key(n)] # n
    BY <2>1
  <2> QED
    BY <2>3, <2>4
<1> QED
  BY <1>4, <1>5, <1>6, <1>7

LEMMA PublishHands ==
    ASSUME TypeOK, NEW m \in Macs, NEW e \in EndpointIds, NEW on \in BOOLEAN,
           PublishState(m, e, on), NEW new \in Nat, new = Len(reports) + 1
    PROVE  /\ Published' = Published \cup {new}
           /\ new # 0 /\ \A n \in Published : n \in Nat /\ n # 0 /\ n < new
           /\ \A w \in Workers : \A n \in Published : InHand(w, n)' <=> InHand(w, n)
           /\ \A w \in Workers : InHand(w, new)' =>
                 session = w /\ reports'[new].connection = connections
           /\ (session \in Workers /\ InHand(session, new)') \/ new \in gone'
           /\ gone \subseteq gone'
           /\ \A n, o \in Published : SameConnection(n, o)' <=> SameConnection(n, o)
           /\ \A n \in Published : Key(n)' = Key(n) /\ reports'[n] = reports[n]
           /\ Key(new)' = <<m, e>>
           /\ \A w \in Workers : handling'[w] # new
           /\ new \notin adrift' /\ \A k \in Keys : written'[k] # new
<1>1. /\ new # 0 /\ \A n \in Published : n \in Nat /\ n # 0 /\ n < new
      /\ new \notin Published
  BY Typed DEF Published
<1>2. /\ Len(reports') = new /\ \A n \in Published : reports'[n] = reports[n]
      /\ reports'[new].mac = m /\ reports'[new].endpoint = e
      /\ UNCHANGED <<session, handling, adrift, written>>
  BY PublishDoes
<1>3. Published' = Published \cup {new}
  <2>1. Published' = 1 .. new
    BY <1>2 DEF Published
  <2>2. 1 .. Len(reports) + 1 = 1 .. Len(reports) \cup {Len(reports) + 1}
    BY Typed
  <2> QED
    BY <2>1, <2>2 DEF Published
<1>4. /\ \A w \in Workers : handling'[w] # new
      /\ new \notin adrift' /\ \A k \in Keys : written'[k] # new
  <2>1. /\ Len(reports) \in Nat /\ adrift \subseteq Published
        /\ \A k \in Keys : written[k] \in Nat /\ written[k] <= Len(reports)
        /\ \A w \in Workers : handling[w] \in Nat /\ handling[w] <= Len(reports)
    BY Typed
  <2>2. \A k \in Keys : written'[k] # new
    BY <1>2, <2>1
  <2>3. ASSUME NEW w \in Workers PROVE handling'[w] # new
    <3>1. handling[w] \in Nat /\ handling[w] <= Len(reports) /\ Len(reports) \in Nat
      BY <2>1
    <3>2. handling[w] # new
      BY <3>1
    <3> QED
      BY <1>2, <3>2
  <2> QED
    BY <1>1, <1>2, <2>1, <2>2, <2>3
<1>5. /\ \A n, o \in Published : SameConnection(n, o)' <=> SameConnection(n, o)
      /\ \A n \in Published : Key(n)' = Key(n)
      /\ Key(new)' = <<m, e>>
  BY <1>2 DEF SameConnection, Key
<1>6. \/ /\ session \in Workers /\ inbox'[session] = Append(inbox[session], new)
         /\ \A v \in Workers \ {session} : inbox'[v] = inbox[v]
         /\ reports'[new].connection = connections /\ UNCHANGED gone
      \/ UNCHANGED inbox /\ gone' = gone \cup {new}
  BY PublishDoes
<1>7. \A w \in Workers : ~InHand(w, new)
  <2>1. \A w \in Workers : handling[w] # new
    BY <1>2, <1>4
  <2> QED
    BY <1>1, <2>1, Typed DEF InHand
<1>8. CASE UNCHANGED inbox /\ gone' = gone \cup {new}
  <2>1. \A w \in Workers : \A n : InHand(w, n)' <=> InHand(w, n)
    BY <1>2, <1>8 DEF InHand
  <2> QED
    BY <1>1, <1>2, <1>3, <1>4, <1>5, <1>7, <1>8, <2>1
<1>9. CASE /\ session \in Workers /\ inbox'[session] = Append(inbox[session], new)
           /\ \A v \in Workers \ {session} : inbox'[v] = inbox[v]
           /\ reports'[new].connection = connections /\ UNCHANGED gone
  <2>1. inbox[session] \in Seq(Nat)
    <3>1. inbox[session] \in Seq(Published) /\ Published \subseteq Nat
      BY <1>1, <1>9, Typed
    <3> QED
      BY <3>1, SeqMonotonic
  <2>2. /\ Len(inbox'[session]) = Len(inbox[session]) + 1 /\ Len(inbox[session]) \in Nat
        /\ inbox'[session][Len(inbox[session]) + 1] = new
        /\ \A i \in 1 .. Len(inbox[session]) : inbox'[session][i] = inbox[session][i]
    BY <1>1, <1>9, <2>1, Appended
  <2>3. InHand(session, new)'
    BY <1>2, <2>2 DEF InHand
  <2>4. \A w \in Workers \ {session} : \A n : InHand(w, n)' <=> InHand(w, n)
    BY <1>2, <1>9 DEF InHand
  <2>5. \A n \in Published : InHand(session, n)' <=> InHand(session, n)
    BY <1>1, <1>2, <1>9, <2>2 DEF InHand
  <2> QED
    BY <1>1, <1>2, <1>3, <1>4, <1>5, <1>7, <1>9, <2>3, <2>4, <2>5
<1> QED
  BY <1>6, <1>8, <1>9

LEMMA PublishSorted ==
    ASSUME TypeOK, InboxesAreSorted, NEW m \in Macs, NEW e \in EndpointIds, NEW on \in BOOLEAN,
           PublishState(m, e, on)
    PROVE  InboxesAreSorted'
<1> SUFFICES ASSUME NEW w \in Workers, NEW i \in 1 .. Len(inbox'[w]),
                    NEW j \in 1 .. Len(inbox'[w]), i < j
             PROVE  inbox'[w][i] < inbox'[w][j]
  BY DEF InboxesAreSorted
<1>1. CASE inbox'[w] = inbox[w]
  BY <1>1 DEF InboxesAreSorted
<1>2. CASE inbox'[w] = Append(inbox[w], Len(reports) + 1)
  <2>1. /\ inbox[w] \in Seq(Published) /\ Len(inbox[w]) \in Nat /\ Len(reports) \in Nat
        /\ \A k \in 1 .. Len(inbox[w]) : inbox[w][k] \in Published
    BY Typed
  <2>2. inbox[w] \in Seq(Nat)
    BY <2>1, SeqMonotonic DEF Published
  <2>3. /\ Len(inbox'[w]) = Len(inbox[w]) + 1
        /\ inbox'[w][Len(inbox[w]) + 1] = Len(reports) + 1
        /\ \A k \in 1 .. Len(inbox[w]) : inbox'[w][k] = inbox[w][k]
    BY <1>2, <2>1, <2>2, Appended
  <2>4. i \in 1 .. Len(inbox[w]) /\ (j \in 1 .. Len(inbox[w]) \/ j = Len(inbox[w]) + 1)
    BY <2>1, <2>3
  <2>5. CASE j \in 1 .. Len(inbox[w])
    BY <2>3, <2>4, <2>5 DEF InboxesAreSorted
  <2>6. CASE j = Len(inbox[w]) + 1
    BY <2>1, <2>3, <2>4, <2>6 DEF Published
  <2> QED
    BY <2>4, <2>5, <2>6
<1> QED
  BY <1>1, <1>2, PublishDoes

LEMMA PublishConnections ==
    ASSUME TypeOK, Connections, NEW m \in Macs, NEW e \in EndpointIds, NEW on \in BOOLEAN,
           PublishState(m, e, on), NEW new \in Nat, new = Len(reports) + 1
    PROVE  Connections'
<1> USE DEF Connections
<1>1. /\ Published' = Published \cup {new}
      /\ new # 0 /\ \A n \in Published : n \in Nat /\ n # 0 /\ n < new
      /\ \A w \in Workers : \A n \in Published : InHand(w, n)' <=> InHand(w, n)
      /\ \A w \in Workers : InHand(w, new)' => session = w /\ reports'[new].connection = connections
      /\ \A n, o \in Published : SameConnection(n, o)' <=> SameConnection(n, o)
      /\ \A n \in Published : Key(n)' = Key(n) /\ reports'[n] = reports[n]
      /\ \A w \in Workers : handling'[w] # new
      /\ new \notin adrift' /\ written'[Key(new)'] # new
  <2>1. Key(new)' \in Keys
    BY PublishHands DEF Keys
  <2> QED
    BY <2>1, PublishHands
<1>2. UNCHANGED <<session, connections, handling, adrift, written>>
  BY PublishDoes
<1>3. /\ \A n, o : SameConnection(n, o)' <=> reports'[n].connection = reports'[o].connection
      /\ None \notin Workers /\ connections \in Nat
      /\ reports'[new].connection \in Nat /\ reports'[new].connection <= connections
  <2>1. reports'[new].connection \in {0, connections} /\ connections \in Nat
    BY Typed DEF PublishState, TypeOK
  <2> QED
    BY <2>1, Typed DEF SameConnection
<1>4. \A w \in Workers : \A n \in Published :
         InHand(w, new)' /\ InHand(w, n)' => session = w
  BY <1>1
<1>5. ASSUME NEW w \in Workers, InHand(w, new)', NEW n \in Published,
             reports'[n].connection = reports'[new].connection
      PROVE  n \notin adrift' /\ \A v \in Workers : InHand(v, n)' => v = w
  <2>1. session = w /\ reports[n].connection = connections
    BY <1>1, <1>5
  <2>2. n \notin adrift /\ \A v \in Workers : InHand(v, n) => v = session
    BY <1>3, <2>1 DEF HoldersAreConnected
  <2> QED
    BY <1>1, <1>2, <2>1, <2>2
<1>6. InboxesAreSorted'
  BY PublishSorted
<1>7. OneHolder'
  <2> SUFFICES ASSUME NEW v \in Workers, NEW w \in Workers, NEW x \in Published',
                      NEW y \in Published', InHand(v, x)', InHand(w, y)', SameConnection(x, y)'
               PROVE  v = w
    BY DEF OneHolder
  <2>1. CASE x = new \/ y = new
    BY <1>1, <1>3, <1>5, <2>1
  <2>2. CASE x \in Published /\ y \in Published
    BY <1>1, <2>2 DEF OneHolder
  <2> QED
    BY <1>1, <2>1, <2>2
<1>8. HoldersAreConnected'
  <2> SUFFICES ASSUME NEW n \in Published'
               PROVE  /\ reports'[n].connection <= connections
                      /\ session # None /\ reports'[n].connection = connections =>
                            /\ n \notin adrift'
                            /\ \A w \in Workers : InHand(w, n)' => w = session
    BY <1>2 DEF HoldersAreConnected
  <2>1. CASE n = new
    BY <1>1, <1>3, <2>1
  <2>2. CASE n \in Published
    BY <1>1, <1>2, <2>2 DEF HoldersAreConnected
  <2> QED
    BY <1>1, <2>1, <2>2
<1>9. AdriftIsLast'
  <2> SUFFICES ASSUME NEW x \in Published', NEW y \in Published', x \in adrift',
                      SameConnection(x, y)', NEW w \in Workers, InHand(w, y)'
               PROVE  FALSE
    BY DEF AdriftIsLast
  <2>1. x \in Published
    BY <1>1
  <2>2. CASE y = new
    BY <1>3, <1>5, <2>1, <2>2
  <2>3. CASE y \in Published
    BY <1>1, <1>2, <2>1, <2>3 DEF AdriftIsLast
  <2> QED
    BY <1>1, <2>2, <2>3
<1>10. OneAfterAnother'
  <2> SUFFICES ASSUME NEW x \in Published', NEW y \in Published', x < y, SameConnection(x, y)',
                      InFlight(x)'
               PROVE  /\ \A w \in Workers : handling'[w] # y
                      /\ y \notin adrift' /\ written'[Key(y)'] # y
    BY DEF OneAfterAnother
  <2>1. CASE y = new
    BY <1>1, <2>1
  <2>2. CASE y \in Published
    <3>1. x \in Published
      BY <1>1, <2>2
    <3>2. InFlight(x)
      BY <1>1, <1>2, <3>1 DEF InFlight, InHand
    <3>3. /\ \A w \in Workers : handling[w] # y
          /\ y \notin adrift /\ written[Key(y)] # y
      BY <1>1, <2>2, <3>1, <3>2 DEF OneAfterAnother
    <3> QED
      BY <1>1, <1>2, <2>2, <3>3
  <2> QED
    BY <1>1, <2>1, <2>2
<1> QED
  BY <1>6, <1>7, <1>8, <1>9, <1>10

\* The report in the hands of w's handler is stored or found to have no
\* document, or its write fails.
LEMMA HandlerWrites ==
    ASSUME TypeOK, NEW w \in Workers, WriteReport(w) \/ WriteFails(w),
           NEW n \in Published, handling[w] = n
    PROVE  Stored(n) \/ Unmatched(n) \/ (UNCHANGED <<devices, written>> /\ gone' = gone \cup {n})
  BY DEF WriteReport, Persist, WriteFails

LEMMA WrittenAfter ==
    ASSUME TypeOK, NEW n \in Published,
           Stored(n) \/ Unmatched(n) \/ (UNCHANGED <<devices, written>> /\ gone' = gone \cup {n}),
           UNCHANGED reports
    PROVE  /\ gone \subseteq gone'
           /\ \A o \in Published \ {n} : written'[Key(o)] = o => written[Key(o)] = o
<1>1. CASE Stored(n)
  <2>1. /\ gone \subseteq gone' /\ written'[Key(n)] = n
        /\ \A k \in Keys : k # Key(n) => written'[k] = written[k]
    BY <1>1, StoredDoes
  <2>2. \A o \in Published : Key(o) \in Keys
    BY Typed
  <2> QED
    BY <2>1, <2>2
<1>2. CASE Unmatched(n) \/ (UNCHANGED <<devices, written>> /\ gone' = gone \cup {n})
  BY <1>2 DEF Unmatched
<1> QED
  BY <1>1, <1>2

LEMMA ConnectionsStep ==
    ASSUME TypeOK, Connections, [Next]_vars
    PROVE  Connections'
<1> DEFINE Fewer == \A w \in Workers : \A n \in Published : InHand(w, n)' => InHand(w, n)
           SameWritten == \A n \in Published : written'[Key(n)] = n => written[Key(n)] = n
           SameHandled == \A w \in Workers : \A n \in Published : handling'[w] = n => handling[w] = n
<1>1. CASE UNCHANGED <<reports, inbox, handling, adrift>> /\ SameWritten
           /\ \/ session' \in {session, None} /\ UNCHANGED connections
              \/ connections' = connections + 1
  <2>1. InboxesAreSorted' /\ Fewer
    BY <1>1 DEF Connections, InboxesAreSorted, InHand
  <2> QED
    BY <1>1, <2>1, ConnectionsKept
<1>2. CASE UNCHANGED reportState
  BY <1>1, <1>2 DEF reportState
<1>3. ASSUME NEW m \in Macs, NEW u \in Users, NEW l \in Layouts, Provision(m, u, l)
      PROVE  Connections'
  <2>1. SameWritten
    <3>1. written' = [k \in Keys |-> IF k[1] = m THEN 0 ELSE written[k]]
      BY <1>3 DEF Provision
    <3>2. \A n \in Published : Key(n) \in Keys /\ n # 0
      BY Typed DEF Published
    <3> QED
      BY <3>1, <3>2
  <2> QED
    BY <1>1, <1>3, <2>1 DEF Provision, deviceVars, clientVars, reportVars
<1>4. ASSUME NEW m \in Macs, Release(m) PROVE Connections'
  BY <1>1, <1>4 DEF Release, deviceVars, clientVars, reportVars
<1>5. ASSUME NEW w \in Workers, Connect(w) PROVE Connections'
  BY <1>1, <1>5 DEF Connect, deviceVars, reportVars
<1>6. CASE SessionLost
  BY <1>1, <1>6 DEF SessionLost, deviceVars, reportVars
<1>7. ASSUME NEW m \in Macs, NEW e \in EndpointIds, NEW on \in BOOLEAN, PublishState(m, e, on)
      PROVE  Connections'
  <2>1. PICK new \in Nat : new = Len(reports) + 1
    BY Typed
  <2> QED
    BY <1>7, <2>1, PublishConnections
<1>8. ASSUME NEW w \in Workers, LeaveClient(w) PROVE Connections'
  <2>1. /\ handling'[w] = 0 /\ inbox'[w] = <<>>
        /\ \A v \in Workers \ {w} : handling'[v] = handling[v] /\ inbox'[v] = inbox[v]
        /\ session' = IF session = w THEN None ELSE session
        /\ adrift' \subseteq adrift \cup {handling[w]}
        /\ UNCHANGED <<reports, connections, written>>
    BY <1>8, LeaveDoes
  <2>2. 0 \notin Published /\ None \notin Workers
    BY Typed DEF Published
  <2>3. \A n \in Published : ~InHand(w, n)'
    BY <2>1, <2>2 DEF InHand
  <2>4. \A v \in Workers \ {w} : \A n : InHand(v, n)' <=> InHand(v, n)
    BY <2>1 DEF InHand
  <2>5. InboxesAreSorted'
    <3> SUFFICES ASSUME NEW v \in Workers, NEW i \in 1 .. Len(inbox'[v]),
                        NEW j \in 1 .. Len(inbox'[v]), i < j
                 PROVE  inbox'[v][i] < inbox'[v][j]
      BY DEF InboxesAreSorted
    <3>1. v # w
      BY <2>1
    <3> QED
      BY <2>1, <3>1 DEF Connections, InboxesAreSorted
  <2>6. \A n \in adrift' : n \in adrift \/ \E v \in Workers :
           handling[v] = n /\ v # session' /\ \A o \in Published : ~InHand(v, o)'
    <3>1. w # session'
      BY <2>1, <2>2
    <3> QED
      BY <2>1, <2>3, <3>1
  <2>7. SameHandled
    BY <2>1, <2>2
  <2>8. Fewer
    BY <2>3, <2>4
  <2>9. session' \in {session, None}
    BY <2>1
  <2> QED
    BY <2>1, <2>5, <2>6, <2>7, <2>8, <2>9, ConnectionsKept
<1>9. ASSUME NEW w \in Workers, TakeReport(w) PROVE Connections'
  <2>1. /\ handling[w] = 0 /\ Len(inbox[w]) >= 1 /\ Len(inbox[w]) \in Nat
        /\ handling'[w] = inbox[w][1]
        /\ Len(inbox'[w]) = Len(inbox[w]) - 1
        /\ \A i \in 1 .. Len(inbox[w]) - 1 : inbox'[w][i] = inbox[w][i + 1]
        /\ \A v \in Workers \ {w} : handling'[v] = handling[v] /\ inbox'[v] = inbox[v]
        /\ UNCHANGED <<reports, session, connections, adrift, written>>
    BY <1>9, TakeDoes, Typed
  <2>2. \A v \in Workers \ {w} : \A n : InHand(v, n)' <=> InHand(v, n)
    BY <2>1 DEF InHand
  <2>3. ASSUME NEW n \in Published, InHand(w, n)' PROVE InHand(w, n)
    <3>1. CASE handling'[w] = n
      <4>1. 1 \in 1 .. Len(inbox[w]) /\ inbox[w][1] = n
        BY <2>1, <3>1
      <4> QED
        BY <4>1 DEF InHand
    <3>2. CASE handling'[w] # n
      <4>1. PICK i \in 1 .. Len(inbox'[w]) : inbox'[w][i] = n
        BY <2>3, <3>2 DEF InHand
      <4>2. i + 1 \in 1 .. Len(inbox[w]) /\ inbox[w][i + 1] = n
        BY <2>1, <4>1
      <4> QED
        BY <4>2 DEF InHand
    <3> QED
      BY <3>1, <3>2
  <2>4. InboxesAreSorted'
    <3> SUFFICES ASSUME NEW v \in Workers, NEW i \in 1 .. Len(inbox'[v]),
                        NEW j \in 1 .. Len(inbox'[v]), i < j
                 PROVE  inbox'[v][i] < inbox'[v][j]
      BY DEF InboxesAreSorted
    <3>1. CASE v # w
      BY <2>1, <3>1 DEF Connections, InboxesAreSorted
    <3>2. CASE v = w
      <4>1. /\ i + 1 \in 1 .. Len(inbox[w]) /\ j + 1 \in 1 .. Len(inbox[w]) /\ i + 1 < j + 1
            /\ inbox'[w][i] = inbox[w][i + 1] /\ inbox'[w][j] = inbox[w][j + 1]
        BY <2>1, <3>2
      <4> QED
        BY <3>2, <4>1 DEF Connections, InboxesAreSorted
    <3> QED
      BY <3>1, <3>2
  <2>5. Fewer
    BY <2>2, <2>3
  <2>6. \A v \in Workers : \A n \in Published : handling'[v] = n =>
           handling[v] = n \/ (handling[v] = 0 /\ Len(inbox[v]) >= 1 /\ inbox[v][1] = n)
    BY <2>1
  <2> QED
    BY <2>1, <2>4, <2>5, <2>6, ConnectionsKept
<1>10. ASSUME NEW w \in Workers, WriteReport(w) \/ WriteFails(w) PROVE Connections'
  <2>1. PICK n \in Published : handling[w] = n
    BY <1>10, HandlerEnds
  <2>2. /\ handling'[w] = 0 /\ \A v \in Workers \ {w} : handling'[v] = handling[v]
        /\ UNCHANGED <<reports, session, connections, inbox, adrift>> /\ 0 \notin Published
    BY <1>10, HandlerEnds DEF Published
  <2>3. \A o \in Published \ {n} : written'[Key(o)] = o => written[Key(o)] = o
    BY <1>10, <2>1, <2>2, HandlerWrites, WrittenAfter
  <2>4. InboxesAreSorted' /\ Fewer /\ SameHandled
    BY <2>2 DEF Connections, InboxesAreSorted, InHand
  <2> QED
    BY <2>1, <2>2, <2>3, <2>4, ConnectionsKept
<1>11. ASSUME NEW n \in adrift, LateWrite(n) PROVE Connections'
  <2>1. /\ Stored(n) \/ Unmatched(n)
        /\ UNCHANGED <<reports, session, connections, inbox, handling>>
    BY <1>11, Typed DEF LateWrite, Persist, deviceVars, clientVars
  <2>2. n \in Published /\ adrift' \subseteq adrift
    BY <1>11, Typed DEF LateWrite
  <2>3. \A o \in Published \ {n} : written'[Key(o)] = o => written[Key(o)] = o
    BY <2>1, <2>2, WrittenAfter
  <2>4. InboxesAreSorted' /\ Fewer /\ SameHandled
    BY <2>1 DEF Connections, InboxesAreSorted, InHand
  <2> QED
    BY <2>1, <2>2, <2>3, <2>4, ConnectionsKept
<1> QED
  BY <1>2, <1>3, <1>4, <1>5, <1>6, <1>7, <1>8, <1>9, <1>10, <1>11, ReportSteps

(***************************************************************************)
(* Owners and documents                                                    *)
(***************************************************************************)

LEMMA OwnersStep ==
    ASSUME TypeOK, OwnersAreKnown, [Next]_vars
    PROVE  OwnersAreKnown'
<1> USE DEF OwnersAreKnown
<1>1. CASE UNCHANGED <<devices, request, command, owners>>
  BY <1>1 DEF CommandsAreTheOwners
<1>2. ASSUME NEW m \in Macs, NEW u \in Users, NEW l \in Layouts, Provision(m, u, l)
      PROVE  OwnersAreKnown'
  BY <1>2 DEF Provision, executeVars, CommandsAreTheOwners
<1>3. ASSUME NEW m \in Macs, Release(m) PROVE OwnersAreKnown'
  BY <1>3 DEF Release, executeVars, CommandsAreTheOwners
<1>4. ASSUME NEW u \in Users, NEW id, NEW on, ExecuteFind(u, id, on) PROVE OwnersAreKnown'
  <2>1. PICK d \in devices : d.mac = MacOf(id) /\ d.user = u
    BY <1>4 DEF ExecuteFind, Found, Findable
  <2>2. /\ request' = [request EXCEPT ![u] =
                         [mac |-> MacOf(id), endpoint |-> EndpointOf(id), on |-> on]]
        /\ UNCHANGED <<devices, command, owners>>
    BY <1>4 DEF ExecuteFind
  <2>3. request'[u].mac = MacOf(id) /\ \A v \in Users \ {u} : request'[v] = request[v]
    BY <2>2 DEF TypeOK
  <2>4. <<request'[u].mac, u>> \in owners
    BY <2>1, <2>3
  <2> QED
    BY <2>2, <2>3, <2>4 DEF CommandsAreTheOwners
<1>5. ASSUME NEW u \in Users, ExecutePut(u) PROVE OwnersAreKnown'
  <2> DEFINE c == [mac |-> request[u].mac, by |-> u, on |-> request[u].on,
                   endpoint |-> request[u].endpoint]
  <2>1. request[u] # None /\ request[u] \in Requests
    BY <1>5 DEF TypeOK, ExecutePut
  <2>2. c \in Command /\ c.mac = request[u].mac /\ c.by = u
    BY <2>1 DEF Command, Requests
  <2>3. /\ command' = Append(command, c) /\ UNCHANGED <<devices, owners>>
        /\ request' = [request EXCEPT ![u] = None]
    BY <1>5 DEF ExecutePut
  <2> HIDE DEF c
  <2>4. /\ Len(command) \in Nat /\ Len(command') = Len(command) + 1
        /\ command'[Len(command) + 1] = c
        /\ \A i \in 1 .. Len(command) : command'[i] = command[i]
    BY <2>2, <2>3, Appended DEF TypeOK
  <2>5. CommandsAreTheOwners'
    <3> SUFFICES ASSUME NEW i \in 1 .. Len(command')
                 PROVE  <<command'[i].mac, command'[i].by>> \in owners
      BY <2>3 DEF CommandsAreTheOwners
    <3>1. CASE i \in 1 .. Len(command)
      BY <2>4, <3>1 DEF CommandsAreTheOwners
    <3>2. CASE i = Len(command) + 1
      BY <2>1, <2>2, <2>4, <3>2
    <3> QED
      BY <2>4, <3>1, <3>2
  <2>6. \A v \in Users : request'[v] # None => request'[v] = request[v]
    BY <2>3 DEF TypeOK
  <2> QED
    BY <2>3, <2>5, <2>6
<1>6. ASSUME NEW n \in Published, Persist(n), UNCHANGED <<request, command, owners>>
      PROVE  OwnersAreKnown'
  <2>1. CASE Stored(n)
    <3>1. \A d \in devices' : \E x \in devices : d.mac = x.mac /\ d.user = x.user
      BY <2>1, DocumentsAfter
    <3>2. \A d \in devices' : <<d.mac, d.user>> \in owners'
      BY <1>6, <3>1
    <3> QED
      BY <1>6, <3>2 DEF CommandsAreTheOwners
  <2>2. CASE Unmatched(n)
    BY <1>1, <1>6, <2>2 DEF Unmatched
  <2> QED
    BY <1>6, <2>1, <2>2 DEF Persist
<1>7. ASSUME NEW w \in Workers, WriteReport(w) PROVE OwnersAreKnown'
  <2>1. handling[w] \in Published
    BY <1>7, HandlerEnds
  <2> QED
    BY <1>6, <1>7, <2>1 DEF WriteReport, executeVars
<1>8. ASSUME NEW n \in adrift, LateWrite(n) PROVE OwnersAreKnown'
  BY <1>6, <1>8, Typed DEF LateWrite, executeVars
<1>9. ASSUME NEW w \in Workers,
             Connect(w) \/ LeaveClient(w) \/ TakeReport(w) \/ WriteFails(w) \/ SessionLost
      PROVE  UNCHANGED <<devices, request, command, owners>>
  BY <1>9 DEF Connect, LeaveClient, TakeReport, WriteFails, SessionLost, executeVars
<1>10. ASSUME \/ \E c \in waiting : DeviceObeys(c) \/ DeviceMisses(c)
              \/ CommandsLeaveChannel
       PROVE  UNCHANGED <<devices, request, command, owners>>
  BY <1>10 DEF DeviceObeys, PublishState, DeviceMisses, CommandsLeaveChannel
<1>11. ASSUME NEW m, NEW e, NEW on, DeviceReports(m, e, on)
       PROVE  UNCHANGED <<devices, request, command, owners>>
  BY <1>11 DEF DeviceReports, PublishState
<1>12. CASE SessionLost \/ UNCHANGED vars
  BY <1>1, <1>12 DEF SessionLost, vars, executeVars
<1> QED
  BY <1>1, <1>2, <1>3, <1>4, <1>5, <1>7, <1>8, <1>9, <1>10, <1>11, <1>12 DEF Next

\* The steps that change documents or what they tell.
LEMMA DocumentSteps ==
    ASSUME TypeOK, [Next]_vars
    PROVE  \/ \E m \in Macs, u \in Users, l \in Layouts : Provision(m, u, l)
           \/ \E m \in Macs : Release(m)
           \/ \E m \in Macs, e \in EndpointIds, on \in BOOLEAN : PublishState(m, e, on)
           \/ \E n \in Published : Stored(n) /\ UNCHANGED reports
           \/ UNCHANGED <<devices, written, reports>>
<1>1. ASSUME NEW n \in Published, Persist(n)
      PROVE  Stored(n) \/ UNCHANGED <<devices, written>>
  BY <1>1 DEF Persist, Unmatched
<1>2. ASSUME NEW w \in Workers, WriteReport(w)
      PROVE  UNCHANGED reports /\ \E n \in Published : Persist(n)
  <2>1. PICK n \in Published : handling[w] = n
    BY <1>2, HandlerEnds
  <2>2. Persist(n)
    BY <1>2, <2>1 DEF WriteReport
  <2> QED
    BY <1>2, <2>2, HandlerEnds
<1>3. ASSUME NEW n \in adrift, LateWrite(n) PROVE n \in Published /\ Persist(n) /\ UNCHANGED reports
  BY <1>3, Typed DEF LateWrite, deviceVars
<1>4. ASSUME NEW w \in Workers,
             Connect(w) \/ LeaveClient(w) \/ TakeReport(w) \/ WriteFails(w)
      PROVE  UNCHANGED <<devices, written, reports>>
  BY <1>4 DEF Connect, LeaveClient, TakeReport, WriteFails, deviceVars
<1>5. CASE SessionLost \/ UNCHANGED reportState
  BY <1>5 DEF SessionLost, deviceVars, reportState
<1> QED
  BY <1>1, <1>2, <1>3, <1>4, <1>5, ReportSteps

LEMMA OneDocumentStep ==
    ASSUME TypeOK, OneDocument, [Next]_vars
    PROVE  OneDocument'
<1> USE DEF OneDocument
<1>1. ASSUME NEW m \in Macs, NEW u \in Users, NEW l \in Layouts, Provision(m, u, l)
      PROVE  OneDocument'
  BY <1>1 DEF Provision
<1>2. ASSUME NEW m \in Macs, Release(m) PROVE OneDocument'
  BY <1>2 DEF Release
<1>3. ASSUME NEW n \in Published, Stored(n) PROVE OneDocument'
  <2> SUFFICES ASSUME NEW d \in devices', NEW x \in devices', d.mac = x.mac PROVE d = x
    OBVIOUS
  <2>1. PICK y \in devices : d = After(n, y) /\ d.mac = y.mac
    BY <1>3, DocumentsAfter
  <2>2. PICK z \in devices : x = After(n, z) /\ x.mac = z.mac
    BY <1>3, DocumentsAfter
  <2> QED
    BY <2>1, <2>2
<1>4. ASSUME NEW m \in Macs, NEW e \in EndpointIds, NEW on \in BOOLEAN, PublishState(m, e, on)
      PROVE  OneDocument'
  BY <1>4 DEF PublishState
<1> QED
  BY <1>1, <1>2, <1>3, <1>4, DocumentSteps

LEMMA TellStep ==
    ASSUME TypeOK, DocumentsTellLastReport, [Next]_vars
    PROVE  DocumentsTellLastReport'
<1> SUFFICES ASSUME NEW d \in devices', NEW e \in EndpointIds, NEW i \in Nat, Only(d, e, i)
             PROVE  d.endpoints[i].state = Told(d.mac, e)'
  BY DEF DocumentsTellLastReport, Only
<1>0. ASSUME NEW x \in devices
      PROVE  /\ <<x.mac, e>> \in Keys /\ written[<<x.mac, e>>] \in Nat
             /\ written[<<x.mac, e>>] > 0 => written[<<x.mac, e>>] \in Published
  <2>1. x.mac \in Macs
    BY Typed DEF Document
  <2> QED
    BY <2>1, Typed DEF Keys, Published
<1>1. ASSUME d \in devices, written'[<<d.mac, e>>] = written[<<d.mac, e>>],
             \A n \in Published : reports'[n] = reports[n]
      PROVE  d.endpoints[i].state = Told(d.mac, e)'
  <2>1. Told(d.mac, e)' = Told(d.mac, e)
    BY <1>0, <1>1 DEF Told
  <2> QED
    BY <1>1, <2>1 DEF DocumentsTellLastReport
<1>2. ASSUME NEW m \in Macs, NEW u \in Users, NEW l \in Layouts, Provision(m, u, l)
      PROVE  d.endpoints[i].state = Told(d.mac, e)'
  <2> DEFINE new == [mac |-> m, user |-> u, createdAt |-> Len(reports),
                     endpoints |-> NewEndpoints(l)]
  <2>1. /\ d = new \/ (d \in devices /\ d.mac # m)
        /\ written' = [k \in Keys |-> IF k[1] = m THEN 0 ELSE written[k]]
        /\ UNCHANGED reports
    BY <1>2 DEF Provision, deviceVars
  <2>2. CASE d = new
    <3>1. d.mac = m /\ d.endpoints = NewEndpoints(l)
      BY <2>2
    <3>2. <<m, e>> \in Keys /\ <<m, e>>[1] = m
      BY DEF Keys
    <3>3. written'[<<d.mac, e>>] = 0
      BY <2>1, <3>1, <3>2
    <3>4. d.endpoints[i].state = FALSE
      BY <3>1, NewDoes DEF Only
    <3>5. Told(d.mac, e)' = FALSE
      BY <3>3 DEF Told
    <3> QED
      BY <3>4, <3>5
  <2>3. CASE d \in devices /\ d.mac # m
    <3>1. <<d.mac, e>> \in Keys /\ <<d.mac, e>>[1] # m
      BY <1>0, <2>3
    <3>2. written'[<<d.mac, e>>] = written[<<d.mac, e>>]
      BY <2>1, <3>1
    <3> QED
      BY <1>1, <2>1, <2>3, <3>2
  <2> QED
    BY <2>1, <2>2, <2>3
<1>3. ASSUME NEW m \in Macs, Release(m) PROVE d.endpoints[i].state = Told(d.mac, e)'
  BY <1>1, <1>3 DEF Release, deviceVars
<1>4. ASSUME NEW n \in Published, Stored(n), UNCHANGED reports
      PROVE  d.endpoints[i].state = Told(d.mac, e)'
  <2>1. PICK x \in devices :
           /\ d.mac = x.mac /\ Len(d.endpoints) = Len(x.endpoints)
           /\ \A j \in 1 .. Len(x.endpoints) :
                 /\ d.endpoints[j].id = x.endpoints[j].id
                 /\ Key(n) # <<x.mac, x.endpoints[j].id>>
                       => d.endpoints[j].state = x.endpoints[j].state
                 /\ /\ Key(n) = <<x.mac, x.endpoints[j].id>>
                    /\ \A k \in 1 .. j - 1 : x.endpoints[k].id # x.endpoints[j].id
                    => d.endpoints[j].state = reports[n].on
    BY <1>4, DocumentsAfter
  <2>2. Only(x, e, i) /\ i \in 1 .. Len(x.endpoints) /\ x.endpoints[i].id = e
    BY <2>1 DEF Only
  <2>3. /\ written'[Key(n)] = n /\ n > 0
        /\ \A k \in Keys : k # Key(n) => written'[k] = written[k]
    BY <1>4, StoredDoes, Typed DEF Published
  <2>4. CASE Key(n) = <<x.mac, e>>
    <3>1. \A k \in 1 .. i - 1 : x.endpoints[k].id # e
      <4>1. Len(x.endpoints) \in Nat
        BY Typed
      <4> QED
        BY <2>2, <4>1 DEF Only
    <3>2. d.endpoints[i].state = reports[n].on
      BY <2>1, <2>2, <2>4, <3>1
    <3>3. written'[<<d.mac, e>>] = n
      BY <2>1, <2>3, <2>4
    <3>4. reports[n].on \in BOOLEAN /\ reports'[n] = reports[n]
      BY <1>4, Typed DEF Report
    <3> QED
      BY <2>3, <3>2, <3>3, <3>4 DEF Told
  <2>5. CASE Key(n) # <<x.mac, e>>
    <3>1. d.endpoints[i].state = x.endpoints[i].state
      BY <2>1, <2>2, <2>5
    <3>2. written'[<<d.mac, e>>] = written[<<x.mac, e>>]
      BY <1>0, <2>1, <2>3, <2>5
    <3>3. Told(d.mac, e)' = Told(x.mac, e)
      BY <1>4, <3>2 DEF Told
    <3>4. x.endpoints[i].state = Told(x.mac, e)
      BY <2>2 DEF DocumentsTellLastReport
    <3> QED
      BY <3>1, <3>3, <3>4
  <2> QED
    BY <2>4, <2>5
<1>5. ASSUME NEW m \in Macs, NEW s \in EndpointIds, NEW on \in BOOLEAN, PublishState(m, s, on)
      PROVE  d.endpoints[i].state = Told(d.mac, e)'
  BY <1>1, <1>5, PublishDoes
<1>6. CASE UNCHANGED <<devices, written, reports>>
  BY <1>1, <1>6
<1> QED
  BY <1>2, <1>3, <1>4, <1>5, <1>6, DocumentSteps

(***************************************************************************)
(* The last report                                                         *)
(***************************************************************************)

LEMMA SwitchStep ==
    ASSUME TypeOK, SwitchFollowsReports, [Next]_vars
    PROVE  SwitchFollowsReports'
<1>1. CASE UNCHANGED <<switch, reports>>
  BY <1>1 DEF SwitchFollowsReports, Last, Published, Key
<1>2. ASSUME NEW m \in Macs, NEW e \in EndpointIds, NEW on \in BOOLEAN, PublishState(m, e, on)
      PROVE  SwitchFollowsReports'
  <2>1. PICK new \in Nat : new = Len(reports) + 1
    BY Typed
  <2>2. /\ Published' = Published \cup {new} /\ \A n \in Published : n < new /\ n \in Nat
        /\ \A n \in Published : Key(n)' = Key(n) /\ reports'[n] = reports[n]
        /\ Key(new)' = <<m, e>>
    BY <1>2, <2>1, PublishHands
  <2>3. /\ switch' = [switch EXCEPT ![<<m, e>>] = on] /\ reports'[new].on = on
    BY <1>2, <2>1, PublishDoes
  <2>4. /\ switch'[<<m, e>>] = on
        /\ \A n \in Published : Key(n) # <<m, e>> => switch'[Key(n)] = switch[Key(n)]
    <3>1. switch \in [Keys -> BOOLEAN] /\ <<m, e>> \in Keys
      BY DEF TypeOK, Keys
    <3> QED
      BY <2>3, <3>1, Typed
  <2>5. Last(new)'
    <3>1. \A o \in Published' : o <= new
      BY <2>1, <2>2
    <3> QED
      BY <2>2, <3>1 DEF Last
  <2> SUFFICES ASSUME NEW o \in Published'
               PROVE  \E n \in Published' :
                         Last(n)' /\ Key(n)' = Key(o)' /\ switch'[Key(n)'] = reports'[n].on
    BY DEF SwitchFollowsReports
  <2>6. CASE Key(o)' = <<m, e>>
    BY <2>2, <2>3, <2>4, <2>5, <2>6
  <2>7. CASE Key(o)' # <<m, e>>
    <3>1. o \in Published /\ Key(o) # <<m, e>>
      BY <2>2, <2>7
    <3>2. PICK n \in Published : Last(n) /\ Key(n) = Key(o) /\ switch[Key(n)] = reports[n].on
      BY <3>1 DEF SwitchFollowsReports
    <3>3. Last(n)'
      BY <2>2, <3>1, <3>2 DEF Last
    <3> QED
      BY <2>2, <2>4, <3>1, <3>2, <3>3
  <2> QED
    BY <2>6, <2>7
<1>3. ASSUME NEW w \in Workers,
             Connect(w) \/ LeaveClient(w) \/ TakeReport(w) \/ WriteReport(w) \/ WriteFails(w)
      PROVE  UNCHANGED <<switch, reports>>
  BY <1>3 DEF Connect, LeaveClient, TakeReport, WriteReport, WriteFails, deviceVars
<1>4. ASSUME NEW m, NEW u, NEW l, Provision(m, u, l) \/ Release(m)
      PROVE  UNCHANGED <<switch, reports>>
  BY <1>4 DEF Provision, Release, deviceVars
<1>5. ASSUME NEW n, SessionLost \/ LateWrite(n) \/ UNCHANGED reportState
      PROVE  UNCHANGED <<switch, reports>>
  BY <1>5 DEF SessionLost, LateWrite, deviceVars, reportState
<1> QED
  BY <1>1, <1>2, <1>3, <1>4, <1>5, ReportSteps

\* After the write of a report that was under way, the last report of every
\* device is still accounted for.
LEMMA WriteAccounted ==
    ASSUME TypeOK, Connections, LastIsAccountedFor, UNCHANGED reports,
           NEW n \in Published, InFlight(n),
           Stored(n) \/ Unmatched(n) \/ (UNCHANGED <<devices, written>> /\ gone' = gone \cup {n}),
           \A o \in Published \ {n} : InFlight(o) => InFlight(o)'
    PROVE  LastIsAccountedFor'
<1>1. /\ Published' = Published /\ \A o : (Key(o)' = Key(o)) /\ (Last(o)' <=> Last(o))
  BY DEF Published, Key, Last
<1>2. ASSUME NEW d \in devices'
      PROVE  \E x \in devices : d.mac = x.mac /\ d.createdAt = x.createdAt /\ Ids(d) = Ids(x)
  <2>1. CASE Stored(n)
    <3>1. PICK x \in devices :
             /\ d.mac = x.mac /\ d.createdAt = x.createdAt
             /\ Len(d.endpoints) = Len(x.endpoints)
             /\ \A i \in 1 .. Len(x.endpoints) : d.endpoints[i].id = x.endpoints[i].id
      BY <2>1, DocumentsAfter
    <3>2. Ids(d) = Ids(x)
      BY <3>1 DEF Ids
    <3> QED
      BY <3>1, <3>2
  <2>2. CASE UNCHANGED devices
    BY <2>2
  <2> QED
    BY <2>1, <2>2 DEF Unmatched
<1>3. gone \subseteq gone'
  BY WrittenAfter
<1> SUFFICES ASSUME NEW d \in devices', NEW e \in Ids(d), NEW o \in Published,
                    Last(o), Key(o) = <<d.mac, e>>, o > d.createdAt
             PROVE  InFlight(o)' \/ o \in gone' \/ written'[Key(o)] = o
  BY <1>1 DEF LastIsAccountedFor
<1>4. InFlight(o) \/ o \in gone \/ written[Key(o)] = o
  BY <1>2 DEF LastIsAccountedFor
<1>5. CASE o = n
  <2>1. Stored(n) => written'[Key(n)] = n
    BY StoredDoes
  <2>2. ~Stored(n) => n \in gone'
    BY DEF Unmatched
  <2> QED
    BY <1>5, <2>1, <2>2
<1>6. CASE o # n /\ written[Key(o)] = o
  <2>1. CASE Stored(n) /\ Key(n) = Key(o)
    <3>1. n < o
      BY <1>6, <2>1 DEF Last, Published
    <3>2. ~SameConnection(n, o)
      BY <1>6, <3>1 DEF Connections, OneAfterAnother
    <3>3. o \in {x \in {written[Key(n)]} : x > n /\ reports[x].connection # reports[n].connection}
      BY <1>6, <2>1, <3>1, <3>2 DEF SameConnection, Published
    <3> QED
      BY <2>1, <3>3, StoredDoes
  <2>2. CASE Stored(n) /\ Key(n) # Key(o)
    BY <1>6, <2>2, StoredDoes, Typed
  <2>3. CASE ~Stored(n)
    BY <1>6, <2>3 DEF Unmatched
  <2> QED
    BY <2>1, <2>2, <2>3
<1> QED
  BY <1>3, <1>4, <1>5, <1>6

LEMMA AccountedStep ==
    ASSUME TypeOK, Connections, LastIsAccountedFor, [Next]_vars
    PROVE  LastIsAccountedFor'
<1>1. ASSUME NEW w \in Workers, NEW n \in Published, InHand(w, n) PROVE InFlight(n)
  BY <1>1 DEF InFlight, InHand
<1>2. ASSUME UNCHANGED <<devices, reports, written>>, gone \subseteq gone',
             \A n \in Published : InFlight(n) => InFlight(n)' \/ n \in gone'
      PROVE  LastIsAccountedFor'
  <2>1. /\ Published' = Published /\ \A o : (Key(o)' = Key(o)) /\ (Last(o)' <=> Last(o))
    BY <1>2 DEF Published, Key, Last
  <2> QED
    BY <1>2, <2>1 DEF LastIsAccountedFor
<1>3. CASE UNCHANGED <<devices, reports, written, gone, inbox, handling, adrift>>
  <2>1. \A n \in Published : InFlight(n)' <=> InFlight(n)
    BY <1>3 DEF InFlight
  <2> QED
    BY <1>2, <1>3, <2>1
<1>4. ASSUME NEW m \in Macs, NEW u \in Users, NEW l \in Layouts, Provision(m, u, l)
      PROVE  LastIsAccountedFor'
  <2>1. /\ \A d \in devices' : d.createdAt = Len(reports) \/ (d \in devices /\ d.mac # m)
        /\ written' = [k \in Keys |-> IF k[1] = m THEN 0 ELSE written[k]]
        /\ UNCHANGED <<reports, inbox, handling, adrift, gone>>
    BY <1>4 DEF Provision, deviceVars, reportVars
  <2>2. /\ Published' = Published /\ \A n : (Key(n)' = Key(n)) /\ (Last(n)' <=> Last(n))
        /\ \A n : InFlight(n)' <=> InFlight(n)
    BY <2>1 DEF Published, Key, Last, InFlight
  <2> SUFFICES ASSUME NEW d \in devices', NEW e \in Ids(d), NEW n \in Published,
                      Last(n), Key(n) = <<d.mac, e>>, n > d.createdAt
               PROVE  InFlight(n)' \/ n \in gone' \/ written'[Key(n)] = n
    BY <2>2 DEF LastIsAccountedFor
  <2>3. d \in devices /\ d.mac # m
    <3>1. n <= Len(reports) /\ n \in Nat /\ Len(reports) \in Nat
      BY Typed DEF Published
    <3> QED
      BY <2>1, <3>1
  <2>4. Key(n) \in Keys /\ Key(n)[1] # m
    BY <2>3, Typed
  <2>5. written'[Key(n)] = written[Key(n)]
    BY <2>1, <2>4
  <2> QED
    BY <2>1, <2>2, <2>3, <2>5 DEF LastIsAccountedFor
<1>5. ASSUME NEW m \in Macs, Release(m) PROVE LastIsAccountedFor'
  <2>1. devices' \subseteq devices /\ UNCHANGED <<reports, written, gone, inbox, handling, adrift>>
    BY <1>5 DEF Release, deviceVars, reportVars
  <2>2. /\ Published' = Published /\ \A n : (Key(n)' = Key(n)) /\ (Last(n)' <=> Last(n))
        /\ \A n : InFlight(n)' <=> InFlight(n)
    BY <2>1 DEF Published, Key, Last, InFlight
  <2> QED
    BY <2>1, <2>2 DEF LastIsAccountedFor
<1>6. ASSUME NEW m \in Macs, NEW e \in EndpointIds, NEW on \in BOOLEAN, PublishState(m, e, on)
      PROVE  LastIsAccountedFor'
  <2>1. PICK new \in Nat : new = Len(reports) + 1
    BY Typed
  <2>2. /\ Published' = Published \cup {new}
        /\ \A w \in Workers : \A n \in Published : InHand(w, n)' <=> InHand(w, n)
        /\ (session \in Workers /\ InHand(session, new)') \/ new \in gone'
        /\ gone \subseteq gone' /\ \A n \in Published : Key(n)' = Key(n)
        /\ UNCHANGED <<devices, session, adrift, written>>
    BY <1>6, <2>1, PublishHands, PublishDoes
  <2>3. \A n \in Published : InFlight(n) => InFlight(n)'
    BY <2>2 DEF InFlight, InHand
  <2>4. InFlight(new)' \/ new \in gone'
    BY <2>2 DEF InFlight, InHand
  <2>5. \A n \in Published : Last(n)' => Last(n)
    BY <2>2 DEF Last
  <2> SUFFICES ASSUME NEW d \in devices, NEW e2 \in Ids(d), NEW n \in Published',
                      Last(n)', Key(n)' = <<d.mac, e2>>, n > d.createdAt
               PROVE  InFlight(n)' \/ n \in gone' \/ written'[Key(n)'] = n
    BY <2>2 DEF LastIsAccountedFor
  <2>6. CASE n = new
    BY <2>4, <2>6
  <2>7. CASE n \in Published
    <3>1. InFlight(n) \/ n \in gone \/ written[Key(n)] = n
      BY <2>2, <2>5, <2>7 DEF LastIsAccountedFor
    <3> QED
      BY <2>2, <2>3, <2>7, <3>1
  <2> QED
    BY <2>2, <2>6, <2>7
<1>7. ASSUME NEW w \in Workers, LeaveClient(w) PROVE LastIsAccountedFor'
  <2>1. /\ \A v \in Workers \ {w} : handling'[v] = handling[v] /\ inbox'[v] = inbox[v]
        /\ adrift \subseteq adrift' /\ gone \subseteq gone'
        /\ \A n \in Published : InHand(w, n) => n \in adrift' \/ n \in gone'
        /\ UNCHANGED <<devices, reports, written>>
    BY <1>7, LeaveDoes
  <2>2. ASSUME NEW n \in Published, InFlight(n) PROVE InFlight(n)' \/ n \in gone'
    <3>1. CASE n \in adrift \/ InHand(w, n)
      BY <2>1, <3>1 DEF InFlight
    <3>2. CASE \E v \in Workers \ {w} : InHand(v, n)
      BY <2>1, <3>2 DEF InFlight, InHand
    <3> QED
      BY <2>2, <3>1, <3>2 DEF InFlight, InHand
  <2> QED
    BY <1>2, <2>1, <2>2
<1>8. ASSUME NEW w \in Workers, TakeReport(w) PROVE LastIsAccountedFor'
  <2>1. /\ handling[w] = 0 /\ Len(inbox[w]) >= 1 /\ Len(inbox[w]) \in Nat
        /\ handling'[w] = inbox[w][1] /\ Len(inbox'[w]) = Len(inbox[w]) - 1
        /\ \A i \in 1 .. Len(inbox[w]) - 1 : inbox'[w][i] = inbox[w][i + 1]
        /\ \A v \in Workers \ {w} : handling'[v] = handling[v] /\ inbox'[v] = inbox[v]
        /\ UNCHANGED <<devices, reports, adrift, written, gone>> /\ 0 \notin Published
    BY <1>8, TakeDoes, Typed DEF Published
  <2>2. ASSUME NEW n \in Published, InHand(w, n) PROVE InHand(w, n)'
    <3>1. PICK i \in 1 .. Len(inbox[w]) : inbox[w][i] = n
      BY <2>1, <2>2 DEF InHand
    <3>2. CASE i = 1
      BY <2>1, <3>1, <3>2 DEF InHand
    <3>3. CASE i # 1
      <4>1. i - 1 \in 1 .. Len(inbox'[w]) /\ inbox'[w][i - 1] = inbox[w][(i - 1) + 1]
        BY <2>1, <3>1, <3>3
      <4>2. inbox'[w][i - 1] = n
        BY <3>1, <4>1
      <4> QED
        BY <4>1, <4>2 DEF InHand
    <3> QED
      BY <3>2, <3>3
  <2>3. \A v \in Workers \ {w} : \A n : InHand(v, n) => InHand(v, n)'
    BY <2>1 DEF InHand
  <2>4. \A n \in Published : InFlight(n) => InFlight(n)'
    <3>1. \A n : InFlight(n) <=> (\E v \in Workers : InHand(v, n)) \/ n \in adrift
      BY DEF InFlight, InHand
    <3>2. \A n : InFlight(n)' <=> (\E v \in Workers : InHand(v, n)') \/ n \in adrift'
      BY DEF InFlight, InHand
    <3> QED
      BY <2>1, <2>2, <2>3, <3>1, <3>2
  <2> QED
    BY <1>2, <2>1, <2>4
<1>9. ASSUME NEW w \in Workers, WriteReport(w) \/ WriteFails(w) PROVE LastIsAccountedFor'
  <2>1. PICK n \in Published : handling[w] = n
    BY <1>9, HandlerEnds
  <2>2. /\ \A v \in Workers \ {w} : handling'[v] = handling[v]
        /\ UNCHANGED <<reports, inbox, adrift>>
    BY <1>9, HandlerEnds
  <2>3. InFlight(n)
    BY <2>1 DEF InFlight
  <2>4. \A o \in Published \ {n} : InFlight(o) => InFlight(o)'
    BY <2>1, <2>2 DEF InFlight
  <2> QED
    BY <1>9, <2>1, <2>2, <2>3, <2>4, HandlerWrites, WriteAccounted
<1>10. ASSUME NEW n \in adrift, LateWrite(n) PROVE LastIsAccountedFor'
  <2>1. n \in Published /\ InFlight(n) /\ (Stored(n) \/ Unmatched(n))
    BY <1>10, Typed DEF LateWrite, Persist, InFlight
  <2>2. UNCHANGED <<reports, inbox, handling>> /\ adrift' = adrift \ {n}
    BY <1>10 DEF LateWrite, deviceVars
  <2>3. \A o \in Published \ {n} : InFlight(o) => InFlight(o)'
    BY <2>2 DEF InFlight
  <2> QED
    BY <2>1, <2>2, <2>3, WriteAccounted
<1>11. ASSUME NEW w \in Workers, Connect(w) PROVE LastIsAccountedFor'
  BY <1>3, <1>11 DEF Connect, deviceVars, reportVars
<1>12. CASE SessionLost \/ UNCHANGED reportState
  BY <1>3, <1>12 DEF SessionLost, deviceVars, reportVars, reportState
<1> QED
  BY <1>4, <1>5, <1>6, <1>7, <1>8, <1>9, <1>10, <1>11, <1>12, ReportSteps

LEMMA SmartHomeStep == SmartHomeInv /\ [Next]_vars => SmartHomeInv'
<1> SUFFICES ASSUME SmartHomeInv, [Next]_vars PROVE SmartHomeInv'
  OBVIOUS
<1> QED
  BY TypeStep, OwnersStep, OneDocumentStep, TellStep, ConnectionsStep, SwitchStep, AccountedStep
     DEF SmartHomeInv

(***************************************************************************)
(* What the invariant says                                                 *)
(***************************************************************************)

\* Of an endpoint listed once, QUERY tells the state of the only entry.
LEMMA OnlyEndpoint ==
    ASSUME TypeOK, NEW d \in devices, NEW e \in Ids(d), HasOnce(d, e)
    PROVE  /\ e \in EndpointIds
           /\ \E i \in Nat : Only(d, e, i) /\ QueryState(d, e) = d.endpoints[i].state
<1> DEFINE Places == {i \in 1 .. Len(d.endpoints) : d.endpoints[i].id = e}
<1>1. Len(d.endpoints) \in Nat /\ \A i \in 1 .. Len(d.endpoints) : d.endpoints[i] \in Endpoint
  BY Typed
<1>2. e \in EndpointIds
  BY <1>1 DEF Ids, Endpoint
<1>3. IsFiniteSet(Places) /\ Cardinality(Places) = 1
  <2>1. IsFiniteSet(1 .. Len(d.endpoints)) /\ Places \subseteq 1 .. Len(d.endpoints)
    BY <1>1, FS_Interval
  <2> QED
    BY <2>1, FS_Subset DEF HasOnce
<1>4. PICK i : Places = {i}
  BY <1>3, FS_Singleton
<1>5. i \in Nat /\ Only(d, e, i)
  BY <1>1, <1>4 DEF Only
<1> DEFINE IsLast(j) == /\ d.endpoints[j].id = e
                        /\ \A k \in j + 1 .. Len(d.endpoints) : d.endpoints[k].id # e
<1>6. IsLast(i)
  BY <1>1, <1>5 DEF Only
<1>7. \A j \in 1 .. Len(d.endpoints) : IsLast(j) => j = i
  BY <1>5 DEF Only
<1>8. i \in 1 .. Len(d.endpoints)
  BY <1>5 DEF Only
<1> HIDE DEF IsLast
<1>9. (CHOOSE j \in 1 .. Len(d.endpoints) : IsLast(j)) = i
  BY <1>6, <1>7, <1>8
<1>10. QueryState(d, e) = d.endpoints[i].state
  BY <1>9 DEF QueryState, IsLast
<1> QED
  BY <1>2, <1>5, <1>10

LEMMA QueryTells ==
    ASSUME SmartHomeInv, NEW d \in devices, NEW e \in Ids(d), HasOnce(d, e)
    PROVE  QueryState(d, e) = Told(d.mac, e)
  BY OnlyEndpoint DEF SmartHomeInv, DocumentsTellLastReport

LEMMA AtRest ==
    ASSUME SmartHomeInv
    PROVE  AtRestUnlessLost
<1> SUFFICES ASSUME NEW d \in devices, NEW e \in Ids(d), HasOnce(d, e),
                    NEW o \in Published, Key(o) = <<d.mac, e>>, o > d.createdAt,
                    \A n \in Published : Key(n) = <<d.mac, e>> => ~InFlight(n),
                    \A n \in Published :
                       /\ Key(n) = <<d.mac, e>> /\ n > d.createdAt
                       /\ \A x \in Published : Key(x) = <<d.mac, e>> /\ x > d.createdAt => x <= n
                       => n \notin gone
             PROVE  QueryState(d, e) = switch[<<d.mac, e>>]
  BY DEF AtRestUnlessLost, Published
<1>1. PICK n \in Published : Last(n) /\ Key(n) = <<d.mac, e>>
                             /\ switch[<<d.mac, e>>] = reports[n].on
  BY DEF SmartHomeInv, SwitchFollowsReports
<1>2. n > d.createdAt
  <2>1. o <= n /\ o \in Nat /\ n \in Nat
    BY <1>1 DEF Last, Published
  <2>2. d.createdAt \in Nat
    BY Typed DEF SmartHomeInv, Document
  <2> QED
    BY <2>1, <2>2
<1>3. ~InFlight(n) /\ n \notin gone
  BY <1>1, <1>2 DEF Last
<1>4. written[<<d.mac, e>>] = n
  BY <1>1, <1>2, <1>3 DEF SmartHomeInv, LastIsAccountedFor
<1>5. n > 0 /\ reports[n].on \in BOOLEAN
  BY Typed DEF SmartHomeInv, Published, Report
<1>6. Told(d.mac, e) = reports[n].on
  BY <1>4, <1>5 DEF Told
<1> QED
  BY <1>1, <1>6, QueryTells

(***************************************************************************)
(* Every variable of SmartHome keeps its type.                             *)
(***************************************************************************)
THEOREM FulfillmentIsTyped == Spec => []TypeOK
<1>1. SmartHomeInv => TypeOK
  BY DEF SmartHomeInv
<1> QED
  BY <1>1, SmartHomeInit, SmartHomeStep, PTL DEF Spec

(***************************************************************************)
(* However a device changes hands between the check of a command and its   *)
(* delivery, the command is from one of its owners.                        *)
(***************************************************************************)
THEOREM CommandsAreOwned == Spec => []CommandsAreTheOwners
<1>1. SmartHomeInv => CommandsAreTheOwners
  BY DEF SmartHomeInv, OwnersAreKnown
<1> QED
  BY <1>1, SmartHomeInit, SmartHomeStep, PTL DEF Spec

(***************************************************************************)
(* QUERY tells what the last report written for the endpoint said, since   *)
(* the device was provisioned: no command shows in it.                     *)
(***************************************************************************)
THEOREM QueriesTellReports == Spec => []QueryTellsLastReport
<1>1. SmartHomeInv => QueryTellsLastReport
  BY QueryTells DEF QueryTellsLastReport, Told
<1> QED
  BY <1>1, SmartHomeInit, SmartHomeStep, PTL DEF Spec

(***************************************************************************)
(* With nothing of an endpoint under way, the database agrees with the     *)
(* device, unless its last report was lost or written over, over any       *)
(* number of connections, workers, cancelled handlers and late writes.     *)
(***************************************************************************)
THEOREM DatabaseFollowsDevice == Spec => []AtRestUnlessLost
<1>1. SmartHomeInv => AtRestUnlessLost
  BY AtRest
<1> QED
  BY <1>1, SmartHomeInit, SmartHomeStep, PTL DEF Spec

==============================================================================
