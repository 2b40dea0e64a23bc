------------------------------- MODULE SmartHome -------------------------------
(***************************************************************************)
(* Google Home fulfillment, from a spoken command to the stored state.     *)
(*                                                                         *)
(* EXECUTE checks a device document and puts a command in the channel of   *)
(* the bridges; the device obeys and publishes its state; the bridge that  *)
(* holds the MQTT session receives the report, and its handler writes the  *)
(* state to the document; QUERY reads the documents.  Devices change hands *)
(* meanwhile.                                                              *)
(*                                                                         *)
(* Two parts are here in their abstract form: claiming and releasing a     *)
(* device is one step (DeviceClaims, which Provisioning implements), and   *)
(* a command waits, is delivered and settles (CommandChannel, which        *)
(* MqttBridge implements).  Devices and broker are external.  A device     *)
(* reports whenever it likes, and whenever it obeys a command; the broker  *)
(* gives a report to the worker that has the session and keeps none for    *)
(* later, since the clients connect with a clean session.                  *)
(*                                                                         *)
(* A string that the code splits at its underscores is the sequence of the *)
(* words between them: a MAC is a word, an endpoint id one or more words.  *)
(***************************************************************************)
EXTENDS Naturals, Sequences, FiniteSets

CONSTANTS
    Users,
    Macs,            \* MAC addresses, words without an underscore
    TwelveCharMacs,  \* those of them that are 12 characters long
    EndpointIds,     \* endpoint ids, sequences of words
    Layouts,         \* endpoint lists, sequences of endpoint ids
    Workers,         \* worker processes, each with its bridge
    MaxCommands,     \* bound: commands accepted
    MaxReports,      \* bound: reports devices publish
    MaxConnections,  \* bound: connections the bridges make
    MaxFaults,       \* bound: lost sessions, messages and database calls
    None             \* no request under way; no worker has the session

ASSUME SmartHomeAssumption ==
    /\ TwelveCharMacs \subseteq Macs
    /\ EndpointIds \subseteq Seq(STRING) \ {<<>>}
    /\ Layouts \subseteq Seq(EndpointIds)
    /\ {MaxCommands, MaxReports, MaxConnections, MaxFaults} \subseteq Nat
    /\ None \notin Workers

Requests == [mac : Macs, endpoint : EndpointIds, on : BOOLEAN]

Keys == Macs \X EndpointIds

Endpoint == [id : EndpointIds, state : BOOLEAN]

\* createdAt, a history field, is the number of reports published before.
Document == [mac : Macs, user : Users, createdAt : Nat, endpoints : Seq(Endpoint)]

Command == [mac : Macs, endpoint : EndpointIds, on : BOOLEAN, by : Users]

Report == [mac : Macs, endpoint : EndpointIds, on : BOOLEAN,
           connection : 0 .. MaxConnections]

ReportNumbers == 1 .. MaxReports

VARIABLES
    devices,      \* collection smarthome_devices
    request,      \* each user's EXECUTE between its find_one and its put
    command,      \* the commands accepted, by number
    waiting,      \* command channel: commands that may still be delivered
    delivered,    \*   that were
    dropped,      \*   given up
    switch,       \* physical state of every endpoint
    reports,      \* the reports devices published, by number
    session,      \* broker: the worker whose client receives the reports
    connections,  \* connections made so far
    client,       \* whether each worker is inside its aiomqtt client
    inbox,        \* numbers of the reports each client holds
    handling,     \* the report each listener's handler is writing, or 0
    adrift,       \* reports whose handler was cancelled during the write
    written,      \* history: number of the report each stored state is from
    gone,         \* history: reports lost, unmatched or written over
    owners,       \* history: <<mac, user>> for every owner a device had
    faults        \* faults used up

channelVars == <<waiting, delivered, dropped>>
executeVars == <<request, command, channelVars>>
deviceVars  == <<switch, reports>>
clientVars  == <<session, connections, client>>
reportVars  == <<inbox, handling, adrift>>
vars == <<devices, executeVars, deviceVars, clientVars, reportVars, written,
          gone, owners, faults>>

Channel == INSTANCE CommandChannel WITH
               Commands <- 1 .. MaxCommands,
               accepted <- Len(command)

Fault == faults < MaxFaults /\ faults' = faults + 1

Key(n) == <<reports[n].mac, reports[n].endpoint>>

InFlight(n) ==
    \/ \E w \in Workers : \/ handling[w] = n
                          \/ \E i \in 1 .. Len(inbox[w]) : inbox[w][i] = n
    \/ n \in adrift

(***************************************************************************)
(* Documents and ids                                                       *)
(***************************************************************************)

Ids(d) == {d.endpoints[i].id : i \in 1 .. Len(d.endpoints)}

\* get_state_dict: a later endpoint with the same id wins.
QueryState(d, e) ==
    LET last == CHOOSE i \in 1 .. Len(d.endpoints) :
                    /\ d.endpoints[i].id = e
                    /\ \A j \in i + 1 .. Len(d.endpoints) : d.endpoints[j].id # e
    IN  d.endpoints[last].state

\* f"{dev.mac}_{ep.id}", which SYNC gives to Google.
GoogleId(m, e) == <<m>> \o e

\* rsplit("_", 1).  The part in front must have 12 characters; one of several
\* words can have them too, but is no device's MAC and so is not found either.
Malformed(id) ==
    \/ Len(id) < 2
    \/ SubSeq(id, 1, Len(id) - 1) \notin {<<m>> : m \in TwelveCharMacs}

MacOf(id) == id[1]
EndpointOf(id) == <<id[Len(id)]>>

\* Plausible slip: anyone may address a device whose id he knows.
FindableByAnyone(u, id) ==
    {d \in devices : d.mac = MacOf(id) /\ EndpointOf(id) \in Ids(d)}

\* The document QUERY and EXECUTE accept for an id: it exists, is the user's
\* and has the endpoint.
Findable(u, id) ==
    {d \in devices : /\ d.mac = MacOf(id)
                     /\ d.user = u
                     /\ EndpointOf(id) \in Ids(d)}

Found(u, id) == ~Malformed(id) /\ Findable(u, id) # {}

\* {"mac": mac, "endpoints.id": endpoint_id}
Matching(m, e) == {d \in devices : d.mac = m /\ e \in Ids(d)}

\* "endpoints.$.state": the first endpoint with that id.
Updated(eps, e, on) ==
    [i \in 1 .. Len(eps) |->
        IF eps[i].id = e /\ \A j \in 1 .. i - 1 : eps[j].id # e
        THEN [eps[i] EXCEPT !.state = on]
        ELSE eps[i]]

-----------------------------------------------------------------------------

Init ==
    /\ devices = {}
    /\ request = [u \in Users |-> None]
    /\ command = <<>>
    /\ Channel!Init
    /\ switch = [k \in Keys |-> FALSE]
    /\ reports = <<>>
    /\ session = None
    /\ connections = 0
    /\ client = [w \in Workers |-> FALSE]
    /\ inbox = [w \in Workers |-> <<>>]
    /\ handling = [w \in Workers |-> 0]
    /\ adrift = {}
    /\ written = [k \in Keys |-> 0]
    /\ gone = {}
    /\ owners = {}
    /\ faults = 0

(***************************************************************************)
(* Ownership                                                               *)
(***************************************************************************)

\* Plausible slip: the catalog's endpoints are stored as they are.
BareEndpoints(l) == [i \in 1 .. Len(l) |-> [id |-> l[i]]]

\* {**ep, "state": False}
NewEndpoints(l) == [i \in 1 .. Len(l) |-> [id |-> l[i], state |-> FALSE]]

\* create_device: every endpoint starts off, whatever the relay does.  The time
\* of creation is told by the reports published before it.
Provision(m, u, l) ==
    /\ \A d \in devices : d.mac # m
    /\ devices' = devices \cup
           {[mac |-> m, user |-> u, createdAt |-> Len(reports),
             endpoints |-> NewEndpoints(l)]}
    /\ written' = [k \in Keys |-> IF k[1] = m THEN 0 ELSE written[k]]
    /\ owners' = owners \cup {<<m, u>>}
    /\ UNCHANGED <<executeVars, deviceVars, clientVars, reportVars, gone, faults>>

\* delete_device, by the owner or by an administrator.
Release(m) ==
    /\ \E d \in devices : d.mac = m
    /\ devices' = {d \in devices : d.mac # m}
    /\ UNCHANGED <<executeVars, deviceVars, clientVars, reportVars, written,
                   gone, owners, faults>>

(***************************************************************************)
(* EXECUTE                                                                 *)
(***************************************************************************)

\* The find_one of one target of one command, whose document passes the
\* checks.  Any other target is answered with deviceNotFound, without effect.
ExecuteFind(u, id, on) ==
    /\ request[u] = None
    /\ Found(u, id)
    /\ request' = [request EXCEPT
                     ![u] = [mac |-> MacOf(id), endpoint |-> EndpointOf(id), on |-> on]]
    /\ UNCHANGED <<devices, command, channelVars, deviceVars, clientVars,
                   reportVars, written, gone, owners, faults>>

\* Plausible slip: the assumed state is written at once.
ExecutePutOptimistic(u) ==
    /\ request[u] # None
    /\ Len(command) < MaxCommands
    /\ LET r == request[u]
       IN  /\ command' = Append(command, [mac |-> r.mac, endpoint |-> r.endpoint,
                                          on |-> r.on, by |-> u])
           /\ devices' = {IF d \in Matching(r.mac, r.endpoint)
                          THEN [d EXCEPT !.endpoints = Updated(@, r.endpoint, r.on)]
                          ELSE d : d \in devices}
    /\ Channel!Accept
    /\ request' = [request EXCEPT ![u] = None]
    /\ UNCHANGED <<deviceVars, clientVars, reportVars, written, gone, owners, faults>>

\* The answer is back: the command goes to the bridge, and the answer to
\* Google says that the device is in the new state.  No document changes.
ExecutePut(u) ==
    /\ request[u] # None
    /\ Len(command) < MaxCommands
    /\ command' = Append(command, [mac |-> request[u].mac, by |-> u, on |-> request[u].on,
                                   endpoint |-> request[u].endpoint])
    /\ Channel!Accept
    /\ request' = [request EXCEPT ![u] = None]
    /\ UNCHANGED <<devices, deviceVars, clientVars, reportVars, written, gone,
                   owners, faults>>

(***************************************************************************)
(* Devices and broker                                                      *)
(***************************************************************************)

\* A device is in state on and says so.  The session's client receives the
\* report; without a session, or by a fault, nobody does.
PublishState(m, e, on) ==
    /\ Len(reports) < MaxReports
    /\ switch' = [switch EXCEPT ![<<m, e>>] = on]
    /\ \/ /\ session # None
          /\ inbox' = [inbox EXCEPT ![session] = Append(@, Len(reports) + 1)]
          /\ UNCHANGED <<gone, faults>>
       \/ /\ IF session = None THEN UNCHANGED faults ELSE Fault
          /\ gone' = gone \cup {Len(reports) + 1}
          /\ UNCHANGED inbox
    /\ reports' = Append(reports,
           [mac |-> m, endpoint |-> e, on |-> on,
            connection |-> IF inbox' = inbox THEN 0 ELSE connections])
    /\ UNCHANGED <<devices, request, clientVars, handling, adrift, written,
                   owners>>

\* By hand, by a timer, at power-up.
DeviceReports(m, e, on) ==
    /\ PublishState(m, e, on)
    /\ UNCHANGED <<command, channelVars>>

DeviceObeys(c) ==
    /\ UNCHANGED command
    /\ Channel!Deliver(c)
    /\ PublishState(command[c].mac, command[c].endpoint, command[c].on)

\* The device is off or out of reach.
DeviceMisses(c) ==
    /\ UNCHANGED command
    /\ Channel!Deliver(c)
    /\ UNCHANGED <<devices, request, deviceVars, clientVars, reportVars,
                   written, gone, owners, faults>>

\* One was acknowledged, or some were given up: the one in flight with its
\* connection, all of a bridge's with its process.
CommandsLeaveChannel ==
    /\ UNCHANGED command
    /\ \/ \E c \in waiting : Channel!Settle(c)
       \/ \E C \in SUBSET waiting : Channel!Drop(C)
    /\ UNCHANGED <<devices, request, deviceVars, clientVars, reportVars,
                   written, gone, owners, faults>>

(***************************************************************************)
(* The bridge's connection and its state handler                           *)
(***************************************************************************)

\* A worker connects and subscribes; all use one identifier, so the session
\* is taken from whoever has it.
Connect(w) ==
    /\ ~client[w]
    /\ connections < MaxConnections
    /\ client' = [client EXCEPT ![w] = TRUE]
    /\ session' = w
    /\ connections' = connections + 1
    /\ UNCHANGED <<devices, executeVars, deviceVars, reportVars, written, gone,
                   owners, faults>>

SessionLost ==
    /\ session # None
    /\ Fault
    /\ session' = None
    /\ UNCHANGED <<devices, executeVars, deviceVars, connections, client,
                   reportVars, written, gone, owners>>

\* The client is left: what it holds is lost, and the handler is cancelled.
\* Motor runs a write in a thread, which the cancellation does not stop once
\* it has begun.
LeaveClient(w) ==
    /\ client[w]
    /\ IF session = w THEN Fault ELSE UNCHANGED faults
    /\ client' = [client EXCEPT ![w] = FALSE]
    /\ session' = IF session = w THEN None ELSE session
    /\ inbox' = [inbox EXCEPT ![w] = <<>>]
    /\ handling' = [handling EXCEPT ![w] = 0]
    /\ \E begun \in SUBSET ({handling[w]} \ {0}) :
           /\ adrift' = adrift \cup begun
           /\ gone' = gone \cup (({handling[w]} \ {0}) \ begun)
                           \cup {inbox[w][i] : i \in 1 .. Len(inbox[w])}
    /\ UNCHANGED <<devices, executeVars, deviceVars, connections, written, owners>>

\* Plausible slip: last in, first out.
LatestFirst(q) == Len(q)

\* Where the listener finds the next message.
FirstFirst(q) == 1

\* The listener takes a message; its handler runs up to the database call.
TakeReport(w) ==
    /\ handling[w] = 0
    /\ inbox[w] # <<>>
    /\ LET i == FirstFirst(inbox[w])
       IN  /\ handling' = [handling EXCEPT ![w] = inbox[w][i]]
           /\ inbox' = [inbox EXCEPT
                          ![w] = SubSeq(@, 1, i - 1) \o SubSeq(@, i + 1, Len(@))]
    /\ UNCHANGED <<devices, executeVars, deviceVars, clientVars, adrift, written,
                   gone, owners, faults>>

\* update_endpoint_state: one update_one, whoever owns the device by now.  A
\* report written over by an earlier one from another connection is gone.
Stored(n) ==
    LET r == reports[n]  k == Key(n)  old == written[Key(n)]
    IN  /\ Matching(r.mac, r.endpoint) # {}
        /\ devices' = {IF d \in Matching(r.mac, r.endpoint)
                       THEN [d EXCEPT !.endpoints = Updated(@, r.endpoint, r.on)]
                       ELSE d : d \in devices}
        /\ written' = [written EXCEPT ![k] = n]
        /\ gone' = gone \cup {o \in {old} : /\ o > n
                                            /\ reports[o].connection # r.connection}

\* No document has the endpoint: the report is logged and discarded.
Unmatched(n) ==
    /\ Matching(reports[n].mac, reports[n].endpoint) = {}
    /\ gone' = gone \cup {n}
    /\ UNCHANGED <<devices, written>>

\* Plausible slip: the handler waits for a document that matches.
StoredOnly(n) == Stored(n)

Persist(n) == Stored(n) \/ Unmatched(n)

\* The handler's database call takes effect and the handler returns.
WriteReport(w) ==
    /\ handling[w] # 0
    /\ Persist(handling[w])
    /\ handling' = [handling EXCEPT ![w] = 0]
    /\ UNCHANGED <<executeVars, deviceVars, clientVars, inbox, adrift, owners, faults>>

\* The call fails: _listen_messages logs the exception and goes on.
WriteFails(w) ==
    /\ handling[w] # 0
    /\ Fault
    /\ gone' = gone \cup {handling[w]}
    /\ handling' = [handling EXCEPT ![w] = 0]
    /\ UNCHANGED <<devices, executeVars, deviceVars, clientVars, inbox, adrift,
                   written, owners>>

\* A write whose handler is gone takes effect.
LateWrite(n) ==
    /\ n \in adrift
    /\ Persist(n)
    /\ adrift' = adrift \ {n}
    /\ UNCHANGED <<executeVars, deviceVars, clientVars, inbox, handling, owners, faults>>

-----------------------------------------------------------------------------

Next ==
    \/ \E m \in Macs, u \in Users, l \in Layouts : Provision(m, u, l)
    \/ \E m \in Macs : Release(m)
    \/ \E u \in Users, m \in Macs, e \in EndpointIds, on \in BOOLEAN :
           ExecuteFind(u, GoogleId(m, e), on)
    \/ \E u \in Users : ExecutePut(u)
    \/ \E m \in Macs, e \in EndpointIds, on \in BOOLEAN : DeviceReports(m, e, on)
    \/ \E c \in waiting : DeviceObeys(c) \/ DeviceMisses(c)
    \/ CommandsLeaveChannel
    \/ \E w \in Workers :
           \/ Connect(w)
           \/ LeaveClient(w)
           \/ TakeReport(w)
           \/ WriteReport(w)
           \/ WriteFails(w)
    \/ SessionLost
    \/ \E n \in adrift : LateWrite(n)

Spec == Init /\ [][Next]_vars

\* A listener and motor's threads run as long as they have work.  Nothing says
\* that a bridge reconnects: its loop may have died.
FairSpec ==
    /\ Spec
    /\ \A w \in Workers : WF_vars(TakeReport(w)) /\ WF_vars(WriteReport(w))
    /\ \A n \in ReportNumbers : WF_vars(LateWrite(n))

(***************************************************************************)
(* Safety                                                                  *)
(***************************************************************************)

TypeOK ==
    /\ devices \subseteq Document /\ \A d \in devices : d.createdAt <= Len(reports)
    /\ request \in [Users -> Requests \cup {None}]
    /\ command \in Seq(Command)
    /\ waiting \subseteq 1 .. Len(command)
    /\ delivered \subseteq 1 .. Len(command)
    /\ dropped \subseteq 1 .. Len(command)
    /\ switch \in [Keys -> BOOLEAN]
    /\ reports \in Seq(Report)
    /\ session \in Workers \cup {None}
    /\ connections \in 0 .. MaxConnections
    /\ client \in [Workers -> BOOLEAN]
    /\ inbox \in [Workers -> Seq(1 .. Len(reports))]
    /\ handling \in [Workers -> 0 .. Len(reports)]
    /\ adrift \subseteq 1 .. Len(reports)
    /\ written \in [Keys -> 0 .. Len(reports)]
    /\ gone \subseteq 1 .. Len(reports)
    /\ owners \subseteq Macs \X Users
    /\ faults \in 0 .. MaxFaults

\* An id that the endpoint list holds once, as the catalog means it to.
HasOnce(d, e) == Cardinality({i \in 1 .. Len(d.endpoints) : d.endpoints[i].id = e}) = 1

\* What QUERY tells of an endpoint is what the device last had written through
\* the bridge since it was provisioned, and off before: no command, answer to
\* Google or other endpoint's report shows in it ("No optimistic writes").
QueryTellsLastReport ==
    \A d \in devices : \A e \in Ids(d) :
        HasOnce(d, e) =>
            LET n == written[<<d.mac, e>>]
            IN  QueryState(d, e) = (n > 0 /\ reports[n].on)

\* A command in the channel comes from somebody who owns the device or has
\* owned it, however long it waits and whoever owns the device by then.
CommandsAreTheOwners ==
    \A c \in 1 .. Len(command) : <<command[c].mac, command[c].by>> \in owners

\* When no report of an endpoint is under way, the database agrees with the
\* device, unless its last report since it was provisioned was lost with a
\* connection or was written over by one from another connection.
AtRestUnlessLost ==
    \A d \in devices : \A e \in Ids(d) :
        LET own   == {n \in 1 .. Len(reports) : Key(n) = <<d.mac, e>>}
            owed  == {n \in own : n > d.createdAt}
        IN  /\ HasOnce(d, e)
            /\ owed # {}
            /\ \A n \in own : ~InFlight(n)
            /\ \A n \in owed : (\A o \in owed : o <= n) => n \notin gone
            => QueryState(d, e) = switch[<<d.mac, e>>]

\* A stored state never goes back to an earlier report than the one it shows:
\* it is "the most recently known ON/OFF value" (DeviceEndpoint).
NewestReportKept ==
    [][\A k \in Keys : written'[k] >= written[k] \/ written'[k] = 0]_vars

(***************************************************************************)
(* Liveness                                                                *)
(***************************************************************************)

\* The listener never gets stuck: each report a device publishes is written
\* or given up in the end, whatever connections and calls fail.
EveryReportSettles ==
    \A n \in ReportNumbers : n <= Len(reports) ~> ~InFlight(n)

================================================================================
