------------------------------ MODULE MqttBridge ------------------------------
(***************************************************************************)
(* The MQTT bridge of each worker process: one background task that        *)
(* connects to the broker, runs a listener and a publisher in a TaskGroup, *)
(* and starts over when the connection breaks.  HTTP handlers put commands *)
(* in the bridge's queue whatever state it is in.                          *)
(*                                                                         *)
(* The broker and the aiomqtt client are external.  The broker knows       *)
(* clients by identifier and every worker uses the same one, so a new      *)
(* connection takes the session over.  A client finds out that its session *)
(* is gone some time after it is; until then its calls wait and may time   *)
(* out.  Commands are numbered in the order the API accepts them.          *)
(***************************************************************************)
EXTENDS Naturals, Sequences, FiniteSets

CONSTANTS
    Workers,      \* worker processes (Dockerfile: --workers 2)
    MaxCommands,  \* bound: commands the API accepts
    MaxFaults,    \* bound: network faults, refusals and time-outs
    MaxInbox,     \* bound: received messages the listener has not taken yet
    None          \* no worker holds the session; no command in flight

Commands == 1 .. MaxCommands

ASSUME BridgeAssumption ==
    /\ MaxCommands \in Nat /\ MaxFaults \in Nat /\ MaxInbox \in Nat
    /\ None \notin Workers /\ None \notin Commands

\* Where _run stands: inside aiomqtt.Client.__aenter__, in the two subscribe
\* calls, in the TaskGroup, in asyncio.sleep, ended by an exception that no
\* handler of _run catches, or over with its process.
RunStates == {"connect", "subscribe", "serve", "sleep", "dead", "stopped"}

\* Plausible slip: zero never grows by doubling.
NoDelay == 0

FirstDelay == 1
MaxDelay   == 60

VARIABLES
    run,       \* where each worker's _run stands
    stopping,  \* whether its stop() was called
    delay,     \* its reconnect_delay
    queue,     \* its _publish_queue
    inflight,  \* the command its publisher has taken and not settled
    arrived,   \* whether the broker has got that command
    inbox,     \* number of messages its client holds for the listener
    busy,      \* whether its listener is inside a message handler
    link,      \* what its client knows of the connection: "up" or "broken"
    session,   \* broker: the worker whose connection holds the identifier
    received,  \* broker: the commands it got, in order
    accepted,  \* history: number of commands accepted so far
    owner,     \* history: the worker that accepted each of them
    lost,      \* history: commands a publisher that was cancelled had in flight
    abandoned, \* history: commands a process still had when it ended
    requeues,  \* history: how often each command was put back
    failures,  \* history: breaks since each worker's last connection
    faults     \* faults used up

publisherVars == <<inflight, arrived>>
listenerVars  == <<inbox, busy>>
bridgeVars    == <<run, delay, queue, publisherVars, listenerVars, link>>
brokerVars    == <<session, received>>
appVars       == <<accepted, owner, stopping>>
lossVars      == <<lost, abandoned>>
historyVars   == <<lossVars, requeues, failures, faults>>
vars          == <<bridgeVars, brokerVars, appVars, historyVars>>

Smaller(a, b) == IF a < b THEN a ELSE b

Fault == faults < MaxFaults /\ faults' = faults + 1

\* What waits in the queue of w or is in the hands of its publisher.
Unsettled(w) ==
    {queue[w][i] : i \in 1 .. Len(queue[w])} \cup ({inflight[w]} \ {None})

Init ==
    /\ run = [w \in Workers |-> "connect"]
    /\ stopping = [w \in Workers |-> FALSE]
    /\ delay = [w \in Workers |-> FirstDelay]
    /\ queue = [w \in Workers |-> <<>>]
    /\ inflight = [w \in Workers |-> None]
    /\ arrived = [w \in Workers |-> FALSE]
    /\ inbox = [w \in Workers |-> 0]
    /\ busy = [w \in Workers |-> FALSE]
    /\ link = [w \in Workers |-> "broken"]
    /\ session = None
    /\ received = <<>>
    /\ accepted = 0
    /\ owner = [c \in Commands |-> None]
    /\ lost = {}
    /\ abandoned = {}
    /\ requeues = [c \in Commands |-> 0]
    /\ failures = [w \in Workers |-> 0]
    /\ faults = 0

(***************************************************************************)
(* The API side                                                            *)
(***************************************************************************)

\* Plausible slip: a last-in, first-out queue.
Pushed(q, c) == <<c>> \o q

\* put: at the tail
Enqueued(q, c) == Append(q, c)

\* publish_command: put never waits, the queue has no bound, and nothing looks
\* at the state of the bridge.  The server has let its last request end when it
\* calls stop().
PublishCommand(w) ==
    /\ run[w] # "stopped"
    /\ ~stopping[w]
    /\ accepted < MaxCommands
    /\ accepted' = accepted + 1
    /\ owner' = [owner EXCEPT ![accepted + 1] = w]
    /\ queue' = [queue EXCEPT ![w] = Enqueued(@, accepted + 1)]
    /\ UNCHANGED <<run, stopping, delay, publisherVars, listenerVars, link,
                   brokerVars, historyVars>>

(***************************************************************************)
(* The reconnecting loop: _run                                             *)
(***************************************************************************)

\* Plausible slip: the delay of the last outage outlives the connection.
DelayKept(w) == delay[w]

\* reconnect_delay = 1, once __aenter__ has succeeded
DelayOnConnect(w) == FirstDelay

\* Plausible slip: the delay doubles without a cap.
DoubleForever(d) == d * 2

\* min(reconnect_delay * 2, 60)
NextDelay(d) == Smaller(d * 2, MaxDelay)

\* The client connects; the broker drops whoever had the identifier.
Connect(w) ==
    /\ run[w] = "connect"
    /\ run' = [run EXCEPT ![w] = "subscribe"]
    /\ delay' = [delay EXCEPT ![w] = DelayOnConnect(w)]
    /\ link' = [link EXCEPT ![w] = "up"]
    /\ session' = w
    /\ failures' = [failures EXCEPT ![w] = 0]
    /\ UNCHANGED <<queue, publisherVars, listenerVars, received, appVars,
                   lossVars, requeues, faults>>

\* except aiomqtt.MqttError: sleep for reconnect_delay.
BackOff(w) ==
    /\ run' = [run EXCEPT ![w] = "sleep"]
    /\ failures' = [failures EXCEPT ![w] = @ + 1]

ConnectFails(w) ==
    /\ run[w] = "connect"
    /\ Fault
    /\ BackOff(w)
    /\ UNCHANGED <<delay, queue, publisherVars, listenerVars, link,
                   brokerVars, appVars, lossVars, requeues>>

Subscribe(w) ==
    /\ run[w] = "subscribe"
    /\ session = w
    /\ run' = [run EXCEPT ![w] = "serve"]
    /\ UNCHANGED <<delay, queue, publisherVars, listenerVars, link,
                   brokerVars, appVars, historyVars>>

\* The client is left: its tasks are gone, with the command one of them had in
\* flight, a handler cut short at its await, and the messages not yet taken.
LeaveClient(w) ==
    /\ inflight' = [inflight EXCEPT ![w] = None]
    /\ arrived' = [arrived EXCEPT ![w] = FALSE]
    /\ inbox' = [inbox EXCEPT ![w] = 0]
    /\ busy' = [busy EXCEPT ![w] = FALSE]
    /\ link' = [link EXCEPT ![w] = "broken"]
    /\ session' = IF session = w THEN None ELSE session

\* A subscribe call fails, at once on a broken link or by a time-out.  It runs
\* outside the TaskGroup, so its MqttError reaches the except clause.
SubscribeFails(w) ==
    /\ run[w] = "subscribe"
    /\ IF link[w] = "broken" THEN UNCHANGED faults ELSE Fault
    /\ BackOff(w)
    /\ LeaveClient(w)
    /\ UNCHANGED <<delay, queue, received, appVars, lossVars, requeues>>

\* The sleep ends, then the delay grows.
WakeUp(w) ==
    /\ run[w] = "sleep"
    /\ run' = [run EXCEPT ![w] = "connect"]
    /\ delay' = [delay EXCEPT ![w] = NextDelay(@)]
    /\ UNCHANGED <<queue, publisherVars, listenerVars, link, brokerVars,
                   appVars, historyVars>>

\* The client knew that its connection broke: leaving it raises its MqttError,
\* and the loop goes on.  A publisher that was cancelled in it does not put its
\* command back, since CancelledError is not MqttError.
LoopGoesOn(w) ==
    /\ lost' = lost \cup ({inflight[w]} \ {None})
    /\ BackOff(w)
    /\ LeaveClient(w)
    /\ UNCHANGED <<delay, queue, received, abandoned, requeues, faults>>

\* The queue is in the memory of the process and goes with it.
ProcessEnds(w) ==
    /\ abandoned' = abandoned \cup Unsettled(w)
    /\ queue' = [queue EXCEPT ![w] = <<>>]
    /\ run' = [run EXCEPT ![w] = "stopped"]
    /\ LeaveClient(w)
    /\ UNCHANGED <<delay, received, lost, requeues, failures, faults>>

\* Inside a client that knows its connection broke, leaving the client raises
\* its MqttError in place of the CancelledError: the except clause takes it.
CancellationIsLost(w) == run[w] \in {"subscribe", "serve"} /\ link[w] = "broken"

\* stop(), at shutdown: the task is cancelled where it is, unless it is done
\* already, and stop() waits for its end.
Stop(w) ==
    /\ run[w] # "stopped"
    /\ ~stopping[w]
    /\ stopping' = [stopping EXCEPT ![w] = TRUE]
    /\ UNCHANGED <<accepted, owner>>
    /\ IF CancellationIsLost(w) THEN LoopGoesOn(w) ELSE ProcessEnds(w)

\* The process is killed, or ends because the error its loop died of came out
\* of stop().  One that is started in its place is another member of Workers.
Exit(w) ==
    /\ run[w] # "stopped"
    /\ ProcessEnds(w)
    /\ UNCHANGED appVars

(***************************************************************************)
(* The publisher: _drain_publish_queue                                     *)
(***************************************************************************)

\* Plausible slip: the command stays in the queue until it is acknowledged.
Peeked(q) == q

\* get: the head leaves the queue
Popped(q) == Tail(q)

TakeCommand(w) ==
    /\ run[w] = "serve"
    /\ inflight[w] = None
    /\ queue[w] # <<>>
    /\ inflight' = [inflight EXCEPT ![w] = Head(queue[w])]
    /\ queue' = [queue EXCEPT ![w] = Popped(@)]
    /\ UNCHANGED <<run, delay, arrived, listenerVars, link, brokerVars,
                   appVars, historyVars>>

\* The PUBLISH packet reaches the broker.
BrokerReceives(w) ==
    /\ inflight[w] # None
    /\ ~arrived[w]
    /\ session = w
    /\ arrived' = [arrived EXCEPT ![w] = TRUE]
    /\ received' = Append(received, inflight[w])
    /\ UNCHANGED <<run, delay, queue, inflight, listenerVars, link, session,
                   appVars, historyVars>>

\* The PUBACK comes back and publish returns.
PublishAcked(w) ==
    /\ arrived[w]
    /\ session = w
    /\ inflight' = [inflight EXCEPT ![w] = None]
    /\ arrived' = [arrived EXCEPT ![w] = FALSE]
    /\ UNCHANGED <<run, delay, queue, listenerVars, link, brokerVars,
                   appVars, historyVars>>

\* Plausible slip: a failed command is logged and dropped.
DropFailed(q, c) == q

\* put((topic, payload)): at the tail, behind later commands
PutBack(q, c) == Append(q, c)

\* publish raises MqttError, at once on a broken link or by a time-out on one
\* that looks up.  The command is put back and the error leaves the TaskGroup
\* as an ExceptionGroup.  If the client knows its connection broke, leaving it
\* raises that MqttError in its place and the loop goes on.  If not, it
\* disconnects in good order, and no except clause of _run takes the group.
PublishFails(w) ==
    /\ inflight[w] # None
    /\ queue' = [queue EXCEPT ![w] = PutBack(@, inflight[w])]
    /\ requeues' = [requeues EXCEPT ![inflight[w]] = @ + 1]
    /\ LeaveClient(w)
    /\ \/ /\ link[w] = "broken"
          /\ BackOff(w)
          /\ UNCHANGED faults
       \/ /\ link[w] = "up"
          /\ Fault
          /\ run' = [run EXCEPT ![w] = "dead"]
          /\ UNCHANGED failures
    /\ UNCHANGED <<delay, received, appVars, lossVars>>

(***************************************************************************)
(* The listener: _listen_messages                                          *)
(***************************************************************************)

\* The broker delivers a state report or a registration.
MessageArrives(w) ==
    /\ run[w] = "serve"
    /\ session = w
    /\ inbox[w] < MaxInbox
    /\ inbox' = [inbox EXCEPT ![w] = @ + 1]
    /\ UNCHANGED <<run, delay, queue, publisherVars, busy, link, brokerVars,
                   appVars, historyVars>>

\* The next message is taken, a broken link notwithstanding, and its handler
\* runs up to its first await.
StartHandler(w) ==
    /\ run[w] = "serve"
    /\ ~busy[w]
    /\ inbox[w] > 0
    /\ inbox' = [inbox EXCEPT ![w] = @ - 1]
    /\ busy' = [busy EXCEPT ![w] = TRUE]
    /\ UNCHANGED <<run, delay, queue, publisherVars, link, brokerVars,
                   appVars, historyVars>>

\* The handler returns, or raises an Exception that is logged.
FinishHandler(w) ==
    /\ busy[w]
    /\ busy' = [busy EXCEPT ![w] = FALSE]
    /\ UNCHANGED <<run, delay, queue, publisherVars, inbox, link, brokerVars,
                   appVars, historyVars>>

\* Plausible slip: the queue belongs to the connection and goes with it.
ListenerFailsAndFlushes(w) ==
    /\ run[w] = "serve"
    /\ link[w] = "broken"
    /\ ~busy[w]
    /\ inbox[w] = 0
    /\ lost' = lost \cup Unsettled(w)
    /\ queue' = [queue EXCEPT ![w] = <<>>]
    /\ BackOff(w)
    /\ LeaveClient(w)
    /\ UNCHANGED <<delay, received, appVars, abandoned, requeues, faults>>

\* With no message left, client.messages raises on a broken link.  The
\* TaskGroup cancels the publisher.
ListenerFails(w) ==
    /\ run[w] = "serve"
    /\ link[w] = "broken"
    /\ ~busy[w]
    /\ inbox[w] = 0
    /\ LoopGoesOn(w)
    /\ UNCHANGED appVars

(***************************************************************************)
(* The network                                                             *)
(***************************************************************************)

\* The broker restarts or the connection drops.
ConnectionLost ==
    /\ session # None
    /\ Fault
    /\ session' = None
    /\ UNCHANGED <<bridgeVars, received, appVars, lossVars, requeues, failures>>

\* The client notices that its connection is gone.
NoticeLoss(w) ==
    /\ link[w] = "up"
    /\ session # w
    /\ link' = [link EXCEPT ![w] = "broken"]
    /\ UNCHANGED <<run, delay, queue, publisherVars, listenerVars, brokerVars,
                   appVars, historyVars>>

-----------------------------------------------------------------------------

\* Steps the event loop and the broker take by themselves.
Progress(w) ==
    \/ Connect(w)
    \/ Subscribe(w)
    \/ SubscribeFails(w)
    \/ WakeUp(w)
    \/ TakeCommand(w)
    \/ BrokerReceives(w)
    \/ PublishAcked(w)
    \/ StartHandler(w)
    \/ FinishHandler(w)
    \/ ListenerFails(w)
    \/ NoticeLoss(w)

Next ==
    \/ \E w \in Workers :
          \/ Progress(w)
          \/ PublishCommand(w)
          \/ ConnectFails(w)
          \/ PublishFails(w)
          \/ MessageArrives(w)
          \/ Stop(w)
          \/ Exit(w)
    \/ ConnectionLost

Spec == Init /\ [][Next]_vars

\* The event loop runs every ready task, a sleep ends, the broker answers and
\* a broken socket is noticed (keep-alive), each in the end.
Fairness ==
    \A w \in Workers :
        /\ WF_vars(Connect(w))
        /\ WF_vars(Subscribe(w))
        /\ WF_vars(link[w] = "broken" /\ SubscribeFails(w))
        /\ WF_vars(WakeUp(w))
        /\ WF_vars(TakeCommand(w))
        /\ WF_vars(BrokerReceives(w))
        /\ WF_vars(PublishAcked(w))
        /\ WF_vars(StartHandler(w))
        /\ WF_vars(FinishHandler(w))
        /\ WF_vars(ListenerFails(w))
        /\ WF_vars(NoticeLoss(w))

FairSpec == Spec /\ Fairness

(***************************************************************************)
(* Safety                                                                  *)
(***************************************************************************)

TypeOK ==
    /\ run \in [Workers -> RunStates]
    /\ stopping \in [Workers -> BOOLEAN]
    /\ delay \in [Workers -> 1 .. MaxDelay]
    /\ queue \in [Workers -> Seq(Commands)]
    /\ inflight \in [Workers -> Commands \cup {None}]
    /\ arrived \in [Workers -> BOOLEAN]
    /\ inbox \in [Workers -> 0 .. MaxInbox]
    /\ busy \in [Workers -> BOOLEAN]
    /\ link \in [Workers -> {"up", "broken"}]
    /\ session \in Workers \cup {None}
    /\ received \in Seq(Commands)
    /\ accepted \in 0 .. MaxCommands
    /\ owner \in [Commands -> Workers \cup {None}]
    /\ lost \cup abandoned \subseteq Commands
    /\ requeues \in [Commands -> Nat]
    /\ failures \in [Workers -> Nat]
    /\ faults \in 0 .. MaxFaults

\* Where a command is: the worker, with its position in the queue, or 0 for the
\* publisher's hands.
Places(c) ==
    {p \in Workers \X (0 .. MaxCommands) :
        LET w == p[1]
            i == p[2]
        IN  IF i = 0 THEN inflight[w] = c ELSE i <= Len(queue[w]) /\ queue[w][i] = c}

\* How often each command waits in a queue or is in a publisher's hands.
Pending(c) == Cardinality(Places(c))

Deliveries(c) == Cardinality({i \in 1 .. Len(received) : received[i] = c})

\* A command the API accepted never vanishes without a trace: it got to the
\* broker, or waits in one place, or was in flight when its publisher was
\* cancelled, or was left behind by the end of its own process.  What was given
\* up either way is not sent later.
NoCommandVanishes ==
    \A c \in 1 .. accepted :
        /\ Pending(c) <= 1
        /\ Pending(c) + Deliveries(c) = 0 => c \in lost \cup abandoned
        /\ c \in lost \cup abandoned => Pending(c) = 0
        /\ c \in abandoned => run[owner[c]] = "stopped"

\* The broker gets a command once, and once more for every time a failed
\* publish put it back.
RepeatedOnlyIfPutBack ==
    \A c \in Commands : Deliveries(c) <= 1 + requeues[c]

\* Of one worker's commands, one that reaches the broker after a later one was
\* put back at the tail: nothing else reorders "on" and "off".
OvertakenOnlyIfPutBack ==
    \A i, j \in 1 .. Len(received) :
        /\ i < j /\ received[i] > received[j]
        /\ owner[received[i]] = owner[received[j]]
        => requeues[received[j]] > 0

\* Each break of the connection costs a process that goes on one command at
\* most, even if a lost cancellation has it leave the client: what is queued
\* outlives every connection.
OneLossPerBreak == Cardinality(lost) <= faults

\* The sleep after the n-th break in a row: min(2^(n-1), 60) seconds.
SleepAfter(n) == IF n <= 6 THEN <<1, 2, 4, 8, 16, 32>>[n] ELSE 60

\* Breaks in a row are followed by sleeps of 1, 2, 4, ... and at last always of
\* 60 seconds, and the first break after a connection by one of 1 again.
BackOffFollowsBreaks ==
    \A w \in Workers :
        /\ run[w] = "sleep" => delay[w] = SleepAfter(failures[w])
        /\ run[w] = "connect" => delay[w] = SleepAfter(failures[w] + 1)

Channel == INSTANCE CommandChannel WITH
               waiting   <- UNION {Unsettled(w) : w \in Workers},
               delivered <- {received[i] : i \in 1 .. Len(received)},
               dropped   <- lost \cup abandoned

\* The bridges and their queues, with every reconnection, time-out and
\* cancellation, are nothing but the command channel: a command is delivered
\* while it waits, and stops waiting by an acknowledgement or by being given up.
ImplementsCommandChannel == Channel!Spec

\* The claim of the docstring of _run: "Persistent reconnecting loop - runs for
\* the lifetime of the app."
RunsForTheLifetime == \A w \in Workers : run[w] # "dead"

(***************************************************************************)
(* Liveness                                                                *)
(***************************************************************************)

Ended(w) == run[w] \in {"stopped", "dead"}

\* Once the faults are over, every command a bridge accepted is settled: it
\* got to the broker or was lost with a connection, unless the bridge ended.
\* None stays in the queue of a bridge that goes on, a shutdown that waits for
\* it notwithstanding.
CommandsSettle ==
    \A c \in Commands :
        c <= accepted ~> \/ Deliveries(c) > 0
                         \/ c \in lost
                         \/ \E w \in Workers : Ended(w)

\* What the shutdown takes for granted, "stop MQTT bridge then close MongoDB":
\* that stop() returns, or at least raises.
StopReturns == \A w \in Workers : stopping[w] ~> Ended(w)

\* The class's claim of a "long-lived connection to the Mosquitto broker": in
\* the end some worker keeps the session, unless a bridge ended or is told to.
LongLivedConnection ==
    \/ \E w \in Workers : <>[](session = w)
    \/ <>(\E w \in Workers : Ended(w) \/ stopping[w])

=============================================================================
