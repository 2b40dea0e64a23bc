--------------------------- MODULE MqttBridgeProofs ---------------------------
(***************************************************************************)
(* Proofs about MqttBridge, for any number of workers, commands, faults    *)
(* and messages.                                                           *)
(***************************************************************************)
EXTENDS MqttBridge, FiniteSetTheorems, TLAPS

(***************************************************************************)
(* Tasks and connections                                                   *)
(***************************************************************************)

\* Publisher and listener have something to do only in the client, which knows
\* that it is connected as long as the broker serves it.
TasksAreInTheClient ==
    \A w \in Workers :
        /\ inflight[w] # None \/ busy[w] \/ inbox[w] > 0 => run[w] = "serve"
        /\ arrived[w] => inflight[w] # None
        /\ run[w] \notin {"subscribe", "serve"} => link[w] = "broken"
        /\ session = w => link[w] = "up"

\* The parts of the state the commands are in.
commandVars == <<queue, inflight, arrived, received, accepted, owner, lost, abandoned,
                 requeues>>

\* The publisher of w is cancelled, with the command it has in its hands, if any.
Drops(w) ==
    /\ lost' = lost \cup ({inflight[w]} \ {None})
    /\ inflight' = [inflight EXCEPT ![w] = None]
    /\ arrived' = [arrived EXCEPT ![w] = FALSE]
    /\ UNCHANGED <<queue, received, accepted, owner, abandoned, requeues>>

\* The process of w is over, with all it had.
Ends(w) ==
    /\ abandoned' = abandoned \cup Unsettled(w)
    /\ queue' = [queue EXCEPT ![w] = <<>>]
    /\ inflight' = [inflight EXCEPT ![w] = None]
    /\ arrived' = [arrived EXCEPT ![w] = FALSE]
    /\ run' = [run EXCEPT ![w] = "stopped"]
    /\ UNCHANGED <<received, accepted, owner, lost, requeues>>

\* Every way a step can deal with commands.
LEMMA CommandSteps ==
    ASSUME TypeOK, TasksAreInTheClient, [Next]_vars
    PROVE  \/ \E w \in Workers :
                 \/ PublishCommand(w) \/ TakeCommand(w) \/ BrokerReceives(w)
                 \/ PublishAcked(w) \/ PublishFails(w) \/ Drops(w) \/ Ends(w)
           \/ UNCHANGED commandVars
<1>1. CASE ConnectionLost \/ UNCHANGED vars
  BY <1>1 DEF ConnectionLost, vars, bridgeVars, publisherVars, brokerVars, historyVars,
              appVars, lossVars, commandVars
<1>2. ASSUME NEW w \in Workers,
             \/ Connect(w) \/ Subscribe(w) \/ WakeUp(w) \/ StartHandler(w) \/ FinishHandler(w)
             \/ NoticeLoss(w) \/ ConnectFails(w) \/ MessageArrives(w)
      PROVE  UNCHANGED commandVars
  BY <1>2 DEF Connect, Subscribe, WakeUp, StartHandler, FinishHandler, NoticeLoss,
              ConnectFails, MessageArrives, publisherVars, brokerVars, historyVars,
              appVars, lossVars, commandVars
<1>3. ASSUME NEW w \in Workers, SubscribeFails(w) PROVE Drops(w)
  <2>1. inflight[w] = None
    BY <1>3 DEF SubscribeFails, TasksAreInTheClient
  <2> QED
    BY <1>3, <2>1 DEF SubscribeFails, LeaveClient, Drops, appVars, lossVars
<1>4. ASSUME NEW w \in Workers, LoopGoesOn(w), UNCHANGED <<accepted, owner>> PROVE Drops(w)
  BY <1>4 DEF LoopGoesOn, LeaveClient, Drops
<1>5. ASSUME NEW w \in Workers, ProcessEnds(w), UNCHANGED <<accepted, owner>> PROVE Ends(w)
  BY <1>5 DEF ProcessEnds, LeaveClient, Ends
<1>6. ASSUME NEW w \in Workers, Stop(w) \/ Exit(w) \/ ListenerFails(w)
      PROVE  Drops(w) \/ Ends(w)
  BY <1>4, <1>5, <1>6 DEF Stop, Exit, ListenerFails, appVars
<1> QED
  BY <1>1, <1>2, <1>3, <1>6 DEF Next, Progress

LEMMA BridgeInit ==
    ASSUME Init
    PROVE  TypeOK /\ TasksAreInTheClient
<1>1. TypeOK
  BY BridgeAssumption DEF Init, TypeOK, RunStates, FirstDelay, MaxDelay
<1>2. TasksAreInTheClient
  BY BridgeAssumption DEF Init, TasksAreInTheClient
<1> QED
  BY <1>1, <1>2

LEMMA DelayTyped ==
    ASSUME NEW d \in 1 .. MaxDelay
    PROVE  NextDelay(d) \in 1 .. MaxDelay
  BY DEF NextDelay, Smaller, MaxDelay

LEMMA FaultTyped ==
    ASSUME TypeOK, Fault
    PROVE  faults' \in 0 .. MaxFaults
  BY BridgeAssumption DEF TypeOK, Fault

LEMMA LeftTyped ==
    ASSUME TypeOK, NEW w \in Workers, LeaveClient(w)
    PROVE  /\ inflight' \in [Workers -> Commands \cup {None}]
           /\ arrived' \in [Workers -> BOOLEAN]
           /\ inbox' \in [Workers -> 0 .. MaxInbox]
           /\ busy' \in [Workers -> BOOLEAN]
           /\ link' \in [Workers -> {"up", "broken"}]
           /\ session' \in Workers \cup {None}
  BY BridgeAssumption DEF TypeOK, LeaveClient

LEMMA BackOffTyped ==
    ASSUME TypeOK, NEW w \in Workers, BackOff(w)
    PROVE  run' \in [Workers -> RunStates] /\ failures' \in [Workers -> Nat]
<1>1. failures[w] + 1 \in Nat /\ "sleep" \in RunStates
  BY DEF TypeOK, RunStates
<1> QED
  BY <1>1 DEF TypeOK, BackOff

LEMMA QueueTyped ==
    ASSUME NEW S, NEW q \in Seq(S), NEW c \in S
    PROVE  /\ Append(q, c) \in Seq(S)
           /\ Len(Append(q, c)) = Len(q) + 1
           /\ Append(q, c)[Len(q) + 1] = c
           /\ \A i \in 1 .. Len(q) : Append(q, c)[i] = q[i]
  OBVIOUS

LEMMA HeadLeaves ==
    ASSUME NEW S, NEW q \in Seq(S), q # <<>>
    PROVE  /\ Head(q) \in S /\ Head(q) = q[1] /\ Len(q) >= 1
           /\ Tail(q) \in Seq(S)
           /\ Len(Tail(q)) = Len(q) - 1
           /\ \A i \in 1 .. Len(q) - 1 : Tail(q)[i] = q[i + 1]
  OBVIOUS

LEMMA LoopTyped ==
    ASSUME TypeOK, NEW w \in Workers, LoopGoesOn(w), UNCHANGED <<accepted, owner>>,
           stopping' \in [Workers -> BOOLEAN]
    PROVE  TypeOK'
<1>1. lost' \cup abandoned' \subseteq Commands
  BY DEF TypeOK, LoopGoesOn
<1> QED
  BY <1>1, LeftTyped, BackOffTyped DEF TypeOK, LoopGoesOn

LEMMA EndTyped ==
    ASSUME TypeOK, NEW w \in Workers, ProcessEnds(w), UNCHANGED <<accepted, owner>>,
           stopping' \in [Workers -> BOOLEAN]
    PROVE  TypeOK'
<1>1. Unsettled(w) \subseteq Commands
  <2>1. queue[w] \in Seq(Commands) /\ inflight[w] \in Commands \cup {None}
    BY DEF TypeOK
  <2>2. \A i \in 1 .. Len(queue[w]) : queue[w][i] \in Commands
    BY <2>1
  <2> QED
    BY <2>1, <2>2 DEF Unsettled
<1>2. lost' \cup abandoned' \subseteq Commands
  BY <1>1 DEF TypeOK, ProcessEnds
<1>3. run' \in [Workers -> RunStates] /\ queue' \in [Workers -> Seq(Commands)]
  <2>1. <<>> \in Seq(Commands) /\ "stopped" \in RunStates
    BY DEF RunStates
  <2> QED
    BY <2>1 DEF TypeOK, ProcessEnds
<1> QED
  BY <1>2, <1>3, LeftTyped DEF TypeOK, ProcessEnds

LEMMA TypeStep ==
    ASSUME TypeOK, [Next]_vars
    PROVE  TypeOK'
<1> USE DEF TypeOK
<1>1. ASSUME NEW w \in Workers, Connect(w) PROVE TypeOK'
  BY <1>1 DEF Connect, RunStates, DelayOnConnect, FirstDelay, MaxDelay, publisherVars,
              listenerVars, appVars, lossVars
<1>2. ASSUME NEW w \in Workers, Subscribe(w) PROVE TypeOK'
  BY <1>2 DEF Subscribe, RunStates, publisherVars, listenerVars, brokerVars, historyVars,
              appVars, lossVars
<1>3. ASSUME NEW w \in Workers, SubscribeFails(w) PROVE TypeOK'
  <2>1. faults' \in 0 .. MaxFaults
    BY <1>3, FaultTyped DEF SubscribeFails
  <2> QED
    BY <1>3, <2>1, LeftTyped, BackOffTyped DEF SubscribeFails, appVars, lossVars
<1>4. ASSUME NEW w \in Workers, WakeUp(w) PROVE TypeOK'
  BY <1>4, DelayTyped DEF WakeUp, RunStates, publisherVars, listenerVars, brokerVars,
              historyVars, appVars, lossVars
<1>5. ASSUME NEW w \in Workers, TakeCommand(w) PROVE TypeOK'
  <2>1. queue' \in [Workers -> Seq(Commands)] /\ Head(queue[w]) \in Commands
    BY <1>5, HeadLeaves DEF TakeCommand, Popped
  <2> QED
    BY <1>5, <2>1 DEF TakeCommand, listenerVars, brokerVars, historyVars, appVars, lossVars
<1>6. ASSUME NEW w \in Workers, BrokerReceives(w) PROVE TypeOK'
  <2>1. received' \in Seq(Commands)
    BY <1>6, QueueTyped DEF BrokerReceives
  <2> QED
    BY <1>6, <2>1 DEF BrokerReceives, listenerVars, historyVars, appVars, lossVars
<1>7. ASSUME NEW w \in Workers, PublishAcked(w) PROVE TypeOK'
  BY <1>7 DEF PublishAcked, listenerVars, brokerVars, historyVars, appVars, lossVars
<1>8. ASSUME NEW w \in Workers, StartHandler(w) \/ FinishHandler(w) \/ MessageArrives(w)
      PROVE  TypeOK'
  <2>1. inbox' \in [Workers -> 0 .. MaxInbox]
    <3>1. inbox[w] \in 0 .. MaxInbox /\ MaxInbox \in Nat
      BY BridgeAssumption
    <3>2. CASE StartHandler(w)
      BY <3>1, <3>2 DEF StartHandler
    <3>3. CASE MessageArrives(w)
      BY <3>1, <3>3 DEF MessageArrives
    <3>4. CASE FinishHandler(w)
      BY <3>4 DEF FinishHandler
    <3> QED
      BY <1>8, <3>2, <3>3, <3>4
  <2>2. busy' \in [Workers -> BOOLEAN]
    BY <1>8 DEF StartHandler, FinishHandler, MessageArrives
  <2> QED
    BY <1>8, <2>1, <2>2
       DEF StartHandler, FinishHandler, MessageArrives, publisherVars, brokerVars,
           historyVars, appVars, lossVars
<1>9. ASSUME NEW w \in Workers, ListenerFails(w) PROVE TypeOK'
  BY <1>9, LoopTyped DEF ListenerFails, appVars
<1>10. ASSUME NEW w \in Workers, NoticeLoss(w) PROVE TypeOK'
  BY <1>10 DEF NoticeLoss, publisherVars, listenerVars, brokerVars, historyVars, appVars,
               lossVars
<1>11. ASSUME NEW w \in Workers, PublishCommand(w) PROVE TypeOK'
  <2>1. accepted + 1 \in Commands /\ accepted' \in 0 .. MaxCommands
    BY <1>11, BridgeAssumption DEF PublishCommand, Commands
  <2>2. queue' \in [Workers -> Seq(Commands)]
    BY <1>11, <2>1, QueueTyped DEF PublishCommand, Enqueued
  <2>3. owner' \in [Commands -> Workers \cup {None}]
    BY <1>11 DEF PublishCommand
  <2> QED
    BY <1>11, <2>1, <2>2, <2>3
       DEF PublishCommand, publisherVars, listenerVars, brokerVars, historyVars, lossVars
<1>12. ASSUME NEW w \in Workers, ConnectFails(w) PROVE TypeOK'
  BY <1>12, FaultTyped, BackOffTyped
     DEF ConnectFails, publisherVars, listenerVars, brokerVars, appVars, lossVars
<1>13. ASSUME NEW w \in Workers, PublishFails(w) PROVE TypeOK'
  <2>1. inflight[w] \in Commands
    BY <1>13 DEF PublishFails
  <2>2. queue' \in [Workers -> Seq(Commands)]
    BY <1>13, <2>1, QueueTyped DEF PublishFails, PutBack
  <2>3. requeues' \in [Commands -> Nat]
    BY <1>13, <2>1 DEF PublishFails
  <2>4. /\ run' \in [Workers -> RunStates] /\ failures' \in [Workers -> Nat]
        /\ faults' \in 0 .. MaxFaults
    <3>1. CASE BackOff(w) /\ UNCHANGED faults
      BY <3>1, BackOffTyped
    <3>2. CASE Fault /\ run' = [run EXCEPT ![w] = "dead"] /\ UNCHANGED failures
      BY <3>2, FaultTyped DEF RunStates
    <3> QED
      BY <1>13, <3>1, <3>2 DEF PublishFails
  <2> QED
    BY <1>13, <2>2, <2>3, <2>4, LeftTyped DEF PublishFails, appVars, lossVars
<1>14. ASSUME NEW w \in Workers, Stop(w) \/ Exit(w) PROVE TypeOK'
  <2>1. stopping' \in [Workers -> BOOLEAN] /\ UNCHANGED <<accepted, owner>>
    BY <1>14 DEF Stop, Exit, appVars
  <2>2. LoopGoesOn(w) \/ ProcessEnds(w)
    BY <1>14 DEF Stop, Exit
  <2> QED
    BY <2>1, <2>2, LoopTyped, EndTyped
<1>15. CASE ConnectionLost
  BY <1>15, FaultTyped DEF ConnectionLost, bridgeVars, publisherVars, listenerVars, appVars,
                           lossVars
<1>16. CASE UNCHANGED vars
  BY <1>16 DEF vars, bridgeVars, publisherVars, listenerVars, brokerVars, historyVars,
               appVars, lossVars
<1> QED
  BY <1>1, <1>2, <1>3, <1>4, <1>5, <1>6, <1>7, <1>8, <1>9, <1>10, <1>11, <1>12, <1>13, <1>14,
     <1>15, <1>16 DEF Next, Progress

LEMMA ConnectionStep ==
    ASSUME TypeOK, TasksAreInTheClient, [Next]_vars
    PROVE  TasksAreInTheClient'
<1> USE DEF TasksAreInTheClient
<1>1. ASSUME NEW w \in Workers, Connect(w) PROVE TasksAreInTheClient'
  BY <1>1 DEF TypeOK, Connect, publisherVars, listenerVars
<1>2. ASSUME NEW w \in Workers, Subscribe(w) PROVE TasksAreInTheClient'
  BY <1>2 DEF TypeOK, Subscribe, publisherVars, listenerVars, brokerVars
<1>3. ASSUME NEW w \in Workers, NEW state \in RunStates, LeaveClient(w),
             run' = [run EXCEPT ![w] = state]
      PROVE  TasksAreInTheClient'
  BY <1>3, BridgeAssumption DEF TypeOK, LeaveClient
<1>4. ASSUME NEW w \in Workers,
             \/ SubscribeFails(w) \/ ListenerFails(w) \/ PublishFails(w)
             \/ Stop(w) \/ Exit(w)
      PROVE  TasksAreInTheClient'
  <2>1. LeaveClient(w) /\ \E state \in RunStates : run' = [run EXCEPT ![w] = state]
    BY <1>4 DEF SubscribeFails, ListenerFails, PublishFails, Stop, Exit, LoopGoesOn,
                ProcessEnds, BackOff, RunStates
  <2> QED
    BY <1>3, <2>1
<1>5. ASSUME NEW w \in Workers, WakeUp(w) \/ ConnectFails(w)
      PROVE  TasksAreInTheClient'
  BY <1>5 DEF TypeOK, WakeUp, ConnectFails, BackOff, publisherVars, listenerVars, brokerVars
<1>6. ASSUME NEW w \in Workers, TakeCommand(w) PROVE TasksAreInTheClient'
  BY <1>6 DEF TypeOK, TakeCommand, listenerVars, brokerVars
<1>7. ASSUME NEW w \in Workers, BrokerReceives(w) \/ PublishAcked(w)
      PROVE  TasksAreInTheClient'
  <2>1. CASE BrokerReceives(w)
    BY <2>1 DEF TypeOK, BrokerReceives, listenerVars
  <2>2. CASE PublishAcked(w)
    BY <2>2 DEF TypeOK, PublishAcked, listenerVars, brokerVars
  <2> QED
    BY <1>7, <2>1, <2>2
<1>8. ASSUME NEW w \in Workers, StartHandler(w) \/ FinishHandler(w) \/ MessageArrives(w)
      PROVE  TasksAreInTheClient'
  <2>1. /\ inbox \in [Workers -> 0 .. MaxInbox] /\ busy \in [Workers -> BOOLEAN]
        /\ MaxInbox \in Nat
    BY BridgeAssumption DEF TypeOK
  <2>2. CASE StartHandler(w)
    BY <2>1, <2>2 DEF StartHandler, publisherVars, brokerVars
  <2>3. CASE FinishHandler(w)
    BY <2>1, <2>3 DEF FinishHandler, publisherVars, brokerVars
  <2>4. CASE MessageArrives(w)
    BY <2>1, <2>4 DEF MessageArrives, publisherVars, brokerVars
  <2> QED
    BY <1>8, <2>2, <2>3, <2>4
<1>9. ASSUME NEW w \in Workers, NoticeLoss(w) PROVE TasksAreInTheClient'
  BY <1>9 DEF TypeOK, NoticeLoss, publisherVars, listenerVars, brokerVars
<1>10. ASSUME NEW w \in Workers, PublishCommand(w) PROVE TasksAreInTheClient'
  BY <1>10 DEF PublishCommand, publisherVars, listenerVars, brokerVars
<1>11. CASE ConnectionLost
  BY <1>11, BridgeAssumption DEF ConnectionLost, bridgeVars, publisherVars, listenerVars
<1>12. CASE UNCHANGED vars
  BY <1>12 DEF vars, bridgeVars, publisherVars, listenerVars, brokerVars
<1> QED
  BY <1>1, <1>2, <1>4, <1>5, <1>6, <1>7, <1>8, <1>9, <1>10, <1>11, <1>12 DEF Next, Progress

(***************************************************************************)
(* Commands: the inductive invariants                                      *)
(***************************************************************************)

\* What w holds it has accepted, and it holds none of it twice.
HeldOnce(w) ==
    /\ \A i \in 1 .. Len(queue[w]) :
          /\ queue[w][i] <= accepted /\ owner[queue[w][i]] = w
          /\ queue[w][i] # inflight[w]
    /\ \A i, j \in 1 .. Len(queue[w]) : i < j => queue[w][i] # queue[w][j]
    /\ inflight[w] # None => inflight[w] <= accepted /\ owner[inflight[w]] = w
    /\ Len(queue[w]) <= accepted
    /\ inflight[w] # None => Len(queue[w]) < accepted

Elements(q) == {q[i] : i \in 1 .. Len(q)}

WasReceived(c) == c \in Elements(received)

\* What the broker got was accepted, and so was what it has yet to acknowledge.
ReceivedOnceAccepted ==
    /\ \A c \in Elements(received) : c <= accepted
    /\ \A w \in Workers : arrived[w] => WasReceived(inflight[w])

\* Every accepted command waits, is in flight, was received or is given up.
Accounted ==
    \A c \in 1 .. accepted :
        \/ \E w \in Workers : c \in Unsettled(w)
        \/ WasReceived(c)
        \/ c \in lost \cup abandoned

\* What was given up was accepted, and nobody has it any more; what was left
\* behind was so by a process that is over.
GivenUp ==
    /\ \A c \in lost \cup abandoned :
          c <= accepted /\ \A w \in Workers : c \notin Unsettled(w)
    /\ \A c \in abandoned : owner[c] \in Workers /\ run[owner[c]] = "stopped"

\* What the broker got of w is older than c.
ReceivedBefore(w, c) == \A d \in Elements(received) : owner[d] = w => d < c

\* All that went ahead of a command of w that was never put back is older.
InOrder(w) ==
    /\ \A j \in 1 .. Len(queue[w]) : requeues[queue[w][j]] = 0 =>
          /\ \A i \in 1 .. j - 1 : queue[w][i] < queue[w][j]
          /\ inflight[w] # None => inflight[w] < queue[w][j]
          /\ ReceivedBefore(w, queue[w][j])
    /\ inflight[w] # None /\ ~arrived[w] /\ requeues[inflight[w]] = 0 =>
          ReceivedBefore(w, inflight[w])

\* w may send c to the broker (again).
StillToSend(w, c) ==
    \/ \E i \in 1 .. Len(queue[w]) : queue[w][i] = c
    \/ inflight[w] = c /\ ~arrived[w]

\* A command that is still to be sent was put back after each time it was received.
Counted(c) ==
    /\ Deliveries(c) <= 1 + requeues[c]
    /\ c > accepted => Deliveries(c) = 0
    /\ \A w \in Workers : StillToSend(w, c) => Deliveries(c) <= requeues[c]

BridgeInv == TypeOK /\ TasksAreInTheClient

CommandInv ==
    /\ \A w \in Workers : HeldOnce(w) /\ InOrder(w)
    /\ ReceivedOnceAccepted /\ Accounted /\ GivenUp /\ OvertakenOnlyIfPutBack
    /\ \A c \in Commands : Counted(c)

(***************************************************************************)
(* What the steps do to the commands                                       *)
(***************************************************************************)

LEMMA CommandsTyped ==
    ASSUME TypeOK
    PROVE  /\ accepted \in Nat /\ None \notin Commands /\ Commands \subseteq Nat
           /\ \A c \in Commands : requeues[c] \in Nat
           /\ Len(received) \in Nat
           /\ \A i \in 1 .. Len(received) : received[i] \in Commands
           /\ \A w \in Workers :
                 /\ inflight[w] \in Commands \cup {None}
                 /\ Len(queue[w]) \in Nat
                 /\ \A i \in 1 .. Len(queue[w]) : queue[w][i] \in Commands
<1>1. Commands \subseteq Nat /\ accepted \in Nat /\ None \notin Commands
  BY BridgeAssumption DEF TypeOK, Commands
<1>2. ASSUME NEW q \in Seq(Commands)
      PROVE  Len(q) \in Nat /\ \A i \in 1 .. Len(q) : q[i] \in Commands
  BY <1>2
<1>3. /\ received \in Seq(Commands) /\ \A c \in Commands : requeues[c] \in Nat
      /\ \A w \in Workers : inflight[w] \in Commands \cup {None} /\ queue[w] \in Seq(Commands)
  BY DEF TypeOK
<1> QED
  BY <1>1, <1>2, <1>3

LEMMA AcceptDoes ==
    ASSUME TypeOK, NEW w \in Workers, PublishCommand(w)
    PROVE  LET c == accepted + 1 IN
           /\ c \in Commands /\ accepted' = c
           /\ queue'[w] = Append(queue[w], c)
           /\ Len(queue'[w]) = Len(queue[w]) + 1
           /\ queue'[w][Len(queue[w]) + 1] = c
           /\ \A i \in 1 .. Len(queue[w]) : queue'[w][i] = queue[w][i]
           /\ \A v \in Workers \ {w} : queue'[v] = queue[v]
           /\ owner'[c] = w /\ \A d \in Commands \ {c} : owner'[d] = owner[d]
           /\ UNCHANGED <<inflight, arrived, received, lost, abandoned, requeues>>
<1>1. accepted + 1 \in Commands /\ accepted' = accepted + 1
  BY BridgeAssumption DEF TypeOK, PublishCommand, Commands
<1>2. queue'[w] = Append(queue[w], accepted + 1) /\ \A v \in Workers \ {w} : queue'[v] = queue[v]
  BY DEF TypeOK, PublishCommand, Enqueued
<1>3. queue[w] \in Seq(Commands)
  BY DEF TypeOK
<1>4. owner'[accepted + 1] = w /\ \A d \in Commands \ {accepted + 1} : owner'[d] = owner[d]
  BY <1>1 DEF TypeOK, PublishCommand
<1> QED
  BY <1>1, <1>2, <1>3, <1>4, QueueTyped DEF PublishCommand, publisherVars, brokerVars,
                                            historyVars, lossVars

LEMMA TakeDoes ==
    ASSUME TypeOK, NEW w \in Workers, TakeCommand(w)
    PROVE  /\ inflight[w] = None /\ Len(queue[w]) >= 1
           /\ inflight'[w] = queue[w][1] /\ queue'[w] = Tail(queue[w])
           /\ Len(queue'[w]) = Len(queue[w]) - 1
           /\ \A i \in 1 .. Len(queue[w]) - 1 : queue'[w][i] = queue[w][i + 1]
           /\ \A v \in Workers \ {w} : queue'[v] = queue[v] /\ inflight'[v] = inflight[v]
           /\ UNCHANGED <<arrived, received, accepted, owner, lost, abandoned, requeues>>
<1>1. queue'[w] = Tail(queue[w]) /\ inflight'[w] = Head(queue[w])
  BY DEF TypeOK, TakeCommand, Popped
<1>2. queue[w] \in Seq(Commands) /\ queue[w] # <<>>
  BY DEF TypeOK, TakeCommand
<1>3. \A v \in Workers \ {w} : queue'[v] = queue[v] /\ inflight'[v] = inflight[v]
  BY DEF TypeOK, TakeCommand
<1>4. /\ UNCHANGED <<arrived, received, accepted, owner, lost, abandoned, requeues>>
      /\ inflight[w] = None
  BY DEF TakeCommand, brokerVars, historyVars, appVars, lossVars
<1> QED
  BY <1>1, <1>2, <1>3, <1>4, HeadLeaves

LEMMA ReceiveDoes ==
    ASSUME TypeOK, NEW w \in Workers, BrokerReceives(w)
    PROVE  /\ inflight[w] \in Commands /\ ~arrived[w] /\ arrived'[w]
           /\ received' = Append(received, inflight[w])
           /\ Len(received') = Len(received) + 1
           /\ received'[Len(received) + 1] = inflight[w]
           /\ \A i \in 1 .. Len(received) : received'[i] = received[i]
           /\ \A v \in Workers \ {w} : arrived'[v] = arrived[v]
           /\ UNCHANGED <<queue, inflight, accepted, owner, lost, abandoned, requeues>>
<1>1. inflight[w] \in Commands /\ ~arrived[w] /\ received' = Append(received, inflight[w])
  BY DEF TypeOK, BrokerReceives
<1>2. arrived'[w] /\ \A v \in Workers \ {w} : arrived'[v] = arrived[v]
  BY DEF TypeOK, BrokerReceives
<1>3. received \in Seq(Commands)
  BY DEF TypeOK
<1> QED
  BY <1>1, <1>2, <1>3, QueueTyped DEF BrokerReceives, historyVars, appVars, lossVars

LEMMA AckDoes ==
    ASSUME TypeOK, NEW w \in Workers, PublishAcked(w)
    PROVE  /\ arrived[w] /\ inflight'[w] = None /\ ~arrived'[w]
           /\ \A v \in Workers \ {w} : inflight'[v] = inflight[v] /\ arrived'[v] = arrived[v]
           /\ UNCHANGED <<queue, received, accepted, owner, lost, abandoned, requeues>>
  BY DEF TypeOK, PublishAcked, brokerVars, historyVars, appVars, lossVars

LEMMA PutBackDoes ==
    ASSUME TypeOK, NEW w \in Workers, PublishFails(w)
    PROVE  LET c == inflight[w] IN
           /\ c \in Commands /\ inflight'[w] = None /\ ~arrived'[w]
           /\ queue'[w] = Append(queue[w], c)
           /\ Len(queue'[w]) = Len(queue[w]) + 1
           /\ queue'[w][Len(queue[w]) + 1] = c
           /\ \A i \in 1 .. Len(queue[w]) : queue'[w][i] = queue[w][i]
           /\ requeues'[c] = requeues[c] + 1
           /\ \A d \in Commands \ {c} : requeues'[d] = requeues[d]
           /\ \A v \in Workers \ {w} : /\ queue'[v] = queue[v] /\ inflight'[v] = inflight[v]
                                       /\ arrived'[v] = arrived[v]
           /\ UNCHANGED <<received, accepted, owner, lost, abandoned>>
<1>1. inflight[w] \in Commands /\ queue'[w] = Append(queue[w], inflight[w])
  BY DEF TypeOK, PublishFails, PutBack
<1>2. queue[w] \in Seq(Commands)
  BY DEF TypeOK
<1>3. /\ requeues'[inflight[w]] = requeues[inflight[w]] + 1
      /\ \A d \in Commands \ {inflight[w]} : requeues'[d] = requeues[d]
  BY <1>1 DEF TypeOK, PublishFails
<1>4. /\ inflight'[w] = None /\ ~arrived'[w]
      /\ \A v \in Workers \ {w} : /\ queue'[v] = queue[v] /\ inflight'[v] = inflight[v]
                                  /\ arrived'[v] = arrived[v]
  BY DEF TypeOK, PublishFails, LeaveClient
<1> QED
  BY <1>1, <1>2, <1>3, <1>4, QueueTyped DEF PublishFails, appVars, lossVars

LEMMA DropDoes ==
    ASSUME TypeOK, NEW w \in Workers, Drops(w)
    PROVE  /\ lost' = lost \cup ({inflight[w]} \ {None})
           /\ inflight'[w] = None /\ ~arrived'[w]
           /\ \A v \in Workers \ {w} : inflight'[v] = inflight[v] /\ arrived'[v] = arrived[v]
           /\ UNCHANGED <<queue, received, accepted, owner, abandoned, requeues>>
  BY DEF TypeOK, Drops

LEMMA EndDoes ==
    ASSUME TypeOK, NEW w \in Workers, Ends(w)
    PROVE  /\ abandoned' = abandoned \cup Unsettled(w) /\ run'[w] = "stopped"
           /\ inflight'[w] = None /\ ~arrived'[w] /\ Len(queue'[w]) = 0
           /\ \A v \in Workers \ {w} : /\ queue'[v] = queue[v] /\ inflight'[v] = inflight[v]
                                       /\ arrived'[v] = arrived[v]
           /\ UNCHANGED <<received, accepted, owner, lost, requeues>>
  BY DEF TypeOK, Ends

(***************************************************************************)
(* Each command is held once                                               *)
(***************************************************************************)

\* What v holds is disturbed by nothing that happens elsewhere.
LEMMA HeldElsewhere ==
    ASSUME BridgeInv, NEW v \in Workers, HeldOnce(v),
           queue'[v] = queue[v], inflight'[v] = inflight[v],
           accepted' \in Nat, accepted <= accepted',
           \A c \in Commands : c <= accepted => owner'[c] = owner[c]
    PROVE  HeldOnce(v)'
<1>1. /\ accepted \in Nat /\ None \notin Commands /\ Commands \subseteq Nat
      /\ inflight[v] \in Commands \cup {None}
      /\ Len(queue[v]) \in Nat
      /\ \A i \in 1 .. Len(queue[v]) : queue[v][i] \in Commands
  BY CommandsTyped DEF BridgeInv
<1>2. ASSUME NEW i \in 1 .. Len(queue[v])
      PROVE  /\ queue'[v][i] <= accepted' /\ owner'[queue'[v][i]] = v
             /\ queue'[v][i] # inflight'[v]
  <2>1. /\ queue[v][i] \in Commands \cap Nat /\ queue[v][i] <= accepted /\ owner[queue[v][i]] = v
        /\ queue[v][i] # inflight[v]
    BY <1>1 DEF HeldOnce
  <2>2. owner'[queue[v][i]] = v
    BY <2>1
  <2> QED
    BY <1>1, <2>1, <2>2
<1>3. ASSUME inflight'[v] # None
      PROVE  inflight'[v] <= accepted' /\ owner'[inflight'[v]] = v
  <2>1. /\ inflight[v] \in Commands \cap Nat /\ inflight[v] <= accepted
        /\ owner[inflight[v]] = v
    BY <1>1, <1>3 DEF HeldOnce
  <2>2. owner'[inflight[v]] = v
    BY <2>1
  <2>3. inflight[v] <= accepted'
    BY <1>1, <2>1
  <2> QED
    BY <1>1, <2>2, <2>3
<1>4. /\ Len(queue'[v]) <= accepted'
      /\ inflight'[v] # None => Len(queue'[v]) < accepted'
  BY <1>1 DEF HeldOnce
<1> QED
  BY <1>1, <1>2, <1>3, <1>4 DEF HeldOnce

LEMMA HeldStep ==
    ASSUME BridgeInv, CommandInv, [Next]_vars, NEW v \in Workers
    PROVE  HeldOnce(v)'
<1>1. TypeOK /\ HeldOnce(v)
  BY DEF BridgeInv, CommandInv
<1>2. /\ accepted \in Nat /\ None \notin Commands /\ Commands \subseteq Nat
      /\ inflight[v] \in Commands \cup {None}
      /\ Len(queue[v]) \in Nat
      /\ \A i \in 1 .. Len(queue[v]) : queue[v][i] \in Commands
  BY <1>1, CommandsTyped
<1>3. ASSUME NEW w \in Workers, PublishCommand(w) PROVE HeldOnce(v)'
  <2> DEFINE c == accepted + 1
  <2>1. /\ accepted' = c /\ c \in Commands /\ UNCHANGED inflight /\ owner'[c] = w
        /\ \A d \in Commands : d <= accepted => owner'[d] = owner[d]
    BY <1>1, <1>2, <1>3, AcceptDoes
  <2>2. CASE v = w
    <3>1. /\ Len(queue'[v]) = Len(queue[v]) + 1
          /\ queue'[v][Len(queue[v]) + 1] = c
          /\ \A i \in 1 .. Len(queue[v]) : queue'[v][i] = queue[v][i]
      BY <1>1, <1>3, <2>2, AcceptDoes
    <3>2. ASSUME NEW i \in 1 .. Len(queue'[v])
          PROVE  /\ queue'[v][i] <= accepted' /\ owner'[queue'[v][i]] = v
                 /\ queue'[v][i] # inflight'[v]
                 /\ \A j \in 1 .. Len(queue'[v]) : i < j => queue'[v][i] # queue'[v][j]
      <4>1. CASE i \in 1 .. Len(queue[v])
        <5>1. /\ queue[v][i] \in Commands \cap Nat /\ queue[v][i] <= accepted
              /\ owner[queue[v][i]] = v /\ queue[v][i] # inflight[v]
              /\ \A j \in 1 .. Len(queue[v]) : i < j => queue[v][i] # queue[v][j]
          BY <1>1, <1>2, <4>1 DEF HeldOnce
        <5>2. owner'[queue[v][i]] = v
          BY <2>1, <5>1
        <5>3. \A j \in 1 .. Len(queue'[v]) : i < j => queue'[v][i] # queue'[v][j]
          <6>1. ASSUME NEW j \in 1 .. Len(queue'[v]), i < j
                PROVE  queue'[v][i] # queue'[v][j]
            <7>1. CASE j \in 1 .. Len(queue[v])
              BY <3>1, <4>1, <5>1, <6>1, <7>1
            <7>2. CASE j = Len(queue[v]) + 1
              BY <1>2, <3>1, <4>1, <5>1, <7>2
            <7> QED
              BY <1>2, <3>1, <7>1, <7>2
          <6> QED
            BY <6>1
        <5> QED
          BY <1>2, <2>1, <3>1, <4>1, <5>1, <5>2, <5>3
      <4>2. CASE i = Len(queue[v]) + 1
        <5>1. inflight[v] # None => inflight[v] \in Nat /\ inflight[v] <= accepted
          BY <1>1, <1>2 DEF HeldOnce
        <5> QED
          BY <1>2, <2>1, <2>2, <3>1, <4>2, <5>1
      <4> QED
        BY <1>2, <3>1, <4>1, <4>2
    <3>3. ASSUME inflight'[v] # None
          PROVE  inflight'[v] <= accepted' /\ owner'[inflight'[v]] = v
      <4>1. /\ inflight[v] \in Commands \cap Nat /\ inflight[v] <= accepted
            /\ owner[inflight[v]] = v
        BY <1>1, <1>2, <2>1, <3>3 DEF HeldOnce
      <4>2. owner'[inflight[v]] = v
        BY <2>1, <4>1
      <4> QED
        BY <1>2, <2>1, <4>1, <4>2
    <3>4. /\ Len(queue'[v]) <= accepted'
          /\ inflight'[v] # None => Len(queue'[v]) < accepted'
      BY <1>1, <1>2, <2>1, <3>1 DEF HeldOnce
    <3> QED
      BY <3>2, <3>3, <3>4 DEF HeldOnce
  <2>3. CASE v # w
    <3>1. queue'[v] = queue[v]
      BY <1>1, <1>3, <2>3, AcceptDoes
    <3> QED
      BY <1>1, <1>2, <2>1, <3>1, HeldElsewhere
  <2> QED
    BY <2>2, <2>3
<1>4. ASSUME NEW w \in Workers, TakeCommand(w) PROVE HeldOnce(v)'
  <2>1. UNCHANGED <<accepted, owner>>
    BY <1>1, <1>4, TakeDoes
  <2>2. CASE v = w
    <3>1. /\ inflight[v] = None /\ Len(queue[v]) >= 1
          /\ inflight'[v] = queue[v][1]
          /\ Len(queue'[v]) = Len(queue[v]) - 1
          /\ \A i \in 1 .. Len(queue[v]) - 1 : queue'[v][i] = queue[v][i + 1]
      BY <1>1, <1>4, <2>2, TakeDoes
    <3> QED
      BY <1>1, <1>2, <2>1, <3>1 DEF HeldOnce
  <2>3. CASE v # w
    BY <1>1, <1>2, <1>4, <2>1, <2>3, TakeDoes, HeldElsewhere
  <2> QED
    BY <2>2, <2>3
<1>5. ASSUME NEW w \in Workers, BrokerReceives(w) PROVE HeldOnce(v)'
  <2>1. UNCHANGED <<queue, inflight, accepted, owner>>
    BY <1>1, <1>5, ReceiveDoes
  <2> QED
    BY <1>1, <1>2, <2>1, HeldElsewhere
<1>6. ASSUME NEW w \in Workers, PublishFails(w) PROVE HeldOnce(v)'
  <2>1. UNCHANGED <<accepted, owner>>
    BY <1>1, <1>6, PutBackDoes
  <2>2. CASE v = w
    <3>1. /\ inflight[v] \in Commands /\ inflight'[v] = None
          /\ Len(queue'[v]) = Len(queue[v]) + 1
          /\ queue'[v][Len(queue[v]) + 1] = inflight[v]
          /\ \A i \in 1 .. Len(queue[v]) : queue'[v][i] = queue[v][i]
      BY <1>1, <1>6, <2>2, PutBackDoes
    <3>2. ASSUME NEW i \in 1 .. Len(queue'[v])
          PROVE  /\ queue'[v][i] <= accepted' /\ owner'[queue'[v][i]] = v
                 /\ queue'[v][i] # inflight'[v]
                 /\ \A j \in 1 .. Len(queue'[v]) : i < j => queue'[v][i] # queue'[v][j]
      <4>1. CASE i \in 1 .. Len(queue[v])
        BY <1>1, <1>2, <2>1, <3>1, <4>1 DEF HeldOnce
      <4>2. CASE i = Len(queue[v]) + 1
        BY <1>1, <1>2, <2>1, <3>1, <4>2 DEF HeldOnce
      <4> QED
        BY <1>2, <3>1, <4>1, <4>2
    <3>3. Len(queue'[v]) <= accepted'
      BY <1>1, <1>2, <2>1, <3>1 DEF HeldOnce
    <3> QED
      BY <3>1, <3>2, <3>3 DEF HeldOnce
  <2>3. CASE v # w
    BY <1>1, <1>2, <1>6, <2>1, <2>3, PutBackDoes, HeldElsewhere
  <2> QED
    BY <2>2, <2>3
<1>7. ASSUME NEW w \in Workers, PublishAcked(w) \/ Drops(w) PROVE HeldOnce(v)'
  <2>1. /\ UNCHANGED <<queue, accepted, owner>>
        /\ inflight'[v] = inflight[v] \/ inflight'[v] = None
    BY <1>1, <1>7, AckDoes, DropDoes
  <2>2. CASE inflight'[v] = None
    BY <1>1, <1>2, <2>1, <2>2 DEF HeldOnce
  <2> QED
    BY <1>1, <1>2, <2>1, <2>2, HeldElsewhere
<1>8. ASSUME NEW w \in Workers, Ends(w) PROVE HeldOnce(v)'
  <2>1. UNCHANGED <<accepted, owner>>
    BY <1>1, <1>8, EndDoes
  <2>2. CASE v = w
    <3>1. Len(queue'[v]) = 0 /\ inflight'[v] = None
      BY <1>1, <1>8, <2>2, EndDoes
    <3> QED
      BY <1>2, <2>1, <3>1 DEF HeldOnce
  <2>3. CASE v # w
    BY <1>1, <1>2, <1>8, <2>1, <2>3, EndDoes, HeldElsewhere
  <2> QED
    BY <2>2, <2>3
<1>9. CASE UNCHANGED commandVars
  BY <1>1, <1>2, <1>9, HeldElsewhere DEF commandVars
<1> QED
  BY <1>3, <1>4, <1>5, <1>6, <1>7, <1>8, <1>9, CommandSteps DEF BridgeInv

(***************************************************************************)
(* The sets of commands that wait, and that the broker got                 *)
(***************************************************************************)

LEMMA ElementsAfter ==
    ASSUME NEW S, NEW q \in Seq(S), NEW c \in S
    PROVE  Elements(Append(q, c)) = Elements(q) \cup {c}
<1>1. ASSUME NEW x \in Elements(Append(q, c)) PROVE x \in Elements(q) \cup {c}
  <2>1. PICK i \in 1 .. Len(q) + 1 : x = Append(q, c)[i]
    BY <1>1, QueueTyped DEF Elements
  <2>2. i \in 1 .. Len(q) \/ i = Len(q) + 1
    OBVIOUS
  <2> QED
    BY <2>1, <2>2, QueueTyped DEF Elements
<1>2. ASSUME NEW x \in Elements(q) \cup {c} PROVE x \in Elements(Append(q, c))
  <2>1. CASE x = c
    <3>1. Len(q) + 1 \in 1 .. Len(Append(q, c))
      BY QueueTyped
    <3> QED
      BY <2>1, <3>1, QueueTyped DEF Elements
  <2>2. CASE x \in Elements(q)
    <3>1. PICK i \in 1 .. Len(q) : x = q[i]
      BY <2>2 DEF Elements
    <3>2. i \in 1 .. Len(Append(q, c)) /\ Append(q, c)[i] = x
      BY <3>1, QueueTyped
    <3> QED
      BY <3>2 DEF Elements
  <2> QED
    BY <1>2, <2>1, <2>2
<1> QED
  BY <1>1, <1>2

LEMMA ElementsBefore ==
    ASSUME NEW S, NEW q \in Seq(S), q # <<>>
    PROVE  Elements(q) = Elements(Tail(q)) \cup {q[1]}
<1>1. ASSUME NEW x \in Elements(q) PROVE x \in Elements(Tail(q)) \cup {q[1]}
  <2>1. PICK i \in 1 .. Len(q) : x = q[i]
    BY <1>1 DEF Elements
  <2>2. CASE i # 1
    <3>1. i - 1 \in 1 .. Len(Tail(q)) /\ Tail(q)[i - 1] = x
      BY <2>1, <2>2, HeadLeaves
    <3> QED
      BY <3>1 DEF Elements
  <2> QED
    BY <2>1, <2>2
<1>2. ASSUME NEW x \in Elements(Tail(q)) \cup {q[1]} PROVE x \in Elements(q)
  <2>1. CASE x = q[1]
    <3>1. 1 \in 1 .. Len(q)
      BY HeadLeaves
    <3> QED
      BY <2>1, <3>1 DEF Elements
  <2>2. CASE x \in Elements(Tail(q))
    <3>1. PICK i \in 1 .. Len(q) - 1 : x = Tail(q)[i]
      BY <2>2, HeadLeaves DEF Elements
    <3>2. i + 1 \in 1 .. Len(q) /\ q[i + 1] = x
      BY <3>1, HeadLeaves
    <3> QED
      BY <3>2 DEF Elements
  <2> QED
    BY <1>2, <2>1, <2>2
<1> QED
  BY <1>1, <1>2

\* What a step leaves waiting, if it changes w's queue or publisher alone.
LEMMA UnsettledOf ==
    /\ \A v : Unsettled(v) = Elements(queue[v]) \cup ({inflight[v]} \ {None})
    /\ \A v : Unsettled(v)' = Elements(queue'[v]) \cup ({inflight'[v]} \ {None})
    /\ Elements(received)' = Elements(received')
  BY DEF Unsettled, Elements

LEMMA AcceptWaits ==
    ASSUME TypeOK, NEW w \in Workers, PublishCommand(w)
    PROVE  /\ Unsettled(w)' = Unsettled(w) \cup {accepted + 1}
           /\ \A v \in Workers \ {w} : Unsettled(v)' = Unsettled(v)
           /\ Elements(received)' = Elements(received)
<1>1. queue[w] \in Seq(Commands) /\ accepted + 1 \in Commands
  BY AcceptDoes DEF TypeOK
<1>2. /\ queue'[w] = Append(queue[w], accepted + 1)
      /\ UNCHANGED <<inflight, received>>
      /\ \A v \in Workers \ {w} : queue'[v] = queue[v]
  BY AcceptDoes
<1>3. Elements(queue'[w]) = Elements(queue[w]) \cup {accepted + 1}
  BY <1>1, <1>2, ElementsAfter
<1> QED
  BY <1>2, <1>3, UnsettledOf

LEMMA TakeWaits ==
    ASSUME TypeOK, NEW w \in Workers, TakeCommand(w)
    PROVE  /\ \A v \in Workers : Unsettled(v)' = Unsettled(v)
           /\ Elements(received)' = Elements(received)
<1>1. queue[w] \in Seq(Commands) /\ queue[w] # <<>> /\ None \notin Commands
  BY CommandsTyped DEF TypeOK, TakeCommand
<1>2. /\ inflight[w] = None
      /\ inflight'[w] = queue[w][1] /\ queue'[w] = Tail(queue[w]) /\ UNCHANGED received
      /\ \A v \in Workers \ {w} : queue'[v] = queue[v] /\ inflight'[v] = inflight[v]
  BY TakeDoes
<1>3. Elements(queue[w]) = Elements(queue'[w]) \cup {inflight'[w]} /\ inflight'[w] # None
  BY <1>1, <1>2, ElementsBefore, HeadLeaves
<1>4. Unsettled(w)' = Unsettled(w)
  BY <1>2, <1>3, UnsettledOf
<1>5. \A v \in Workers \ {w} : Unsettled(v)' = Unsettled(v)
  BY <1>2, UnsettledOf
<1> QED
  BY <1>2, <1>4, <1>5, UnsettledOf

LEMMA PutBackWaits ==
    ASSUME TypeOK, NEW w \in Workers, PublishFails(w)
    PROVE  /\ \A v \in Workers : Unsettled(v)' = Unsettled(v)
           /\ Elements(received)' = Elements(received)
<1>1. queue[w] \in Seq(Commands) /\ None \notin Commands
  BY CommandsTyped DEF TypeOK
<1>2. /\ inflight[w] \in Commands
      /\ inflight'[w] = None /\ queue'[w] = Append(queue[w], inflight[w]) /\ UNCHANGED received
      /\ \A v \in Workers \ {w} : queue'[v] = queue[v] /\ inflight'[v] = inflight[v]
  BY PutBackDoes
<1>3. Elements(queue'[w]) = Elements(queue[w]) \cup {inflight[w]}
  BY <1>1, <1>2, ElementsAfter
<1>4. Unsettled(w)' = Unsettled(w)
  BY <1>1, <1>2, <1>3, UnsettledOf
<1>5. \A v \in Workers \ {w} : Unsettled(v)' = Unsettled(v)
  BY <1>2, UnsettledOf
<1> QED
  BY <1>2, <1>4, <1>5, UnsettledOf

LEMMA ReceiveWaits ==
    ASSUME TypeOK, NEW w \in Workers, BrokerReceives(w)
    PROVE  /\ \A v \in Workers : Unsettled(v)' = Unsettled(v)
           /\ Elements(received)' = Elements(received) \cup {inflight[w]}
           /\ inflight[w] \in Unsettled(w)
<1>1. /\ inflight[w] \in Commands /\ received' = Append(received, inflight[w])
      /\ UNCHANGED <<queue, inflight>>
      /\ received \in Seq(Commands) /\ None \notin Commands
  BY ReceiveDoes, CommandsTyped DEF TypeOK
<1>2. Elements(received') = Elements(received) \cup {inflight[w]}
  BY <1>1, ElementsAfter
<1> QED
  BY <1>1, <1>2, UnsettledOf

LEMMA SettleWaits ==
    ASSUME TypeOK, NEW w \in Workers, HeldOnce(w), PublishAcked(w) \/ Drops(w)
    PROVE  /\ Unsettled(w)' = Unsettled(w) \ {inflight[w]}
           /\ \A v \in Workers \ {w} : Unsettled(v)' = Unsettled(v)
           /\ Elements(received)' = Elements(received)
<1>1. inflight[w] \notin Elements(queue[w])
  BY DEF HeldOnce, Elements
<1>2. /\ UNCHANGED <<queue, received>> /\ inflight'[w] = None
      /\ \A v \in Workers \ {w} : inflight'[v] = inflight[v]
  BY AckDoes, DropDoes
<1> QED
  BY <1>1, <1>2, UnsettledOf

LEMMA EndWaits ==
    ASSUME TypeOK, NEW w \in Workers, Ends(w)
    PROVE  /\ Unsettled(w)' = {}
           /\ \A v \in Workers \ {w} : Unsettled(v)' = Unsettled(v)
           /\ Elements(received)' = Elements(received)
<1>1. /\ Len(queue'[w]) = 0 /\ inflight'[w] = None /\ UNCHANGED received
      /\ \A v \in Workers \ {w} : queue'[v] = queue[v] /\ inflight'[v] = inflight[v]
  BY EndDoes
<1>2. Elements(queue'[w]) = {}
  BY <1>1 DEF Elements
<1> QED
  BY <1>1, <1>2, UnsettledOf

(***************************************************************************)
(* Every command is accounted for                                          *)
(***************************************************************************)

LEMMA ElementsTyped ==
    ASSUME TypeOK
    PROVE  /\ Elements(received) \subseteq Commands
           /\ \A w \in Workers : Unsettled(w) \subseteq Commands
  BY CommandsTyped DEF Elements, Unsettled

\* What w has, it accepted, so that nobody else has it.
LEMMA UnsettledIsOwn ==
    ASSUME TypeOK, NEW w \in Workers, HeldOnce(w), NEW c \in Unsettled(w)
    PROVE  c <= accepted /\ owner[c] = w
  BY DEF Unsettled, HeldOnce

LEMMA ReceivedStep ==
    ASSUME BridgeInv, CommandInv, [Next]_vars
    PROVE  ReceivedOnceAccepted'
<1>1. /\ TypeOK /\ accepted \in Nat /\ Elements(received) \subseteq Nat
      /\ None \notin Commands
      /\ \A c \in Elements(received) : c <= accepted
      /\ \A w \in Workers : arrived[w] => inflight[w] \in Elements(received)
  BY CommandsTyped, ElementsTyped
     DEF BridgeInv, CommandInv, ReceivedOnceAccepted, WasReceived
<1>2. /\ ReceivedOnceAccepted' <=>
            /\ \A c \in Elements(received)' : c <= accepted'
            /\ \A w \in Workers : arrived'[w] => inflight'[w] \in Elements(received)'
  BY DEF ReceivedOnceAccepted, WasReceived
<1>3. ASSUME NEW w \in Workers, PublishCommand(w) PROVE ReceivedOnceAccepted'
  <2>1. accepted' = accepted + 1 /\ UNCHANGED <<inflight, arrived>>
    BY <1>1, <1>3, AcceptDoes
  <2>2. Elements(received)' = Elements(received)
    BY <1>1, <1>3, AcceptWaits
  <2> QED
    BY <1>1, <1>2, <2>1, <2>2
<1>4. ASSUME NEW w \in Workers, TakeCommand(w) PROVE ReceivedOnceAccepted'
  <2>1. /\ UNCHANGED <<accepted, arrived>> /\ ~arrived[w]
        /\ \A v \in Workers \ {w} : inflight'[v] = inflight[v]
    BY <1>1, <1>4, TakeDoes DEF BridgeInv, TasksAreInTheClient
  <2>2. Elements(received)' = Elements(received)
    BY <1>1, <1>4, TakeWaits
  <2> QED
    BY <1>1, <1>2, <2>1, <2>2
<1>5. ASSUME NEW w \in Workers, BrokerReceives(w) PROVE ReceivedOnceAccepted'
  <2>1. /\ UNCHANGED <<accepted, inflight>> /\ inflight[w] \in Commands
        /\ \A v \in Workers \ {w} : arrived'[v] = arrived[v]
    BY <1>1, <1>5, ReceiveDoes
  <2>2. Elements(received)' = Elements(received) \cup {inflight[w]}
    BY <1>1, <1>5, ReceiveWaits
  <2>3. inflight[w] <= accepted
    BY <1>1, <2>1 DEF CommandInv, HeldOnce
  <2> QED
    BY <1>1, <1>2, <2>1, <2>2, <2>3
<1>6. ASSUME NEW w \in Workers, PublishAcked(w) \/ PublishFails(w) \/ Drops(w) \/ Ends(w)
      PROVE  ReceivedOnceAccepted'
  <2>1. /\ UNCHANGED accepted /\ ~arrived'[w]
        /\ \A v \in Workers \ {w} : inflight'[v] = inflight[v] /\ arrived'[v] = arrived[v]
    BY <1>1, <1>6, AckDoes, PutBackDoes, DropDoes, EndDoes
  <2>2. Elements(received)' = Elements(received)
    BY <1>1, <1>6, PutBackWaits, SettleWaits, EndWaits DEF CommandInv
  <2> QED
    BY <1>1, <1>2, <2>1, <2>2
<1>7. CASE UNCHANGED commandVars
  BY <1>1, <1>2, <1>7 DEF commandVars, Elements
<1> QED
  BY <1>3, <1>4, <1>5, <1>6, <1>7, CommandSteps DEF BridgeInv

LEMMA AccountedStep ==
    ASSUME BridgeInv, CommandInv, [Next]_vars
    PROVE  Accounted'
<1>1. /\ TypeOK /\ accepted \in Nat /\ None \notin Commands
      /\ \A v \in Workers : HeldOnce(v)
      /\ \A c \in 1 .. accepted :
            \/ \E w \in Workers : c \in Unsettled(w)
            \/ c \in Elements(received) \/ c \in lost \cup abandoned
  BY CommandsTyped DEF BridgeInv, CommandInv, Accounted, WasReceived
<1>2. Accounted' <=>
        \A c \in 1 .. accepted' :
          \/ \E w \in Workers : c \in Unsettled(w)'
          \/ c \in Elements(received)' \/ c \in lost' \cup abandoned'
  BY DEF Accounted, WasReceived
<1>3. ASSUME NEW w \in Workers, PublishCommand(w) PROVE Accounted'
  <2>1. accepted' = accepted + 1 /\ UNCHANGED <<lost, abandoned>>
    BY <1>1, <1>3, AcceptDoes
  <2>2. \A c \in 1 .. accepted' : c \in 1 .. accepted \/ c = accepted + 1
    BY <1>1, <2>1
  <2> QED
    BY <1>1, <1>2, <1>3, <2>1, <2>2, AcceptWaits
<1>4. ASSUME NEW w \in Workers, TakeCommand(w) \/ PublishFails(w) PROVE Accounted'
  <2>1. UNCHANGED <<accepted, lost, abandoned>>
    BY <1>1, <1>4, TakeDoes, PutBackDoes
  <2>2. /\ \A v \in Workers : Unsettled(v)' = Unsettled(v)
        /\ Elements(received)' = Elements(received)
    BY <1>1, <1>4, TakeWaits, PutBackWaits
  <2> QED
    BY <1>1, <1>2, <2>1, <2>2
<1>5. ASSUME NEW w \in Workers, BrokerReceives(w) PROVE Accounted'
  BY <1>1, <1>2, <1>5, ReceiveDoes, ReceiveWaits
<1>6. ASSUME NEW w \in Workers, PublishAcked(w) PROVE Accounted'
  <2>1. UNCHANGED <<accepted, lost, abandoned>> /\ inflight[w] \in Elements(received)
    BY <1>1, <1>6, AckDoes DEF CommandInv, ReceivedOnceAccepted, WasReceived
  <2>2. /\ Unsettled(w)' = Unsettled(w) \ {inflight[w]}
        /\ \A v \in Workers \ {w} : Unsettled(v)' = Unsettled(v)
        /\ Elements(received)' = Elements(received)
    BY <1>1, <1>6, SettleWaits
  <2>3. ASSUME NEW c, NEW v \in Workers, c \in Unsettled(v)
        PROVE  c \in Unsettled(v)' \/ c \in Elements(received)
    BY <2>1, <2>2, <2>3
  <2> QED
    BY <1>1, <1>2, <2>1, <2>2, <2>3
<1>7. ASSUME NEW w \in Workers, Drops(w) PROVE Accounted'
  <2>1. UNCHANGED <<accepted, abandoned>> /\ lost' = lost \cup ({inflight[w]} \ {None})
    BY <1>1, <1>7, DropDoes
  <2>2. /\ Unsettled(w)' = Unsettled(w) \ {inflight[w]}
        /\ \A v \in Workers \ {w} : Unsettled(v)' = Unsettled(v)
        /\ Elements(received)' = Elements(received)
    BY <1>1, <1>7, SettleWaits
  <2>3. ASSUME NEW c, NEW v \in Workers, c \in Unsettled(v)
        PROVE  c \in Unsettled(v)' \/ c \in lost'
    BY <1>1, <2>1, <2>2, <2>3, ElementsTyped
  <2> QED
    BY <1>1, <1>2, <2>1, <2>2, <2>3
<1>8. ASSUME NEW w \in Workers, Ends(w) PROVE Accounted'
  <2>1. UNCHANGED <<accepted, lost>> /\ abandoned' = abandoned \cup Unsettled(w)
    BY <1>1, <1>8, EndDoes
  <2>2. /\ \A v \in Workers \ {w} : Unsettled(v)' = Unsettled(v)
        /\ Elements(received)' = Elements(received)
    BY <1>1, <1>8, EndWaits
  <2> QED
    BY <1>1, <1>2, <2>1, <2>2
<1>9. CASE UNCHANGED commandVars
  <2>1. /\ \A v : Unsettled(v)' = Unsettled(v)
        /\ Elements(received)' = Elements(received) /\ UNCHANGED <<accepted, lost, abandoned>>
    BY <1>9 DEF commandVars, Elements, Unsettled
  <2> QED
    BY <1>1, <1>2, <2>1
<1> QED
  BY <1>3, <1>4, <1>5, <1>6, <1>7, <1>8, <1>9, CommandSteps DEF BridgeInv

\* A process that is over is never started again.
LEMMA EndIsFinal ==
    ASSUME TypeOK, TasksAreInTheClient, [Next]_vars, NEW v \in Workers, run[v] = "stopped"
    PROVE  run'[v] = "stopped"
<1>1. run \in [Workers -> RunStates]
  BY DEF TypeOK
<1>2. ASSUME NEW w \in Workers, run[w] # "stopped", NEW state, run' = [run EXCEPT ![w] = state]
      PROVE  run'[v] = "stopped"
  BY <1>1, <1>2
<1>3. ASSUME NEW w \in Workers,
             \/ Connect(w) \/ Subscribe(w) \/ WakeUp(w) \/ ConnectFails(w) \/ SubscribeFails(w)
      PROVE  run'[v] = "stopped"
  BY <1>2, <1>3 DEF Connect, Subscribe, WakeUp, ConnectFails, SubscribeFails, BackOff
<1>4. ASSUME NEW w \in Workers, PublishFails(w) \/ ListenerFails(w) \/ Stop(w) \/ Exit(w)
      PROVE  run'[v] = "stopped"
  <2>1. run[w] # "stopped"
    BY <1>4 DEF PublishFails, ListenerFails, Stop, Exit, TasksAreInTheClient
  <2>2. \E state : run' = [run EXCEPT ![w] = state]
    BY <1>4 DEF PublishFails, ListenerFails, Stop, Exit, LoopGoesOn, ProcessEnds, BackOff
  <2> QED
    BY <1>2, <2>1, <2>2
<1>5. ASSUME NEW w \in Workers,
             \/ TakeCommand(w) \/ BrokerReceives(w) \/ PublishAcked(w) \/ StartHandler(w)
             \/ FinishHandler(w) \/ NoticeLoss(w) \/ PublishCommand(w) \/ MessageArrives(w)
      PROVE  UNCHANGED run
  BY <1>5 DEF TakeCommand, BrokerReceives, PublishAcked, StartHandler, FinishHandler,
              NoticeLoss, PublishCommand, MessageArrives
<1>6. CASE ConnectionLost \/ UNCHANGED vars
  BY <1>6 DEF ConnectionLost, vars, bridgeVars
<1> QED
  BY <1>3, <1>4, <1>5, <1>6 DEF Next, Progress

LEMMA GivenUpStep ==
    ASSUME BridgeInv, CommandInv, [Next]_vars
    PROVE  GivenUp'
<1>1. /\ TypeOK /\ TasksAreInTheClient /\ accepted \in Nat /\ None \notin Commands
      /\ lost \cup abandoned \subseteq Commands /\ Commands \subseteq Nat
      /\ \A v \in Workers : HeldOnce(v) /\ Unsettled(v) \subseteq Commands
      /\ \A v \in Workers : \A c \in Unsettled(v) : c <= accepted /\ owner[c] = v
  BY CommandsTyped, ElementsTyped, UnsettledIsOwn DEF BridgeInv, CommandInv, TypeOK
<1>2. /\ \A c \in lost \cup abandoned :
            c <= accepted /\ \A w \in Workers : c \notin Unsettled(w)
      /\ \A c \in abandoned : owner[c] \in Workers /\ run[owner[c]] = "stopped"
  BY DEF CommandInv, GivenUp
<1>3. \A v \in Workers : run[v] = "stopped" => run'[v] = "stopped"
  BY <1>1, EndIsFinal
<1>4. ASSUME UNCHANGED <<accepted, owner, lost, abandoned>>,
             \A v \in Workers : Unsettled(v)' \subseteq Unsettled(v)
      PROVE  GivenUp'
  BY <1>2, <1>3, <1>4 DEF GivenUp
<1>5. ASSUME NEW w \in Workers, PublishCommand(w) PROVE GivenUp'
  <2>1. /\ accepted' = accepted + 1 /\ UNCHANGED <<lost, abandoned>>
        /\ \A d \in Commands \ {accepted + 1} : owner'[d] = owner[d]
    BY <1>1, <1>5, AcceptDoes
  <2>2. \A v \in Workers : Unsettled(v)' \subseteq Unsettled(v) \cup {accepted + 1}
    BY <1>1, <1>5, AcceptWaits
  <2>3. ASSUME NEW c \in lost \cup abandoned
        PROVE  c # accepted + 1 /\ c <= accepted + 1 /\ c \in Commands
    <3>1. c \in Commands /\ c \in Nat /\ c <= accepted
      BY <1>1, <1>2
    <3> QED
      BY <1>1, <3>1
  <2>4. \A c \in lost' \cup abandoned' :
           c <= accepted' /\ \A v \in Workers : c \notin Unsettled(v)'
    BY <1>2, <2>1, <2>2, <2>3
  <2>5. \A c \in abandoned' : owner'[c] \in Workers /\ run'[owner'[c]] = "stopped"
    BY <1>2, <1>3, <2>1, <2>3
  <2> QED
    BY <2>4, <2>5 DEF GivenUp
<1>6. ASSUME NEW w \in Workers, TakeCommand(w) \/ BrokerReceives(w) \/ PublishFails(w)
      PROVE  GivenUp'
  <2>1. UNCHANGED <<accepted, owner, lost, abandoned>>
    BY <1>1, <1>6, TakeDoes, ReceiveDoes, PutBackDoes
  <2>2. \A v \in Workers : Unsettled(v)' = Unsettled(v)
    BY <1>1, <1>6, TakeWaits, ReceiveWaits, PutBackWaits
  <2> QED
    BY <1>4, <2>1, <2>2
<1>7. ASSUME NEW w \in Workers, PublishAcked(w) PROVE GivenUp'
  <2>1. UNCHANGED <<accepted, owner, lost, abandoned>>
    BY <1>1, <1>7, AckDoes
  <2>2. \A v \in Workers : Unsettled(v)' \subseteq Unsettled(v)
    BY <1>1, <1>7, SettleWaits
  <2> QED
    BY <1>4, <2>1, <2>2
<1>8. ASSUME NEW w \in Workers, NEW C \in SUBSET Unsettled(w),
             lost' \cup abandoned' = lost \cup abandoned \cup C,
             Unsettled(w)' = Unsettled(w) \ C,
             \A v \in Workers \ {w} : Unsettled(v)' = Unsettled(v),
             UNCHANGED <<accepted, owner>>,
             \A c \in abandoned' \ abandoned : c \in C /\ run'[w] = "stopped"
      PROVE  GivenUp'
  <2>1. \A c \in C : /\ c <= accepted /\ owner[c] = w
                     /\ \A v \in Workers : c \notin Unsettled(v)'
    BY <1>1, <1>8
  <2>2. \A c \in lost' \cup abandoned' :
           c <= accepted' /\ \A v \in Workers : c \notin Unsettled(v)'
    BY <1>2, <1>8, <2>1
  <2>3. \A c \in abandoned' : owner'[c] \in Workers /\ run'[owner'[c]] = "stopped"
    BY <1>2, <1>3, <1>8, <2>1
  <2> QED
    BY <2>2, <2>3 DEF GivenUp
<1>9. ASSUME NEW w \in Workers, Drops(w) PROVE GivenUp'
  <2> DEFINE C == {inflight[w]} \ {None}
  <2>1. lost' = lost \cup C /\ UNCHANGED <<accepted, owner, abandoned>>
    BY <1>1, <1>9, DropDoes
  <2>2. /\ Unsettled(w)' = Unsettled(w) \ {inflight[w]}
        /\ \A v \in Workers \ {w} : Unsettled(v)' = Unsettled(v)
    BY <1>1, <1>9, SettleWaits
  <2>3. C \subseteq Unsettled(w)
    BY DEF Unsettled
  <2>4. Unsettled(w)' = Unsettled(w) \ C
    BY <1>1, <2>2
  <2> HIDE DEF C
  <2> QED
    BY <1>8, <2>1, <2>2, <2>3, <2>4
<1>10. ASSUME NEW w \in Workers, Ends(w) PROVE GivenUp'
  <2>1. /\ abandoned' = abandoned \cup Unsettled(w) /\ run'[w] = "stopped"
        /\ UNCHANGED <<accepted, owner, lost>>
    BY <1>1, <1>10, EndDoes
  <2>2. Unsettled(w)' = {} /\ \A v \in Workers \ {w} : Unsettled(v)' = Unsettled(v)
    BY <1>1, <1>10, EndWaits
  <2> QED
    BY <1>8, <2>1, <2>2
<1>11. CASE UNCHANGED commandVars
  <2>1. UNCHANGED <<accepted, owner, lost, abandoned>> /\ \A v : Unsettled(v)' = Unsettled(v)
    BY <1>11 DEF commandVars, Unsettled
  <2> QED
    BY <1>4, <2>1
<1> QED
  BY <1>5, <1>6, <1>7, <1>9, <1>10, <1>11, CommandSteps DEF BridgeInv

(***************************************************************************)
(* Nothing overtakes but what was put back                                 *)
(***************************************************************************)

\* What is in order at v stays so when others move, or are received from.
LEMMA OrderElsewhere ==
    ASSUME BridgeInv, NEW v \in Workers, InOrder(v), HeldOnce(v),
           queue'[v] = queue[v], inflight'[v] = inflight[v], arrived'[v] = arrived[v],
           \A c \in Commands : owner[c] = v => requeues'[c] = requeues[c],
           \A d \in Elements(received)' : owner'[d] = v => d \in Elements(received) /\ owner[d] = v
    PROVE  InOrder(v)'
<1>1. /\ None \notin Commands /\ inflight[v] \in Commands \cup {None}
      /\ \A j \in 1 .. Len(queue[v]) : queue[v][j] \in Commands /\ owner[queue[v][j]] = v
      /\ inflight[v] # None => owner[inflight[v]] = v
  BY CommandsTyped DEF BridgeInv, HeldOnce
<1>2. ASSUME NEW c, ReceivedBefore(v, c) PROVE ReceivedBefore(v, c)'
  BY <1>2 DEF ReceivedBefore
<1>3. ASSUME NEW j \in 1 .. Len(queue'[v]), requeues'[queue'[v][j]] = 0
      PROVE  /\ \A i \in 1 .. j - 1 : queue'[v][i] < queue'[v][j]
             /\ inflight'[v] # None => inflight'[v] < queue'[v][j]
             /\ ReceivedBefore(v, queue[v][j])'
  <2>1. requeues[queue[v][j]] = 0
    BY <1>1, <1>3
  <2> QED
    BY <1>2, <1>3, <2>1 DEF InOrder, ReceivedBefore
<1>4. ASSUME inflight'[v] # None, ~arrived'[v], requeues'[inflight'[v]] = 0
      PROVE  ReceivedBefore(v, inflight[v])'
  <2>1. ReceivedBefore(v, inflight[v])
    BY <1>1, <1>4 DEF InOrder
  <2> QED
    BY <2>1 DEF ReceivedBefore
<1> QED
  BY <1>3, <1>4 DEF InOrder, ReceivedBefore

LEMMA OrderStep ==
    ASSUME BridgeInv, CommandInv, [Next]_vars, NEW v \in Workers
    PROVE  InOrder(v)'
<1>1. /\ TypeOK /\ InOrder(v) /\ HeldOnce(v)
      /\ \A w \in Workers : HeldOnce(w)
      /\ \A d \in Elements(received) : d <= accepted
  BY DEF BridgeInv, CommandInv, ReceivedOnceAccepted
<1>2. /\ accepted \in Nat /\ None \notin Commands /\ Commands \subseteq Nat
      /\ \A c \in Commands : requeues[c] \in Nat
      /\ inflight[v] \in Commands \cup {None} /\ Len(queue[v]) \in Nat
      /\ \A i \in 1 .. Len(queue[v]) : queue[v][i] \in Commands /\ queue[v][i] \in Nat
      /\ \A d \in Elements(received) : d \in Commands /\ d \in Nat
  BY <1>1, CommandsTyped, ElementsTyped
<1>3. ASSUME NEW w \in Workers, PublishCommand(w) PROVE InOrder(v)'
  <2> DEFINE c == accepted + 1
  <2>1. /\ UNCHANGED <<inflight, arrived, received, requeues>>
        /\ owner'[c] = w /\ \A d \in Commands \ {c} : owner'[d] = owner[d]
    BY <1>1, <1>3, AcceptDoes
  <2>2. Elements(received)' = Elements(received)
    BY <2>1 DEF Elements
  <2>3. \A d \in Elements(received) : owner'[d] = owner[d]
    BY <1>1, <1>2, <2>1
  <2>4. CASE v = w
    <3>1. /\ Len(queue'[v]) = Len(queue[v]) + 1
          /\ queue'[v][Len(queue[v]) + 1] = c
          /\ \A i \in 1 .. Len(queue[v]) : queue'[v][i] = queue[v][i]
      BY <1>1, <1>3, <2>4, AcceptDoes
    <3>2. ASSUME NEW j \in 1 .. Len(queue[v]), requeues[queue[v][j]] = 0
          PROVE  /\ \A i \in 1 .. j - 1 : queue'[v][i] < queue'[v][j]
                 /\ inflight[v] # None => inflight[v] < queue'[v][j]
                 /\ \A d \in Elements(received) : owner'[d] = v => d < queue'[v][j]
      <4>1. /\ \A i \in 1 .. j - 1 : queue[v][i] < queue[v][j]
            /\ inflight[v] # None => inflight[v] < queue[v][j]
            /\ \A d \in Elements(received) : owner[d] = v => d < queue[v][j]
        BY <1>1, <3>2 DEF InOrder, ReceivedBefore
      <4>2. \A i \in 1 .. j - 1 : queue'[v][i] = queue[v][i]
        BY <1>2, <3>1
      <4> QED
        BY <2>3, <3>1, <4>1, <4>2
    <3>3. /\ \A i \in 1 .. Len(queue[v]) : queue[v][i] <= accepted
          /\ inflight[v] # None => inflight[v] <= accepted
      BY <1>1 DEF HeldOnce
    <3>4. /\ \A i \in 1 .. Len(queue[v]) : queue'[v][i] < c
          /\ inflight[v] # None => inflight[v] < c
          /\ \A d \in Elements(received) : d < c
      <4>1. ASSUME NEW d \in Nat, d <= accepted PROVE d < c
        BY <1>2, <4>1
      <4>2. inflight[v] # None => inflight[v] \in Nat
        BY <1>2
      <4> QED
        BY <1>1, <1>2, <3>1, <3>3, <4>1, <4>2
    <3>5. ASSUME NEW j \in 1 .. Len(queue'[v]), requeues'[queue'[v][j]] = 0
          PROVE  /\ \A i \in 1 .. j - 1 : queue'[v][i] < queue'[v][j]
                 /\ inflight'[v] # None => inflight'[v] < queue'[v][j]
                 /\ \A d \in Elements(received)' : owner'[d] = v => d < queue'[v][j]
      <4>1. CASE j \in 1 .. Len(queue[v])
        BY <2>1, <2>2, <3>1, <3>2, <3>5, <4>1
      <4>2. CASE j = Len(queue[v]) + 1
        BY <2>1, <2>2, <3>1, <3>4, <4>2
      <4>3. j \in 1 .. Len(queue[v]) \/ j = Len(queue[v]) + 1
        BY <1>2, <3>1
      <4> QED
        BY <4>1, <4>2, <4>3
    <3>6. ASSUME inflight'[v] # None, ~arrived'[v], requeues'[inflight'[v]] = 0
          PROVE  \A d \in Elements(received)' : owner'[d] = v => d < inflight'[v]
      BY <1>1, <2>1, <2>2, <2>3, <3>6 DEF InOrder, ReceivedBefore
    <3> QED
      BY <3>5, <3>6 DEF InOrder, ReceivedBefore
  <2>5. CASE v # w
    <3>1. queue'[v] = queue[v]
      BY <1>1, <1>3, <2>5, AcceptDoes
    <3> QED
      BY <1>1, <2>1, <2>2, <2>3, <3>1, OrderElsewhere
  <2> QED
    BY <2>4, <2>5
<1>4. ASSUME NEW w \in Workers, TakeCommand(w) PROVE InOrder(v)'
  <2>1. UNCHANGED <<arrived, received, owner, requeues>>
    BY <1>1, <1>4, TakeDoes
  <2>2. Elements(received)' = Elements(received)
    BY <2>1 DEF Elements
  <2>3. CASE v = w
    <3>1. /\ Len(queue[v]) >= 1
          /\ inflight'[v] = queue[v][1]
          /\ Len(queue'[v]) = Len(queue[v]) - 1
          /\ \A i \in 1 .. Len(queue[v]) - 1 : queue'[v][i] = queue[v][i + 1]
      BY <1>1, <1>4, <2>3, TakeDoes
    <3>2. ASSUME NEW j \in 1 .. Len(queue'[v]), requeues'[queue'[v][j]] = 0
          PROVE  /\ \A i \in 1 .. j - 1 : queue'[v][i] < queue'[v][j]
                 /\ inflight'[v] # None => inflight'[v] < queue'[v][j]
                 /\ \A d \in Elements(received)' : owner'[d] = v => d < queue'[v][j]
      <4>1. /\ j + 1 \in 1 .. Len(queue[v]) /\ queue'[v][j] = queue[v][j + 1]
            /\ requeues[queue[v][j + 1]] = 0
        BY <1>2, <2>1, <3>1, <3>2
      <4>2. /\ \A i \in 1 .. j : queue[v][i] < queue[v][j + 1]
            /\ \A d \in Elements(received) : owner[d] = v => d < queue[v][j + 1]
        BY <1>1, <4>1 DEF InOrder, ReceivedBefore
      <4>3. ASSUME NEW i \in 1 .. j - 1 PROVE queue'[v][i] < queue'[v][j]
        <5>1. i + 1 \in 1 .. j /\ queue'[v][i] = queue[v][i + 1]
          BY <1>2, <3>1
        <5> QED
          BY <4>1, <4>2, <5>1
      <4> QED
        BY <2>1, <2>2, <3>1, <4>1, <4>2, <4>3
    <3>3. ASSUME requeues'[inflight'[v]] = 0
          PROVE  \A d \in Elements(received)' : owner'[d] = v => d < inflight'[v]
      <4>1. 1 \in 1 .. Len(queue[v]) /\ requeues[queue[v][1]] = 0
        BY <1>2, <2>1, <3>1, <3>3
      <4> QED
        BY <1>1, <2>1, <2>2, <3>1, <4>1 DEF InOrder, ReceivedBefore
    <3> QED
      BY <3>2, <3>3 DEF InOrder, ReceivedBefore
  <2>4. CASE v # w
    <3>1. queue'[v] = queue[v] /\ inflight'[v] = inflight[v]
      BY <1>1, <1>4, <2>4, TakeDoes
    <3> QED
      BY <1>1, <2>1, <2>2, <3>1, OrderElsewhere
  <2> QED
    BY <2>3, <2>4
<1>5. ASSUME NEW w \in Workers, BrokerReceives(w) PROVE InOrder(v)'
  <2>1. UNCHANGED <<queue, inflight, owner, requeues>> /\ inflight[w] \in Commands
    BY <1>1, <1>5, ReceiveDoes
  <2>2. Elements(received)' = Elements(received) \cup {inflight[w]}
    BY <1>1, <1>5, ReceiveWaits
  <2>3. CASE v = w
    <3>1. arrived'[v]
      BY <1>1, <1>5, <2>3, ReceiveDoes
    <3>2. ASSUME NEW j \in 1 .. Len(queue[v]), requeues[queue[v][j]] = 0
          PROVE  /\ \A i \in 1 .. j - 1 : queue[v][i] < queue[v][j]
                 /\ inflight[v] < queue[v][j]
                 /\ \A d \in Elements(received) : owner[d] = v => d < queue[v][j]
      BY <1>1, <1>2, <2>1, <2>3, <3>2 DEF InOrder, ReceivedBefore
    <3> QED
      BY <2>1, <2>2, <2>3, <3>1, <3>2 DEF InOrder, ReceivedBefore
  <2>4. CASE v # w
    <3>1. arrived'[v] = arrived[v]
      BY <1>1, <1>5, <2>4, ReceiveDoes
    <3>2. owner[inflight[w]] # v
      BY <1>1, <1>2, <2>1, <2>4 DEF HeldOnce
    <3> QED
      BY <1>1, <2>1, <2>2, <3>1, <3>2, OrderElsewhere
  <2> QED
    BY <2>3, <2>4
<1>6. ASSUME NEW w \in Workers, PublishFails(w) PROVE InOrder(v)'
  <2> DEFINE c == inflight[w]
  <2>1. /\ UNCHANGED <<received, owner>> /\ c \in Commands
        /\ requeues'[c] = requeues[c] + 1
        /\ \A d \in Commands \ {c} : requeues'[d] = requeues[d]
    BY <1>1, <1>6, PutBackDoes
  <2>2. Elements(received)' = Elements(received)
    BY <2>1 DEF Elements
  <2>3. CASE v = w
    <3>1. /\ inflight'[v] = None
          /\ Len(queue'[v]) = Len(queue[v]) + 1
          /\ queue'[v][Len(queue[v]) + 1] = c
          /\ \A i \in 1 .. Len(queue[v]) : queue'[v][i] = queue[v][i]
      BY <1>1, <1>6, <2>3, PutBackDoes
    <3>2. ASSUME NEW j \in 1 .. Len(queue'[v]), requeues'[queue'[v][j]] = 0
          PROVE  /\ \A i \in 1 .. j - 1 : queue'[v][i] < queue'[v][j]
                 /\ \A d \in Elements(received)' : owner'[d] = v => d < queue'[v][j]
      <4>1. requeues'[c] # 0
        <5>1. requeues[c] \in Nat /\ requeues'[c] = requeues[c] + 1
          BY <1>2, <2>1
        <5> QED
          BY <5>1
      <4>2. j # Len(queue[v]) + 1
        BY <3>1, <3>2, <4>1
      <4>3. j \in 1 .. Len(queue[v])
        BY <1>2, <3>1, <4>2
      <4>4. queue[v][j] \in Commands \ {c}
        BY <1>1, <1>2, <2>3, <4>3 DEF HeldOnce
      <4>5. requeues[queue[v][j]] = 0
        BY <2>1, <3>1, <3>2, <4>3, <4>4
      <4>6. /\ \A i \in 1 .. j - 1 : queue[v][i] < queue[v][j]
            /\ \A d \in Elements(received) : owner[d] = v => d < queue[v][j]
        BY <1>1, <4>3, <4>5 DEF InOrder, ReceivedBefore
      <4>7. \A i \in 1 .. j - 1 : queue'[v][i] = queue[v][i]
        BY <1>2, <3>1, <4>3
      <4> QED
        BY <2>1, <2>2, <3>1, <4>3, <4>6, <4>7
    <3> QED
      BY <3>1, <3>2 DEF InOrder, ReceivedBefore
  <2>4. CASE v # w
    <3>1. queue'[v] = queue[v] /\ inflight'[v] = inflight[v] /\ arrived'[v] = arrived[v]
      BY <1>1, <1>6, <2>4, PutBackDoes
    <3>2. owner[c] # v
      BY <1>1, <1>2, <2>1, <2>4 DEF HeldOnce
    <3> QED
      BY <1>1, <2>1, <2>2, <3>1, <3>2, OrderElsewhere
  <2> QED
    BY <2>3, <2>4
<1>7. ASSUME NEW w \in Workers, PublishAcked(w) \/ Drops(w) PROVE InOrder(v)'
  <2>1. /\ UNCHANGED <<queue, received, owner, requeues>> /\ inflight'[w] = None
        /\ v # w => inflight'[v] = inflight[v] /\ arrived'[v] = arrived[v]
    BY <1>1, <1>7, AckDoes, DropDoes
  <2>2. Elements(received)' = Elements(received)
    BY <2>1 DEF Elements
  <2>3. CASE v = w
    BY <1>1, <2>1, <2>2, <2>3 DEF InOrder, ReceivedBefore
  <2>4. CASE v # w
    BY <1>1, <2>1, <2>2, <2>4, OrderElsewhere
  <2> QED
    BY <2>3, <2>4
<1>8. ASSUME NEW w \in Workers, Ends(w) PROVE InOrder(v)'
  <2>1. UNCHANGED <<received, owner, requeues>>
    BY <1>1, <1>8, EndDoes
  <2>2. Elements(received)' = Elements(received)
    BY <2>1 DEF Elements
  <2>3. CASE v = w
    <3>1. Len(queue'[v]) = 0 /\ inflight'[v] = None
      BY <1>1, <1>8, <2>3, EndDoes
    <3> QED
      BY <3>1 DEF InOrder
  <2>4. CASE v # w
    <3>1. queue'[v] = queue[v] /\ inflight'[v] = inflight[v] /\ arrived'[v] = arrived[v]
      BY <1>1, <1>8, <2>4, EndDoes
    <3> QED
      BY <1>1, <2>1, <2>2, <3>1, OrderElsewhere
  <2> QED
    BY <2>3, <2>4
<1>9. CASE UNCHANGED commandVars
  BY <1>1, <1>9, OrderElsewhere DEF commandVars, Elements
<1> QED
  BY <1>3, <1>4, <1>5, <1>6, <1>7, <1>8, <1>9, CommandSteps DEF BridgeInv

LEMMA OvertakenStep ==
    ASSUME BridgeInv, CommandInv, [Next]_vars
    PROVE  OvertakenOnlyIfPutBack'
<1>1. /\ TypeOK /\ accepted \in Nat /\ Len(received) \in Nat
      /\ \A c \in Commands : requeues[c] \in Nat
      /\ \A i \in 1 .. Len(received) :
            /\ received[i] \in Commands /\ received[i] \in Nat /\ received[i] <= accepted
            /\ received[i] \in Elements(received)
      /\ OvertakenOnlyIfPutBack
  BY CommandsTyped DEF BridgeInv, CommandInv, ReceivedOnceAccepted, Elements
<1>2. ASSUME UNCHANGED received,
             \A i \in 1 .. Len(received) :
                /\ owner'[received[i]] = owner[received[i]]
                /\ requeues[received[i]] > 0 => requeues'[received[i]] > 0
      PROVE  OvertakenOnlyIfPutBack'
  BY <1>1, <1>2 DEF OvertakenOnlyIfPutBack
<1>3. ASSUME NEW w \in Workers, PublishCommand(w) PROVE OvertakenOnlyIfPutBack'
  <2>1. /\ UNCHANGED <<received, requeues>>
        /\ \A d \in Commands \ {accepted + 1} : owner'[d] = owner[d]
    BY <1>1, <1>3, AcceptDoes
  <2>2. \A i \in 1 .. Len(received) : owner'[received[i]] = owner[received[i]]
    BY <1>1, <2>1
  <2> QED
    BY <1>2, <2>1, <2>2
<1>4. ASSUME NEW w \in Workers, BrokerReceives(w) PROVE OvertakenOnlyIfPutBack'
  <2> DEFINE c == inflight[w]
  <2>1. /\ c \in Commands /\ ~arrived[w]
        /\ Len(received') = Len(received) + 1
        /\ received'[Len(received) + 1] = c
        /\ \A i \in 1 .. Len(received) : received'[i] = received[i]
        /\ UNCHANGED <<owner, requeues>>
    BY <1>1, <1>4, ReceiveDoes
  <2>2. owner[c] = w /\ c \in Nat /\ requeues[c] \in Nat
    BY <1>1, <2>1, CommandsTyped DEF CommandInv, HeldOnce
  <2>3. ASSUME NEW i \in 1 .. Len(received), received[i] > c, owner[received[i]] = w
        PROVE  requeues[c] > 0
    <3>1. requeues[c] = 0 => received[i] < c
      BY <1>1, <2>1, <2>3, CommandsTyped DEF CommandInv, InOrder, ReceivedBefore
    <3> QED
      BY <1>1, <2>2, <2>3, <3>1
  <2>4. ASSUME NEW i \in 1 .. Len(received'), NEW j \in 1 .. Len(received'), i < j,
               received'[i] > received'[j], owner'[received'[i]] = owner'[received'[j]]
        PROVE  requeues'[received'[j]] > 0
    <3>1. i \in 1 .. Len(received)
      BY <1>1, <2>1, <2>4
    <3>2. CASE j \in 1 .. Len(received)
      BY <1>1, <2>1, <2>4, <3>1, <3>2 DEF OvertakenOnlyIfPutBack
    <3>3. CASE j = Len(received) + 1
      BY <2>1, <2>2, <2>3, <2>4, <3>1, <3>3
    <3> QED
      BY <1>1, <2>1, <3>2, <3>3
  <2> QED
    BY <2>4 DEF OvertakenOnlyIfPutBack
<1>5. ASSUME NEW w \in Workers, PublishFails(w) PROVE OvertakenOnlyIfPutBack'
  <2>1. /\ UNCHANGED <<received, owner>> /\ inflight[w] \in Commands
        /\ requeues'[inflight[w]] = requeues[inflight[w]] + 1
        /\ \A d \in Commands \ {inflight[w]} : requeues'[d] = requeues[d]
    BY <1>1, <1>5, PutBackDoes
  <2>2. ASSUME NEW d \in Commands, requeues[d] > 0 PROVE requeues'[d] > 0
    <3>1. requeues[d] \in Nat
      BY <1>1
    <3> QED
      BY <2>1, <2>2, <3>1
  <2> QED
    BY <1>1, <1>2, <2>1, <2>2
<1>6. ASSUME NEW w \in Workers, TakeCommand(w) \/ PublishAcked(w) \/ Drops(w) \/ Ends(w)
      PROVE  OvertakenOnlyIfPutBack'
  <2>1. UNCHANGED <<received, owner, requeues>>
    BY <1>1, <1>6, TakeDoes, AckDoes, DropDoes, EndDoes
  <2> QED
    BY <1>2, <2>1
<1>7. CASE UNCHANGED commandVars
  BY <1>2, <1>7 DEF commandVars
<1> QED
  BY <1>3, <1>4, <1>5, <1>6, <1>7, CommandSteps DEF BridgeInv

(***************************************************************************)
(* How often the broker gets a command                                     *)
(***************************************************************************)

LEMMA DeliveriesAre ==
    ASSUME TypeOK, NEW c
    PROVE  Deliveries(c) \in Nat /\ (Deliveries(c) = 0 <=> c \notin Elements(received))
<1> DEFINE places == {i \in 1 .. Len(received) : received[i] = c}
<1>1. IsFiniteSet(places)
  <2>1. IsFiniteSet(1 .. Len(received)) /\ places \subseteq 1 .. Len(received)
    BY FS_Interval, CommandsTyped
  <2> QED
    BY <2>1, FS_Subset
<1>2. Cardinality(places) \in Nat /\ (Cardinality(places) = 0 <=> places = {})
  <2> HIDE DEF places
  <2> QED
    BY <1>1, FS_CardinalityType, FS_EmptySet
<1>3. places = {} <=> c \notin Elements(received)
  BY DEF Elements
<1> QED
  BY <1>2, <1>3 DEF Deliveries

LEMMA DeliveriesAfter ==
    ASSUME TypeOK, NEW w \in Workers, BrokerReceives(w), NEW c
    PROVE  Deliveries(c)' = IF c = inflight[w] THEN Deliveries(c) + 1 ELSE Deliveries(c)
<1> DEFINE places == {i \in 1 .. Len(received) : received[i] = c}
<1> DEFINE places2 == {i \in 1 .. Len(received') : received'[i] = c}
<1>1. /\ Len(received) \in Nat /\ Len(received') = Len(received) + 1
      /\ received'[Len(received) + 1] = inflight[w]
      /\ \A i \in 1 .. Len(received) : received'[i] = received[i]
  BY ReceiveDoes, CommandsTyped
<1>2. IsFiniteSet(places) /\ Len(received) + 1 \notin places
  <2>1. IsFiniteSet(1 .. Len(received)) /\ places \subseteq 1 .. Len(received)
    BY <1>1, FS_Interval
  <2>2. Len(received) + 1 \notin 1 .. Len(received)
    BY <1>1
  <2> QED
    BY <2>1, <2>2, FS_Subset
<1>3. places2 = IF c = inflight[w] THEN places \cup {Len(received) + 1} ELSE places
  <2>1. 1 .. Len(received') = (1 .. Len(received)) \cup {Len(received) + 1}
    BY <1>1
  <2>2. Len(received) + 1 \notin 1 .. Len(received)
    BY <1>1
  <2> QED
    BY <1>1, <2>1, <2>2
<1>4. Cardinality(places \cup {Len(received) + 1}) = Cardinality(places) + 1
  <2> HIDE DEF places
  <2> QED
    BY <1>2, FS_AddElement
<1>5. Deliveries(c) = Cardinality(places) /\ Deliveries(c)' = Cardinality(places2)
  BY DEF Deliveries
<1> HIDE DEF places, places2
<1> QED
  BY <1>3, <1>4, <1>5

LEMMA CountStep ==
    ASSUME BridgeInv, CommandInv, [Next]_vars, NEW c \in Commands
    PROVE  Counted(c)'
<1>1. /\ TypeOK /\ Counted(c) /\ accepted \in Nat /\ requeues[c] \in Nat /\ c \in Nat
      /\ Deliveries(c) \in Nat /\ None \notin Commands
  BY CommandsTyped, DeliveriesAre DEF BridgeInv, CommandInv
<1>2. ASSUME Deliveries(c)' = Deliveries(c),
             requeues'[c] \in Nat, requeues[c] <= requeues'[c],
             accepted' \in Nat, accepted <= accepted',
             \A v \in Workers : StillToSend(v, c)' =>
                StillToSend(v, c) \/ Deliveries(c) <= requeues'[c]
      PROVE  Counted(c)'
  BY <1>1, <1>2 DEF Counted
<1>3. ASSUME UNCHANGED received PROVE Deliveries(c)' = Deliveries(c)
  BY <1>3 DEF Deliveries
<1>4. \A v \in Workers : StillToSend(v, c) <=>
        c \in Elements(queue[v]) \/ (inflight[v] = c /\ ~arrived[v])
  BY DEF StillToSend, Elements
<1>5. \A v \in Workers : StillToSend(v, c)' <=>
        c \in Elements(queue'[v]) \/ (inflight'[v] = c /\ ~arrived'[v])
  BY DEF StillToSend, Elements
<1>6. ASSUME NEW w \in Workers, PublishCommand(w) PROVE Counted(c)'
  <2>1. /\ accepted' = accepted + 1
        /\ UNCHANGED <<inflight, arrived, received, requeues>>
        /\ queue'[w] = Append(queue[w], accepted + 1) /\ accepted + 1 \in Commands
        /\ \A v \in Workers \ {w} : queue'[v] = queue[v]
    BY <1>1, <1>6, AcceptDoes
  <2>2. Elements(queue'[w]) = Elements(queue[w]) \cup {accepted + 1}
    BY <1>1, <2>1, ElementsAfter DEF TypeOK
  <2>3. c = accepted + 1 => Deliveries(c) = 0
    BY <1>1 DEF Counted
  <2>4. Deliveries(c)' = Deliveries(c)
    BY <1>3, <2>1
  <2>5. ASSUME NEW v \in Workers, StillToSend(v, c)'
        PROVE  StillToSend(v, c) \/ Deliveries(c) <= requeues'[c]
    <3>1. c \in Elements(queue'[v]) => c \in Elements(queue[v]) \/ c = accepted + 1
      BY <2>1, <2>2
    <3> QED
      BY <1>1, <1>4, <1>5, <2>1, <2>3, <2>5, <3>1
  <2> QED
    BY <1>1, <1>2, <2>1, <2>4, <2>5
<1>7. ASSUME NEW w \in Workers, TakeCommand(w) PROVE Counted(c)'
  <2>1. /\ UNCHANGED <<arrived, received, accepted, requeues>>
        /\ inflight'[w] = queue[w][1] /\ queue'[w] = Tail(queue[w])
        /\ \A v \in Workers \ {w} : queue'[v] = queue[v] /\ inflight'[v] = inflight[v]
    BY <1>1, <1>7, TakeDoes
  <2>2. Elements(queue[w]) = Elements(queue'[w]) \cup {inflight'[w]}
    <3>1. queue[w] \in Seq(Commands) /\ queue[w] # <<>>
      BY <1>1, <1>7 DEF TypeOK, TakeCommand
    <3> QED
      BY <2>1, <3>1, ElementsBefore
  <2>3. ASSUME NEW v \in Workers, StillToSend(v, c)' PROVE StillToSend(v, c)
    BY <1>4, <1>5, <2>1, <2>2, <2>3
  <2> QED
    BY <1>1, <1>2, <1>3, <2>1, <2>3
<1>8. ASSUME NEW w \in Workers, BrokerReceives(w) PROVE Counted(c)'
  <2>1. /\ UNCHANGED <<queue, inflight, accepted, requeues>>
        /\ arrived'[w] /\ ~arrived[w] /\ inflight[w] \in Commands
        /\ \A v \in Workers \ {w} : arrived'[v] = arrived[v]
    BY <1>1, <1>8, ReceiveDoes
  <2>2. ASSUME NEW v \in Workers, StillToSend(v, c)' PROVE StillToSend(v, c)
    BY <1>4, <1>5, <2>1, <2>2
  <2>3. CASE c # inflight[w]
    <3>1. Deliveries(c)' = Deliveries(c)
      BY <1>1, <1>8, <2>3, DeliveriesAfter
    <3> QED
      BY <1>1, <1>2, <2>1, <2>2, <3>1
  <2>4. CASE c = inflight[w]
    <3>1. Deliveries(c)' = Deliveries(c) + 1 /\ Deliveries(c) <= requeues[c]
      BY <1>1, <1>4, <1>8, <2>1, <2>4, DeliveriesAfter DEF Counted
    <3>2. c <= accepted /\ owner[c] = w /\ c \notin Elements(queue[w])
      BY <1>1, <2>4 DEF CommandInv, HeldOnce, Elements
    <3>3. ASSUME NEW v \in Workers PROVE ~StillToSend(v, c)'
      <4>1. CASE v = w
        BY <1>5, <2>1, <3>2, <4>1
      <4>2. CASE v # w
        <5>1. c \notin Elements(queue[v]) /\ c # inflight[v]
          BY <1>1, <3>2, <4>2 DEF CommandInv, HeldOnce, Elements
        <5> QED
          BY <1>5, <2>1, <5>1
      <4> QED
        BY <4>1, <4>2
    <3>4. Deliveries(c)' <= 1 + requeues'[c] /\ ~(c > accepted')
      BY <1>1, <2>1, <3>1, <3>2
    <3> QED
      BY <3>3, <3>4 DEF Counted
  <2> QED
    BY <2>3, <2>4
<1>9. ASSUME NEW w \in Workers, PublishFails(w) PROVE Counted(c)'
  <2>1. /\ UNCHANGED <<received, accepted>> /\ inflight[w] \in Commands
        /\ requeues'[inflight[w]] = requeues[inflight[w]] + 1
        /\ \A d \in Commands \ {inflight[w]} : requeues'[d] = requeues[d]
        /\ inflight'[w] = None /\ queue'[w] = Append(queue[w], inflight[w])
        /\ \A v \in Workers \ {w} : /\ queue'[v] = queue[v] /\ inflight'[v] = inflight[v]
                                    /\ arrived'[v] = arrived[v]
    BY <1>1, <1>9, PutBackDoes
  <2>2. Elements(queue'[w]) = Elements(queue[w]) \cup {inflight[w]}
    BY <1>1, <2>1, ElementsAfter DEF TypeOK
  <2>3. /\ requeues'[c] \in Nat /\ requeues[c] <= requeues'[c]
        /\ c = inflight[w] => Deliveries(c) <= requeues'[c]
    BY <1>1, <2>1 DEF Counted
  <2>4. ASSUME NEW v \in Workers, StillToSend(v, c)'
        PROVE  StillToSend(v, c) \/ Deliveries(c) <= requeues'[c]
    BY <1>1, <1>4, <1>5, <2>1, <2>2, <2>3, <2>4
  <2> QED
    BY <1>1, <1>2, <1>3, <2>1, <2>3, <2>4
<1>10. ASSUME NEW w \in Workers, PublishAcked(w) \/ Drops(w) PROVE Counted(c)'
  <2>1. /\ UNCHANGED <<queue, received, accepted, requeues>> /\ inflight'[w] = None
        /\ \A v \in Workers \ {w} : inflight'[v] = inflight[v] /\ arrived'[v] = arrived[v]
    BY <1>1, <1>10, AckDoes, DropDoes
  <2>2. ASSUME NEW v \in Workers, StillToSend(v, c)' PROVE StillToSend(v, c)
    BY <1>1, <1>4, <1>5, <2>1, <2>2
  <2> QED
    BY <1>1, <1>2, <1>3, <2>1, <2>2
<1>11. ASSUME NEW w \in Workers, Ends(w) PROVE Counted(c)'
  <2>1. /\ UNCHANGED <<received, accepted, requeues>> /\ inflight'[w] = None
        /\ Len(queue'[w]) = 0
        /\ \A v \in Workers \ {w} : /\ queue'[v] = queue[v] /\ inflight'[v] = inflight[v]
                                    /\ arrived'[v] = arrived[v]
    BY <1>1, <1>11, EndDoes
  <2>2. Elements(queue'[w]) = {}
    BY <2>1 DEF Elements
  <2>3. ASSUME NEW v \in Workers, StillToSend(v, c)' PROVE StillToSend(v, c)
    BY <1>1, <1>4, <1>5, <2>1, <2>2, <2>3
  <2> QED
    BY <1>1, <1>2, <1>3, <2>1, <2>3
<1>12. CASE UNCHANGED commandVars
  <2>1. UNCHANGED <<queue, inflight, arrived, received, accepted, requeues>>
    BY <1>12 DEF commandVars
  <2>2. ASSUME NEW v \in Workers, StillToSend(v, c)' PROVE StillToSend(v, c)
    BY <1>4, <1>5, <2>1, <2>2
  <2> QED
    BY <1>1, <1>2, <1>3, <2>1, <2>2
<1> QED
  BY <1>6, <1>7, <1>8, <1>9, <1>10, <1>11, <1>12, CommandSteps DEF BridgeInv

(***************************************************************************)
(* The invariant of the commands                                           *)
(***************************************************************************)

LEMMA CommandInit == Init => BridgeInv /\ CommandInv
<1> SUFFICES ASSUME Init PROVE BridgeInv /\ CommandInv
  OBVIOUS
<1>1. BridgeInv
  BY BridgeInit DEF BridgeInv
<1>2. /\ \A w \in Workers : inflight[w] = None /\ ~arrived[w] /\ Len(queue[w]) = 0
      /\ Len(received) = 0 /\ accepted = 0
  BY DEF Init
<1>3. Elements(received) = {} /\ \A w \in Workers : Elements(queue[w]) = {}
  BY <1>2 DEF Elements
<1>4. ASSUME NEW c \in Commands PROVE Counted(c)
  <2>1. Deliveries(c) = 0 /\ requeues[c] = 0
    BY <1>1, <1>3, DeliveriesAre DEF BridgeInv, Init
  <2> QED
    BY <2>1 DEF Counted
<1>5. \A w \in Workers : HeldOnce(w) /\ InOrder(w)
  BY <1>2 DEF HeldOnce, InOrder
<1>6. ReceivedOnceAccepted /\ Accounted /\ GivenUp /\ OvertakenOnlyIfPutBack
  BY <1>2, <1>3 DEF ReceivedOnceAccepted, Accounted, GivenUp, OvertakenOnlyIfPutBack, Init
<1> QED
  BY <1>1, <1>4, <1>5, <1>6 DEF CommandInv

LEMMA BridgeStep == BridgeInv /\ CommandInv /\ [Next]_vars => BridgeInv' /\ CommandInv'
<1> SUFFICES ASSUME BridgeInv, CommandInv, [Next]_vars PROVE BridgeInv' /\ CommandInv'
  OBVIOUS
<1>1. BridgeInv'
  BY TypeStep, ConnectionStep DEF BridgeInv
<1>2. \A w \in Workers : HeldOnce(w)' /\ InOrder(w)'
  BY HeldStep, OrderStep
<1>3. ReceivedOnceAccepted' /\ Accounted' /\ GivenUp' /\ OvertakenOnlyIfPutBack'
  BY ReceivedStep, AccountedStep, GivenUpStep, OvertakenStep
<1>4. \A c \in Commands : Counted(c)'
  BY CountStep
<1> QED
  BY <1>1, <1>2, <1>3, <1>4 DEF CommandInv

\* A command that is not settled is in one place, and one that is settled in none.
LEMMA OnePlace ==
    ASSUME BridgeInv, CommandInv, NEW c \in 1 .. accepted
    PROVE  /\ Pending(c) \in Nat /\ Pending(c) <= 1
           /\ Pending(c) = 0 <=> \A w \in Workers : c \notin Unsettled(w)
<1>1. /\ TypeOK /\ accepted \in Nat /\ accepted <= MaxCommands /\ None \notin Commands
      /\ c \in Commands /\ MaxCommands \in Nat
      /\ \A w \in Workers : HeldOnce(w) /\ Len(queue[w]) \in Nat
  <2>1. TypeOK /\ \A w \in Workers : HeldOnce(w)
    BY DEF BridgeInv, CommandInv
  <2>2. accepted \in 0 .. MaxCommands
    BY <2>1 DEF TypeOK
  <2> QED
    BY <2>1, <2>2, CommandsTyped, BridgeAssumption DEF Commands
<1>2. \A p \in Places(c) :
        /\ p \in Workers \X (0 .. MaxCommands) /\ owner[c] = p[1]
        /\ IF p[2] = 0 THEN inflight[p[1]] = c
           ELSE p[2] \in 1 .. Len(queue[p[1]]) /\ queue[p[1]][p[2]] = c
  BY <1>1 DEF Places, HeldOnce
<1>3. ASSUME NEW p \in Places(c), NEW q \in Places(c) PROVE p = q
  <2>1. p[1] = q[1] /\ p[1] \in Workers
    BY <1>2
  <2>2. p[2] = q[2]
    BY <1>1, <1>2, <2>1 DEF HeldOnce
  <2> QED
    BY <1>2, <2>1, <2>2
<1>4. Places(c) = {} \/ \E p : Places(c) = {p}
  BY <1>3
<1>5. Pending(c) \in Nat /\ Pending(c) <= 1 /\ (Pending(c) = 0 <=> Places(c) = {})
  <2>1. CASE Places(c) = {}
    BY <2>1, FS_EmptySet DEF Pending
  <2>2. ASSUME NEW p, Places(c) = {p} PROVE Pending(c) = 1
    BY <2>2, FS_Singleton DEF Pending
  <2> QED
    BY <1>4, <2>1, <2>2
<1>6. ASSUME NEW w \in Workers, c \in Unsettled(w) PROVE Places(c) # {}
  <2>1. CASE inflight[w] = c
    <3>1. <<w, 0>> \in Workers \X (0 .. MaxCommands)
      BY <1>1
    <3>2. <<w, 0>> \in Places(c)
      BY <2>1, <3>1 DEF Places
    <3> QED
      BY <3>2
  <2>2. CASE inflight[w] # c
    <3>1. PICK i \in 1 .. Len(queue[w]) : queue[w][i] = c
      BY <1>6, <2>2 DEF Unsettled
    <3>2. i \in 1 .. MaxCommands
      BY <1>1, <3>1 DEF HeldOnce
    <3>3. <<w, i>> \in Workers \X (0 .. MaxCommands) /\ i # 0 /\ i <= Len(queue[w])
      BY <1>1, <3>1, <3>2
    <3>4. <<w, i>> \in Places(c)
      BY <3>1, <3>3 DEF Places
    <3> QED
      BY <3>4
  <2> QED
    BY <2>1, <2>2
<1>7. ASSUME NEW p \in Places(c) PROVE p[1] \in Workers /\ c \in Unsettled(p[1])
  BY <1>1, <1>2 DEF Unsettled
<1> QED
  BY <1>5, <1>6, <1>7

LEMMA BridgeInvSays ==
    BridgeInv /\ CommandInv =>
        NoCommandVanishes /\ RepeatedOnlyIfPutBack /\ OvertakenOnlyIfPutBack
<1> SUFFICES ASSUME BridgeInv, CommandInv PROVE NoCommandVanishes /\ RepeatedOnlyIfPutBack
  BY DEF CommandInv
<1>1. ASSUME NEW c \in 1 .. accepted, Pending(c) + Deliveries(c) = 0
      PROVE  c \in lost \cup abandoned
  <2>1. Pending(c) \in Nat /\ Deliveries(c) \in Nat
    BY OnePlace, DeliveriesAre DEF BridgeInv
  <2>2. Pending(c) = 0 /\ Deliveries(c) = 0
    BY <1>1, <2>1
  <2>3. c \notin Elements(received) /\ \A w \in Workers : c \notin Unsettled(w)
    BY <2>2, OnePlace, DeliveriesAre DEF BridgeInv
  <2> QED
    BY <2>3 DEF CommandInv, Accounted, WasReceived
<1>2. NoCommandVanishes
  <2>1. ASSUME NEW c \in lost \cup abandoned, c \in 1 .. accepted PROVE Pending(c) = 0
    BY <2>1, OnePlace DEF CommandInv, GivenUp
  <2>2. \A c \in abandoned : run[owner[c]] = "stopped"
    BY DEF CommandInv, GivenUp
  <2> QED
    BY <1>1, <2>1, <2>2, OnePlace DEF NoCommandVanishes
<1>3. RepeatedOnlyIfPutBack
  BY DEF CommandInv, Counted, RepeatedOnlyIfPutBack
<1> QED
  BY <1>2, <1>3

(***************************************************************************)
(* The state of every bridge is well typed: the delay stays between one    *)
(* second and the cap, the session is held by one worker at most.          *)
(***************************************************************************)
THEOREM BridgesAreTyped == Spec => []TypeOK
<1>1. BridgeInv => TypeOK
  BY DEF BridgeInv
<1> QED
  BY <1>1, CommandInit, BridgeStep, PTL DEF Spec

(***************************************************************************)
(* With any number of workers taking the session from each other, and      *)
(* ending at any moment, every accepted command waits in one place, was    *)
(* received, was lost with a cancelled publisher, or was left behind by    *)
(* the end of the process that accepted it; what was given up is not sent  *)
(* later.                                                                  *)
(***************************************************************************)
THEOREM CommandsDoNotVanish == Spec => []NoCommandVanishes
<1>1. BridgeInv /\ CommandInv => NoCommandVanishes
  BY BridgeInvSays
<1> QED
  BY <1>1, CommandInit, BridgeStep, PTL DEF Spec

(***************************************************************************)
(* The broker gets no command more often than it failed and was put back,  *)
(* and once more.                                                          *)
(***************************************************************************)
THEOREM RepeatsWerePutBack == Spec => []RepeatedOnlyIfPutBack
<1>1. BridgeInv /\ CommandInv => RepeatedOnlyIfPutBack
  BY BridgeInvSays
<1> QED
  BY <1>1, CommandInit, BridgeStep, PTL DEF Spec

(***************************************************************************)
(* Of the commands of one worker, only one that was put back reaches the   *)
(* broker behind a later one.                                              *)
(***************************************************************************)
THEOREM OvertakenWerePutBack == Spec => []OvertakenOnlyIfPutBack
<1>1. BridgeInv /\ CommandInv => OvertakenOnlyIfPutBack
  BY BridgeInvSays
<1> QED
  BY <1>1, CommandInit, BridgeStep, PTL DEF Spec

(***************************************************************************)
(* The bridges implement the command channel                               *)
(***************************************************************************)

Waiting == UNION {Unsettled(w) : w \in Workers}
Delivered == {received[i] : i \in 1 .. Len(received)}

\* What one worker changes of its unsettled commands is all that changes.
LEMMA WaitingChanges ==
    ASSUME NEW w \in Workers, \A v \in Workers \ {w} : Unsettled(v)' = Unsettled(v)
    PROVE  /\ Unsettled(w)' = Unsettled(w) => Waiting' = Waiting
           /\ \A c : Unsettled(w)' = Unsettled(w) \cup {c} => Waiting' = Waiting \cup {c}
           /\ \A C : /\ Unsettled(w)' = Unsettled(w) \ C
                     /\ \A v \in Workers \ {w} : C \cap Unsettled(v) = {}
                     => Waiting' = Waiting \ C
<1>1. Waiting' = UNION {Unsettled(v)' : v \in Workers}
  BY DEF Waiting
<1>2. Waiting = UNION {Unsettled(v) : v \in Workers}
  BY DEF Waiting
<1>3. \A x : x \in Waiting' <=> \E v \in Workers : x \in Unsettled(v)'
  BY <1>1
<1>4. \A x : x \in Waiting <=> \E v \in Workers : x \in Unsettled(v)
  BY <1>2
<1>5. ASSUME Unsettled(w)' = Unsettled(w) PROVE Waiting' = Waiting
  BY <1>3, <1>4, <1>5
<1>6. ASSUME NEW c, Unsettled(w)' = Unsettled(w) \cup {c} PROVE Waiting' = Waiting \cup {c}
  <2>1. \A x : x \in Waiting' <=> x \in Waiting \/ x = c
    BY <1>3, <1>4, <1>6
  <2> QED
    BY <2>1
<1>7. ASSUME NEW C, Unsettled(w)' = Unsettled(w) \ C,
             \A v \in Workers \ {w} : C \cap Unsettled(v) = {}
      PROVE  Waiting' = Waiting \ C
  <2>1. \A x : x \in Waiting' <=> x \in Waiting /\ x \notin C
    BY <1>3, <1>4, <1>7
  <2> QED
    BY <2>1
<1> QED
  BY <1>5, <1>6, <1>7

LEMMA ChannelInit == Init => Channel!Init
<1> SUFFICES ASSUME Init PROVE Channel!Init
  OBVIOUS
<1>1. /\ \A w \in Workers : inflight[w] = None /\ Len(queue[w]) = 0
      /\ Len(received) = 0 /\ accepted = 0 /\ lost \cup abandoned = {}
  BY DEF Init
<1>2. \A w \in Workers : Unsettled(w) = {}
  BY <1>1 DEF Unsettled
<1> QED
  BY <1>1, <1>2 DEF Channel!Init

LEMMA ChannelStep ==
    BridgeInv /\ CommandInv /\ [Next]_vars => [Channel!Next]_Channel!channelVars
<1> SUFFICES ASSUME BridgeInv, CommandInv, [Next]_vars
             PROVE  [Channel!Next]_Channel!channelVars
  OBVIOUS
<1>1. /\ TypeOK /\ None \notin Commands
      /\ \A w \in Workers : HeldOnce(w) /\ Unsettled(w) \subseteq Commands
      /\ Delivered = Elements(received) /\ Delivered' = Elements(received)'
  BY CommandsTyped, ElementsTyped DEF BridgeInv, CommandInv, Delivered, Elements
<1>2. ASSUME UNCHANGED <<accepted, lost, abandoned>>, Waiting' = Waiting, Delivered' = Delivered
      PROVE  UNCHANGED Channel!channelVars
  BY <1>2 DEF Channel!channelVars, Waiting, Delivered
<1>3. ASSUME NEW c \in Commands
      PROVE  /\ c \in Waiting <=> \E w \in Workers : c \in Unsettled(w)
             /\ \A v, w \in Workers : c \in Unsettled(v) /\ c \in Unsettled(w) => v = w
  <2>1. ASSUME NEW v \in Workers, c \in Unsettled(v) PROVE owner[c] = v
    BY <1>1, <2>1 DEF Unsettled, HeldOnce
  <2> QED
    BY <2>1 DEF Waiting
<1>4. ASSUME NEW w \in Workers, PublishCommand(w) PROVE Channel!Next
  <2>1. /\ accepted + 1 \in Commands /\ accepted' = accepted + 1 /\ UNCHANGED <<lost, abandoned>>
    BY <1>1, <1>4, AcceptDoes
  <2>2. Waiting' = Waiting \cup {accepted + 1} /\ Delivered' = Delivered
    BY <1>1, <1>4, AcceptWaits, WaitingChanges
  <2>3. Channel!Accept
    BY <2>1, <2>2 DEF Channel!Accept, Waiting, Delivered
  <2> QED
    BY <2>3 DEF Channel!Next
<1>5. ASSUME NEW w \in Workers, TakeCommand(w) \/ PublishFails(w)
      PROVE  UNCHANGED Channel!channelVars
  <2>1. UNCHANGED <<accepted, lost, abandoned>>
    BY <1>1, <1>5, TakeDoes, PutBackDoes
  <2>2. Waiting' = Waiting /\ Delivered' = Delivered
    BY <1>1, <1>5, TakeWaits, PutBackWaits, WaitingChanges
  <2> QED
    BY <1>2, <2>1, <2>2
<1>6. ASSUME NEW w \in Workers, BrokerReceives(w) PROVE Channel!Next
  <2>1. PICK c \in Commands : c = inflight[w]
    BY <1>1, <1>6, ReceiveDoes
  <2>2. UNCHANGED <<accepted, lost, abandoned>> /\ c \in Waiting
    BY <1>1, <1>3, <1>6, <2>1, ReceiveDoes, ReceiveWaits
  <2>3. Waiting' = Waiting /\ Delivered' = Delivered \cup {c}
    BY <1>1, <1>6, <2>1, ReceiveWaits, WaitingChanges
  <2>4. Channel!Deliver(c)
    BY <2>2, <2>3 DEF Channel!Deliver, Waiting, Delivered
  <2> QED
    BY <2>4 DEF Channel!Next
<1>7. ASSUME NEW w \in Workers, NEW C \in SUBSET Unsettled(w),
             Unsettled(w)' = Unsettled(w) \ C,
             \A v \in Workers \ {w} : Unsettled(v)' = Unsettled(v)
      PROVE  C \subseteq Commands /\ C \subseteq Waiting /\ Waiting' = Waiting \ C
  <2>1. \A v \in Workers \ {w} : C \cap Unsettled(v) = {}
    BY <1>1, <1>3, <1>7
  <2>2. C \subseteq Commands /\ C \subseteq Waiting
    BY <1>1, <1>7 DEF Waiting
  <2> QED
    BY <1>7, <2>1, <2>2, WaitingChanges
<1>8. ASSUME NEW w \in Workers, PublishAcked(w) PROVE Channel!Next
  <2> DEFINE c == inflight[w]
  <2>1. UNCHANGED <<accepted, lost, abandoned>> /\ c \in Delivered
    BY <1>1, <1>8, AckDoes DEF CommandInv, ReceivedOnceAccepted, WasReceived
  <2>2. c # None /\ c \in Unsettled(w)
    BY <1>1, <2>1, ElementsTyped DEF Unsettled
  <2>3. /\ Unsettled(w)' = Unsettled(w) \ {c} /\ Delivered' = Delivered
        /\ \A v \in Workers \ {w} : Unsettled(v)' = Unsettled(v)
    BY <1>1, <1>8, SettleWaits
  <2>4. c \in Commands /\ c \in Waiting /\ Waiting' = Waiting \ {c}
    <3>1. PICK C \in SUBSET Unsettled(w) : C = {c}
      BY <2>2
    <3>2. Unsettled(w)' = Unsettled(w) \ C
      BY <2>3, <3>1
    <3>3. C \subseteq Commands /\ C \subseteq Waiting /\ Waiting' = Waiting \ C
      <4> HIDE DEF c
      <4> QED
        BY <1>7, <2>3, <3>2
    <3> QED
      BY <3>1, <3>3
  <2>5. Channel!Settle(c)
    BY <2>1, <2>3, <2>4 DEF Channel!Settle, Waiting, Delivered
  <2> QED
    BY <2>4, <2>5 DEF Channel!Next
<1>9. ASSUME NEW w \in Workers, NEW C \in SUBSET Unsettled(w),
             lost' \cup abandoned' = lost \cup abandoned \cup C,
             Unsettled(w)' = Unsettled(w) \ C,
             \A v \in Workers \ {w} : Unsettled(v)' = Unsettled(v),
             UNCHANGED accepted, Delivered' = Delivered
      PROVE  Channel!Next
  <2>1. C \subseteq Commands /\ C \subseteq Waiting /\ Waiting' = Waiting \ C
    BY <1>7, <1>9
  <2>2. Channel!Drop(C)
    BY <1>9, <2>1 DEF Channel!Drop, Waiting, Delivered
  <2> QED
    BY <2>1, <2>2 DEF Channel!Next
<1>10. ASSUME NEW w \in Workers, Drops(w) PROVE Channel!Next
  <2> DEFINE C == {inflight[w]} \ {None}
  <2>1. UNCHANGED <<accepted, abandoned>> /\ lost' = lost \cup C
    BY <1>1, <1>10, DropDoes
  <2>2. /\ Unsettled(w)' = Unsettled(w) \ {inflight[w]} /\ Delivered' = Delivered
        /\ \A v \in Workers \ {w} : Unsettled(v)' = Unsettled(v)
    BY <1>1, <1>10, SettleWaits
  <2>3. C \subseteq Unsettled(w)
    BY DEF Unsettled
  <2>4. Unsettled(w)' = Unsettled(w) \ C
    BY <1>1, <2>2
  <2> HIDE DEF C
  <2> QED
    BY <1>9, <2>1, <2>2, <2>3, <2>4
<1>11. ASSUME NEW w \in Workers, Ends(w) PROVE Channel!Next
  <2>1. UNCHANGED <<accepted, lost>> /\ abandoned' = abandoned \cup Unsettled(w)
    BY <1>1, <1>11, EndDoes
  <2>2. /\ Unsettled(w)' = {} /\ Delivered' = Delivered
        /\ \A v \in Workers \ {w} : Unsettled(v)' = Unsettled(v)
    BY <1>1, <1>11, EndWaits
  <2> QED
    BY <1>9, <2>1, <2>2
<1>12. CASE UNCHANGED commandVars
  <2>1. /\ \A w \in Workers : Unsettled(w)' = Unsettled(w)
        /\ UNCHANGED <<accepted, lost, abandoned, received>>
    BY <1>12 DEF commandVars, Unsettled
  <2>2. Waiting' = Waiting /\ Delivered' = Delivered
    BY <2>1 DEF Waiting, Delivered
  <2> QED
    BY <1>2, <2>1, <2>2
<1> QED
  BY <1>4, <1>5, <1>6, <1>8, <1>10, <1>11, <1>12, CommandSteps DEF BridgeInv

(***************************************************************************)
(* Any number of bridges, reconnecting, timing out and being cancelled,    *)
(* are one command channel: what is delivered was waiting, and what waits  *)
(* no more was delivered or dropped.                                       *)
(***************************************************************************)
THEOREM BridgesImplementTheChannel == Spec => ImplementsCommandChannel
<1> QED
  BY CommandInit, BridgeStep, ChannelInit, ChannelStep, PTL
     DEF Spec, ImplementsCommandChannel, Channel!Spec

(***************************************************************************)
(* The back-off                                                            *)
(***************************************************************************)

\* The delay of w is the next sleep's, all through its loop: 1 from the
\* connection on, and already doubled once a sleep is over.
DelayInv(w) ==
    /\ run[w] = "sleep" => failures[w] >= 1 /\ delay[w] = SleepAfter(failures[w])
    /\ run[w] = "connect" => delay[w] = SleepAfter(failures[w] + 1)
    /\ run[w] \in {"subscribe", "serve"} => failures[w] = 0 /\ delay[w] = FirstDelay

LEMMA SleepGrows ==
    ASSUME NEW n \in Nat, n >= 1
    PROVE  NextDelay(SleepAfter(n)) = SleepAfter(n + 1)
<1>1. CASE n <= 6
  <2>1. n \in {1, 2, 3, 4, 5, 6}
    BY <1>1
  <2>2. SleepAfter(n) = <<1, 2, 4, 8, 16, 32>>[n]
    BY <1>1 DEF SleepAfter
  <2>3. CASE n = 6
    BY <2>2, <2>3 DEF SleepAfter, NextDelay, Smaller, MaxDelay
  <2>4. CASE n \in {1, 2, 3, 4, 5}
    <3>1. n + 1 <= 6 /\ SleepAfter(n + 1) = <<1, 2, 4, 8, 16, 32>>[n + 1]
      BY <2>4 DEF SleepAfter
    <3> QED
      BY <2>2, <2>4, <3>1 DEF NextDelay, Smaller, MaxDelay
  <2> QED
    BY <2>1, <2>3, <2>4
<1>2. CASE n > 6
  BY <1>2 DEF SleepAfter, NextDelay, Smaller, MaxDelay
<1> QED
  BY <1>1, <1>2

\* w changes its place in the loop, and the others keep theirs.
LEMMA DelayElsewhere ==
    ASSUME TypeOK, NEW w \in Workers, \A v \in Workers : DelayInv(v),
           \A v \in Workers \ {w} :
              run'[v] = run[v] /\ delay'[v] = delay[v] /\ failures'[v] = failures[v],
           DelayInv(w)'
    PROVE  \A v \in Workers : DelayInv(v)'
  BY DEF DelayInv

LEMMA DelayStep ==
    ASSUME BridgeInv, \A w \in Workers : DelayInv(w), [Next]_vars
    PROVE  \A w \in Workers : DelayInv(w)'
<1> USE DEF BridgeInv
<1>1. /\ run \in [Workers -> RunStates] /\ failures \in [Workers -> Nat]
      /\ delay \in [Workers -> 1 .. MaxDelay]
  BY DEF TypeOK
<1>2. CASE UNCHANGED <<run, delay, failures>>
  BY <1>2 DEF DelayInv
<1>3. ASSUME NEW w \in Workers, Connect(w) PROVE \A v \in Workers : DelayInv(v)'
  <2>1. run'[w] = "subscribe" /\ delay'[w] = FirstDelay /\ failures'[w] = 0
    BY <1>1, <1>3 DEF Connect, DelayOnConnect
  <2>2. DelayInv(w)'
    BY <2>1 DEF DelayInv
  <2>3. \A v \in Workers \ {w} :
           run'[v] = run[v] /\ delay'[v] = delay[v] /\ failures'[v] = failures[v]
    BY <1>1, <1>3 DEF Connect
  <2> QED
    BY <2>2, <2>3, DelayElsewhere
<1>4. ASSUME NEW w \in Workers, run[w] \in {"connect", "subscribe", "serve"},
             BackOff(w), UNCHANGED delay
      PROVE  \A v \in Workers : DelayInv(v)'
  <2>1. run'[w] = "sleep" /\ delay'[w] = delay[w] /\ failures'[w] = failures[w] + 1
    BY <1>1, <1>4 DEF BackOff
  <2>2. failures[w] \in Nat /\ failures'[w] >= 1
    BY <1>1, <2>1
  <2>3. delay[w] = SleepAfter(failures[w] + 1)
    <3>1. CASE run[w] = "connect"
      BY <3>1 DEF DelayInv
    <3>2. CASE run[w] # "connect"
      <4>1. failures[w] = 0 /\ delay[w] = 1
        BY <1>4, <3>2 DEF DelayInv, FirstDelay
      <4>2. SleepAfter(1) = 1
        BY DEF SleepAfter
      <4> QED
        BY <4>1, <4>2
    <3> QED
      BY <3>1, <3>2
  <2>4. DelayInv(w)'
    BY <2>1, <2>2, <2>3 DEF DelayInv
  <2>5. \A v \in Workers \ {w} :
           run'[v] = run[v] /\ delay'[v] = delay[v] /\ failures'[v] = failures[v]
    BY <1>1, <1>4 DEF BackOff
  <2> QED
    BY <2>4, <2>5, DelayElsewhere
<1>5. ASSUME NEW w \in Workers, WakeUp(w) PROVE \A v \in Workers : DelayInv(v)'
  <2>1. run[w] = "sleep" /\ run'[w] = "connect" /\ delay'[w] = NextDelay(delay[w])
    BY <1>1, <1>5 DEF WakeUp
  <2>2. failures'[w] = failures[w] /\ failures[w] \in Nat
    BY <1>1, <1>5 DEF WakeUp, historyVars, lossVars, appVars
  <2>3. delay'[w] = SleepAfter(failures[w] + 1)
    BY <2>1, <2>2, SleepGrows DEF DelayInv
  <2>4. DelayInv(w)'
    BY <2>1, <2>2, <2>3 DEF DelayInv
  <2>5. \A v \in Workers \ {w} :
           run'[v] = run[v] /\ delay'[v] = delay[v] /\ failures'[v] = failures[v]
    BY <1>1, <1>5 DEF WakeUp, historyVars, lossVars, appVars
  <2> QED
    BY <2>4, <2>5, DelayElsewhere
<1>6. ASSUME NEW w \in Workers, Subscribe(w) PROVE \A v \in Workers : DelayInv(v)'
  <2>1. run[w] = "subscribe" /\ run'[w] = "serve" /\ UNCHANGED <<delay, failures>>
    BY <1>1, <1>6 DEF Subscribe, historyVars, lossVars, appVars
  <2>2. DelayInv(w)'
    BY <2>1 DEF DelayInv
  <2>3. \A v \in Workers \ {w} : run'[v] = run[v]
    BY <1>1, <1>6 DEF Subscribe
  <2> QED
    BY <2>1, <2>2, <2>3, DelayElsewhere
<1>7. ASSUME NEW w \in Workers, NEW end \in {"stopped", "dead"},
             run' = [run EXCEPT ![w] = end], UNCHANGED <<delay, failures>>
      PROVE  \A v \in Workers : DelayInv(v)'
  <2>1. DelayInv(w)'
    BY <1>1, <1>7 DEF DelayInv
  <2>2. \A v \in Workers \ {w} : run'[v] = run[v]
    BY <1>1, <1>7
  <2> QED
    BY <1>7, <2>1, <2>2, DelayElsewhere
<1>8. ASSUME NEW w \in Workers, ConnectFails(w) \/ SubscribeFails(w) \/ ListenerFails(w)
      PROVE  \A v \in Workers : DelayInv(v)'
  BY <1>4, <1>8 DEF ConnectFails, SubscribeFails, ListenerFails, LoopGoesOn
<1>9. ASSUME NEW w \in Workers, PublishFails(w) PROVE \A v \in Workers : DelayInv(v)'
  <2>1. run[w] = "serve" /\ UNCHANGED delay
    BY <1>9 DEF PublishFails, TasksAreInTheClient
  <2>2. BackOff(w) \/ (run' = [run EXCEPT ![w] = "dead"] /\ UNCHANGED failures)
    BY <1>9 DEF PublishFails
  <2> QED
    BY <1>4, <1>7, <2>1, <2>2
<1>10. ASSUME NEW w \in Workers, Stop(w) \/ Exit(w) PROVE \A v \in Workers : DelayInv(v)'
  <2>1. CASE CancellationIsLost(w) /\ LoopGoesOn(w)
    BY <1>4, <2>1 DEF CancellationIsLost, LoopGoesOn
  <2>2. CASE ProcessEnds(w)
    BY <1>7, <2>2 DEF ProcessEnds
  <2> QED
    BY <1>10, <2>1, <2>2 DEF Stop, Exit
<1>11. ASSUME NEW w \in Workers,
              \/ TakeCommand(w) \/ BrokerReceives(w) \/ PublishAcked(w) \/ StartHandler(w)
              \/ FinishHandler(w) \/ NoticeLoss(w) \/ PublishCommand(w) \/ MessageArrives(w)
       PROVE  UNCHANGED <<run, delay, failures>>
  BY <1>11 DEF TakeCommand, BrokerReceives, PublishAcked, StartHandler, FinishHandler,
               NoticeLoss, PublishCommand, MessageArrives, historyVars, lossVars, appVars
<1>12. CASE ConnectionLost \/ UNCHANGED vars
  BY <1>2, <1>12 DEF ConnectionLost, vars, bridgeVars, historyVars, lossVars, appVars
<1> QED
  BY <1>2, <1>3, <1>5, <1>6, <1>8, <1>9, <1>10, <1>11, <1>12 DEF Next, Progress

LEMMA DelayInit ==
    ASSUME Init
    PROVE  \A w \in Workers : DelayInv(w)
  BY DEF Init, DelayInv, SleepAfter, FirstDelay

(***************************************************************************)
(* The sleeps of a worker double from 1 to 60 seconds, and start over      *)
(* after a connection, however often the connection fails.                 *)
(***************************************************************************)
THEOREM SleepsDouble == Spec => []BackOffFollowsBreaks
<1>1. Init => BridgeInv /\ \A w \in Workers : DelayInv(w)
  BY BridgeInit, DelayInit DEF BridgeInv
<1>2. BridgeInv /\ (\A w \in Workers : DelayInv(w)) /\ [Next]_vars
      => BridgeInv' /\ (\A w \in Workers : DelayInv(w))'
  BY TypeStep, ConnectionStep, DelayStep DEF BridgeInv
<1>3. (\A w \in Workers : DelayInv(w)) => BackOffFollowsBreaks
  BY DEF DelayInv, BackOffFollowsBreaks
<1> QED
  BY <1>1, <1>2, <1>3, PTL DEF Spec

(***************************************************************************)
(* Losses                                                                  *)
(***************************************************************************)

\* How many commands a lone worker w may have lost: one for every fault.  A
\* fault that has cut its session but not yet its publisher is still to be
\* paid for.
Losses(w) ==
    /\ Cardinality(lost) <= faults
    /\ run[w] \in {"subscribe", "serve"} /\ session # w => Cardinality(lost) + 1 <= faults

LEMMA LostTyped ==
    ASSUME NEW C \in SUBSET Commands
    PROVE  IsFiniteSet(C) /\ Cardinality(C) \in Nat
<1>1. IsFiniteSet(Commands)
  BY BridgeAssumption, FS_Interval DEF Commands
<1>2. IsFiniteSet(C)
  BY <1>1, FS_Subset
<1> QED
  BY <1>2, FS_CardinalityType

\* A step costs one command at most.
LEMMA LostOne ==
    ASSUME TypeOK, NEW x, lost' = lost \cup ({x} \ {None})
    PROVE  Cardinality(lost') <= Cardinality(lost) + 1
<1>1. Cardinality(lost) \in Nat /\ IsFiniteSet(lost)
  BY LostTyped DEF TypeOK
<1>2. CASE x = None
  <2>1. lost' = lost
    BY <1>2
  <2>2. Cardinality(lost') = Cardinality(lost)
    BY <2>1
  <2> QED
    BY <1>1, <2>2
<1>3. CASE x # None
  <2>1. lost' = lost \cup {x}
    BY <1>3
  <2>2. \/ Cardinality(lost') = Cardinality(lost)
        \/ Cardinality(lost') = Cardinality(lost) + 1
    BY <1>1, <2>1, FS_AddElement
  <2> QED
    BY <1>1, <2>2
<1> QED
  BY <1>2, <1>3

LEMMA LossStep ==
    ASSUME NEW w \in Workers, Workers = {w}, BridgeInv, Losses(w), [Next]_vars
    PROVE  Losses(w)'
<1>1. /\ TypeOK /\ TypeOK' /\ TasksAreInTheClient
      /\ Cardinality(lost) \in Nat /\ faults \in Nat
      /\ Cardinality(lost') \in Nat /\ faults' \in Nat
      /\ session \in {w, None} /\ session' \in {w, None} /\ w # None
  <2>1. TypeOK /\ TypeOK' /\ TasksAreInTheClient
    BY TypeStep DEF BridgeInv
  <2>2. session \in {w, None} /\ session' \in {w, None} /\ w # None
    BY <2>1, BridgeAssumption DEF TypeOK
  <2>3. lost \in SUBSET Commands /\ lost' \in SUBSET Commands
    BY <2>1 DEF TypeOK
  <2>4. faults \in Nat /\ faults' \in Nat
    BY <2>1, BridgeAssumption DEF TypeOK
  <2> QED
    BY <2>1, <2>2, <2>3, <2>4, LostTyped
<1>2. /\ Cardinality(lost) <= faults
      /\ run[w] \in {"subscribe", "serve"} /\ session # w => Cardinality(lost) + 1 <= faults
  BY DEF Losses
<1>3. run \in [Workers -> RunStates]
  BY <1>1 DEF TypeOK
<1>4. CASE UNCHANGED <<run, lost, faults, session>>
  BY <1>2, <1>4 DEF Losses
<1>5. CASE Connect(w)
  <2>1. run[w] = "connect" /\ session' = w /\ UNCHANGED <<lost, faults>>
    BY <1>5 DEF Connect, lossVars
  <2>2. Cardinality(lost') <= faults'
    BY <1>2, <2>1
  <2> QED
    BY <1>1, <2>1, <2>2 DEF Losses
<1>6. CASE Subscribe(w)
  <2>1. /\ run[w] = "subscribe" /\ session = w
        /\ UNCHANGED <<lost, faults, session>>
    BY <1>6 DEF Subscribe, historyVars, lossVars, appVars, brokerVars
  <2>2. Cardinality(lost') <= faults'
    BY <1>2, <2>1
  <2> QED
    BY <1>1, <2>1, <2>2 DEF Losses
<1>7. ASSUME UNCHANGED lost, faults' = faults \/ faults' = faults + 1,
             run'[w] \notin {"subscribe", "serve"}
      PROVE  Losses(w)'
  <2>1. Cardinality(lost') <= faults'
    BY <1>1, <1>2, <1>7
  <2> QED
    BY <1>1, <1>7, <2>1 DEF Losses
<1>8. CASE ConnectFails(w) \/ SubscribeFails(w) \/ WakeUp(w) \/ PublishFails(w)
  <2>1. UNCHANGED lost /\ (faults' = faults \/ faults' = faults + 1)
    BY <1>8 DEF ConnectFails, SubscribeFails, WakeUp, PublishFails, historyVars, lossVars,
                appVars, Fault
  <2>2. run'[w] \notin {"subscribe", "serve"}
    BY <1>3, <1>8 DEF ConnectFails, SubscribeFails, WakeUp, PublishFails, BackOff
  <2> QED
    BY <1>7, <2>1, <2>2
<1>9. CASE CancellationIsLost(w) /\ LoopGoesOn(w)
  <2>1. /\ run[w] \in {"subscribe", "serve"} /\ link[w] = "broken" /\ UNCHANGED faults
        /\ lost' = lost \cup ({inflight[w]} \ {None})
    BY <1>9 DEF CancellationIsLost, LoopGoesOn
  <2>2. session # w
    BY <1>1, <2>1 DEF TasksAreInTheClient
  <2>3. run'[w] = "sleep"
    BY <1>3, <1>9 DEF LoopGoesOn, BackOff
  <2>4. Cardinality(lost') <= Cardinality(lost) + 1
    BY <1>1, <2>1, LostOne
  <2>5. Cardinality(lost) + 1 <= faults
    BY <1>2, <2>1, <2>2
  <2>6. Cardinality(lost') <= faults'
    BY <1>1, <2>1, <2>4, <2>5
  <2> QED
    BY <1>1, <2>3, <2>6 DEF Losses
<1>10. CASE ListenerFails(w) \/ Stop(w) \/ Exit(w)
  <2>1. CASE ProcessEnds(w)
    <3>1. UNCHANGED <<lost, faults>> /\ run'[w] = "stopped"
      BY <1>3, <2>1 DEF ProcessEnds
    <3> QED
      BY <1>7, <3>1
  <2>2. (CancellationIsLost(w) /\ LoopGoesOn(w)) \/ ProcessEnds(w)
    BY <1>10 DEF ListenerFails, Stop, Exit, CancellationIsLost
  <2> QED
    BY <1>9, <2>1, <2>2
<1>11. CASE ConnectionLost
  <2>1. session = w /\ session' = None /\ faults' = faults + 1 /\ UNCHANGED <<run, lost>>
    BY <1>1, <1>11 DEF ConnectionLost, Fault, bridgeVars, lossVars
  <2> QED
    BY <1>1, <1>2, <2>1 DEF Losses
<1>12. ASSUME \/ TakeCommand(w) \/ BrokerReceives(w) \/ PublishAcked(w) \/ StartHandler(w)
              \/ FinishHandler(w) \/ NoticeLoss(w) \/ PublishCommand(w) \/ MessageArrives(w)
              \/ UNCHANGED vars
       PROVE  UNCHANGED <<run, lost, faults, session>>
  BY <1>12 DEF TakeCommand, BrokerReceives, PublishAcked, StartHandler, FinishHandler,
               NoticeLoss, PublishCommand, MessageArrives, historyVars, lossVars, appVars,
               brokerVars, vars,
               bridgeVars
<1> QED
  BY <1>4, <1>5, <1>6, <1>8, <1>10, <1>11, <1>12 DEF Next, Progress

LEMMA LossInit ==
    ASSUME NEW w \in Workers, Init
    PROVE  Losses(w)
  BY FS_EmptySet DEF Init, Losses

(***************************************************************************)
(* Each fault costs a lone worker one command at most as long as its       *)
(* process goes on, a stop() whose cancellation is lost notwithstanding.   *)
(* Of several workers this is not true: one that takes the session over    *)
(* costs the other the command it had in flight without any fault.         *)
(***************************************************************************)
THEOREM BreaksCostOneCommand ==
    ASSUME NEW w, Workers = {w}
    PROVE  Spec => []OneLossPerBreak
<1>1. Init => BridgeInv /\ Losses(w)
  BY BridgeInit, LossInit DEF BridgeInv
<1>2. BridgeInv /\ Losses(w) /\ [Next]_vars => BridgeInv' /\ Losses(w)'
  BY TypeStep, ConnectionStep, LossStep DEF BridgeInv
<1>3. Losses(w) => OneLossPerBreak
  BY DEF Losses, OneLossPerBreak
<1> QED
  BY <1>1, <1>2, <1>3, PTL DEF Spec

===============================================================================
