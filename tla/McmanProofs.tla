----------------------------- MODULE McmanProofs ----------------------------
(***************************************************************************)
(* Theorems about the clients and the daemon together, whose steps also    *)
(* keep what DaemonProofs and DaemonOrderProofs say of the daemon.         *)
(***************************************************************************)
EXTENDS Mcman, DaemonOrderProofs

(***************************************************************************)
(* The daemon beside the clients.                                          *)
(***************************************************************************)

LEMMA DisconnectKeeps ==
    ASSUME DaemonHolds, NEW c \in Clients, Disconnect(c)
    PROVE  DaemonHolds'
<1>1. /\ UNCHANGED <<senders, outbox, todo, answering, subscriptions, thread, cmds, jobs, queue,
                     eventQueue>>
      /\ UNCHANGED UnitVars /\ pc' = pc
      /\ UNCHANGED <<inbox, counter, senders, main, sweeping, answering>>
  BY DEF Disconnect, AcceptorRest, managerVars, workVars, replyVars, supervisionVars, UnitVars
<1>2. UnitsInv' /\ MsgInv'
  BY <1>1, MsgSame, UnitsSame DEF DaemonHolds
<1>3. OrderInv'
  <2>1. CASE Up
    BY <2>1, ClientOrder DEF DaemonHolds
  <2>2. CASE ~Up
    BY <1>1, <2>2, BoxSame, CountSame, FlagSame DEF DaemonHolds, OrderInv, Up
  <2> QED BY <2>1, <2>2
<1>4. DeskInv' /\ AnswersInv'
  BY ClientThreadTypes, ClientAnswers DEF DaemonHolds
<1> QED BY <1>2, <1>3, <1>4 DEF DaemonHolds

\* A step of a client that does not send is that it goes, or none of the daemon's.
LEMMA ClientMoves ==
    ASSUME NEW c, ClientNext(c)
    PROVE  Call(c) \/ Disconnect(c) \/ UNCHANGED daemonVars
<1>1. ASSUME NEW how, Becomes(c, how), c \in connected
      PROVE  Disconnect(c) \/ UNCHANGED daemonVars
  BY <1>1 DEF Becomes, Disconnect, DaemonRest, daemonVars, clientVars, AcceptorRest
<1> QED BY <1>1 DEF ClientNext, CallFails, Receive, ReceiveFails

\* What a client was called for.  Only one that was called connects.
CalledInv ==
    /\ called \in [Clients -> Requests \cup {None}]
    /\ \A c \in Clients : called[c] # None =>
          called[c].kind \notin {"GetVersion", "SubscribeEvent"}
    /\ \A c \in connected : called[c] # None

LEMMA ManInitHolds ==
    ASSUME ManInit
    PROVE  DaemonHolds /\ CalledInv
<1>1. DaemonHolds
  BY DaemonInit DEF ManInit
<1> QED BY <1>1, McmanAssumption DEF ManInit, Init, CalledInv, McmanAssumption

LEMMA ManNextHolds ==
    ASSUME DaemonHolds, CalledInv, [ManNext]_manVars
    PROVE  DaemonHolds' /\ CalledInv'
<1>1. CASE Up /\ Threads /\ (\A c \in connected' : called[c] # None) /\ UNCHANGED called
  <2>1. Next
    BY <1>1 DEF Next
  <2> QED BY <1>1, <2>1, DaemonStepKeeps DEF CalledInv
<1>2. ASSUME NEW c \in Clients, ClientNext(c)
      PROVE  DaemonHolds' /\ CalledInv'
  <2>1. CASE Call(c)
    <3>1. Up /\ c \in connected /\ Send(c, called[c]) /\ UNCHANGED connected
      BY <2>1 DEF Call, Send
    <3>2. called[c] \in Requests
      BY <3>1 DEF CalledInv, DaemonHolds, DeskInv, ClientTypes
    <3>3. Next
      BY <3>1, <3>2 DEF Next
    <3> QED BY <1>2, <3>1, <3>3, DaemonStepKeeps DEF CalledInv, ClientNext
  <2>2. CASE Disconnect(c)
    BY <1>2, <2>2, DisconnectKeeps DEF CalledInv, ClientNext, Disconnect
  <2>3. CASE UNCHANGED daemonVars
    BY <1>2, <2>3, DaemonStepKeeps DEF CalledInv, ClientNext, daemonVars, clientVars
  <2> QED BY <1>2, <2>1, <2>2, <2>3, ClientMoves
<1>3. CASE UNCHANGED manVars
  BY <1>3, DaemonStepKeeps DEF manVars, CalledInv, daemonVars, clientVars
<1> QED BY <1>1, <1>2, <1>3 DEF ManNext

\* The daemon keeps its own invariants, whatever the clients are called for.
THEOREM ManDaemonHolds == ManSpec => [](DaemonHolds /\ CalledInv)
  BY ManInitHolds, ManNextHolds, PTL DEF ManSpec

(***************************************************************************)
(* What a client is sent.                                                  *)
(***************************************************************************)

\* What Threads does to the clients' side of the daemon.
LEMMA ThreadsClients ==
    ASSUME DaemonHolds, Up, Threads
    PROVE  /\ UNCHANGED requests
           /\ \/ connected' = connected
              \/ /\ main = "accept" /\ connected' = connected \cup {counter}
                 /\ inbox'[counter] = <<SetSender, VersionResponse>>
                 /\ counter \in Clients /\ UNCHANGED <<managerVars, answering, todo>>
           /\ pc = "closing" => pc' \in {"closing", "exited"}
<1>1. CASE Acceptor
  <2>1. ~RefuseClient
    BY McmanAssumption DEF RefuseClient, McmanAssumption, DaemonHolds, DeskInv, ClientTypes
  <2>2. CASE Register
    BY <2>2 DEF Register, AcceptorRest, supervisionVars
  <2>3. CASE Greet /\ ~Dies("exited")
    <3>1. /\ main = "accept" /\ counter \in Clients /\ UNCHANGED <<requests, supervisionVars>>
          /\ UNCHANGED <<managerVars, answering, todo>>
          /\ connected' = connected \cup {counter}
          /\ inbox' = [inbox EXCEPT ![counter] = <<SetSender, VersionResponse>>]
      BY <2>3 DEF Greet
    <3>2. DOMAIN inbox = Clients
      BY DEF DaemonHolds, OrderInv, BoxInv
    <3> QED BY <3>1, <3>2 DEF supervisionVars
  <2>4. CASE Greet /\ Dies("exited")
    <3>1. pc' = "exited" /\ (UNCHANGED clientVars
                            \/ /\ UNCHANGED requests /\ main = "accept" /\ counter \in Clients
                               /\ UNCHANGED <<managerVars, answering, todo>>
                               /\ connected' = connected \cup {counter}
                               /\ inbox' = [inbox EXCEPT
                                      ![counter] = <<SetSender, VersionResponse>>])
      BY <2>4 DEF Greet, Dies
    <3>2. DOMAIN inbox = Clients
      BY DEF DaemonHolds, OrderInv, BoxInv
    <3> QED BY <3>1, <3>2 DEF clientVars
  <2> QED BY <1>1, <2>1, <2>2, <2>3, <2>4 DEF Acceptor
<1>2. CASE \E c \in Clients : Relay(c) \/ Hangup(c)
  BY <1>2 DEF Relay, Hangup, supervisionVars
<1>3. CASE DaemonThread
  <2>1. UNCHANGED clientVars
    BY <1>3, CommandsRest DEF DaemonHolds, DaemonThread, OfUnits, SendSubscription, SpawnWorker,
       Reply, HandOut, TakeUnit, TakeStopDaemon, Broadcast, ExitDaemon, Elsewhere, Rest
  <2>2. CASE pc = "closing"
    <3>1. ExitDaemon
      <4>1. ~Commands
        BY <2>2 DEF Commands, HandleList, HandleGetVersion, HandleUnknownServer, HandleStart,
           HandleStop, HandleSubscribeEvent, HandleInput, HandleStopDaemon, HandleInstall,
           HandleUpdate, Incoming
      <4>2. ~OfUnits
        BY <2>2 DEF OfUnits, Autostart, StartThread, WriteStop, Sweep, Visit, HasStarted, Wait,
           EndSweep
      <4> QED BY <1>3, <2>2, <4>1, <4>2 DEF DaemonThread, SendSubscription, SpawnWorker, Reply,
              HandOut, TakeUnit, TakeStopDaemon, Broadcast
    <3> QED BY <2>1, <3>1 DEF ExitDaemon, clientVars
  <2> QED BY <2>1, <2>2 DEF clientVars
<1>4. CASE \/ Manager \/ OfServers(LogNext) \/ OfServers(ProcessNext)
           \/ \E j \in 1 .. MaxJobs : OfJob(j)
  BY <1>4 DEF Manager, OfServers, OfJob, clientVars, supervisionVars
<1> QED BY <1>1, <1>2, <1>3, <1>4 DEF Threads

LEMMA ManBoxes ==
    ASSUME DaemonHolds, Up, Threads, NEW c \in Clients
    PROVE  BoxStep(c)
<1>1. ~RefuseClient
  BY McmanAssumption DEF RefuseClient, McmanAssumption, DaemonHolds, DeskInv, ClientTypes
<1> QED BY <1>1, ThreadsBoxes

(***************************************************************************)
(* Types.  A client sends its command once; it has taken what is in its    *)
(* inbox up to a place; and one that has ended is gone.                    *)
(***************************************************************************)

SaidInv ==
    \A c \in Clients : requests[c] = IF read[c] = 0 THEN <<>> ELSE <<called[c]>>
ReadInv ==
    /\ read \in [Clients -> Nat]
    /\ outcome \in [Clients -> {"running", "ended", "panicked"}]
    /\ \A c \in Clients :
          /\ read[c] <= Len(inbox[c])
          /\ read[c] # 0 => read[c] >= 2
          /\ c \in connected => Len(inbox[c]) >= 2
          /\ outcome[c] # "running" => c \notin connected /\ (read[c] >= 3 \/ pc = "exited")
ClientInv == SaidInv /\ ReadInv

LEMMA Boxes ==
    ASSUME DaemonHolds, NEW c \in Clients
    PROVE  inbox[c] \in Seq(DaemonResponse) /\ Len(inbox[c]) \in Nat
  BY DEF DaemonHolds, DeskInv, ReplyTypes

\* The client that is greeted has not called yet.
LEMMA NewIsSilent ==
    ASSUME DaemonHolds, ClientInv, main = "accept", counter \in Clients
    PROVE  read[counter] = 0
<1>1. counter \notin senders
  <2>1. ~(counter < counter)
    BY DEF DaemonHolds, OrderInv, CountInv
  <2> QED BY <2>1 DEF DaemonHolds, OrderInv, CountInv
<1>2. requests[counter] = <<>>
  BY <1>1 DEF DaemonHolds, AnswersInv, FreshInv
<1>3. <<called[counter]>> # <<>>
  OBVIOUS
<1> QED BY <1>2, <1>3 DEF ClientInv, SaidInv

LEMMA ThreadsKeepClients ==
    ASSUME DaemonHolds, ClientInv, Up, Threads, UNCHANGED <<called, read, outcome>>
    PROVE  ClientInv'
<1>1. SaidInv'
  BY ThreadsClients DEF ClientInv, SaidInv
<1>2. ASSUME NEW c \in Clients
      PROVE  /\ read[c] <= Len(inbox'[c])
             /\ c \in connected' => Len(inbox'[c]) >= 2
             /\ outcome[c] # "running" => c \notin connected' /\ read[c] >= 3
  <2>1. /\ read[c] <= Len(inbox[c]) /\ read[c] \in Nat /\ Len(inbox[c]) \in Nat
        /\ c \in connected => Len(inbox[c]) >= 2
        /\ outcome[c] # "running" => c \notin connected /\ read[c] >= 3
    BY Boxes DEF ClientInv, ReadInv, Up
  <2>2. main = "accept" /\ c = counter => read[c] = 0
    BY NewIsSilent
  <2>3. Len(<<SetSender, VersionResponse>>) = 2
    OBVIOUS
  <2>4. c \in connected' /\ c \notin connected
            => main = "accept" /\ c = counter /\ inbox'[c] = <<SetSender, VersionResponse>>
    BY ThreadsClients
  <2>5. CASE inbox'[c] = inbox[c]
    <3>1. CASE c \in connected' /\ c \notin connected
      <4>1. read[c] = 0 /\ Len(inbox'[c]) = 2
        BY <2>2, <2>3, <2>4, <3>1
      <4> QED BY <2>1, <4>1
    <3>2. CASE ~(c \in connected' /\ c \notin connected)
      BY <2>1, <2>5, <3>2
    <3> QED BY <3>1, <3>2
  <2>6. CASE c = counter /\ main = "accept" /\ inbox'[c] = <<SetSender, VersionResponse>>
    BY <2>1, <2>2, <2>3, <2>6
  <2>7. CASE c \in connected /\ \E x : Adds(inbox[c], inbox'[c], x)
    <3>1. Len(inbox'[c]) = Len(inbox[c]) + 1
      BY <2>7 DEF Adds
    <3> QED BY <2>1, <2>7, <3>1
  <2> QED BY <2>5, <2>6, <2>7, ManBoxes DEF BoxStep
<1>3. ReadInv'
  BY <1>2 DEF ClientInv, ReadInv
<1> QED BY <1>1, <1>3 DEF ClientInv

LEMMA CallKeepsClients ==
    ASSUME DaemonHolds, ClientInv, NEW c \in Clients, Call(c), UNCHANGED called
    PROVE  ClientInv'
<1>1. /\ c \in connected /\ read[c] = 0 /\ read' = [read EXCEPT ![c] = 2]
      /\ requests' = [requests EXCEPT ![c] = Append(@, called[c])]
      /\ UNCHANGED <<inbox, outcome, connected, pc>>
  BY DEF Call, Send, AcceptorRest, replyVars, supervisionVars
<1>2. requests \in [Clients -> Seq(Requests)]
  BY DEF DaemonHolds, DeskInv, ClientTypes
<1>3. SaidInv'
  <2>1. requests[c] = <<>> /\ requests'[c] = Append(requests[c], called[c])
    BY <1>1, <1>2 DEF ClientInv, SaidInv
  <2>2. requests'[c] = <<called[c]>> /\ read'[c] = 2
    BY <1>1, <2>1 DEF ClientInv, ReadInv
  <2>3. \A d \in Clients : d # c => requests'[d] = requests[d] /\ read'[d] = read[d]
    BY <1>1, <1>2 DEF ClientInv, ReadInv
  <2>4. ASSUME NEW d \in Clients
        PROVE  requests'[d] = IF read'[d] = 0 THEN <<>> ELSE <<called'[d]>>
    <3>1. requests[d] = IF read[d] = 0 THEN <<>> ELSE <<called[d]>>
      BY DEF ClientInv, SaidInv
    <3> QED BY <2>2, <2>3, <3>1
  <2> QED BY <2>4 DEF SaidInv
<1>4. ReadInv'
  <2>1. Len(inbox[c]) >= 2 /\ Len(inbox[c]) \in Nat /\ outcome[c] = "running"
    BY <1>1, Boxes DEF ClientInv, ReadInv
  <2>2. \A d \in Clients : read'[d] = IF d = c THEN 2 ELSE read[d]
    BY <1>1 DEF ClientInv, ReadInv
  <2>3. read' \in [Clients -> Nat]
    BY <1>1 DEF ClientInv, ReadInv
  <2> QED BY <1>1, <2>1, <2>2, <2>3 DEF ClientInv, ReadInv
<1> QED BY <1>3, <1>4 DEF ClientInv

LEMMA AfterTypes ==
    \A cmd, n, m : After(cmd, n, m) \in {"running", "ended", "panicked"}
  BY DEF After

LEMMA RestKeepsClients ==
    ASSUME DaemonHolds, ClientInv, NEW c \in Clients, UNCHANGED called,
           CallFails(c) \/ Receive(c) \/ ReceiveFails(c)
    PROVE  ClientInv'
<1>1. PICK how \in {"running", "ended", "panicked"} : Becomes(c, how)
  BY AfterTypes DEF CallFails, Receive, ReceiveFails
<1>2. /\ outcome' = [outcome EXCEPT ![c] = how]
      /\ connected' = IF how = "running" THEN connected ELSE connected \ {c}
      /\ UNCHANGED <<inbox, requests, pc>> /\ c \in connected
  BY <1>1 DEF Becomes, DaemonRest, AcceptorRest, replyVars, supervisionVars, CallFails, Receive,
     ReceiveFails
<1>3. \/ UNCHANGED read /\ pc = "exited"
      \/ /\ requests[c] # <<>> /\ read[c] < Len(inbox[c])
         /\ read' = [read EXCEPT ![c] = @ + 1]
  BY DEF CallFails, Receive, ReceiveFails
<1>4. read \in [Clients -> Nat] /\ Len(inbox[c]) \in Nat /\ read[c] <= Len(inbox[c])
  BY Boxes DEF ClientInv, ReadInv
<1>5. requests[c] # <<>> => read[c] >= 2
  BY DEF ClientInv, SaidInv, ReadInv
<1>6. /\ read' \in [Clients -> Nat] /\ read'[c] <= Len(inbox[c])
      /\ read'[c] = 0 <=> read[c] = 0
      /\ read'[c] # 0 => read'[c] >= 2
      /\ read'[c] >= 3 \/ pc = "exited"
      /\ \A d \in Clients : d # c => read'[d] = read[d]
  <2>1. CASE UNCHANGED read /\ pc = "exited"
    BY <1>4, <2>1 DEF ClientInv, ReadInv
  <2>2. CASE ~(UNCHANGED read /\ pc = "exited")
    <3>1. read[c] >= 2 /\ read' = [read EXCEPT ![c] = @ + 1] /\ read[c] < Len(inbox[c])
      BY <1>3, <1>5, <2>2
    <3>2. read'[c] = read[c] + 1 /\ read[c] \in Nat
      BY <1>4, <3>1
    <3> QED BY <1>4, <3>1, <3>2
  <2> QED BY <2>1, <2>2
<1>7. SaidInv'
  BY <1>2, <1>6 DEF ClientInv, SaidInv
<1>8. ReadInv'
  <2>1. /\ outcome' \in [Clients -> {"running", "ended", "panicked"}]
        /\ outcome'[c] # "running" => c \notin connected'
        /\ \A d \in Clients : d # c => outcome'[d] = outcome[d]
        /\ connected' \subseteq connected
    BY <1>2 DEF ClientInv, ReadInv
  <2> QED BY <1>2, <1>6, <2>1 DEF ClientInv, ReadInv
<1> QED BY <1>7, <1>8 DEF ClientInv

LEMMA ManClients ==
    ASSUME DaemonHolds, ClientInv, [ManNext]_manVars
    PROVE  ClientInv'
<1>1. CASE UNCHANGED manVars
  <2>1. UNCHANGED <<inbox, requests, connected, pc, called, read, outcome>>
    BY <1>1 DEF manVars, daemonVars, clientVars, replyVars, supervisionVars
  <2> QED BY <2>1 DEF ClientInv, SaidInv, ReadInv
<1> QED BY <1>1, ThreadsKeepClients, CallKeepsClients, RestKeepsClients DEF ManNext, ClientNext

LEMMA ManClientsInit ==
    ASSUME ManInit
    PROVE  ClientInv
<1>1. /\ read = [c \in Clients |-> 0] /\ outcome = [c \in Clients |-> "running"]
      /\ requests = [c \in Clients |-> <<>>] /\ inbox = [c \in Clients |-> <<>>]
      /\ connected = {}
  BY DEF ManInit, Init
<1> QED BY <1>1 DEF ClientInv, SaidInv, ReadInv

\* The type invariant of the clients and the daemon together (mcman.rs with
\* mcmand.rs): what is in every queue, inbox and hand has its type, and a client
\* has taken no more than it was sent.
THEOREM ManTypes == ManSpec => []ManTypeOK
<1>1. ManInit => ClientInv
  BY ManClientsInit
<1>2. DaemonHolds /\ CalledInv /\ ClientInv /\ [ManNext]_manVars => ClientInv'
  BY ManClients
<1>3. DaemonHolds /\ CalledInv /\ ClientInv => ManTypeOK
  BY TypesFollow DEF DaemonHolds, CalledInv, ClientInv, ReadInv, ManTypeOK
<1> QED BY <1>1, <1>2, <1>3, ManDaemonHolds, PTL DEF ManSpec

(***************************************************************************)
(* Answers.  The one that a client expects of its command is what it gets, *)
(* but for an unknown unit.                                                *)
(***************************************************************************)

Fitting(m) ==
    m.kind = "Answer" /\ Strict(m.to) =>
        \/ Label(m) \in Script(m.to)[1]
        \/ m.to.kind \in {"Start", "Stop"} /\ m.response = "ServerNotFound"
FitInv ==
    /\ \A c \in Clients : \A i \in 1 .. Len(inbox[c]) : Fitting(inbox[c][i])
    /\ answering # None => Fitting(answering.response)

LEMMA LabelsAre ==
    /\ \A m : m.kind = "Answer" => Label(m) = <<"Answer", m.response>>
    /\ \A m : m.kind = "ServerEvent" => Label(m) = <<"ServerEvent", m.event.type>>
  BY DEF Label

LEMMA ScriptsAre ==
    ASSUME NEW cmd
    PROVE  /\ cmd.kind = "List" => Script(cmd) = << {<<"Answer", "List">>} >>
           /\ cmd.kind = "Start" /\ ~cmd.wait =>
                 Script(cmd) = << {<<"Answer", "ServerStarted">>} >>
           /\ cmd.kind = "Stop" /\ ~cmd.wait =>
                 Script(cmd) = << {<<"Answer", "ServerStopped">>} >>
           /\ cmd.kind = "Start" /\ cmd.wait =>
                 Script(cmd) = << {Ok}, {Event("ServerStarting"), Event("ServerFailed")},
                                  {Event("ServerStarted"), Event("ServerFailed")} >>
           /\ cmd.kind = "Stop" /\ cmd.wait =>
                 Script(cmd) = << {Ok}, {Event("ServerStopping")}, {Event("ServerStopped")} >>
           /\ cmd.kind \in {"SendMessage", "SendCommand"} =>
                 Script(cmd) = << {Ok, <<"Answer", "ServerNotFound">>} >>
<1>1. CASE cmd.kind \notin {"Start", "Stop"}
  BY <1>1 DEF Script
<1>2. CASE cmd.kind = "Start"
  BY <1>2 DEF Script
<1>3. CASE cmd.kind = "Stop"
  BY <1>3 DEF Script
<1> QED BY <1>1, <1>2, <1>3

LEMMA ScriptsStart ==
    ASSUME NEW cmd
    PROVE  /\ cmd.kind = "List" => Script(cmd)[1] = {<<"Answer", "List">>}
           /\ cmd.kind = "Start" /\ ~cmd.wait => Script(cmd)[1] = {<<"Answer", "ServerStarted">>}
           /\ cmd.kind = "Stop" /\ ~cmd.wait => Script(cmd)[1] = {<<"Answer", "ServerStopped">>}
           /\ cmd.kind \in {"Start", "Stop"} /\ cmd.wait => Script(cmd)[1] = {Ok}
           /\ cmd.kind \in {"SendMessage", "SendCommand"} =>
                 Script(cmd)[1] = {Ok, <<"Answer", "ServerNotFound">>}
<1>1. \A x : <<x>>[1] = x
  OBVIOUS
<1>2. \A x, y, z : <<x, y, z>>[1] = x
  OBVIOUS
<1> QED BY <1>1, <1>2, ScriptsAre

LEMMA ReturnsFits ==
    ASSUME NEW response, NEW list, NEW subs, Returns(response, list, subs),
           LET cmd == Head(queue).cmd
           IN Strict(cmd) => \/ <<"Answer", response>> \in Script(cmd)[1]
                             \/ /\ cmd.kind \in {"Start", "Stop"}
                                /\ response = "ServerNotFound"
    PROVE  Fitting(answering'.response)
<1>1. PICK a : a = answering'
  OBVIOUS
<1>2. PICK cmd : cmd = Head(queue).cmd
  OBVIOUS
<1>3. a = [client_id |-> Head(queue).id, response |-> Answer(cmd, response, list)]
  BY <1>1, <1>2 DEF Returns
<1>4. a.response.kind = "Answer" /\ a.response.to = cmd /\ a.response.response = response
  BY <1>3 DEF Answer
<1>5. Fitting(a.response)
  BY <1>2, <1>4, LabelsAre DEF Fitting
<1> QED BY <1>1, <1>5

LEMMA CommandsFit ==
    ASSUME Commands
    PROVE  Fitting(answering'.response)
<1> DEFINE cmd == Head(queue).cmd
<1>1. CASE HandleList
  <2>1. cmd.kind = "List" /\ \E list : Returns("List", list, <<>>)
    BY <1>1 DEF HandleList, Incoming
  <2> QED BY <2>1, ReturnsFits, ScriptsStart
<1>2. CASE HandleUnknownServer
  <2>1. /\ cmd.kind \in {"Start", "Stop", "SendMessage", "SendCommand", "UpdateServer"}
        /\ Returns("ServerNotFound", None, <<>>)
    BY <1>2 DEF HandleUnknownServer, Incoming
  <2>2. CASE cmd.kind \in {"Start", "Stop", "UpdateServer"}
    BY <2>1, <2>2, ReturnsFits DEF Strict
  <2>3. CASE cmd.kind \in {"SendMessage", "SendCommand"}
    BY <2>1, <2>3, ReturnsFits, ScriptsStart
  <2> QED BY <2>1, <2>2, <2>3
<1>3. CASE HandleStart
  <2>1. cmd.kind = "Start"
    BY <1>3 DEF HandleStart, Incoming
  <2>2. CASE cmd.wait
    <3>1. \E subs : Returns("Ok", None, subs)
      BY <1>3, <2>2 DEF HandleStart
    <3> QED BY <2>1, <2>2, <3>1, ReturnsFits, ScriptsStart DEF Ok
  <2>3. CASE ~cmd.wait
    <3>1. Returns("ServerStarted", None, <<>>)
      BY <1>3, <2>3 DEF HandleStart
    <3> QED BY <2>1, <2>3, <3>1, ReturnsFits, ScriptsStart
  <2> QED BY <2>2, <2>3
<1>4. CASE HandleStop
  <2>1. cmd.kind = "Stop"
    BY <1>4 DEF HandleStop, Incoming
  <2>2. CASE cmd.wait
    <3>1. \E subs : Returns("Ok", None, subs)
      BY <1>4, <2>2 DEF HandleStop
    <3> QED BY <2>1, <2>2, <3>1, ReturnsFits, ScriptsStart DEF Ok
  <2>3. CASE ~cmd.wait
    <3>1. Returns("ServerStopped", None, <<>>)
      BY <1>4, <2>3 DEF HandleStop
    <3> QED BY <2>1, <2>3, <3>1, ReturnsFits, ScriptsStart
  <2> QED BY <2>2, <2>3
<1>5. CASE HandleInput
  <2>1. cmd.kind \in {"SendMessage", "SendCommand"} /\ Returns("Ok", None, <<>>)
    BY <1>5 DEF HandleInput, Incoming
  <2> QED BY <2>1, ReturnsFits, ScriptsStart DEF Ok
<1>6. CASE \/ HandleGetVersion \/ HandleSubscribeEvent \/ HandleStopDaemon \/ HandleInstall
           \/ HandleUpdate
  <2>1. ~Strict(cmd) /\ \E response, list, subs : Returns(response, list, subs)
    BY <1>6 DEF HandleGetVersion, HandleSubscribeEvent, HandleStopDaemon, HandleInstall,
       HandleUpdate, Incoming, Strict
  <2> QED BY <2>1, ReturnsFits
<1> QED BY <1>1, <1>2, <1>3, <1>4, <1>5, <1>6 DEF Commands

LEMMA ThreadsFit ==
    ASSUME DaemonHolds, FitInv, Up, Threads
    PROVE  FitInv'
<1>1. answering' # None => Fitting(answering'.response)
  BY ThreadsAnswering, CommandsFit DEF FitInv
<1>2. ASSUME NEW c \in Clients, NEW i \in 1 .. Len(inbox'[c])
      PROVE  Fitting(inbox'[c][i])
  <2>1. Len(inbox[c]) \in Nat
    BY Boxes
  <2>2. CASE inbox'[c] = inbox[c]
    BY <1>2, <2>2 DEF FitInv
  <2>3. CASE inbox'[c] = <<SetSender, VersionResponse>>
    <3>1. inbox'[c][i] \in {SetSender, VersionResponse}
      BY <1>2, <2>3
    <3> QED BY <3>1 DEF Fitting, SetSender, VersionResponse
  <2>4. ASSUME NEW x, Adds(inbox[c], inbox'[c], x),
               \/ Holds(answering, c) /\ x = answering.response
               \/ x = EventResponse(Head(queue).event)
               \/ x = StoppedResponse
        PROVE  Fitting(inbox'[c][i])
    <3>1. Fitting(x)
      <4>1. CASE Holds(answering, c) /\ x = answering.response
        BY <4>1 DEF FitInv, Holds
      <4>2. CASE x = EventResponse(Head(queue).event) \/ x = StoppedResponse
        BY <4>2 DEF Fitting, EventResponse, StoppedResponse
      <4> QED BY <2>4, <4>1, <4>2
    <3>2. CASE i = Len(inbox[c]) + 1
      BY <2>4, <3>1, <3>2 DEF Adds
    <3>3. CASE i # Len(inbox[c]) + 1
      <4>1. i \in 1 .. Len(inbox[c])
        BY <1>2, <2>1, <2>4, <3>3 DEF Adds
      <4> QED BY <2>4, <4>1 DEF Adds, FitInv
    <3> QED BY <3>2, <3>3
  <2> QED BY <2>2, <2>3, <2>4, ManBoxes DEF BoxStep
<1> QED BY <1>1, <1>2 DEF FitInv

\* What is sent to a client, and the answer in hand, are Threads' alone.
LEMMA ManSteps ==
    ASSUME [ManNext]_manVars
    PROVE  \/ Up /\ Threads /\ UNCHANGED <<called, read, outcome>>
           \/ UNCHANGED <<inbox, answering, pc>> /\ UNCHANGED called
<1>1. ASSUME NEW c, ClientNext(c)
      PROVE  UNCHANGED <<inbox, answering, pc, called>>
  BY <1>1, ClientMoves DEF ClientNext, Call, Send, Disconnect, AcceptorRest, replyVars,
     supervisionVars, daemonVars
<1>2. CASE UNCHANGED manVars
  BY <1>2 DEF manVars, daemonVars, replyVars, supervisionVars
<1> QED BY <1>1, <1>2 DEF ManNext

LEMMA ManFits ==
    ASSUME DaemonHolds, FitInv, [ManNext]_manVars
    PROVE  FitInv'
<1>1. CASE UNCHANGED <<inbox, answering>>
  BY <1>1 DEF FitInv
<1> QED BY <1>1, ManSteps, ThreadsFit

(***************************************************************************)
(* The order of what a client is sent: the greeting, the answer to its     *)
(* command, and then events; and after that only the daemon's end.         *)
(***************************************************************************)

Shape(box, cmd) ==
    /\ Len(box) # 1
    /\ \A i \in 1 .. Len(box) :
          /\ i <= 2 => box[i].kind \notin {"Answer", "ServerEvent"}
          /\ i = 3 => box[i].kind = "Answer" /\ box[i].to = cmd
          /\ i > 3 => box[i].kind = "ServerEvent"
Ending == pc \in {"closing", "exited"}
ShapeInv == ~Ending => \A c \in Clients : Shape(inbox[c], called[c])

LEMMA Sizes ==
    ASSUME NEW n \in Nat
    PROVE  /\ n > 2 => n # 2
           /\ n >= 2 /\ ~(n >= 3) => n = 2
           /\ n >= 2 /\ n # 2 => n + 1 > 3 /\ ~(n + 1 <= 2) /\ n + 1 # 3
           /\ n = 2 => 3 .. n = {} /\ n - 2 = 0
  OBVIOUS

LEMMA ShapeGrows ==
    ASSUME NEW box, NEW box2, NEW cmd, NEW x, Len(box) \in Nat, Len(box) >= 2,
           Shape(box, cmd), Adds(box, box2, x),
           IF Len(box) = 2 THEN x.kind = "Answer" /\ x.to = cmd ELSE x.kind = "ServerEvent"
    PROVE  Shape(box2, cmd)
<1>1. Len(box2) = Len(box) + 1 /\ Len(box2) # 1
  BY DEF Adds
<1>2. ASSUME NEW i \in 1 .. Len(box2)
      PROVE  /\ i <= 2 => box2[i].kind \notin {"Answer", "ServerEvent"}
             /\ i = 3 => box2[i].kind = "Answer" /\ box2[i].to = cmd
             /\ i > 3 => box2[i].kind = "ServerEvent"
  <2>1. CASE i = Len(box) + 1
    <3>1. box2[i] = x
      BY <2>1 DEF Adds
    <3>2. CASE Len(box) = 2
      <4>1. i = 3 /\ ~(i <= 2) /\ ~(i > 3)
        BY <2>1, <3>2
      <4> QED BY <3>1, <3>2, <4>1
    <3>3. CASE Len(box) # 2
      <4>1. i > 3 /\ ~(i <= 2) /\ i # 3
        BY <2>1, <3>3, Sizes
      <4> QED BY <3>1, <3>3, <4>1
    <3> QED BY <3>2, <3>3
  <2>2. CASE i # Len(box) + 1
    <3>1. i \in 1 .. Len(box)
      BY <1>1, <2>2
    <3>2. box2[i] = box[i]
      BY <3>1 DEF Adds
    <3> QED BY <3>1, <3>2 DEF Shape
  <2> QED BY <2>1, <2>2
<1> QED BY <1>1, <1>2 DEF Shape

\* The one answer that a client is due is to the command it has sent.
LEMMA AnswerIsDue ==
    ASSUME DaemonHolds, ClientInv, ShapeInv, ~Ending, NEW c \in connected, Holds(answering, c)
    PROVE  Len(inbox[c]) = 2 /\ answering.response.to = called[c]
<1>1. /\ c \in Clients /\ inbox[c] \in Seq(DaemonResponse) /\ queue \in Seq(DaemonEvent)
      /\ cmds[c] \in Seq(Requests) /\ Len(inbox[c]) \in Nat
  BY Boxes DEF DaemonHolds, DeskInv, ClientTypes, BusTypes
<1>2. InLine(c, inbox[c], answering, queue, cmds[c], requests[c])
  BY DEF DaemonHolds, AnswersInv, LineInv
<1>3. PICK n, queued, unread \in Nat :
          /\ n = Count(inbox[c], AnswerMessage) /\ queued = Count(queue, OwnOf(c))
          /\ unread = Len(cmds[c])
  BY <1>1, WhereIs
<1>4. Len(requests[c]) = n + 1 + queued + unread /\ answering.response.to = requests[c][n + 1]
  BY <1>2, <1>3 DEF InLine, Held
<1>5. Len(requests[c]) \in {0, 1} /\ (Len(requests[c]) = 1 => requests[c][1] = called[c])
  <2>1. requests[c] = IF read[c] = 0 THEN <<>> ELSE <<called[c]>>
    BY <1>1 DEF ClientInv, SaidInv
  <2>2. Len(<<>>) = 0 /\ Len(<<called[c]>>) = 1 /\ <<called[c]>>[1] = called[c]
    OBVIOUS
  <2> QED BY <2>1, <2>2
<1>6. n = 0 /\ answering.response.to = called[c]
  <2>1. n \in Nat /\ queued \in Nat /\ unread \in Nat
    OBVIOUS
  <2>2. n = 0 /\ Len(requests[c]) = 1
    BY <1>4, <1>5, <2>1
  <2> QED BY <1>4, <1>5, <2>2
<1>7. \A i \in 1 .. Len(inbox[c]) : inbox[c][i] \notin AnswerMessage
  <2>1. \A i \in Where(inbox[c], AnswerMessage) :
            Place(Where(inbox[c], AnswerMessage), i) \in 1 .. 0
    BY <1>1, <1>3, <1>6, WhereIs
  <2>2. Where(inbox[c], AnswerMessage) = {}
    BY <2>1
  <2>3. DOMAIN inbox[c] = 1 .. Len(inbox[c])
    BY <1>1
  <2> QED BY <2>2, <2>3 DEF Where
<1>8. ~(Len(inbox[c]) >= 3)
  <2>1. CASE Len(inbox[c]) >= 3
    <3>1. 3 \in 1 .. Len(inbox[c])
      BY <1>1, <2>1
    <3>2. inbox[c][3] \in DaemonResponse /\ inbox[c][3].kind = "Answer"
      BY <1>1, <3>1 DEF ShapeInv, Shape
    <3>3. inbox[c][3] \in AnswerMessage
      BY <3>2 DEF DaemonResponse, SetSender, VersionResponse, StoppedResponse
    <3> QED BY <1>7, <3>1, <3>3
  <2> QED BY <2>1
<1>9. Len(inbox[c]) >= 2
  BY <1>1 DEF ClientInv, ReadInv
<1>10. Len(inbox[c]) = 2
  BY <1>1, <1>8, <1>9, Sizes
<1> QED BY <1>6, <1>10

\* An event follows an answer.
LEMMA EventIsLater ==
    ASSUME DaemonHolds, DaemonHolds', ShapeInv, ~Ending, NEW c \in Clients, NEW x,
           Adds(inbox[c], inbox'[c], x), x.kind = "ServerEvent"
    PROVE  Len(inbox[c]) > 2
<1>1. Len(inbox[c]) \in Nat
  BY Boxes
<1>2. Len(inbox'[c]) = Len(inbox[c]) + 1 /\ inbox'[c][Len(inbox[c]) + 1] = x
  BY DEF Adds
<1>3. PICK j \in 1 .. Len(inbox[c]) : inbox'[c][j].kind = "Answer"
  <2>1. EventsFollowTheirOk'
    BY DEF DaemonHolds, OrderInv
  <2>2. Len(inbox[c]) + 1 \in 1 .. Len(inbox'[c]) /\ Len(inbox[c]) + 1 - 1 = Len(inbox[c])
    BY <1>1, <1>2
  <2> QED BY <1>2, <2>1, <2>2 DEF EventsFollowTheirOk
<1>4. inbox[c][j].kind = "Answer"
  BY <1>3 DEF Adds
<1>5. ~(j <= 2)
  BY <1>3, <1>4 DEF ShapeInv, Shape
<1> QED BY <1>1, <1>3, <1>5

LEMMA GreetingShape ==
    ASSUME NEW cmd
    PROVE  Shape(<<SetSender, VersionResponse>>, cmd)
<1> DEFINE box == <<SetSender, VersionResponse>>
<1>1. Len(box) = 2 /\ box[1] = SetSender /\ box[2] = VersionResponse
  OBVIOUS
<1>2. SetSender.kind \notin {"Answer", "ServerEvent"}
      /\ VersionResponse.kind \notin {"Answer", "ServerEvent"}
  BY DEF SetSender, VersionResponse
<1>3. \A i \in 1 .. 2 : (i = 1 \/ i = 2) /\ i # 3 /\ ~(i > 3)
  OBVIOUS
<1> HIDE DEF box
<1>4. Shape(box, cmd)
  BY <1>1, <1>2, <1>3 DEF Shape
<1> QED BY <1>4 DEF box

LEMMA ManShape ==
    ASSUME DaemonHolds, DaemonHolds', ClientInv, ShapeInv, [ManNext]_manVars
    PROVE  ShapeInv'
<1>1. CASE UNCHANGED <<inbox, pc, called>>
  BY <1>1 DEF ShapeInv, Ending
<1>2. CASE Up /\ Threads /\ UNCHANGED called
  <2> SUFFICES ASSUME ~Ending', NEW c \in Clients
               PROVE  Shape(inbox'[c], called[c])
    BY <1>2 DEF ShapeInv
  <2>1. ~Ending
    BY <1>2, ThreadsClients DEF Ending, Up
  <2>2. Shape(inbox[c], called[c])
    BY <2>1 DEF ShapeInv
  <2>3. ASSUME c \in connected, NEW x, Adds(inbox[c], inbox'[c], x),
               \/ Holds(answering, c) /\ x = answering.response
               \/ x.kind = "ServerEvent"
        PROVE  Shape(inbox'[c], called[c])
    <3>1. Len(inbox[c]) \in Nat /\ Len(inbox[c]) >= 2
      BY <2>3, Boxes DEF ClientInv, ReadInv
    <3>2. CASE x.kind = "ServerEvent"
      <4>1. Len(inbox[c]) > 2
        BY <2>1, <2>3, <3>2, EventIsLater
      <4>2. Len(inbox[c]) # 2
        BY <3>1, <4>1, Sizes
      <4> QED BY <2>2, <2>3, <3>1, <3>2, <4>2, ShapeGrows
    <3>3. CASE Holds(answering, c) /\ x = answering.response
      <4>1. Len(inbox[c]) = 2 /\ x.to = called[c]
        BY <2>1, <2>3, <3>3, AnswerIsDue
      <4>2. x.kind = "Answer"
        BY <3>3, AnswerAssumption DEF Holds, DaemonHolds, DeskInv, ReplyTypes, Answering,
           AnswerMessage
      <4> QED BY <2>2, <2>3, <3>1, <4>1, <4>2, ShapeGrows
    <3> QED BY <2>3, <3>2, <3>3
  <2>4. EventResponse(Head(queue).event).kind = "ServerEvent"
    BY DEF EventResponse
  <2>5. CASE inbox'[c] = inbox[c]
    BY <2>2, <2>5
  <2>6. CASE inbox'[c] = <<SetSender, VersionResponse>>
    BY <2>6, GreetingShape
  <2>7. BoxStep(c) /\ pc' # "closing"
    BY <1>2, ManBoxes DEF Ending
  <2> QED BY <2>3, <2>4, <2>5, <2>6, <2>7 DEF BoxStep
<1> QED BY <1>1, <1>2, ManSteps

(***************************************************************************)
(* A client that looks at every message has found what it expects so far.  *)
(***************************************************************************)

PlayedInv ==
    \A c \in Clients :
        outcome[c] = "running" /\ read[c] > 0 /\ Strict(called[c]) =>
            /\ read[c] - 2 < Len(Script(called[c]))
            /\ \A i \in 3 .. read[c] : Label(inbox[c][i]) \in Script(called[c])[i - 2]

LEMMA ScriptsEnd ==
    ASSUME NEW cmd, Strict(cmd)
    PROVE  \/ Len(Script(cmd)) = 3 /\ cmd.kind \in {"Start", "Stop"} /\ cmd.wait
           \/ Len(Script(cmd)) = 1
<1>1. \A x, y, z : Len(<<x>>) = 1 /\ Len(<<x, y, z>>) = 3
  OBVIOUS
<1> QED BY <1>1, ScriptsAre DEF Strict

\* Threads leaves what a client has taken as it is.
LEMMA TakenStays ==
    ASSUME DaemonHolds, ClientInv, Up, Threads, NEW c \in Clients
    PROVE  /\ \A i \in 1 .. read[c] : inbox'[c][i] = inbox[c][i]
           /\ c \notin connected /\ read[c] # 0 => inbox'[c] = inbox[c]
<1>1. read[c] \in Nat /\ Len(inbox[c]) \in Nat /\ read[c] <= Len(inbox[c])
  BY Boxes DEF ClientInv, ReadInv
<1>2. c = counter /\ main = "accept" => read[c] = 0
  BY NewIsSilent
<1>3. \A i \in 1 .. read[c] : i \in 1 .. Len(inbox[c])
  BY <1>1
<1>4. read[c] = 0 => 1 .. read[c] = {}
  OBVIOUS
<1> QED BY <1>2, <1>3, <1>4, ManBoxes DEF BoxStep, Adds

LEMMA ManPlayed ==
    ASSUME DaemonHolds, ClientInv, PlayedInv, [ManNext]_manVars
    PROVE  PlayedInv'
<1>1. CASE UNCHANGED manVars
  BY <1>1 DEF PlayedInv, manVars, daemonVars, replyVars
<1>2. CASE Up /\ Threads /\ UNCHANGED <<called, read, outcome>>
  <2>1. \A c \in Clients : \A i \in 3 .. read[c] : i \in 1 .. read[c]
    BY DEF ClientInv, ReadInv
  <2> QED BY <1>2, <2>1, TakenStays DEF PlayedInv
<1>3. ASSUME NEW c \in Clients, ClientNext(c)
      PROVE  PlayedInv'
  <2>1. UNCHANGED <<inbox, called>> /\ read[c] \in Nat
    BY <1>3, ManSteps DEF ClientNext, ClientInv, ReadInv, Call, Send, CallFails, Receive,
       ReceiveFails, Becomes, DaemonRest, AcceptorRest, replyVars
  <2>2. \A d \in Clients : d # c => read'[d] = read[d] /\ outcome'[d] = outcome[d]
    BY <1>3 DEF ClientNext, ClientInv, ReadInv, Call, CallFails, Receive, ReceiveFails, Becomes
  <2>3. ASSUME outcome'[c] = "running", read'[c] > 0, Strict(called[c])
        PROVE  /\ read'[c] - 2 < Len(Script(called[c]))
               /\ \A i \in 3 .. read'[c] : Label(inbox[c][i]) \in Script(called[c])[i - 2]
    <3>1. Len(Script(called[c])) \in {1, 3}
      BY <2>3, ScriptsEnd
    <3>2. CASE Call(c)
      <4>1. read'[c] = 2
        BY <3>2 DEF Call, ClientInv, ReadInv
      <4>2. read'[c] - 2 = 0 /\ 3 .. read'[c] = {}
        BY <4>1, Sizes
      <4>3. 0 < Len(Script(called[c]))
        BY <3>1
      <4> QED BY <4>2, <4>3
    <3>3. CASE Receive(c)
      <4> DEFINE cmd == called[c]
                 n == read[c] - 1
                 m == inbox[c][read[c] + 1]
      <4>1. /\ read'[c] = read[c] + 1 /\ requests[c] # <<>>
            /\ outcome'[c] = After(cmd, n, m)
        BY <3>3 DEF Receive, Becomes, ClientInv, ReadInv
      <4>2. read[c] >= 2 /\ outcome[c] = "running"
        BY <3>3, <4>1 DEF ClientInv, SaidInv, ReadInv, Receive
      <4>3. Label(m) \in Script(cmd)[n] /\ n # Len(Script(cmd))
        BY <2>3, <4>1 DEF After
      <4>4. /\ read[c] - 2 < Len(Script(cmd))
            /\ \A i \in 3 .. read[c] : Label(inbox[c][i]) \in Script(cmd)[i - 2]
        BY <2>1, <2>3, <4>2 DEF PlayedInv
      <4>5. read'[c] - 2 = n /\ n < Len(Script(cmd))
        BY <2>1, <3>1, <4>1, <4>2, <4>3, <4>4
      <4>6. ASSUME NEW i \in 3 .. read'[c]
            PROVE  Label(inbox[c][i]) \in Script(cmd)[i - 2]
        <5>1. CASE i = read[c] + 1
          <6>1. i - 2 = n
            BY <2>1, <5>1
          <6> QED BY <4>3, <5>1, <6>1
        <5>2. CASE i # read[c] + 1
          <6>1. i \in 3 .. read[c]
            BY <2>1, <4>1, <4>6, <5>2
          <6> QED BY <4>4, <6>1
        <5> QED BY <5>1, <5>2
      <4> QED BY <4>5, <4>6
    <3>4. CASE CallFails(c) \/ ReceiveFails(c)
      <4>1. outcome'[c] # "running"
        BY <3>4 DEF CallFails, ReceiveFails, Becomes, ClientInv, ReadInv
      <4> QED BY <2>3, <4>1
    <3> QED BY <1>3, <3>2, <3>3, <3>4 DEF ClientNext
  <2> QED BY <2>1, <2>2, <2>3 DEF PlayedInv
<1> QED BY <1>1, <1>2, <1>3 DEF ManNext

(***************************************************************************)
(* Panics.                                                                 *)
(***************************************************************************)

\* The messages that tell of an event of type t with body b.
Tokens(t, b) == [type : {t}, server_id : Units, body : {b}]
NewsOf(t, b) == [kind : {"ServerEvent"}, event : Tokens(t, b)]

\* The events that a process causes no more than once.
Firsts == {"ServerStarting"} \cup (IF "Stopping" \in Echoes THEN {} ELSE {"ServerStopping"})

\* No client is sent one of them twice.
OnceInv ==
    \A c \in Clients, t \in Firsts, b \in Bodies : Count(inbox[c], NewsOf(t, b)) <= 1

LEMMA TwoAreMore ==
    ASSUME NEW T, NEW s \in Seq(T), NEW M, NEW i \in 1 .. Len(s), NEW j \in 1 .. Len(s), i # j,
           s[i] \in M, s[j] \in M
    PROVE  ~(Count(s, M) <= 1)
<1>1. DOMAIN s = 1 .. Len(s) /\ Len(s) \in Nat
  OBVIOUS
<1>2. {i, j} \subseteq Where(s, M)
  BY <1>1 DEF Where
<1>3. IsFiniteSet(Where(s, M)) /\ IsFiniteSet({i, j}) /\ Cardinality({i, j}) = 2
  <2>1. IsFiniteSet(1 .. Len(s))
    BY <1>1, FS_Interval
  <2>2. Where(s, M) \subseteq 1 .. Len(s)
    BY <1>1 DEF Where
  <2>3. IsFiniteSet({}) /\ Cardinality({}) = 0
    BY FS_EmptySet
  <2>4. IsFiniteSet({j}) /\ Cardinality({j}) = 1
    BY FS_Singleton
  <2>5. {i, j} = {j} \cup {i} /\ i \notin {j}
    OBVIOUS
  <2>6. IsFiniteSet({j} \cup {i}) /\ Cardinality({j} \cup {i}) = Cardinality({j}) + 1
    BY <2>4, <2>5, FS_AddElement
  <2>7. Cardinality({j} \cup {i}) = 2
    BY <2>4, <2>6
  <2>8. IsFiniteSet({i, j}) /\ Cardinality({i, j}) = 2
    BY <2>5, <2>6, <2>7, Zenon
  <2> QED BY <2>1, <2>2, <2>8, FS_Subset
<1>4. Cardinality({i, j}) <= Cardinality(Where(s, M)) /\ Cardinality(Where(s, M)) \in Nat
  BY <1>2, <1>3, FS_Subset, FS_CardinalityType
<1> QED BY <1>3, <1>4 DEF Count

\* What a client that waits is subscribed to.
LEMMA WaiterIsTold ==
    ASSUME DaemonHolds, ShapeInv, ~Ending, NEW c \in Clients, NEW n \in 4 .. Len(inbox[c])
    PROVE  /\ inbox[c][n].kind = "ServerEvent"
           /\ inbox[c][n].event \in ServerEvent
           /\ Label(inbox[c][n]) = Event(inbox[c][n].event.type)
           /\ SubscribesTo(called[c], inbox[c][n].event)
<1>1. inbox[c] \in Seq(DaemonResponse) /\ Len(inbox[c]) \in Nat
  BY Boxes
<1>2. n \in 1 .. Len(inbox[c]) /\ n > 3
  BY <1>1
<1>3. inbox[c][n].kind = "ServerEvent" /\ inbox[c][n] \in DaemonResponse
  BY <1>1, <1>2 DEF ShapeInv, Shape
<1>4. PICK j \in 1 .. n - 1 :
          /\ inbox[c][j].kind = "Answer"
          /\ SubscribesTo(inbox[c][j].to, inbox[c][n].event)
  BY <1>2, <1>3 DEF DaemonHolds, OrderInv, EventsFollowTheirOk
<1>5. j \in 1 .. Len(inbox[c])
  BY <1>1, <1>2
<1>6. j = 3
  <2>1. j <= 2 => inbox[c][j].kind # "Answer"
    BY <1>5 DEF ShapeInv, Shape
  <2>2. j > 3 => inbox[c][j].kind # "Answer"
    BY <1>5 DEF ShapeInv, Shape
  <2> QED BY <1>4, <1>5, <2>1, <2>2
<1>7. inbox[c][3].to = called[c]
  BY <1>5, <1>6 DEF ShapeInv, Shape
<1>8. inbox[c][n].event \in ServerEvent
  BY <1>3 DEF DaemonResponse, AnswerMessage, SetSender, VersionResponse, StoppedResponse
<1> QED BY <1>3, <1>4, <1>6, <1>7, <1>8, LabelsAre DEF Event

LEMMA WaitersScript ==
    ASSUME NEW cmd, cmd.kind \in {"Start", "Stop"}, cmd.wait, NEW e, SubscribesTo(cmd, e)
    PROVE  /\ Event(e.type) \notin Script(cmd)[2] =>
                 Event(e.type) \in {Event("ServerStarted"), Event("ServerStopped")}
           /\ Event(e.type) \notin Script(cmd)[3] => e.type \in {"ServerStarting", "ServerStopping"}
           /\ Event(e.type) \in Script(cmd)[2] => e.type \in {"ServerStarting", "ServerStopping"}
           /\ e.type = "ServerStarting" => cmd.kind = "Start"
           /\ e.type = "ServerStopping" => cmd.kind = "Stop"
           /\ \A s \in Script(cmd)[2] : s # Event("ServerStarted") /\ s # Event("ServerStopped")
<1>1. \A x, y, z : <<x, y, z>>[2] = y /\ <<x, y, z>>[3] = z
  OBVIOUS
<1>2. \A s, t : Event(s) = Event(t) => s = t
  BY DEF Event
<1>3. CASE cmd.kind = "Start"
  <2>1. /\ Script(cmd)[2] = {Event("ServerStarting"), Event("ServerFailed")}
        /\ Script(cmd)[3] = {Event("ServerStarted"), Event("ServerFailed")}
    BY <1>1, <1>3, ScriptsAre
  <2>2. e.type \in {"ServerStarting", "ServerStarted"}
    BY <1>3 DEF SubscribesTo
  <2> QED BY <1>2, <1>3, <2>1, <2>2
<1>4. CASE cmd.kind = "Stop"
  <2>1. Script(cmd)[2] = {Event("ServerStopping")} /\ Script(cmd)[3] = {Event("ServerStopped")}
    BY <1>1, <1>4, ScriptsAre
  <2>2. e.type \in {"ServerStopping", "ServerStopped"}
    BY <1>4 DEF SubscribesTo
  <2> QED BY <1>2, <1>4, <2>1, <2>2
<1> QED BY <1>3, <1>4

LEMMA ManPanics ==
    ASSUME DaemonHolds, ClientInv, FitInv, ShapeInv, PlayedInv, OnceInv, PanicsOnlyIf,
           [ManNext]_manVars
    PROVE  PanicsOnlyIf'
<1>1. CASE UNCHANGED manVars
  BY <1>1 DEF PanicsOnlyIf, manVars, daemonVars, replyVars, supervisionVars
<1>2. CASE Up /\ Threads /\ UNCHANGED <<called, read, outcome>>
  <2> SUFFICES ASSUME NEW c \in Clients, outcome[c] = "panicked",
                      pc' \notin {"closing", "exited"}
               PROVE  Excuses(called[c], inbox'[c], read[c])
    BY <1>2 DEF PanicsOnlyIf
  <2>1. pc \notin {"closing", "exited"}
    BY <1>2, ThreadsClients DEF Up
  <2>2. c \notin connected /\ read[c] # 0
    BY <2>1 DEF ClientInv, ReadInv
  <2>3. inbox'[c] = inbox[c]
    BY <1>2, <2>2, TakenStays
  <2> QED BY <2>1, <2>3 DEF PanicsOnlyIf
<1>3. ASSUME NEW c \in Clients, ClientNext(c)
      PROVE  PanicsOnlyIf'
  <2>1. UNCHANGED <<inbox, called, pc>> /\ read[c] \in Nat
    BY <1>3, ManSteps DEF ClientNext, ClientInv, ReadInv, Call, Send, CallFails, Receive,
       ReceiveFails, Becomes, DaemonRest, AcceptorRest, replyVars, supervisionVars
  <2>2. \A d \in Clients : d # c => read'[d] = read[d] /\ outcome'[d] = outcome[d]
    BY <1>3 DEF ClientNext, ClientInv, ReadInv, Call, CallFails, Receive, ReceiveFails, Becomes
  <2>3. ASSUME outcome'[c] = "panicked", ~Ending
        PROVE  Excuses(called[c], inbox[c], read'[c])
    <3> DEFINE cmd == called[c]
               box == inbox[c]
               n == read[c] + 1
    <3>1. CASE Call(c)
      BY <2>1, <2>3, <3>1 DEF Call, PanicsOnlyIf, ClientInv, ReadInv, Ending, Send
    <3>2. CASE Receive(c)
      <4>1. /\ read'[c] = n /\ read[c] >= 2 /\ outcome[c] = "running" /\ n <= Len(box)
            /\ After(cmd, n - 2, box[n]) = "panicked"
        <5>1. /\ read'[c] = read[c] + 1 /\ outcome'[c] = After(cmd, read[c] - 1, box[n])
              /\ requests[c] # <<>> /\ c \in connected /\ read[c] < Len(box)
          BY <3>2 DEF Receive, Becomes, ClientInv, ReadInv
        <5>2. read[c] >= 2 /\ outcome[c] = "running"
          BY <5>1 DEF ClientInv, SaidInv, ReadInv
        <5>3. n - 2 = read[c] - 1 /\ n <= Len(box)
          BY <2>1, <5>1, Boxes
        <5> QED BY <2>3, <5>1, <5>2, <5>3
      <4>2. Strict(cmd) /\ Label(box[n]) \notin Script(cmd)[n - 2]
        BY <4>1 DEF After
      <4>3. /\ read[c] - 2 < Len(Script(cmd))
            /\ \A i \in 3 .. read[c] : Label(box[i]) \in Script(cmd)[i - 2]
        BY <2>1, <4>1, <4>2 DEF PlayedInv
      <4>4. Len(box) \in Nat /\ n \in 1 .. Len(box)
        BY <2>1, <4>1, Boxes
      <4> HIDE DEF n
      <4>5. CASE read[c] = 2
        <5>1. n = 3 /\ n - 2 = 1
          BY <4>5 DEF n
        <5>2. box[n].kind = "Answer" /\ box[n].to = cmd
          BY <2>3, <4>4, <5>1 DEF ShapeInv, Shape
        <5>3. Fitting(box[n])
          BY <4>4 DEF FitInv
        <5>4. cmd.kind \in {"Start", "Stop"} /\ Label(box[n]) = <<"Answer", "ServerNotFound">>
          BY <4>2, <5>1, <5>2, <5>3, LabelsAre DEF Fitting
        <5> QED BY <4>1, <5>4 DEF Excuses
      <4>6. CASE read[c] # 2
        <5>1. /\ read[c] \in {3, 4} /\ n = read[c] + 1
              /\ cmd.kind \in {"Start", "Stop"} /\ cmd.wait
          <6>1. Len(Script(cmd)) = 1 => FALSE
            BY <2>1, <4>1, <4>3, <4>6
          <6>2. Len(Script(cmd)) = 3 /\ cmd.kind \in {"Start", "Stop"} /\ cmd.wait
            BY <4>2, <6>1, ScriptsEnd
          <6>3. read[c] \in {3, 4}
            BY <2>1, <4>1, <4>3, <4>6, <6>2
          <6> QED BY <6>2, <6>3 DEF n
        <5>2. 4 \in 4 .. Len(box) /\ n \in 4 .. Len(box) /\ 4 \in 1 .. Len(box)
          BY <4>4, <5>1
        <5>3. PICK e : /\ e = box[n].event /\ e \in ServerEvent /\ box[n].kind = "ServerEvent"
                       /\ Label(box[n]) = Event(e.type) /\ SubscribesTo(cmd, e)
          BY <2>3, <5>2, WaiterIsTold
        <5>4. CASE read[c] = 3
          <6>1. n = 4 /\ n - 2 = 2
            BY <5>1, <5>4
          <6>2. Label(box[n]) \in {Event("ServerStarted"), Event("ServerStopped")}
            BY <4>2, <5>1, <5>3, <6>1, WaitersScript
          <6> QED BY <4>1, <5>1, <6>1, <6>2 DEF Excuses
        <5>5. CASE read[c] = 4
          <6>1. n = 5 /\ n - 2 = 3 /\ 4 \in 3 .. read[c] /\ 4 - 2 = 2
            BY <5>1, <5>5
          <6>2. PICK d : /\ d = box[4].event /\ d \in ServerEvent /\ box[4].kind = "ServerEvent"
                         /\ Label(box[4]) = Event(d.type) /\ SubscribesTo(cmd, d)
            BY <2>3, <5>2, WaiterIsTold
          <6>3. Label(box[4]) \in Script(cmd)[2]
            BY <4>3, <6>1
          <6>4. e.type \in {"ServerStarting", "ServerStopping"} /\ e.type = d.type
            BY <4>2, <5>1, <5>3, <6>1, <6>2, <6>3, WaitersScript
          <6>5. CASE e.body # d.body
            BY <4>1, <5>1, <5>3, <6>1, <6>2, <6>4, <6>5 DEF Excuses
          <6>6. CASE e.body = d.body
            <7>1. e.type \notin Firsts
              <8>1. CASE e.type \in Firsts
                <9>1. box[n] \in NewsOf(e.type, e.body) /\ box[4] \in NewsOf(e.type, e.body)
                  <10>1. e \in Tokens(e.type, e.body) /\ d \in Tokens(e.type, e.body)
                    BY <5>3, <6>2, <6>4, <6>6 DEF Tokens, ServerEvent
                  <10>2. box[n] \in DaemonResponse /\ box[4] \in DaemonResponse
                    BY <4>4, <5>2, Boxes
                  <10> QED BY <5>3, <6>2, <10>1, <10>2 DEF NewsOf, DaemonResponse, AnswerMessage,
                           SetSender, VersionResponse, StoppedResponse
                <9>2. e.body \in Bodies
                  BY <5>3 DEF ServerEvent
                <9>3. Count(box, NewsOf(e.type, e.body)) <= 1
                  BY <8>1, <9>2 DEF OnceInv
                <9>4. box \in Seq(DaemonResponse) /\ 4 # n
                  BY <6>1, Boxes
                <9> QED BY <4>4, <5>2, <9>1, <9>3, <9>4, TwoAreMore
              <8> QED BY <8>1
            <7>2. e.type = "ServerStopping" /\ "Stopping" \in Echoes
              BY <6>4, <7>1 DEF Firsts
            <7> QED BY <4>1, <5>1, <5>3, <6>1, <6>2, <6>4, <7>2 DEF Excuses
          <6> QED BY <6>5, <6>6
        <5> QED BY <5>1, <5>4, <5>5
      <4> QED BY <4>5, <4>6
    <3>3. CASE CallFails(c) \/ ReceiveFails(c)
      BY <2>3, <3>3 DEF CallFails, ReceiveFails, Ending
    <3> QED BY <1>3, <3>1, <3>2, <3>3 DEF ClientNext
  <2> QED BY <2>1, <2>2, <2>3 DEF PanicsOnlyIf, Ending
<1> QED BY <1>1, <1>2, <1>3 DEF ManNext

(***************************************************************************)
(* No client is sent the first event of a process twice: from the line the *)
(* process has still to print to the client's inbox there is one of it at  *)
(* the most, because a client is subscribed once to what its one command   *)
(* asks for.                                                               *)
(***************************************************************************)

One(b) == IF b THEN 1 ELSE 0

LEMMA CountAdds ==
    ASSUME NEW T, NEW s \in Seq(T), NEW t, NEW x, Adds(s, t, x), NEW M
    PROVE  Count(s, M) \in Nat /\ Count(t, M) = Count(s, M) + One(x \in M)
<1>1. /\ Len(s) \in Nat /\ Positions(Where(s, M)) /\ Count(s, M) \in Nat
      /\ Where(s, M) \in SUBSET (1 .. Len(s))
  BY WhereIs
<1>2. CASE x \in M
  <2>1. Where(t, M) = Where(s, M) \cup {Len(s) + 1}
    BY <1>2, WhereAppend
  <2>2. Len(s) + 1 \notin Where(s, M)
    BY <1>1
  <2>3. IsFiniteSet(Where(s, M))
    BY <1>1, PositionsAre
  <2>4. Cardinality(Where(s, M) \cup {Len(s) + 1}) = Cardinality(Where(s, M)) + 1
    BY <2>2, <2>3, FS_AddElement
  <2> QED BY <1>1, <1>2, <2>1, <2>4 DEF Count, One
<1>3. CASE x \notin M
  BY <1>1, <1>3, WhereAppend DEF Count, One
<1> QED BY <1>2, <1>3

LEMMA CountTail ==
    ASSUME NEW T, NEW s \in Seq(T), s # <<>>, NEW M
    PROVE  Count(s, M) \in Nat /\ Count(Tail(s), M) = Count(s, M) - One(Head(s) \in M)
           /\ (Head(s) \in M => Count(s, M) >= 1)
<1>1. Positions(Where(s, M)) /\ Count(s, M) \in Nat
  BY WhereIs
<1>2. Cardinality(Shifted(Where(s, M)))
          = Cardinality(Where(s, M)) - (IF 1 \in Where(s, M) THEN 1 ELSE 0)
  BY <1>1, ShiftedCount
<1>3. Count(Tail(s), M) = Count(s, M) - One(Head(s) \in M)
  BY <1>2, WhereTail DEF Count, One
<1>4. Count(Tail(s), M) \in Nat
  <2>1. Tail(s) \in Seq(T)
    OBVIOUS
  <2> QED BY <2>1, WhereIs
<1> QED BY <1>1, <1>3, <1>4 DEF One

LEMMA CountNone ==
    ASSUME NEW s, NEW M, \A i \in DOMAIN s : s[i] \notin M
    PROVE  Count(s, M) = 0
<1>1. Where(s, M) = {}
  BY DEF Where
<1> QED BY <1>1, FS_EmptySet DEF Count

\* A queue that is left, or loses its head, or gets a message of no account.
LEMMA CountMoves ==
    ASSUME NEW T, NEW s \in Seq(T), NEW t, NEW x, Moves(s, t, x), NEW M, x \notin M
    PROVE  Count(s, M) \in Nat /\ Count(t, M) \in Nat /\ Count(t, M) <= Count(s, M)
<1>1. Count(s, M) \in Nat
  BY WhereIs
<1>2. CASE t = s
  BY <1>1, <1>2
<1>3. CASE s # <<>> /\ t = Tail(s)
  BY <1>1, <1>3, CountTail DEF One
<1>4. CASE t = Append(s, x)
  <2>1. Count(t, M) = Count(s, M) + One(x \in M)
    BY <1>4, AppendAdds, CountAdds DEF IsSeq
  <2>2. One(x \in M) = 0
    BY DEF One
  <2> QED BY <1>1, <2>1, <2>2
<1> QED BY <1>2, <1>3, <1>4 DEF Moves

DispatchesOf(t, b) == [kind : {"DispatchEvent"}, event : Tokens(t, b)]
SendsOf(c, t, b) == [kind : {"SendEvent"}, client_id : {c}, event : Tokens(t, b)]
AddsOf(k, c) == {AddCmd(k[1], k[2], c)}

\* The phases before the line of such an event is printed, and that line.
Early ==
    [ServerStarting |-> {"unborn", "booting"},
     ServerStopping |-> {"unborn", "booting", "loading", "running"}]
LineOf == [ServerStarting |-> "Loading", ServerStopping |-> "Stopping"]

\* The event in the process and its log thread, in the event manager's queue, and
\* on its way to a client.
AtSource(t, b) ==
    IF b \in Pids
      THEN One(phase[b] \in Early[t]) + Count(pipe[b], {LineOf[t]})
               + One(raising[b] # None /\ raising[b] = t)
      ELSE 0
Raised(t, b) == Count(eventQueue, DispatchesOf(t, b))
OnTheWay(c, t, b) ==
    Count(outbox, SendsOf(c, t, b)) + Count(queue, SendsOf(c, t, b)) + Count(inbox[c], NewsOf(t, b))

\* The subscriptions of a client to a key, made or on their way, and the answers
\* it was or is about to be sent.
Subscribed(c, k) ==
    Count(subscriptions[k], {c}) + Count(eventQueue, AddsOf(k, c)) + Count(todo, AddsOf(k, c))
Answered(c) == Count(inbox[c], AnswerMessage) + Held(answering, c)

TokenInv ==
    \A t \in Firsts, b \in Bodies :
        /\ AtSource(t, b) + Raised(t, b) <= 1
        /\ \A c \in connected : AtSource(t, b) + Raised(t, b) + OnTheWay(c, t, b) <= 1
SubscribedInv == \A c \in connected, k \in Key : Subscribed(c, k) <= Answered(c)

LEMMA FirstsAre ==
    /\ \A t \in Firsts : t \in {"ServerStarting", "ServerStopping"}
    /\ \A t \in Firsts, line \in Echoes : line # LineOf[t]
<1>1. "Loading" \notin Echoes
  BY ProcessAssumption DEF ProcessAssumption
<1> QED BY <1>1 DEF Firsts, LineOf

LEMMA Amounts ==
    ASSUME DaemonHolds
    PROVE  /\ \A M : Count(eventQueue, M) \in Nat /\ Count(queue, M) \in Nat
                       /\ Count(outbox, M) \in Nat /\ Count(todo, M) \in Nat
           /\ \A c \in Clients : \A M : Count(inbox[c], M) \in Nat
           /\ \A k \in Key : \A M : Count(subscriptions[k], M) \in Nat
           /\ \A p \in Pids : \A M : Count(pipe[p], M) \in Nat
  BY WhereIs DEF DaemonHolds, DeskInv, BusTypes, ManagerTypeOK, ReplyTypes, UnitsInv, UnitTypes,
     ProcessTypeOK

LEMMA TokensAreNat ==
    ASSUME DaemonHolds, NEW t, NEW b
    PROVE  /\ AtSource(t, b) \in Nat /\ Raised(t, b) \in Nat
           /\ \A c \in Clients : OnTheWay(c, t, b) \in Nat
<1>1. \A x : One(x) \in Nat
  BY DEF One
<1>2. \A i, j, k \in Nat : i + j + k \in Nat
  OBVIOUS
<1>3. AtSource(t, b) \in Nat
  <2>1. CASE b \in Pids
    <3>1. PICK i \in Nat, j \in Nat, k \in Nat :
              /\ i = One(phase[b] \in Early[t]) /\ j = Count(pipe[b], {LineOf[t]})
              /\ k = One(raising[b] # None /\ raising[b] = t)
      BY <1>1, <2>1, Amounts
    <3> QED BY <1>2, <2>1, <3>1 DEF AtSource
  <2>2. CASE b \notin Pids
    BY <2>2 DEF AtSource
  <2> QED BY <2>1, <2>2
<1>4. Raised(t, b) \in Nat
  BY Amounts DEF Raised
<1>5. ASSUME NEW c \in Clients
      PROVE  OnTheWay(c, t, b) \in Nat
  <2>1. PICK i \in Nat, j \in Nat, k \in Nat :
            /\ i = Count(outbox, SendsOf(c, t, b)) /\ j = Count(queue, SendsOf(c, t, b))
            /\ k = Count(inbox[c], NewsOf(t, b))
    BY Amounts
  <2> QED BY <1>2, <2>1 DEF OnTheWay
<1> QED BY <1>3, <1>4, <1>5

AllTokensAreNat ==
    \A t, b : /\ AtSource(t, b) \in Nat /\ Raised(t, b) \in Nat
              /\ \A c \in Clients : OnTheWay(c, t, b) \in Nat

AllAmounts ==
    \A M : /\ Count(queue, M) \in Nat /\ Count(outbox, M) \in Nat
           /\ \A c \in Clients : Count(inbox[c], M) \in Nat

LEMMA AmountsNow == DaemonHolds => AllAmounts
  BY Amounts DEF AllAmounts

LEMMA AmountsLater == DaemonHolds' => AllAmounts'
  BY AmountsNow, PTL

LEMMA TokensNow == DaemonHolds => AllTokensAreNat
  BY TokensAreNat DEF AllTokensAreNat

LEMMA TokensLater == DaemonHolds' => AllTokensAreNat'
  BY TokensNow, PTL

(* The source: a process and its log thread. *)

LEMMA PrintsSource ==
    ASSUME DaemonHolds, DaemonHolds', NEW p \in Pids, PrintsRow(p) \/ Exit(p),
           NEW t \in Firsts, NEW b \in Pids
    PROVE  AtSource(t, b)' <= AtSource(t, b)
<1>1. t \in {"ServerStarting", "ServerStopping"}
  BY FirstsAre
<1>2. UNCHANGED raising
  BY DEF PrintsRow, Prints, Exit
<1>3. PICK i \in Nat, k \in Nat : /\ i = Count(pipe[b], {LineOf[t]})
                                   /\ k = One(raising[b] # None /\ raising[b] = t)
  BY Amounts DEF One
<1>4. CASE phase'[b] = phase[b] /\ pipe'[b] = pipe[b]
  <2>1. AtSource(t, b)' = AtSource(t, b)
    BY <1>2, <1>4 DEF AtSource
  <2> QED BY <2>1, TokensAreNat
<1>5. CASE b = p /\ PrintsRow(p)
  <2>1. PICK from, to \in Phase, line \in Line : Row(from, line, to) /\ Prints(p, from, line, to)
    BY <1>5 DEF PrintsRow
  <2>2. phase[b] = from /\ phase'[b] = to /\ pipe'[b] = Append(pipe[b], line)
    BY <1>5, <2>1 DEF Prints, DaemonHolds, UnitsInv, UnitTypes, ProcessTypeOK
  <2>3. pipe[b] \in Seq(Line)
    BY DEF DaemonHolds, UnitsInv, UnitTypes, ProcessTypeOK
  <2>4. Count(pipe'[b], {LineOf[t]}) = i + One(line \in {LineOf[t]})
    <3>1. Adds(pipe[b], pipe'[b], line)
      BY <2>2, <2>3, AppendAdds DEF IsSeq
    <3> QED BY <1>3, <2>3, <3>1, CountAdds
  <2>5. One(to \in Early[t]) + One(line \in {LineOf[t]}) <= One(from \in Early[t])
    <3>1. CASE line \in Echoes
      <4>1. line # LineOf[t]
        BY <3>1, FirstsAre
      <4>2. from \in Early[t] \/ to \notin Early[t]
        BY <1>1, <2>1 DEF Row, Early
      <4> QED BY <4>1, <4>2 DEF One
    <3>2. CASE line \notin Echoes
      BY <1>1, <2>1, <3>2 DEF Row, Early, LineOf, One
    <3> QED BY <3>1, <3>2
  <2>6. PICK x \in Nat, y \in Nat, z \in Nat :
            /\ x = One(to \in Early[t]) /\ y = One(line \in {LineOf[t]})
            /\ z = One(from \in Early[t])
    BY DEF One
  <2>7. AtSource(t, b) = z + i + k
    BY <1>3, <2>2, <2>6 DEF AtSource
  <2>8. AtSource(t, b)' = x + (i + y) + k
    BY <1>2, <1>3, <2>2, <2>4, <2>6 DEF AtSource
  <2> QED BY <2>5, <2>6, <2>7, <2>8
<1>6. CASE b = p /\ Exit(p)
  <2>1. phase'[b] = "exited" /\ pipe'[b] = pipe[b]
    BY <1>6 DEF Exit, DaemonHolds, UnitsInv, UnitTypes, ProcessTypeOK
  <2>2. "exited" \notin Early[t]
    BY <1>1 DEF Early
  <2>3. AtSource(t, b)' = 0 + i + k
    BY <1>2, <1>3, <2>1, <2>2 DEF AtSource, One
  <2>4. PICK z \in Nat : z = One(phase[b] \in Early[t])
    BY DEF One
  <2>5. AtSource(t, b) = z + i + k
    BY <1>3, <2>4 DEF AtSource
  <2> QED BY <1>3, <2>3, <2>4, <2>5
<1>7. CASE b # p
  <2>1. phase'[b] = phase[b] /\ pipe'[b] = pipe[b]
    BY <1>7 DEF PrintsRow, Prints, Exit, DaemonHolds, UnitsInv, UnitTypes, ProcessTypeOK
  <2> QED BY <1>4, <2>1
<1> QED BY <1>5, <1>6, <1>7

LEMMA LogSource ==
    ASSUME DaemonHolds, DaemonHolds', NEW p \in Pids, ReadLine(p) \/ RaiseEvent(p) \/ EndLog(p),
           NEW t \in Firsts, NEW b \in Bodies
    PROVE  AtSource(t, b)' + Raised(t, b)' <= AtSource(t, b) + Raised(t, b)
<1>1. t \in {"ServerStarting", "ServerStopping"}
  BY FirstsAre
<1>2. UNCHANGED phase
  BY DEF ReadLine, RaiseEvent, EndLog
<1>3. CASE ReadLine(p)
  <2>1. UNCHANGED eventQueue /\ Raised(t, b)' = Raised(t, b)
    BY <1>3 DEF ReadLine, Raised
  <2>2. CASE b = p
    <3>1. /\ raising[b] = None /\ pipe[b] # <<>> /\ pipe[b] \in Seq(Line)
          /\ raising'[b] = EventOf[Head(pipe[b])] /\ pipe'[b] = Tail(pipe[b])
      BY <1>3, <2>2 DEF ReadLine, DaemonHolds, UnitsInv, UnitTypes, ProcessTypeOK
    <3>2. Head(pipe[b]) \in Line
      BY <3>1
    <3>3. EventOf[Head(pipe[b])] = t <=> Head(pipe[b]) = LineOf[t]
      BY <1>1, <3>2 DEF EventOf, LineOf, Line
    <3>4. PICK n \in Nat, x \in Nat, y \in Nat, z \in Nat :
              /\ n = Count(pipe[b], {LineOf[t]}) /\ x = One(phase[b] \in Early[t])
              /\ y = One(Head(pipe[b]) \in {LineOf[t]})
              /\ z = One(raising'[b] # None /\ raising'[b] = t)
      BY <2>2, Amounts DEF One
    <3>5. Count(pipe'[b], {LineOf[t]}) = n - y
      BY <3>1, <3>4, CountTail
    <3>6. z <= y
      BY <3>1, <3>3, <3>4 DEF One
    <3>7. AtSource(t, b) = x + n + 0
      BY <2>2, <3>1, <3>4 DEF AtSource, One
    <3>8. AtSource(t, b)' = x + (n - y) + z
      BY <1>2, <2>2, <3>4, <3>5 DEF AtSource
    <3>9. PICK r \in Nat : r = Raised(t, b)
      BY TokensAreNat
    <3> QED BY <2>1, <3>4, <3>6, <3>7, <3>8, <3>9
  <2>3. CASE b # p
    <3>1. b \in Pids => raising'[b] = raising[b] /\ pipe'[b] = pipe[b]
      BY <1>3, <2>3 DEF ReadLine, DaemonHolds, UnitsInv, UnitTypes, ProcessTypeOK
    <3>2. AtSource(t, b)' = AtSource(t, b)
      BY <1>2, <3>1 DEF AtSource
    <3> QED BY <2>1, <3>2, TokensAreNat
  <2> QED BY <2>2, <2>3
<1>4. CASE RaiseEvent(p)
  <2> DEFINE e == [type |-> raising[p], server_id |-> unit[p], body |-> p]
  <2>1. UNCHANGED pipe /\ eventQueue' = Append(eventQueue, DispatchCmd(e))
    BY <1>4 DEF RaiseEvent
  <2>2. PICK y \in Nat : y = One(DispatchCmd(e) \in DispatchesOf(t, b))
    BY DEF One
  <2>3. Raised(t, b)' = Raised(t, b) + y
    <3>1. eventQueue \in Seq(EventManagerCmd)
      BY DEF DaemonHolds, DeskInv, BusTypes, ManagerTypeOK
    <3>2. PICK x : x = DispatchCmd(e)
      OBVIOUS
    <3>3. Adds(eventQueue, eventQueue', x)
      BY <2>1, <3>1, <3>2, AppendAdds DEF IsSeq
    <3> HIDE DEF e
    <3> QED BY <2>2, <3>1, <3>2, <3>3, CountAdds DEF Raised
  <2>4. CASE b = p
    <3>1. raising[b] # None /\ raising'[b] = None
      BY <1>4, <2>4 DEF RaiseEvent, DaemonHolds, UnitsInv, UnitTypes, ProcessTypeOK
    <3>2. PICK n \in Nat, x \in Nat, z \in Nat, r \in Nat :
              /\ n = Count(pipe[b], {LineOf[t]}) /\ x = One(phase[b] \in Early[t])
              /\ z = One(raising[b] # None /\ raising[b] = t)
              /\ r = Raised(t, b)
      BY <2>4, Amounts, TokensAreNat DEF One
    <3>3. y <= z
      BY <2>2, <2>4, <3>1, <3>2 DEF One, DispatchCmd, DispatchesOf, Tokens
    <3>4. AtSource(t, b) = x + n + z /\ AtSource(t, b)' = x + n + 0
      BY <1>2, <2>1, <2>4, <3>1, <3>2 DEF AtSource, One
    <3> QED BY <2>2, <2>3, <3>2, <3>3, <3>4
  <2>5. CASE b # p
    <3>1. y = 0
      BY <2>2, <2>5 DEF DispatchCmd, DispatchesOf, Tokens, One
    <3>2. b \in Pids => raising'[b] = raising[b]
      BY <1>4, <2>5 DEF RaiseEvent, DaemonHolds, UnitsInv, UnitTypes, ProcessTypeOK
    <3>3. AtSource(t, b)' = AtSource(t, b)
      BY <1>2, <2>1, <3>2 DEF AtSource
    <3> QED BY <2>3, <3>1, <3>3, TokensAreNat
  <2> QED BY <2>4, <2>5
<1>5. CASE EndLog(p)
  <2>1. /\ UNCHANGED <<pipe, eventQueue>>
        /\ raising' = [raising EXCEPT ![p] = Ended] /\ raising[p] = None
    BY <1>5 DEF EndLog
  <2>2. Raised(t, b)' = Raised(t, b)
    BY <2>1 DEF Raised
  <2>3. Ended # t
    BY <1>1 DEF Ended
  <2>4. b \in Pids => (raising'[b] # None /\ raising'[b] = t <=> raising[b] # None /\ raising[b] = t)
    BY <2>1, <2>3 DEF DaemonHolds, UnitsInv, UnitTypes, ProcessTypeOK
  <2>5. AtSource(t, b)' = AtSource(t, b)
    BY <1>2, <2>1, <2>4 DEF AtSource, One
  <2> QED BY <2>2, <2>5, TokensAreNat
<1> QED BY <1>3, <1>4, <1>5

LEMMA RaisedMoves ==
    ASSUME DaemonHolds, EventMoves, ~(\E p \in Pids : RaiseEvent(p)), NEW t \in Firsts, NEW b
    PROVE  Raised(t, b)' <= Raised(t, b)
<1>1. t \in {"ServerStarting", "ServerStopping"}
  BY FirstsAre
<1>2. eventQueue \in Seq(EventManagerCmd)
  BY DEF DaemonHolds, DeskInv, BusTypes, ManagerTypeOK
<1>3. ASSUME NEW x, Moves(eventQueue, eventQueue', x), Plain(x)
      PROVE  Raised(t, b)' <= Raised(t, b)
  <2>1. x \notin DispatchesOf(t, b)
    BY <1>1, <1>3 DEF Plain, DispatchesOf, Tokens, LogEvents
  <2> QED BY <1>2, <1>3, <2>1, CountMoves DEF Raised
<1>4. CASE SendSubscription
  <2>1. /\ todo # <<>> /\ IsSeq(todo) /\ eventQueue' = Append(eventQueue, Head(todo))
        /\ \A x \in Elems(todo) : x.kind = "AddSubscription"
    BY <1>4 DEF SendSubscription, DaemonHolds, MsgInv, TodoInv
  <2>2. PICK x : x = Head(todo)
    OBVIOUS
  <2>3. x \notin DispatchesOf(t, b) /\ Moves(eventQueue, eventQueue', x)
    BY <2>1, <2>2, HeadIsElem DEF DispatchesOf, Moves
  <2> QED BY <1>2, <2>3, CountMoves DEF Raised
<1>5. CASE UNCHANGED eventQueue \/ (eventQueue # <<>> /\ eventQueue' = Tail(eventQueue))
  <2>1. Plain(RemoveAllCmd(None))
    BY PlainOnes
  <2>2. Moves(eventQueue, eventQueue', RemoveAllCmd(None))
    BY <1>5 DEF Moves
  <2> QED BY <1>3, <2>1, <2>2
<1>6. ASSUME NEW x, Plain(x), eventQueue' = Append(eventQueue, x)
      PROVE  Raised(t, b)' <= Raised(t, b)
  BY <1>3, <1>6 DEF Moves
<1> QED BY <1>4, <1>5, <1>6 DEF EventMoves

LEMMA ThreadsSource ==
    ASSUME DaemonHolds, DaemonHolds', Up, Threads, NEW t \in Firsts, NEW b \in Bodies
    PROVE  AtSource(t, b)' + Raised(t, b)' <= AtSource(t, b) + Raised(t, b)
<1>1. CASE \E p \in Pids : ReadLine(p) \/ RaiseEvent(p) \/ EndLog(p)
  BY <1>1, LogSource
<1>2. CASE ~(\E p \in Pids : ReadLine(p) \/ RaiseEvent(p) \/ EndLog(p))
  <2>1. Raised(t, b)' <= Raised(t, b)
    BY <1>2, ThreadsEvents, RaisedMoves
  <2>2. AtSource(t, b)' <= AtSource(t, b)
    <3>1. CASE b \notin Pids
      BY <3>1 DEF AtSource
    <3>2. CASE b \in Pids /\ \E p \in Pids : PrintsRow(p) \/ Exit(p)
      BY <3>2, PrintsSource
    <3>3. CASE /\ b \in Pids
               /\ UNCHANGED <<pipe, raising>>
               /\ \/ UNCHANGED phase
                  \/ \E p \in Pids : /\ phase[p] = "unborn"
                                     /\ phase' = [phase EXCEPT ![p] = "booting"]
      <4>1. phase \in [Pids -> Phase] /\ t \in {"ServerStarting", "ServerStopping"}
        BY FirstsAre DEF DaemonHolds, UnitsInv, UnitTypes, ProcessTypeOK
      <4>2. phase'[b] \in Early[t] <=> phase[b] \in Early[t]
        BY <3>3, <4>1 DEF Early
      <4>3. AtSource(t, b)' = AtSource(t, b)
        BY <3>3, <4>2 DEF AtSource, One
      <4> QED BY <4>3, TokensAreNat
    <3> QED BY <1>2, <3>1, <3>2, <3>3, ThreadsSources
  <2>3. PICK i \in Nat, j \in Nat, k \in Nat, l \in Nat :
            /\ i = AtSource(t, b) /\ j = AtSource(t, b)' /\ k = Raised(t, b) /\ l = Raised(t, b)'
    BY TokensNow, TokensLater DEF AllTokensAreNat
  <2> QED BY <2>1, <2>2, <2>3
<1> QED BY <1>1, <1>2

(* The way from the event manager to a client. *)

LEMMA QueueKeepsSends ==
    ASSUME DaemonHolds, QueueStays, NEW c, NEW t, NEW b
    PROVE  Count(queue, SendsOf(c, t, b)) \in Nat /\ Count(queue', SendsOf(c, t, b)) \in Nat
           /\ Count(queue', SendsOf(c, t, b)) <= Count(queue, SendsOf(c, t, b))
<1>1. queue \in Seq(DaemonEvent)
  BY DEF DaemonHolds, DeskInv, BusTypes
<1>2. \A m : m.kind # "SendEvent" => m \notin SendsOf(c, t, b)
  BY DEF SendsOf
<1>3. StopDaemonEvent.kind # "SendEvent"
  BY DEF StopDaemonEvent
<1>4. CASE UNCHANGED queue \/ (queue # <<>> /\ queue' = Tail(queue))
  BY <1>1, <1>2, <1>3, <1>4, CountMoves DEF Moves
<1>5. ASSUME NEW m, m.kind # "SendEvent", queue' = Append(queue, m)
      PROVE  /\ Count(queue, SendsOf(c, t, b)) \in Nat /\ Count(queue', SendsOf(c, t, b)) \in Nat
             /\ Count(queue', SendsOf(c, t, b)) <= Count(queue, SendsOf(c, t, b))
  BY <1>1, <1>2, <1>5, CountMoves DEF Moves
<1>6. CASE queue # <<>> /\ queue' = Append(Tail(queue), StopDaemonEvent)
  <2>1. Tail(queue) \in Seq(DaemonEvent)
    BY <1>1, <1>6
  <2>2. /\ Count(queue, SendsOf(c, t, b)) \in Nat /\ Count(Tail(queue), SendsOf(c, t, b)) \in Nat
        /\ Count(Tail(queue), SendsOf(c, t, b)) <= Count(queue, SendsOf(c, t, b))
    BY <1>1, <1>2, <1>3, <1>6, CountMoves DEF Moves
  <2>3. PICK q : q = Tail(queue)
    OBVIOUS
  <2>4. /\ Count(queue', SendsOf(c, t, b)) \in Nat
        /\ Count(queue', SendsOf(c, t, b)) <= Count(q, SendsOf(c, t, b))
    BY <1>2, <1>3, <1>6, <2>1, <2>3, CountMoves DEF Moves
  <2> QED BY <2>2, <2>3, <2>4
<1> QED BY <1>4, <1>5, <1>6 DEF QueueStays

LEMMA NewsComes ==
    ASSUME DaemonHolds, Up, Threads, NEW c \in connected, NEW t, NEW b
    PROVE  \/ /\ HandOut /\ queue # <<>> /\ Head(queue) \in SendsOf(c, t, b)
              /\ Count(inbox'[c], NewsOf(t, b)) = Count(inbox[c], NewsOf(t, b)) + 1
           \/ /\ Count(inbox'[c], NewsOf(t, b)) \in Nat
              /\ Count(inbox'[c], NewsOf(t, b)) <= Count(inbox[c], NewsOf(t, b))
<1> DEFINE M == NewsOf(t, b)
<1>1. c \in Clients /\ inbox[c] \in Seq(DaemonResponse) /\ Count(inbox[c], M) \in Nat
  BY Boxes, Amounts DEF DaemonHolds, DeskInv, ClientTypes
<1>2. CASE inbox'[c] = <<SetSender, VersionResponse>>
  <2>1. PICK box : box = inbox'[c]
    OBVIOUS
  <2>2. DOMAIN box = 1 .. 2 /\ box[1] = SetSender /\ box[2] = VersionResponse
    BY <1>2, <2>1
  <2>3. \A i \in DOMAIN box : box[i] \notin M
    BY <2>2 DEF NewsOf, SetSender, VersionResponse
  <2>4. Count(box, M) = 0
    BY <2>3, CountNone
  <2> QED BY <1>1, <2>1, <2>4
<1>3. ASSUME NEW x, Adds(inbox[c], inbox'[c], x), x \notin M
      PROVE  /\ Count(inbox'[c], M) \in Nat /\ Count(inbox'[c], M) <= Count(inbox[c], M)
  <2>1. Count(inbox'[c], M) = Count(inbox[c], M) + One(x \in M)
    BY <1>1, <1>3, CountAdds
  <2> QED BY <1>1, <1>3, <2>1 DEF One
<1>4. ASSUME NEW x, Adds(inbox[c], inbox'[c], x), x \in M,
             \/ Holds(answering, c) /\ x = answering.response
             \/ /\ HandOut /\ Head(queue).client_id = c
                /\ x = EventResponse(Head(queue).event)
             \/ x = StoppedResponse
      PROVE  /\ HandOut /\ queue # <<>> /\ Head(queue) \in SendsOf(c, t, b)
             /\ Count(inbox'[c], M) = Count(inbox[c], M) + 1
  <2>1. x # StoppedResponse
    BY <1>4 DEF StoppedResponse, NewsOf
  <2>2. ~(Holds(answering, c) /\ x = answering.response)
    BY <1>4, AnswerAssumption
       DEF NewsOf, Holds, DaemonHolds, DeskInv, ReplyTypes, Answering, AnswerMessage
  <2>3. HandOut /\ Head(queue).client_id = c /\ x = EventResponse(Head(queue).event)
    BY <1>4, <2>1, <2>2
  <2>4. queue # <<>> /\ Head(queue) \in DaemonEvent /\ Head(queue).kind = "SendEvent"
    BY <2>3 DEF HandOut, DaemonHolds, DeskInv, BusTypes
  <2>5. Head(queue) \in SendEvents
    BY <2>4 DEF DaemonEvent, AddServerUnitEvents, StopDaemonEvent, DaemonStopped
  <2>6. Head(queue).event \in Tokens(t, b)
    BY <1>4, <2>3 DEF EventResponse, NewsOf
  <2>7. Head(queue) \in SendsOf(c, t, b)
    BY <2>3, <2>5, <2>6 DEF SendEvents, SendsOf
  <2>8. Count(inbox'[c], M) = Count(inbox[c], M) + One(x \in M)
    BY <1>1, <1>4, CountAdds
  <2> QED BY <1>4, <2>3, <2>4, <2>7, <2>8 DEF One
<1>5. BoxStep(c)
  BY <1>1, ManBoxes
<1>6. CASE inbox'[c] = inbox[c]
  BY <1>1, <1>6
<1> HIDE DEF M
<1> QED BY <1>2, <1>3, <1>4, <1>5, <1>6 DEF BoxStep, M

LEMMA WayMoves ==
    ASSUME DaemonHolds, Up, Threads, ~(Manager /\ DispatchEvent),
           NEW c \in connected, NEW t, NEW b
    PROVE  OnTheWay(c, t, b)' <= OnTheWay(c, t, b)
<1> DEFINE S == SendsOf(c, t, b)
           M == NewsOf(t, b)
<1>1. c \in Clients /\ queue \in Seq(DaemonEvent) /\ outbox \in Seq(SendEvents)
  BY DEF DaemonHolds, DeskInv, ClientTypes, BusTypes, ManagerTypeOK
<1>2. PICK i \in Nat, j \in Nat, k \in Nat :
          /\ i = Count(outbox, S) /\ j = Count(queue, S) /\ k = Count(inbox[c], M)
  BY <1>1, Amounts
<1>3. OnTheWay(c, t, b) = i + j + k
  BY <1>2 DEF OnTheWay
<1>4. ASSUME NEW x \in Nat, NEW y \in Nat, NEW z \in Nat, x = Count(outbox', S),
             y = Count(queue', S), z = Count(inbox'[c], M), x + y + z <= i + j + k
      PROVE  OnTheWay(c, t, b)' <= OnTheWay(c, t, b)
  BY <1>3, <1>4 DEF OnTheWay
<1> HIDE DEF S, M
<1>5. CASE Manager /\ Forward
  <2>1. /\ outbox # <<>> /\ queue' = Append(queue, Head(outbox)) /\ outbox' = Tail(outbox)
        /\ inbox' = inbox
    BY <1>5 DEF Manager, Forward, replyVars
  <2>2. PICK x : x = Head(outbox)
    OBVIOUS
  <2>3. PICK n \in Nat : n = One(x \in S)
    BY DEF One
  <2>4. Count(outbox', S) = i - n /\ Count(outbox', S) \in Nat
    <3>1. Tail(outbox) \in Seq(SendEvents)
      BY <1>1, <2>1
    <3> QED BY <1>1, <1>2, <2>1, <2>2, <2>3, <3>1, CountTail, WhereIs
  <2>5. Count(queue', S) = j + n
    <3>1. Adds(queue, queue', x)
      BY <1>1, <2>1, <2>2, AppendAdds DEF IsSeq
    <3> QED BY <1>1, <1>2, <2>3, <3>1, CountAdds
  <2>6. PICK m \in Nat : m = Count(outbox', S) /\ m = i - n
    BY <2>4
  <2> QED BY <1>2, <1>4, <2>1, <2>5, <2>6
<1>6. CASE HandOut
  <2>1. outbox' = outbox /\ queue # <<>> /\ queue' = Tail(queue)
    BY <1>6 DEF HandOut, Elsewhere
  <2>2. PICK n \in Nat, m \in Nat : /\ n = One(Head(queue) \in S)
                                    /\ m = Count(queue', S) /\ m = j - n
    <3>1. Tail(queue) \in Seq(DaemonEvent)
      BY <1>1, <2>1
    <3>2. Count(queue', S) \in Nat /\ Count(queue', S) = j - One(Head(queue) \in S)
      BY <1>1, <1>2, <2>1, <3>1, CountTail, WhereIs
    <3> QED BY <3>2 DEF One
  <2>3. PICK z \in Nat : /\ z = Count(inbox'[c], M)
                         /\ (z = k + n \/ z <= k)
    <3>1. CASE Head(queue) \in S /\ Count(inbox'[c], M) = k + 1
      BY <2>2, <3>1 DEF One
    <3>2. CASE Count(inbox'[c], M) \in Nat /\ Count(inbox'[c], M) <= k
      BY <3>2
    <3> QED BY <1>2, <3>1, <3>2, NewsComes DEF S, M
  <2>4. i + m + z <= i + j + k
    BY <2>2, <2>3
  <2>5. i = Count(outbox', S)
    BY <1>2, <2>1
  <2> QED BY <1>4, <2>2, <2>3, <2>4, <2>5
<1>7. CASE ~HandOut /\ QueueStays /\ UNCHANGED outbox
  <2>1. PICK y \in Nat : y = Count(queue', S) /\ y <= j
    BY <1>2, <1>7, QueueKeepsSends DEF S
  <2>2. PICK z \in Nat : z = Count(inbox'[c], M) /\ z <= k
    BY <1>2, <1>7, NewsComes DEF M
  <2> QED BY <1>2, <1>4, <1>7, <2>1, <2>2
<1> QED BY <1>5, <1>6, <1>7, ThreadsQueue

\* A dispatch sends the event to a client as often as the client is subscribed.
LEMMA DispatchCounts ==
    ASSUME DaemonHolds, DispatchEvent, NEW c, NEW t, NEW b
    PROVE  LET e == Head(eventQueue).event
               k == <<e.server_id, e.type>>
           IN /\ k \in Key
              /\ Count(outbox', SendsOf(c, t, b)) =
                     IF e \in Tokens(t, b) THEN Count(subscriptions[k], {c}) ELSE 0
<1> DEFINE e == Head(eventQueue).event
           k == <<e.server_id, e.type>>
           subs == subscriptions[k]
           S == SendsOf(c, t, b)
<1>1. /\ eventQueue # <<>> /\ Head(eventQueue).kind = "DispatchEvent"
      /\ outbox' = [i \in 1 .. Len(subs) |-> SendEvent(subs[i], e)]
  BY DEF DispatchEvent, Received
<1>2. k \in Key
  BY <1>1, HeadIsElem DEF DaemonHolds, MsgInv, EventsInv, FineCmd
<1>3. DOMAIN subs = 1 .. Len(subs)
  BY <1>2 DEF DaemonHolds, MsgInv, SubscriptionsInv, IsSeq
<1> HIDE DEF e, k, subs
<1>4. \A x, y : SendEvent(x, y) \in S <=> x = c /\ y \in Tokens(t, b)
  BY DEF SendEvent, SendsOf
<1> HIDE DEF S
<1>5. /\ DOMAIN outbox' = DOMAIN subs
      /\ \A i \in DOMAIN subs : outbox'[i] \in S <=> subs[i] = c /\ e \in Tokens(t, b)
  BY <1>1, <1>3, <1>4
<1>6. CASE e \in Tokens(t, b)
  <2>1. Where(outbox', S) = Where(subs, {c})
    BY <1>5, <1>6 DEF Where
  <2> QED BY <1>2, <1>6, <2>1 DEF Count, e, k, subs, S
<1>7. CASE e \notin Tokens(t, b)
  <2>1. Count(outbox', S) = 0
    BY <1>5, <1>7, CountNone
  <2> QED BY <1>2, <1>7, <2>1 DEF e, k, S
<1> QED BY <1>6, <1>7

LEMMA DispatchMoves ==
    ASSUME DaemonHolds, DaemonHolds', Manager, DispatchEvent, NEW c \in connected,
           \A k \in Key : Count(subscriptions[k], {c}) <= 1, NEW t, NEW b
    PROVE  AtSource(t, b)' + Raised(t, b)' + OnTheWay(c, t, b)'
               <= AtSource(t, b) + Raised(t, b) + OnTheWay(c, t, b)
<1> DEFINE S == SendsOf(c, t, b)
           D == DispatchesOf(t, b)
           e == Head(eventQueue).event
           k == <<e.server_id, e.type>>
<1>1. /\ outbox = <<>> /\ eventQueue # <<>> /\ eventQueue' = Tail(eventQueue)
      /\ Head(eventQueue).kind = "DispatchEvent" /\ Head(eventQueue) \in EventManagerCmd
      /\ eventQueue \in Seq(EventManagerCmd) /\ c \in Clients
      /\ UNCHANGED <<queue, inbox, phase, pipe, raising>>
  BY DEF Manager, DispatchEvent, Received, DaemonHolds, DeskInv, BusTypes, ManagerTypeOK,
     ClientTypes, replyVars, processVars
<1>2. AtSource(t, b)' = AtSource(t, b)
  BY <1>1 DEF AtSource
<1>3. Head(eventQueue) \in D <=> e \in Tokens(t, b)
  BY <1>1 DEF DispatchesOf, EventManagerCmd
<1>4. Count(outbox, S) = 0
  <2>1. \A i \in DOMAIN outbox : outbox[i] \notin S
    BY <1>1
  <2> QED BY <2>1, CountNone
<1>5. PICK a \in Nat, r \in Nat, i \in Nat, j \in Nat, n \in Nat, r2 \in Nat, o2 \in Nat :
          /\ a = AtSource(t, b) /\ r = Raised(t, b) /\ i = Count(queue, S)
          /\ j = Count(inbox[c], NewsOf(t, b)) /\ n = One(Head(eventQueue) \in D)
          /\ r2 = Raised(t, b)' /\ r2 = r - n
          /\ o2 = Count(outbox', S) /\ o2 <= n
  <2>1. Raised(t, b)' = Raised(t, b) - One(Head(eventQueue) \in D) /\ Raised(t, b)' \in Nat
    BY <1>1, CountTail, TokensLater DEF Raised, AllTokensAreNat
  <2>2. Count(outbox', S) \in Nat /\ Count(outbox', S) <= One(Head(eventQueue) \in D)
    <3>1. k \in Key /\ Count(outbox', S) =
                     IF e \in Tokens(t, b) THEN Count(subscriptions[k], {c}) ELSE 0
      BY DispatchCounts
    <3>2. Count(subscriptions[k], {c}) \in Nat /\ Count(subscriptions[k], {c}) <= 1
      BY <3>1, Amounts
    <3> HIDE DEF S, D, e, k
    <3> QED BY <1>3, <3>1, <3>2 DEF One
  <2>3. One(Head(eventQueue) \in D) \in Nat
    BY DEF One
  <2> HIDE DEF S, D
  <2> QED BY <1>1, <2>1, <2>2, <2>3, Amounts, TokensAreNat
<1>6. OnTheWay(c, t, b) = 0 + i + j
  BY <1>4, <1>5 DEF OnTheWay
<1>7. OnTheWay(c, t, b)' = o2 + i + j
  BY <1>1, <1>5 DEF OnTheWay
<1> HIDE DEF S, D, e, k
<1> QED BY <1>2, <1>5, <1>6, <1>7

(* The subscriptions of a client. *)

LEMMA NoneOf ==
    ASSUME NEW s, IsSeq(s), NEW M, \A x \in Elems(s) : x \notin M
    PROVE  Count(s, M) = 0
<1>1. DOMAIN s = 1 .. Len(s)
  BY DEF IsSeq
<1> QED BY <1>1, CountNone DEF Elems

\* Nothing is on its way to, or from, a client that is not registered.
LEMMA FreshCounts ==
    ASSUME DaemonHolds, NEW c \in Clients \ senders
    PROVE  /\ \A t, b : Count(queue, SendsOf(c, t, b)) = 0 /\ Count(outbox, SendsOf(c, t, b)) = 0
           /\ \A k \in Key : Subscribed(c, k) = 0
<1>1. \A t, b : Count(queue, SendsOf(c, t, b)) = 0
  <2> SUFFICES ASSUME NEW t, NEW b PROVE Count(queue, SendsOf(c, t, b)) = 0
    OBVIOUS
  <2>1. \A m \in Elems(queue) : m \notin SendsOf(c, t, b)
    BY DEF DaemonHolds, MsgInv, QueueInv, FineMsg, SendsOf
  <2> QED BY <2>1, NoneOf DEF DaemonHolds, MsgInv, QueueInv
<1>2. \A t, b : Count(outbox, SendsOf(c, t, b)) = 0
  <2> SUFFICES ASSUME NEW t, NEW b PROVE Count(outbox, SendsOf(c, t, b)) = 0
    OBVIOUS
  <2>1. \A m \in Elems(outbox) : m \notin SendsOf(c, t, b)
    BY DEF DaemonHolds, MsgInv, OutboxInv, SendsOf
  <2> QED BY <2>1, NoneOf DEF DaemonHolds, MsgInv, OutboxInv
<1>3. ASSUME NEW k \in Key
      PROVE  Subscribed(c, k) = 0
  <2>1. Count(subscriptions[k], {c}) = 0
    <3>1. IsSeq(subscriptions[k]) /\ \A x \in Elems(subscriptions[k]) : x \notin {c}
      BY DEF DaemonHolds, MsgInv, SubscriptionsInv
    <3> QED BY <3>1, NoneOf
  <2>2. \A x \in AddsOf(k, c) : x.kind = "AddSubscription" /\ x.client_id = c
    BY DEF AddsOf, AddCmd
  <2>3. Count(eventQueue, AddsOf(k, c)) = 0
    <3>1. IsSeq(eventQueue) /\ \A x \in Elems(eventQueue) : x \notin AddsOf(k, c)
      BY <2>2 DEF DaemonHolds, MsgInv, EventsInv, FineCmd
    <3> QED BY <3>1, NoneOf
  <2>4. Count(todo, AddsOf(k, c)) = 0
    <3>1. IsSeq(todo) /\ \A x \in Elems(todo) : x \notin AddsOf(k, c)
      BY <2>2 DEF DaemonHolds, MsgInv, TodoInv
    <3> QED BY <3>1, NoneOf
  <2> QED BY <2>1, <2>3, <2>4 DEF Subscribed
<1> QED BY <1>1, <1>2, <1>3

LEMMA CounterIsFresh ==
    ASSUME DaemonHolds, counter \in Clients
    PROVE  counter \in Clients \ senders
<1>1. ~(counter < counter)
  BY DEF DaemonHolds, OrderInv, CountInv
<1> QED BY <1>1 DEF DaemonHolds, OrderInv, CountInv

\* A client sends one command, and so it is answered once.
LEMMA AnsweredOnce ==
    ASSUME DaemonHolds, ClientInv, NEW c \in connected
    PROVE  /\ Answered(c) \in Nat /\ Answered(c) <= 1
           /\ queue # <<>> /\ Head(queue) \in OwnOf(c) => Answered(c) = 0
<1>1. /\ c \in Clients /\ inbox[c] \in Seq(DaemonResponse) /\ queue \in Seq(DaemonEvent)
      /\ cmds[c] \in Seq(Requests)
  BY Boxes DEF DaemonHolds, DeskInv, ClientTypes, BusTypes
<1>2. PICK n \in Nat, h \in Nat, queued \in Nat, unread \in Nat :
          /\ n = Count(inbox[c], AnswerMessage) /\ queued = Count(queue, OwnOf(c))
          /\ unread = Len(cmds[c]) /\ h = Held(answering, c)
  BY <1>1, WhereIs DEF Held
<1>3. Len(requests[c]) = n + h + queued + unread
  BY <1>2 DEF DaemonHolds, AnswersInv, LineInv, InLine
<1>4. Len(requests[c]) = 0 \/ Len(requests[c]) = 1
  <2>1. requests[c] = IF read[c] = 0 THEN <<>> ELSE <<called[c]>>
    BY <1>1 DEF ClientInv, SaidInv
  <2>2. Len(<<>>) = 0 /\ Len(<<called[c]>>) = 1
    OBVIOUS
  <2> QED BY <2>1, <2>2
<1>5. Answered(c) = n + h
  BY <1>2 DEF Answered
<1>6. queue # <<>> /\ Head(queue) \in OwnOf(c) => queued >= 1
  BY <1>1, <1>2, CountTail
<1> QED BY <1>3, <1>4, <1>5, <1>6

LEMMA SubscribedOnce ==
    ASSUME DaemonHolds, ClientInv, SubscribedInv, NEW c \in connected, NEW k \in Key
    PROVE  Count(subscriptions[k], {c}) <= 1
<1>1. PICK i \in Nat, j \in Nat, n \in Nat, a \in Nat :
          /\ i = Count(subscriptions[k], {c}) /\ j = Count(eventQueue, AddsOf(k, c))
          /\ n = Count(todo, AddsOf(k, c)) /\ a = Answered(c) /\ a <= 1
  BY Amounts, AnsweredOnce
<1>2. i + j + n <= a
  BY <1>1 DEF SubscribedInv, Subscribed
<1> QED BY <1>1, <1>2

LEMMA TokensMove ==
    ASSUME DaemonHolds, DaemonHolds', ClientInv, TokenInv, SubscribedInv, Up, Threads
    PROVE  TokenInv'
<1> SUFFICES ASSUME NEW t \in Firsts, NEW b \in Bodies
             PROVE  /\ AtSource(t, b)' + Raised(t, b)' <= 1
                    /\ \A c \in connected' :
                          AtSource(t, b)' + Raised(t, b)' + OnTheWay(c, t, b)' <= 1
  BY DEF TokenInv, Firsts
<1>1. PICK i \in Nat, j \in Nat, k \in Nat, l \in Nat :
          /\ i = AtSource(t, b) /\ j = AtSource(t, b)' /\ k = Raised(t, b) /\ l = Raised(t, b)'
  BY TokensNow, TokensLater DEF AllTokensAreNat
<1>2. i + k <= 1 /\ j + l <= i + k
  BY <1>1, ThreadsSource DEF TokenInv
<1>3. ASSUME NEW c \in connected'
      PROVE  j + l + OnTheWay(c, t, b)' <= 1
  <2>1. CASE c \in connected
    <3>1. PICK m \in Nat, n \in Nat : m = OnTheWay(c, t, b) /\ n = OnTheWay(c, t, b)'
      BY <2>1, TokensNow, TokensLater DEF AllTokensAreNat, DaemonHolds, DeskInv, ClientTypes
    <3>2. i + k + m <= 1
      BY <1>1, <2>1, <3>1 DEF TokenInv
    <3>3. CASE ~(Manager /\ DispatchEvent)
      <4>1. n <= m
        BY <2>1, <3>1, <3>3, WayMoves
      <4> QED BY <1>2, <3>1, <3>2, <4>1
    <3>4. CASE Manager /\ DispatchEvent
      <4>1. \A x \in Key : Count(subscriptions[x], {c}) <= 1
        BY <2>1, SubscribedOnce
      <4>2. j + l + n <= i + k + m
        BY <1>1, <2>1, <3>1, <3>4, <4>1, DispatchMoves
      <4> QED BY <1>1, <3>1, <3>2, <4>2
    <3> QED BY <3>3, <3>4
  <2>2. CASE c \notin connected
    <3>1. /\ c = counter /\ main = "accept" /\ counter \in Clients /\ UNCHANGED managerVars
          /\ inbox'[c] = <<SetSender, VersionResponse>>
      BY <1>3, <2>2, ThreadsClients
    <3>2. Count(queue', SendsOf(c, t, b)) = 0 /\ Count(outbox', SendsOf(c, t, b)) = 0
      BY <3>1, CounterIsFresh, FreshCounts DEF managerVars
    <3>3. Count(inbox'[c], NewsOf(t, b)) = 0
      <4>1. PICK box : box = inbox'[c]
        OBVIOUS
      <4>2. DOMAIN box = 1 .. 2 /\ box[1] = SetSender /\ box[2] = VersionResponse
        BY <3>1, <4>1
      <4>3. \A x \in DOMAIN box : box[x] \notin NewsOf(t, b)
        BY <4>2 DEF NewsOf, SetSender, VersionResponse
      <4> QED BY <4>1, <4>3, CountNone
    <3>4. OnTheWay(c, t, b)' = 0
      BY <3>2, <3>3 DEF OnTheWay
    <3> QED BY <1>2, <3>4
  <2> QED BY <2>1, <2>2
<1> QED BY <1>1, <1>2, <1>3

LEMMA AddsKeep ==
    ASSUME DaemonHolds, EventMoves, ~SendSubscription, NEW k, NEW c
    PROVE  /\ Count(eventQueue', AddsOf(k, c)) \in Nat
           /\ Count(eventQueue', AddsOf(k, c)) <= Count(eventQueue, AddsOf(k, c))
<1>1. eventQueue \in Seq(EventManagerCmd)
  BY DEF DaemonHolds, DeskInv, BusTypes, ManagerTypeOK
<1>2. ASSUME NEW x, Moves(eventQueue, eventQueue', x), x.kind # "AddSubscription"
      PROVE  /\ Count(eventQueue', AddsOf(k, c)) \in Nat
             /\ Count(eventQueue', AddsOf(k, c)) <= Count(eventQueue, AddsOf(k, c))
  <2>1. x \notin AddsOf(k, c)
    BY <1>2 DEF AddsOf, AddCmd
  <2> QED BY <1>1, <1>2, <2>1, CountMoves
<1>3. RemoveAllCmd(None).kind # "AddSubscription" /\ \A e : DispatchCmd(e).kind # "AddSubscription"
  BY DEF RemoveAllCmd, DispatchCmd
<1>4. CASE UNCHANGED eventQueue \/ (eventQueue # <<>> /\ eventQueue' = Tail(eventQueue))
  BY <1>2, <1>3, <1>4 DEF Moves
<1>5. CASE \E p \in Pids : RaiseEvent(p)
  BY <1>2, <1>3, <1>5 DEF RaiseEvent, Moves
<1>6. CASE \E x : Plain(x) /\ eventQueue' = Append(eventQueue, x)
  BY <1>2, <1>6 DEF Plain, Moves
<1> QED BY <1>4, <1>5, <1>6 DEF EventMoves

\* retain leaves a client as many entries as it had, or none.
LEMMA RetainCounts ==
    ASSUME NEW T, NEW ids \in Seq(T), NEW d, NEW c
    PROVE  /\ Count(Retain(ids, d), {c}) \in Nat
           /\ Count(Retain(ids, d), {c}) <= Count(ids, {c})
<1> DEFINE own == {j \in DOMAIN ids : ids[j] = d}
<1>1. Where(ids, {d}) = own
  BY DEF Where
<1>2. PICK n \in Nat : n = Cardinality(own)
  BY <1>1, WhereIs DEF Count
<1>3. PICK s : s = Retain(ids, d)
  OBVIOUS
<1>4. DOMAIN s = 1 .. n /\ \A i \in DOMAIN s : s[i] = d
  BY <1>2, <1>3 DEF Retain
<1>5. Count(ids, {c}) \in Nat
  BY WhereIs
<1>6. CASE c = d
  <2>1. Where(s, {c}) = 1 .. n
    BY <1>4, <1>6 DEF Where
  <2>2. Cardinality(1 .. n) = n
    BY <1>2, FS_Interval
  <2>3. Count(s, {c}) = n
    BY <2>1, <2>2 DEF Count
  <2>4. Count(ids, {c}) = n
    BY <1>1, <1>2, <1>6 DEF Count
  <2> QED BY <1>3, <2>3, <2>4
<1>7. CASE c # d
  <2>1. Count(s, {c}) = 0
    BY <1>4, <1>7, CountNone
  <2> QED BY <1>3, <1>5, <2>1
<1> QED BY <1>6, <1>7

\* The event manager makes a subscription out of every command to subscribe.
LEMMA ManagerSubscribes ==
    ASSUME DaemonHolds, ManagerNext, NEW c, NEW k \in Key
    PROVE  \E i \in Nat, j \in Nat :
              /\ i = Count(subscriptions'[k], {c}) /\ j = Count(eventQueue', AddsOf(k, c))
              /\ i + j <= Count(subscriptions[k], {c}) + Count(eventQueue, AddsOf(k, c))
<1> DEFINE cmd == Head(eventQueue)
           key == <<cmd.server_id, cmd.event_type>>
           A == AddsOf(k, c)
<1>1. /\ eventQueue \in Seq(EventManagerCmd) /\ subscriptions \in [Key -> Seq(Clients)]
  BY DEF DaemonHolds, DeskInv, BusTypes, ManagerTypeOK
<1>2. PICK i \in Nat, j \in Nat : i = Count(subscriptions[k], {c}) /\ j = Count(eventQueue, A)
  BY Amounts
<1>3. ASSUME eventQueue # <<>>, eventQueue' = Tail(eventQueue)
      PROVE  \E n \in Nat, j2 \in Nat : /\ n = One(cmd \in A)
                                        /\ j2 = Count(eventQueue', A) /\ j2 = j - n
  <2>1. Tail(eventQueue) \in Seq(EventManagerCmd)
    BY <1>1, <1>3
  <2>2. Count(eventQueue', A) \in Nat /\ Count(eventQueue', A) = j - One(cmd \in A)
    BY <1>1, <1>2, <1>3, <2>1, CountTail, WhereIs
  <2> QED BY <2>2 DEF One
<1>4. CASE Forward
  BY <1>2, <1>4 DEF Forward
<1>5. ASSUME eventQueue # <<>>, eventQueue' = Tail(eventQueue),
             Count(subscriptions'[k], {c}) \in Nat,
             Count(subscriptions'[k], {c}) <= i
      PROVE  \E i2 \in Nat, j2 \in Nat :
                /\ i2 = Count(subscriptions'[k], {c}) /\ j2 = Count(eventQueue', A)
                /\ i2 + j2 <= i + j
  <2>1. PICK n \in Nat, j2 \in Nat : j2 = Count(eventQueue', A) /\ j2 = j - n
    BY <1>3, <1>5
  <2>2. PICK i2 \in Nat : i2 = Count(subscriptions'[k], {c})
    BY <1>5
  <2> HIDE DEF A
  <2>3. i2 + j2 <= i + j
    BY <1>5, <2>1, <2>2
  <2> QED BY <2>1, <2>2, <2>3
<1>6. CASE DispatchEvent
  BY <1>2, <1>5, <1>6 DEF DispatchEvent, Received
<1>7. CASE RemoveSubscription \/ RemoveAllSubscriptions
  <2>1. PICK d : subscriptions'[k] \in {subscriptions[k], Retain(subscriptions[k], d)}
    BY <1>1, <1>7 DEF RemoveSubscription, RemoveAllSubscriptions
  <2>2. /\ Count(Retain(subscriptions[k], d), {c}) \in Nat
        /\ Count(Retain(subscriptions[k], d), {c}) <= i
    <3>1. subscriptions[k] \in Seq(Clients)
      BY <1>1
    <3> QED BY <1>2, <3>1, RetainCounts
  <2>3. eventQueue # <<>> /\ eventQueue' = Tail(eventQueue)
    BY <1>7 DEF RemoveSubscription, RemoveAllSubscriptions, Received
  <2> HIDE DEF A
  <2>4. Count(subscriptions'[k], {c}) \in Nat /\ Count(subscriptions'[k], {c}) <= i
    BY <1>2, <2>1, <2>2
  <2>5. PICK x : x = Count(subscriptions[k], {c}) + Count(eventQueue, A) /\ x = i + j
    BY <1>2
  <2> QED BY <1>5, <2>3, <2>4, <2>5 DEF A
<1>8. CASE AddSubscription
  <2>1. /\ eventQueue # <<>> /\ eventQueue' = Tail(eventQueue) /\ cmd.kind = "AddSubscription"
        /\ cmd \in EventManagerCmd
        /\ subscriptions' = [subscriptions EXCEPT ![key] = Append(@, cmd.client_id)]
    BY <1>1, <1>8 DEF AddSubscription, Received
  <2>2. /\ cmd \in [kind : {"AddSubscription", "RemoveSubscription"}, server_id : Units,
                    event_type : ServerEventType, client_id : Clients]
    BY <2>1 DEF EventManagerCmd
  <2>3. key = k /\ cmd.client_id = c => cmd \in A
    <3>1. k = <<k[1], k[2]>>
      BY DEF Key
    <3> QED BY <2>1, <2>2, <3>1 DEF AddsOf, AddCmd
  <2>4. subscriptions'[k] = IF key = k THEN Append(subscriptions[k], cmd.client_id)
                            ELSE subscriptions[k]
    BY <1>1, <2>1
  <2>5. PICK n \in Nat, j2 \in Nat : /\ n = One(cmd \in A)
                                     /\ j2 = Count(eventQueue', A) /\ j2 = j - n
    BY <1>3, <2>1
  <2> HIDE DEF A, cmd, key
  <2>6. CASE key = k
    <3>1. PICK d : d = cmd.client_id
      OBVIOUS
    <3>2. subscriptions[k] \in Seq(Clients) /\ subscriptions'[k] = Append(subscriptions[k], d)
      BY <1>1, <2>4, <2>6, <3>1
    <3>3. Adds(subscriptions[k], subscriptions'[k], d)
      BY <3>2, AppendAdds DEF IsSeq
    <3>4. Count(subscriptions'[k], {c}) = i + One(d \in {c})
      BY <1>2, <3>2, <3>3, CountAdds
    <3>5. PICK m \in Nat : m = One(d \in {c}) /\ m <= n
      BY <2>3, <2>5, <2>6, <3>1 DEF One
    <3>6. (i + m) + j2 <= i + j /\ i + m \in Nat
      BY <2>5, <3>5
    <3> QED BY <1>2, <2>5, <3>4, <3>5, <3>6 DEF A
  <2>7. CASE key # k
    <3>1. i + j2 <= i + j /\ i = Count(subscriptions'[k], {c})
      BY <1>2, <2>4, <2>5, <2>7
    <3> QED BY <1>2, <2>5, <3>1 DEF A
  <2> QED BY <2>6, <2>7
<1> QED BY <1>2, <1>4, <1>6, <1>7, <1>8 DEF ManagerNext

LEMMA ListOnce ==
    ASSUME NEW s, NEW n \in Nat, DOMAIN s = 1 .. n, NEW M,
           \A i, j \in 1 .. n : s[i] \in M /\ s[j] \in M => i = j
    PROVE  Count(s, M) \in Nat /\ Count(s, M) <= 1
<1>1. CASE \E i \in 1 .. n : s[i] \in M
  <2>1. PICK i \in 1 .. n : s[i] \in M
    BY <1>1
  <2>2. Where(s, M) = {i}
    BY <2>1 DEF Where
  <2>3. Cardinality({i}) = 1
    BY FS_Singleton
  <2>4. Count(s, M) = 1
    BY <2>2, <2>3 DEF Count
  <2> QED BY <2>4
<1>2. CASE ~(\E i \in 1 .. n : s[i] \in M)
  <2>1. Count(s, M) = 0
    BY <1>2, CountNone
  <2> QED BY <2>1
<1> QED BY <1>1, <1>2

\* What a command subscribes a client to, but for subscribe-event.
Lists == {<<"ServerStarting", "ServerStarted">>, <<"ServerStopping", "ServerStopped">>,
          <<"InstallationComplete", "InstallationFailed", "ActionProgress">>,
          <<"UpdateComplete", "UpdateFailed", "ActionProgress">>}

LEMMA ListsDiffer ==
    ASSUME NEW types \in Lists
    PROVE  /\ Len(types) \in Nat
           /\ \A i, j \in 1 .. Len(types) : types[i] = types[j] => i = j
<1>1. ASSUME NEW x, NEW y, x # y
      PROVE  LET s == <<x, y>>
             IN Len(s) \in Nat /\ \A i, j \in 1 .. Len(s) : s[i] = s[j] => i = j
  BY <1>1
<1>2. ASSUME NEW x, NEW y, NEW z, x # y, x # z, y # z
      PROVE  LET s == <<x, y, z>>
             IN Len(s) \in Nat /\ \A i, j \in 1 .. Len(s) : s[i] = s[j] => i = j
  BY <1>2
<1> QED BY <1>1, <1>2 DEF Lists

LEMMA ListsAre ==
    /\ <<"ServerStarting", "ServerStarted">> \in Lists
    /\ <<"ServerStopping", "ServerStopped">> \in Lists
    /\ <<"InstallationComplete", "InstallationFailed", "ActionProgress">> \in Lists
    /\ <<"UpdateComplete", "UpdateFailed", "ActionProgress">> \in Lists
  BY Zenon DEF Lists

LEMMA CommandsList ==
    ASSUME Commands, Head(queue).cmd.kind # "SubscribeEvent"
    PROVE  todo' = <<>> \/ \E u : \E types \in Lists : todo' = Subscriptions(u, types)
<1>1. \A response, list, subs : Returns(response, list, subs) => todo' = subs
  BY DEF Returns
<1>2. CASE HandleStart
  <2>1. PICK types : types = <<"ServerStarting", "ServerStarted">>
    OBVIOUS
  <2>2. types \in Lists
    BY <2>1, ListsAre, Zenon
  <2>3. \E u : todo' = <<>> \/ todo' = Subscriptions(u, types)
    BY <1>1, <1>2, <2>1 DEF HandleStart
  <2> QED BY <2>2, <2>3
<1>3. CASE HandleStop
  <2>1. PICK types : types = <<"ServerStopping", "ServerStopped">>
    OBVIOUS
  <2>2. types \in Lists
    BY <2>1, ListsAre, Zenon
  <2>3. \E u : todo' = <<>> \/ todo' = Subscriptions(u, types)
    BY <1>1, <1>3, <2>1 DEF HandleStop
  <2> QED BY <2>2, <2>3
<1>4. CASE HandleInstall
  <2>1. PICK types : types = <<"InstallationComplete", "InstallationFailed", "ActionProgress">>
    OBVIOUS
  <2>2. types \in Lists
    BY <2>1, ListsAre, Zenon
  <2>3. \E u : todo' = <<>> \/ todo' = Subscriptions(u, types)
    BY <1>1, <1>4, <2>1 DEF HandleInstall
  <2> QED BY <2>2, <2>3
<1>5. CASE HandleUpdate
  <2>1. PICK types : types = <<"UpdateComplete", "UpdateFailed", "ActionProgress">>
    OBVIOUS
  <2>2. types \in Lists
    BY <2>1, ListsAre, Zenon
  <2>3. \E u : todo' = <<>> \/ todo' = Subscriptions(u, types)
    BY <1>1, <1>5, <2>1 DEF HandleUpdate
  <2> QED BY <2>2, <2>3
<1>6. CASE \/ HandleList \/ HandleGetVersion \/ HandleUnknownServer \/ HandleInput
           \/ HandleStopDaemon
  BY <1>1, <1>6 DEF HandleList, HandleGetVersion, HandleUnknownServer, HandleInput,
     HandleStopDaemon
<1>7. ~HandleSubscribeEvent
  BY DEF HandleSubscribeEvent, Incoming
<1> QED BY <1>2, <1>3, <1>4, <1>5, <1>6, <1>7 DEF Commands

LEMMA TodoOnce ==
    ASSUME Commands, Head(queue).cmd.kind # "SubscribeEvent", NEW k, NEW c
    PROVE  Count(todo', AddsOf(k, c)) \in Nat /\ Count(todo', AddsOf(k, c)) <= 1
<1>1. CASE todo' = <<>>
  <2>1. PICK s : s = todo'
    OBVIOUS
  <2>2. \A i \in DOMAIN s : s[i] \notin AddsOf(k, c)
    BY <1>1, <2>1
  <2>3. Count(s, AddsOf(k, c)) = 0
    BY <2>2, CountNone
  <2> QED BY <2>1, <2>3
<1>2. ASSUME NEW u, NEW types \in Lists, todo' = Subscriptions(u, types)
      PROVE  Count(todo', AddsOf(k, c)) \in Nat /\ Count(todo', AddsOf(k, c)) <= 1
  <2>1. PICK s, n : s = todo' /\ n = Len(types) /\ n \in Nat
    BY <1>2, ListsDiffer
  <2>2. /\ DOMAIN s = 1 .. n
        /\ \A i \in 1 .. n : s[i] = AddCmd(u, types[i], Head(queue).id)
    BY <1>2, <2>1 DEF Subscriptions
  <2>3. \A i \in 1 .. n : s[i] \in AddsOf(k, c) => types[i] = k[2]
    BY <2>2 DEF AddCmd, AddsOf
  <2>4. \A i, j \in 1 .. n : s[i] \in AddsOf(k, c) /\ s[j] \in AddsOf(k, c) => i = j
    BY <1>2, <2>1, <2>3, ListsDiffer
  <2>5. Count(s, AddsOf(k, c)) \in Nat /\ Count(s, AddsOf(k, c)) <= 1
    <3>1. PICK M : M = AddsOf(k, c)
      OBVIOUS
    <3>2. n \in Nat /\ DOMAIN s = 1 .. n
      BY <2>1, <2>2
    <3>3. Count(s, M) \in Nat /\ Count(s, M) <= 1
      BY <2>4, <3>1, <3>2, ListOnce
    <3> QED BY <3>1, <3>3
  <2> QED BY <2>1, <2>5
<1> QED BY <1>1, <1>2, CommandsList

LEMMA CommandIsCalled ==
    ASSUME DaemonHolds, ClientInv, NEW c \in connected, queue # <<>>, Head(queue) \in OwnOf(c)
    PROVE  Head(queue).cmd = called[c]
<1>1. /\ c \in Clients /\ inbox[c] \in Seq(DaemonResponse) /\ queue \in Seq(DaemonEvent)
      /\ cmds[c] \in Seq(Requests)
  BY Boxes DEF DaemonHolds, DeskInv, ClientTypes, BusTypes
<1>2. InLine(c, inbox[c], answering, queue, cmds[c], requests[c])
  BY DEF DaemonHolds, AnswersInv, LineInv
<1>3. PICK n \in Nat, h \in Nat, queued \in Nat, unread \in Nat :
          /\ n = Count(inbox[c], AnswerMessage) /\ queued = Count(queue, OwnOf(c))
          /\ unread = Len(cmds[c]) /\ h = Held(answering, c)
  BY <1>1, WhereIs DEF Held
<1>4. Len(requests[c]) = n + h + queued + unread
      /\ Says(queue, OwnOf(c), Cmd(c), requests[c], n + h)
  BY <1>2, <1>3 DEF InLine
<1>5. Len(requests[c]) \in {0, 1} /\ (Len(requests[c]) = 1 => requests[c][1] = called[c])
  <2>1. requests[c] = IF read[c] = 0 THEN <<>> ELSE <<called[c]>>
    BY <1>1 DEF ClientInv, SaidInv
  <2>2. Len(<<>>) = 0 /\ Len(<<called[c]>>) = 1 /\ <<called[c]>>[1] = called[c]
    OBVIOUS
  <2> QED BY <2>1, <2>2
<1>6. queued >= 1
  BY <1>1, <1>3, CountTail
<1>7. n + h = 0 /\ queued = 1 /\ requests[c][1] = called[c]
  <2>1. PICK l : l = Len(requests[c])
    OBVIOUS
  <2>2. l = n + h + queued + unread /\ l \in {0, 1} /\ queued >= 1
    BY <1>4, <1>5, <1>6, <2>1
  <2>3. n \in Nat /\ h \in Nat /\ queued \in Nat /\ unread \in Nat
    OBVIOUS
  <2>4. l = 1
    BY <2>2, <2>3
  <2>5. n + h = 0 /\ queued = 1
    BY <2>2, <2>3, <2>4
  <2> QED BY <1>5, <2>1, <2>4, <2>5
<1>8. 1 \in Where(queue, OwnOf(c)) /\ Head(queue) = queue[1]
  BY <1>1, WhereTail
<1>9. Place(Where(queue, OwnOf(c)), 1) = 1
  <2>1. Place(Where(queue, OwnOf(c)), 1) \in 1 .. 1
    BY <1>1, <1>3, <1>7, <1>8, WhereIs
  <2> QED BY <2>1
<1>10. Cmd(c)[queue[1]] = requests[c][1]
  <2>1. Cmd(c)[queue[1]] = requests[c][n + h + 1]
    BY <1>4, <1>8, <1>9 DEF Says
  <2>2. n + h + 1 = 1
    BY <1>7
  <2> QED BY <2>1, <2>2
<1>11. Cmd(c)[queue[1]] = queue[1].cmd
  BY <1>8 DEF Cmd
<1> QED BY <1>7, <1>8, <1>10, <1>11

LEMMA CommandsSubscribe ==
    ASSUME DaemonHolds, ClientInv, CalledInv, SubscribedInv, Up, Commands,
           NEW c \in connected, NEW k \in Key
    PROVE  Subscribed(c, k)' <= Answered(c)'
<1>1. Handled /\ Answers
  BY QuietCommands, SubscribeKeeps, StartKeeps, StopKeeps, InputKeeps
     DEF Commands, MsgInv, DaemonHolds
<1>2. PICK a \in Answering : answering' = a /\ a.client_id = Head(queue).id
  BY CommandInHand DEF DaemonHolds
<1>3. answering = None
  BY <1>1 DEF Handled, DaemonHolds, DeskInv, HandInv, Preparing
<1>4. /\ c \in Clients /\ Head(queue).id \in Clients /\ Head(queue).cmd \in Requests
      /\ Head(queue) \in DaemonEvent
  <2>1. queue \in Seq(DaemonEvent) /\ queue # <<>>
    BY <1>1 DEF Handled, DaemonHolds, DeskInv, BusTypes
  <2> QED BY <1>1, <2>1, HeadIsElem DEF Handled, DaemonHolds, DeskInv, ClientTypes, OrderInv,
          CountInv, MsgInv, QueueInv, FineMsg
<1>5. PICK i \in Nat, j \in Nat, n \in Nat :
          /\ i = Count(subscriptions[k], {c}) /\ j = Count(eventQueue, AddsOf(k, c))
          /\ n = Count(inbox[c], AnswerMessage)
  BY <1>4, Amounts
<1>6. PICK m \in Nat : m = Count(todo, AddsOf(k, c))
  BY Amounts
<1>7. Held(answering, c) = 0 /\ Answered(c) = n + 0
  BY <1>3, <1>5 DEF Held, Holds, Answered
<1>8. i + j + m <= n
  <2>1. Subscribed(c, k) = i + j + m
    BY <1>5, <1>6 DEF Subscribed
  <2>2. Subscribed(c, k) <= Answered(c)
    BY DEF SubscribedInv
  <2> QED BY <1>7, <2>1, <2>2
<1>9. UNCHANGED <<subscriptions, eventQueue, inbox>>
  BY <1>1 DEF Handled
<1>10. CASE Head(queue).id = c
  <2>1. Head(queue) \in OwnOf(c) /\ queue # <<>>
    BY <1>1, <1>4, <1>10 DEF Handled, OwnOf, DaemonEvent, SendEvents, AddServerUnitEvents,
       StopDaemonEvent, DaemonStopped
  <2>2. n = 0
    <3>1. Answered(c) = 0
      BY <2>1, AnsweredOnce
    <3> QED BY <1>7, <3>1
  <2>3. Head(queue).cmd.kind # "SubscribeEvent"
    BY <1>4, <2>1, CommandIsCalled DEF CalledInv
  <2>4. PICK l \in Nat : l = Count(todo', AddsOf(k, c)) /\ l <= 1
    BY <2>3, TodoOnce
  <2>5. Held(answering', c) = 1
    BY <1>2, <1>10, AnswerAssumption DEF Held, Holds
  <2>6. Subscribed(c, k)' = i + j + l /\ Answered(c)' = n + 1
    BY <1>5, <1>9, <2>4, <2>5 DEF Subscribed, Answered
  <2> QED BY <1>8, <2>2, <2>4, <2>6
<1>11. CASE Head(queue).id # c
  <2>1. Held(answering', c) = 0
    BY <1>2, <1>11 DEF Held, Holds
  <2>2. Count(todo', AddsOf(k, c)) = 0
    <3>1. PICK subs : todo' = subs /\ IsSeq(subs)
                      /\ \A x \in Elems(subs) : x.client_id = Head(queue).id
      BY <1>1 DEF Answers, Returns, Fits
    <3>2. \A x \in Elems(subs) : x \notin AddsOf(k, c)
      BY <1>11, <3>1 DEF AddsOf, AddCmd
    <3> QED BY <3>1, <3>2, NoneOf
  <2>3. Subscribed(c, k)' = i + j + 0 /\ Answered(c)' = n + 0
    BY <1>5, <1>9, <2>1, <2>2 DEF Subscribed, Answered
  <2> QED BY <1>6, <1>8, <2>3
<1> QED BY <1>10, <1>11

LEMMA AnswersStay ==
    ASSUME DaemonHolds, Up, Threads, NEW c \in connected
    PROVE  /\ Count(inbox'[c], AnswerMessage) \in Nat
           /\ Count(inbox'[c], AnswerMessage) >= Count(inbox[c], AnswerMessage)
<1>1. c \in Clients /\ inbox[c] \in Seq(DaemonResponse)
  BY Boxes DEF DaemonHolds, DeskInv, ClientTypes
<1>2. PICK n \in Nat : n = Count(inbox[c], AnswerMessage)
  BY <1>1, Amounts
<1>3. ~(c = counter /\ main = "accept")
  BY <1>1, CounterIsFresh DEF DaemonHolds, AnswersInv, FreshInv
<1>4. CASE inbox'[c] = inbox[c]
  BY <1>2, <1>4
<1>5. ASSUME NEW x, Adds(inbox[c], inbox'[c], x)
      PROVE  /\ Count(inbox'[c], AnswerMessage) \in Nat
             /\ Count(inbox'[c], AnswerMessage) >= n
  <2>1. Count(inbox'[c], AnswerMessage) = n + One(x \in AnswerMessage)
    BY <1>1, <1>2, <1>5, CountAdds
  <2>2. PICK m \in Nat : m = One(x \in AnswerMessage)
    BY DEF One
  <2> QED BY <2>1, <2>2
<1> QED BY <1>1, <1>2, <1>3, <1>4, <1>5, ManBoxes DEF BoxStep

LEMMA ReplySubscribes ==
    ASSUME DaemonHolds, SubscribedInv, Up, Reply, NEW c \in connected, NEW k \in Key
    PROVE  Subscribed(c, k)' <= Answered(c)'
<1>1. /\ c \in Clients /\ inbox[c] \in Seq(DaemonResponse) /\ IsSeq(inbox[c])
      /\ inbox \in [Clients -> Seq(DaemonResponse)] /\ answering \in Answering
      /\ answering.client_id \in senders /\ answering # None
  BY Boxes, AnswerAssumption DEF DaemonHolds, DeskInv, ClientTypes, OrderInv, BoxInv, HandInv,
     Preparing, Reply, MsgInv, AnswerInv, ReplyTypes
<1>2. PICK d, r : /\ d = answering.client_id /\ r = answering.response /\ r \in AnswerMessage
  BY <1>1 DEF Answering
<1>3. /\ UNCHANGED <<subscriptions, todo>> /\ answering' = None
      /\ IF d \in connected
           THEN inbox' = [inbox EXCEPT ![d] = Append(@, r)] /\ UNCHANGED eventQueue
           ELSE eventQueue' = Append(eventQueue, RemoveAllCmd(d)) /\ UNCHANGED inbox
  BY <1>1, <1>2 DEF Reply, Deliver, Elsewhere
<1>4. PICK i \in Nat, j \in Nat, m \in Nat, n \in Nat :
          /\ i = Count(subscriptions[k], {c}) /\ j = Count(eventQueue, AddsOf(k, c))
          /\ m = Count(todo, AddsOf(k, c)) /\ n = Count(inbox[c], AnswerMessage)
  BY <1>1, Amounts
<1>5. PICK j2 \in Nat : j2 = Count(eventQueue', AddsOf(k, c)) /\ j2 <= j
  <2>1. Plain(RemoveAllCmd(d))
    BY PlainOnes
  <2>2. EventMoves
    BY <1>3, <2>1 DEF EventMoves
  <2>3. ~SendSubscription
    BY DEF Reply, SendSubscription
  <2> QED BY <1>4, <2>2, <2>3, AddsKeep
<1>6. Subscribed(c, k) = i + j + m /\ Subscribed(c, k)' = i + j2 + m
  BY <1>3, <1>4, <1>5 DEF Subscribed
<1>7. Subscribed(c, k) <= Answered(c)
  BY DEF SubscribedInv
<1>8. Held(None, c) = 0
  BY DEF Held, Holds
<1>9. CASE d = c
  <2>1. Adds(inbox[c], inbox'[c], r)
    <3>1. inbox'[c] = Append(inbox[c], r)
      BY <1>1, <1>3, <1>9
    <3> QED BY <1>1, <3>1, AppendAdds
  <2>2. Count(inbox'[c], AnswerMessage) = n + 1
    <3>1. PICK box, box2 : box = inbox[c] /\ box2 = inbox'[c]
      OBVIOUS
    <3>2. box \in Seq(DaemonResponse) /\ Adds(box, box2, r)
      BY <1>1, <2>1, <3>1
    <3>3. Count(box2, AnswerMessage) = Count(box, AnswerMessage) + One(r \in AnswerMessage)
      BY <3>2, CountAdds
    <3>4. One(r \in AnswerMessage) = 1
      BY <1>2 DEF One
    <3> QED BY <1>4, <3>1, <3>3, <3>4
  <2>3. Held(answering, c) = 1
    BY <1>1, <1>2, <1>9 DEF Held, Holds
  <2>4. Answered(c) = n + 1 /\ Answered(c)' = n + 1 + 0
    BY <1>3, <1>4, <1>8, <2>2, <2>3 DEF Answered
  <2> QED BY <1>5, <1>6, <1>7, <2>4
<1>10. CASE d # c
  <2>1. inbox'[c] = inbox[c]
    BY <1>1, <1>3, <1>10
  <2>2. Held(answering, c) = 0
    BY <1>2, <1>10 DEF Held, Holds
  <2>3. Answered(c) = n + 0 /\ Answered(c)' = n + 0
    BY <1>3, <1>4, <1>8, <2>1, <2>2 DEF Answered
  <2> QED BY <1>5, <1>6, <1>7, <2>3
<1> QED BY <1>9, <1>10

LEMMA SendSubscribes ==
    ASSUME DaemonHolds, SubscribedInv, Up, SendSubscription, NEW c \in connected, NEW k \in Key
    PROVE  Subscribed(c, k)' <= Answered(c)'
<1>1. /\ c \in Clients /\ eventQueue \in Seq(EventManagerCmd) /\ todo \in Seq(EventManagerCmd)
      /\ todo # <<>> /\ todo' = Tail(todo)
      /\ UNCHANGED <<subscriptions, answering, inbox>>
  BY DEF DaemonHolds, DeskInv, ClientTypes, BusTypes, ManagerTypeOK, ReplyTypes,
     SendSubscription, Elsewhere
<1>2. PICK x : x = Head(todo) /\ Adds(eventQueue, eventQueue', x)
  BY <1>1, AppendAdds DEF SendSubscription, IsSeq
<1>3. PICK i \in Nat, j \in Nat, m \in Nat, e \in Nat :
          /\ i = Count(subscriptions[k], {c}) /\ j = Count(eventQueue, AddsOf(k, c))
          /\ m = Count(todo, AddsOf(k, c)) /\ e = One(x \in AddsOf(k, c))
  BY Amounts DEF One
<1>4. Count(eventQueue', AddsOf(k, c)) = j + e
  <2>1. PICK A : A = AddsOf(k, c)
    OBVIOUS
  <2>2. Adds(eventQueue, eventQueue', x) /\ eventQueue \in Seq(EventManagerCmd)
    BY <1>1, <1>2
  <2>3. Count(eventQueue', A) = Count(eventQueue, A) + One(x \in A)
    BY <2>2, CountAdds
  <2> QED BY <1>3, <2>1, <2>3
<1>5. PICK m2 \in Nat : m2 = Count(todo', AddsOf(k, c)) /\ m2 = m - e
  <2>1. Tail(todo) \in Seq(EventManagerCmd)
    BY <1>1
  <2> QED BY <1>1, <1>2, <1>3, <2>1, CountTail, WhereIs
<1>6. Subscribed(c, k) = i + j + m /\ Subscribed(c, k)' = i + (j + e) + m2
  BY <1>1, <1>3, <1>4, <1>5 DEF Subscribed
<1>7. Subscribed(c, k)' = Subscribed(c, k)
  BY <1>5, <1>6
<1>8. Answered(c)' = Answered(c)
  BY <1>1 DEF Answered
<1> QED BY <1>7, <1>8 DEF SubscribedInv

LEMMA OthersSubscribe ==
    ASSUME DaemonHolds, SubscribedInv, Up, Threads, UNCHANGED <<answering, todo>>,
           Manager \/ (UNCHANGED subscriptions /\ ~SendSubscription),
           NEW c \in connected, NEW k \in Key
    PROVE  Subscribed(c, k)' <= Answered(c)'
<1>1. c \in Clients
  BY DEF DaemonHolds, DeskInv, ClientTypes
<1>2. PICK i \in Nat, j \in Nat, m \in Nat, n \in Nat, h \in Nat :
          /\ i = Count(subscriptions[k], {c}) /\ j = Count(eventQueue, AddsOf(k, c))
          /\ m = Count(todo, AddsOf(k, c)) /\ n = Count(inbox[c], AnswerMessage)
          /\ h = Held(answering, c)
  BY <1>1, Amounts DEF Held
<1>3. PICK n2 \in Nat : n2 = Count(inbox'[c], AnswerMessage) /\ n2 >= n
  BY <1>2, AnswersStay
<1>4. PICK i2 \in Nat, j2 \in Nat :
          /\ i2 = Count(subscriptions'[k], {c}) /\ j2 = Count(eventQueue', AddsOf(k, c))
          /\ i2 + j2 <= i + j
  <2>1. CASE Manager
    BY <1>2, <2>1, ManagerSubscribes DEF Manager
  <2>2. CASE UNCHANGED subscriptions /\ ~SendSubscription
    BY <1>2, <2>2, ThreadsEvents, AddsKeep
  <2> QED BY <2>1, <2>2
<1>5. Subscribed(c, k) = i + j + m /\ Answered(c) = n + h
  BY <1>2 DEF Subscribed, Answered
<1>6. Subscribed(c, k)' = i2 + j2 + m /\ Answered(c)' = n2 + h
  BY <1>2, <1>3, <1>4 DEF Subscribed, Answered
<1>7. i + j + m <= n + h
  BY <1>5 DEF SubscribedInv
<1>8. i2 + j2 + m <= n2 + h
  BY <1>3, <1>4, <1>7
<1> QED BY <1>6, <1>8

LEMMA ThreadsHand ==
    ASSUME DaemonHolds, Up, Threads
    PROVE  \/ Commands \/ Reply \/ SendSubscription
           \/ UNCHANGED <<answering, todo>> /\ (UNCHANGED subscriptions \/ Manager)
<1>1. CASE DaemonThread
  BY <1>1 DEF DaemonThread, OfUnits, SpawnWorker, HandOut, TakeUnit, TakeStopDaemon, Broadcast,
     ExitDaemon, replyVars, Elsewhere, Rest
<1>2. CASE \/ Manager \/ OfServers(LogNext) \/ OfServers(ProcessNext)
           \/ \E j \in 1 .. MaxJobs : OfJob(j)
  BY <1>2 DEF Manager, OfServers, OfJob, replyVars
<1>3. CASE Acceptor \/ \E c \in Clients : Relay(c) \/ Hangup(c)
  BY <1>3 DEF Acceptor, Register, Greet, RefuseClient, AcceptorRest, managerVars, replyVars,
     Relay, Hangup
<1> QED BY <1>1, <1>2, <1>3 DEF Threads

LEMMA SubscribedMoves ==
    ASSUME DaemonHolds, DaemonHolds', ClientInv, CalledInv, SubscribedInv, Up, Threads
    PROVE  SubscribedInv'
<1> SUFFICES ASSUME NEW c \in connected', NEW k \in Key
             PROVE  Subscribed(c, k)' <= Answered(c)'
  BY DEF SubscribedInv
<1>1. CASE c \in connected
  <2>1. CASE Commands
    BY <1>1, <2>1, CommandsSubscribe
  <2>2. CASE Reply
    BY <1>1, <2>2, ReplySubscribes
  <2>3. CASE SendSubscription
    BY <1>1, <2>3, SendSubscribes
  <2>4. CASE ~SendSubscription /\ UNCHANGED <<answering, todo>>
                 /\ (UNCHANGED subscriptions \/ Manager)
    BY <1>1, <2>4, OthersSubscribe
  <2> QED BY <2>1, <2>2, <2>3, <2>4, ThreadsHand
<1>2. CASE c \notin connected
  <2>1. /\ c = counter /\ counter \in Clients /\ UNCHANGED <<managerVars, todo>>
    BY <1>2, ThreadsClients
  <2>2. Subscribed(c, k) = 0
    BY <2>1, CounterIsFresh, FreshCounts
  <2>3. Subscribed(c, k)' = Subscribed(c, k)
    BY <2>1 DEF Subscribed, managerVars
  <2>4. PICK n \in Nat, h \in Nat : n = Count(inbox'[c], AnswerMessage) /\ h = Held(answering', c)
    <3>1. inbox'[c] \in Seq(DaemonResponse)
      BY <2>1 DEF DaemonHolds, DeskInv, ReplyTypes
    <3> QED BY <3>1, WhereIs DEF Held
  <2>5. Answered(c)' = n + h
    BY <2>4 DEF Answered
  <2> QED BY <2>2, <2>3, <2>4, <2>5
<1> QED BY <1>1, <1>2

\* What a client does leaves the tokens and the subscriptions where they are.
LEMMA ClientsKeepTokens ==
    ASSUME TokenInv, SubscribedInv, connected' \subseteq connected,
           UNCHANGED <<managerVars, processVars, todo, answering, inbox>>
    PROVE  TokenInv' /\ SubscribedInv'
<1>1. \A t, b : AtSource(t, b)' = AtSource(t, b) /\ Raised(t, b)' = Raised(t, b)
  BY DEF AtSource, Raised, managerVars, processVars
<1>2. \A t, b, c : OnTheWay(c, t, b)' = OnTheWay(c, t, b)
  BY DEF OnTheWay, managerVars
<1>3. \A c, k : Subscribed(c, k)' = Subscribed(c, k) /\ Answered(c)' = Answered(c)
  BY DEF Subscribed, Answered, managerVars
<1>4. TokenInv'
  BY <1>1, <1>2 DEF TokenInv, Firsts
<1>5. SubscribedInv'
  BY <1>3 DEF SubscribedInv
<1> QED BY <1>4, <1>5

LEMMA ManTokens ==
    ASSUME DaemonHolds, DaemonHolds', ClientInv, CalledInv, TokenInv, SubscribedInv,
           [ManNext]_manVars
    PROVE  TokenInv' /\ SubscribedInv'
<1>1. CASE Up /\ Threads
  BY <1>1, TokensMove, SubscribedMoves
<1>2. ASSUME NEW c \in Clients, ClientNext(c)
      PROVE  TokenInv' /\ SubscribedInv'
  <2>1. /\ connected' \subseteq connected
        /\ UNCHANGED <<managerVars, processVars, todo, answering, inbox>>
    BY <1>2, ClientMoves DEF ClientNext, Call, Send, Disconnect, AcceptorRest, replyVars,
       daemonVars, clientVars
  <2> QED BY <2>1, ClientsKeepTokens
<1>3. CASE UNCHANGED manVars
  <2>1. /\ connected' \subseteq connected
        /\ UNCHANGED <<managerVars, processVars, todo, answering, inbox>>
    BY <1>3 DEF manVars, daemonVars, replyVars, clientVars
  <2> QED BY <2>1, ClientsKeepTokens
<1> QED BY <1>1, <1>2, <1>3 DEF ManNext

\* A client that is there has an event in its inbox once, because it is somewhere
\* no more than once; and the inbox of another one does not change.
LEMMA ManOnce ==
    ASSUME DaemonHolds, DaemonHolds', OnceInv, TokenInv', [ManNext]_manVars
    PROVE  OnceInv'
<1> SUFFICES ASSUME NEW c \in Clients, NEW t \in Firsts, NEW b \in Bodies
             PROVE  Count(inbox'[c], NewsOf(t, b)) <= 1
  BY DEF OnceInv, Firsts
<1>1. CASE inbox'[c] = inbox[c]
  BY <1>1 DEF OnceInv
<1>2. CASE c \in connected'
  <2>1. PICK i \in Nat, j \in Nat, m \in Nat :
            /\ i = AtSource(t, b)' /\ j = Raised(t, b)' /\ m = OnTheWay(c, t, b)'
    BY TokensLater DEF AllTokensAreNat
  <2>2. i + j + m <= 1
    BY <1>2, <2>1 DEF TokenInv, Firsts
  <2>3. PICK x \in Nat, y \in Nat, z \in Nat :
            /\ x = Count(outbox', SendsOf(c, t, b)) /\ y = Count(queue', SendsOf(c, t, b))
            /\ z = Count(inbox'[c], NewsOf(t, b))
    BY AmountsLater DEF AllAmounts
  <2>4. m = x + y + z
    BY <2>1, <2>3 DEF OnTheWay
  <2> QED BY <2>2, <2>3, <2>4
<1>3. CASE c \notin connected' /\ inbox'[c] # inbox[c]
  <2>1. Up /\ Threads
    BY <1>3, ManSteps
  <2>2. c \in connected => c \in connected'
    BY <2>1, ThreadsClients
  <2>3. inbox'[c] = <<SetSender, VersionResponse>>
    BY <1>3, <2>1, <2>2, ManBoxes DEF BoxStep
  <2>4. \A i \in DOMAIN inbox'[c] : inbox'[c][i] \notin NewsOf(t, b)
    BY <2>3 DEF NewsOf, SetSender, VersionResponse
  <2>5. Count(inbox'[c], NewsOf(t, b)) = 0
    BY <2>4, CountNone
  <2> QED BY <2>5
<1> QED BY <1>1, <1>2, <1>3

ClientsInv ==
    /\ DaemonHolds /\ CalledInv /\ ClientInv
    /\ FitInv /\ ShapeInv /\ PlayedInv
    /\ TokenInv /\ SubscribedInv /\ OnceInv

LEMMA EmptyCount ==
    \A M : Count(<<>>, M) = 0
<1> SUFFICES ASSUME NEW M PROVE Count(<<>>, M) = 0
  OBVIOUS
<1>1. \A i \in DOMAIN <<>> : <<>>[i] \notin M
  OBVIOUS
<1> QED BY <1>1, CountNone

LEMMA ClientsInit ==
    ASSUME ManInit
    PROVE  ClientsInv /\ PanicsOnlyIf
<1>1. DaemonHolds /\ CalledInv /\ ClientInv
  BY ManInitHolds, ManClientsInit
<1>2. /\ read = [c \in Clients |-> 0] /\ outcome = [c \in Clients |-> "running"]
      /\ inbox = [c \in Clients |-> <<>>] /\ connected = {} /\ answering = None
      /\ eventQueue = <<>>
  BY DEF ManInit, Init, ManagerInit
<1>3. FitInv /\ ShapeInv
  <2>1. Len(<<>>) = 0 /\ 1 .. 0 = {}
    OBVIOUS
  <2> QED BY <1>2, <2>1 DEF FitInv, ShapeInv, Shape
<1>4. PlayedInv /\ PanicsOnlyIf
  BY <1>2 DEF PlayedInv, PanicsOnlyIf
<1>5. OnceInv
  BY <1>2, EmptyCount DEF OnceInv
<1>6. SubscribedInv
  BY <1>2 DEF SubscribedInv
<1>7. ASSUME NEW t, NEW b
      PROVE  AtSource(t, b) + Raised(t, b) <= 1
  <2>1. Raised(t, b) = 0
    BY <1>2, EmptyCount DEF Raised
  <2>2. CASE b \notin Pids
    BY <2>1, <2>2 DEF AtSource
  <2>3. CASE b \in Pids
    <3>1. pipe[b] = <<>> /\ raising[b] = None
      BY <2>3 DEF ManInit, Init, ProcessInit
    <3>2. Count(pipe[b], {LineOf[t]}) = 0
      BY <3>1, EmptyCount
    <3>3. One(raising[b] # None /\ raising[b] = t) = 0
      BY <3>1 DEF One
    <3>4. PICK n \in Nat : n = One(phase[b] \in Early[t]) /\ n <= 1
      BY DEF One
    <3>5. AtSource(t, b) = n + 0 + 0
      BY <2>3, <3>2, <3>3, <3>4 DEF AtSource
    <3> QED BY <2>1, <3>4, <3>5
  <2> QED BY <2>2, <2>3
<1>8. TokenInv
  BY <1>2, <1>7 DEF TokenInv
<1> QED BY <1>1, <1>3, <1>4, <1>5, <1>6, <1>8 DEF ClientsInv

LEMMA ClientsNext ==
    ASSUME ClientsInv, PanicsOnlyIf, [ManNext]_manVars
    PROVE  ClientsInv' /\ PanicsOnlyIf'
<1> USE DEF ClientsInv
<1>1. DaemonHolds' /\ CalledInv'
  BY ManNextHolds
<1>2. ClientInv' /\ FitInv' /\ ShapeInv' /\ PlayedInv'
  BY <1>1, ManClients, ManFits, ManShape, ManPlayed
<1>3. TokenInv' /\ SubscribedInv'
  BY <1>1, ManTokens
<1>4. OnceInv'
  BY <1>1, <1>3, ManOnce
<1>5. PanicsOnlyIf'
  BY ManPanics
<1> QED BY <1>1, <1>2, <1>3, <1>4, <1>5

\* PanicsOnlyIf (mcman.rs:281-627): while the daemon is there a client of it panics
\* only because its unit is unknown, or because it waits and one of the two events
\* comes second or comes twice.
THEOREM ManPanicsOnlyIf == ManSpec => []PanicsOnlyIf
  BY ClientsInit, ClientsNext, PTL DEF ManSpec

(***************************************************************************)
(* News of a finished job come after the unit: the worker hands the unit   *)
(* over to the daemon thread first, and the news, which pass the event     *)
(* manager, get into the same queue behind it.                             *)
(***************************************************************************)

DoneTypes == {"InstallationComplete", "UpdateComplete"}

\* Version v is what a job of unit u has fetched and handed over.
Fetched(u, v) ==
    \E j \in DOMAIN jobs :
        jobs[j].unit = u /\ jobs[j].target = v /\ jobs[j].at \in {"complete", "done"}
Landed(u) == u \in DOMAIN configs /\ Fetched(u, configs[u].version)

\* The unit is the daemon's, or comes with one of the first n messages.
Brings(m, u) == m.kind = "AddServerUnit" /\ m.unit_id = u
Due(u, n) == Landed(u) \/ \E i \in 1 .. n : Brings(queue[i], u)

TellsDone(e) == e.type \in DoneTypes
NewsInv ==
    /\ \A p \in Pids : raising[p] # None => raising[p] \notin DoneTypes
    /\ \A i \in 1 .. Len(queue) :
          /\ queue[i].kind = "AddServerUnit" =>
                Fetched(queue[i].unit_id, queue[i].config.version)
          /\ queue[i].kind = "SendEvent" /\ TellsDone(queue[i].event) =>
                Due(queue[i].event.server_id, i - 1)
    /\ \A j \in DOMAIN jobs : At(j, "complete") => Due(jobs[j].unit, Len(queue))
    /\ \A x \in Elems(eventQueue) :
          x.kind = "DispatchEvent" /\ TellsDone(x.event) => Due(x.event.server_id, Len(queue))
    /\ \A x \in Elems(outbox) : TellsDone(x.event) => Due(x.event.server_id, Len(queue))
    /\ \A c \in Clients : \A i \in 1 .. Len(inbox[c]) :
          inbox[c][i].kind = "ServerEvent" /\ TellsDone(inbox[c][i].event) =>
              Landed(inbox[c][i].event.server_id)

LEMMA ThreadsWork ==
    ASSUME DaemonHolds, Up, Threads
    PROVE  \/ TakeUnit
           \/ UNCHANGED configs /\ \E j \in DOMAIN jobs : OfJob(j)
           \/ UNCHANGED configs /\ SpawnWorker
           \/ UNCHANGED <<jobs, configs>>
<1>1. CASE Acceptor \/ \E c \in Clients : Relay(c) \/ Hangup(c)
  BY <1>1 DEF Acceptor, Register, Greet, RefuseClient, AcceptorRest, workVars, Relay, Hangup
<1>2. CASE Manager \/ OfServers(LogNext) \/ OfServers(ProcessNext)
  BY <1>2 DEF Manager, OfServers, workVars
<1>3. ASSUME NEW j \in 1 .. MaxJobs, OfJob(j)
      PROVE  UNCHANGED configs /\ j \in DOMAIN jobs
  BY <1>3 DEF OfJob, JobStep
<1>4. CASE OfUnits
  BY <1>4 DEF OfUnits, workVars
<1>5. CASE Commands
  <2>1. ASSUME NEW kind, Incoming(kind) PROVE UNCHANGED <<jobs, configs>>
    BY <2>1 DEF Incoming, Rest, workVars
  <2> QED BY <1>5, <2>1 DEF Commands, HandleList, HandleGetVersion, HandleUnknownServer,
          HandleStart, HandleStop, HandleSubscribeEvent, HandleInput, HandleInstall,
          HandleUpdate, HandleStopDaemon, Rest, workVars
<1>6. CASE SpawnWorker
  BY <1>6 DEF SpawnWorker
<1>7. CASE SendSubscription \/ Reply \/ HandOut \/ TakeStopDaemon \/ Broadcast \/ ExitDaemon
  BY <1>7 DEF SendSubscription, Reply, HandOut, TakeStopDaemon, Broadcast, ExitDaemon,
     Elsewhere, Rest, workVars
<1> QED BY <1>1, <1>2, <1>3, <1>4, <1>5, <1>6, <1>7 DEF Threads, DaemonThread

\* A step of a job: what it has fetched stays what it has fetched, it comes to
\* "complete" as it hands the unit over, and it tells that it is done from there.
LEMMA JobFetches ==
    ASSUME WorkersInv, NEW j \in DOMAIN jobs, JobStep(j)
    PROVE  /\ DOMAIN jobs' = DOMAIN jobs
           /\ \A i \in DOMAIN jobs : i # j => jobs'[i] = jobs[i]
           /\ jobs'[j].unit = jobs[j].unit
           /\ \A u, v : Fetched(u, v) => Fetched(u, v)'
<1>1. PICK step, t : Takes(j, step, t)
  BY StepIsTaken
<1>2. PICK x \in Job : x = jobs[j]
  BY DEF WorkersInv, GoodRow
<1>3. /\ DOMAIN jobs' = DOMAIN jobs /\ jobs'[j] = Stepped(x, step, t)
      /\ \A i \in DOMAIN jobs : i # j => jobs'[i] = jobs[i]
  BY <1>1, <1>2, TakesRows
<1>4. jobs'[j].at = step /\ jobs'[j].target = t /\ jobs'[j].unit = x.unit
  BY <1>3, SteppedIs
<1>5. x.at \in {"complete", "done"} => step \in {"complete", "done"} /\ t = x.target
  BY <1>1, <1>2 DEF Takes, NextAt, Busy, Sending
<1>6. ASSUME NEW u, NEW v, Fetched(u, v)
      PROVE  Fetched(u, v)'
  <2>1. PICK i \in DOMAIN jobs :
            jobs[i].unit = u /\ jobs[i].target = v /\ jobs[i].at \in {"complete", "done"}
    BY <1>6 DEF Fetched
  <2>2. /\ i \in DOMAIN jobs' /\ jobs'[i].unit = u /\ jobs'[i].target = v
        /\ jobs'[i].at \in {"complete", "done"}
    BY <1>2, <1>3, <1>4, <1>5, <2>1
  <2> QED BY <2>2 DEF Fetched
<1> QED BY <1>2, <1>3, <1>4, <1>6

LEMMA JobHandsOver ==
    ASSUME WorkersInv, NEW j \in DOMAIN jobs, JobStep(j)
    PROVE  \/ UNCHANGED queue /\ jobs'[j].at # "complete"
           \/ /\ jobs'[j].at = "complete"
              /\ \E m, u, v : /\ queue' = Append(queue, m) /\ Brings(m, u)
                              /\ u = jobs[j].unit /\ v = m.config.version /\ Fetched(u, v)'
<1>1. PICK step, t : Takes(j, step, t)
  BY StepIsTaken
<1>2. PICK x \in Job : x = jobs[j]
  BY DEF WorkersInv, GoodRow
<1>3. /\ DOMAIN jobs' = DOMAIN jobs /\ jobs'[j] = Stepped(x, step, t)
  BY <1>1, <1>2, TakesRows
<1>4. jobs'[j].at = step /\ jobs'[j].target = t /\ jobs'[j].unit = x.unit
  BY <1>3, SteppedIs
<1>5. CASE SendAdd(j)
  <2>1. PICK m : m = AddServerUnitEvent(x.unit, Result(j)) /\ queue' = Append(queue, m)
    BY <1>2, <1>5 DEF SendAdd
  <2>2. jobs'[j].at = "complete" /\ x.at = "add"
    BY <1>2, <1>5, GoesToAt DEF SendAdd, At
  <2>3. t = x.target
    BY <1>1, <1>2, <1>4, <2>2 DEF Takes
  <2>4. m.kind = "AddServerUnit" /\ m.unit_id = x.unit /\ m.config.version = x.target
    BY <1>2, <2>1 DEF AddServerUnitEvent, Result
  <2>5. PICK u, v : u = x.unit /\ v = x.target
    OBVIOUS
  <2>6. Fetched(u, v)'
    <3>1. /\ j \in DOMAIN jobs' /\ jobs'[j].unit = u /\ jobs'[j].target = v
          /\ jobs'[j].at \in {"complete", "done"}
      BY <1>3, <1>4, <2>2, <2>3, <2>5
    <3> QED BY <3>1 DEF Fetched
  <2>7. Brings(m, u) /\ m.config.version = v
    BY <2>4, <2>5 DEF Brings
  <2> QED BY <1>2, <2>1, <2>2, <2>5, <2>6, <2>7
<1>6. CASE ~SendAdd(j)
  <2>1. UNCHANGED queue
    BY <1>6 DEF JobStep, Look, MakeDir, AcceptEula, SayProgress, CheckForUpdate, Lookup, OpenJar,
       CopyJar, Patch, TruncateUnitFile, FillUnitFile, SayHowItEnded, Fails, Panics, Nothing, Reports
  <2>2. x.at # "add"
    BY <1>2, <1>6 DEF JobStep, At, Look, MakeDir, AcceptEula, SayProgress, CheckForUpdate, Lookup,
       OpenJar, CopyJar, Patch, TruncateUnitFile, FillUnitFile, SayHowItEnded
  <2>3. step # "complete"
    BY <1>1, <1>2, <2>2 DEF Takes, NextAt
  <2> QED BY <1>4, <2>1, <2>3
<1> QED BY <1>5, <1>6

LEMMA JobTells ==
    ASSUME WorkersInv, NEW j \in DOMAIN jobs, JobStep(j)
    PROVE  \/ UNCHANGED eventQueue
           \/ \E type : /\ eventQueue' = Append(eventQueue, JobEvent(type, jobs[j].unit, j))
                        /\ type \in DoneTypes => At(j, "complete")
<1>1. CASE SayHowItEnded(j)
  BY <1>1 DEF SayHowItEnded, Raises, FailedEvent, DoneTypes
<1>2. CASE ~SayHowItEnded(j)
  <2>1. UNCHANGED eventQueue \/ Raises(j, "ActionProgress")
    BY <1>2 DEF JobStep, Look, MakeDir, AcceptEula, SayProgress, CheckForUpdate, Lookup, OpenJar,
       CopyJar, Patch, TruncateUnitFile, FillUnitFile, SendAdd, Fails, Panics, Nothing, Reports
  <2> QED BY <2>1 DEF Raises, DoneTypes
<1> QED BY <1>1, <1>2

LEMMA FetchedStays ==
    ASSUME DaemonHolds, Up, Threads
    PROVE  \A u, v : Fetched(u, v) => Fetched(u, v)'
<1>1. CASE UNCHANGED jobs
  BY <1>1 DEF Fetched
<1>2. CASE SpawnWorker /\ ~UNCHANGED jobs
  <2>1. PICK x : jobs' = Append(jobs, x)
    BY <1>2 DEF SpawnWorker, Spawned
  <2>2. IsSeq(jobs) /\ DOMAIN jobs = 1 .. Len(jobs)
    BY DEF DaemonHolds, DeskInv, WorkersInv, WorkersTypeOK, IsSeq
  <2>3. Adds(jobs, jobs', x)
    BY <2>1, <2>2, AppendAdds
  <2>4. \A j \in DOMAIN jobs : j \in DOMAIN jobs' /\ jobs'[j] = jobs[j]
    BY <2>2, <2>3 DEF Adds, IsSeq
  <2> QED BY <2>4 DEF Fetched
<1>3. ASSUME NEW j \in DOMAIN jobs, OfJob(j)
      PROVE  \A u, v : Fetched(u, v) => Fetched(u, v)'
  BY <1>3, JobFetches DEF OfJob, DaemonHolds, DeskInv
<1>4. TakeUnit => UNCHANGED jobs
  BY DEF TakeUnit
<1> QED BY <1>1, <1>2, <1>3, <1>4, ThreadsWork

(* What happens to the daemon's queue: it loses its head or not, and gets a      *)
(* message more or not.                                                          *)

Shifts(s, t, k) ==
    /\ Len(t) \in Nat /\ Len(t) >= Len(s) - k
    /\ \A i \in 1 .. Len(s) - k : t[i] = s[i + k]

LEMMA ShiftNone ==
    ASSUME NEW s, IsSeq(s)
    PROVE  Len(s) \in Nat /\ Shifts(s, s, 0)
  BY DEF IsSeq, Shifts

LEMMA ShiftAdds ==
    ASSUME NEW s, IsSeq(s), NEW t, NEW x, Adds(s, t, x)
    PROVE  Shifts(s, t, 0)
<1>1. Len(s) \in Nat
  BY DEF IsSeq
<1> QED BY <1>1 DEF Adds, Shifts

LEMMA ShiftTail ==
    ASSUME NEW s, IsSeq(s), s # <<>>
    PROVE  Shifts(s, Tail(s), 1) /\ Len(Tail(s)) = Len(s) - 1
  BY DEF IsSeq, Shifts

LEMMA ShiftTailAdds ==
    ASSUME NEW s, IsSeq(s), s # <<>>, NEW t, NEW x, Adds(Tail(s), t, x)
    PROVE  Shifts(s, t, 1) /\ Len(t) = Len(s) /\ t[Len(s)] = x
<1>1. Len(s) \in Nat /\ Len(s) >= 1
  BY DEF IsSeq
<1>2. Len(Tail(s)) = Len(s) - 1 /\ \A i \in 1 .. Len(s) - 1 : Tail(s)[i] = s[i + 1]
  BY ShiftTail DEF Shifts
<1> QED BY <1>1, <1>2 DEF Adds, Shifts

\* Whatever the daemon's queue gets from others than the event manager and the
\* jobs is no event and brings no unit.
MailMoves ==
    \/ UNCHANGED queue
    \/ /\ queue # <<>> /\ queue' = Tail(queue)
       /\ TakeUnit \/ Head(queue).kind # "AddServerUnit"
    \/ /\ queue # <<>> /\ queue' = Append(Tail(queue), StopDaemonEvent)
       /\ Head(queue).kind # "AddServerUnit"
    \/ \E m : m.kind \notin {"SendEvent", "AddServerUnit"} /\ queue' = Append(queue, m)
    \/ Forward
    \/ \E j \in DOMAIN jobs : OfJob(j)

LEMMA ThreadsMessages ==
    ASSUME DaemonHolds, Up, Threads
    PROVE  MailMoves
<1>1. ASSUME UNCHANGED queue
      PROVE  MailMoves
  BY <1>1 DEF MailMoves
<1>2. CASE Acceptor
  BY <1>1, <1>2 DEF Acceptor, Greet, Register, RefuseClient, AcceptorRest, managerVars
<1>3. ASSUME NEW c \in Clients, Relay(c) \/ Hangup(c)
      PROVE  MailMoves
  <2>1. \A x, y : IncomingCmd(x, y).kind \notin {"SendEvent", "AddServerUnit"}
    BY DEF IncomingCmd
  <2> QED BY <1>3, <2>1 DEF Relay, Hangup, MailMoves
<1>4. CASE Manager
  <2>1. Forward \/ UNCHANGED queue
    BY <1>4 DEF Manager, ManagerNext, AddSubscription, RemoveSubscription,
       RemoveAllSubscriptions, DispatchEvent
  <2> QED BY <2>1 DEF MailMoves
<1>5. CASE OfServers(LogNext) \/ OfServers(ProcessNext)
  BY <1>1, <1>5 DEF OfServers, LogNext, ProcessNext, ReadLine, RaiseEvent, EndLog, Load, Run,
     Refuse, BeginStop, CloseDown, Exit, Echo, Prints
<1>6. ASSUME NEW j \in 1 .. MaxJobs, OfJob(j)
      PROVE  MailMoves
  BY <1>6 DEF OfJob, MailMoves
<1>7. CASE Commands
  <2>1. Handled
    BY <1>7, QuietCommands, SubscribeKeeps, StartKeeps, StopKeeps, InputKeeps
       DEF Commands, MsgInv, DaemonHolds
  <2>2. Head(queue).kind # "AddServerUnit"
    BY <2>1 DEF Handled
  <2> QED BY <2>1, <2>2 DEF Handled, MailMoves
<1>8. CASE OfUnits
  <2>1. DaemonStopped.kind \notin {"SendEvent", "AddServerUnit"}
    BY DEF DaemonStopped
  <2> QED BY <1>8, <2>1 DEF OfUnits, Autostart, StartThread, WriteStop, Sweep, Visit, HasStarted,
          Wait, EndSweep, MailMoves
<1>9. CASE SendSubscription \/ SpawnWorker \/ Reply \/ ExitDaemon
  BY <1>1, <1>9 DEF SendSubscription, SpawnWorker, Reply, ExitDaemon, Elsewhere
<1>10. CASE TakeUnit \/ HandOut \/ TakeStopDaemon \/ Broadcast
  <2>1. queue # <<>> /\ queue' = Tail(queue)
    BY <1>10 DEF TakeUnit, HandOut, TakeStopDaemon, Broadcast
  <2>2. TakeUnit \/ Head(queue).kind # "AddServerUnit"
    BY <1>10 DEF HandOut, TakeStopDaemon, Broadcast, StopDaemonEvent, DaemonStopped
  <2> QED BY <2>1, <2>2 DEF MailMoves
<1> QED BY <1>2, <1>3, <1>4, <1>5, <1>6, <1>7, <1>8, <1>9, <1>10 DEF Threads, DaemonThread

QueueShift(k) ==
    /\ k \in {0, 1} /\ k <= Len(queue) /\ Shifts(queue, queue', k)
    /\ k = 1 => TakeUnit \/ queue[1].kind # "AddServerUnit"
    /\ \A i \in 1 .. Len(queue') : i > Len(queue) - k =>
          /\ queue'[i].kind = "AddServerUnit" =>
                \E u, v : /\ u = queue'[i].unit_id /\ v = queue'[i].config.version
                          /\ Fetched(u, v)'
          /\ queue'[i].kind = "SendEvent" => queue'[i] \in Elems(outbox)

LEMMA ThreadsShift ==
    ASSUME DaemonHolds, Up, Threads
    PROVE  \E k : QueueShift(k)
<1>1. IsSeq(queue) /\ Len(queue) \in Nat /\ IsSeq(outbox)
      /\ \A x \in Elems(outbox) : x.kind = "SendEvent"
  BY ShiftNone DEF DaemonHolds, MsgInv, QueueInv, OutboxInv
<1>2. queue # <<>> => Head(queue) = queue[1] /\ Len(queue) >= 1
  BY <1>1 DEF IsSeq
<1>3. CASE UNCHANGED queue
  <2>1. Shifts(queue, queue', 0) /\ Len(queue') = Len(queue)
    BY <1>1, <1>3, ShiftNone
  <2> QED BY <1>1, <2>1 DEF QueueShift
<1>4. CASE /\ queue # <<>> /\ queue' = Tail(queue)
           /\ TakeUnit \/ Head(queue).kind # "AddServerUnit"
  <2>1. Shifts(queue, queue', 1) /\ Len(queue') = Len(queue) - 1
    BY <1>1, <1>4, ShiftTail
  <2>2. QueueShift(1)
    BY <1>1, <1>2, <1>4, <2>1 DEF QueueShift
  <2> QED BY <2>2
<1>5. CASE /\ queue # <<>> /\ queue' = Append(Tail(queue), StopDaemonEvent)
           /\ Head(queue).kind # "AddServerUnit"
  <2>1. PICK x : x = StopDaemonEvent
    OBVIOUS
  <2>2. IsSeq(Tail(queue))
    BY <1>1, <1>5, TailIsSeq
  <2>3. Adds(Tail(queue), queue', x)
    BY <1>5, <2>1, <2>2, AppendAdds
  <2>4. Shifts(queue, queue', 1) /\ Len(queue') = Len(queue) /\ queue'[Len(queue)] = x
    BY <1>1, <1>5, <2>3, ShiftTailAdds
  <2>5. x.kind \notin {"AddServerUnit", "SendEvent"}
    BY <2>1 DEF StopDaemonEvent
  <2>6. \A i \in 1 .. Len(queue') : i > Len(queue) - 1 => queue'[i] = x
    BY <1>1, <2>4
  <2>7. QueueShift(1)
    BY <1>1, <1>2, <1>5, <2>4, <2>5, <2>6 DEF QueueShift
  <2> QED BY <2>7
<1>6. ASSUME NEW x, queue' = Append(queue, x),
             x.kind = "AddServerUnit" =>
                 \E u, v : u = x.unit_id /\ v = x.config.version /\ Fetched(u, v)',
             x.kind = "SendEvent" => x \in Elems(outbox)
      PROVE  QueueShift(0)
  <2>1. Adds(queue, queue', x)
    BY <1>1, <1>6, AppendAdds
  <2>2. Shifts(queue, queue', 0)
    BY <1>1, <2>1, ShiftAdds
  <2>3. \A i \in 1 .. Len(queue') : i > Len(queue) - 0 => queue'[i] = x
    BY <1>1, <2>1 DEF Adds
  <2> QED BY <1>1, <1>6, <2>2, <2>3 DEF QueueShift
<1>7. ASSUME NEW m, m.kind \notin {"SendEvent", "AddServerUnit"}, queue' = Append(queue, m)
      PROVE  QueueShift(0)
  BY <1>6, <1>7
<1>8. CASE Forward
  <2>1. PICK x : x = Head(outbox) /\ queue' = Append(queue, x) /\ outbox # <<>>
    BY <1>8 DEF Forward
  <2>2. x \in Elems(outbox)
    BY <1>1, <2>1, HeadIsElem
  <2>3. QueueShift(0)
    BY <1>1, <1>6, <2>1, <2>2
  <2> QED BY <2>3
<1>9. ASSUME NEW j \in DOMAIN jobs, OfJob(j)
      PROVE  \E k : QueueShift(k)
  <2>1. CASE UNCHANGED queue
    BY <1>3, <2>1
  <2>2. CASE ~UNCHANGED queue
    <3>1. PICK m, u, v : /\ queue' = Append(queue, m) /\ Brings(m, u)
                         /\ v = m.config.version /\ Fetched(u, v)'
      BY <1>9, <2>2, JobHandsOver DEF OfJob, DaemonHolds, DeskInv
    <3>2. m.kind # "SendEvent" /\ u = m.unit_id
      BY <3>1 DEF Brings
    <3>3. QueueShift(0)
      BY <1>6, <3>1, <3>2
    <3> QED BY <3>3
  <2> QED BY <2>1, <2>2
<1> QED BY <1>3, <1>4, <1>5, <1>7, <1>8, <1>9, ThreadsMessages DEF MailMoves

LEMMA LandedStays ==
    ASSUME DaemonHolds, NewsInv, Up, Threads, NEW u, Landed(u)
    PROVE  Landed(u)'
<1>1. \A w, v : Fetched(w, v) => Fetched(w, v)'
  BY FetchedStays
<1>2. CASE UNCHANGED configs
  <2>1. PICK v : v = configs[u].version
    OBVIOUS
  <2>2. Fetched(u, v)' /\ u \in DOMAIN configs' /\ v = configs'[u].version
    BY <1>1, <1>2, <2>1 DEF Landed
  <2> QED BY <2>2 DEF Landed
<1>3. CASE TakeUnit
  <2>1. PICK m : /\ m = Head(queue) /\ m.kind = "AddServerUnit" /\ queue # <<>>
                 /\ configs' = [w \in DOMAIN configs \cup {m.unit_id} |->
                                    IF w = m.unit_id THEN m.config ELSE configs[w]]
    BY <1>3 DEF TakeUnit, Added
  <2>2. m = queue[1] /\ 1 \in 1 .. Len(queue)
    BY <2>1 DEF DaemonHolds, MsgInv, QueueInv, IsSeq
  <2>3. Fetched(m.unit_id, m.config.version)
    BY <2>1, <2>2 DEF NewsInv
  <2>4. u \in DOMAIN configs' /\ Fetched(u, configs'[u].version)
    BY <2>1, <2>3 DEF Landed
  <2>5. PICK v : v = configs'[u].version
    OBVIOUS
  <2>6. Fetched(u, v)'
    BY <1>1, <2>4, <2>5
  <2> QED BY <2>4, <2>5, <2>6 DEF Landed
<1> QED BY <1>2, <1>3, ThreadsWork

\* The unit is there once its message is taken.
LEMMA LandedNow ==
    ASSUME DaemonHolds, NewsInv, Up, Threads, TakeUnit
    PROVE  \A u : Brings(queue[1], u) => Landed(u)'
<1> SUFFICES ASSUME NEW u, Brings(queue[1], u)
             PROVE  Landed(u)'
  OBVIOUS
<1>1. PICK m : /\ m = Head(queue) /\ m.kind = "AddServerUnit" /\ queue # <<>>
               /\ configs' = [w \in DOMAIN configs \cup {m.unit_id} |->
                                  IF w = m.unit_id THEN m.config ELSE configs[w]]
  BY DEF TakeUnit, Added
<1>2. m = queue[1] /\ 1 \in 1 .. Len(queue)
  BY <1>1 DEF DaemonHolds, MsgInv, QueueInv, IsSeq
<1>3. m.unit_id = u
  BY <1>2 DEF Brings
<1>4. Fetched(u, m.config.version)
  BY <1>1, <1>2, <1>3 DEF NewsInv
<1>5. PICK v : v = m.config.version
  OBVIOUS
<1>6. Fetched(u, v)'
  BY <1>4, <1>5, FetchedStays
<1>7. u \in DOMAIN configs' /\ configs'[u].version = v
  BY <1>1, <1>3, <1>5
<1> QED BY <1>6, <1>7 DEF Landed

\* What is due within n messages is due within as many of the queue's rest.
LEMMA DueStays ==
    ASSUME DaemonHolds, NewsInv, Up, Threads, NEW k, QueueShift(k),
           NEW u, NEW n \in 0 .. Len(queue), Due(u, n), NEW m \in Nat, m >= n - k
    PROVE  Due(u, m)'
<1>1. k \in {0, 1} /\ Len(queue) \in Nat
  BY DEF QueueShift, DaemonHolds, MsgInv, QueueInv, IsSeq
<1>2. CASE Landed(u)
  BY <1>2, LandedStays DEF Due
<1>3. CASE ~Landed(u)
  <2>1. PICK i \in 1 .. n : Brings(queue[i], u)
    BY <1>3 DEF Due
  <2>2. CASE i > k
    <3>1. i - k \in 1 .. Len(queue) - k /\ i - k \in 1 .. m /\ (i - k) + k = i
      BY <1>1, <2>1, <2>2
    <3>2. queue'[i - k] = queue[i]
      BY <3>1 DEF QueueShift, Shifts
    <3>3. Brings(queue'[i - k], u)
      BY <2>1, <3>2
    <3>4. PICK l \in 1 .. m : l = i - k
      BY <3>1
    <3>5. Brings(queue'[l], u)
      BY <3>3, <3>4
    <3>6. \E j \in 1 .. m : Brings(queue'[j], u)
      BY <3>5
    <3> QED BY <3>6 DEF Due
  <2>3. CASE i <= k
    <3>1. k = 1 /\ i = 1
      BY <1>1, <2>1, <2>3
    <3>2. TakeUnit
      BY <2>1, <3>1 DEF QueueShift, Brings
    <3>3. Landed(u)'
      BY <2>1, <3>1, <3>2, LandedNow
    <3> QED BY <3>3 DEF Due
  <2> QED BY <1>1, <2>1, <2>2, <2>3
<1> QED BY <1>2, <1>3

(* NewsInv after a step of the daemon, part by part. *)

LEMMA ThreadsRaising ==
    ASSUME DaemonHolds, NewsInv, Up, Threads, NEW p \in Pids
    PROVE  raising'[p] # None => raising'[p] \notin DoneTypes
<1>1. raising \in [Pids -> ServerEventType \cup {None, Ended}] /\ pipe \in [Pids -> Seq(Line)]
  BY DEF DaemonHolds, UnitsInv, UnitTypes, ProcessTypeOK
<1>2. CASE UNCHANGED raising
  BY <1>2 DEF NewsInv
<1>3. ASSUME NEW q \in Pids, ReadLine(q)
      PROVE  raising'[p] # None => raising'[p] \notin DoneTypes
  <2>1. PICK t : t = EventOf[Head(pipe[q])] /\ raising' = [raising EXCEPT ![q] = t]
                 /\ pipe[q] # <<>>
    BY <1>3 DEF ReadLine
  <2>2. Head(pipe[q]) \in Line
    BY <1>1, <2>1
  <2>3. t \notin DoneTypes
    BY <2>1, <2>2 DEF Line, EventOf, DoneTypes
  <2> QED BY <1>1, <2>1, <2>3 DEF NewsInv
<1>4. ASSUME NEW q \in Pids, RaiseEvent(q)
      PROVE  raising'[p] # None => raising'[p] \notin DoneTypes
  <2>1. raising' = [raising EXCEPT ![q] = None]
    BY <1>4 DEF RaiseEvent
  <2>2. raising'[p] = raising[p] \/ raising'[p] = None
    BY <1>1, <2>1
  <2> QED BY <2>2 DEF NewsInv
<1>5. ASSUME NEW q \in Pids, PrintsRow(q) \/ Exit(q)
      PROVE  UNCHANGED raising
  BY <1>5 DEF PrintsRow, Prints, Exit
<1>6. ASSUME NEW q \in Pids, EndLog(q)
      PROVE  raising'[p] # None => raising'[p] \notin DoneTypes
  <2>1. raising' = [raising EXCEPT ![q] = Ended]
    BY <1>6 DEF EndLog
  <2>2. raising'[p] = raising[p] \/ raising'[p] = Ended
    BY <1>1, <2>1
  <2> QED BY <2>2 DEF NewsInv, Ended, DoneTypes
<1> QED BY <1>2, <1>3, <1>4, <1>5, <1>6, ThreadsSources

LEMMA ThreadsNewsQueue ==
    ASSUME DaemonHolds, NewsInv, Up, Threads, NEW k, QueueShift(k)
    PROVE  \A i \in 1 .. Len(queue') :
              /\ queue'[i].kind = "AddServerUnit" =>
                    \E u, v : /\ u = queue'[i].unit_id /\ v = queue'[i].config.version
                              /\ Fetched(u, v)'
              /\ queue'[i].kind = "SendEvent" /\ TellsDone(queue'[i].event) =>
                    \E u, n : /\ u = queue'[i].event.server_id /\ n = i - 1
                              /\ Due(u, n)'
<1>1. k \in {0, 1} /\ Len(queue) \in Nat /\ Len(queue') \in Nat /\ k <= Len(queue)
  BY DEF QueueShift, Shifts, DaemonHolds, MsgInv, QueueInv, IsSeq
<1> SUFFICES ASSUME NEW i \in 1 .. Len(queue')
             PROVE
              /\ queue'[i].kind = "AddServerUnit" =>
                    \E u, v : /\ u = queue'[i].unit_id /\ v = queue'[i].config.version
                              /\ Fetched(u, v)'
              /\ queue'[i].kind = "SendEvent" /\ TellsDone(queue'[i].event) =>
                    \E u, n : /\ u = queue'[i].event.server_id /\ n = i - 1
                              /\ Due(u, n)'
  OBVIOUS
<1>2. PICK m : m = queue'[i]
  OBVIOUS
<1>3. PICK u : u = m.event.server_id
  OBVIOUS
<1>4. PICK n \in Nat : n = i - 1
  BY <1>1
<1>5. CASE i <= Len(queue) - k
  <2>1. PICK q, h : /\ q \in 1 .. Len(queue) /\ q = i + k /\ m = queue[q] /\ h = q - 1
                    /\ h \in 0 .. Len(queue) /\ n >= h - k
    <3>1. PICK q, h : q = i + k /\ h = q - 1
      OBVIOUS
    <3>2. q \in 1 .. Len(queue) /\ h \in 0 .. Len(queue) /\ n >= h - k
      BY <1>1, <1>4, <1>5, <3>1
    <3>3. m = queue[q]
      BY <1>2, <1>5, <3>1 DEF QueueShift, Shifts
    <3> QED BY <3>1, <3>2, <3>3
  <2>2. m.kind = "AddServerUnit" => Fetched(m.unit_id, m.config.version)
    BY <2>1 DEF NewsInv
  <2>3. m.kind = "SendEvent" /\ TellsDone(m.event) => Due(u, h)
    BY <1>3, <2>1 DEF NewsInv
  <2>4. m.kind = "AddServerUnit" =>
            \E w, v : w = m.unit_id /\ v = m.config.version /\ Fetched(w, v)'
    BY <2>2, FetchedStays
  <2>5. m.kind = "SendEvent" /\ TellsDone(m.event) => Due(u, n)'
    BY <2>1, <2>3, DueStays
  <2> QED BY <1>2, <1>3, <1>4, <2>4, <2>5
<1>6. CASE i > Len(queue) - k
  <2>1. /\ m.kind = "AddServerUnit" =>
                \E w, v : w = m.unit_id /\ v = m.config.version /\ Fetched(w, v)'
        /\ m.kind = "SendEvent" => m \in Elems(outbox)
    BY <1>2, <1>6 DEF QueueShift
  <2>2. m.kind = "SendEvent" /\ TellsDone(m.event) => Due(u, Len(queue))
    BY <1>3, <2>1 DEF NewsInv
  <2>3. Len(queue) \in 0 .. Len(queue) /\ n >= Len(queue) - k
    BY <1>1, <1>4, <1>6
  <2>4. m.kind = "SendEvent" /\ TellsDone(m.event) => Due(u, n)'
    BY <2>2, <2>3, DueStays
  <2> QED BY <1>2, <1>3, <1>4, <2>1, <2>4
<1> QED BY <1>1, <1>5, <1>6

\* What is due by the end of the queue is due by the end of the queue.
LEMMA DueByTheEnd ==
    ASSUME DaemonHolds, NewsInv, Up, Threads, NEW u, Due(u, Len(queue)), NEW l, l = Len(queue')
    PROVE  Due(u, l)'
<1>1. PICK k : QueueShift(k)
  BY ThreadsShift
<1>2. /\ Len(queue) \in 0 .. Len(queue) /\ l \in Nat /\ l >= Len(queue) - k
  BY <1>1 DEF QueueShift, Shifts, DaemonHolds, MsgInv, QueueInv, IsSeq
<1> QED BY <1>1, <1>2, DueStays

LEMMA ThreadsNewsJobs ==
    ASSUME DaemonHolds, NewsInv, Up, Threads, NEW l, l = Len(queue'),
           NEW j \in DOMAIN jobs', jobs'[j].at = "complete"
    PROVE  \E u : u = jobs'[j].unit /\ Due(u, l)'
<1>1. ASSUME j \in DOMAIN jobs, jobs'[j] = jobs[j]
      PROVE  \E u : u = jobs'[j].unit /\ Due(u, l)'
  <2>1. PICK u : u = jobs[j].unit
    OBVIOUS
  <2>2. Due(u, Len(queue))
    BY <1>1, <2>1 DEF NewsInv, At
  <2>3. Due(u, l)'
    BY <2>2, DueByTheEnd
  <2> QED BY <1>1, <2>1, <2>3
<1>2. ASSUME NEW i \in DOMAIN jobs, OfJob(i)
      PROVE  \E u : u = jobs'[j].unit /\ Due(u, l)'
  <2>1. WorkersInv /\ JobStep(i)
    BY <1>2 DEF OfJob, DaemonHolds, DeskInv
  <2>2. /\ DOMAIN jobs' = DOMAIN jobs
        /\ i # j => jobs'[j] = jobs[j]
        /\ jobs'[i].unit = jobs[i].unit
    BY <2>1, JobFetches
  <2>3. CASE i # j
    BY <1>1, <2>2, <2>3
  <2>4. CASE i = j
    <3>1. PICK m, u : /\ queue' = Append(queue, m) /\ Brings(m, u) /\ u = jobs[i].unit
      BY <2>1, <2>4, JobHandsOver
    <3>2. Adds(queue, queue', m) /\ Len(queue) \in Nat
      BY <3>1, AppendAdds DEF DaemonHolds, MsgInv, QueueInv, IsSeq
    <3>3. l \in 1 .. l /\ queue'[l] = m
      BY <3>2 DEF Adds
    <3>4. Brings(queue'[l], u)
      BY <3>1, <3>3
    <3>5. \E n \in 1 .. l : Brings(queue'[n], u)
      BY <3>3, <3>4
    <3>6. Due(u, l)'
      BY <3>5 DEF Due
    <3> QED BY <2>2, <2>4, <3>1, <3>6
  <2> QED BY <2>3, <2>4
<1>3. CASE SpawnWorker
  <2>1. CASE UNCHANGED jobs
    BY <1>1, <2>1
  <2>2. CASE ~UNCHANGED jobs
    <3>1. PICK cmd, x : jobs' = Append(jobs, x) /\ x = NewJob(cmd)
      BY <1>3, <2>2 DEF SpawnWorker, Spawned
    <3>2. x.at \in {"look", "check"}
      BY <3>1 DEF NewJob
    <3>3. DOMAIN jobs = 1 .. Len(jobs) /\ IsSeq(jobs) /\ Len(jobs) \in Nat
      BY DEF DaemonHolds, DeskInv, WorkersInv, WorkersTypeOK, IsSeq
    <3>4. Adds(jobs, jobs', x)
      BY <3>1, <3>3, AppendAdds
    <3>5. DOMAIN jobs' = 1 .. Len(jobs')
      BY <3>4 DEF Adds, IsSeq
    <3>6. j = Len(jobs) + 1 \/ (j \in DOMAIN jobs /\ jobs'[j] = jobs[j])
      BY <3>3, <3>4, <3>5 DEF Adds
    <3>7. jobs'[Len(jobs) + 1] = x
      BY <3>4 DEF Adds
    <3> QED BY <1>1, <3>2, <3>6, <3>7
  <2> QED BY <2>1, <2>2
<1>4. CASE UNCHANGED jobs
  BY <1>1, <1>4
<1>5. TakeUnit => UNCHANGED jobs
  BY DEF TakeUnit
<1> QED BY <1>2, <1>3, <1>4, <1>5, ThreadsWork

\* Nobody tells that a job is done but the job.
Silent(x) == x.kind = "DispatchEvent" => ~TellsDone(x.event)
TalkMoves ==
    \/ UNCHANGED eventQueue
    \/ eventQueue # <<>> /\ eventQueue' = Tail(eventQueue)
    \/ \E x : Silent(x) /\ eventQueue' = Append(eventQueue, x)
    \/ \E j \in DOMAIN jobs : OfJob(j)

LEMMA ThreadsTell ==
    ASSUME DaemonHolds, NewsInv, Up, Threads
    PROVE  TalkMoves
<1>1. ASSUME UNCHANGED eventQueue PROVE TalkMoves
  BY <1>1 DEF TalkMoves
<1>2. CASE Acceptor
  BY <1>1, <1>2 DEF Acceptor, Greet, Register, RefuseClient, AcceptorRest, managerVars
<1>3. \A c : Silent(RemoveAllCmd(c))
  BY DEF Silent, RemoveAllCmd
<1>4. ASSUME NEW c \in Clients, Relay(c) \/ Hangup(c)
      PROVE  TalkMoves
  BY <1>3, <1>4 DEF Relay, Hangup, TalkMoves
<1>5. CASE Manager
  BY <1>5 DEF Manager, ManagerNext, DispatchEvent, Forward, AddSubscription, RemoveSubscription,
     RemoveAllSubscriptions, Received, TalkMoves
<1>6. ASSUME NEW p \in Pids, RaiseEvent(p)
      PROVE  TalkMoves
  <2>1. PICK t, x : /\ t = raising[p] /\ t # None /\ eventQueue' = Append(eventQueue, x)
                    /\ x = DispatchCmd([type |-> t, server_id |-> unit[p], body |-> p])
    BY <1>6 DEF RaiseEvent
  <2>2. t \notin DoneTypes
    BY <2>1 DEF NewsInv
  <2>3. Silent(x)
    BY <2>1, <2>2 DEF Silent, DispatchCmd, TellsDone
  <2> QED BY <2>1, <2>3 DEF TalkMoves
<1>7. CASE OfServers(LogNext) \/ OfServers(ProcessNext)
  BY <1>1, <1>6, <1>7 DEF OfServers, LogNext, ProcessNext, ReadLine, EndLog, Load, Run, Refuse,
     BeginStop, CloseDown, Exit, Echo, Prints
<1>8. CASE \E j \in 1 .. MaxJobs : OfJob(j)
  BY <1>8 DEF OfJob, TalkMoves
<1>9. CASE Commands
  <2>1. Handled
    BY <1>9, QuietCommands, SubscribeKeeps, StartKeeps, StopKeeps, InputKeeps
       DEF Commands, MsgInv, DaemonHolds
  <2> QED BY <1>1, <2>1 DEF Handled
<1>10. CASE OfUnits
  BY <1>1, <1>10 DEF OfUnits, Autostart, StartThread, WriteStop, Sweep, Visit, HasStarted, Wait,
     EndSweep
<1>11. CASE SendSubscription
  <2>1. PICK x : x = Head(todo) /\ eventQueue' = Append(eventQueue, x)
    BY <1>11 DEF SendSubscription
  <2>2. todo # <<>> /\ IsSeq(todo) /\ \A y \in Elems(todo) : y.kind = "AddSubscription"
    BY <1>11 DEF SendSubscription, DaemonHolds, MsgInv, TodoInv
  <2>3. Silent(x)
    BY <2>1, <2>2, HeadIsElem DEF Silent
  <2> QED BY <2>1, <2>3 DEF TalkMoves
<1>12. CASE SpawnWorker
  <2>1. UNCHANGED eventQueue
        \/ \E u : eventQueue' = Append(eventQueue, JobEvent("InstallationFailed", u, 0))
    BY <1>12 DEF SpawnWorker
  <2>2. \A u : Silent(JobEvent("InstallationFailed", u, 0))
    BY DEF Silent, JobEvent, DispatchCmd, TellsDone, DoneTypes
  <2> QED BY <1>1, <2>1, <2>2 DEF TalkMoves
<1>13. CASE Reply \/ HandOut
  <2>1. UNCHANGED eventQueue \/ \E c : eventQueue' = Append(eventQueue, RemoveAllCmd(c))
    BY <1>13 DEF Reply, HandOut, Deliver
  <2> QED BY <1>1, <1>3, <2>1 DEF TalkMoves
<1>14. CASE TakeUnit \/ TakeStopDaemon \/ Broadcast \/ ExitDaemon
  BY <1>1, <1>14 DEF TakeUnit, TakeStopDaemon, Broadcast, ExitDaemon, AddServerUnit, BeginSweep
<1> QED BY <1>2, <1>4, <1>5, <1>7, <1>8, <1>9, <1>10, <1>11, <1>12, <1>13, <1>14
        DEF Threads, DaemonThread

LEMMA ThreadsNewsEvents ==
    ASSUME DaemonHolds, NewsInv, Up, Threads, NEW l, l = Len(queue'),
           NEW x \in Elems(eventQueue'), x.kind = "DispatchEvent", TellsDone(x.event)
    PROVE  \E u : u = x.event.server_id /\ Due(u, l)'
<1>1. IsSeq(eventQueue)
  BY DEF DaemonHolds, MsgInv, EventsInv
<1>2. PICK u : u = x.event.server_id
  OBVIOUS
<1>3. CASE x \in Elems(eventQueue)
  <2>1. Due(u, Len(queue))
    BY <1>2, <1>3 DEF NewsInv
  <2> QED BY <1>2, <2>1, DueByTheEnd
<1>4. CASE UNCHANGED eventQueue
  BY <1>3, <1>4
<1>5. CASE eventQueue # <<>> /\ eventQueue' = Tail(eventQueue)
  BY <1>1, <1>3, <1>5, TailIsSeq
<1>6. ASSUME NEW y, Silent(y), eventQueue' = Append(eventQueue, y)
      PROVE  x \in Elems(eventQueue)
  <2>1. x # y
    BY <1>6 DEF Silent
  <2> QED BY <1>1, <1>6, <2>1, AppendIsSeq
<1>7. ASSUME NEW j \in DOMAIN jobs, OfJob(j)
      PROVE  \E v : v = x.event.server_id /\ Due(v, l)'
  <2>1. WorkersInv /\ JobStep(j)
    BY <1>7 DEF OfJob, DaemonHolds, DeskInv
  <2>2. CASE UNCHANGED eventQueue
    BY <1>4, <2>2
  <2>3. CASE ~UNCHANGED eventQueue
    <3>1. PICK type, y : /\ eventQueue' = Append(eventQueue, y)
                         /\ y = JobEvent(type, jobs[j].unit, j)
                         /\ type \in DoneTypes => At(j, "complete")
      BY <2>1, <2>3, JobTells
    <3>2. x \in Elems(eventQueue) \/ x = y
      BY <1>1, <3>1, AppendIsSeq
    <3>3. CASE x = y
      <4>1. type \in DoneTypes /\ u = jobs[j].unit
        BY <1>2, <3>1, <3>3 DEF JobEvent, DispatchCmd, TellsDone
      <4>2. Due(u, Len(queue))
        BY <3>1, <4>1 DEF NewsInv
      <4> QED BY <1>2, <4>2, DueByTheEnd
    <3> QED BY <1>3, <3>2, <3>3
  <2> QED BY <2>2, <2>3
<1> QED BY <1>3, <1>4, <1>5, <1>6, <1>7, ThreadsTell DEF TalkMoves

LEMMA ThreadsNewsOutbox ==
    ASSUME DaemonHolds, NewsInv, Up, Threads, NEW l, l = Len(queue'),
           NEW x \in Elems(outbox'), TellsDone(x.event)
    PROVE  \E u : u = x.event.server_id /\ Due(u, l)'
<1>1. IsSeq(outbox) /\ IsSeq(eventQueue)
  BY DEF DaemonHolds, MsgInv, OutboxInv, EventsInv
<1>2. PICK u : u = x.event.server_id
  OBVIOUS
<1>3. CASE x \in Elems(outbox)
  <2>1. Due(u, Len(queue))
    BY <1>2, <1>3 DEF NewsInv
  <2> QED BY <1>2, <2>1, DueByTheEnd
<1>4. CASE Forward
  <2>1. outbox # <<>> /\ outbox' = Tail(outbox)
    BY <1>4 DEF Forward
  <2> QED BY <1>1, <1>3, <2>1, TailIsSeq
<1>5. CASE DispatchEvent
  <2>1. PICK e, ids : /\ e = Head(eventQueue).event /\ eventQueue # <<>>
                      /\ Head(eventQueue).kind = "DispatchEvent"
                      /\ ids = subscriptions[<<e.server_id, e.type>>]
                      /\ outbox' = [i \in 1 .. Len(ids) |-> SendEvent(ids[i], e)]
    BY <1>5 DEF DispatchEvent, Received
  <2>2. PICK i \in 1 .. Len(outbox') : x = outbox'[i]
    BY DEF Elems
  <2>3. Head(eventQueue) \in Elems(eventQueue)
    BY <1>1, <2>1, HeadIsElem
  <2>4. e.server_id \in Units /\ e.type \in ServerEventType
    <3>1. Head(eventQueue) \in EventManagerCmd
      BY <2>1 DEF DaemonHolds, DeskInv, BusTypes, ManagerTypeOK
    <3> QED BY <2>1, <3>1 DEF EventManagerCmd, ServerEvent
  <2>5. PICK n \in Nat : n = Len(ids)
    BY <2>1, <2>4 DEF DaemonHolds, DeskInv, BusTypes, ManagerTypeOK, Key
  <2>6. x.event = e
    <3>1. outbox' = [h \in 1 .. n |-> SendEvent(ids[h], e)]
      BY <2>1, <2>5
    <3>2. Len(outbox') = n
      BY <3>1
    <3>3. x = SendEvent(ids[i], e)
      BY <2>2, <3>1, <3>2
    <3> QED BY <3>3 DEF SendEvent
  <2>7. Due(u, Len(queue))
    BY <1>2, <2>1, <2>3, <2>6 DEF NewsInv
  <2> QED BY <1>2, <2>7, DueByTheEnd
<1>6. CASE HandOut
  BY <1>3, <1>6 DEF HandOut, Elsewhere
<1>7. CASE UNCHANGED outbox
  BY <1>3, <1>7
<1> QED BY <1>4, <1>5, <1>6, <1>7, ThreadsQueue

LEMMA ThreadsNewsBoxes ==
    ASSUME DaemonHolds, NewsInv, Up, Threads,
           NEW c \in Clients, NEW i \in 1 .. Len(inbox'[c]),
           inbox'[c][i].kind = "ServerEvent", TellsDone(inbox'[c][i].event)
    PROVE  \E u : u = inbox'[c][i].event.server_id /\ Landed(u)'
<1>1. PICK u : u = inbox'[c][i].event.server_id
  OBVIOUS
<1>2. Len(inbox[c]) \in Nat
  BY Boxes
<1>3. CASE i \in 1 .. Len(inbox[c]) /\ inbox'[c][i] = inbox[c][i]
  <2>1. Landed(u)
    BY <1>1, <1>3 DEF NewsInv
  <2> QED BY <1>1, <2>1, LandedStays
<1>4. CASE inbox'[c] = inbox[c]
  BY <1>3, <1>4
<1>5. inbox'[c] # <<SetSender, VersionResponse>>
  BY DEF SetSender, VersionResponse
<1>6. ASSUME NEW x, Adds(inbox[c], inbox'[c], x), i \notin 1 .. Len(inbox[c])
      PROVE  inbox'[c][i] = x
  <2>1. i = Len(inbox[c]) + 1
    BY <1>2, <1>6 DEF Adds
  <2> QED BY <1>6, <2>1 DEF Adds
<1>7. ASSUME NEW x, Adds(inbox[c], inbox'[c], x), i \in 1 .. Len(inbox[c])
      PROVE  inbox'[c][i] = inbox[c][i]
  BY <1>7 DEF Adds
<1>8. ASSUME NEW x, inbox'[c][i] = x, Holds(answering, c), x = answering.response
      PROVE  FALSE
  <2>1. answering.response \in AnswerMessage
    BY <1>8 DEF Holds, DaemonHolds, DeskInv, ReplyTypes, Answering
  <2> QED BY <1>8, <2>1 DEF AnswerMessage
<1>9. ASSUME NEW x, inbox'[c][i] = x, x = StoppedResponse
      PROVE  FALSE
  BY <1>9 DEF StoppedResponse
<1>10. ASSUME NEW x, inbox'[c][i] = x, HandOut, x = EventResponse(Head(queue).event)
      PROVE  \E v : v = inbox'[c][i].event.server_id /\ Landed(v)'
  <2>1. PICK m : m = Head(queue) /\ m.kind = "SendEvent" /\ queue # <<>>
    BY <1>10 DEF HandOut
  <2>2. m = queue[1] /\ 1 \in 1 .. Len(queue) /\ 1 - 1 = 0 /\ 1 .. 0 = {}
    BY <2>1 DEF DaemonHolds, MsgInv, QueueInv, IsSeq
  <2>3. x.event = m.event
    BY <1>10, <2>1 DEF EventResponse
  <2>4. Due(u, 0)
    BY <1>1, <1>10, <2>1, <2>2, <2>3 DEF NewsInv
  <2>5. Landed(u)
    BY <2>2, <2>4 DEF Due
  <2> QED BY <1>1, <2>5, LandedStays
<1> QED BY <1>3, <1>4, <1>5, <1>6, <1>7, <1>8, <1>9, <1>10, ManBoxes DEF BoxStep

LEMMA ThreadsNews ==
    ASSUME DaemonHolds, NewsInv, Up, Threads
    PROVE  NewsInv'
<1>1. PICK k : QueueShift(k)
  BY ThreadsShift
<1>2. PICK l : l = Len(queue')
  OBVIOUS
<1>3. \A p \in Pids : raising'[p] # None => raising'[p] \notin DoneTypes
  BY ThreadsRaising
<1>4. ASSUME NEW i \in 1 .. Len(queue')
      PROVE  /\ queue'[i].kind = "AddServerUnit" =>
                    Fetched(queue[i].unit_id, queue[i].config.version)'
             /\ queue'[i].kind = "SendEvent" /\ TellsDone(queue'[i].event) =>
                    Due(queue[i].event.server_id, i - 1)'
  BY <1>1, ThreadsNewsQueue DEF Fetched, Due, Landed
<1>5. \A j \in DOMAIN jobs' : At(j, "complete")' => Due(jobs[j].unit, Len(queue))'
  BY <1>2, ThreadsNewsJobs DEF At, Due, Landed, Fetched
<1>6. \A x \in Elems(eventQueue') :
          x.kind = "DispatchEvent" /\ TellsDone(x.event) => Due(x.event.server_id, Len(queue))'
  BY <1>2, ThreadsNewsEvents DEF Due, Landed, Fetched
<1>7. \A x \in Elems(outbox') : TellsDone(x.event) => Due(x.event.server_id, Len(queue))'
  BY <1>2, ThreadsNewsOutbox DEF Due, Landed, Fetched
<1>8. \A c \in Clients : \A i \in 1 .. Len(inbox'[c]) :
          inbox'[c][i].kind = "ServerEvent" /\ TellsDone(inbox'[c][i].event) =>
              Landed(inbox[c][i].event.server_id)'
  BY ThreadsNewsBoxes DEF Landed, Fetched
<1> QED BY <1>3, <1>4, <1>5, <1>6, <1>7, <1>8 DEF NewsInv

LEMMA ManNews ==
    ASSUME DaemonHolds, NewsInv, [ManNext]_manVars
    PROVE  NewsInv'
<1>1. ASSUME UNCHANGED <<raising, queue, jobs, configs, eventQueue, outbox, inbox>>
      PROVE  NewsInv'
  BY <1>1 DEF NewsInv, Fetched, Landed, Due, At
<1>2. ASSUME NEW c, ClientNext(c)
      PROVE  UNCHANGED <<raising, queue, jobs, configs, eventQueue, outbox, inbox>>
  BY <1>2, ClientMoves DEF ClientNext, Call, Send, Disconnect, AcceptorRest, replyVars,
     managerVars, processVars, workVars, daemonVars
<1>3. CASE UNCHANGED manVars
  BY <1>1, <1>3 DEF manVars, daemonVars, replyVars, managerVars, processVars, workVars
<1> QED BY <1>1, <1>2, <1>3, ThreadsNews DEF ManNext

LEMMA NewsInit ==
    ASSUME ManInit
    PROVE  NewsInv
<1>1. /\ raising = [p \in Pids |-> None] /\ queue = <<>> /\ jobs = <<>> /\ eventQueue = <<>>
      /\ outbox = <<>> /\ inbox = [c \in Clients |-> <<>>]
  BY DEF ManInit, Init, ManagerInit, ProcessInit, WorkersInit
<1>2. Len(<<>>) = 0 /\ 1 .. 0 = {} /\ DOMAIN <<>> = {} /\ Elems(<<>>) = {}
  BY EmptyIsSeq
<1> QED BY <1>1, <1>2 DEF NewsInv

LEMMA NewsAreTrue ==
    ASSUME DaemonHolds, ClientInv, NewsInv
    PROVE  DoneIsThere
<1> SUFFICES ASSUME NEW c \in Clients, NEW i \in 1 .. read[c],
                    Label(inbox[c][i]) \in {Event("InstallationComplete"), Event("UpdateComplete")}
             PROVE  LET u == inbox[c][i].event.server_id
                    IN /\ u \in DOMAIN servers \cap DOMAIN configs
                       /\ \E j \in DOMAIN jobs :
                             jobs[j].unit = u /\ configs[u].version = jobs[j].target
  BY DEF DoneIsThere, Taken
<1>1. PICK m : m = inbox[c][i]
  OBVIOUS
<1>2. m.kind = "ServerEvent" /\ TellsDone(m.event)
  BY <1>1 DEF Label, Event, TellsDone, DoneTypes
<1>3. i \in 1 .. Len(inbox[c])
  BY Boxes DEF ClientInv, ReadInv
<1>4. Landed(m.event.server_id)
  BY <1>1, <1>2, <1>3 DEF NewsInv
<1>5. DOMAIN configs = DOMAIN servers
  BY DEF DaemonHolds, DeskInv, MeetInv
<1> QED BY <1>1, <1>4, <1>5 DEF Landed, Fetched

\* DoneIsThere (mcmand.rs:566-592, 667-690; mcman.rs:490-570): a client that
\* was told that an installation or an update is complete finds the unit with the
\* daemon, with what a job has fetched for it.
THEOREM ManDoneIsThere == ManSpec => []DoneIsThere
<1>1. ManInit => ClientInv /\ NewsInv
  BY ManClientsInit, NewsInit
<1>2. DaemonHolds /\ CalledInv /\ ClientInv /\ NewsInv /\ [ManNext]_manVars
          => ClientInv' /\ NewsInv'
  BY ManClients, ManNews
<1>3. DaemonHolds /\ ClientInv /\ NewsInv => DoneIsThere
  BY NewsAreTrue
<1> QED BY <1>1, <1>2, <1>3, ManDaemonHolds, PTL DEF ManSpec
=============================================================================
