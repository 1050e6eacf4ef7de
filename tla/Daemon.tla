------------------------------- MODULE Daemon -------------------------------
(***************************************************************************)
(* mcmand as a whole (src/bin/mcmand.rs): main accepts clients and starts  *)
(* a thread for each, client threads relay commands to the daemon thread,  *)
(* the daemon thread carries them out one by one, answers, and hands out   *)
(* the events that the event manager (EventManager) addresses; server      *)
(* processes and their log threads (Supervision, ServerProcess) run beside *)
(* it, and so do the workers (Workers).  Every thread is a set of actions  *)
(* of its own.  Clients are the ids the acceptor gives: 0, 1, ...          *)
(***************************************************************************)
EXTENDS EventManager, Supervision, Workers, Functions

CONSTANTS
    Known,          \* units loaded at the start
    Installed,      \* their configuration
    Releases,       \* what the repository lists
    AutostartLists, \* bound: values of "autostart" in mcman.toml
    Requests,       \* bound: the commands clients may send
    MaxRequests,    \* bound: how many they send in all
    MaxRefusals,    \* bound: connections refused for their min_version
    Leavers         \* bound: the clients that may end at any time

ASSUME DaemonAssumption ==
    /\ Clients \subseteq Nat
    /\ \A c \in Clients : c > 0 => c - 1 \in Clients
    /\ Known \subseteq Units
    /\ DOMAIN Installed = Known /\ \A u \in Known : Installed[u] \in Config
    /\ Listing(Releases)
    /\ AutostartLists \subseteq Seq(Units)
    /\ Requests \subseteq DaemonCmd \cup WorkerCmd
    /\ \A cmd \in Requests : cmd \in WorkerCmd => MaxRequests <= MaxJobs
    /\ MaxRequests \in Nat /\ MaxRefusals \in Nat
    /\ Leavers \subseteq Clients

VARIABLES
    main,       \* the acceptor: "accept", "greeted"
    counter,    \* the id the next client gets
    refusals,   \* connections refused so far
    senders,    \* ids in the senders map
    connected,  \* client processes that hold their ends of the channels
    cmds,       \* commands sent by a client, not yet received by its thread
    thread,     \* the client threads: "none", "recv", "done"
    inbox,      \* everything ever sent to a client, oldest first
    requests,   \* history: everything a client has sent
    answering,  \* the answer in preparation: client and response, or None
    todo        \* subscriptions still to be sent before that answer

clientVars == <<main, counter, refusals, senders, connected, cmds, thread, requests>>
replyVars == <<inbox, answering, todo>>
daemonVars == <<managerVars, processVars, supervisionVars, workVars, clientVars, replyVars>>

-----------------------------------------------------------------------------
(* Messages.                                                               *)

IncomingCmd(c, cmd) == [kind |-> "IncomingCmd", id |-> c, cmd |-> cmd]
StopDaemonEvent == [kind |-> "StopDaemon"]

DaemonEvent ==
         [kind : {"IncomingCmd"}, id : Clients, cmd : Requests]
    \cup SendEvents
    \cup AddServerUnitEvents
    \cup {StopDaemonEvent, DaemonStopped}

\* DaemonResponse.  An answer carries, beside what is sent, the command it
\* answers (a history field); List tells the process and status of each unit.
SetSender == [kind |-> "SetSender"]
VersionResponse == [kind |-> "Version"]
Answer(cmd, response, list) ==
    [kind |-> "Answer", to |-> cmd, response |-> response, servers |-> list]
EventResponse(e) == [kind |-> "ServerEvent", event |-> e]
StoppedResponse == [kind |-> "DaemonEvent"]

ServerLists ==
    UNION {[S -> [process : Pids \cup {None}, status : ServerStatus]] : S \in SUBSET Units}
AnswerMessage ==
    [kind : {"Answer"}, to : Requests, servers : ServerLists \cup {None},
     response : {"Ok", "List", "Version", "ServerNotFound", "ServerStarted", "ServerStopped"}]
Answering == [client_id : Clients, response : AnswerMessage]
DaemonResponse ==
         AnswerMessage
    \cup [kind : {"ServerEvent"}, event : ServerEvent]
    \cup {SetSender, VersionResponse, StoppedResponse}

ASSUME AnswerAssumption == None \notin Answering

TypeOK ==
    /\ ManagerTypeOK
    /\ ProcessTypeOK
    /\ SupervisionTypeOK
    /\ WorkersTypeOK
    /\ queue \in Seq(DaemonEvent)
    /\ main \in {"accept", "greeted"}
    /\ counter \in Nat
    /\ refusals \in 0 .. MaxRefusals
    /\ senders \subseteq Clients
    /\ connected \subseteq Clients
    /\ cmds \in [Clients -> Seq(Requests)]
    /\ thread \in [Clients -> {"none", "recv", "done"}]
    /\ requests \in [Clients -> Seq(Requests)]
    /\ inbox \in [Clients -> Seq(DaemonResponse)]
    /\ answering \in Answering \cup {None}
    /\ todo \in Seq(EventManagerCmd)

Init ==
    /\ ManagerInit
    /\ ProcessInit
    /\ \E list \in AutostartLists : SupervisionInit(Known, list)
    /\ published = Releases
    /\ configs = Installed
    /\ WorkersInit
    /\ queue = <<>>
    /\ main = "accept"
    /\ counter = 0
    /\ refusals = 0
    /\ senders = {}
    /\ connected = {}
    /\ cmds = [c \in Clients |-> <<>>]
    /\ thread = [c \in Clients |-> "none"]
    /\ inbox = [c \in Clients |-> <<>>]
    /\ requests = [c \in Clients |-> <<>>]
    /\ answering = None
    /\ todo = <<>>

\* Once the daemon thread has panicked its queue has no receiver, and whoever
\* sends to it panics as well; what is left of the daemon then is not followed.
Up == pc \notin {"panicked", "exited"}

-----------------------------------------------------------------------------
(* main: the acceptor.                                                     *)

AcceptorRest == <<managerVars, processVars, workVars, replyVars>>

\* A client connects, and is sent the channel for its commands and the version.
\* If it ends in between, the unwrap of the send ends main and so the daemon.
Greet ==
    /\ main = "accept"
    /\ pc # "autostart"
    /\ counter \in Clients
    /\ \/ /\ main' = "greeted"
          /\ connected' = connected \cup {counter}
          /\ inbox' = [inbox EXCEPT ![counter] = <<SetSender, VersionResponse>>]
          /\ UNCHANGED <<counter, refusals, senders, cmds, thread, requests,
                         supervisionVars, processVars>>
       \/ /\ counter \in Leavers
          /\ Dies("exited")
          /\ UNCHANGED <<clientVars, inbox, autostart>>
    /\ UNCHANGED <<managerVars, workVars, answering, todo>>

\* Its min_version is above the daemon's: both ends of its channels are dropped.
RefuseClient ==
    /\ main = "greeted"
    /\ refusals < MaxRefusals
    /\ refusals' = refusals + 1
    /\ main' = "accept"
    /\ connected' = connected \ {counter}
    /\ cmds' = [cmds EXCEPT ![counter] = <<>>]
    /\ requests' = [requests EXCEPT ![counter] = <<>>]
    /\ inbox' = [inbox EXCEPT ![counter] = <<>>]
    /\ UNCHANGED <<counter, senders, thread, managerVars, processVars, supervisionVars,
                   workVars, answering, todo>>

\* Mutant: the client thread is started, the sender is not inserted.
RegisterWithoutSenderMutant ==
    /\ main = "greeted"
    /\ pc # "closing"
    /\ thread' = [thread EXCEPT ![counter] = "recv"]
    /\ counter' = counter + 1
    /\ main' = "accept"
    /\ UNCHANGED <<senders, refusals, connected, cmds, requests, AcceptorRest,
                   supervisionVars>>

\* The sender is inserted under the lock, which the daemon thread keeps while it
\* closes down; the client's thread starts.
Register ==
    /\ main = "greeted"
    /\ pc # "closing"
    /\ senders' = senders \cup {counter}
    /\ thread' = [thread EXCEPT ![counter] = "recv"]
    /\ counter' = counter + 1
    /\ main' = "accept"
    /\ UNCHANGED <<refusals, connected, cmds, requests, AcceptorRest, supervisionVars>>

-----------------------------------------------------------------------------
(* Client processes (external) and the threads that serve them.            *)

Sent(c) == Len(requests[c])
AllSent == FoldFunction(+, 0, [c \in Clients |-> Sent(c)])

\* A client uses the channel it was sent, whether it is registered yet or not.
Send(c, cmd) ==
    /\ c \in connected
    /\ AllSent < MaxRequests
    /\ cmds' = [cmds EXCEPT ![c] = Append(@, cmd)]
    /\ requests' = [requests EXCEPT ![c] = Append(@, cmd)]
    /\ UNCHANGED <<main, counter, refusals, senders, connected, thread, AcceptorRest,
                   supervisionVars>>

Disconnect(c) ==
    /\ c \in connected
    /\ connected' = connected \ {c}
    /\ UNCHANGED <<main, counter, refusals, senders, cmds, thread, requests,
                   AcceptorRest, supervisionVars>>

\* Mutant: the thread sends before it takes the command out.
RelayTwiceMutant(c) ==
    /\ thread[c] = "recv"
    /\ cmds[c] # <<>>
    /\ queue' = Append(queue, IncomingCmd(c, Head(cmds[c])))
    /\ cmds' = IF requests[c] = cmds[c] THEN cmds ELSE [cmds EXCEPT ![c] = Tail(@)]
    /\ UNCHANGED <<main, counter, refusals, senders, connected, thread, requests,
                   eventQueue, subscriptions, outbox, processVars, supervisionVars,
                   workVars, replyVars>>

\* Mutant: the thread serves one command.
RelayOnceMutant(c) ==
    /\ thread[c] = "recv"
    /\ cmds[c] # <<>>
    /\ queue' = Append(queue, IncomingCmd(c, Head(cmds[c])))
    /\ cmds' = [cmds EXCEPT ![c] = Tail(@)]
    /\ thread' = [thread EXCEPT ![c] = "done"]
    /\ UNCHANGED <<main, counter, refusals, senders, connected, requests,
                   eventQueue, subscriptions, outbox, processVars, supervisionVars,
                   workVars, replyVars>>

Relay(c) ==
    /\ thread[c] = "recv"
    /\ cmds[c] # <<>>
    /\ queue' = Append(queue, IncomingCmd(c, Head(cmds[c])))
    /\ cmds' = [cmds EXCEPT ![c] = Tail(@)]
    /\ UNCHANGED <<main, counter, refusals, senders, connected, thread, requests,
                   eventQueue, subscriptions, outbox, processVars, supervisionVars,
                   workVars, replyVars>>

\* cmd_queue.recv() fails once the client is gone and its commands are taken.
Hangup(c) ==
    /\ thread[c] = "recv"
    /\ cmds[c] = <<>>
    /\ c \notin connected
    /\ thread' = [thread EXCEPT ![c] = "done"]
    /\ eventQueue' = Append(eventQueue, RemoveAllCmd(c))
    /\ UNCHANGED <<main, counter, refusals, senders, connected, cmds, requests, queue,
                   subscriptions, outbox, processVars, supervisionVars, workVars, replyVars>>

-----------------------------------------------------------------------------
(* The daemon thread: handle_cmd, up to where it sends or answers.         *)

Rest == <<subscriptions, outbox, workVars, clientVars, inbox>>

Incoming(kind) ==
    /\ pc = "recv"
    /\ queue # <<>>
    /\ Head(queue).kind = "IncomingCmd"
    /\ Head(queue).cmd.kind = kind
    /\ queue' = Tail(queue)
    /\ UNCHANGED Rest

\* What handle_cmd returns, and the subscriptions it makes before it returns.
Returns(response, list, subs) ==
    LET m == Head(queue)
    IN /\ answering' = [client_id |-> m.id, response |-> Answer(m.cmd, response, list)]
       /\ todo' = subs
Subscriptions(u, types) ==
    [i \in 1 .. Len(types) |-> AddCmd(u, types[i], Head(queue).id)]

UnitsUnchanged ==
    UNCHANGED <<servers, target, sweeping, left, child, autostart, processVars, eventQueue>>
ServerInfo(u) == [process |-> servers[u].process, status |-> Status(u)]

HandleList ==
    /\ Incoming("List")
    /\ pc' = "reply" /\ UnitsUnchanged
    /\ Returns("List", [u \in DOMAIN servers |-> ServerInfo(u)], <<>>)

HandleGetVersion ==
    /\ Incoming("GetVersion")
    /\ pc' = "reply" /\ UnitsUnchanged
    /\ Returns("Version", None, <<>>)

\* Whatever names a unit that the daemon does not have, but InstallServer.
HandleUnknownServer ==
    /\ \/ \E kind \in {"Start", "Stop"} :
           Incoming(kind) /\ Head(queue).cmd.server_id \notin DOMAIN servers
       \/ \E kind \in {"SendMessage", "SendCommand", "UpdateServer"} :
           Incoming(kind) /\ Head(queue).cmd.unit_id \notin DOMAIN servers
    /\ pc' = "reply" /\ UnitsUnchanged
    /\ Returns("ServerNotFound", None, <<>>)

HandleStart ==
    /\ Incoming("Start")
    /\ LET cmd == Head(queue).cmd
           u == cmd.server_id
       IN /\ u \in DOMAIN servers
          /\ StartUnit(u)
          /\ IF cmd.wait
               THEN Returns("Ok", None,
                            Subscriptions(u, <<"ServerStarting", "ServerStarted">>))
               ELSE Returns("ServerStarted", None, <<>>)

HandleStop ==
    /\ Incoming("Stop")
    /\ LET cmd == Head(queue).cmd
           u == cmd.server_id
       IN /\ u \in DOMAIN servers
          /\ StopUnit(u)
          /\ IF cmd.wait
               THEN Returns("Ok", None,
                            Subscriptions(u, <<"ServerStopping", "ServerStopped">>))
               ELSE Returns("ServerStopped", None, <<>>)

\* subscribe_event: one command per server id; None means nothing is sent.
HandleSubscribeEvent ==
    /\ Incoming("SubscribeEvent")
    /\ pc' = "reply" /\ UnitsUnchanged
    /\ LET cmd == Head(queue).cmd
       IN Returns("Ok", None,
              IF cmd.server_ids = None THEN <<>>
              ELSE [i \in 1 .. Len(cmd.server_ids) |->
                       AddCmd(cmd.server_ids[i], cmd.event_type, Head(queue).id)])

\* SendMessage sends "say ...", SendCommand the command itself.
HandleInput ==
    /\ \E kind \in {"SendMessage", "SendCommand"} :
        LET cmd == Head(queue).cmd
        IN /\ Incoming(kind)
           /\ cmd.unit_id \in DOMAIN servers
           /\ SendCommand(cmd.unit_id, kind = "SendCommand" /\ cmd.isStop)
    /\ Returns("Ok", None, <<>>)

\* Mutant: the client is not subscribed to the failure.
HandleInstallMutant ==
    /\ Incoming("InstallServer")
    /\ pc' = "spawn" /\ UnitsUnchanged
    /\ Returns("Ok", None,
           Subscriptions(Head(queue).cmd.unit_id,
                         <<"InstallationComplete", "ActionProgress">>))

\* The worker is spawned after the subscriptions, in SpawnWorker.
HandleInstall ==
    /\ Incoming("InstallServer")
    /\ pc' = "spawn" /\ UnitsUnchanged
    /\ Returns("Ok", None,
           Subscriptions(Head(queue).cmd.unit_id,
                         <<"InstallationComplete", "InstallationFailed", "ActionProgress">>))

HandleUpdate ==
    /\ Incoming("UpdateServer")
    /\ Head(queue).cmd.unit_id \in DOMAIN servers
    /\ pc' = "spawn" /\ UnitsUnchanged
    /\ Returns("Ok", None,
           Subscriptions(Head(queue).cmd.unit_id,
                         <<"UpdateComplete", "UpdateFailed", "ActionProgress">>))

\* The daemon thread sends StopDaemon to itself: behind what is queued already.
HandleStopDaemon ==
    /\ pc = "recv"
    /\ queue # <<>>
    /\ Head(queue).kind = "IncomingCmd"
    /\ Head(queue).cmd.kind = "StopDaemon"
    /\ queue' = Append(Tail(queue), StopDaemonEvent)
    /\ pc' = "reply" /\ UnitsUnchanged
    /\ Returns("Ok", None, <<>>)
    /\ UNCHANGED Rest

-----------------------------------------------------------------------------
(* The daemon thread: subscriptions, answers and events.                   *)

Elsewhere == <<subscriptions, outbox, clientVars, workVars, servers, target, sweeping,
               left, child, autostart, processVars>>

\* Mutant: the command for the event manager is made and not sent.
SendSubscriptionSkippedMutant ==
    /\ pc \in {"reply", "spawn"}
    /\ todo # <<>>
    /\ todo' = Tail(todo)
    /\ UNCHANGED <<Elsewhere, eventQueue, pc, queue, inbox, answering>>

SendSubscription ==
    /\ pc \in {"reply", "spawn"}
    /\ todo # <<>>
    /\ eventQueue' = Append(eventQueue, Head(todo))
    /\ todo' = Tail(todo)
    /\ UNCHANGED <<Elsewhere, pc, queue, inbox, answering>>

\* install_server looks for the name here; update_server has it.
SpawnWorker ==
    /\ pc = "spawn"
    /\ todo = <<>>
    /\ pc' = "reply"
    /\ LET cmd == answering.response.to
       IN IF cmd.kind = "InstallServer" /\ cmd.unit_id \in DOMAIN servers
            THEN /\ eventQueue' = Append(eventQueue,
                                         JobEvent("InstallationFailed", cmd.unit_id, 0))
                 /\ UNCHANGED jobs
            ELSE Spawned(cmd) /\ UNCHANGED eventQueue
    /\ UNCHANGED <<subscriptions, outbox, clientVars, published, configs, dirs, files,
                   servers, target, sweeping, left, child, autostart, processVars,
                   queue, inbox, answering, todo>>

TakeUnit ==
    /\ pc = "recv"
    /\ queue # <<>>
    /\ Head(queue).kind = "AddServerUnit"
    /\ queue' = Tail(queue)
    /\ AddServerUnit(Head(queue).unit_id)
    /\ Added(Head(queue))
    /\ UNCHANGED <<pc, subscriptions, outbox, clientVars, published, jobs, dirs, files,
                   replyVars>>

\* sender.send(...): if the client is gone its subscriptions are to be removed.
Deliver(c, response) ==
    IF c \in connected
      THEN inbox' = [inbox EXCEPT ![c] = Append(@, response)] /\ UNCHANGED eventQueue
      ELSE eventQueue' = Append(eventQueue, RemoveAllCmd(c)) /\ UNCHANGED inbox

\* get_mut(&id).unwrap() panics for an id that is not in the map.
Reply ==
    /\ pc = "reply"
    /\ todo = <<>>
    /\ IF answering.client_id \in senders
         THEN pc' = "recv" /\ Deliver(answering.client_id, answering.response)
         ELSE pc' = "panicked" /\ UNCHANGED <<inbox, eventQueue>>
    /\ answering' = None
    /\ UNCHANGED <<Elsewhere, queue, todo>>

\* Mutant: events are handed out by a thread that does not wait for the answer.
HandOutLaterMutant ==
    /\ pc \in {"recv", "reply"}
    /\ queue # <<>>
    /\ Head(queue).kind = "SendEvent"
    /\ queue' = Tail(queue)
    /\ Deliver(Head(queue).client_id, EventResponse(Head(queue).event))
    /\ UNCHANGED <<Elsewhere, pc, answering, todo>>

HandOut ==
    /\ pc = "recv"
    /\ queue # <<>>
    /\ Head(queue).kind = "SendEvent"
    /\ queue' = Tail(queue)
    /\ IF Head(queue).client_id \in senders
         THEN /\ Deliver(Head(queue).client_id, EventResponse(Head(queue).event))
              /\ UNCHANGED pc
         ELSE pc' = "panicked" /\ UNCHANGED <<inbox, eventQueue>>
    /\ UNCHANGED <<Elsewhere, answering, todo>>

-----------------------------------------------------------------------------
(* The daemon thread: the end.                                             *)

TakeStopDaemon ==
    /\ pc = "recv"
    /\ queue # <<>>
    /\ Head(queue) = StopDaemonEvent
    /\ queue' = Tail(queue)
    /\ BeginSweep
    /\ UNCHANGED <<Rest, answering, todo>>

\* The event Stopped goes to every client in the map that is still there; the
\* lock is kept from here on.
Broadcast ==
    /\ pc = "recv"
    /\ queue # <<>>
    /\ Head(queue) = DaemonStopped
    /\ queue' = Tail(queue)
    /\ pc' = "closing"
    /\ inbox' = [c \in Clients |-> IF c \in senders \cap connected
                                     THEN Append(inbox[c], StoppedResponse) ELSE inbox[c]]
    /\ UNCHANGED <<Elsewhere, eventQueue, answering, todo>>

\* exit(0) after half a second
ExitDaemon ==
    /\ pc = "closing"
    /\ pc' = "exited"
    /\ UNCHANGED <<Elsewhere, eventQueue, queue, inbox, answering, todo>>

-----------------------------------------------------------------------------
Acceptor == Greet \/ RefuseClient \/ Register

Commands ==
    \/ HandleList \/ HandleGetVersion
    \/ HandleUnknownServer \/ HandleStart \/ HandleStop
    \/ HandleSubscribeEvent \/ HandleInput \/ HandleStopDaemon
    \/ HandleInstall \/ HandleUpdate

\* WriteStop, the sweep and the start of the daemon touch none of these.
OfUnits == (Autostart \/ StartThread \/ WriteStop \/ Sweep)
               /\ UNCHANGED <<subscriptions, outbox, workVars, clientVars, replyVars>>

DaemonThread ==
    \/ Commands
    \/ OfUnits
    \/ SendSubscription \/ SpawnWorker \/ Reply \/ HandOut \/ TakeUnit
    \/ TakeStopDaemon \/ Broadcast \/ ExitDaemon

Manager ==
    ManagerNext
        /\ UNCHANGED <<processVars, supervisionVars, workVars, clientVars, replyVars>>

OfServers(A) ==
    A /\ UNCHANGED <<subscriptions, outbox, supervisionVars, workVars, clientVars, replyVars>>

OfJob(j) ==
    /\ j \in DOMAIN jobs
    /\ JobStep(j)
    /\ UNCHANGED <<subscriptions, outbox, processVars, supervisionVars, clientVars, replyVars>>

Threads ==
    \/ Acceptor
    \/ \E c \in Clients : Relay(c) \/ Hangup(c)
    \/ DaemonThread
    \/ Manager
    \/ OfServers(LogNext)
    \/ OfServers(ProcessNext)
    \/ \E j \in 1 .. MaxJobs : OfJob(j)

Next ==
    /\ Up
    /\ \/ Threads
       \/ \E c \in Clients, cmd \in Requests : Send(c, cmd)
       \/ \E c \in Leavers : Disconnect(c)

Spec == Init /\ [][Next]_daemonVars

-----------------------------------------------------------------------------
(* Fairness: no thread of the daemon is kept from running, and server       *)
(* processes do not hang (see UnitLife).  Clients owe nothing, and a log    *)
(* thread may end at any line.                                              *)

Fairness ==
    /\ WF_daemonVars(Up /\ (RefuseClient \/ Register))
    /\ WF_daemonVars(Up /\ DaemonThread)
    /\ WF_daemonVars(Up /\ Manager)
    /\ \A c \in Clients : WF_daemonVars(Up /\ (Relay(c) \/ Hangup(c)))
    /\ \A j \in 1 .. MaxJobs : WF_daemonVars(Up /\ OfJob(j))
    /\ \A p \in Pids :
          /\ WF_daemonVars(Up /\ OfServers(ReadLine(p) \/ RaiseEvent(p)))
          /\ WF_daemonVars(Up /\ OfServers(
                 \/ Load(p) \/ Run(p) \/ Refuse(p) \/ CloseDown(p)
                 \/ p \in asked /\ BeginStop(p)
                 \/ phase[p] # "running" /\ Exit(p)))

FairSpec == Spec /\ Fairness

-----------------------------------------------------------------------------
(* Properties.                                                             *)

\* Whoever a command, a subscription or an event on its way is for has its
\* sender in the map: the two unwraps of the daemon thread never fail.
RegisteredTargets ==
    /\ \A i \in 1 .. Len(queue) :
          /\ queue[i].kind = "IncomingCmd" => queue[i].id \in senders
          /\ queue[i].kind = "SendEvent" => queue[i].client_id \in senders
    /\ answering # None => answering.client_id \in senders
    /\ \A i \in 1 .. Len(outbox) : outbox[i].client_id \in senders
    /\ \A i \in 1 .. Len(todo) : todo[i].client_id \in senders
    /\ \A i \in 1 .. Len(eventQueue) :
          eventQueue[i].kind = "AddSubscription" => eventQueue[i].client_id \in senders
    /\ \A k \in Key : Range(subscriptions[k]) \subseteq senders

\* The commands of a client that stays are answered in the order in which it
\* sent them, each once: those answered, the one in hand, those in the daemon's
\* queue and those its thread has not read yet make up what it sent.
AnswersTo(c) == {i \in DOMAIN inbox[c] : inbox[c][i].kind = "Answer"}
QueuedOf(c) == {i \in DOMAIN queue : queue[i].kind = "IncomingCmd" /\ queue[i].id = c}
InHand(c) == answering # None /\ answering.client_id = c
Place(S, i) == Cardinality({k \in S : k <= i})
AnsweredInOrder ==
    \A c \in connected :
        LET answered == Cardinality(AnswersTo(c))
            taken == answered + (IF InHand(c) THEN 1 ELSE 0)
            queued == Cardinality(QueuedOf(c))
        IN /\ Len(requests[c]) = taken + queued + Len(cmds[c])
           /\ \A i \in AnswersTo(c) :
                 inbox[c][i].to = requests[c][Place(AnswersTo(c), i)]
           /\ InHand(c) => answering.response.to = requests[c][answered + 1]
           /\ \A i \in QueuedOf(c) :
                 queue[i].cmd = requests[c][taken + Place(QueuedOf(c), i)]
           /\ \A i \in DOMAIN cmds[c] : cmds[c][i] = requests[c][taken + queued + i]

\* A client is not sent an event before it is sent the Ok of a command that
\* subscribed it to that event of that server, although the subscription is
\* made before the Ok and events take another way.
SubscribesTo(cmd, e) ==
    \/ /\ cmd.kind = "Start" /\ cmd.wait /\ cmd.server_id = e.server_id
       /\ e.type \in {"ServerStarting", "ServerStarted"}
    \/ /\ cmd.kind = "Stop" /\ cmd.wait /\ cmd.server_id = e.server_id
       /\ e.type \in {"ServerStopping", "ServerStopped"}
    \/ /\ cmd.kind = "SubscribeEvent" /\ cmd.server_ids # None
       /\ e.type = cmd.event_type /\ e.server_id \in Range(cmd.server_ids)
    \/ /\ cmd.kind = "InstallServer" /\ cmd.unit_id = e.server_id
       /\ e.type \in {"InstallationComplete", "InstallationFailed", "ActionProgress"}
    \/ /\ cmd.kind = "UpdateServer" /\ cmd.unit_id = e.server_id
       /\ e.type \in {"UpdateComplete", "UpdateFailed", "ActionProgress"}
EventsFollowTheirOk ==
    \A c \in Clients : \A i \in 1 .. Len(inbox[c]) :
        inbox[c][i].kind = "ServerEvent" =>
            \E j \in 1 .. i - 1 :
                /\ inbox[c][j].kind = "Answer"
                /\ inbox[c][j].response = "Ok"
                /\ SubscribesTo(inbox[c][j].to, inbox[c][i].event)

\* A client that was sent an event of a process and is then sent a list does
\* not find the process in an earlier status there.
NoLongerAfter ==
    [ServerStarting |-> {"Unknown"},
     ServerStarted |-> {"Unknown", "Starting"},
     ServerStopping |-> {"Unknown", "Starting", "Running"},
     ServerStopped |-> {"Unknown", "Starting", "Running", "Stopping"},
     ServerFailed |-> {"Unknown", "Starting"}]
ListsFollowEvents ==
    \A c \in Clients : \A i, j \in 1 .. Len(inbox[c]) :
        i < j /\ inbox[c][i].kind = "ServerEvent"
              /\ inbox[c][i].event.type \in DOMAIN NoLongerAfter
              /\ inbox[c][j].kind = "Answer" /\ inbox[c][j].response = "List"
            => LET e == inbox[c][i].event
                   list == inbox[c][j].servers
               IN list[e.server_id].process = e.body
                    => list[e.server_id].status \notin NoLongerAfter[e.type]

\* What a client asks is answered in the end, unless it or the daemon ends, or the
\* sweep polls a server for ever whose output nobody reads.
Unanswered(c) == Cardinality(AnswersTo(c)) < Len(requests[c])
RequestIsAnswered ==
    \A c \in Clients :
        c \in connected /\ Unanswered(c)
            ~> ~Unanswered(c) \/ c \notin connected \/ ~Up \/ []PollsInVain

\* A client whose waiting start has subscribed it before the log thread raises
\* that the server is up hears of it, from then on and before it is even answered.
\* That fails only of a server that never gets so far or of whose output that line
\* is not read, of a sweep that polls for ever, and of a client that leaves: its
\* departure may cost the others their subscriptions.
IsOk(m, u) ==
    m.kind = "Answer" /\ m.response = "Ok" /\ m.to = StartCmd(u, TRUE)
Awaits(c, u) ==
    \/ \E i \in DOMAIN inbox[c] : IsOk(inbox[c][i], u)
    \/ InHand(c) /\ IsOk(answering.response, u) /\ todo = <<>>
ToCome(p) ==
    \/ raising[p] = "ServerStarted"
    \/ /\ raising[p] # Ended
       /\ "Done" \in Range(pipe[p]) \/ phase[p] \in {"booting", "loading"}
NeverUp(p) ==
    /\ outputState[p] \in {"Unknown", "Starting", "Errored"}
    /\ \/ LogEnded(p)
       \/ phase[p] \in {"refusing", "exited"} /\ "Done" \notin Range(pipe[p])
Hears(c, p) ==
    \E i \in DOMAIN inbox[c] :
        /\ inbox[c][i].kind = "ServerEvent"
        /\ inbox[c][i].event.type = "ServerStarted" /\ inbox[c][i].event.body = p
WaiterHears ==
    \A c \in Clients, p \in Pids :
        Awaits(c, unit[p]) /\ ToCome(p)
            ~> \/ Hears(c, p) \/ NeverUp(p)
               \/ senders \ connected # {}
               \/ ~Up \/ []PollsInVain
=============================================================================
