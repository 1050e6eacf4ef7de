-------------------------------- MODULE Mcman --------------------------------
(***************************************************************************)
(* The client (src/bin/mcman.rs) with the daemon it talks to: a process    *)
(* that connects, sends the command of its subcommand, takes what it is    *)
(* sent, one message after the other, and ends.  It keeps no other state.  *)
(* It asks for no minimum version, and here nobody interrupts it (see      *)
(* Leavers of Daemon).                                                     *)
(***************************************************************************)
EXTENDS Daemon

CONSTANT Scenarios  \* bound: an autostart list, and what each client is called for

ASSUME McmanAssumption ==
    /\ \A s \in Scenarios :
          /\ s.autostart \in AutostartLists
          /\ s.called \in [Clients -> Requests \cup {None}]
          /\ \A c \in Clients : s.called[c] # None =>
                s.called[c].kind \notin {"GetVersion", "SubscribeEvent"}
    /\ MaxRequests >= Cardinality(Clients) /\ MaxRefusals = 0 /\ Leavers = {}

VARIABLES
    called,     \* the command of the subcommand a client was called with, or None
    read,       \* how many of the messages in its inbox a client has taken
    outcome     \* "running", or how it has ended: "ended", "panicked"

manVars == <<daemonVars, called, read, outcome>>

ManTypeOK ==
    /\ TypeOK
    /\ called \in [Clients -> Requests \cup {None}]
    /\ read \in [Clients -> Nat]
    /\ \A c \in Clients : read[c] <= Len(inbox[c])
    /\ outcome \in [Clients -> {"running", "ended", "panicked"}]

ManInit ==
    /\ Init
    /\ \E s \in Scenarios : autostart = s.autostart /\ called = s.called
    /\ read = [c \in Clients |-> 0]
    /\ outcome = [c \in Clients |-> "running"]

-----------------------------------------------------------------------------
(* What a subcommand expects.                                              *)

Ok == <<"Answer", "Ok">>
Event(type) == <<"ServerEvent", type>>
Label(m) ==
    <<m.kind, CASE m.kind = "Answer" -> m.response
                [] m.kind = "ServerEvent" -> m.event.type
                [] OTHER -> None>>

\* Mutant: every command is expected to be answered by Ok.
ScriptMutant(cmd) ==
    CASE cmd.kind = "Start" /\ cmd.wait ->
            << {Ok}, {Event("ServerStarting"), Event("ServerFailed")},
                     {Event("ServerStarted"), Event("ServerFailed")} >>
      [] cmd.kind = "Stop" /\ cmd.wait ->
            << {Ok}, {Event("ServerStopping")}, {Event("ServerStopped")} >>
      [] OTHER -> << {Ok, <<"Answer", "ServerNotFound">>} >>

\* Those that panic on any answer but the right one, message by message.
Script(cmd) ==
    CASE cmd.kind = "List" -> << {<<"Answer", "List">>} >>
      [] cmd.kind = "Start" /\ ~cmd.wait -> << {<<"Answer", "ServerStarted">>} >>
      [] cmd.kind = "Start" /\ cmd.wait ->
            << {Ok}, {Event("ServerStarting"), Event("ServerFailed")},
                     {Event("ServerStarted"), Event("ServerFailed")} >>
      [] cmd.kind = "Stop" /\ ~cmd.wait -> << {<<"Answer", "ServerStopped">>} >>
      [] cmd.kind = "Stop" /\ cmd.wait ->
            << {Ok}, {Event("ServerStopping")}, {Event("ServerStopped")} >>
      [] cmd.kind \in {"SendMessage", "SendCommand"} ->
            << {Ok, <<"Answer", "ServerNotFound">>} >>
Strict(cmd) == cmd.kind \in {"List", "Start", "Stop", "SendMessage", "SendCommand"}

\* The others look at no more than whether it is time to end: stop-daemon takes
\* two messages, install and update a first one and then events up to the last.
LastEvents(cmd) ==
    IF cmd.kind = "InstallServer"
      THEN {Event("InstallationComplete"), Event("InstallationFailed")}
      ELSE {Event("UpdateComplete"), Event("UpdateFailed")}
IsLast(cmd, n, m) ==
    IF cmd.kind = "StopDaemon" THEN n = 2
    ELSE n > 1 /\ (m.kind # "ServerEvent" \/ Label(m) \in LastEvents(cmd))

\* How it goes on after message m, the n-th since it sent the command.
After(cmd, n, m) ==
    IF Strict(cmd)
      THEN IF Label(m) \notin Script(cmd)[n] THEN "panicked"
           ELSE IF n = Len(Script(cmd)) THEN "ended" ELSE "running"
      ELSE IF IsLast(cmd, n, m) THEN "ended" ELSE "running"

-----------------------------------------------------------------------------
(* The client.                                                             *)

\* What stays of the daemon when a client acts.
DaemonRest == <<main, counter, refusals, senders, cmds, thread, requests, AcceptorRest,
                supervisionVars>>

Becomes(c, how) ==
    /\ outcome' = [outcome EXCEPT ![c] = how]
    /\ connected' = IF how = "running" THEN connected ELSE connected \ {c}
    /\ UNCHANGED DaemonRest

\* SetSender and the version, which are there as soon as it is connected, and
\* then the command.
Call(c) ==
    /\ Up
    /\ read[c] = 0
    /\ Send(c, called[c])
    /\ read' = [read EXCEPT ![c] = 2]
    /\ UNCHANGED outcome

\* The daemon is gone before the command is sent.
CallFails(c) ==
    /\ pc = "exited"
    /\ c \in connected
    /\ read[c] = 0
    /\ Becomes(c, "panicked")
    /\ UNCHANGED read

\* Mutant: the message is counted when it is looked for and when it is taken.
ReceiveMutant(c) ==
    /\ c \in connected
    /\ requests[c] # <<>>
    /\ read[c] < Len(inbox[c])
    /\ read' = [read EXCEPT ![c] = @ + 2]
    /\ Becomes(c, After(called[c], read[c] - 1, inbox[c][read[c] + 1]))

Receive(c) ==
    /\ c \in connected
    /\ requests[c] # <<>>
    /\ read[c] < Len(inbox[c])
    /\ read' = [read EXCEPT ![c] = @ + 1]
    /\ Becomes(c, After(called[c], read[c] - 1, inbox[c][read[c] + 1]))

\* recv() fails when the daemon is gone and everything is taken.
ReceiveFails(c) ==
    /\ pc = "exited"
    /\ c \in connected
    /\ requests[c] # <<>>
    /\ read[c] = Len(inbox[c])
    /\ Becomes(c, IF Strict(called[c]) THEN "panicked" ELSE "ended")
    /\ UNCHANGED read

ClientNext(c) ==
    /\ Call(c) \/ CallFails(c) \/ Receive(c) \/ ReceiveFails(c)
    /\ UNCHANGED called

\* Only a client that was called connects.
ManNext ==
    \/ /\ Up /\ Threads
       /\ \A c \in connected' : called[c] # None
       /\ UNCHANGED <<called, read, outcome>>
    \/ \E c \in Clients : ClientNext(c)

ManSpec == ManInit /\ [][ManNext]_manVars

\* Beside the daemon's threads (Daemon) the clients are not kept from running.
ManFairSpec ==
    /\ ManSpec
    /\ Fairness
    /\ \A c \in Clients : WF_manVars(ClientNext(c))

-----------------------------------------------------------------------------
(* Properties.                                                             *)

Taken(c) == {inbox[c][i] : i \in 1 .. read[c]}

\* "[DONE] installed ...": the unit is the daemon's by then, with what one of its
\* jobs has fetched, although it and the news of it take different ways.
DoneIsThere ==
    \A c \in Clients : \A m \in Taken(c) :
        Label(m) \in {Event("InstallationComplete"), Event("UpdateComplete")} =>
            LET u == m.event.server_id
            IN /\ u \in DOMAIN servers \cap DOMAIN configs
               /\ \E j \in DOMAIN jobs :
                     jobs[j].unit = u /\ configs[u].version = jobs[j].target

\* A client panics only if the unit it wants to start or to stop is unknown, if
\* the daemon ends, or if it waits and the two events it waits for do not come
\* as it expects: the second one first, because the first was raised before the
\* daemon, which starts or stops first, subscribed it; or the first one twice,
\* of another process of the unit, whose output was read late, or of a line
\* that repeats the words of the end.
Excuses(cmd, box, n) ==
    LET last == box[n]
        seen == box[4]
    IN /\ cmd.kind \in {"Start", "Stop"}
       /\ \/ Label(last) = <<"Answer", "ServerNotFound">>
          \/ /\ cmd.wait /\ n = 4
             /\ Label(last) \in {Event("ServerStarted"), Event("ServerStopped")}
          \/ /\ cmd.wait /\ n = 5 /\ Label(last) = Label(seen)
             /\ \/ last.event.body # seen.event.body
                \/ Label(last) = Event("ServerStopping") /\ "Stopping" \in Echoes
PanicsOnlyIf ==
    \A c \in Clients :
        outcome[c] = "panicked" /\ pc \notin {"closing", "exited"} =>
            Excuses(called[c], inbox[c], read[c])

\* A client comes to its end: one that only asks in any case, one that installs
\* or updates unless its unit is unknown or its worker panics, one that waits for a
\* start if it was sent the Ok before the server came up, unless the server does not
\* or nobody reads that it does.  No client does if the daemon thread panics or the
\* sweep polls for ever; one that waits for events may lose them when another leaves.
Waiting(c) == outcome[c] = "running" /\ requests[c] # <<>>
OnlyAsks(c) ==
    \/ called[c].kind \in {"List", "SendMessage", "SendCommand", "StopDaemon"}
    \/ called[c].kind \in {"Start", "Stop"} /\ ~called[c].wait
HasJob(c) ==
    \/ called[c].kind = "InstallServer"
    \/ called[c].kind = "UpdateServer" /\ Ok \in {Label(m) : m \in Taken(c)}
StartsUnitOf(c, p) == called[c] = StartCmd(unit[p], TRUE)
AwaitsStart(c, p) == StartsUnitOf(c, p) /\ Ok \in {Label(m) : m \in Taken(c)} /\ ToCome(p)
WorkerPanicked(c) ==
    \E j \in DOMAIN jobs : At(j, "panicked") /\ jobs[j].unit = called[c].unit_id
ClientEnds ==
    \A c \in Clients, p \in Pids :
        Waiting(c) /\ (OnlyAsks(c) \/ HasJob(c) \/ AwaitsStart(c, p))
            ~> \/ outcome[c] # "running"
               \/ pc = "panicked" \/ []PollsInVain
               \/ /\ Waiting(c) /\ ~OnlyAsks(c)
                  /\ \/ senders \ connected # {}
                     \/ HasJob(c) /\ WorkerPanicked(c)
               \/ StartsUnitOf(c, p) /\ NeverUp(p)
=============================================================================
