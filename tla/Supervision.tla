---------------------------- MODULE Supervision ----------------------------
(***************************************************************************)
(* What the daemon thread does to servers: DaemonServer of                 *)
(* src/bin/mcmand.rs (start, status, stop, send_command, has_started) over *)
(* PaperServer of src/daemon/paper.rs (spawn, the stdin it keeps), the     *)
(* parts of handle_cmd that call them, and the sweep that StopDaemon makes *)
(* over all units.                                                         *)
(*                                                                         *)
(* A step ends where the daemon thread blocks, or where what it has read   *)
(* can change before it is used: stop() looks at the status first and      *)
(* writes to the process later, the sweep polls a starting server and      *)
(* waits for a stopped one.                                                *)
(***************************************************************************)
EXTENDS ServerProcess

VARIABLES
    servers,    \* the daemon's units: unit id -> DaemonServer
    pc,         \* where the daemon thread is
    target,     \* the unit it is about to stop or waits for to start
    sweeping,   \* it is inside the handler of StopDaemon
    left,       \* units that the sweep has not visited yet
    child,      \* the process whose end the sweep waits for
    autostart   \* names of the autostart list that are still to be started

supervisionVars == <<servers, pc, target, sweeping, left, child, autostart>>

\* process and status are set together; input is the stdin of the process
\* spawned last and stays when stop() takes the process.
DaemonServer == [process : Pids \cup {None}, status : Pids \cup {None},
                 input : Pids \cup {None}]
NotStarted == [process |-> None, status |-> None, input |-> None]

SupervisionTypeOK ==
    /\ DOMAIN servers \subseteq Units
    /\ \A u \in DOMAIN servers : servers[u] \in DaemonServer
    /\ pc \in {"autostart", "recv", "spawn", "reply", "write", "sweep", "starting", "wait",
               "closing", "panicked", "exited"}
    /\ target \in Units \cup {None}
    /\ sweeping \in BOOLEAN
    /\ left \subseteq Units
    /\ child \in Pids \cup {None}
    /\ autostart \in Seq(Units)

\* Daemon::from_config with the units that create_servers loaded and
\* the autostart list of mcman.toml.
SupervisionInit(known, list) ==
    /\ servers = [u \in known |-> NotStarted]
    /\ pc = "autostart"
    /\ target = None
    /\ sweeping = FALSE
    /\ left = {}
    /\ child = None
    /\ autostart = list

-----------------------------------------------------------------------------
(* DaemonServer::status.                                                   *)

StatusOf == [Unknown |-> "Unknown", Starting |-> "Starting", Started |-> "Running",
             Errored |-> "Errored", Stopping |-> "Stopping", Stopped |-> "Down"]

Status(u) ==
    LET p == servers[u].process IN
    CASE p = None -> "Down"
      [] p # None /\ phase[p] = "exited" -> IF success[p] THEN "Down" ELSE "Errored"
      [] p # None /\ phase[p] # "exited" -> StatusOf[outputState[servers[u].status]]

\* An unwrap() ends the thread it is in: the daemon thread, or main, which takes
\* the whole daemon with it.
Dies(how) ==
    /\ pc' = how
    /\ UNCHANGED <<servers, target, sweeping, left, child, processVars>>
Panic == Dies("panicked")

-----------------------------------------------------------------------------
(* DaemonServer::start.                                                    *)

\* Whatever process, status and stdin the unit had are dropped; a dropped Child
\* goes on running.  Processes are numbered in the order they are spawned.
Unborn == {p \in Pids : phase[p] = "unborn"}
Spawn(u, next) ==
    \E p \in Unborn :
        /\ \A q \in Unborn : p <= q
        /\ phase' = [phase EXCEPT ![p] = "booting"]
        /\ unit' = [unit EXCEPT ![p] = u]
        /\ servers' = [servers EXCEPT ![u] = [process |-> p, status |-> p, input |-> p]]
        /\ pc' = next
        /\ UNCHANGED <<target, sweeping, left, child, success, asked, pipe,
                       outputState, raising, echoes>>

\* Daemon::autostart, one name of the list: it skips a name it does not know and
\* does not ask for the status.  When the list is done the threads are started.
Autostart ==
    /\ pc = "autostart"
    /\ autostart # <<>>
    /\ autostart' = Tail(autostart)
    /\ IF Head(autostart) \in DOMAIN servers
         THEN Spawn(Head(autostart), "autostart") \/ Dies("exited")
         ELSE UNCHANGED <<servers, pc, target, sweeping, left, child, processVars>>
    /\ UNCHANGED <<eventQueue, queue>>

StartThread ==
    /\ pc = "autostart"
    /\ autostart = <<>>
    /\ pc' = "recv"
    /\ UNCHANGED <<servers, target, sweeping, left, child, autostart, processVars,
                   eventQueue, queue>>

\* Mutant: started again whenever it is not running yet.
StartUnitMutant(u) ==
    /\ IF Status(u) \notin {"Running", "Stopping"}
         THEN Spawn(u, "reply") \/ Panic
         ELSE pc' = "reply" /\ UNCHANGED <<servers, target, sweeping, left, child, processVars>>
    /\ UNCHANGED <<autostart, eventQueue>>

\* DaemonCmd::Start up to its answer; the spawn may fail and is unwrapped.
StartUnit(u) ==
    /\ IF Status(u) = "Down"
         THEN Spawn(u, "reply") \/ Panic
         ELSE pc' = "reply" /\ UNCHANGED <<servers, target, sweeping, left, child, processVars>>
    /\ UNCHANGED <<autostart, eventQueue>>

-----------------------------------------------------------------------------
(* PaperServer::send_command and DaemonServer::stop.                       *)

\* writeln! to the stdin of the unit's last process, unwrapped.  The pipe of a
\* process that has exited is broken.
WriteInput(u, isStop) ==
    LET p == servers[u].input
    IN /\ p # None => phase[p] # "exited"
       /\ asked' = IF p # None /\ isStop THEN asked \cup {p} ELSE asked
WriteFails(u) ==
    LET p == servers[u].input IN p # None /\ phase[p] = "exited"

\* DaemonCmd::SendCommand and SendMessage (a "say" is no "stop").
SendCommand(u, isStop) ==
    /\ \/ /\ WriteInput(u, isStop)
          /\ pc' = "reply"
          /\ UNCHANGED <<servers, target, sweeping, left, child, unit, phase, success,
                         pipe, outputState, raising, echoes>>
       \/ WriteFails(u) /\ Panic
    /\ UNCHANGED <<autostart, eventQueue>>

\* DaemonCmd::Stop: the status is read here, "stop" is written in WriteStop.
StopUnit(u) ==
    /\ IF Status(u) = "Running"
         THEN pc' = "write" /\ target' = u
         ELSE pc' = "reply" /\ UNCHANGED target
    /\ UNCHANGED <<servers, sweeping, left, child, autostart, processVars, eventQueue>>

\* DaemonServer::stop: the process is told and its handle taken.  The sweep
\* goes on to wait for it; handle_cmd drops it.
WriteStop ==
    /\ pc = "write"
    /\ \/ /\ WriteInput(target, TRUE)
          /\ servers' = [servers EXCEPT ![target].process = None]
          /\ child' = IF sweeping THEN servers[target].process ELSE None
          /\ pc' = IF sweeping THEN "wait" ELSE "reply"
          /\ target' = None
          /\ UNCHANGED <<sweeping, left, unit, phase, success, pipe, outputState,
                         raising, echoes>>
       \/ WriteFails(target) /\ Panic
    /\ UNCHANGED <<autostart, eventQueue, queue>>

-----------------------------------------------------------------------------
(* DaemonEvent::AddServerUnit; an entry of that name is replaced.          *)

\* Mutant: the name is registered without a server.
AddServerUnitEmptyMutant(u) ==
    /\ servers' = [v \in DOMAIN servers \cup {u} |->
                      IF v = u THEN None ELSE servers[v]]
    /\ UNCHANGED <<target, sweeping, left, child, autostart, processVars, eventQueue>>

AddServerUnit(u) ==
    /\ servers' = [v \in DOMAIN servers \cup {u} |->
                      IF v = u THEN NotStarted ELSE servers[v]]
    /\ UNCHANGED <<target, sweeping, left, child, autostart, processVars, eventQueue>>

-----------------------------------------------------------------------------
(* DaemonEvent::StopDaemon.                                                *)

BeginSweep ==
    /\ pc' = "sweep"
    /\ sweeping' = TRUE
    /\ left' = DOMAIN servers
    /\ UNCHANGED <<servers, target, child, autostart, processVars, eventQueue>>

\* One unit, in the order of the HashMap.  A unit in any other status, Unknown
\* among them, is left as it is.
Visit(u) ==
    /\ pc = "sweep"
    /\ u \in left
    /\ left' = left \ {u}
    /\ CASE Status(u) = "Starting" -> pc' = "starting" /\ target' = u
         [] Status(u) = "Running"  -> pc' = "write" /\ target' = u
         [] OTHER                  -> UNCHANGED <<pc, target>>
    /\ UNCHANGED <<servers, sweeping, child, autostart, processVars,
                   eventQueue, queue>>

\* Mutant: it loops until the server runs.
HasStartedRunningMutant ==
    /\ pc = "starting"
    /\ Status(target) = "Running"
    /\ pc' = "write"
    /\ UNCHANGED <<servers, target, sweeping, left, child, autostart, processVars,
                   eventQueue, queue>>

\* has_started: it loops as long as the server is starting, and what it then
\* reports is always true.
HasStarted ==
    /\ pc = "starting"
    /\ Status(target) # "Starting"
    /\ pc' = "write"
    /\ UNCHANGED <<servers, target, sweeping, left, child, autostart, processVars,
                   eventQueue, queue>>

\* The server it polls is up or on its way, but nobody reads its output any more.
PollsInVain ==
    /\ pc = "starting"
    /\ LET p == servers[target].process IN p # None /\ Alive(p) /\ LogEnded(p)

\* Mutant: the sweep does not wait for the process it has told to stop.
WaitNotMutant ==
    /\ pc = "wait"
    /\ pc' = "sweep"
    /\ child' = None
    /\ UNCHANGED <<servers, target, sweeping, left, autostart, processVars, eventQueue,
                   queue>>

\* child.wait()
Wait ==
    /\ pc = "wait"
    /\ phase[child] = "exited"
    /\ pc' = "sweep"
    /\ child' = None
    /\ UNCHANGED <<servers, target, sweeping, left, autostart, processVars, eventQueue,
                   queue>>

DaemonStopped == [kind |-> "Stopped"]

\* All units are visited: the daemon sends itself the event that ends it, which
\* goes behind what has arrived meanwhile.
EndSweep ==
    /\ pc = "sweep"
    /\ left = {}
    /\ pc' = "recv"
    /\ sweeping' = FALSE
    /\ queue' = Append(queue, DaemonStopped)
    /\ UNCHANGED <<servers, target, left, child, autostart, processVars, eventQueue>>

Sweep ==
    \/ \E u \in left : Visit(u)
    \/ HasStarted
    \/ Wait
    \/ EndSweep

-----------------------------------------------------------------------------
(* What whoever runs the sweep promises; see FairSpec of UnitLife and of Daemon. *)

\* The sweep comes to its end, whatever the servers do meanwhile: it ends the
\* daemon, or the daemon thread with it; unless it polls for ever a server that
\* lives and whose log thread ended before it read that the server is up.
SweepEnds == sweeping ~> (pc \in {"exited", "panicked"} \/ []PollsInVain)
=============================================================================
