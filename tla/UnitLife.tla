------------------------------ MODULE UnitLife ------------------------------
(***************************************************************************)
(* The life of the daemon's units, closed: the daemon thread carries out   *)
(* any commands on them, server processes run, crash and end as they like, *)
(* and the log threads follow their output.  Who sends the commands and    *)
(* who hears of the events is the subject of other modules: here the       *)
(* events pile up in eventQueue, which serves as their history.            *)
(***************************************************************************)
EXTENDS Supervision

CONSTANTS
    Known,          \* units loaded at the start
    AutostartLists, \* bound: values of "autostart" in mcman.toml
    MaxCommands     \* bound: commands and AddServerUnit events carried out

ASSUME LifeAssumption ==
    /\ Known \subseteq Units
    /\ AutostartLists \subseteq Seq(Units)
    /\ MaxCommands \in Nat

VARIABLES
    commands,   \* number of commands so far
    replaced,   \* history: processes whose unit was added anew over them
    swept       \* history: processes stopped by a sweep

lifeVars == <<processVars, supervisionVars, eventQueue, queue, commands, replaced,
              swept>>
history == <<replaced, swept>>

TypeOK ==
    /\ ProcessTypeOK
    /\ SupervisionTypeOK
    /\ eventQueue \in Seq(EventManagerCmd)
    /\ queue \in Seq({DaemonStopped})
    /\ commands \in 0 .. MaxCommands
    /\ replaced \subseteq Pids
    /\ swept \subseteq Pids

Init ==
    /\ ProcessInit
    /\ \E list \in AutostartLists : SupervisionInit(Known, list)
    /\ eventQueue = <<>>
    /\ queue = <<>>
    /\ commands = 0
    /\ replaced = {}
    /\ swept = {}

-----------------------------------------------------------------------------
Boot == (Autostart \/ StartThread) /\ UNCHANGED <<commands, history>>

Command ==
    /\ pc = "recv"
    /\ commands < MaxCommands
    /\ commands' = commands + 1
    /\ \/ \E u \in DOMAIN servers :
            \/ StartUnit(u)
            \/ StopUnit(u)
            \/ \E isStop \in BOOLEAN : SendCommand(u, isStop)
       \/ BeginSweep
    /\ UNCHANGED <<queue, history>>

\* A worker installed or updated the unit.
Add(u) ==
    /\ pc = "recv"
    /\ commands < MaxCommands
    /\ commands' = commands + 1
    /\ AddServerUnit(u)
    /\ replaced' = replaced \cup
           {p \in Pids : u \in DOMAIN servers /\ servers[u].process = p}
    /\ UNCHANGED <<pc, queue, swept>>

\* The answer to the client; nothing about the units changes.
Reply ==
    /\ pc = "reply"
    /\ pc' = "recv"
    /\ UNCHANGED <<servers, target, sweeping, left, child, autostart, processVars,
                   eventQueue, queue, commands, history>>

TellToStop ==
    /\ WriteStop
    /\ swept' = IF sweeping /\ pc' = "wait" THEN swept \cup {child'} ELSE swept
    /\ UNCHANGED <<commands, replaced>>

\* SendDaemonEvent(Stopped): exit(0) ends every thread, no server process.
ExitDaemon ==
    /\ pc = "recv"
    /\ queue # <<>>
    /\ pc' = "exited"
    /\ queue' = Tail(queue)
    /\ UNCHANGED <<servers, target, sweeping, left, child, autostart, processVars,
                   eventQueue, commands, history>>

Sweeping == Sweep /\ UNCHANGED <<commands, history>>

World == ProcessNext /\ UNCHANGED <<supervisionVars, commands, history>>

Log ==
    /\ pc # "exited"
    /\ LogNext
    /\ UNCHANGED <<supervisionVars, commands, history>>

Next ==
    \/ Boot
    \/ Command
    \/ \E u \in Units : Add(u)
    \/ Reply
    \/ TellToStop
    \/ Sweeping
    \/ ExitDaemon
    \/ World
    \/ Log

Spec == Init /\ [][Next]_lifeVars

-----------------------------------------------------------------------------
(* Fairness: every thread of the daemon keeps running, but a log thread may *)
(* end at any line.  Of a server process no more is assumed than the sweep  *)
(* relies on: it does not hang, so it loads, runs, refuses or crashes in    *)
(* the end, and once told to stop on its stdin it goes down and ends.       *)

OfLife(A) == A /\ UNCHANGED <<supervisionVars, commands, history>>

DaemonFairness ==
    /\ WF_lifeVars(Boot \/ Reply \/ TellToStop \/ Sweeping \/ ExitDaemon)
    /\ \A p \in Pids : WF_lifeVars(pc # "exited" /\ OfLife(ReadLine(p) \/ RaiseEvent(p)))

ProcessFairness ==
    \A p \in Pids :
        WF_lifeVars(OfLife(\/ Load(p) \/ Run(p) \/ Refuse(p) \/ CloseDown(p)
                           \/ p \in asked /\ BeginStop(p)
                           \/ phase[p] # "running" /\ Exit(p)))

FairSpec == Spec /\ DaemonFairness /\ ProcessFairness

-----------------------------------------------------------------------------
(* Properties.                                                             *)

\* A live process that nobody told to stop, that has not closed down and whose
\* unit was not added anew is the one its unit's handle points to: start, stop
\* and the sweep never lose a server that still serves, and so a unit never has
\* two of them.
Serving(p) == Alive(p) /\ phase[p] # "closed" /\ p \notin asked \cup replaced
NoOrphan ==
    \A p \in Pids :
        Serving(p) => unit[p] \in DOMAIN servers /\ servers[unit[p]].process = p

\* What the log thread has written is never ahead of the process: "Running" is
\* not reported of a live server that is still loading, "Down" not of one that
\* has not begun to close.
StatusNotAhead ==
    \A p \in Pids :
        Alive(p) =>
            CASE outputState[p] = "Started"  -> phase[p] \in {"running", "stopping", "closed"}
              [] outputState[p] = "Stopping" -> phase[p] \in {"stopping", "closed"}
              [] outputState[p] = "Stopped"  -> phase[p] = "closed"
              [] outputState[p] = "Errored"  -> phase[p] = "refusing"
              [] OTHER                       -> TRUE

\* Whoever is told of a state by an event and then asks for the status never
\* sees an earlier one: the state was written before the event was raised.
EventImpliesStatus ==
    \A i \in 1 .. Len(eventQueue) :
        LET e == eventQueue[i].event
        IN outputState[e.body] \in Reached[e.type]

\* A server the sweep told to stop has ended by the time the sweep is over, and
\* so before the clients are told that the daemon stopped.
SweptAreGone ==
    \A p \in swept : ~Alive(p) \/ (pc = "wait" /\ child = p)

\* "The server is not running (stopped)" (lib.rs, line 83, of Down); units that were
\* added anew over a running process are left out.
DownMeansGone ==
    \A u \in DOMAIN servers :
        Status(u) = "Down" => \A p \in Pids \ replaced : Alive(p) => unit[p] # u

\* "Once a server has reached the state Errored it cannot change to another state
\* by log output" (daemon/mod.rs, line 52).
ErroredIsFinal ==
    [][\A p \in Pids : outputState[p] = "Errored" => outputState'[p] = "Errored"]_lifeVars

\* "Stop the daemon gracefully" (daemon/mod.rs, line 98): the daemon thread does not
\* panic in the sweep, whatever has become of the servers.
StopsGracefully == ~(sweeping /\ pc = "panicked")
=============================================================================
