--------------------------- MODULE ServerProcess ---------------------------
(***************************************************************************)
(* A server's operating-system process (external: a JVM running Paper) and *)
(* the log thread that reads its output (src/daemon/basic_log.rs).         *)
(*                                                                         *)
(* The process is modelled from what the daemon relies on: it prints the   *)
(* lines the log handler looks for, takes commands from its stdin once it  *)
(* is running, and ends.  The handler reads a line, writes the state the   *)
(* daemon thread reads under the lock, and only then raises the event:     *)
(* these are two steps, and anybody may look in between.  It ends with the *)
(* first line it cannot read or write to its own log file, whatever the    *)
(* process does then; the state stays as it was written last.              *)
(*                                                                         *)
(* A process is named by a number; the events it causes carry that number  *)
(* as their body.                                                          *)
(***************************************************************************)
EXTENDS Queues

\* The lines the handler recognises.
Line == {"Loading", "Done", "Stopping", "Closing", "Eula"}

\* What the log thread is at when it is no more.
Ended == "ended"

CONSTANTS
    Pids,       \* bound: processes that can be spawned
    Echoes,     \* bound: phrases of the log a message or a chat line may contain
    MaxEchoes,  \* bound: how many such lines are printed
    Unreadable  \* bound: processes of whose output a line may be the last one read

ASSUME ProcessAssumption ==
    /\ Pids \subseteq Bodies \cap Nat
    /\ None \notin Pids
    /\ None # Ended
    /\ Echoes \subseteq Line \ {"Loading"}
    /\ MaxEchoes \in Nat
    /\ Unreadable \subseteq Pids

VARIABLES
    unit,           \* the unit each process was spawned for
    phase,          \* what the process is doing
    success,        \* ExitStatus::success() of the processes that have exited
    asked,          \* processes that got "stop" on their stdin
    pipe,           \* lines printed and not yet read by the log thread
    outputState,    \* the OutputState the log thread has written
    raising,        \* the event the log thread is about to raise, None, or Ended
    echoes          \* number of lines echoed

processVars == <<unit, phase, success, asked, pipe, outputState, raising, echoes>>

-----------------------------------------------------------------------------
(* What the handler writes and what it raises for a line.                  *)

\* Mutant: the first word of the end is taken for the end.
StateOfStoppedEarlyMutant ==
    [Loading |-> "Starting", Done |-> "Started", Stopping |-> "Stopped",
     Closing |-> "Stopped", Eula |-> "Errored"]

StateOf == [Loading |-> "Starting", Done |-> "Started", Stopping |-> "Stopping",
            Closing |-> "Stopped", Eula |-> "Errored"]
EventOf == [Loading |-> "ServerStarting", Done |-> "ServerStarted",
            Stopping |-> "ServerStopping", Closing |-> "ServerStopped",
            Eula |-> "ServerFailed"]

\* What it may have written by the time it raises the event, and after.
Reached == [ServerStarting |-> {"Starting", "Started", "Errored", "Stopping", "Stopped"},
            ServerStarted |-> {"Started", "Stopping", "Stopped"},
            ServerStopping |-> {"Stopping", "Stopped"},
            ServerStopped |-> {"Stopped"},
            ServerFailed |-> {"Errored"}]

OutputState == {"Unknown", "Starting", "Started", "Errored", "Stopping", "Stopped"}
Phase == {"unborn", "booting", "loading", "running", "stopping", "closed",
          "refusing", "exited"}

ProcessTypeOK ==
    /\ unit \in [Pids -> Units \cup {None}]
    /\ phase \in [Pids -> Phase]
    /\ success \in [Pids -> BOOLEAN]
    /\ asked \subseteq Pids
    /\ pipe \in [Pids -> Seq(Line)]
    /\ outputState \in [Pids -> OutputState]
    /\ raising \in [Pids -> ServerEventType \cup {None, Ended}]
    /\ echoes \in 0 .. MaxEchoes

ProcessInit ==
    /\ unit = [p \in Pids |-> None]
    /\ phase = [p \in Pids |-> "unborn"]
    /\ success = [p \in Pids |-> FALSE]
    /\ asked = {}
    /\ pipe = [p \in Pids |-> <<>>]
    /\ outputState = [p \in Pids |-> "Unknown"]
    /\ raising = [p \in Pids |-> None]
    /\ echoes = 0

Alive(p) == phase[p] \notin {"unborn", "exited"}

-----------------------------------------------------------------------------
(* The process.                                                            *)

\* The process prints a line the handler recognises and goes on to a phase.
Prints(p, from, line, to) ==
    /\ phase[p] = from
    /\ phase' = [phase EXCEPT ![p] = to]
    /\ pipe' = [pipe EXCEPT ![p] = Append(@, line)]
    /\ UNCHANGED <<unit, success, asked, outputState, raising, eventQueue, queue>>

Load(p) == Prints(p, "booting", "Loading", "loading") /\ UNCHANGED echoes
Run(p) == Prints(p, "loading", "Done", "running") /\ UNCHANGED echoes

\* Without an accepted eula the server says so and gives up.
Refuse(p) == Prints(p, "loading", "Eula", "refusing") /\ UNCHANGED echoes

\* The console's "stop", or an operator's within the game.
BeginStop(p) == Prints(p, "running", "Stopping", "stopping") /\ UNCHANGED echoes
CloseDown(p) == Prints(p, "stopping", "Closing", "closed") /\ UNCHANGED echoes

\* A chat line or an echoed message holds one of the handler's phrases, which it
\* looks for anywhere in a line (all but "Loading libraries").
Echo(p, line) ==
    /\ echoes < MaxEchoes
    /\ echoes' = echoes + 1
    /\ Prints(p, "running", line, "running")

\* A closed or refusing process ends well; any other process that ends crashed.
Exit(p) ==
    /\ Alive(p)
    /\ phase' = [phase EXCEPT ![p] = "exited"]
    /\ success' = [success EXCEPT ![p] = phase[p] \in {"closed", "refusing"}]
    /\ UNCHANGED <<unit, asked, pipe, outputState, raising, echoes, eventQueue, queue>>

-----------------------------------------------------------------------------
(* The log thread of a process.                                            *)

\* Mutant: the event is raised and the state is left to be written later.
ReadLineRaiseFirstMutant(p) ==
    /\ raising[p] = None
    /\ pipe[p] # <<>>
    /\ eventQueue' = Append(eventQueue,
           DispatchCmd([type |-> EventOf[Head(pipe[p])], server_id |-> unit[p],
                        body |-> p]))
    /\ pipe' = [pipe EXCEPT ![p] = Tail(@)]
    /\ UNCHANGED <<unit, phase, success, asked, outputState, raising, echoes, queue>>

\* One iteration of the loop up to the write of the state.
ReadLine(p) ==
    /\ raising[p] = None
    /\ pipe[p] # <<>>
    /\ outputState' = [outputState EXCEPT ![p] = StateOf[Head(pipe[p])]]
    /\ raising' = [raising EXCEPT ![p] = EventOf[Head(pipe[p])]]
    /\ pipe' = [pipe EXCEPT ![p] = Tail(@)]
    /\ UNCHANGED <<unit, phase, success, asked, echoes, eventQueue, queue>>

\* event_handler.raise_event of the same iteration.
RaiseEvent(p) ==
    /\ raising[p] \notin {None, Ended}
    /\ eventQueue' = Append(eventQueue,
           DispatchCmd([type |-> raising[p], server_id |-> unit[p], body |-> p]))
    /\ raising' = [raising EXCEPT ![p] = None]
    /\ UNCHANGED <<unit, phase, success, asked, pipe, outputState, echoes, queue>>

\* The loop is left on a line that cannot be read (one that is no UTF-8 is enough)
\* and at the end of the output; the thread panics on a log file that cannot be
\* created or written.
LogEnded(p) == raising[p] = Ended
EndLog(p) ==
    /\ p \in Unreadable
    /\ phase[p] # "unborn"
    /\ raising[p] = None
    /\ raising' = [raising EXCEPT ![p] = Ended]
    /\ UNCHANGED <<unit, phase, success, asked, pipe, outputState, echoes, eventQueue,
                   queue>>

\* Of the operating system, and of the daemon's log threads.
ProcessNext ==
    \E p \in Pids :
        \/ Load(p) \/ Run(p) \/ Refuse(p) \/ BeginStop(p) \/ CloseDown(p) \/ Exit(p)
        \/ \E line \in Echoes : Echo(p, line)
LogNext == \E p \in Pids : ReadLine(p) \/ RaiseEvent(p) \/ EndLog(p)
=============================================================================
