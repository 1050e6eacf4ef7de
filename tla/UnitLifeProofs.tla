--------------------------- MODULE UnitLifeProofs ---------------------------
(***************************************************************************)
(* What UnitLife's run checks of two processes, proved for any number of   *)
(* units, processes and commands: the types, that the status is never      *)
(* ahead of the server and never behind an event that was heard, that no   *)
(* serving process is lost and that the sweep leaves none behind that it   *)
(* has told to stop.                                                       *)
(*                                                                         *)
(* Three strengthenings carry the proofs.  SlotsInv says what a unit's     *)
(* entry and the daemon thread's position know of a process, LogInv (of    *)
(* SupervisionProofs) how far a process is when one of its lines is in the *)
(* pipe, is written to its state or is about to be an event, and ListInv   *)
(* that autostart has not come to the names still on its list.             *)
(***************************************************************************)
EXTENDS UnitLife, SupervisionProofs

\* Before a process is spawned nothing is known of it.
UnbornInv ==
    \A p \in Pids :
        /\ phase[p] = "unborn" =>
              /\ pipe[p] = <<>>
              /\ raising[p] = None
              /\ outputState[p] = "Unknown"
              /\ p \notin asked \cup replaced \cup swept
        /\ phase[p] # "unborn" => unit[p] \in Units

\* A unit's handle, status and stdin are of one process, spawned for that unit,
\* until stop() takes the handle; the daemon thread only stops what it has a
\* handle to.
SlotsInv ==
    /\ \A u \in DOMAIN servers :
          LET s == servers[u] IN
          /\ s.process # None => s.status = s.process /\ s.input = s.process
          /\ s.process # None => phase[s.process] # "unborn" /\ unit[s.process] = u
          /\ s.input # None => phase[s.input] # "unborn"
    /\ left \subseteq DOMAIN servers
    /\ pc \in {"write", "starting"} =>
          target \in DOMAIN servers /\ servers[target].process # None
    /\ pc = "wait" => child \in Pids

LifeInv == TypeOK /\ UnbornInv /\ SlotsInv

(***************************************************************************)
(* The kinds of steps.                                                     *)
(***************************************************************************)

\* A unit that has a status other than Down has a handle.
LEMMA HandleOfStatus ==
    ASSUME NEW u \in DOMAIN servers, Status(u) # "Down"
    PROVE  servers[u].process # None
  BY DEF Status

\* Autostart or a Start command spawns a process.
Spawns ==
    \E u \in DOMAIN servers :
        \/ /\ pc = "autostart" /\ autostart # <<>>
           /\ u = Head(autostart) /\ autostart' = Tail(autostart)
           /\ Spawn(u, "autostart")
        \/ /\ pc = "recv" /\ Status(u) = "Down" /\ autostart' = autostart
           /\ Spawn(u, "reply")

\* The daemon thread does something, or ends, and no process is concerned.
Thinks ==
    /\ UNCHANGED <<servers, processVars>>
    /\ \/ autostart' = autostart
       \/ autostart # <<>> /\ autostart' = Tail(autostart)
    /\ pc' = "autostart" => pc = "autostart"
    /\ pc = "wait" => phase[child] = "exited" \/ (pc' = "wait" /\ child' = child)

\* A line is written to the stdin of a unit's process.
Writes ==
    /\ pc = "recv" /\ pc' = "reply"
    /\ \E u \in DOMAIN servers :
          \/ asked' = asked
          \/ servers[u].input # None /\ asked' = asked \cup {servers[u].input}
    /\ UNCHANGED <<servers, autostart, unit, phase, success, pipe, outputState, raising>>

\* stop() tells the process of a unit to stop and takes its handle.
Tells ==
    LET s == servers[target] IN
    /\ pc = "write"
    /\ asked' = asked \cup {s.input}
    /\ servers' = [servers EXCEPT ![target].process = None]
    /\ IF sweeping THEN pc' = "wait" /\ child' = s.process /\ swept' = swept \cup {s.process}
                   ELSE pc' = "reply" /\ swept' = swept
    /\ UNCHANGED <<autostart, replaced, unit, phase, success, pipe, outputState, raising,
                   eventQueue>>

Outside == UNCHANGED <<supervisionVars, history>>

LEMMA CommandKinds ==
    ASSUME LifeInv, Command
    PROVE  (Spawns \/ Thinks \/ Writes) /\ UNCHANGED <<eventQueue, history>>
<1>1. pc = "recv"
  BY DEF Command
<1>2. CASE BeginSweep
  BY <1>1, <1>2 DEF Command, BeginSweep, Thinks
<1>3. ASSUME NEW u \in DOMAIN servers, StartUnit(u)
      PROVE  (Spawns \/ Thinks) /\ UNCHANGED eventQueue
  BY <1>1, <1>3 DEF StartUnit, Spawns, Thinks, Panic, Dies
<1>4. ASSUME NEW u \in DOMAIN servers, StopUnit(u)
      PROVE  Thinks /\ UNCHANGED eventQueue
  BY <1>1, <1>4 DEF StopUnit, Thinks
<1>5. ASSUME NEW u \in DOMAIN servers, NEW isStop \in BOOLEAN, SendCommand(u, isStop)
      PROVE  (Writes \/ Thinks) /\ UNCHANGED eventQueue
  <2>1. CASE Panic
    BY <1>1, <1>5, <2>1 DEF SendCommand, Panic, Dies, Thinks
  <2>2. CASE ~Panic
    <3>1. /\ WriteInput(u, isStop)
          /\ pc' = "reply"
          /\ UNCHANGED <<servers, autostart, unit, phase, success, pipe, outputState,
                         raising, eventQueue>>
      BY <1>5, <2>2 DEF SendCommand
    <3>2. \/ asked' = asked
          \/ servers[u].input # None /\ asked' = asked \cup {servers[u].input}
      BY <3>1 DEF WriteInput
    <3> QED BY <1>1, <3>1, <3>2 DEF Writes
  <2> QED BY <2>1, <2>2
<1> QED BY <1>2, <1>3, <1>4, <1>5 DEF Command, BeginSweep

LEMMA TellKinds ==
    ASSUME LifeInv, TellToStop
    PROVE  Tells \/ (Thinks /\ UNCHANGED <<eventQueue, history>>)
<1>1. pc = "write" /\ target \in DOMAIN servers /\ servers[target].process # None
  BY DEF TellToStop, WriteStop, LifeInv, SlotsInv
<1>2. servers[target].input # None
  <2>1. servers[target].input = servers[target].process
    BY <1>1 DEF LifeInv, SlotsInv
  <2> QED BY <1>1, <2>1
<1>3. CASE Panic
  BY <1>1, <1>3 DEF TellToStop, WriteStop, Panic, Dies, Thinks, history
<1>4. CASE ~Panic
  BY <1>1, <1>2, <1>4 DEF TellToStop, WriteStop, WriteInput, Tells
<1> QED BY <1>3, <1>4

LEMMA Kinds ==
    ASSUME LifeInv, [Next]_lifeVars
    PROVE  \/ (Spawns \/ Thinks \/ Writes) /\ UNCHANGED <<eventQueue, history>>
           \/ \E u \in Units : Add(u)
           \/ Tells
           \/ \E p \in Pids :
                (PrintsRow(p) \/ Exit(p) \/ ReadLine(p) \/ RaiseEvent(p) \/ EndLog(p)) /\ Outside
<1> USE DEF history
<1>1. CASE UNCHANGED lifeVars
  BY <1>1 DEF lifeVars, supervisionVars, Thinks
<1>2. CASE Boot
  <2>1. CASE StartThread
    BY <1>2, <2>1 DEF Boot, StartThread, Thinks
  <2>2. CASE Autostart
    BY <1>2, <2>2 DEF Boot, Autostart, Spawns, Thinks, Dies
  <2> QED BY <1>2, <2>1, <2>2 DEF Boot
<1>3. CASE Command
  BY <1>3, CommandKinds
<1>4. CASE Reply
  BY <1>4 DEF Reply, Thinks
<1>5. CASE TellToStop
  BY <1>5, TellKinds
<1>6. CASE Sweeping
  BY <1>6 DEF Sweeping, Sweep, Visit, HasStarted, Wait, EndSweep, Thinks
<1>7. CASE ExitDaemon
  BY <1>7 DEF ExitDaemon, Thinks
<1>8. CASE World
  BY <1>8, WorldKinds DEF World, ProcessNext, Outside
<1>9. CASE Log
  BY <1>9 DEF Log, LogNext, Outside
<1> QED BY <1>1, <1>2, <1>3, <1>4, <1>5, <1>6, <1>7, <1>8, <1>9 DEF Next

(***************************************************************************)
(* Types.                                                                  *)
(***************************************************************************)

LEMMA TypesInit == Init => LifeInv
<1> SUFFICES ASSUME Init PROVE LifeInv
  OBVIOUS
<1>1. PICK list \in AutostartLists : SupervisionInit(Known, list)
  BY DEF Init
<1>2. UnitTypes
  BY <1>1, InitTypes, LifeAssumption DEF Init, LifeAssumption
<1>3. TypeOK
  BY <1>2, LifeAssumption DEF Init, TypeOK, UnitTypes, LifeAssumption
<1>4. UnbornInv
  BY DEF Init, ProcessInit, UnbornInv
<1>5. SlotsInv
  BY <1>1 DEF SupervisionInit, NotStarted, SlotsInv
<1> QED BY <1>3, <1>4, <1>5 DEF LifeInv

LEMMA UnitTypesStep ==
    ASSUME LifeInv, [Next]_lifeVars
    PROVE  UnitTypes'
<1>0. UnitTypes
  BY DEF LifeInv, TypeOK, UnitTypes
<1>1. CASE UNCHANGED lifeVars
  BY <1>0, <1>1 DEF lifeVars, supervisionVars, processVars, UnitTypes, ProcessTypeOK,
                    SupervisionTypeOK
<1>2. CASE Boot
  BY <1>0, <1>2, AutostartTypes, StartThreadTypes DEF Boot
<1>3. CASE Command
  BY <1>0, <1>3, StartUnitTypes, StopUnitTypes, SendCommandTypes, BeginSweepTypes DEF Command
<1>4. ASSUME NEW u \in Units, Add(u)
      PROVE  UnitTypes'
  BY <1>0, <1>4, AddServerUnitTypes DEF Add
<1>5. CASE Reply
  BY <1>0, <1>5 DEF Reply, UnitTypes, ProcessTypeOK, SupervisionTypeOK, processVars
<1>6. CASE TellToStop
  BY <1>0, <1>6, WriteStopTypes DEF TellToStop, WriteStop, LifeInv, SlotsInv
<1>7. CASE Sweeping
  BY <1>0, <1>7, SweepTypes DEF Sweeping
<1>8. CASE ExitDaemon
  BY <1>0, <1>8 DEF ExitDaemon, UnitTypes, ProcessTypeOK, SupervisionTypeOK, processVars
<1>9. CASE World \/ Log
  <2>1. ProcessTypeOK'
    BY <1>0, <1>9, ProcessNextTypes, ReadLineTypes, RaiseEventTypes, EndLogTypes
       DEF World, Log, LogNext, UnitTypes
  <2>2. SupervisionTypeOK'
    BY <1>0, <1>9 DEF World, Log, supervisionVars, UnitTypes, SupervisionTypeOK
  <2> QED BY <2>1, <2>2 DEF UnitTypes
<1> QED BY <1>1, <1>2, <1>3, <1>4, <1>5, <1>6, <1>7, <1>8, <1>9 DEF Next

LEMMA UnbornStep ==
    ASSUME LifeInv, [Next]_lifeVars
    PROVE  UnbornInv'
<1> USE DEF LifeInv, UnbornInv, TypeOK, SupervisionTypeOK, ProcessTypeOK, history
<1>1. CASE Spawns /\ UNCHANGED <<eventQueue, history>>
  <2>1. PICK u \in DOMAIN servers, p \in Unborn :
            /\ phase' = [phase EXCEPT ![p] = "booting"]
            /\ unit' = [unit EXCEPT ![p] = u]
            /\ UNCHANGED <<asked, pipe, outputState, raising>>
    BY <1>1 DEF Spawns, Spawn
  <2> QED BY <1>1, <2>1 DEF Unborn
<1>2. CASE Thinks /\ UNCHANGED <<eventQueue, history>>
  BY <1>2 DEF Thinks, processVars
<1>3. CASE Writes /\ UNCHANGED <<eventQueue, history>>
  <2>1. \A u \in DOMAIN servers : servers[u].input # None => phase[servers[u].input] # "unborn"
    BY DEF SlotsInv
  <2> QED BY <1>3, <2>1 DEF Writes
<1>4. ASSUME NEW u \in Units, Add(u)
      PROVE  UnbornInv'
  <2>1. \A v \in DOMAIN servers :
            servers[v].process # None => phase[servers[v].process] # "unborn"
    BY DEF SlotsInv
  <2> QED BY <1>4, <2>1, NoneAssumption, ProcessAssumption
          DEF Add, AddServerUnit, processVars, ProcessAssumption
<1>5. CASE Tells
  <2>1. target \in DOMAIN servers /\ servers[target].process # None
    BY <1>5 DEF Tells, SlotsInv
  <2>2. servers[target].input = servers[target].process
        /\ phase[servers[target].process] # "unborn"
    BY <2>1 DEF SlotsInv
  <2> QED BY <1>5, <2>1, <2>2 DEF Tells
<1>6. ASSUME NEW p \in Pids,
             (PrintsRow(p) \/ Exit(p) \/ ReadLine(p) \/ RaiseEvent(p) \/ EndLog(p)) /\ Outside
      PROVE  UnbornInv'
  <2>1. CASE PrintsRow(p)
    <3>1. PICK from, to \in Phase, line \in Line :
                 Row(from, line, to) /\ Prints(p, from, line, to)
      BY <2>1 DEF PrintsRow
    <3>2. from # "unborn" /\ to # "unborn"
      BY <3>1 DEF Row
    <3> QED BY <1>6, <3>1, <3>2 DEF Prints, Outside
  <2>2. CASE Exit(p)
    BY <1>6, <2>2 DEF Exit, Alive, Outside
  <2>3. CASE ReadLine(p)
    BY <1>6, <2>3 DEF ReadLine, Outside
  <2>4. CASE RaiseEvent(p)
    BY <1>6, <2>4 DEF RaiseEvent, Outside
  <2>5. CASE EndLog(p)
    BY <1>6, <2>5 DEF EndLog, Outside
  <2> QED BY <1>6, <2>1, <2>2, <2>3, <2>4, <2>5
<1> QED BY Kinds, <1>1, <1>2, <1>3, <1>4, <1>5, <1>6

\* What the daemon thread does to a unit's entry, its handle and its position.
LEMMA SlotsStep ==
    ASSUME LifeInv, [Next]_lifeVars
    PROVE  SlotsInv'
<1> USE DEF LifeInv, TypeOK, SupervisionTypeOK, SlotsInv
<1>0. \A u \in DOMAIN servers : Status(u) # "Down" => servers[u].process # None
  BY HandleOfStatus
<1>1. ASSUME UNCHANGED <<servers, unit>>,
             \A p \in Pids : phase[p] # "unborn" => phase'[p] # "unborn",
             left' \subseteq DOMAIN servers,
             pc' \in {"write", "starting"} =>
                 target' \in DOMAIN servers /\ servers[target'].process # None,
             pc' = "wait" => child' \in Pids
      PROVE  SlotsInv'
  BY <1>1 DEF DaemonServer
<1>2. ASSUME UNCHANGED <<servers, unit, phase>>,
             left' \subseteq DOMAIN servers,
             pc' \notin {"write", "starting", "wait"}
      PROVE  SlotsInv'
  BY <1>1, <1>2
<1>3. ASSUME NEW u \in DOMAIN servers, NEW next \in {"autostart", "reply"}, Spawn(u, next)
      PROVE  SlotsInv'
  <2>1. PICK p \in Unborn :
            /\ phase' = [phase EXCEPT ![p] = "booting"]
            /\ unit' = [unit EXCEPT ![p] = u]
            /\ servers' = [servers EXCEPT ![u] = [process |-> p, status |-> p, input |-> p]]
            /\ pc' = next
            /\ UNCHANGED left
    BY <1>3 DEF Spawn
  <2>2. p \in Pids /\ phase[p] = "unborn"
    BY DEF Unborn
  <2>3. /\ servers'[u] = [process |-> p, status |-> p, input |-> p]
        /\ phase'[p] # "unborn" /\ unit'[p] = u
        /\ DOMAIN servers' = DOMAIN servers
    BY <2>1, <2>2 DEF ProcessTypeOK
  <2>4. ASSUME NEW v \in DOMAIN servers, v # u
        PROVE  LET s == servers'[v] IN
               /\ s.process # None => s.status = s.process /\ s.input = s.process
               /\ s.process # None => phase'[s.process] # "unborn" /\ unit'[s.process] = v
               /\ s.input # None => phase'[s.input] # "unborn"
    <3>1. servers'[v] = servers[v] /\ servers[v] \in DaemonServer
      BY <2>1, <2>4
    <3>2. \A q \in Pids : q # p => phase'[q] = phase[q] /\ unit'[q] = unit[q]
      BY <2>1 DEF ProcessTypeOK
    <3> QED BY <2>2, <2>4, <3>1, <3>2 DEF DaemonServer
  <2> QED BY <2>1, <2>3, <2>4
<1>4. CASE UNCHANGED lifeVars
  BY <1>1, <1>4 DEF lifeVars, supervisionVars, processVars
<1>5. CASE Boot
  <2>1. CASE StartThread
    BY <1>2, <2>1 DEF StartThread, processVars
  <2>2. CASE Autostart
    BY <1>2, <1>3, <2>2 DEF Autostart, Dies, processVars
  <2> QED BY <1>5, <2>1, <2>2 DEF Boot
<1>6. CASE Command
  <2>1. CASE BeginSweep
    BY <1>2, <2>1 DEF BeginSweep, processVars
  <2>2. ASSUME NEW u \in DOMAIN servers, StartUnit(u)
        PROVE  SlotsInv'
    BY <1>2, <1>3, <2>2 DEF StartUnit, Panic, Dies, processVars
  <2>3. ASSUME NEW u \in DOMAIN servers, StopUnit(u)
        PROVE  SlotsInv'
    BY <1>0, <1>1, <2>3 DEF StopUnit, processVars
  <2>4. ASSUME NEW u \in DOMAIN servers, NEW isStop \in BOOLEAN, SendCommand(u, isStop)
        PROVE  SlotsInv'
    BY <1>2, <2>4 DEF SendCommand, Panic, Dies, processVars
  <2> QED BY <1>6, <2>1, <2>2, <2>3, <2>4 DEF Command
<1>7. ASSUME NEW u \in Units, Add(u)
      PROVE  SlotsInv'
  <2>1. /\ servers' = [v \in DOMAIN servers \cup {u} |->
                          IF v = u THEN NotStarted ELSE servers[v]]
        /\ UNCHANGED <<left, phase, unit>>
        /\ pc' = "recv"
    BY <1>7 DEF Add, AddServerUnit, processVars
  <2> QED BY <2>1 DEF NotStarted
<1>8. CASE Reply
  BY <1>2, <1>8 DEF Reply, processVars
<1>9. CASE TellToStop
  <2>1. CASE Panic
    BY <1>2, <2>1 DEF Panic, Dies, processVars
  <2>2. CASE ~Panic
    <3>1. /\ pc = "write"
          /\ servers' = [servers EXCEPT ![target].process = None]
          /\ child' = IF sweeping THEN servers[target].process ELSE None
          /\ pc' = IF sweeping THEN "wait" ELSE "reply"
          /\ UNCHANGED <<left, phase, unit>>
      BY <1>9, <2>2 DEF TellToStop, WriteStop
    <3>2. target \in DOMAIN servers /\ servers[target].process \in Pids
      BY <3>1 DEF DaemonServer
    <3>3. servers[target] \in DaemonServer
      BY <3>2
    <3>4. /\ servers'[target].process = None
          /\ servers'[target].input = servers[target].input
          /\ DOMAIN servers' = DOMAIN servers
          /\ \A v \in DOMAIN servers : v # target => servers'[v] = servers[v]
      BY <3>1, <3>2, <3>3 DEF DaemonServer
    <3>5. pc' = "wait" => child' \in Pids
      BY <3>1, <3>2
    <3> QED BY <3>1, <3>2, <3>4, <3>5
  <2> QED BY <2>1, <2>2
<1>10. CASE Sweeping
  <2>1. ASSUME NEW u \in left, Visit(u)
        PROVE  SlotsInv'
    BY <1>0, <1>1, <2>1 DEF Visit, processVars
  <2>2. CASE HasStarted
    BY <1>1, <2>2 DEF HasStarted, processVars
  <2>3. CASE Wait
    BY <1>2, <2>3 DEF Wait, processVars
  <2>4. CASE EndSweep
    BY <1>2, <2>4 DEF EndSweep, processVars
  <2> QED BY <1>10, <2>1, <2>2, <2>3, <2>4 DEF Sweeping, Sweep
<1>11. CASE ExitDaemon
  BY <1>2, <1>11 DEF ExitDaemon, processVars
<1>12. CASE World \/ Log
  <2>1. UNCHANGED <<servers, left, pc, target, child>>
    BY <1>12 DEF World, Log, supervisionVars
  <2>2. PICK p \in Pids :
           PrintsRow(p) \/ Exit(p) \/ ReadLine(p) \/ RaiseEvent(p) \/ EndLog(p)
    BY <1>12, WorldKinds DEF World, ProcessNext, Log, LogNext
  <2>3. CASE PrintsRow(p)
    <3>1. PICK from, to \in Phase, line \in Line :
                 Row(from, line, to) /\ Prints(p, from, line, to)
      BY <2>3 DEF PrintsRow
    <3>2. to # "unborn"
      BY <3>1 DEF Row
    <3>3. UNCHANGED unit /\ \A q \in Pids : phase[q] # "unborn" => phase'[q] # "unborn"
      BY <3>1, <3>2 DEF Prints, ProcessTypeOK
    <3> QED BY <1>1, <2>1, <3>3
  <2>4. CASE Exit(p)
    <3>1. UNCHANGED unit /\ \A q \in Pids : phase[q] # "unborn" => phase'[q] # "unborn"
      BY <2>4 DEF Exit, ProcessTypeOK
    <3> QED BY <1>1, <2>1, <3>1
  <2>5. CASE ReadLine(p) \/ RaiseEvent(p) \/ EndLog(p)
    BY <1>1, <2>1, <2>5 DEF ReadLine, RaiseEvent, EndLog
  <2> QED BY <2>2, <2>3, <2>4, <2>5
<1> QED
  BY <1>4, <1>5, <1>6, <1>7, <1>8, <1>9, <1>10, <1>11, <1>12 DEF Next

\* The event that a log thread raises is a command of the event manager.
LEMMA RaisedType ==
    ASSUME LifeInv, NEW p \in Pids, raising[p] \notin {None, Ended}
    PROVE  DispatchCmd([type |-> raising[p], server_id |-> unit[p], body |-> p])
               \in EventManagerCmd
<1>1. raising[p] \in ServerEventType /\ unit[p] \in Units
  BY DEF LifeInv, TypeOK, ProcessTypeOK, UnbornInv
<1>2. p \in Bodies
  BY ProcessAssumption DEF ProcessAssumption
<1> QED BY <1>1, <1>2 DEF DispatchCmd, EventManagerCmd, ServerEvent

\* The counters, the queues and the history.
LEMMA QueuesStep ==
    ASSUME LifeInv, [Next]_lifeVars
    PROVE  /\ eventQueue' \in Seq(EventManagerCmd)
           /\ queue' \in Seq({DaemonStopped})
           /\ commands' \in 0 .. MaxCommands
           /\ replaced' \subseteq Pids
           /\ swept' \subseteq Pids
<1> USE DEF LifeInv, TypeOK, history
<1>1. eventQueue' \in Seq(EventManagerCmd)
  <2>1. ASSUME NEW p \in Pids, RaiseEvent(p)
        PROVE  eventQueue' \in Seq(EventManagerCmd)
    BY <2>1, RaisedType DEF RaiseEvent
  <2> QED
    BY Kinds, <2>1 DEF Add, AddServerUnit, Tells, PrintsRow, Prints, Exit, ReadLine, EndLog
<1>2. replaced' \subseteq Pids /\ swept' \subseteq Pids
  <2>1. CASE Tells
    <3>1. sweeping => servers[target].process \in Pids
      BY <2>1 DEF Tells, SlotsInv, SupervisionTypeOK, DaemonServer
    <3> QED BY <2>1, <3>1 DEF Tells
  <2> QED BY Kinds, <2>1 DEF Add, Outside
<1>3. commands' \in 0 .. MaxCommands
  BY LifeAssumption
     DEF Next, Boot, Command, Add, Reply, TellToStop, Sweeping, ExitDaemon, World, Log,
         lifeVars, LifeAssumption
<1>4. queue' \in Seq({DaemonStopped})
  <2>1. CASE Sweeping
    BY <2>1 DEF Sweeping, Sweep, Visit, HasStarted, Wait, EndSweep
  <2>2. CASE World \/ Log
    BY <2>2, WorldKinds
       DEF World, ProcessNext, Log, LogNext, PrintsRow, Prints, Exit, ReadLine, RaiseEvent,
           EndLog
  <2>3. CASE ExitDaemon
    BY <2>3 DEF ExitDaemon
  <2>4. CASE Boot \/ TellToStop
    BY <2>4 DEF Boot, Autostart, StartThread, TellToStop, WriteStop
  <2>5. CASE Command \/ Reply \/ (\E u \in Units : Add(u)) \/ UNCHANGED lifeVars
    BY <2>5 DEF Command, Reply, Add, lifeVars
  <2> QED BY <2>1, <2>2, <2>3, <2>4, <2>5 DEF Next
<1> QED BY <1>1, <1>2, <1>3, <1>4

LEMMA LifeInvStep ==
    ASSUME LifeInv, [Next]_lifeVars
    PROVE  LifeInv'
  BY UnitTypesStep, QueuesStep, UnbornStep, SlotsStep DEF LifeInv, TypeOK, UnitTypes

LEMMA LifeInvAlways == Spec => []LifeInv
<1>1. Init => LifeInv
  BY TypesInit
<1>2. LifeInv /\ [Next]_lifeVars => LifeInv'
  BY LifeInvStep
<1> QED BY <1>1, <1>2, PTL DEF Spec

\* Every variable of the daemon's units keeps its type, whatever the commands and
\* the processes do: an event is only raised of a process with a unit, and the
\* sweep only waits for a process it had a handle to.
THEOREM LifeTypeOK == Spec => []TypeOK
<1>1. LifeInv => TypeOK
  BY DEF LifeInv
<1> QED BY <1>1, LifeInvAlways, PTL

(***************************************************************************)
(* The log (see SupervisionProofs) and the events raised from it.          *)
(***************************************************************************)

ToldInv ==
    \A i \in 1 .. Len(eventQueue) :
        LET e == eventQueue[i].event IN e.body \in Pids /\ Heard(e.body, e.type)

LEMMA ToldStays ==
    ASSUME ToldInv, HeardStays, UNCHANGED eventQueue
    PROVE  ToldInv'
  BY DEF ToldInv, HeardStays, Heard

LEMMA ToldRaised ==
    ASSUME LifeInv, LogInv, ToldInv, HeardStays, NEW p \in Pids, RaiseEvent(p)
    PROVE  ToldInv'
<1> USE DEF LifeInv, TypeOK, ProcessTypeOK
<1> DEFINE e == [type |-> raising[p], server_id |-> unit[p], body |-> p]
           n == Len(eventQueue)
<1>1. raising[p] \notin {None, Ended} /\ eventQueue' = Append(eventQueue, DispatchCmd(e))
  BY DEF RaiseEvent
<1>2. Heard(e.body, e.type) /\ e.body \in Pids
  BY <1>1 DEF LogInv
<1>3. /\ n \in Nat /\ Len(eventQueue') = n + 1
      /\ eventQueue'[n + 1].event = e
      /\ \A i \in 1 .. n : eventQueue'[i] = eventQueue[i]
      /\ \A i \in 1 .. n + 1 : i = n + 1 \/ i \in 1 .. n
  BY <1>1 DEF DispatchCmd
<1>4. ASSUME NEW i \in 1 .. n + 1
      PROVE  /\ eventQueue'[i].event.body \in Pids
             /\ Heard(eventQueue'[i].event.body, eventQueue'[i].event.type)
  BY <1>2, <1>3 DEF ToldInv
<1> QED BY <1>3, <1>4 DEF ToldInv, HeardStays, Heard

LEMMA LogInvStep ==
    ASSUME LifeInv, LogInv, ToldInv, Echoes \subseteq {"Done"}, [Next]_lifeVars
    PROVE  LogInv' /\ ToldInv'
<1> USE DEF LifeInv, TypeOK, UnitTypes
<1>1. CASE Spawns /\ UNCHANGED <<eventQueue, history>>
  <2>1. PICK p \in Unborn :
            phase' = [phase EXCEPT ![p] = "booting"] /\ UNCHANGED <<pipe, outputState, raising>>
    BY <1>1 DEF Spawns, Spawn
  <2> QED BY <1>1, <2>1, LogSpawn, ToldStays
<1>2. ASSUME NEW p \in Pids, Exit(p) /\ Outside
      PROVE  LogInv' /\ ToldInv'
  BY <1>2, LogExit, ToldStays DEF Exit
<1>3. CASE (Thinks \/ Writes) /\ UNCHANGED <<eventQueue, history>>
  BY <1>3, LogSame, ToldStays DEF Thinks, Writes, processVars
<1>4. ASSUME NEW u \in Units, Add(u)
      PROVE  LogInv' /\ ToldInv'
  BY <1>4, LogSame, ToldStays DEF Add, AddServerUnit, processVars
<1>5. CASE Tells
  BY <1>5, LogSame, ToldStays DEF Tells
<1>6. ASSUME NEW p \in Pids, PrintsRow(p)
      PROVE  LogInv' /\ ToldInv'
  <2>1. UNCHANGED eventQueue
    BY <1>6 DEF PrintsRow, Prints
  <2> QED BY <1>6, <2>1, LogPrints, ToldStays
<1>7. ASSUME NEW p \in Pids, ReadLine(p)
      PROVE  LogInv' /\ ToldInv'
  BY <1>7, LogReadLine, ToldStays DEF ReadLine
<1>8. ASSUME NEW p \in Pids, RaiseEvent(p)
      PROVE  LogInv' /\ ToldInv'
  BY <1>8, LogRaiseEvent, ToldRaised
<1>9. ASSUME NEW p \in Pids, EndLog(p)
      PROVE  LogInv' /\ ToldInv'
  BY <1>9, LogEndLog, ToldStays DEF EndLog
<1> QED BY Kinds, <1>1, <1>2, <1>3, <1>4, <1>5, <1>6, <1>7, <1>8, <1>9

LEMMA LogInvInit ==
    ASSUME Init
    PROVE  LogInv /\ ToldInv
<1>1. eventQueue = <<>>
  BY DEF Init
<1> QED BY <1>1, LogInit DEF Init, ToldInv

LEMMA LogInvAlways ==
    ASSUME Echoes \subseteq {"Done"}
    PROVE  Spec => [](LifeInv /\ LogInv /\ ToldInv)
<1>1. Init => LifeInv /\ LogInv /\ ToldInv
  BY TypesInit, LogInvInit
<1>2. LifeInv /\ LogInv /\ ToldInv /\ [Next]_lifeVars => (LifeInv /\ LogInv /\ ToldInv)'
  BY LifeInvStep, LogInvStep
<1> QED BY <1>1, <1>2, PTL DEF Spec

LEMMA NotAhead ==
    ASSUME LifeInv, LogInv
    PROVE  StatusNotAhead
<1> SUFFICES ASSUME NEW p \in Pids, Alive(p)
             PROVE  CASE outputState[p] = "Started"  -> phase[p] \in {"running", "stopping", "closed"}
                      [] outputState[p] = "Stopping" -> phase[p] \in {"stopping", "closed"}
                      [] outputState[p] = "Stopped"  -> phase[p] = "closed"
                      [] outputState[p] = "Errored"  -> phase[p] = "refusing"
                      [] OTHER                       -> TRUE
  BY DEF StatusNotAhead
<1>1. {"Done", "Stopping", "Closing", "Eula"} \subseteq Line
  BY DEF Line
<1>2. /\ outputState[p] = "Started" => phase[p] \in Since["ServerStarted"]
      /\ outputState[p] = "Stopping" => phase[p] \in Since["ServerStopping"]
      /\ outputState[p] = "Stopped" => phase[p] \in Since["ServerStopped"]
      /\ outputState[p] = "Errored" => phase[p] \in Since["ServerFailed"]
  BY <1>1 DEF LogInv, Written, StateOf, EventOf
<1> QED BY <1>2 DEF Since, Alive

\* For every number of processes: as long as a chat line only repeats the phrase of
\* a server that has come up, the status that the daemon reports of a live server
\* is none that its process has not reached, although the log thread lags behind.
THEOREM StatusIsNotAhead ==
    ASSUME Echoes \subseteq {"Done"}
    PROVE  Spec => []StatusNotAhead
<1>1. LifeInv /\ LogInv => StatusNotAhead
  BY NotAhead
<1> QED BY <1>1, LogInvAlways, PTL

\* Whoever is told of a state by an event and then asks never sees an earlier one,
\* however many lines, events and processes there are: the log thread writes the
\* state before it raises the event, and lines come in the order of the phases.
THEOREM EventsImplyStatus ==
    ASSUME Echoes \subseteq {"Done"}
    PROVE  Spec => []EventImpliesStatus
<1>1. ToldInv => EventImpliesStatus
  BY DEF ToldInv, Heard, EventImpliesStatus
<1> QED BY <1>1, LogInvAlways, PTL

(***************************************************************************)
(* No serving process is lost.  Autostart does not ask for the status, so  *)
(* its list must not name a unit twice.                                    *)
(***************************************************************************)

Distinct(list) == \A i, j \in 1 .. Len(list) : list[i] = list[j] => i = j

\* Autostart has not come to the units that are still on its list.
ListInv ==
    pc = "autostart" =>
        /\ Distinct(autostart)
        /\ \A i \in 1 .. Len(autostart) :
              autostart[i] \in DOMAIN servers => servers[autostart[i]].process = None

KeepInv == LifeInv /\ LogInv /\ ToldInv /\ ListInv /\ NoOrphan

LEMMA TailDistinct ==
    ASSUME NEW S, NEW list \in Seq(S), list # <<>>, Distinct(list)
    PROVE  /\ Distinct(Tail(list))
           /\ \A i \in 1 .. Len(Tail(list)) :
                 /\ i + 1 \in 1 .. Len(list)
                 /\ Tail(list)[i] = list[i + 1]
                 /\ Tail(list)[i] # Head(list)
<1>1. /\ Len(Tail(list)) = Len(list) - 1 /\ Len(list) \in Nat \ {0}
      /\ Head(list) = list[1]
      /\ \A i \in 1 .. Len(Tail(list)) : Tail(list)[i] = list[i + 1]
  OBVIOUS
<1>2. \A i \in 1 .. Len(Tail(list)) : i \in Nat /\ i + 1 \in 1 .. Len(list) /\ i + 1 # 1
  BY <1>1
<1>3. 1 \in 1 .. Len(list)
  BY <1>1
<1>4. \A i, j \in 1 .. Len(Tail(list)) : i + 1 = j + 1 => i = j
  BY <1>2
<1> QED BY <1>1, <1>2, <1>3, <1>4 DEF Distinct

LEMMA ListStep ==
    ASSUME LifeInv, ListInv, [Next]_lifeVars
    PROVE  ListInv'
<1> USE DEF LifeInv, TypeOK, SupervisionTypeOK, ListInv
<1>1. CASE Spawns /\ UNCHANGED <<eventQueue, history>>
  <2>1. PICK u \in DOMAIN servers :
            \/ /\ pc = "autostart" /\ autostart # <<>>
               /\ u = Head(autostart) /\ autostart' = Tail(autostart)
               /\ Spawn(u, "autostart")
            \/ Spawn(u, "reply")
    BY <1>1 DEF Spawns
  <2>2. CASE Spawn(u, "reply")
    BY <2>2 DEF Spawn
  <2>3. CASE /\ pc = "autostart" /\ autostart # <<>>
             /\ u = Head(autostart) /\ autostart' = Tail(autostart)
             /\ Spawn(u, "autostart")
    <3>1. /\ Distinct(Tail(autostart))
          /\ \A i \in 1 .. Len(Tail(autostart)) :
                /\ i + 1 \in 1 .. Len(autostart)
                /\ Tail(autostart)[i] = autostart[i + 1]
                /\ Tail(autostart)[i] # u
      BY <2>3, TailDistinct
    <3>2. /\ DOMAIN servers' = DOMAIN servers
          /\ \A v \in DOMAIN servers : v # u => servers'[v] = servers[v]
      BY <2>3 DEF Spawn
    <3>3. autostart' = Tail(autostart)
      BY <2>3
    <3>4. Distinct(autostart)'
      BY <3>1, <3>3 DEF Distinct
    <3> QED BY <2>3, <3>1, <3>2, <3>3, <3>4
  <2> QED BY <2>1, <2>2, <2>3
<1>2. CASE Thinks /\ UNCHANGED <<eventQueue, history>>
  <2>1. CASE autostart' = autostart
    BY <1>2, <2>1 DEF Thinks, Distinct
  <2>2. CASE pc = "autostart" /\ autostart # <<>> /\ autostart' = Tail(autostart)
    <3>1. /\ Distinct(Tail(autostart))
          /\ \A i \in 1 .. Len(Tail(autostart)) :
                i + 1 \in 1 .. Len(autostart) /\ Tail(autostart)[i] = autostart[i + 1]
      BY <2>2, TailDistinct
    <3>2. Distinct(autostart)'
      BY <2>2, <3>1 DEF Distinct
    <3> QED BY <1>2, <2>2, <3>1, <3>2 DEF Thinks
  <2> QED BY <1>2, <2>1, <2>2 DEF Thinks
<1>3. CASE Writes \/ Tells
  BY <1>3 DEF Writes, Tells
<1>4. ASSUME NEW u \in Units, Add(u)
      PROVE  ListInv'
  BY <1>4 DEF Add
<1>5. ASSUME NEW p \in Pids, Outside
      PROVE  ListInv'
  BY <1>5 DEF Outside, supervisionVars, Distinct
<1> QED BY Kinds, <1>1, <1>2, <1>3, <1>4, <1>5

\* A unit that is Down, or that autostart comes to, has no serving process.
LEMMA NoneServes ==
    ASSUME KeepInv, NEW u \in DOMAIN servers,
           \/ Status(u) = "Down"
           \/ pc = "autostart" /\ autostart # <<>> /\ u = Head(autostart)
    PROVE  \A q \in Pids : Serving(q) => unit[q] # u
<1> USE DEF KeepInv, LifeInv, TypeOK, SupervisionTypeOK
<1> SUFFICES ASSUME NEW q \in Pids, Serving(q), unit[q] = u
             PROVE  FALSE
  OBVIOUS
<1>1. servers[u].process = q /\ q # None
  BY ProcessAssumption DEF NoOrphan, ProcessAssumption
<1>2. servers[u].status = q
  BY <1>1 DEF SlotsInv
<1>3. phase[q] # "exited" /\ Alive(q)
  BY DEF Serving, Alive
<1>4. CASE pc = "autostart" /\ autostart # <<>> /\ u = Head(autostart)
  <2>1. 1 \in 1 .. Len(autostart) /\ autostart[1] = u
    BY <1>4
  <2> QED BY <1>1, <1>4, <2>1 DEF ListInv
<1>5. CASE Status(u) = "Down"
  <2>1. StatusOf[outputState[q]] = "Down"
    BY <1>1, <1>2, <1>3, <1>5 DEF Status
  <2>2. outputState[q] = "Stopped"
    BY <2>1 DEF ProcessTypeOK, OutputState, StatusOf
  <2>3. phase[q] = "closed"
    BY <1>3, <2>2, NotAhead DEF StatusNotAhead
  <2> QED BY <2>3 DEF Serving
<1> QED BY <1>4, <1>5

LEMMA NoOrphanStep ==
    ASSUME KeepInv, [Next]_lifeVars
    PROVE  NoOrphan'
<1> USE DEF KeepInv, LifeInv, TypeOK, SupervisionTypeOK, ProcessTypeOK, history
<1>0. None \notin Pids
  BY ProcessAssumption DEF ProcessAssumption
<1>1. CASE Spawns /\ UNCHANGED <<eventQueue, history>>
  <2>1. PICK u \in DOMAIN servers :
            /\ \/ Status(u) = "Down"
               \/ pc = "autostart" /\ autostart # <<>> /\ u = Head(autostart)
            /\ Spawn(u, "autostart") \/ Spawn(u, "reply")
    BY <1>1 DEF Spawns
  <2>2. \A q \in Pids : Serving(q) => unit[q] # u
    BY <2>1, NoneServes
  <2>3. PICK p \in Unborn :
            /\ phase' = [phase EXCEPT ![p] = "booting"]
            /\ unit' = [unit EXCEPT ![p] = u]
            /\ servers' = [servers EXCEPT ![u] = [process |-> p, status |-> p, input |-> p]]
            /\ asked' = asked
    BY <2>1 DEF Spawn
  <2>4. p \in Pids /\ unit'[p] = u /\ u \in DOMAIN servers' /\ servers'[u].process = p
    BY <2>3 DEF Unborn
  <2>5. ASSUME NEW q \in Pids, q # p, Serving(q)'
        PROVE  unit'[q] \in DOMAIN servers' /\ servers'[unit'[q]].process = q
    <3>1. phase'[q] = phase[q] /\ unit'[q] = unit[q]
      BY <2>3, <2>5
    <3>2. Serving(q)
      BY <1>1, <2>3, <2>5, <3>1 DEF Serving, Alive
    <3> QED BY <2>2, <2>3, <2>5, <3>1, <3>2 DEF NoOrphan
  <2> QED BY <2>4, <2>5 DEF NoOrphan
<1>2. ASSUME UNCHANGED <<servers, unit, replaced>>,
             \A q \in Pids : Serving(q)' => Serving(q)
      PROVE  NoOrphan'
  BY <1>2 DEF NoOrphan
<1>3. CASE Thinks /\ UNCHANGED <<eventQueue, history>>
  BY <1>2, <1>3 DEF Thinks, processVars, Serving, Alive
<1>4. CASE Writes /\ UNCHANGED <<eventQueue, history>>
  <2>1. asked \subseteq asked'
    BY <1>4 DEF Writes
  <2> QED BY <1>2, <1>4, <2>1 DEF Writes, Serving, Alive
<1>5. ASSUME NEW u \in Units, Add(u)
      PROVE  NoOrphan'
  <2>1. /\ servers' = [v \in DOMAIN servers \cup {u} |->
                          IF v = u THEN NotStarted ELSE servers[v]]
        /\ replaced' = replaced \cup
              {p \in Pids : u \in DOMAIN servers /\ servers[u].process = p}
        /\ UNCHANGED <<unit, phase, asked>>
    BY <1>5 DEF Add, AddServerUnit, processVars
  <2>2. ASSUME NEW q \in Pids, Serving(q)'
        PROVE  unit[q] \in DOMAIN servers' /\ servers'[unit[q]].process = q
    <3>1. Serving(q) /\ q \notin replaced'
      BY <2>1, <2>2 DEF Serving, Alive
    <3>2. unit[q] \in DOMAIN servers /\ servers[unit[q]].process = q
      BY <3>1 DEF NoOrphan
    <3>3. unit[q] # u
      BY <2>1, <3>1, <3>2
    <3> QED BY <2>1, <3>2, <3>3
  <2> QED BY <2>1, <2>2 DEF NoOrphan
<1>6. CASE Tells
  <2>1. /\ pc = "write"
        /\ asked' = asked \cup {servers[target].input}
        /\ servers' = [servers EXCEPT ![target].process = None]
        /\ UNCHANGED <<unit, phase, replaced>>
    BY <1>6 DEF Tells
  <2>2. target \in DOMAIN servers /\ servers[target].input = servers[target].process
    BY <2>1 DEF SlotsInv
  <2>3. ASSUME NEW q \in Pids, Serving(q)'
        PROVE  unit[q] \in DOMAIN servers' /\ servers'[unit[q]].process = q
    <3>1. Serving(q) /\ q # servers[target].process
      BY <2>1, <2>2, <2>3 DEF Serving, Alive
    <3>2. unit[q] \in DOMAIN servers /\ servers[unit[q]].process = q
      BY <3>1 DEF NoOrphan
    <3>3. unit[q] # target
      BY <3>1, <3>2
    <3> QED BY <2>1, <3>2, <3>3
  <2> QED BY <2>1, <2>3 DEF NoOrphan
<1>7. ASSUME NEW p \in Pids,
             (PrintsRow(p) \/ Exit(p) \/ ReadLine(p) \/ RaiseEvent(p) \/ EndLog(p)) /\ Outside
      PROVE  NoOrphan'
  <2>1. UNCHANGED <<servers, replaced>>
    BY <1>7 DEF Outside, supervisionVars
  <2>2. CASE PrintsRow(p)
    <3>1. PICK from, to \in Phase, line \in Line :
                 Row(from, line, to) /\ Prints(p, from, line, to)
      BY <2>2 DEF PrintsRow
    <3>2. from \notin {"unborn", "exited", "closed"}
      BY <3>1 DEF Row
    <3>3. UNCHANGED <<unit, asked>>
          /\ phase[p] = from /\ phase' = [phase EXCEPT ![p] = to]
      BY <3>1 DEF Prints
    <3>4. \A q \in Pids : Serving(q)' => Serving(q)
      BY <2>1, <3>2, <3>3 DEF Serving, Alive
    <3> QED BY <1>2, <2>1, <3>3, <3>4
  <2>3. CASE Exit(p)
    <3>1. UNCHANGED <<unit, asked>> /\ phase' = [phase EXCEPT ![p] = "exited"]
      BY <2>3 DEF Exit
    <3>2. \A q \in Pids : Serving(q)' => Serving(q)
      BY <2>1, <3>1 DEF Serving, Alive
    <3> QED BY <1>2, <2>1, <3>1, <3>2
  <2>4. CASE ReadLine(p) \/ RaiseEvent(p) \/ EndLog(p)
    BY <1>2, <2>1, <2>4 DEF ReadLine, RaiseEvent, EndLog, Serving, Alive
  <2> QED BY <1>7, <2>2, <2>3, <2>4
<1> QED BY Kinds, <1>1, <1>3, <1>4, <1>5, <1>6, <1>7

LEMMA KeepInvInit ==
    ASSUME Init, \A list \in AutostartLists : Distinct(list)
    PROVE  KeepInv
<1>1. LifeInv /\ LogInv /\ ToldInv
  BY TypesInit, LogInvInit
<1>2. ListInv
  <2>1. PICK list \in AutostartLists : SupervisionInit(Known, list)
    BY DEF Init
  <2>2. Distinct(autostart)
    BY <2>1 DEF SupervisionInit, Distinct
  <2> QED BY <2>1, <2>2 DEF SupervisionInit, NotStarted, ListInv
<1>3. NoOrphan
  BY DEF Init, ProcessInit, NoOrphan, Serving, Alive
<1> QED BY <1>1, <1>2, <1>3 DEF KeepInv

\* However often units are started, stopped and added, a serving process is the one
\* its unit's handle points to, and so no unit has two: a start only replaces the
\* handle of a process that has exited or closed down, since the status is never
\* ahead of the process.  It takes an autostart list without repetitions and a
\* chat that repeats no phrase of the end.
THEOREM NoServerIsLost ==
    ASSUME Echoes \subseteq {"Done"},
           \A list \in AutostartLists : Distinct(list)
    PROVE  Spec => []NoOrphan
<1>1. Init => KeepInv
  BY KeepInvInit
<1>2. KeepInv /\ [Next]_lifeVars => KeepInv'
  BY LifeInvStep, LogInvStep, ListStep, NoOrphanStep DEF KeepInv
<1>3. KeepInv => NoOrphan
  BY DEF KeepInv
<1> QED BY <1>1, <1>2, <1>3, PTL DEF Spec

(***************************************************************************)
(* The sweep.                                                              *)
(***************************************************************************)

LEMMA SweptStep ==
    ASSUME LifeInv, SweptAreGone, [Next]_lifeVars
    PROVE  SweptAreGone'
<1> USE DEF LifeInv, TypeOK, SupervisionTypeOK, ProcessTypeOK, SweptAreGone, history
<1>1. CASE Spawns /\ UNCHANGED <<eventQueue, history>>
  <2>1. PICK p \in Unborn : phase' = [phase EXCEPT ![p] = "booting"]
    BY <1>1 DEF Spawns, Spawn
  <2>2. pc \notin {"wait"} /\ p \in Pids /\ p \notin swept
    BY <1>1 DEF Spawns, Unborn, UnbornInv
  <2> QED BY <1>1, <2>1, <2>2 DEF Alive
<1>2. CASE Thinks /\ UNCHANGED <<eventQueue, history>>
  BY <1>2 DEF Thinks, processVars, Alive
<1>3. CASE Writes /\ UNCHANGED <<eventQueue, history>>
  BY <1>3 DEF Writes, Alive
<1>4. ASSUME NEW u \in Units, Add(u)
      PROVE  SweptAreGone'
  BY <1>4 DEF Add, AddServerUnit, processVars, Alive
<1>5. CASE Tells
  BY <1>5 DEF Tells, Alive
<1>6. ASSUME NEW p \in Pids,
             (PrintsRow(p) \/ Exit(p) \/ ReadLine(p) \/ RaiseEvent(p) \/ EndLog(p)) /\ Outside
      PROVE  SweptAreGone'
  <2>1. UNCHANGED <<pc, child, swept>>
    BY <1>6 DEF Outside, supervisionVars
  <2>2. \A q \in Pids : ~Alive(q) => ~Alive(q)'
    <3>1. CASE PrintsRow(p)
      <4>1. PICK from, to \in Phase, line \in Line :
                   Row(from, line, to) /\ Prints(p, from, line, to)
        BY <3>1 DEF PrintsRow
      <4>2. from \notin {"unborn", "exited"}
        BY <4>1 DEF Row
      <4> QED BY <4>1, <4>2 DEF Prints, Alive
    <3>2. CASE Exit(p)
      BY <3>2 DEF Exit, Alive
    <3>3. CASE ReadLine(p) \/ RaiseEvent(p) \/ EndLog(p)
      BY <3>3 DEF ReadLine, RaiseEvent, EndLog, Alive
    <3> QED BY <1>6, <3>1, <3>2, <3>3
  <2> QED BY <2>1, <2>2
<1> QED BY Kinds, <1>1, <1>2, <1>3, <1>4, <1>5, <1>6

\* Whatever the units and their processes do, a server that the sweep told to stop
\* has ended by the time the sweep goes on, and so before the daemon exits.
THEOREM SweptServersAreGone == Spec => []SweptAreGone
<1>1. Init => LifeInv /\ SweptAreGone
  <2>1. Init => SweptAreGone
    BY DEF Init, SweptAreGone
  <2> QED BY <2>1, TypesInit
<1>2. LifeInv /\ SweptAreGone /\ [Next]_lifeVars => (LifeInv /\ SweptAreGone)'
  BY LifeInvStep, SweptStep
<1> QED BY <1>1, <1>2, PTL DEF Spec
=============================================================================
