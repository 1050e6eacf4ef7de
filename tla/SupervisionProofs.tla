------------------------- MODULE SupervisionProofs --------------------------
(***************************************************************************)
(* Types of the servers and of their units: every step of a process, of    *)
(* its log thread and of the daemon thread that concerns units keeps       *)
(* ProcessTypeOK and SupervisionTypeOK.  And the log: what an event tells  *)
(* of a process stays true of it, whoever moves next (LogInv, HeardStays). *)
(* UnitLifeProofs and DaemonProofs rest on these lemmas.                   *)
(***************************************************************************)
EXTENDS Supervision, TLAPS

UnitTypes == ProcessTypeOK /\ SupervisionTypeOK

LEMMA InitTypes ==
    ASSUME NEW known \in SUBSET Units, NEW list \in Seq(Units),
           ProcessInit, SupervisionInit(known, list)
    PROVE  UnitTypes
<1>1. 0 \in 0 .. MaxEchoes
  BY ProcessAssumption DEF ProcessAssumption
<1>2. ProcessTypeOK
  BY <1>1 DEF ProcessInit, ProcessTypeOK, Phase, OutputState
<1>3. NotStarted \in DaemonServer
  BY DEF NotStarted, DaemonServer
<1>4. SupervisionTypeOK
  BY <1>3 DEF SupervisionInit, SupervisionTypeOK
<1> QED BY <1>2, <1>4 DEF UnitTypes

(***************************************************************************)
(* Processes and log threads.                                              *)
(***************************************************************************)

\* A line that the handler recognises has a state and an event.
LEMMA LineTypes ==
    ASSUME NEW line \in Line
    PROVE  /\ StateOf[line] \in OutputState
           /\ EventOf[line] \in ServerEventType
  BY DEF Line, StateOf, EventOf, OutputState, ServerEventType

LEMMA PrintsTypes ==
    ASSUME ProcessTypeOK, NEW p \in Pids, NEW from, NEW line \in Line, NEW to \in Phase,
           Prints(p, from, line, to), echoes' \in 0 .. MaxEchoes
    PROVE  ProcessTypeOK'
  BY DEF ProcessTypeOK, Prints

LEMMA ProcessNextTypes ==
    ASSUME ProcessTypeOK, ProcessNext
    PROVE  ProcessTypeOK'
<1>1. PICK p \in Pids :
          \/ Load(p) \/ Run(p) \/ Refuse(p) \/ BeginStop(p) \/ CloseDown(p) \/ Exit(p)
          \/ \E line \in Echoes : Echo(p, line)
  BY DEF ProcessNext
<1>2. /\ {"Loading", "Done", "Eula", "Stopping", "Closing"} \subseteq Line
      /\ {"loading", "running", "refusing", "stopping", "closed", "exited"} \subseteq Phase
  BY DEF Line, Phase
<1>3. UNCHANGED echoes => echoes' \in 0 .. MaxEchoes
  BY DEF ProcessTypeOK
<1>4. CASE Load(p)
  BY <1>2, <1>3, <1>4, PrintsTypes DEF Load
<1>5. CASE Run(p)
  BY <1>2, <1>3, <1>5, PrintsTypes DEF Run
<1>6. CASE Refuse(p)
  BY <1>2, <1>3, <1>6, PrintsTypes DEF Refuse
<1>7. CASE BeginStop(p)
  BY <1>2, <1>3, <1>7, PrintsTypes DEF BeginStop
<1>8. CASE CloseDown(p)
  BY <1>2, <1>3, <1>8, PrintsTypes DEF CloseDown
<1>9. CASE Exit(p)
  BY <1>2, <1>9 DEF Exit, ProcessTypeOK
<1>10. CASE \E line \in Echoes : Echo(p, line)
  <2>1. PICK line \in Echoes : Echo(p, line)
    BY <1>10
  <2>2. line \in Line /\ echoes' \in 0 .. MaxEchoes
    BY <2>1, ProcessAssumption DEF Echo, ProcessTypeOK, ProcessAssumption
  <2> QED BY <1>2, <2>1, <2>2, PrintsTypes DEF Echo
<1> QED BY <1>1, <1>4, <1>5, <1>6, <1>7, <1>8, <1>9, <1>10

\* The lines a process prints, each with the phases before and after it.
Row(from, line, to) ==
    \/ from = "booting" /\ line = "Loading" /\ to = "loading"
    \/ from = "loading" /\ line = "Done" /\ to = "running"
    \/ from = "loading" /\ line = "Eula" /\ to = "refusing"
    \/ from = "running" /\ line = "Stopping" /\ to = "stopping"
    \/ from = "stopping" /\ line = "Closing" /\ to = "closed"
    \/ from = "running" /\ line \in Echoes /\ to = "running"

PrintsRow(p) ==
    \E from, to \in Phase, line \in Line : Row(from, line, to) /\ Prints(p, from, line, to)

LEMMA WorldKinds ==
    ASSUME NEW p \in Pids,
           \/ Load(p) \/ Run(p) \/ Refuse(p) \/ BeginStop(p) \/ CloseDown(p)
           \/ \E line \in Echoes : Echo(p, line)
    PROVE  PrintsRow(p)
<1>1. /\ {"Loading", "Done", "Eula", "Stopping", "Closing"} \cup Echoes \subseteq Line
      /\ {"booting", "loading", "running", "refusing", "stopping", "closed"} \subseteq Phase
  BY ProcessAssumption DEF ProcessAssumption, Line, Phase
<1>2. CASE Load(p)
  BY <1>1, <1>2 DEF Load, PrintsRow, Row
<1>3. CASE Run(p)
  BY <1>1, <1>3 DEF Run, PrintsRow, Row
<1>4. CASE Refuse(p)
  BY <1>1, <1>4 DEF Refuse, PrintsRow, Row
<1>5. CASE BeginStop(p)
  BY <1>1, <1>5 DEF BeginStop, PrintsRow, Row
<1>6. CASE CloseDown(p)
  BY <1>1, <1>6 DEF CloseDown, PrintsRow, Row
<1>7. CASE \E line \in Echoes : Echo(p, line)
  BY <1>1, <1>7 DEF Echo, PrintsRow, Row
<1> QED BY <1>2, <1>3, <1>4, <1>5, <1>6, <1>7

LEMMA ReadLineTypes ==
    ASSUME ProcessTypeOK, NEW p \in Pids, ReadLine(p)
    PROVE  ProcessTypeOK'
<1>1. Head(pipe[p]) \in Line /\ Tail(pipe[p]) \in Seq(Line)
  BY DEF ReadLine, ProcessTypeOK
<1>2. /\ StateOf[Head(pipe[p])] \in OutputState
      /\ EventOf[Head(pipe[p])] \in ServerEventType
  BY <1>1, LineTypes
<1> QED BY <1>1, <1>2 DEF ReadLine, ProcessTypeOK

LEMMA RaiseEventTypes ==
    ASSUME ProcessTypeOK, NEW p \in Pids, RaiseEvent(p)
    PROVE  ProcessTypeOK'
  BY DEF RaiseEvent, ProcessTypeOK

LEMMA EndLogTypes ==
    ASSUME ProcessTypeOK, NEW p \in Pids, EndLog(p)
    PROVE  ProcessTypeOK'
  BY DEF EndLog, ProcessTypeOK

(***************************************************************************)
(* The daemon thread.                                                      *)
(***************************************************************************)

LEMMA SpawnTypes ==
    ASSUME UnitTypes, NEW u \in DOMAIN servers, NEW next \in {"autostart", "reply"},
           Spawn(u, next), autostart' \in Seq(Units)
    PROVE  UnitTypes'
<1> USE DEF UnitTypes, ProcessTypeOK, SupervisionTypeOK
<1>1. PICK p \in Unborn :
          /\ phase' = [phase EXCEPT ![p] = "booting"]
          /\ unit' = [unit EXCEPT ![p] = u]
          /\ servers' = [servers EXCEPT ![u] = [process |-> p, status |-> p, input |-> p]]
          /\ pc' = next
          /\ UNCHANGED <<target, sweeping, left, child, success, asked, pipe,
                         outputState, raising, echoes>>
  BY DEF Spawn
<1>2. p \in Pids /\ u \in Units
  BY <1>1 DEF Unborn
<1>3. ProcessTypeOK'
  BY <1>1, <1>2 DEF Phase
<1>4. [process |-> p, status |-> p, input |-> p] \in DaemonServer
  BY <1>2 DEF DaemonServer
<1>5. DOMAIN servers' = DOMAIN servers
      /\ \A v \in DOMAIN servers' : servers'[v] \in DaemonServer
  BY <1>1, <1>4
<1> QED BY <1>1, <1>3, <1>5

LEMMA DiesTypes ==
    ASSUME UnitTypes, NEW how \in {"panicked", "exited"}, Dies(how),
           autostart' \in Seq(Units)
    PROVE  UnitTypes'
  BY DEF UnitTypes, ProcessTypeOK, SupervisionTypeOK, Dies, processVars

LEMMA AutostartTypes ==
    ASSUME UnitTypes, Autostart
    PROVE  UnitTypes'
<1>1. autostart' \in Seq(Units)
  BY DEF Autostart, UnitTypes, SupervisionTypeOK
<1>2. CASE Head(autostart) \in DOMAIN servers
  BY <1>1, <1>2, SpawnTypes, DiesTypes DEF Autostart
<1>3. CASE Head(autostart) \notin DOMAIN servers
  BY <1>1, <1>3 DEF Autostart, UnitTypes, SupervisionTypeOK, ProcessTypeOK, processVars
<1> QED BY <1>2, <1>3

LEMMA StartThreadTypes ==
    ASSUME UnitTypes, StartThread
    PROVE  UnitTypes'
  BY DEF StartThread, UnitTypes, SupervisionTypeOK, ProcessTypeOK, processVars

LEMMA StartUnitTypes ==
    ASSUME UnitTypes, NEW u \in DOMAIN servers, StartUnit(u)
    PROVE  UnitTypes'
<1>1. autostart' \in Seq(Units)
  BY DEF StartUnit, UnitTypes, SupervisionTypeOK
<1>2. CASE Status(u) = "Down"
  BY <1>1, <1>2, SpawnTypes, DiesTypes DEF StartUnit, Panic
<1>3. CASE Status(u) # "Down"
  BY <1>1, <1>3 DEF StartUnit, UnitTypes, SupervisionTypeOK, ProcessTypeOK, processVars
<1> QED BY <1>2, <1>3

LEMMA SendCommandTypes ==
    ASSUME UnitTypes, NEW u \in DOMAIN servers, NEW isStop \in BOOLEAN,
           SendCommand(u, isStop)
    PROVE  UnitTypes'
<1>1. servers[u].input \in Pids \cup {None}
  BY DEF UnitTypes, SupervisionTypeOK, DaemonServer
<1>2. autostart' \in Seq(Units)
  BY DEF SendCommand, UnitTypes, SupervisionTypeOK
<1>3. CASE Panic
  BY <1>2, <1>3, DiesTypes DEF Panic
<1>4. CASE WriteInput(u, isStop) /\ ~Panic
  BY <1>1, <1>4 DEF SendCommand, WriteInput, UnitTypes, SupervisionTypeOK, ProcessTypeOK
<1> QED BY <1>3, <1>4 DEF SendCommand

LEMMA StopUnitTypes ==
    ASSUME UnitTypes, NEW u \in DOMAIN servers, StopUnit(u)
    PROVE  UnitTypes'
  BY DEF StopUnit, UnitTypes, SupervisionTypeOK, ProcessTypeOK, processVars

LEMMA WriteStopTypes ==
    ASSUME UnitTypes, target \in DOMAIN servers, WriteStop
    PROVE  UnitTypes'
<1> DEFINE s == servers[target]
<1>1. s \in DaemonServer
  BY DEF UnitTypes, SupervisionTypeOK
<1>2. /\ s.input \in Pids \cup {None}
      /\ s.process \in Pids \cup {None}
      /\ [s EXCEPT !.process = None] \in DaemonServer
  BY <1>1 DEF DaemonServer
<1>3. autostart' \in Seq(Units)
  BY DEF WriteStop, UnitTypes, SupervisionTypeOK
<1>4. CASE Panic
  BY <1>3, <1>4, DiesTypes DEF Panic
<1>5. CASE WriteInput(target, TRUE) /\ ~Panic
  <2>1. servers' = [servers EXCEPT ![target] = [s EXCEPT !.process = None]]
    BY <1>5 DEF WriteStop
  <2>2. DOMAIN servers' = DOMAIN servers
        /\ \A v \in DOMAIN servers' : servers'[v] \in DaemonServer
    BY <1>2, <2>1 DEF UnitTypes, SupervisionTypeOK
  <2>3. ProcessTypeOK'
    BY <1>2, <1>5 DEF WriteStop, WriteInput, UnitTypes, ProcessTypeOK
  <2> QED
    BY <1>2, <1>3, <1>5, <2>2, <2>3 DEF WriteStop, UnitTypes, SupervisionTypeOK
<1> QED BY <1>4, <1>5 DEF WriteStop

LEMMA AddServerUnitTypes ==
    ASSUME UnitTypes, NEW u \in Units, AddServerUnit(u), pc' = pc
    PROVE  UnitTypes'
<1>1. NotStarted \in DaemonServer
  BY DEF NotStarted, DaemonServer
<1> QED BY <1>1 DEF AddServerUnit, UnitTypes, SupervisionTypeOK, ProcessTypeOK, processVars

LEMMA BeginSweepTypes ==
    ASSUME UnitTypes, BeginSweep
    PROVE  UnitTypes'
  BY DEF BeginSweep, UnitTypes, SupervisionTypeOK, ProcessTypeOK, processVars

LEMMA SweepTypes ==
    ASSUME UnitTypes, Sweep
    PROVE  UnitTypes'
<1> USE DEF UnitTypes, SupervisionTypeOK, ProcessTypeOK, processVars
<1>1. ASSUME NEW u \in left, Visit(u)
      PROVE  UnitTypes'
  BY <1>1 DEF Visit
<1>2. CASE HasStarted
  BY <1>2 DEF HasStarted
<1>3. CASE Wait
  BY <1>3 DEF Wait
<1>4. CASE EndSweep
  BY <1>4 DEF EndSweep
<1> QED BY <1>1, <1>2, <1>3, <1>4 DEF Sweep

(***************************************************************************)
(* Before a process is spawned it has printed nothing, and from then on it *)
(* has a unit of the daemon: an event is never raised of no unit.          *)
(***************************************************************************)

BornInv ==
    \A p \in Pids :
        /\ phase[p] = "unborn" => pipe[p] = <<>> /\ raising[p] = None
        /\ phase[p] # "unborn" => unit[p] \in DOMAIN servers

LEMMA BornSame ==
    ASSUME BornInv, UNCHANGED <<phase, pipe, raising, unit>>,
           DOMAIN servers \subseteq DOMAIN servers'
    PROVE  BornInv'
  BY DEF BornInv

LEMMA BornSpawn ==
    ASSUME UnitTypes, BornInv, NEW u \in DOMAIN servers, NEW next, Spawn(u, next)
    PROVE  BornInv'
<1>1. PICK p \in Unborn :
          /\ phase' = [phase EXCEPT ![p] = "booting"]
          /\ unit' = [unit EXCEPT ![p] = u]
          /\ UNCHANGED <<pipe, raising>>
          /\ DOMAIN servers' = DOMAIN servers
  BY DEF Spawn
<1> QED BY <1>1 DEF Unborn, BornInv, UnitTypes, ProcessTypeOK, SupervisionTypeOK

LEMMA BornProcess ==
    ASSUME UnitTypes, BornInv, ProcessNext, UNCHANGED servers
    PROVE  BornInv'
<1> USE DEF UnitTypes, ProcessTypeOK, BornInv
<1>1. PICK p \in Pids : PrintsRow(p) \/ Exit(p)
  BY WorldKinds DEF ProcessNext
<1>2. CASE PrintsRow(p)
  <2>1. PICK from, to \in Phase, line \in Line :
               Row(from, line, to) /\ Prints(p, from, line, to)
    BY <1>2 DEF PrintsRow
  <2>2. from # "unborn" /\ to # "unborn"
    BY <2>1 DEF Row
  <2> QED BY <2>1, <2>2 DEF Prints
<1>3. CASE Exit(p)
  BY <1>3 DEF Exit, Alive
<1> QED BY <1>1, <1>2, <1>3

LEMMA BornLog ==
    ASSUME UnitTypes, BornInv, LogNext, UNCHANGED servers
    PROVE  BornInv'
<1> USE DEF UnitTypes, ProcessTypeOK, BornInv
<1>1. PICK p \in Pids : ReadLine(p) \/ RaiseEvent(p) \/ EndLog(p)
  BY DEF LogNext
<1>2. CASE ReadLine(p)
  BY <1>2 DEF ReadLine
<1>3. CASE RaiseEvent(p)
  BY <1>3 DEF RaiseEvent
<1>4. CASE EndLog(p)
  BY <1>4 DEF EndLog
<1> QED BY <1>1, <1>2, <1>3, <1>4

(***************************************************************************)
(* The log.  Where a chat line matters it repeats no phrase but that of a  *)
(* server that has come up: with one that tells of the end the status is   *)
(* wrong, as the run UnitErrored shows.                                    *)
(***************************************************************************)

LogEvents ==
    {"ServerStarting", "ServerStarted", "ServerStopping", "ServerStopped", "ServerFailed"}

\* The phases a process can be in once it has printed the line of an event.
Since ==
    [ServerStarting |-> {"loading", "running", "stopping", "closed", "refusing", "exited"},
     ServerStarted |-> {"running", "stopping", "closed", "exited"},
     ServerStopping |-> {"stopping", "closed", "exited"},
     ServerStopped |-> {"closed", "exited"},
     ServerFailed |-> {"refusing", "exited"}]

\* Whoever has heard of event t of process p finds a state that is no earlier,
\* now and after every line that is still in the pipe.
Heard(p, t) ==
    /\ t \in LogEvents
    /\ phase[p] \in Since[t]
    /\ outputState[p] \in Reached[t]
    /\ \A j \in 1 .. Len(pipe[p]) : StateOf[pipe[p][j]] \in Reached[t]

\* A line in the pipe was printed on the way to where the process is, and what
\* follows it there is no earlier.
Printed(p) ==
    \A i \in 1 .. Len(pipe[p]) :
        /\ phase[p] \in Since[EventOf[pipe[p][i]]]
        /\ \A j \in i .. Len(pipe[p]) : StateOf[pipe[p][j]] \in Reached[EventOf[pipe[p][i]]]

Written(p) ==
    \A line \in Line : outputState[p] = StateOf[line] => phase[p] \in Since[EventOf[line]]

LogInv ==
    /\ \A p \in Pids :
          /\ Printed(p)
          /\ Written(p)
          /\ raising[p] \notin {None, Ended} => Heard(p, raising[p])
HeardStays == \A p \in Pids : \A t : Heard(p, t) => Heard(p, t)'

LEMMA LinesAreTold ==
    ASSUME NEW line \in Line
    PROVE  /\ EventOf[line] \in LogEvents
           /\ StateOf[line] \in Reached[EventOf[line]]
           /\ \A other \in Line : StateOf[other] = StateOf[line] => other = line
           /\ StateOf[line] # "Unknown"
  BY DEF Line, EventOf, StateOf, LogEvents, Reached

\* A line never takes back what was told before it.
LEMMA RowsGoOn ==
    ASSUME Echoes \subseteq {"Done"}, NEW from, NEW line, NEW to, Row(from, line, to)
    PROVE  /\ to \in Since[EventOf[line]]
           /\ \A t \in LogEvents :
                 from \in Since[t] => to \in Since[t] /\ StateOf[line] \in Reached[t]
<1>1. CASE from = "running" /\ line = "Done" /\ to = "running"
  BY <1>1 DEF Since, EventOf, StateOf, LogEvents, Reached
<1>2. CASE from = "booting" /\ line = "Loading" /\ to = "loading"
  BY <1>2 DEF Since, EventOf, StateOf, LogEvents, Reached
<1>3. CASE from = "loading" /\ line = "Done" /\ to = "running"
  BY <1>3 DEF Since, EventOf, StateOf, LogEvents, Reached
<1>4. CASE from = "loading" /\ line = "Eula" /\ to = "refusing"
  BY <1>4 DEF Since, EventOf, StateOf, LogEvents, Reached
<1>5. CASE from = "running" /\ line = "Stopping" /\ to = "stopping"
  BY <1>5 DEF Since, EventOf, StateOf, LogEvents, Reached
<1>6. CASE from = "stopping" /\ line = "Closing" /\ to = "closed"
  BY <1>6 DEF Since, EventOf, StateOf, LogEvents, Reached
<1> QED BY <1>1, <1>2, <1>3, <1>4, <1>5, <1>6 DEF Row

\* The end of a process does not take back anything either, and nothing was told
\* of one that is not spawned.
LEMMA SinceExit ==
    ASSUME NEW t \in LogEvents
    PROVE  "exited" \in Since[t] /\ "unborn" \notin Since[t]
  BY DEF LogEvents, Since

\* Only the process, the log thread and the spawn move what LogInv speaks of.
LEMMA LogSame ==
    ASSUME LogInv, UNCHANGED <<phase, pipe, outputState, raising>>
    PROVE  LogInv' /\ HeardStays
  BY DEF LogInv, Printed, Written, Heard, HeardStays

\* The phase of one process moves on, and everything else stays.
LEMMA LogPhase ==
    ASSUME UnitTypes, LogInv, NEW p \in Pids, NEW to \in Phase,
           phase' = [phase EXCEPT ![p] = to],
           \A t \in LogEvents : phase[p] \in Since[t] => to \in Since[t],
           UNCHANGED <<pipe, outputState, raising>>
    PROVE  LogInv' /\ HeardStays
<1> USE DEF UnitTypes, ProcessTypeOK
<1>1. \A q \in Pids, t \in LogEvents : phase[q] \in Since[t] => phase'[q] \in Since[t]
  OBVIOUS
<1>2. \A q \in Pids : \A t : Heard(q, t) => Heard(q, t)'
  BY <1>1 DEF Heard
<1>3. ASSUME NEW q \in Pids
      PROVE  Printed(q)' /\ Written(q)'
  <2>1. \A i \in 1 .. Len(pipe[q]) : pipe[q][i] \in Line
    OBVIOUS
  <2>2. \A line \in Line : EventOf[line] \in LogEvents
    BY LinesAreTold
  <2>3. Printed(q)'
    BY <1>1, <2>1, <2>2 DEF LogInv, Printed
  <2>4. Written(q)'
    BY <1>1, <2>2 DEF LogInv, Written
  <2> QED BY <2>3, <2>4
<1>4. \A q \in Pids : raising[q] \notin {None, Ended} => Heard(q, raising[q])'
  BY <1>2 DEF LogInv
<1> QED BY <1>2, <1>3, <1>4 DEF LogInv, HeardStays, Heard

LEMMA LogPrints ==
    ASSUME UnitTypes, LogInv, Echoes \subseteq {"Done"}, NEW p \in Pids, PrintsRow(p)
    PROVE  LogInv' /\ HeardStays
<1> USE DEF UnitTypes, ProcessTypeOK
<1>1. PICK from, to \in Phase, line \in Line : Row(from, line, to) /\ Prints(p, from, line, to)
  BY DEF PrintsRow
<1>2. /\ to \in Since[EventOf[line]]
      /\ \A t \in LogEvents : from \in Since[t] => to \in Since[t] /\ StateOf[line] \in Reached[t]
  BY <1>1, RowsGoOn
<1>3. /\ phase[p] = from /\ phase' = [phase EXCEPT ![p] = to]
      /\ pipe' = [pipe EXCEPT ![p] = Append(@, line)]
      /\ UNCHANGED <<outputState, raising>>
  BY <1>1 DEF Prints
<1>4. /\ phase'[p] = to /\ pipe'[p] = Append(pipe[p], line)
      /\ \A q \in Pids : q # p => phase'[q] = phase[q] /\ pipe'[q] = pipe[q]
  BY <1>3
<1> DEFINE n == Len(pipe[p])
<1>5. /\ n \in Nat /\ Len(pipe'[p]) = n + 1
      /\ pipe'[p][n + 1] = line
      /\ \A i \in 1 .. n : pipe'[p][i] = pipe[p][i] /\ pipe[p][i] \in Line
  BY <1>4
<1>6. ASSUME NEW q \in Pids, NEW t, Heard(q, t)
      PROVE  Heard(q, t)'
  <2>1. CASE q # p
    BY <1>3, <1>4, <1>6, <2>1 DEF Heard
  <2>2. CASE q = p
    <3>1. to \in Since[t] /\ StateOf[line] \in Reached[t]
      BY <1>2, <1>3, <1>6, <2>2 DEF Heard
    <3>2. \A j \in 1 .. n + 1 : StateOf[pipe'[p][j]] \in Reached[t]
      <4>1. \A j \in 1 .. n + 1 : j = n + 1 \/ j \in 1 .. n
        BY <1>5
      <4> QED BY <1>5, <1>6, <2>2, <3>1, <4>1 DEF Heard
    <3> QED BY <1>3, <1>4, <1>5, <1>6, <2>2, <3>1, <3>2 DEF Heard
  <2> QED BY <2>1, <2>2
<1>7. \A i \in 1 .. n : EventOf[pipe[p][i]] \in LogEvents
  BY <1>5, LinesAreTold
<1>8. Printed(p)'
  <2> SUFFICES ASSUME NEW i \in 1 .. n + 1
               PROVE  /\ to \in Since[EventOf[pipe'[p][i]]]
                      /\ \A j \in i .. n + 1 :
                            StateOf[pipe'[p][j]] \in Reached[EventOf[pipe'[p][i]]]
    BY <1>4, <1>5 DEF Printed
  <2>1. CASE i = n + 1
    <3>1. \A j \in i .. n + 1 : j = n + 1
      BY <1>5, <2>1
    <3> QED BY <1>2, <1>5, <2>1, <3>1, LinesAreTold
  <2>2. CASE i \in 1 .. n
    <3>1. from \in Since[EventOf[pipe[p][i]]]
      BY <1>3, <2>2 DEF LogInv, Printed
    <3>2. to \in Since[EventOf[pipe[p][i]]] /\ StateOf[line] \in Reached[EventOf[pipe[p][i]]]
      BY <1>2, <1>7, <2>2, <3>1
    <3>3. \A j \in i .. n : StateOf[pipe[p][j]] \in Reached[EventOf[pipe[p][i]]]
      BY <2>2 DEF LogInv, Printed
    <3>4. \A j \in i .. n + 1 : j = n + 1 \/ (j \in i .. n /\ j \in 1 .. n)
      BY <1>5, <2>2
    <3> QED BY <1>5, <2>2, <3>2, <3>3, <3>4
  <2> QED BY <1>5, <2>1, <2>2
<1>9. Written(p)'
  <2>1. \A other \in Line : EventOf[other] \in LogEvents
    BY LinesAreTold
  <2> QED BY <1>2, <1>3, <1>4, <2>1 DEF LogInv, Written
<1>10. \A q \in Pids : q # p => Printed(q)' /\ Written(q)'
  BY <1>3, <1>4 DEF LogInv, Printed, Written
<1> QED BY <1>3, <1>6, <1>8, <1>9, <1>10 DEF LogInv, HeardStays

LEMMA LogReadLine ==
    ASSUME UnitTypes, LogInv, NEW p \in Pids, ReadLine(p)
    PROVE  LogInv' /\ HeardStays
<1> USE DEF UnitTypes, ProcessTypeOK
<1> PICK line : line = Head(pipe[p])
  OBVIOUS
<1> PICK n : n = Len(pipe[p])
  OBVIOUS
<1>1. /\ pipe[p] # <<>>
      /\ outputState' = [outputState EXCEPT ![p] = StateOf[line]]
      /\ raising' = [raising EXCEPT ![p] = EventOf[line]]
      /\ pipe' = [pipe EXCEPT ![p] = Tail(@)]
      /\ UNCHANGED phase
  BY DEF ReadLine
<1>2. /\ outputState'[p] = StateOf[line] /\ raising'[p] = EventOf[line]
      /\ pipe'[p] = Tail(pipe[p])
      /\ \A q \in Pids : q # p =>
            outputState'[q] = outputState[q] /\ raising'[q] = raising[q] /\ pipe'[q] = pipe[q]
  BY <1>1
<1>3. /\ n \in Nat \ {0} /\ line = pipe[p][1] /\ line \in Line
      /\ Len(pipe'[p]) = n - 1
      /\ \A j \in 1 .. n - 1 : pipe'[p][j] = pipe[p][j + 1]
  BY <1>1, <1>2
<1>4. \A j \in 1 .. n - 1 : j + 1 \in 1 .. n
  BY <1>3
<1>5. ASSUME NEW q \in Pids, NEW t, Heard(q, t)
      PROVE  Heard(q, t)'
  <2>1. CASE q # p
    BY <1>1, <1>2, <1>5, <2>1 DEF Heard
  <2>2. CASE q = p
    <3>1. 1 \in 1 .. n
      BY <1>3
    <3>2. StateOf[line] \in Reached[t]
      BY <1>3, <1>5, <2>2, <3>1 DEF Heard
    <3>3. \A j \in 1 .. n - 1 : StateOf[pipe'[p][j]] \in Reached[t]
      BY <1>3, <1>4, <1>5, <2>2 DEF Heard
    <3> QED BY <1>1, <1>2, <1>3, <1>5, <2>2, <3>2, <3>3 DEF Heard
  <2> QED BY <2>1, <2>2
<1>6. /\ phase[p] \in Since[EventOf[line]]
      /\ \A j \in 1 .. n : StateOf[pipe[p][j]] \in Reached[EventOf[line]]
  <2>1. 1 \in 1 .. n
    BY <1>3
  <2> QED BY <1>3, <2>1 DEF LogInv, Printed
<1>7. Heard(p, EventOf[line])'
  <2>1. EventOf[line] \in LogEvents /\ StateOf[line] \in Reached[EventOf[line]]
    BY <1>3, LinesAreTold
  <2>2. \A j \in 1 .. n - 1 : StateOf[pipe'[p][j]] \in Reached[EventOf[line]]
    BY <1>3, <1>4, <1>6
  <2> QED BY <1>1, <1>2, <1>3, <1>6, <2>1, <2>2 DEF Heard
<1>8. Printed(p)'
  <2> SUFFICES ASSUME NEW i \in 1 .. n - 1
               PROVE  /\ phase[p] \in Since[EventOf[pipe'[p][i]]]
                      /\ \A j \in i .. n - 1 :
                            StateOf[pipe'[p][j]] \in Reached[EventOf[pipe'[p][i]]]
    BY <1>1, <1>3 DEF Printed
  <2>1. i + 1 \in 1 .. n /\ pipe'[p][i] = pipe[p][i + 1]
    BY <1>3, <1>4
  <2>2. ASSUME NEW j \in i .. n - 1
        PROVE  j + 1 \in (i + 1) .. n /\ pipe'[p][j] = pipe[p][j + 1]
    BY <1>3
  <2>3. /\ phase[p] \in Since[EventOf[pipe[p][i + 1]]]
        /\ \A j \in (i + 1) .. n :
              StateOf[pipe[p][j]] \in Reached[EventOf[pipe[p][i + 1]]]
    BY <2>1 DEF LogInv, Printed
  <2> QED BY <2>1, <2>2, <2>3
<1>9. Written(p)'
  BY <1>1, <1>2, <1>3, <1>6, LinesAreTold DEF Written
<1>10. \A q \in Pids : q # p => Printed(q)' /\ Written(q)'
  BY <1>1, <1>2 DEF LogInv, Printed, Written
<1>11. ASSUME NEW q \in Pids, NEW t, t = raising'[q], t \notin {None, Ended}
       PROVE  Heard(q, t)'
  <2>1. CASE q = p
    BY <1>2, <1>7, <1>11, <2>1
  <2>2. CASE q # p
    <3>1. t = raising[q]
      BY <1>2, <1>11, <2>2
    <3>2. Heard(q, t)
      BY <1>11, <3>1 DEF LogInv
    <3> QED BY <1>5, <3>2
  <2> QED BY <2>1, <2>2
<1>12. (\A q \in Pids : raising[q] \notin {None, Ended} => Heard(q, raising[q]))'
  BY <1>11 DEF Heard
<1> QED BY <1>1, <1>5, <1>8, <1>9, <1>10, <1>12 DEF LogInv, HeardStays

LEMMA LogRaiseEvent ==
    ASSUME UnitTypes, LogInv, NEW p \in Pids, RaiseEvent(p)
    PROVE  LogInv' /\ HeardStays
<1> USE DEF UnitTypes, ProcessTypeOK
<1>1. raising' = [raising EXCEPT ![p] = None] /\ UNCHANGED <<phase, pipe, outputState>>
  BY DEF RaiseEvent
<1>2. HeardStays
  BY <1>1 DEF HeardStays, Heard
<1>3. \A q \in Pids : Printed(q)' /\ Written(q)'
  BY <1>1 DEF LogInv, Printed, Written
<1>4. \A q \in Pids : raising'[q] \notin {None, Ended} => raising'[q] = raising[q]
  BY <1>1
<1>5. \A q \in Pids : raising'[q] \notin {None, Ended} => Heard(q, raising[q])' /\ raising'[q] = raising[q]
  BY <1>2, <1>4 DEF LogInv, HeardStays
<1> QED BY <1>2, <1>3, <1>5 DEF LogInv, Heard

LEMMA LogEndLog ==
    ASSUME UnitTypes, LogInv, NEW p \in Pids, EndLog(p)
    PROVE  LogInv' /\ HeardStays
<1> USE DEF UnitTypes, ProcessTypeOK
<1>1. raising' = [raising EXCEPT ![p] = Ended] /\ UNCHANGED <<phase, pipe, outputState>>
  BY DEF EndLog
<1>2. HeardStays
  BY <1>1 DEF HeardStays, Heard
<1>3. \A q \in Pids : Printed(q)' /\ Written(q)'
  BY <1>1 DEF LogInv, Printed, Written
<1>4. \A q \in Pids : raising'[q] \notin {None, Ended} => raising'[q] = raising[q]
  BY <1>1
<1>5. \A q \in Pids : raising'[q] \notin {None, Ended} => Heard(q, raising[q])' /\ raising'[q] = raising[q]
  BY <1>2, <1>4 DEF LogInv, HeardStays
<1> QED BY <1>2, <1>3, <1>5 DEF LogInv, Heard

\* A spawn, and the end of a process.
LEMMA LogSpawn ==
    ASSUME UnitTypes, LogInv, NEW p \in Unborn, phase' = [phase EXCEPT ![p] = "booting"],
           UNCHANGED <<pipe, outputState, raising>>
    PROVE  LogInv' /\ HeardStays
<1>1. p \in Pids /\ \A t \in LogEvents : phase[p] \notin Since[t]
  BY SinceExit DEF Unborn
<1>2. "booting" \in Phase
  BY DEF Phase
<1> QED BY <1>1, <1>2, LogPhase

LEMMA LogExit ==
    ASSUME UnitTypes, LogInv, NEW p \in Pids, Exit(p)
    PROVE  LogInv' /\ HeardStays
<1>1. "exited" \in Phase
  BY DEF Phase
<1> QED BY <1>1, LogPhase, SinceExit DEF Exit

LEMMA LogInit ==
    ASSUME ProcessInit
    PROVE  LogInv
<1>1. \A p \in Pids : pipe[p] = <<>> /\ raising[p] = None /\ outputState[p] = "Unknown"
  BY DEF ProcessInit
<1> QED BY <1>1, LinesAreTold DEF LogInv, Printed, Written
=============================================================================
