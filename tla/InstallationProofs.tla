------------------------ MODULE InstallationProofs -------------------------
(***************************************************************************)
(* Installations and updates: what holds however many jobs there are, what *)
(* they name, which of their steps fail, and when the daemon ends.         *)
(*                                                                         *)
(* A step lets the jobs pass (Passes), spawns one (Spawns) or is one of a  *)
(* job (Working); every invariant is shown to survive these three:         *)
(*   TypeInv    types, and what a job has at which step;                   *)
(*   EulaInv    whoever names a directory finds it there;                  *)
(*   MeetInv    jobs that share something at once are contested;           *)
(*   WholeInv   the jar that is said to be a unit's is whole;              *)
(*   FilesInv   unit files and what the daemon knows;                      *)
(*   ChosenInv  versions;                                                  *)
(*   HomeInv, DoneInv   what a job that is done leaves behind.             *)
(***************************************************************************)
EXTENDS Installation, WorkersProofs

(***************************************************************************)
(* Types.                                                                  *)
(***************************************************************************)

\* The daemon is not ended again when it could not be started again.
TypeInv == TypeOK /\ WorkersInv /\ (~up => starts < MaxStarts)

LEMMA JobEventTyped ==
    ASSUME NEW type \in ServerEventType, NEW u \in Units, NEW j \in 0 .. MaxJobs
    PROVE  JobEvent(type, u, j) \in EventManagerCmd
  BY WorkersAssumption DEF JobEvent, DispatchCmd, EventManagerCmd, ServerEvent

\* A step of the daemon thread or the event manager's taking an event.
LEMMA QuietTypes ==
    ASSUME TypeInv, UNCHANGED <<published, configs, jobs, dirs, files, refused, contested>>,
           UNCHANGED <<up, starts>>,
           queue' \in Seq(AddServerUnitEvents), eventQueue' \in Seq(EventManagerCmd)
    PROVE  TypeInv'
<1>1. WorkersInv'
  BY NoWorkKeepsTypes DEF workVars, TypeInv
<1> QED BY <1>1 DEF TypeInv, TypeOK, WorkersInv

LEMMA CommandTypes ==
    ASSUME TypeInv, Command
    PROVE  TypeInv'
<1>1. PICK cmd \in Requests : InstallServer(cmd) \/ UpdateServer(cmd)
  BY DEF Command
<1>2. cmd \in WorkerCmd /\ Len(jobs) + refused < MaxJobs /\ MaxJobs \in Nat
  BY InstallationAssumption, WorkersAssumption DEF Command
<1>3. CASE Start(cmd)
  <2>1. cmd.kind = "UpdateServer" => cmd.unit_id \in DOMAIN configs
    BY <1>1, <1>2, <1>3 DEF InstallServer, UpdateServer
  <2>2. UNCHANGED <<published, configs, dirs, files, queue, up, starts, eventQueue, refused>>
        /\ Spawned(cmd)
    BY <1>1, <1>3 DEF InstallServer, UpdateServer, Start
  <2>3. WorkersInv' /\ Len(jobs') = Len(jobs) + 1
    BY <1>2, <2>1, <2>2, SpawnKeepsTypes DEF TypeInv
  <2>4. DOMAIN jobs' = 1 .. Len(jobs) + 1 /\ DOMAIN jobs = 1 .. Len(jobs) /\ Len(jobs) \in Nat
    BY <2>3, JobsAreRows DEF TypeInv, WorkersInv, WorkersTypeOK
  <2>5. contested' \subseteq DOMAIN jobs'
    <3>1. contested' \subseteq contested \cup Rivals(NewJob(cmd)) \cup {Len(jobs) + 1}
      BY <1>3 DEF Start
    <3>2. contested \cup Rivals(NewJob(cmd)) \subseteq DOMAIN jobs
      BY DEF TypeInv, TypeOK, Rivals
    <3> QED BY <2>4, <3>1, <3>2
  <2>6. refused' \in Nat /\ Len(jobs') + refused' <= MaxJobs
    BY <1>2, <2>2, <2>3, <2>4 DEF TypeInv, TypeOK
  <2> QED BY <2>2, <2>3, <2>5, <2>6 DEF TypeInv, TypeOK, WorkersInv
<1>4. CASE ~Start(cmd)
  <2>1. /\ eventQueue' = Append(eventQueue, JobEvent("InstallationFailed", cmd.unit_id, 0))
        /\ UNCHANGED <<published, configs, jobs, dirs, files, queue, up, starts, contested>>
        /\ refused' = refused + 1 /\ cmd.unit_id \in DOMAIN configs
    BY <1>1, <1>4 DEF InstallServer, UpdateServer
  <2>2. cmd.unit_id \in Units /\ Len(jobs) \in Nat
    BY <2>1 DEF TypeInv, WorkersInv, WorkersTypeOK
  <2>3. JobEvent("InstallationFailed", cmd.unit_id, 0) \in EventManagerCmd
    BY <1>2, <2>2, JobEventTyped DEF ServerEventType
  <2>4. eventQueue' \in Seq(EventManagerCmd)
    BY <2>1, <2>3 DEF TypeInv, TypeOK
  <2>5. WorkersInv'
    BY <2>1, NoWorkKeepsTypes DEF workVars, TypeInv
  <2>6. refused' \in Nat /\ Len(jobs') + refused' <= MaxJobs
    BY <1>2, <2>1, <2>2 DEF TypeInv, TypeOK
  <2> QED BY <2>1, <2>4, <2>5, <2>6 DEF TypeInv, TypeOK, WorkersInv
<1> QED BY <1>3, <1>4

LEMMA AddUnitTypes ==
    ASSUME TypeInv, AddUnit
    PROVE  TypeInv'
<1>1. Head(queue) \in AddServerUnitEvents /\ queue' \in Seq(AddServerUnitEvents)
  BY DEF TypeInv, TypeOK, AddUnit
<1>2. WorkersInv'
  BY <1>1, AddedKeepsTypes DEF AddUnit, TypeInv
<1> QED BY <1>1, <1>2 DEF TypeInv, TypeOK, WorkersInv, AddUnit

\* A job that the end of the daemon cuts short is dead; the others stay.
LEMMA ExitRows ==
    ASSUME TypeInv, Exit
    PROVE  /\ jobs' \in Seq(Job) /\ Len(jobs') = Len(jobs) /\ DOMAIN jobs' = DOMAIN jobs
           /\ \A j \in DOMAIN jobs :
                 /\ GoodRow(jobs'[j])
                 /\ jobs'[j].at \notin Busy
                 /\ jobs'[j] = IF jobs[j].at \in Busy
                                 THEN Stepped(jobs[j], "dead", jobs[j].target) ELSE jobs[j]
<1>1. \A j \in DOMAIN jobs : jobs[j] \in Job /\ GoodRow(jobs[j])
  BY DEF TypeInv, WorkersInv, GoodRow
<1>2. \A j \in DOMAIN jobs :
          /\ [jobs[j] EXCEPT !.at = "dead"] = Stepped(jobs[j], "dead", jobs[j].target)
          /\ GoodRow(Stepped(jobs[j], "dead", jobs[j].target))
          /\ Stepped(jobs[j], "dead", jobs[j].target).at = "dead"
  <2>1. ASSUME NEW j \in DOMAIN jobs
        PROVE  /\ [jobs[j] EXCEPT !.at = "dead"] = Stepped(jobs[j], "dead", jobs[j].target)
               /\ GoodRow(Stepped(jobs[j], "dead", jobs[j].target))
               /\ Stepped(jobs[j], "dead", jobs[j].target).at = "dead"
    <3>1. PICK x \in Job : x = jobs[j] /\ GoodRow(x)
      BY <1>1
    <3>2. [x EXCEPT !.at = "dead"] = Stepped(x, "dead", x.target) /\ x.target \in Version \cup {None}
      BY DEF Job, Stepped
    <3>3. GoodRow(Stepped(x, "dead", x.target)) /\ Stepped(x, "dead", x.target).at = "dead"
      BY <3>1, <3>2, SteppedIs DEF GoodRow, WithFile, WithTarget, Busy
    <3> QED BY <3>1, <3>2, <3>3
  <2> QED BY <2>1
<1>3. jobs' = [j \in DOMAIN jobs |->
                   IF jobs[j].at \in Busy THEN [jobs[j] EXCEPT !.at = "dead"] ELSE jobs[j]]
  BY DEF Exit
<1>4. \A j \in DOMAIN jobs :
          /\ GoodRow(jobs'[j])
          /\ jobs'[j].at \notin Busy
          /\ jobs'[j] = IF jobs[j].at \in Busy
                          THEN Stepped(jobs[j], "dead", jobs[j].target) ELSE jobs[j]
  BY <1>1, <1>2, <1>3 DEF Busy
<1>5. DOMAIN jobs = 1 .. Len(jobs) /\ Len(jobs) \in Nat
  BY JobsAreRows DEF TypeInv
<1>6. /\ jobs' = [j \in 1 .. Len(jobs) |-> jobs'[j]]
      /\ \A j \in 1 .. Len(jobs) : jobs'[j] \in Job
  BY <1>3, <1>4, <1>5 DEF GoodRow
<1>7. jobs' \in Seq(Job) /\ Len(jobs') = Len(jobs)
  BY <1>5, <1>6
<1> QED BY <1>3, <1>4, <1>7

LEMMA ExitTypes ==
    ASSUME TypeInv, Exit
    PROVE  TypeInv'
<1>1. jobs' \in Seq(Job) /\ Len(jobs') = Len(jobs) /\ DOMAIN jobs' = DOMAIN jobs
      /\ \A j \in DOMAIN jobs : GoodRow(jobs'[j])
  BY ExitRows
<1>2. /\ configs' = << >> /\ queue' = <<>> /\ eventQueue' = <<>> /\ up' = FALSE
      /\ UNCHANGED <<published, dirs, files, starts, refused, contested>>
      /\ starts < MaxStarts
  BY DEF Exit
<1>3. queue' \in Seq(AddServerUnitEvents) /\ eventQueue' \in Seq(EventManagerCmd)
      /\ DOMAIN configs' = {}
  BY <1>2
<1>4. WorkersInv'
  BY <1>1, <1>2, <1>3 DEF TypeInv, WorkersInv, WorkersTypeOK, Listing
<1> QED BY <1>1, <1>2, <1>3, <1>4 DEF TypeInv, TypeOK, WorkersInv

\* What create_servers makes of a file that it can read.
LEMMA ReadableIs ==
    ASSUME TypeInv, NEW f \in Readable, files[f] # Broken
    PROVE  /\ files[f] \in UnitFile /\ files[f].unit \in Units /\ f \in Files
           /\ Loaded(f) \in Config /\ files[f] = AsFile(files[f].unit, Loaded(f))
<1>1. f \in Files /\ files[f] # None
  BY InstallationAssumption DEF Readable
<1>2. files[f] \in UnitFile
  BY <1>1 DEF TypeInv, WorkersInv, WorkersTypeOK
<1> QED BY <1>1, <1>2 DEF UnitFile, Loaded, Config, AsFile

LEMMA RestartTypes ==
    ASSUME TypeInv, Restart
    PROVE  TypeInv'
<1> DEFINE found == {files[f].unit : f \in Readable}
<1>1. PICK last \in [found -> Readable] : configs' = [u \in found |-> Loaded(last[u])]
  BY DEF Restart
<1>2. /\ \A f \in Readable : files[f] # Broken
      /\ ~up /\ up' = TRUE /\ starts' = starts + 1
      /\ UNCHANGED <<published, jobs, dirs, files, queue, eventQueue, refused, contested>>
  BY DEF Restart
<1>3. found \subseteq Units /\ \A u \in found : Loaded(last[u]) \in Config
  BY <1>1, <1>2, ReadableIs
<1>4. DOMAIN configs' \subseteq Units /\ \A u \in DOMAIN configs' : configs'[u] \in Config
  BY <1>1, <1>3
<1>5. WorkersInv'
  BY <1>2, <1>4 DEF TypeInv, WorkersInv, WorkersTypeOK, Listing
<1>6. starts' \in 0 .. MaxStarts
  BY <1>2, InstallationAssumption DEF TypeInv, TypeOK
<1> QED BY <1>2, <1>5, <1>6 DEF TypeInv, TypeOK, WorkersInv

LEMMA WorkingTypes ==
    ASSUME TypeInv, NEW j \in 1 .. MaxJobs, Working(j)
    PROVE  TypeInv'
<1>1. j \in DOMAIN jobs /\ JobStep(j) /\ UNCHANGED <<up, starts, refused, contested>>
  BY DEF Working
<1>2. WorkersInv' /\ Len(jobs') = Len(jobs)
  BY <1>1, StepKeepsTypes DEF TypeInv
<1>3. jobs[j].unit \in Units
  BY <1>1 DEF TypeInv, WorkersInv, GoodRow, Job
<1>4. queue' \in Seq(AddServerUnitEvents)
  <2>1. \A m \in AddServerUnitEvents : Append(queue, m) \in Seq(AddServerUnitEvents)
    BY DEF TypeInv, TypeOK
  <2> QED BY <1>1, <2>1, StepSends DEF TypeInv, TypeOK
<1>5. eventQueue' \in Seq(EventManagerCmd)
  <2>1. j \in 0 .. MaxJobs
    BY WorkersAssumption
  <2>2. \A e \in EventManagerCmd : Append(eventQueue, e) \in Seq(EventManagerCmd)
    BY DEF TypeInv, TypeOK
  <2>3. \A type \in ServerEventType : JobEvent(type, jobs[j].unit, j) \in EventManagerCmd
    BY <1>3, <2>1, JobEventTyped
  <2> QED BY <1>1, <2>2, <2>3, StepSends DEF TypeInv, TypeOK
<1>6. DOMAIN jobs' = DOMAIN jobs
  BY <1>2, JobsAreRows DEF TypeInv, WorkersInv, WorkersTypeOK
<1> QED BY <1>1, <1>2, <1>4, <1>5, <1>6 DEF TypeInv, TypeOK, WorkersInv

LEMMA TypesNext ==
    ASSUME TypeInv, [Next]_vars
    PROVE  TypeInv'
<1>1. CASE Command \/ AddUnit \/ Exit \/ Restart
  BY <1>1, CommandTypes, AddUnitTypes, ExitTypes, RestartTypes
<1>2. CASE TakeEvent
  <2>1. eventQueue' \in Seq(EventManagerCmd)
    BY <1>2 DEF TakeEvent, TypeInv, TypeOK
  <2> QED BY <1>2, <2>1, QuietTypes DEF TakeEvent, workVars, TypeInv, TypeOK
<1>3. CASE UNCHANGED vars
  BY <1>3, QuietTypes DEF vars, workVars, TypeInv, TypeOK
<1> QED BY <1>1, <1>2, <1>3, WorkingTypes DEF Next

LEMMA TypesInit == Init => TypeInv
<1> SUFFICES ASSUME Init PROVE TypeInv
  OBVIOUS
<1>1. Listing(published) /\ configs \in Inventories
  BY InstallationAssumption DEF Init
<1>2. DOMAIN configs \subseteq Units /\ \A u \in DOMAIN configs : configs[u] \in Config
  BY <1>1, InstallationAssumption
<1>3. WorkersInv
  BY <1>1, <1>2, WorkersInitTypes DEF Init
<1>4. queue \in Seq(AddServerUnitEvents) /\ eventQueue \in Seq(EventManagerCmd)
  BY DEF Init
<1>5. Len(jobs) = 0
  BY DEF Init, WorkersInit
<1> QED BY <1>3, <1>4, <1>5, InstallationAssumption, WorkersAssumption
        DEF TypeInv, TypeOK, WorkersInv, Init

LEMMA TypesAlways == Spec => []TypeInv
  BY TypesInit, TypesNext, PTL DEF Spec

\* Jobs, units, directories, files and queues keep their types: a job past the
\* lookup knows a version, and what is handed over is a unit's configuration.
THEOREM InstallationTypes == Spec => []TypeOK
<1>1. TypeInv => TypeOK
  BY DEF TypeInv
<1> QED BY <1>1, TypesAlways, PTL

(***************************************************************************)
(* Where a unit is named, and what a step may do to that.                  *)
(***************************************************************************)

\* A file, the daemon or a message to it says of unit u that its configuration
\* is c.
InFile(u, c) == files[c.unit_file] # None /\ files[c.unit_file] = AsFile(u, c)
InMessage(u, c) == \E i \in DOMAIN queue : queue[i] = AddServerUnitEvent(u, c)
InDaemon(u, c) == u \in DOMAIN configs /\ configs[u] = c
Names(u, c) == InDaemon(u, c) \/ InMessage(u, c) \/ InFile(u, c)

LEMMA MessageIs ==
    ASSUME TypeInv, NEW i \in DOMAIN queue
    PROVE  /\ queue[i] \in AddServerUnitEvents
           /\ queue[i].unit_id \in Units /\ queue[i].config \in Config
           /\ queue[i] = AddServerUnitEvent(queue[i].unit_id, queue[i].config)
<1>1. queue[i] \in AddServerUnitEvents
  BY DEF TypeInv, TypeOK
<1> QED BY <1>1 DEF AddServerUnitEvents, AddServerUnitEvent

LEMMA EventIs ==
    ASSUME NEW u, NEW c
    PROVE  AddServerUnitEvent(u, c).unit_id = u /\ AddServerUnitEvent(u, c).config = c
  BY DEF AddServerUnitEvent

LEMMA StepNames ==
    ASSUME TypeInv, NEW j \in DOMAIN jobs, JobStep(j),
           NEW u \in Units, NEW c \in Config
    PROVE  /\ InDaemon(u, c)' <=> InDaemon(u, c)
           /\ InMessage(u, c)' => \/ InMessage(u, c)
                                  \/ (SendAdd(j) /\ u = jobs[j].unit /\ c = Result(j))
           /\ InFile(u, c)' => \/ InFile(u, c)
                               \/ /\ FillUnitFile(j) /\ At(j, "fill") /\ ~UNCHANGED files
                                  /\ u = jobs[j].unit /\ c = Result(j)
<1>1. InDaemon(u, c)' <=> InDaemon(u, c)
  BY DEF JobStep, InDaemon
<1>2. ASSUME InMessage(u, c)'
      PROVE  InMessage(u, c) \/ (SendAdd(j) /\ u = jobs[j].unit /\ c = Result(j))
  <2>1. CASE UNCHANGED queue
    BY <1>2, <2>1 DEF InMessage
  <2>2. CASE SendAdd(j)
    <3> DEFINE m == AddServerUnitEvent(jobs[j].unit, Result(j))
    <3>1. queue' = Append(queue, m) /\ queue \in Seq(AddServerUnitEvents)
      BY <2>2 DEF SendAdd, TypeInv, TypeOK
    <3>2. m \in AddServerUnitEvents
      BY <2>2, ResultIsConfig DEF SendAdd, At, TypeInv, WorkersInv, GoodRow, Job,
         AddServerUnitEvent, AddServerUnitEvents
    <3>3. PICK i \in DOMAIN queue' : queue'[i] = AddServerUnitEvent(u, c)
      BY <1>2 DEF InMessage
    <3> HIDE DEF m
    <3>4. (i \in DOMAIN queue /\ queue'[i] = queue[i]) \/ queue'[i] = m
      BY <3>1, <3>2, <3>3
    <3> QED BY <2>2, <3>3, <3>4, EventIs DEF InMessage, m
  <2>3. UNCHANGED queue \/ SendAdd(j)
    BY DEF JobStep, Look, MakeDir, AcceptEula, SayProgress, CheckForUpdate, Lookup, OpenJar,
       CopyJar, Patch, TruncateUnitFile, FillUnitFile, SayHowItEnded, Fails, Panics, Nothing,
       Reports
  <2> QED BY <2>1, <2>2, <2>3
<1>3. ASSUME InFile(u, c)'
      PROVE  \/ InFile(u, c)
             \/ /\ FillUnitFile(j) /\ At(j, "fill") /\ ~UNCHANGED files
                /\ u = jobs[j].unit /\ c = Result(j)
  <2>1. CASE UNCHANGED files
    BY <1>3, <2>1 DEF InFile
  <2>2. c.unit_file \in Files /\ u # None /\ files \in [Files -> UnitFile \cup {None, Broken}]
    BY NoneAssumption DEF Config, TypeInv, WorkersInv, WorkersTypeOK
  <2>3. CASE TruncateUnitFile(j) /\ ~UNCHANGED files
    <3>1. files' = [files EXCEPT ![jobs[j].unit_file] = Broken]
      BY <2>3 DEF TruncateUnitFile, Fails, Nothing
    <3>2. Broken # AsFile(u, c)
      BY <2>2 DEF Broken, AsFile
    <3> QED BY <1>3, <2>2, <3>1, <3>2 DEF InFile
  <2>4. CASE FillUnitFile(j) /\ ~UNCHANGED files
    <3>1. files' = [files EXCEPT ![jobs[j].unit_file] = Saved(j)] /\ At(j, "fill")
      BY <2>4 DEF FillUnitFile, Fails, Nothing
    <3>2. CASE c.unit_file # jobs[j].unit_file
      BY <1>3, <2>2, <3>1, <3>2 DEF InFile
    <3>3. CASE c.unit_file = jobs[j].unit_file
      <4>1. AsFile(u, c) = AsFile(jobs[j].unit, Result(j))
        BY <1>3, <2>2, <3>1, <3>3 DEF InFile, Saved
      <4>2. u = jobs[j].unit /\ c.path = jobs[j].path /\ c.version = jobs[j].target
        BY <4>1 DEF AsFile, Result
      <4>3. c = Result(j)
        BY <3>3, <4>2 DEF Config, Result
      <4> QED BY <2>4, <3>1, <4>2, <4>3
    <3> QED BY <3>2, <3>3
  <2>5. UNCHANGED files \/ TruncateUnitFile(j) \/ FillUnitFile(j)
    BY DEF JobStep, Look, MakeDir, AcceptEula, SayProgress, CheckForUpdate, Lookup, OpenJar,
       CopyJar, Patch, SendAdd, SayHowItEnded, Fails, Panics, Nothing
  <2> QED BY <2>1, <2>3, <2>4, <2>5
<1> QED BY <1>1, <1>2, <1>3

LEMMA StepSays ==
    ASSUME TypeInv, NEW j \in DOMAIN jobs, JobStep(j),
           NEW u \in Units, NEW c \in Config, Names(u, c)'
    PROVE  \/ Names(u, c)
           \/ jobs[j].at \in {"fill", "add"} /\ u = jobs[j].unit /\ c = Result(j)
<1>1. SendAdd(j) => jobs[j].at = "add"
  BY DEF SendAdd, At
<1> QED BY <1>1, StepNames DEF Names, At

\* The daemon thread only passes on what is said already.
Passes ==
    \/ AddUnit \/ Exit \/ Restart \/ TakeEvent \/ UNCHANGED vars
    \/ Command /\ UNCHANGED <<jobs, contested>>

LEMMA PassesIs ==
    ASSUME TypeInv, Passes
    PROVE  /\ UNCHANGED <<dirs, files, contested>>
           /\ DOMAIN jobs' = DOMAIN jobs
           /\ \A j \in DOMAIN jobs :
                 \/ jobs'[j] = jobs[j]
                 \/ /\ jobs'[j] = Stepped(jobs[j], "dead", jobs[j].target)
                    /\ jobs'[j].at = "dead"
           /\ \A i \in DOMAIN queue' : \E k \in DOMAIN queue : queue'[i] = queue[k]
<1>1. CASE Exit
  <2>1. DOMAIN queue' = {} /\ UNCHANGED <<dirs, files, contested>>
    BY <1>1 DEF Exit
  <2>2. \A j \in DOMAIN jobs : Stepped(jobs[j], "dead", jobs[j].target).at = "dead"
    BY SteppedIs DEF TypeInv, WorkersInv, GoodRow
  <2> QED BY <1>1, <2>1, <2>2, ExitRows
<1>2. CASE AddUnit
  <2>1. queue \in Seq(AddServerUnitEvents) /\ queue' = Tail(queue) /\ queue # <<>>
    BY <1>2 DEF AddUnit, TypeInv, TypeOK
  <2>2. \A i \in DOMAIN queue' : i + 1 \in DOMAIN queue /\ queue'[i] = queue[i + 1]
    BY <2>1
  <2> QED BY <1>2, <2>2 DEF AddUnit
<1>3. CASE ~Exit /\ ~AddUnit
  BY <1>3 DEF Passes, Restart, TakeEvent, Command, InstallServer, UpdateServer, vars, workVars
<1> QED BY <1>1, <1>2, <1>3

LEMMA PassesNames ==
    ASSUME TypeInv, Passes, NEW u \in Units, NEW c \in Config
    PROVE  /\ InFile(u, c)' <=> InFile(u, c)
           /\ InMessage(u, c)' => InMessage(u, c)
           /\ InDaemon(u, c)' => \/ InDaemon(u, c)
                                 \/ AddUnit /\ Head(queue) = AddServerUnitEvent(u, c)
                                 \/ Restart /\ InFile(u, c)
<1>1. InFile(u, c)' <=> InFile(u, c)
  BY PassesIs DEF InFile
<1>2. InMessage(u, c)' => InMessage(u, c)
  BY PassesIs DEF InMessage
<1>3. ASSUME InDaemon(u, c)'
      PROVE  \/ InDaemon(u, c)
             \/ AddUnit /\ Head(queue) = AddServerUnitEvent(u, c)
             \/ Restart /\ InFile(u, c)
  <2>1. CASE AddUnit
    <3>1. PICK m \in AddServerUnitEvents : m = Head(queue)
      BY <2>1 DEF AddUnit, TypeInv, TypeOK
    <3>2. m = AddServerUnitEvent(m.unit_id, m.config)
      BY DEF AddServerUnitEvents, AddServerUnitEvent
    <3>3. configs' = [v \in DOMAIN configs \cup {m.unit_id} |->
                         IF v = m.unit_id THEN m.config ELSE configs[v]]
      BY <2>1, <3>1 DEF AddUnit, Added
    <3> QED BY <1>3, <2>1, <3>1, <3>2, <3>3 DEF InDaemon
  <2>2. CASE Exit
    <3>1. DOMAIN configs' = {}
      BY <2>2 DEF Exit
    <3> QED BY <1>3, <3>1 DEF InDaemon
  <2>3. CASE Restart
    <3> DEFINE found == {files[f].unit : f \in Readable}
    <3>1. PICK last \in [found -> Readable] :
              /\ \A v \in found : last[v] \in FilesOf(v)
              /\ configs' = [v \in found |-> Loaded(last[v])]
      BY <2>3 DEF Restart
    <3>2. u \in found /\ c = Loaded(last[u]) /\ last[u] \in Readable
      BY <1>3, <3>1 DEF InDaemon
    <3>3. PICK f \in Readable : f = last[u] /\ files[f].unit = u /\ c = Loaded(f)
      BY <3>1, <3>2 DEF FilesOf
    <3>4. files[f] # Broken /\ files[f] # None
      BY <2>3 DEF Restart, Readable
    <3>5. files[f] = AsFile(u, c) /\ c.unit_file = f
      BY <3>3, <3>4, ReadableIs DEF Loaded
    <3> QED BY <2>3, <3>4, <3>5 DEF InFile
  <2>4. CASE ~AddUnit /\ ~Exit /\ ~Restart
    <3>1. UNCHANGED configs
      BY <2>4 DEF Passes, TakeEvent, Command, InstallServer, UpdateServer, vars, workVars
    <3> QED BY <1>3, <3>1 DEF InDaemon
  <2> QED BY <2>1, <2>2, <2>3, <2>4
<1> QED BY <1>1, <1>2, <1>3

LEMMA PassesOn ==
    ASSUME TypeInv, Passes, NEW u \in Units, NEW c \in Config, Names(u, c)'
    PROVE  Names(u, c)
<1>1. AddUnit /\ Head(queue) = AddServerUnitEvent(u, c) => InMessage(u, c)
  <2>1. queue \in Seq(AddServerUnitEvents)
    BY DEF TypeInv, TypeOK
  <2>2. AddUnit => 1 \in DOMAIN queue /\ Head(queue) = queue[1]
    BY <2>1 DEF AddUnit
  <2> QED BY <2>2 DEF InMessage
<1> QED BY <1>1, PassesNames DEF Names

\* A command that spawns a job names nothing new.
Spawns(cmd) ==
    /\ up /\ Command /\ cmd \in Requests
    /\ (InstallServer(cmd) \/ UpdateServer(cmd)) /\ Start(cmd)

LEMMA SpawnsIs ==
    ASSUME TypeInv, NEW cmd, Spawns(cmd)
    PROVE  /\ UNCHANGED <<published, configs, dirs, files, queue, eventQueue, up>>
           /\ Spawned(cmd) /\ cmd \in WorkerCmd /\ up' = up
           /\ GoodRow(NewJob(cmd)) /\ NewJob(cmd).target = None /\ NewJob(cmd).at \in Busy
           /\ IF cmd.kind = "UpdateServer" THEN cmd.unit_id \in DOMAIN configs
                                          ELSE cmd.unit_id \notin DOMAIN configs
<1>1. cmd \in WorkerCmd
  BY InstallationAssumption DEF Spawns
<1>2. /\ UNCHANGED <<published, configs, dirs, files, queue, eventQueue, up>> /\ Spawned(cmd)
  BY DEF Spawns, Start, InstallServer, UpdateServer
<1>3. IF cmd.kind = "UpdateServer" THEN cmd.unit_id \in DOMAIN configs
                                   ELSE cmd.unit_id \notin DOMAIN configs
  <2>1. CASE UpdateServer(cmd)
    BY <2>1 DEF UpdateServer
  <2>2. CASE InstallServer(cmd) /\ cmd.unit_id \in DOMAIN configs
    <3>1. UNCHANGED jobs /\ jobs' = Append(jobs, NewJob(cmd))
      BY <2>2 DEF InstallServer, Spawns, Start, Spawned
    <3>2. PICK T : jobs \in Seq(T) /\ NewJob(cmd) \in T
      <4>1. jobs \in Seq(Job \cup {NewJob(cmd)})
        BY DEF TypeInv, WorkersInv, WorkersTypeOK
      <4> QED BY <4>1
    <3> QED BY <3>1, <3>2
  <2>3. CASE InstallServer(cmd) /\ cmd.unit_id \notin DOMAIN configs
    BY <2>3 DEF InstallServer
  <2> QED BY <2>1, <2>2, <2>3 DEF Spawns
<1> QED BY <1>1, <1>2, <1>3, NewJobIsGood DEF TypeInv

LEMMA NextIs ==
    ASSUME TypeInv, [Next]_vars
    PROVE  \/ Passes
           \/ \E cmd : Spawns(cmd)
           \/ \E j \in DOMAIN jobs : Working(j)
<1>1. CASE up /\ Command
  <2>1. PICK cmd \in Requests : InstallServer(cmd) \/ UpdateServer(cmd)
    BY <1>1 DEF Command
  <2>2. Start(cmd) \/ UNCHANGED <<jobs, contested>>
    BY <2>1 DEF InstallServer, UpdateServer
  <2> QED BY <1>1, <2>1, <2>2 DEF Passes, Spawns
<1>2. CASE \E j \in 1 .. MaxJobs : Working(j)
  BY <1>2 DEF Working
<1> QED BY <1>1, <1>2 DEF Next, Passes

(***************************************************************************)
(* What every step leaves of the jobs that are there.                      *)
(***************************************************************************)

SameJob(x, r) ==
    /\ r.kind = x.kind /\ r.unit = x.unit /\ r.path = x.path /\ r.unit_file = x.unit_file
    /\ r.eula = x.eula /\ r.asked = x.asked /\ r.current = x.current

RowsStay ==
    /\ DOMAIN jobs \subseteq DOMAIN jobs' /\ contested \subseteq contested'
    /\ \A j \in DOMAIN jobs :
          /\ SameJob(jobs[j], jobs'[j])
          /\ jobs'[j].at \in Busy => jobs[j].at \in Busy

LEMMA SteppedIsSame ==
    ASSUME NEW x \in Job, NEW step, NEW t
    PROVE  SameJob(x, Stepped(x, step, t)) /\ Stepped(x, step, t).at = step
  BY SteppedIs DEF SameJob

LEMMA TakesSame ==
    ASSUME TypeInv, NEW j \in DOMAIN jobs, NEW step, NEW t, Takes(j, step, t)
    PROVE  /\ DOMAIN jobs' = DOMAIN jobs
           /\ \A i \in DOMAIN jobs : i # j => jobs'[i] = jobs[i]
           /\ SameJob(jobs[j], jobs'[j]) /\ jobs'[j].at = step /\ jobs'[j].target = t
           /\ jobs[j].at \in Busy
<1>1. jobs[j] \in Job
  BY DEF TypeInv, WorkersInv, GoodRow
<1> QED BY <1>1, TakesRows, SteppedIs, SteppedIsSame DEF TypeInv, Takes

LEMMA StepRowsStay ==
    ASSUME TypeInv, NEW j \in DOMAIN jobs, Working(j)
    PROVE  RowsStay
<1>1. PICK step, t : Takes(j, step, t)
  BY StepIsTaken DEF TypeInv, Working
<1> QED BY <1>1, TakesSame DEF RowsStay, SameJob, Working

LEMMA PassesRowsStay ==
    ASSUME TypeInv, Passes
    PROVE  RowsStay
<1>1. \A j \in DOMAIN jobs : jobs[j] \in Job
  BY DEF TypeInv, WorkersInv, GoodRow
<1>2. "dead" \notin Busy
  BY DEF Busy
<1> QED BY <1>1, <1>2, PassesIs, SteppedIsSame DEF RowsStay, SameJob

LEMMA SpawnRowsStay ==
    ASSUME TypeInv, NEW cmd, Spawns(cmd)
    PROVE  /\ RowsStay
           /\ DOMAIN jobs' = DOMAIN jobs \cup {Len(jobs) + 1} /\ Len(jobs) + 1 \notin DOMAIN jobs
           /\ \A i \in DOMAIN jobs : jobs'[i] = jobs[i]
           /\ jobs'[Len(jobs) + 1] = NewJob(cmd)
<1>1. /\ DOMAIN jobs' = DOMAIN jobs \cup {Len(jobs) + 1} /\ Len(jobs) + 1 \notin DOMAIN jobs
      /\ \A i \in DOMAIN jobs : jobs'[i] = jobs[i]
      /\ jobs'[Len(jobs) + 1] = NewJob(cmd)
  BY SpawnsIs, SpawnedRows DEF TypeInv
<1>2. contested \subseteq contested'
  BY DEF Spawns, Start
<1> QED BY <1>1, <1>2 DEF RowsStay, SameJob

LEMMA NextRowsStay ==
    ASSUME TypeInv, [Next]_vars
    PROVE  RowsStay
  BY NextIs, StepRowsStay, PassesRowsStay, SpawnRowsStay

\* What a step of a job does to the directories.
LEMMA StepDirs ==
    ASSUME TypeInv, NEW j \in DOMAIN jobs, JobStep(j),
           jobs[j].at \in {"eula", "download", "copy"} => jobs[j].path \in DOMAIN dirs
    PROVE  /\ DOMAIN dirs \subseteq DOMAIN dirs'
           /\ \A d \in DOMAIN dirs' :
                 dirs'[d].eula => \/ d \in DOMAIN dirs /\ dirs[d].eula
                                  \/ d = jobs[j].path /\ jobs[j].at = "eula"
           /\ \A d \in DOMAIN dirs : \A v \in dirs[d].whole :
                 \/ v \in dirs'[d].whole
                 \/ d = jobs[j].path /\ jobs[j].at = "download" /\ v = jobs[j].target
           /\ MakeDir(j) /\ ~Fails(j) => jobs[j].path \in DOMAIN dirs'
<1> DEFINE p == jobs[j].path
           Goal == /\ DOMAIN dirs \subseteq DOMAIN dirs'
                   /\ \A d \in DOMAIN dirs' :
                         dirs'[d].eula => \/ d \in DOMAIN dirs /\ dirs[d].eula
                                          \/ d = p /\ jobs[j].at = "eula"
                   /\ \A d \in DOMAIN dirs : \A v \in dirs[d].whole :
                         \/ v \in dirs'[d].whole
                         \/ d = p /\ jobs[j].at = "download" /\ v = jobs[j].target
                   /\ MakeDir(j) /\ ~Fails(j) => p \in DOMAIN dirs'
<1>1. \A d \in DOMAIN dirs : dirs[d] \in Directory
  BY DEF TypeInv, WorkersInv, WorkersTypeOK
<1>2. CASE MakeDir(j) /\ ~Fails(j)
  <2> DEFINE new == [eula |-> FALSE, whole |-> {}, partial |-> {}]
  <2>1. dirs' = [d \in DOMAIN dirs \cup {p} |-> IF d \in DOMAIN dirs THEN dirs[d] ELSE new]
    BY <1>2 DEF MakeDir, Created
  <2>2. new.eula = FALSE
    OBVIOUS
  <2> HIDE DEF new
  <2> QED BY <2>1, <2>2
<1>3. CASE UNCHANGED dirs /\ ~(MakeDir(j) /\ ~Fails(j))
  BY <1>3
<1>4. CASE AcceptEula(j) /\ ~UNCHANGED dirs
  <2>1. dirs' = [dirs EXCEPT ![p] = [dirs[p] EXCEPT !.eula = TRUE]] /\ jobs[j].at = "eula"
    BY <1>4 DEF AcceptEula, Fails, Nothing, At
  <2>2. PICK x \in Directory : x = dirs[p] /\ p \in DOMAIN dirs
    BY <1>1, <2>1
  <2>3. [x EXCEPT !.eula = TRUE].whole = x.whole
    BY DEF Directory
  <2>4. ~MakeDir(j)
    BY <2>1 DEF MakeDir, At
  <2> QED BY <2>1, <2>2, <2>3, <2>4
<1>5. CASE OpenJar(j) /\ ~UNCHANGED dirs
  <2>1. PICK t : t = jobs[j].target
    OBVIOUS
  <2>2. /\ dirs' = [dirs EXCEPT ![p] = [dirs[p] EXCEPT !.whole = @ \ {t},
                                                       !.partial = @ \cup {t}]]
        /\ jobs[j].at = "download"
    BY <1>5, <2>1 DEF OpenJar, Fails, Panics, Nothing, At
  <2>3. PICK x \in Directory : x = dirs[p] /\ p \in DOMAIN dirs
    BY <1>1, <2>2
  <2>4. PICK y : y = [x EXCEPT !.whole = @ \ {t}, !.partial = @ \cup {t}]
    OBVIOUS
  <2>5. y.whole = x.whole \ {t} /\ y.eula = x.eula
    BY <2>4 DEF Directory
  <2>6. dirs' = [dirs EXCEPT ![p] = y]
    BY <2>2, <2>3, <2>4
  <2>7. ~MakeDir(j)
    BY <2>2 DEF MakeDir, At
  <2> QED BY <2>1, <2>2, <2>3, <2>5, <2>6, <2>7
<1>6. CASE CopyJar(j) /\ ~UNCHANGED dirs
  <2>1. PICK t : t = jobs[j].target
    OBVIOUS
  <2>2. /\ dirs' = [dirs EXCEPT ![p] = [dirs[p] EXCEPT !.whole = @ \cup {t},
                                                       !.partial = @ \ {t}]]
        /\ jobs[j].at = "copy"
    BY <1>6, <2>1 DEF CopyJar, Fails, Nothing, At
  <2>3. PICK x \in Directory : x = dirs[p] /\ p \in DOMAIN dirs
    BY <1>1, <2>2
  <2>4. PICK y : y = [x EXCEPT !.whole = @ \cup {t}, !.partial = @ \ {t}]
    OBVIOUS
  <2>5. y.whole = x.whole \cup {t} /\ y.eula = x.eula
    BY <2>4 DEF Directory
  <2>6. dirs' = [dirs EXCEPT ![p] = y]
    BY <2>2, <2>3, <2>4
  <2>7. ~MakeDir(j)
    BY <2>2 DEF MakeDir, At
  <2> QED BY <2>1, <2>2, <2>3, <2>5, <2>6, <2>7
<1>7. \/ UNCHANGED dirs \/ (MakeDir(j) /\ ~Fails(j))
      \/ AcceptEula(j) \/ OpenJar(j) \/ CopyJar(j)
  BY DEF JobStep, Look, MakeDir, SayProgress, CheckForUpdate, Lookup, Patch, TruncateUnitFile,
     FillUnitFile, SendAdd, SayHowItEnded, Fails, Panics, Nothing
<1> QED BY <1>2, <1>3, <1>4, <1>5, <1>6, <1>7

(***************************************************************************)
(* A unit that is named has its directory, and so has a job past "mkdir";  *)
(* only a job that was asked to accept the EULA gets to that step.         *)
(***************************************************************************)

Late == {"made", "eula", "accepted", "check", "lookup", "download", "copy", "copied", "patch",
         "write", "fill", "add", "complete"}
NamesLead == \A u \in Units, c \in Config : Names(u, c) => c.path \in DOMAIN dirs
JobsLead ==
    \A j \in DOMAIN jobs :
        /\ jobs[j].at \in Late => jobs[j].path \in DOMAIN dirs
        /\ jobs[j].at = "eula" => jobs[j].eula
EulaInv == NamesLead /\ JobsLead /\ EulaOnlyIfAsked

LEMMA PassesEula ==
    ASSUME TypeInv, EulaInv, Passes
    PROVE  EulaInv'
<1>1. NamesLead'
  BY PassesOn, PassesIs DEF NamesLead, EulaInv
<1>2. \A j \in DOMAIN jobs : SameJob(jobs[j], jobs'[j])
  BY PassesRowsStay DEF RowsStay
<1>3. JobsLead'
  BY <1>2, PassesIs DEF JobsLead, EulaInv, SameJob, Late
<1>4. EulaOnlyIfAsked'
  BY <1>2, PassesIs DEF EulaOnlyIfAsked, EulaInv, SameJob
<1> QED BY <1>1, <1>3, <1>4 DEF EulaInv

\* Of an update the daemon names the unit, so that its directory is there.
LEMMA SpawnsEula ==
    ASSUME TypeInv, EulaInv, NEW cmd, Spawns(cmd)
    PROVE  EulaInv'
<1> DEFINE n == Len(jobs) + 1
           x == NewJob(cmd)
<1>1. /\ DOMAIN jobs' = DOMAIN jobs \cup {n} /\ jobs'[n] = x
      /\ \A i \in DOMAIN jobs : jobs'[i] = jobs[i]
      /\ UNCHANGED <<configs, dirs, files, queue>>
  BY SpawnRowsStay, SpawnsIs
<1>2. NamesLead'
  BY <1>1 DEF NamesLead, EulaInv, Names, InDaemon, InMessage, InFile
<1>3. (x.at \in Late => x.path \in DOMAIN dirs) /\ x.at # "eula"
  <2>1. CASE cmd.kind = "UpdateServer"
    <3>1. PICK u \in Units, c \in Config : u = cmd.unit_id /\ InDaemon(u, c)
      BY <2>1, SpawnsIs DEF InDaemon, TypeInv, WorkersInv, WorkersTypeOK
    <3>2. x.path = c.path /\ x.at = "check"
      BY <2>1, <3>1 DEF NewJob, InDaemon
    <3>3. c.path \in DOMAIN dirs
      BY <3>1 DEF EulaInv, NamesLead, Names
    <3> QED BY <3>2, <3>3
  <2>2. CASE cmd.kind # "UpdateServer"
    <3>1. cmd.kind = "InstallServer"
      BY <2>2, SpawnsIs DEF WorkerCmd
    <3> QED BY <3>1 DEF NewJob, Late
  <2> QED BY <2>1, <2>2
<1>4. JobsLead'
  BY <1>1, <1>3 DEF JobsLead, EulaInv
<1>5. EulaOnlyIfAsked'
  BY <1>1 DEF EulaOnlyIfAsked, EulaInv
<1> QED BY <1>2, <1>4, <1>5 DEF EulaInv

LEMMA WorkingEula ==
    ASSUME TypeInv, EulaInv, NEW j \in DOMAIN jobs, Working(j)
    PROVE  EulaInv'
<1>1. JobStep(j) /\ DOMAIN jobs' = DOMAIN jobs /\ RowsStay
  BY StepRowsStay, StepIsTaken, TakesSame DEF Working, TypeInv
<1>2. /\ DOMAIN dirs \subseteq DOMAIN dirs'
      /\ \A d \in DOMAIN dirs' :
            dirs'[d].eula => \/ d \in DOMAIN dirs /\ dirs[d].eula
                             \/ d = jobs[j].path /\ jobs[j].at = "eula"
      /\ MakeDir(j) /\ ~Fails(j) => jobs[j].path \in DOMAIN dirs'
  BY <1>1, StepDirs DEF EulaInv, JobsLead, Late
<1>3. NamesLead'
  <2>1. jobs[j].at \in {"fill", "add"} => Result(j).path \in DOMAIN dirs
    BY DEF EulaInv, JobsLead, Late, Result
  <2> QED BY <1>1, <1>2, <2>1, StepSays DEF EulaInv, NamesLead
<1>4. JobsLead'
  <2>1. PICK step, t : Takes(j, step, t)
    BY <1>1, StepIsTaken DEF TypeInv
  <2>2. /\ \A i \in DOMAIN jobs : i # j => jobs'[i] = jobs[i]
        /\ SameJob(jobs[j], jobs'[j]) /\ jobs'[j].at = step
    BY <2>1, TakesSame
  <2>3. step \in Late => jobs[j].path \in DOMAIN dirs'
    <3>1. CASE jobs[j].at = "mkdir" /\ step \in Late
      <4>1. ~Fails(j)
        BY <2>2, <3>1, GoesToAt DEF Fails, Late, TypeInv
      <4>2. MakeDir(j)
        BY <1>1, <3>1 DEF JobStep, At, Look, AcceptEula, SayProgress, CheckForUpdate, Lookup,
           OpenJar, CopyJar, Patch, TruncateUnitFile, FillUnitFile, SendAdd, SayHowItEnded
      <4> QED BY <1>2, <4>1, <4>2
    <3>2. CASE jobs[j].at # "mkdir" /\ step \in Late
      <4>1. jobs[j].at \in Late
        BY <2>1, <3>2 DEF Takes, NextAt, Late
      <4> QED BY <1>2, <4>1 DEF EulaInv, JobsLead
    <3> QED BY <3>1, <3>2
  <2>4. step = "eula" => jobs[j].eula
    <3>1. CASE step = "eula"
      <4>1. jobs[j].at = "made"
        BY <2>1, <3>1 DEF Takes, NextAt
      <4>2. SayProgress(j)
        BY <1>1, <4>1 DEF JobStep, At, Look, MakeDir, AcceptEula, CheckForUpdate, Lookup,
           OpenJar, CopyJar, Patch, TruncateUnitFile, FillUnitFile, SendAdd, SayHowItEnded
      <4>3. GoesTo(j, IF jobs[j].eula THEN "eula" ELSE "lookup")
        BY <4>1, <4>2 DEF SayProgress, At, Reports
      <4>4. jobs'[j].at = IF jobs[j].eula THEN "eula" ELSE "lookup"
        BY <4>3, GoesToAt DEF TypeInv
      <4> QED BY <2>2, <3>1, <4>4
    <3> QED BY <3>1
  <2> QED BY <1>1, <1>2, <2>2, <2>3, <2>4 DEF EulaInv, JobsLead, SameJob
<1>5. EulaOnlyIfAsked'
  BY <1>1, <1>2 DEF EulaInv, EulaOnlyIfAsked, JobsLead, RowsStay, SameJob
<1> QED BY <1>3, <1>4, <1>5 DEF EulaInv

LEMMA EulaNext ==
    ASSUME TypeInv, EulaInv, [Next]_vars
    PROVE  EulaInv'
  BY NextIs, PassesEula, SpawnsEula, WorkingEula

\* At the start the directories are those of the units, and the files say what
\* the daemon has.
LEMMA InitNames ==
    ASSUME Init, TypeInv, NEW u \in Units, NEW c \in Config, Names(u, c)
    PROVE  InDaemon(u, c)
<1>1. CASE InFile(u, c)
  <2> DEFINE f == c.unit_file
             owners == {v \in DOMAIN configs : configs[v].unit_file = f}
             v == CHOOSE v \in DOMAIN configs : configs[v].unit_file = f
  <2>1. f \in Files /\ files[f] # None /\ files[f] = AsFile(u, c)
    BY <1>1 DEF InFile, Config
  <2>2. files[f] = IF \A w \in DOMAIN configs : configs[w].unit_file # f THEN None
                   ELSE AsFile(v, configs[v])
    BY <2>1 DEF Init, WorkersInit
  <2>3. v \in DOMAIN configs /\ configs[v].unit_file = f /\ files[f] = AsFile(v, configs[v])
    BY <2>1, <2>2
  <2> HIDE DEF v
  <2>4. PICK d \in Config : d = configs[v]
    BY <2>3 DEF TypeInv, WorkersInv, WorkersTypeOK
  <2>5. v = u /\ d.path = c.path /\ d.version = c.version
    BY <2>1, <2>3, <2>4 DEF AsFile
  <2>6. d = c
    BY <2>3, <2>4, <2>5 DEF Config
  <2> QED BY <2>3, <2>4, <2>5, <2>6 DEF InDaemon
<1>2. ~InMessage(u, c)
  BY DEF Init, InMessage
<1> QED BY <1>1, <1>2 DEF Names

LEMMA InitDirs ==
    ASSUME Init, TypeInv
    PROVE  /\ \A u \in DOMAIN configs : configs[u].path \in DOMAIN dirs
           /\ \A d \in DOMAIN dirs : dirs[d].eula = FALSE
           /\ \A u \in DOMAIN configs : configs[u].version \in dirs[configs[u].path].whole
<1> DEFINE at(d) == {v \in DOMAIN configs : configs[v].path = d}
           whole(d) == {configs[u].version : u \in at(d)}
<1>1. /\ DOMAIN dirs = {configs[u].path : u \in DOMAIN configs}
      /\ \A d \in DOMAIN dirs : dirs[d] = [eula |-> FALSE, partial |-> {}, whole |-> whole(d)]
  BY DEF Init, WorkersInit
<1>2. \A u \in DOMAIN configs : configs[u].version \in whole(configs[u].path)
  OBVIOUS
<1> HIDE DEF whole
<1>3. ASSUME NEW d \in DOMAIN dirs
      PROVE  dirs[d].eula = FALSE /\ dirs[d].whole = whole(d)
  <2>1. PICK w : w = whole(d)
    OBVIOUS
  <2>2. dirs[d] = [eula |-> FALSE, partial |-> {}, whole |-> w]
    BY <1>1, <2>1
  <2> QED BY <2>1, <2>2
<1>4. \A u \in DOMAIN configs : configs[u].path \in DOMAIN dirs
  BY DEF Init, WorkersInit
<1>5. \A u \in DOMAIN configs : configs[u].version \in dirs[configs[u].path].whole
  BY <1>2, <1>3, <1>4
<1> QED BY <1>3, <1>4, <1>5

LEMMA EulaInit ==
    ASSUME Init, TypeInv
    PROVE  EulaInv
<1>1. NamesLead
  BY InitNames, InitDirs DEF NamesLead, InDaemon
<1>2. JobsLead
  BY DEF JobsLead, Init, WorkersInit
<1>3. EulaOnlyIfAsked
  BY InitDirs DEF EulaOnlyIfAsked
<1> QED BY <1>1, <1>2, <1>3 DEF EulaInv

LEMMA EulaAlways == Spec => [](TypeInv /\ EulaInv)
<1>1. Init => TypeInv /\ EulaInv
  BY TypesInit, EulaInit
<1>2. TypeInv /\ EulaInv /\ [Next]_vars => (TypeInv /\ EulaInv)'
  BY TypesNext, EulaNext
<1> QED BY <1>1, <1>2, PTL DEF Spec

\* "Implementations MUST NOT accept the EULA if `eula` is not set" (install.rs,
\* line 27), whatever steps of whatever jobs fail, whoever else works in the
\* directory, and however often the daemon ends and comes back.
THEOREM EulaIsAskedFor == Spec => []EulaOnlyIfAsked
<1>1. EulaInv => EulaOnlyIfAsked
  BY DEF EulaInv
<1> QED BY <1>1, EulaAlways, PTL

\* The directory of a unit that the daemon has is there, and so is the one that a
\* unit file names, whatever jobs failed and met each other in it: create_servers
\* and a start after it find one.
THEOREM UnitsHaveDirectories ==
    Spec => [](/\ \A u \in DOMAIN configs : configs[u].path \in DOMAIN dirs
               /\ \A f \in Files :
                     files[f] \in {None, Broken} \/ files[f].path \in DOMAIN dirs)
<1>1. ASSUME TypeInv, EulaInv
      PROVE  /\ \A u \in DOMAIN configs : configs[u].path \in DOMAIN dirs
             /\ \A f \in Files :
                   files[f] \in {None, Broken} \/ files[f].path \in DOMAIN dirs
  <2>1. ASSUME NEW u \in DOMAIN configs
        PROVE  configs[u].path \in DOMAIN dirs
    <3>1. u \in Units /\ configs[u] \in Config
      BY <1>1 DEF TypeInv, WorkersInv, WorkersTypeOK
    <3> QED BY <1>1, <3>1 DEF EulaInv, NamesLead, Names, InDaemon
  <2>2. ASSUME NEW f \in Files, files[f] \notin {None, Broken}
        PROVE  files[f].path \in DOMAIN dirs
    <3>1. PICK x \in UnitFile : x = files[f]
      BY <1>1, <2>2 DEF TypeInv, WorkersInv, WorkersTypeOK
    <3> DEFINE c == [path |-> x.path, version |-> x.version, unit_file |-> f]
    <3>2. c \in Config /\ x.unit \in Units /\ AsFile(x.unit, c) = x
      BY DEF Config, UnitFile, AsFile
    <3>3. c.unit_file = f /\ c.path = x.path
      OBVIOUS
    <3> HIDE DEF c
    <3>4. Names(x.unit, c)
      BY <2>2, <3>1, <3>2, <3>3 DEF Names, InFile
    <3> QED BY <1>1, <3>1, <3>2, <3>3, <3>4 DEF EulaInv, NamesLead
  <2> QED BY <2>1, <2>2
<1> QED BY <1>1, EulaAlways, PTL

(***************************************************************************)
(* Jobs that meet.  Of two that share a unit, a directory or a file while  *)
(* both are at work, both are contested; and so is a job whose unit is on  *)
(* its way to the daemon from another one.                                 *)
(***************************************************************************)

Share(x, y) ==
    x.unit = y.unit \/ x.path = y.path \/ (x.unit_file = y.unit_file /\ x.unit_file # None)
Alone ==
    \A j \in DOMAIN jobs \ contested : jobs[j].at \in Busy =>
        \A k \in DOMAIN jobs : k # j /\ jobs[k].at \in Busy => ~Share(jobs[j], jobs[k])
SentByJob ==
    \A i \in DOMAIN queue : \E k \in DOMAIN jobs :
        /\ jobs[k].at \in {"complete", "done"}
        /\ queue[i] = AddServerUnitEvent(jobs[k].unit, Result(k))
SentLast ==
    \A j \in DOMAIN jobs \ contested :
        jobs[j].at \in Busy /\ InQueue(jobs[j].unit) # {} => jobs[j].at = "complete"
MeetInv == Alone /\ SentByJob /\ SentLast

LEMMA ShareIsSymmetric == \A x, y : Share(x, y) => Share(y, x)
  BY DEF Share

LEMMA SpawnsContest ==
    ASSUME TypeInv, NEW cmd, Spawns(cmd)
    PROVE  /\ Rivals(NewJob(cmd)) \subseteq contested'
           /\ Len(jobs) + 1 \notin contested' => Rivals(NewJob(cmd)) = {}
           /\ \A j \in DOMAIN jobs : jobs[j].at \in Busy /\ Share(jobs[j], NewJob(cmd)) =>
                 j \in Rivals(NewJob(cmd))
           /\ \A j \in DOMAIN jobs : jobs[j].unit = NewJob(cmd).unit /\ InQueue(jobs[j].unit) # {} =>
                 j \in Rivals(NewJob(cmd))
  BY DEF Spawns, Start, Rivals, Share

LEMMA PassesMeet ==
    ASSUME TypeInv, MeetInv, Passes
    PROVE  MeetInv'
<1>1. /\ RowsStay /\ DOMAIN jobs' = DOMAIN jobs /\ contested' = contested
      /\ \A j \in DOMAIN jobs : jobs'[j].at \in Busy => jobs'[j] = jobs[j]
  BY PassesRowsStay, PassesIs DEF Busy
<1>2. Alone'
  BY <1>1 DEF MeetInv, Alone
<1>3. \A u : InQueue(u)' # {} => InQueue(u) # {}
  BY PassesIs DEF InQueue
<1>4. SentLast'
  BY <1>1, <1>3 DEF MeetInv, SentLast
<1>5. SentByJob'
  <2>1. CASE Exit
    <3>1. DOMAIN queue' = {}
      BY <2>1 DEF Exit
    <3> QED BY <3>1 DEF SentByJob
  <2>2. CASE ~Exit
    <3>1. UNCHANGED jobs
      BY <2>2 DEF Passes, AddUnit, Restart, TakeEvent, vars, workVars
    <3> QED BY <3>1, PassesIs DEF MeetInv, SentByJob, Result
  <2> QED BY <2>1, <2>2
<1> QED BY <1>2, <1>4, <1>5 DEF MeetInv

LEMMA SpawnsMeet ==
    ASSUME TypeInv, MeetInv, NEW cmd, Spawns(cmd)
    PROVE  MeetInv'
<1> DEFINE n == Len(jobs) + 1
           x == NewJob(cmd)
<1>1. /\ RowsStay /\ DOMAIN jobs' = DOMAIN jobs \cup {n} /\ n \notin DOMAIN jobs /\ jobs'[n] = x
      /\ \A i \in DOMAIN jobs : jobs'[i] = jobs[i]
      /\ UNCHANGED queue
  BY SpawnRowsStay, SpawnsIs
<1>2. contested \subseteq contested'
  BY <1>1 DEF RowsStay
<1>3. /\ Rivals(x) \subseteq contested' /\ (n \notin contested' => Rivals(x) = {})
      /\ \A j \in DOMAIN jobs : jobs[j].at \in Busy /\ Share(jobs[j], x) => j \in Rivals(x)
      /\ \A j \in DOMAIN jobs : jobs[j].unit = x.unit /\ InQueue(jobs[j].unit) # {} => j \in Rivals(x)
  BY SpawnsContest
<1> HIDE DEF n, x
<1>4. Alone'
  BY <1>1, <1>2, <1>3, ShareIsSymmetric DEF MeetInv, Alone
<1>5. SentByJob'
  <2>1. ASSUME NEW i \in DOMAIN queue
        PROVE  \E k \in DOMAIN jobs' : /\ jobs'[k].at \in {"complete", "done"}
                                       /\ queue'[i] = AddServerUnitEvent(jobs'[k].unit, Result(k)')
    <3>1. PICK k \in DOMAIN jobs : /\ jobs[k].at \in {"complete", "done"}
                                   /\ queue[i] = AddServerUnitEvent(jobs[k].unit, Result(k))
      BY DEF MeetInv, SentByJob
    <3>2. Result(k)' = Result(k)
      BY <1>1 DEF Result
    <3> QED BY <1>1, <3>1, <3>2
  <2> QED BY <1>1, <2>1 DEF SentByJob
<1>6. SentLast'
  <2>1. ASSUME InQueue(x.unit) # {}
        PROVE  \E k \in DOMAIN jobs : jobs[k].unit = x.unit
    BY <2>1, EventIs DEF InQueue, MeetInv, SentByJob
  <2>2. \A u : InQueue(u)' = InQueue(u)
    BY <1>1 DEF InQueue
  <2> QED BY <1>1, <1>2, <1>3, <2>1, <2>2 DEF MeetInv, SentLast
<1> QED BY <1>4, <1>5, <1>6 DEF MeetInv

LEMMA StepQueue ==
    ASSUME TypeInv, NEW j \in DOMAIN jobs, JobStep(j)
    PROVE  \/ UNCHANGED queue /\ ~SendAdd(j)
           \/ /\ SendAdd(j) /\ jobs[j].at = "add" /\ jobs'[j].at = "complete"
              /\ DOMAIN queue' = DOMAIN queue \cup {Len(queue) + 1}
              /\ \A i \in DOMAIN queue : queue'[i] = queue[i]
              /\ queue'[Len(queue) + 1] = AddServerUnitEvent(jobs[j].unit, Result(j))
<1>1. UNCHANGED queue \/ SendAdd(j)
  BY DEF JobStep, Look, MakeDir, AcceptEula, SayProgress, CheckForUpdate, Lookup, OpenJar, CopyJar,
     Patch, TruncateUnitFile, FillUnitFile, SayHowItEnded, Fails, Panics, Nothing, Reports
<1>2. CASE SendAdd(j)
  <2> DEFINE m == AddServerUnitEvent(jobs[j].unit, Result(j))
  <2>1. queue' = Append(queue, m) /\ queue \in Seq(AddServerUnitEvents \cup {m})
        /\ GoesTo(j, "complete") /\ At(j, "add")
    BY <1>2 DEF SendAdd, TypeInv, TypeOK
  <2> HIDE DEF m
  <2>2. /\ DOMAIN queue' = DOMAIN queue \cup {Len(queue) + 1}
        /\ \A i \in DOMAIN queue : queue'[i] = queue[i]
        /\ queue'[Len(queue) + 1] = m
    BY <2>1
  <2>3. jobs'[j].at = "complete"
    BY <2>1, GoesToAt DEF TypeInv
  <2> QED BY <1>2, <2>1, <2>2, <2>3 DEF m, At
<1> QED BY <1>1, <1>2

LEMMA WorkingMeet ==
    ASSUME TypeInv, MeetInv, NEW j \in DOMAIN jobs, Working(j)
    PROVE  MeetInv'
<1>1. PICK step, t : Takes(j, step, t)
  BY StepIsTaken DEF TypeInv, Working
<1>2. /\ RowsStay /\ DOMAIN jobs' = DOMAIN jobs /\ contested' = contested
      /\ \A i \in DOMAIN jobs : i # j => jobs'[i] = jobs[i]
      /\ SameJob(jobs[j], jobs'[j]) /\ jobs'[j].at = step /\ jobs'[j].target = t
      /\ jobs[j].at \in Busy /\ JobStep(j)
  BY <1>1, TakesSame, StepRowsStay DEF Working
<1>3. \A i, k \in DOMAIN jobs : Share(jobs'[i], jobs'[k]) => Share(jobs[i], jobs[k])
  BY <1>2 DEF RowsStay, SameJob, Share
<1>4. Alone'
  BY <1>2, <1>3 DEF MeetInv, Alone, RowsStay
<1>5. ASSUME NEW k \in DOMAIN jobs, jobs[k].at \in {"add", "complete", "done"}
      PROVE  Result(k)' = Result(k)
  <2>1. t = jobs[j].target \/ k # j
    BY <1>1, <1>5 DEF Takes, NextAt
  <2> QED BY <1>2, <2>1 DEF Result, SameJob
<1>6. \A k \in DOMAIN jobs : jobs[k].at \in {"complete", "done"} => jobs'[k].at \in {"complete", "done"}
  BY <1>1, <1>2 DEF Takes, NextAt, Busy, Sending
<1>7. \A k \in DOMAIN jobs : jobs'[k].unit = jobs[k].unit
  BY <1>2 DEF SameJob
<1>8. SentByJob'
  <2>1. CASE UNCHANGED queue
    <3>1. ASSUME NEW i \in DOMAIN queue
          PROVE  \E k \in DOMAIN jobs' : /\ jobs'[k].at \in {"complete", "done"}
                                         /\ queue'[i] = AddServerUnitEvent(jobs'[k].unit, Result(k)')
      <4>1. PICK k \in DOMAIN jobs : /\ jobs[k].at \in {"complete", "done"}
                                     /\ queue[i] = AddServerUnitEvent(jobs[k].unit, Result(k))
        BY DEF MeetInv, SentByJob
      <4> QED BY <1>2, <1>5, <1>6, <1>7, <2>1, <4>1
    <3> QED BY <2>1, <3>1 DEF SentByJob
  <2>2. CASE ~UNCHANGED queue
    <3>1. /\ jobs[j].at = "add" /\ jobs'[j].at = "complete"
          /\ DOMAIN queue' = DOMAIN queue \cup {Len(queue) + 1}
          /\ \A i \in DOMAIN queue : queue'[i] = queue[i]
          /\ queue'[Len(queue) + 1] = AddServerUnitEvent(jobs[j].unit, Result(j))
      BY <1>2, <2>2, StepQueue
    <3>2. ASSUME NEW i \in DOMAIN queue'
          PROVE  \E k \in DOMAIN jobs' : /\ jobs'[k].at \in {"complete", "done"}
                                         /\ queue'[i] = AddServerUnitEvent(jobs'[k].unit, Result(k)')
      <4>1. CASE i = Len(queue) + 1
        BY <1>2, <1>5, <1>7, <3>1, <4>1
      <4>2. CASE i \in DOMAIN queue
        <5>1. PICK k \in DOMAIN jobs : /\ jobs[k].at \in {"complete", "done"}
                                       /\ queue[i] = AddServerUnitEvent(jobs[k].unit, Result(k))
          BY <4>2 DEF MeetInv, SentByJob
        <5> QED BY <1>2, <1>5, <1>6, <1>7, <3>1, <4>2, <5>1
      <4> QED BY <3>1, <4>1, <4>2
    <3> QED BY <3>2 DEF SentByJob
  <2> QED BY <2>1, <2>2
<1>9. SentLast'
  <2>1. ASSUME NEW i \in DOMAIN jobs \ contested, jobs'[i].at \in Busy, InQueue(jobs[i].unit)' # {}
        PROVE  jobs'[i].at = "complete"
    <3>1. CASE InQueue(jobs[i].unit) # {}
      <4>1. jobs[i].at = "complete"
        BY <1>2, <2>1, <3>1 DEF MeetInv, SentLast, RowsStay
      <4>2. CASE i = j
        BY <1>1, <1>2, <2>1, <4>1, <4>2 DEF Takes, NextAt, Busy, Sending
      <4> QED BY <1>2, <4>1, <4>2
    <3>2. CASE InQueue(jobs[i].unit) = {}
      <4>1. jobs'[j].at = "complete" /\ jobs[j].unit = jobs[i].unit
        <5>1. PICK m \in DOMAIN queue' : queue'[m].unit_id = jobs[i].unit
          BY <1>7, <2>1 DEF InQueue
        <5>2. ~(m \in DOMAIN queue /\ queue'[m] = queue[m])
          BY <3>2, <5>1 DEF InQueue
        <5>3. /\ jobs'[j].at = "complete"
              /\ queue'[m] = AddServerUnitEvent(jobs[j].unit, Result(j))
          BY <1>2, <5>1, <5>2, StepQueue
        <5> QED BY <5>1, <5>3, EventIs
      <4>2. CASE i # j
        BY <1>2, <2>1, <4>1, <4>2 DEF MeetInv, Alone, RowsStay, Share
      <4> QED BY <4>1, <4>2
    <3> QED BY <3>1, <3>2
  <2> QED BY <1>2, <1>7, <2>1 DEF SentLast
<1> QED BY <1>4, <1>8, <1>9 DEF MeetInv

(***************************************************************************)
(* Jars.  As long as a directory is calm, nobody but the jobs of one unit  *)
(* has been at work in it, one after the other, and what is said of the    *)
(* unit is the truth about the directory.  A job that works there starts   *)
(* from what was said when it was spawned, and fetches a version that is   *)
(* not the unit's: the jar in use is not truncated.                        *)
(***************************************************************************)

Calm(u, path) ==
    \A j \in DOMAIN jobs : jobs[j].path = path => jobs[j].unit = u /\ j \notin contested
Early == {"mkdir", "made", "eula", "accepted", "check", "lookup", "download", "copy", "copied",
          "patch", "write", "fill"}

NamedWhole ==
    \A u \in Units, c \in Config :
        Names(u, c) /\ Calm(u, c.path) => c.version \in dirs[c.path].whole
OneFile ==
    \A u, v \in Units, c, d \in Config :
        Names(u, c) /\ Names(v, d) /\ c.path = d.path /\ Calm(u, c.path)
            => u = v /\ c.unit_file = d.unit_file
FetchedWhole ==
    \A j \in DOMAIN jobs \ contested :
        jobs[j].at \in {"write", "fill", "add"} => jobs[j].target \in dirs[jobs[j].path].whole
NothingNew ==
    \A j \in DOMAIN jobs, u, v \in Units, c \in Config :
        Names(u, c) /\ jobs[j].path = c.path /\ jobs[j].unit = v /\ Calm(v, c.path)
            => /\ jobs[j].at \in Early \cup {"add"} =>
                     u = v /\ c.unit_file = jobs[j].unit_file
               /\ jobs[j].at \in Early =>
                     jobs[j].kind = "update" /\ c.version = jobs[j].current
               /\ jobs[j].at = "add" /\ InFile(u, c) => c.version = jobs[j].target
SameVersion ==
    \A u \in Units, c, d \in Config :
        InDaemon(u, c) /\ InFile(u, d) /\ c.path = d.path /\ Calm(u, c.path)
            => \/ c.version = d.version
               \/ InQueue(u) # {}
               \/ \E j \in DOMAIN jobs : jobs[j].unit = u /\ jobs[j].at = "add"
MessageVersion ==
    \A u \in Units, c, d \in Config :
        InMessage(u, c) /\ InFile(u, d) /\ c.path = d.path /\ Calm(u, c.path)
            => c.version = d.version
NewTarget ==
    \A j \in DOMAIN jobs :
        jobs[j].kind = "update" /\ jobs[j].at \in WithTarget => jobs[j].target # jobs[j].current
WholeInv ==
    NamedWhole /\ OneFile /\ FetchedWhole /\ NothingNew /\ SameVersion /\ MessageVersion /\ NewTarget

LEMMA CalmStays ==
    ASSUME RowsStay, NEW u, NEW path, Calm(u, path)'
    PROVE  Calm(u, path)
  BY DEF Calm, RowsStay, SameJob

LEMMA OneMessageLeaves ==
    ASSUME TypeInv, AddUnit
    PROVE  /\ 1 \in DOMAIN queue /\ Head(queue) = queue[1]
           /\ \A i \in DOMAIN queue : i # 1 => i - 1 \in DOMAIN queue' /\ queue'[i - 1] = queue[i]
<1>1. queue \in Seq(AddServerUnitEvents) /\ queue' = Tail(queue) /\ queue # <<>>
  BY DEF AddUnit, TypeInv, TypeOK
<1> QED BY <1>1

LEMMA InMessageIs ==
    ASSUME NEW u, NEW c, InMessage(u, c)
    PROVE  InQueue(u) # {}
  BY EventIs DEF InMessage, InQueue

LEMMA WholeInit ==
    ASSUME Init, TypeInv
    PROVE  WholeInv
<1>1. \A u \in Units, c \in Config : Names(u, c) => InDaemon(u, c)
  BY InitNames
<1>2. DOMAIN jobs = {}
  BY DEF Init, WorkersInit
<1>3. NamedWhole
  BY <1>1, InitDirs DEF NamedWhole, InDaemon
<1>4. OneFile
  <2>1. \A u, v \in DOMAIN configs : u # v => configs[u].path # configs[v].path
    BY InstallationAssumption DEF Init
  <2> QED BY <1>1, <2>1 DEF OneFile, InDaemon
<1>5. SameVersion /\ MessageVersion
  BY <1>1 DEF SameVersion, MessageVersion, InDaemon, Names
<1>6. FetchedWhole /\ NothingNew /\ NewTarget
  BY <1>2 DEF FetchedWhole, NothingNew, NewTarget
<1> QED BY <1>3, <1>4, <1>5, <1>6 DEF WholeInv

LEMMA PassesWhole ==
    ASSUME TypeInv, EulaInv, MeetInv, WholeInv, Passes
    PROVE  WholeInv'
<1>1. /\ RowsStay /\ DOMAIN jobs' = DOMAIN jobs /\ UNCHANGED <<contested, dirs, files>>
      /\ \A j \in DOMAIN jobs : jobs'[j] = jobs[j] \/ jobs'[j].at = "dead"
      /\ \A j \in DOMAIN jobs : jobs'[j].unit = jobs[j].unit /\ jobs'[j].path = jobs[j].path
  BY PassesRowsStay, PassesIs DEF RowsStay, SameJob
<1>2. \A u \in Units, c \in Config :
         /\ Names(u, c)' => Names(u, c)
         /\ InFile(u, c)' <=> InFile(u, c)
         /\ InMessage(u, c)' => InMessage(u, c)
  BY PassesNames, PassesOn
<1>3. \A u, path : Calm(u, path)' => Calm(u, path)
  BY <1>1, CalmStays
<1>4. NamedWhole'
  BY <1>1, <1>2, <1>3 DEF WholeInv, NamedWhole
<1>5. OneFile'
  BY <1>2, <1>3 DEF WholeInv, OneFile
<1>6. FetchedWhole'
  BY <1>1 DEF WholeInv, FetchedWhole
<1>7. NothingNew'
  <2>1. ASSUME NEW j \in DOMAIN jobs, NEW u \in Units, NEW v \in Units, NEW c \in Config,
               Names(u, c)', jobs'[j].path = c.path, jobs'[j].unit = v, Calm(v, c.path)'
        PROVE  /\ jobs'[j].at \in Early \cup {"add"} =>
                     u = v /\ c.unit_file = jobs'[j].unit_file
               /\ jobs'[j].at \in Early =>
                     jobs'[j].kind = "update" /\ c.version = jobs'[j].current
               /\ jobs'[j].at = "add" /\ InFile(u, c)' => c.version = jobs'[j].target
    <3>1. Names(u, c) /\ Calm(v, c.path) /\ c.path = jobs[j].path /\ v = jobs[j].unit
      BY <1>1, <1>2, <1>3, <2>1
    <3>2. CASE jobs'[j].at = "dead"
      BY <3>2 DEF Early
    <3>3. CASE jobs'[j] = jobs[j]
      BY <1>2, <3>1, <3>3 DEF WholeInv, NothingNew
    <3> QED BY <1>1, <3>2, <3>3
  <2> QED BY <1>1, <2>1 DEF NothingNew
<1>8. SameVersion'
  <2>1. ASSUME NEW u \in Units, NEW c \in Config, NEW d \in Config,
               InDaemon(u, c)', InFile(u, d)', c.path = d.path, Calm(u, c.path)'
        PROVE  \/ c.version = d.version
               \/ InQueue(u)' # {}
               \/ \E j \in DOMAIN jobs' : jobs'[j].unit = u /\ jobs'[j].at = "add"
    <3>1. InFile(u, d) /\ Calm(u, c.path)
      BY <1>2, <1>3, <2>1
    <3>2. CASE InDaemon(u, c) /\ UNCHANGED <<queue, jobs>>
      <4>1. InQueue(u)' = InQueue(u)
        BY <3>2 DEF InQueue
      <4> QED BY <2>1, <3>1, <3>2, <4>1 DEF WholeInv, SameVersion
    <3>3. CASE AddUnit
      <4>1. UNCHANGED jobs
        BY <3>3 DEF AddUnit
      <4>2. CASE Head(queue).unit_id = u
        <5>1. configs'[u] = Head(queue).config
          BY <3>3, <4>2 DEF AddUnit, Added
        <5>2. InMessage(u, c)
          BY <2>1, <3>3, <4>2, <5>1, OneMessageLeaves, MessageIs DEF InMessage, InDaemon
        <5> QED BY <2>1, <3>1, <5>2 DEF WholeInv, MessageVersion
      <4>3. CASE Head(queue).unit_id # u
        <5>1. InDaemon(u, c)
          BY <2>1, <3>3, <4>3 DEF AddUnit, Added, InDaemon
        <5>2. InQueue(u) # {} => InQueue(u)' # {}
          BY <3>3, <4>3, OneMessageLeaves DEF InQueue
        <5> QED BY <2>1, <3>1, <4>1, <5>1, <5>2 DEF WholeInv, SameVersion
      <4> QED BY <4>2, <4>3
    <3>4. CASE Restart
      <4>1. InDaemon(u, c) \/ InFile(u, c)
        BY <2>1, <3>4, PassesNames DEF AddUnit, Restart
      <4>2. CASE InFile(u, c)
        <5>1. c.unit_file = d.unit_file
          BY <2>1, <3>1, <4>2 DEF WholeInv, OneFile, Names
        <5> QED BY <3>1, <4>2, <5>1 DEF InFile, AsFile
      <4>3. CASE InDaemon(u, c)
        BY <3>2, <3>4, <4>3 DEF Restart
      <4> QED BY <4>1, <4>2, <4>3
    <3>5. CASE Exit
      <4>1. DOMAIN configs' = {}
        BY <3>5 DEF Exit
      <4> QED BY <2>1, <4>1 DEF InDaemon
    <3>6. CASE ~AddUnit /\ ~Restart /\ ~Exit
      BY <2>1, <3>2, <3>6 DEF Passes, TakeEvent, Command, InstallServer, UpdateServer, vars,
         workVars, InDaemon
    <3> QED BY <3>3, <3>4, <3>5, <3>6
  <2> QED BY <2>1 DEF SameVersion
<1>9. MessageVersion'
  BY <1>2, <1>3 DEF WholeInv, MessageVersion
<1>10. NewTarget'
  BY <1>1 DEF WholeInv, NewTarget, WithTarget
<1> QED BY <1>4, <1>5, <1>6, <1>7, <1>8, <1>9, <1>10 DEF WholeInv

LEMMA SpawnsWhole ==
    ASSUME TypeInv, EulaInv, MeetInv, WholeInv, NEW cmd, Spawns(cmd)
    PROVE  WholeInv'
<1> DEFINE n == Len(jobs) + 1
           x == NewJob(cmd)
<1>1. /\ RowsStay /\ DOMAIN jobs' = DOMAIN jobs \cup {n} /\ n \notin DOMAIN jobs /\ jobs'[n] = x
      /\ \A i \in DOMAIN jobs : jobs'[i] = jobs[i]
      /\ UNCHANGED <<configs, dirs, files, queue>>
  BY SpawnRowsStay, SpawnsIs
<1>2. \A u, c : /\ InDaemon(u, c)' = InDaemon(u, c) /\ InMessage(u, c)' = InMessage(u, c)
                /\ InFile(u, c)' = InFile(u, c) /\ Names(u, c)' = Names(u, c)
                /\ InQueue(u)' = InQueue(u)
  BY <1>1 DEF InDaemon, InMessage, InFile, Names, InQueue
<1>3. \A u, path : Calm(u, path)' => Calm(u, path)
  BY <1>1, CalmStays
<1>4. x.at \in {"look", "check"} /\ (x.at = "check" =>
          \E u \in Units, c \in Config :
             /\ InDaemon(u, c) /\ x.unit = u /\ x.path = c.path /\ x.unit_file = c.unit_file
             /\ x.kind = "update" /\ x.current = c.version)
  <2>1. CASE cmd.kind = "UpdateServer"
    <3>1. PICK u \in Units, c \in Config : u = cmd.unit_id /\ InDaemon(u, c)
      BY <2>1, SpawnsIs DEF InDaemon, TypeInv, WorkersInv, WorkersTypeOK
    <3>2. x = [kind |-> "update", unit |-> u, type |-> "paper",
               path |-> c.path, unit_file |-> c.unit_file, eula |-> FALSE,
               asked |-> cmd.server_version, current |-> c.version,
               target |-> None, at |-> "check"]
      BY <2>1, <3>1 DEF NewJob, InDaemon
    <3> QED BY <3>1, <3>2
  <2>2. CASE cmd.kind # "UpdateServer"
    <3>1. cmd.kind = "InstallServer"
      BY <2>2, SpawnsIs DEF WorkerCmd
    <3> QED BY <3>1 DEF NewJob
  <2> QED BY <2>1, <2>2
<1>5. contested \subseteq contested'
  BY <1>1 DEF RowsStay
<1>6. n \notin contested' => Rivals(x) = {}
  BY SpawnsContest
<1>7. Rivals(x) = {} => /\ InQueue(x.unit) = {}
                        /\ ~ \E j \in DOMAIN jobs : jobs[j].unit = x.unit /\ jobs[j].at = "add"
  <2>1. ASSUME InQueue(x.unit) # {}
        PROVE  \E k \in DOMAIN jobs : jobs[k].unit = x.unit
    BY <2>1, EventIs DEF InQueue, MeetInv, SentByJob
  <2> QED BY <2>1 DEF Rivals, Busy
<1> HIDE DEF n, x
<1>8. NamedWhole' /\ OneFile' /\ MessageVersion'
  BY <1>1, <1>2, <1>3 DEF WholeInv, NamedWhole, OneFile, MessageVersion
<1>9. FetchedWhole' /\ NewTarget'
  BY <1>1, <1>4, <1>5 DEF WholeInv, FetchedWhole, NewTarget, WithTarget
<1>10. SameVersion'
  BY <1>1, <1>2, <1>3 DEF WholeInv, SameVersion
<1>11. NothingNew'
  <2>1. ASSUME NEW j \in DOMAIN jobs', NEW u \in Units, NEW v \in Units, NEW c \in Config,
               Names(u, c)', jobs'[j].path = c.path, jobs'[j].unit = v, Calm(v, c.path)'
        PROVE  /\ jobs'[j].at \in Early \cup {"add"} =>
                     u = v /\ c.unit_file = jobs'[j].unit_file
               /\ jobs'[j].at \in Early =>
                     jobs'[j].kind = "update" /\ c.version = jobs'[j].current
               /\ jobs'[j].at = "add" /\ InFile(u, c)' => c.version = jobs'[j].target
    <3>0. Names(u, c) /\ Calm(v, c.path) /\ (InFile(u, c)' => InFile(u, c)) /\ j \notin contested'
      BY <1>2, <1>3, <2>1 DEF Calm
    <3>1. CASE j \in DOMAIN jobs
      BY <1>1, <2>1, <3>0, <3>1 DEF WholeInv, NothingNew
    <3>2. CASE j = n /\ x.at = "check"
      <4>1. PICK d \in Config :
                /\ InDaemon(v, d) /\ x.unit = v /\ x.path = d.path /\ x.unit_file = d.unit_file
                /\ x.kind = "update" /\ x.current = d.version
        BY <1>1, <1>4, <2>1, <3>2
      <4>2. u = v /\ c.unit_file = d.unit_file
        BY <1>1, <2>1, <3>0, <3>2, <4>1 DEF WholeInv, OneFile, Names
      <4>3. c.version = d.version
        <5>1. InQueue(u) = {} /\ ~ \E k \in DOMAIN jobs : jobs[k].unit = u /\ jobs[k].at = "add"
          BY <1>6, <1>7, <3>0, <3>2, <4>1, <4>2
        <5>2. ~InMessage(u, c)
          BY <5>1, InMessageIs
        <5>3. CASE InDaemon(u, c)
          BY <4>1, <4>2, <5>3 DEF InDaemon
        <5>4. CASE InFile(u, c)
          BY <1>1, <2>1, <3>0, <3>2, <4>1, <4>2, <5>1, <5>4 DEF WholeInv, SameVersion
        <5> QED BY <3>0, <5>2, <5>3, <5>4 DEF Names
      <4> QED BY <1>1, <3>2, <4>1, <4>2, <4>3
    <3>3. CASE j = n /\ x.at = "look"
      BY <1>1, <3>3 DEF Early
    <3> QED BY <1>1, <1>4, <3>1, <3>2, <3>3
  <2> QED BY <2>1 DEF NothingNew
<1> QED BY <1>8, <1>9, <1>10, <1>11 DEF WholeInv

LEMMA UpdateIsNew ==
    ASSUME TypeInv, NEW j \in DOMAIN jobs, NEW t, Takes(j, "download", t),
           jobs[j].kind = "update"
    PROVE  t # jobs[j].current
<1>1. t = Artifact(j) /\ t # None /\ ~NoBuild(j) /\ ~UpToDate(j)
  BY DEF Takes
<1>2. jobs[j] \in Job /\ jobs[j].current \in Version /\ Listing(published)
  BY DEF TypeInv, WorkersInv, WorkersTypeOK, GoodRow
<1>3. t \in Version /\ t.build \in Nat
  BY <1>1, <1>2, ArtifactIs
<1>4. PICK c : c = jobs[j].current /\ c \in Version
  BY <1>2
<1>5. SUFFICES ASSUME t = c PROVE FALSE
  BY <1>4
<1>6. ~Older(c, t)
  BY <1>3, <1>4, <1>5, BeforeIsOrder DEF Older, Version, Core
<1> QED BY <1>1, <1>3, <1>4, <1>5, <1>6 DEF UpToDate

\* What a step of a job does, as far as the jars are concerned.
LEMMA WorkingIs ==
    ASSUME TypeInv, EulaInv, MeetInv, NEW j \in DOMAIN jobs, Working(j)
    PROVE  \E step, t :
             /\ Takes(j, step, t) /\ JobStep(j)
             /\ RowsStay /\ DOMAIN jobs' = DOMAIN jobs /\ contested' = contested
             /\ \A i \in DOMAIN jobs : i # j => jobs'[i] = jobs[i]
             /\ SameJob(jobs[j], jobs'[j]) /\ jobs'[j].at = step /\ jobs'[j].target = t
             /\ jobs[j].at \in Busy
             /\ step # "download" => t = jobs[j].target
             /\ \A d \in DOMAIN dirs : d \in DOMAIN dirs' /\ \A v \in dirs[d].whole :
                   \/ v \in dirs'[d].whole
                   \/ d = jobs[j].path /\ jobs[j].at = "download" /\ v = jobs[j].target
<1>1. PICK step, t : Takes(j, step, t)
  BY StepIsTaken DEF TypeInv, Working
<1>2. jobs[j].at \in {"eula", "download", "copy"} => jobs[j].path \in DOMAIN dirs
  BY DEF EulaInv, JobsLead, Late
<1>3. JobStep(j) /\ contested' = contested
  BY DEF Working
<1>4. \A d \in DOMAIN dirs : d \in DOMAIN dirs' /\ \A v \in dirs[d].whole :
         \/ v \in dirs'[d].whole
         \/ d = jobs[j].path /\ jobs[j].at = "download" /\ v = jobs[j].target
  BY <1>2, <1>3, StepDirs
<1>5. /\ RowsStay /\ DOMAIN jobs' = DOMAIN jobs /\ jobs[j].at \in Busy
      /\ \A i \in DOMAIN jobs : i # j => jobs'[i] = jobs[i]
      /\ SameJob(jobs[j], jobs'[j]) /\ jobs'[j].at = step /\ jobs'[j].target = t
  BY <1>1, TakesSame, StepRowsStay
<1>6. step # "download" => t = jobs[j].target
  BY <1>1 DEF Takes
<1> QED BY <1>1, <1>3, <1>4, <1>5, <1>6

LEMMA PatchedIsWhole ==
    ASSUME TypeInv, NEW j \in DOMAIN jobs, JobStep(j), jobs[j].at = "patch", jobs'[j].at = "write"
    PROVE  jobs[j].target \in dirs[jobs[j].path].whole /\ UNCHANGED dirs
<1>1. Patch(j)
  BY DEF JobStep, At, Look, MakeDir, AcceptEula, SayProgress, CheckForUpdate, Lookup, OpenJar,
     CopyJar, TruncateUnitFile, FillUnitFile, SendAdd, SayHowItEnded
<1>2. ~Fails(j) /\ ~Panics(j)
  BY GoesToAt DEF Fails, Panics, TypeInv
<1> QED BY <1>1, <1>2 DEF Patch, Nothing

LEMMA WorkingWhole ==
    ASSUME TypeInv, EulaInv, MeetInv, WholeInv, NEW j \in DOMAIN jobs, Working(j)
    PROVE  WholeInv'
<1>1. PICK step, t :
         /\ Takes(j, step, t) /\ JobStep(j)
         /\ RowsStay /\ DOMAIN jobs' = DOMAIN jobs /\ contested' = contested
         /\ \A i \in DOMAIN jobs : i # j => jobs'[i] = jobs[i]
         /\ SameJob(jobs[j], jobs'[j]) /\ jobs'[j].at = step /\ jobs'[j].target = t
         /\ jobs[j].at \in Busy
         /\ step # "download" => t = jobs[j].target
         /\ \A d \in DOMAIN dirs : d \in DOMAIN dirs' /\ \A v \in dirs[d].whole :
               \/ v \in dirs'[d].whole
               \/ d = jobs[j].path /\ jobs[j].at = "download" /\ v = jobs[j].target
  BY WorkingIs
<1> DEFINE p == jobs[j].path
           mine == jobs[j].unit
<1>2. /\ \A u, path : Calm(u, path)' => Calm(u, path)
      /\ \A u : Calm(u, p) => u = mine /\ j \notin contested
  BY <1>1, CalmStays DEF Calm
<1>3. /\ mine \in Units /\ Result(j).path = p /\ Result(j).version = jobs[j].target
      /\ Result(j).unit_file = jobs[j].unit_file
      /\ jobs[j].at \in {"fill", "add"} => Result(j) \in Config
  BY ResultIsConfig DEF Result, TypeInv, WorkersInv, GoodRow, Job
<1>4. ASSUME NEW u \in Units, NEW c \in Config
      PROVE  /\ InDaemon(u, c)' <=> InDaemon(u, c)
             /\ Names(u, c)' => \/ Names(u, c)
                                \/ jobs[j].at \in {"fill", "add"} /\ u = mine /\ c = Result(j)
             /\ InMessage(u, c)' => \/ InMessage(u, c)
                                    \/ SendAdd(j) /\ u = mine /\ c = Result(j)
             /\ InFile(u, c)' => \/ InFile(u, c)
                                 \/ /\ FillUnitFile(j) /\ jobs[j].at = "fill"
                                    /\ ~UNCHANGED files /\ u = mine /\ c = Result(j)
  BY <1>1, StepNames, StepSays DEF At
<1>5. /\ SendAdd(j) => jobs[j].at = "add" /\ UNCHANGED files /\ step = "complete"
      /\ FillUnitFile(j) /\ ~UNCHANGED files =>
            /\ jobs[j].at = "fill" /\ UNCHANGED queue /\ step = "add"
            /\ files' = [files EXCEPT ![jobs[j].unit_file] = Saved(j)]
  <2>1. \A s : GoesTo(j, s) => step = s
    BY <1>1, GoesToAt DEF TypeInv
  <2> QED BY <2>1 DEF SendAdd, FillUnitFile, At, Fails, Nothing
<1>6. /\ <<jobs[j].at, step>> \in NextAt \/ step \in {"failing", "panicked"}
      /\ jobs[j].at = "look" /\ step = "mkdir" => p \notin DOMAIN dirs
  BY <1>1 DEF Takes
<1>7. \A i \in DOMAIN jobs \ contested : jobs[i].at \in Busy /\ i # j =>
         jobs[i].unit # mine /\ jobs[i].path # p
  BY <1>1 DEF MeetInv, Alone, Share
<1>8. /\ jobs'[j].unit = mine /\ jobs'[j].path = p /\ jobs'[j].unit_file = jobs[j].unit_file
      /\ jobs'[j].kind = jobs[j].kind /\ jobs'[j].current = jobs[j].current
  BY <1>1 DEF SameJob
<1> HIDE DEF p, mine
<1>9. NamedWhole'
  <2>1. ASSUME NEW u \in Units, NEW c \in Config, Names(u, c)', Calm(u, c.path)'
        PROVE  c.version \in dirs'[c.path].whole
    <3>1. Calm(u, c.path)
      BY <1>2, <2>1
    <3>2. CASE Names(u, c)
      <4>1. c.path \in DOMAIN dirs /\ c.version \in dirs[c.path].whole
        BY <3>1, <3>2 DEF WholeInv, NamedWhole, EulaInv, NamesLead
      <4>2. ~(c.path = p /\ jobs[j].at = "download" /\ c.version = jobs[j].target)
        <5>1. SUFFICES ASSUME c.path = p, jobs[j].at = "download", c.version = jobs[j].target
                       PROVE  FALSE
          OBVIOUS
        <5>2. mine = u
          BY <1>2, <3>1, <5>1
        <5>3. jobs[j].kind = "update" /\ c.version = jobs[j].current
          BY <3>1, <3>2, <5>1, <5>2 DEF WholeInv, NothingNew, Early, p, mine
        <5> QED BY <5>1, <5>3 DEF WholeInv, NewTarget, WithTarget
      <4> QED BY <1>1, <4>1, <4>2 DEF p
    <3>3. CASE ~Names(u, c)
      <4>1. jobs[j].at \in {"fill", "add"} /\ u = mine /\ c = Result(j)
        BY <1>4, <2>1, <3>3
      <4>2. j \notin contested /\ p \in DOMAIN dirs
        BY <1>2, <1>3, <3>1, <4>1 DEF EulaInv, JobsLead, Late, p
      <4>3. c.version \in dirs[p].whole /\ c.path = p
        BY <1>3, <4>1, <4>2 DEF WholeInv, FetchedWhole, p
      <4> QED BY <1>1, <4>1, <4>2, <4>3
    <3> QED BY <3>2, <3>3
  <2> QED BY <2>1 DEF NamedWhole
<1>10. OneFile'
  <2>1. ASSUME NEW u \in Units, NEW c \in Config, Names(u, c), c.path = p, Calm(mine, p)
        PROVE  jobs[j].at \in {"fill", "add"} => u = mine /\ c.unit_file = jobs[j].unit_file
    BY <1>3, <2>1 DEF WholeInv, NothingNew, Early, p, mine
  <2>2. ASSUME NEW u \in Units, NEW v \in Units, NEW c \in Config, NEW d \in Config,
               Names(u, c)', Names(v, d)', c.path = d.path, Calm(u, c.path)'
        PROVE  u = v /\ c.unit_file = d.unit_file
    <3>1. Calm(u, c.path)
      BY <1>2, <2>2
    <3>2. CASE Names(u, c) /\ Names(v, d)
      BY <2>2, <3>1, <3>2 DEF WholeInv, OneFile
    <3>3. CASE Names(u, c) /\ ~Names(v, d)
      <4>1. jobs[j].at \in {"fill", "add"} /\ v = mine /\ d = Result(j) /\ c.path = p
        BY <1>3, <1>4, <2>2, <3>3
      <4>2. u = mine
        BY <1>2, <3>1, <4>1
      <4> QED BY <1>3, <2>1, <3>1, <3>3, <4>1, <4>2
    <3>4. CASE ~Names(u, c) /\ Names(v, d)
      <4>1. jobs[j].at \in {"fill", "add"} /\ u = mine /\ c = Result(j) /\ d.path = p
        BY <1>3, <1>4, <2>2, <3>4
      <4>2. Calm(mine, p)
        BY <2>2, <3>1, <4>1
      <4> QED BY <1>3, <2>1, <3>4, <4>1, <4>2
    <3>5. CASE ~Names(u, c) /\ ~Names(v, d)
      BY <1>4, <2>2, <3>5
    <3> QED BY <3>2, <3>3, <3>4, <3>5
  <2> QED BY <2>2 DEF OneFile
<1>11. FetchedWhole'
  <2>1. ASSUME NEW i \in DOMAIN jobs \ contested, jobs'[i].at \in {"write", "fill", "add"}
        PROVE  jobs'[i].target \in dirs'[jobs'[i].path].whole
    <3>1. CASE i # j
      <4>1. jobs[i].target \in dirs[jobs[i].path].whole /\ jobs[i].path \in DOMAIN dirs
        BY <1>1, <2>1, <3>1 DEF WholeInv, FetchedWhole, EulaInv, JobsLead, Late
      <4>2. jobs[i].path # p
        BY <1>1, <1>7, <2>1, <3>1 DEF Busy
      <4> QED BY <1>1, <3>1, <4>1, <4>2 DEF p
    <3>2. CASE i = j /\ step = "write"
      <4>1. jobs[j].at = "patch"
        BY <1>6, <3>2 DEF NextAt
      <4>2. jobs[j].target \in dirs[p].whole /\ UNCHANGED dirs
        BY <1>1, <3>2, <4>1, PatchedIsWhole DEF p
      <4> QED BY <1>1, <1>8, <3>2, <4>2
    <3>3. CASE i = j /\ step \in {"fill", "add"}
      <4>1. jobs[j].at \in {"write", "fill"}
        BY <1>6, <3>3 DEF NextAt
      <4>2. jobs[j].target \in dirs[p].whole /\ p \in DOMAIN dirs
        BY <2>1, <3>3, <4>1 DEF WholeInv, FetchedWhole, EulaInv, JobsLead, Late, p
      <4> QED BY <1>1, <1>8, <3>3, <4>1, <4>2
    <3> QED BY <1>1, <2>1, <3>1, <3>2, <3>3
  <2> QED BY <1>1, <2>1 DEF FetchedWhole
<1>12. NothingNew'
  <2>1. ASSUME NEW i \in DOMAIN jobs, NEW u \in Units, NEW v \in Units, NEW c \in Config,
               Names(u, c)', jobs'[i].path = c.path, jobs'[i].unit = v, Calm(v, c.path)'
        PROVE  /\ jobs'[i].at \in Early \cup {"add"} =>
                     u = v /\ c.unit_file = jobs'[i].unit_file
               /\ jobs'[i].at \in Early =>
                     jobs'[i].kind = "update" /\ c.version = jobs'[i].current
               /\ jobs'[i].at = "add" /\ InFile(u, c)' => c.version = jobs'[i].target
    <3>1. Calm(v, c.path) /\ i \notin contested
      BY <1>1, <1>2, <2>1 DEF Calm
    <3>2. CASE i # j /\ jobs'[i].at \in Early \cup {"add"}
      <4>1. jobs'[i] = jobs[i] /\ c.path # p
        BY <1>1, <1>7, <2>1, <3>1, <3>2 DEF Early, Busy
      <4>2. Names(u, c) /\ (InFile(u, c)' => InFile(u, c))
        BY <1>3, <1>4, <2>1, <4>1
      <4> QED BY <2>1, <3>1, <4>1, <4>2 DEF WholeInv, NothingNew
    <3>3. CASE i = j /\ step \in Early \cup {"add"}
      <4>1. v = mine /\ c.path = p /\ Calm(mine, p) /\ jobs[j].path = c.path /\ jobs[j].unit = v
        BY <1>8, <2>1, <3>1, <3>3 DEF p, mine
      <4>2. jobs[j].at \in Early /\ ~(jobs[j].at = "look" /\ step = "mkdir")
        <5>1. CASE jobs[j].at = "look" /\ step = "mkdir"
          <6>1. Names(u, c)
            BY <1>4, <2>1, <5>1
          <6> QED BY <1>6, <4>1, <5>1, <6>1 DEF EulaInv, NamesLead
        <5>2. CASE ~(jobs[j].at = "look" /\ step = "mkdir")
          BY <1>6, <3>3, <5>2 DEF NextAt, Early
        <5> QED BY <5>1, <5>2
      <4>3. Names(u, c) => /\ u = mine /\ c.unit_file = jobs[j].unit_file
                           /\ jobs[j].kind = "update" /\ c.version = jobs[j].current
        BY <3>1, <4>1, <4>2 DEF WholeInv, NothingNew
      <4>4. u = v /\ c.unit_file = jobs'[j].unit_file
        BY <1>3, <1>4, <1>8, <2>1, <4>1, <4>3
      <4>5. CASE step = "add"
        <5>1. ASSUME InFile(u, c)'
              PROVE  c.version = jobs'[j].target
          <6>1. jobs[j].at = "fill"
            BY <1>6, <4>5 DEF NextAt
          <6>2. FillUnitFile(j) /\ ~Fails(j)
            <7>1. FillUnitFile(j)
              BY <1>1, <6>1 DEF JobStep, At, Look, MakeDir, AcceptEula, SayProgress, CheckForUpdate,
                 Lookup, OpenJar, CopyJar, Patch, TruncateUnitFile, SendAdd, SayHowItEnded
            <7>2. ~Fails(j)
              BY <1>1, <4>5, GoesToAt DEF Fails, TypeInv
            <7> QED BY <7>1, <7>2
          <6>3. files' = [files EXCEPT ![jobs[j].unit_file] = Saved(j)]
            BY <6>2 DEF FillUnitFile
          <6>4. files'[c.unit_file] = Saved(j)
            BY <1>8, <4>4, <6>3 DEF Config, TypeInv, WorkersInv, WorkersTypeOK
          <6>5. AsFile(u, c) = AsFile(jobs[j].unit, Result(j))
            BY <5>1, <6>4 DEF InFile, Saved
          <6> QED BY <1>1, <1>3, <4>5, <6>5 DEF AsFile
        <5> QED BY <3>3, <4>4, <4>5, <5>1, <1>1 DEF Early
      <4>6. CASE step # "add"
        <5>1. jobs[j].at # "fill"
          BY <1>6, <3>3, <4>6 DEF NextAt, Early
        <5>2. Names(u, c)
          BY <1>4, <2>1, <4>2, <5>1 DEF Early
        <5> QED BY <1>1, <1>8, <3>3, <4>3, <4>4, <4>6, <5>2
      <4> QED BY <4>5, <4>6
    <3>4. CASE jobs'[i].at \notin Early \cup {"add"}
      BY <3>4
    <3> QED BY <1>1, <3>2, <3>3, <3>4
  <2> QED BY <1>1, <2>1 DEF NothingNew
<1>13. \A u : InQueue(u) # {} => InQueue(u)' # {}
  BY <1>1, StepQueue DEF InQueue
<1>14. SameVersion'
  <2>1. ASSUME NEW u \in Units, NEW c \in Config, NEW d \in Config,
               InDaemon(u, c)', InFile(u, d)', c.path = d.path, Calm(u, c.path)'
        PROVE  \/ c.version = d.version
               \/ InQueue(u)' # {}
               \/ \E i \in DOMAIN jobs' : jobs'[i].unit = u /\ jobs'[i].at = "add"
    <3>1. Calm(u, c.path) /\ InDaemon(u, c)
      BY <1>2, <1>4, <2>1
    <3>2. CASE InFile(u, d)
      <4>1. CASE c.version = d.version \/ InQueue(u) # {}
        BY <1>13, <4>1
      <4>2. CASE \E i \in DOMAIN jobs : jobs[i].unit = u /\ jobs[i].at = "add"
        <5>1. PICK i \in DOMAIN jobs : jobs[i].unit = u /\ jobs[i].at = "add"
          BY <4>2
        <5>2. CASE i # j
          BY <1>1, <5>1, <5>2
        <5>3. CASE i = j
          <6>1. SendAdd(j)
            BY <1>1, <5>1, <5>3 DEF JobStep, At, Look, MakeDir, AcceptEula, SayProgress,
               CheckForUpdate, Lookup, OpenJar, CopyJar, Patch, TruncateUnitFile, FillUnitFile,
               SayHowItEnded
          <6>2. InQueue(u)' # {}
            BY <1>1, <5>1, <5>3, <6>1, StepQueue, EventIs DEF InQueue
          <6> QED BY <6>2
        <5> QED BY <5>2, <5>3
      <4> QED BY <2>1, <3>1, <3>2, <4>1, <4>2 DEF WholeInv, SameVersion
    <3>3. CASE ~InFile(u, d)
      BY <1>1, <1>4, <1>5, <1>8, <2>1, <3>3
    <3> QED BY <3>2, <3>3
  <2> QED BY <2>1 DEF SameVersion
<1>15. MessageVersion'
  <2>1. ASSUME NEW u \in Units, NEW c \in Config, NEW d \in Config,
               InMessage(u, c)', InFile(u, d)', c.path = d.path, Calm(u, c.path)'
        PROVE  c.version = d.version
    <3>1. Calm(u, c.path)
      BY <1>2, <2>1
    <3>2. CASE InMessage(u, c) /\ InFile(u, d)
      BY <2>1, <3>1, <3>2 DEF WholeInv, MessageVersion
    <3>3. CASE ~InFile(u, d)
      <4>1. jobs[j].at = "fill" /\ u = mine /\ c.path = p /\ ~SendAdd(j)
        BY <1>3, <1>4, <1>5, <2>1, <3>3
      <4>2. InMessage(u, c) /\ j \notin contested
        BY <1>2, <1>4, <2>1, <3>1, <4>1
      <4>3. InQueue(jobs[j].unit) # {}
        BY <4>1, <4>2, InMessageIs DEF mine
      <4> QED BY <1>1, <4>1, <4>2, <4>3 DEF MeetInv, SentLast
    <3>4. CASE ~InMessage(u, c) /\ InFile(u, d)
      <4>1. jobs[j].at = "add" /\ u = mine /\ c = Result(j)
        BY <1>4, <1>5, <2>1, <3>4
      <4> QED BY <1>3, <2>1, <3>1, <3>4, <4>1 DEF WholeInv, NothingNew, Names, p, mine
    <3> QED BY <3>2, <3>3, <3>4
  <2> QED BY <2>1 DEF MessageVersion
<1>16. NewTarget'
  <2>1. ASSUME jobs[j].kind = "update", step \in WithTarget
        PROVE  t # jobs[j].current
    <3>1. CASE step = "download"
      BY <1>1, <2>1, <3>1, UpdateIsNew
    <3>2. CASE step # "download"
      <4>1. jobs[j].at \in WithTarget
        BY <1>6, <2>1, <3>2 DEF NextAt, WithTarget
      <4> QED BY <1>1, <2>1, <3>2, <4>1 DEF WholeInv, NewTarget
    <3> QED BY <3>1, <3>2
  <2> QED BY <1>1, <1>8, <2>1 DEF WholeInv, NewTarget
<1> QED BY <1>9, <1>10, <1>11, <1>12, <1>14, <1>15, <1>16 DEF WholeInv

LEMMA WholeNext ==
    ASSUME TypeInv, EulaInv, MeetInv, WholeInv, [Next]_vars
    PROVE  WholeInv'
  BY NextIs, PassesWhole, SpawnsWhole, WorkingWhole

LEMMA MeetNext ==
    ASSUME TypeInv, MeetInv, [Next]_vars
    PROVE  MeetInv'
  BY NextIs, PassesMeet, SpawnsMeet, WorkingMeet

LEMMA MeetInit ==
    ASSUME Init
    PROVE  MeetInv
  BY DEF Init, WorkersInit, MeetInv, Alone, SentByJob, SentLast

LEMMA WholeAlways == Spec => [](TypeInv /\ EulaInv /\ MeetInv /\ WholeInv)
<1>1. Init => TypeInv /\ EulaInv /\ MeetInv /\ WholeInv
  BY TypesInit, EulaInit, MeetInit, WholeInit
<1>2. TypeInv /\ EulaInv /\ MeetInv /\ WholeInv /\ [Next]_vars
         => (TypeInv /\ EulaInv /\ MeetInv /\ WholeInv)'
  BY TypesNext, EulaNext, MeetNext, WholeNext
<1> QED BY <1>1, <1>2, PTL DEF Spec

\* The jar that a unit's configuration names lies in its directory and is whole, as
\* long as nobody else's job, and no two jobs at once, were at work there: whichever
\* job was cut short at whichever step, and however often the daemon was restarted.
THEOREM UnitsAreWhole == Spec => []UnitIsWhole
<1>1. ASSUME TypeInv, EulaInv, WholeInv
      PROVE  UnitIsWhole
  <2>1. ASSUME NEW u \in DOMAIN configs,
               Undisturbed(u, configs[u].path, configs[u].unit_file)
        PROVE  /\ configs[u].path \in DOMAIN dirs
               /\ configs[u].version \in dirs[configs[u].path].whole
    <3>1. u \in Units /\ configs[u] \in Config
      BY <1>1 DEF TypeInv, WorkersInv, WorkersTypeOK
    <3>2. Names(u, configs[u])
      BY DEF Names, InDaemon
    <3>3. Calm(u, configs[u].path)
      BY <2>1 DEF Undisturbed, Calm
    <3> QED BY <1>1, <3>1, <3>2, <3>3 DEF EulaInv, NamesLead, WholeInv, NamedWhole
  <2> QED BY <2>1 DEF UnitIsWhole
<1> QED BY <1>1, WholeAlways, PTL

(***************************************************************************)
(* Unit files.  A file that nobody else's job has written says what the    *)
(* daemon knows or is about to learn, or a job that was cut short or is at *)
(* work has truncated it.                                                  *)
(***************************************************************************)

Accounted(u, c) ==
    \/ files[c.unit_file] = AsFile(u, c)
    \/ \E j \in DOMAIN jobs :
          /\ jobs[j].unit = u
          /\ \/ files[c.unit_file] = Saved(j) /\ jobs[j].at = "add"
             \/ /\ files[c.unit_file] = Saved(j) /\ jobs[j].at \in {"complete", "done"}
                /\ InQueue(u) # {}
             \/ /\ files[c.unit_file] = Broken /\ jobs[j].at \in {"fill", "failing", "failed"}
                /\ jobs[j].unit_file = c.unit_file
FileInDaemon ==
    \A u \in Units, c \in Config :
        InDaemon(u, c) /\ Undisturbed(u, c.path, c.unit_file) => Accounted(u, c)
FileInMessage ==
    \A u \in Units, c \in Config :
        InMessage(u, c) /\ Undisturbed(u, c.path, c.unit_file)
            => files[c.unit_file] = AsFile(u, c)
FileWritten ==
    \A j \in DOMAIN jobs \ contested : jobs[j].at = "add" =>
        files[jobs[j].unit_file] = Saved(j)
FilesInv == FileInDaemon /\ FileInMessage /\ FileWritten

LEMMA UndisturbedStays ==
    ASSUME RowsStay, NEW u, NEW path, NEW file, Undisturbed(u, path, file)'
    PROVE  Undisturbed(u, path, file)
  BY DEF Undisturbed, RowsStay, SameJob

LEMMA FilesInit ==
    ASSUME Init, TypeInv
    PROVE  FilesInv
<1>1. ASSUME NEW u \in DOMAIN configs
      PROVE  files[configs[u].unit_file] = AsFile(u, configs[u])
  <2> DEFINE f == configs[u].unit_file
             v == CHOOSE v \in DOMAIN configs : configs[v].unit_file = f
  <2>1. f \in Files
    BY DEF TypeInv, WorkersInv, WorkersTypeOK, Config
  <2>2. files[f] = AsFile(v, configs[v])
    BY <2>1 DEF Init, WorkersInit
  <2>3. v \in DOMAIN configs /\ configs[v].unit_file = f
    OBVIOUS
  <2> HIDE DEF v
  <2>4. v = u
    BY <2>3, InstallationAssumption DEF Init
  <2> QED BY <2>2, <2>4
<1>2. DOMAIN jobs = {} /\ DOMAIN queue = {}
  BY DEF Init, WorkersInit
<1>3. FileInDaemon
  BY <1>1 DEF FileInDaemon, InDaemon, Accounted
<1>4. FileInMessage /\ FileWritten
  BY <1>2 DEF FileInMessage, InMessage, FileWritten
<1> QED BY <1>3, <1>4 DEF FilesInv

LEMMA PassesFiles ==
    ASSUME TypeInv, FilesInv, Passes
    PROVE  FilesInv'
<1>1. /\ RowsStay /\ DOMAIN jobs' = DOMAIN jobs /\ UNCHANGED <<contested, dirs, files>>
      /\ \A j \in DOMAIN jobs : jobs'[j] = jobs[j] \/ jobs'[j].at = "dead"
  BY PassesRowsStay, PassesIs
<1>2. \A u \in Units, c \in Config :
         /\ InFile(u, c)' <=> InFile(u, c)
         /\ InMessage(u, c)' => InMessage(u, c)
  BY PassesNames
<1>3. \A u, path, file : Undisturbed(u, path, file)' => Undisturbed(u, path, file)
  BY <1>1, UndisturbedStays
<1>4. FileInMessage'
  BY <1>1, <1>2, <1>3 DEF FilesInv, FileInMessage, AsFile
<1>5. FileWritten'
  <2>1. ASSUME NEW j \in DOMAIN jobs \ contested, jobs'[j].at = "add"
        PROVE  files[jobs'[j].unit_file] = Saved(j)'
    <3>1. jobs'[j] = jobs[j] /\ jobs[j].at = "add"
      BY <1>1, <2>1
    <3>2. Saved(j)' = Saved(j)
      BY <3>1 DEF Saved, AsFile, Result
    <3> QED BY <3>1, <3>2 DEF FilesInv, FileWritten
  <2> QED BY <1>1, <2>1 DEF FileWritten
<1>6. FileInDaemon'
  <2>1. ASSUME NEW u \in Units, NEW c \in Config,
               InDaemon(u, c)', Undisturbed(u, c.path, c.unit_file)'
        PROVE  Accounted(u, c)'
    <3>1. Undisturbed(u, c.path, c.unit_file)
      BY <1>3, <2>1
    <3>2. (files[c.unit_file] = AsFile(u, c)) => Accounted(u, c)'
      BY <1>1 DEF Accounted, AsFile
    <3>3. CASE InDaemon(u, c) /\ UNCHANGED jobs /\ (InQueue(u) # {} => InQueue(u)' # {})
      <4>1. \A j \in DOMAIN jobs : Saved(j)' = Saved(j)
        BY <3>3 DEF Saved, AsFile, Result
      <4>2. Accounted(u, c)
        BY <3>1, <3>3 DEF FilesInv, FileInDaemon
      <4> QED BY <1>1, <3>2, <3>3, <4>1, <4>2 DEF Accounted
    <3>4. CASE AddUnit
      <4>1. UNCHANGED jobs
        BY <3>4 DEF AddUnit
      <4>2. CASE Head(queue).unit_id = u
        <5>1. configs'[u] = Head(queue).config
          BY <3>4, <4>2 DEF AddUnit, Added
        <5>2. InMessage(u, c)
          BY <2>1, <3>4, <4>2, <5>1, OneMessageLeaves, MessageIs DEF InMessage, InDaemon
        <5> QED BY <3>1, <3>2, <5>2 DEF FilesInv, FileInMessage
      <4>3. CASE Head(queue).unit_id # u
        <5>1. InDaemon(u, c)
          BY <2>1, <3>4, <4>3 DEF AddUnit, Added, InDaemon
        <5>2. InQueue(u) # {} => InQueue(u)' # {}
          BY <3>4, <4>3, OneMessageLeaves DEF InQueue
        <5> QED BY <3>3, <4>1, <5>1, <5>2
      <4> QED BY <4>2, <4>3
    <3>5. CASE Restart
      <4>1. InDaemon(u, c) \/ InFile(u, c)
        BY <2>1, <3>5, PassesNames DEF AddUnit, Restart
      <4>2. UNCHANGED <<jobs, queue>>
        BY <3>5 DEF Restart
      <4>3. InQueue(u)' = InQueue(u)
        BY <4>2 DEF InQueue
      <4> QED BY <3>2, <3>3, <4>1, <4>2, <4>3 DEF InFile
    <3>6. CASE Exit
      <4>1. DOMAIN configs' = {}
        BY <3>6 DEF Exit
      <4> QED BY <2>1, <4>1 DEF InDaemon
    <3>7. CASE ~AddUnit /\ ~Restart /\ ~Exit
      <4>1. UNCHANGED <<configs, jobs, queue>>
        BY <3>7 DEF Passes, TakeEvent, Command, InstallServer, UpdateServer, vars, workVars
      <4>2. InQueue(u)' = InQueue(u)
        BY <4>1 DEF InQueue
      <4> QED BY <2>1, <3>3, <4>1, <4>2 DEF InDaemon
    <3> QED BY <3>4, <3>5, <3>6, <3>7
  <2> QED BY <2>1 DEF FileInDaemon
<1> QED BY <1>4, <1>5, <1>6 DEF FilesInv

LEMMA SpawnsFiles ==
    ASSUME TypeInv, FilesInv, NEW cmd, Spawns(cmd)
    PROVE  FilesInv'
<1> DEFINE n == Len(jobs) + 1
           x == NewJob(cmd)
<1>1. /\ RowsStay /\ DOMAIN jobs' = DOMAIN jobs \cup {n} /\ n \notin DOMAIN jobs /\ jobs'[n] = x
      /\ \A i \in DOMAIN jobs : jobs'[i] = jobs[i]
      /\ UNCHANGED <<configs, dirs, files, queue>>
  BY SpawnRowsStay, SpawnsIs
<1>2. x.at # "add"
  BY DEF NewJob
<1> HIDE DEF n, x
<1>3. \A u, c : InDaemon(u, c)' = InDaemon(u, c) /\ InMessage(u, c)' = InMessage(u, c)
                /\ InQueue(u)' = InQueue(u)
  BY <1>1 DEF InDaemon, InMessage, InQueue
<1>4. \A u, path, file : Undisturbed(u, path, file)' => Undisturbed(u, path, file)
  BY <1>1, UndisturbedStays
<1>5. \A j \in DOMAIN jobs : Saved(j)' = Saved(j)
  BY <1>1 DEF Saved, AsFile, Result
<1>6. FileInMessage'
  BY <1>1, <1>3, <1>4 DEF FilesInv, FileInMessage, AsFile
<1>7. FileWritten'
  BY <1>1, <1>2, <1>5 DEF FilesInv, FileWritten, RowsStay
<1>8. FileInDaemon'
  <2>1. ASSUME NEW u \in Units, NEW c \in Config, Accounted(u, c)
        PROVE  Accounted(u, c)'
    BY <1>1, <1>3, <1>5, <2>1 DEF Accounted, AsFile
  <2> QED BY <1>3, <1>4, <2>1 DEF FilesInv, FileInDaemon
<1> QED BY <1>6, <1>7, <1>8 DEF FilesInv

\* The steps that change a unit file.
LEMMA StepFiles ==
    ASSUME TypeInv, NEW j \in DOMAIN jobs, JobStep(j)
    PROVE  \/ UNCHANGED files /\ ~(jobs[j].at = "fill" /\ jobs'[j].at = "add")
           \/ /\ jobs[j].at = "write" /\ jobs'[j].at = "fill" /\ UNCHANGED queue
              /\ jobs[j].unit_file \in Files
              /\ files' = [files EXCEPT ![jobs[j].unit_file] = Broken]
           \/ /\ jobs[j].at = "fill" /\ jobs'[j].at = "add" /\ UNCHANGED queue
              /\ jobs[j].unit_file \in Files
              /\ files' = [files EXCEPT ![jobs[j].unit_file] = Saved(j)]
<1>1. \A s : GoesTo(j, s) => jobs'[j].at = s
  BY GoesToAt DEF TypeInv
<1>2. CASE jobs[j].at = "write"
  <2>1. TruncateUnitFile(j) /\ jobs[j].unit_file \in Files
    BY <1>2, ResultIsConfig DEF TypeInv, JobStep, At, Look, MakeDir, AcceptEula, SayProgress,
       CheckForUpdate, Lookup, OpenJar, CopyJar, Patch, FillUnitFile, SendAdd, SayHowItEnded
  <2> QED BY <1>1, <1>2, <2>1 DEF TruncateUnitFile, Fails, Nothing
<1>3. CASE jobs[j].at = "fill"
  <2>1. FillUnitFile(j) /\ jobs[j].unit_file \in Files
    BY <1>3, ResultIsConfig DEF TypeInv, JobStep, At, Look, MakeDir, AcceptEula, SayProgress,
       CheckForUpdate, Lookup, OpenJar, CopyJar, Patch, TruncateUnitFile, SendAdd, SayHowItEnded
  <2> QED BY <1>1, <1>3, <2>1 DEF FillUnitFile, Fails, Nothing
<1>4. CASE jobs[j].at \notin {"write", "fill"}
  <2>1. ~TruncateUnitFile(j) /\ ~FillUnitFile(j)
    BY <1>4 DEF TruncateUnitFile, FillUnitFile, At
  <2>2. UNCHANGED files
    BY <2>1 DEF JobStep, Look, MakeDir, AcceptEula, SayProgress, CheckForUpdate, Lookup, OpenJar,
       CopyJar, Patch, SendAdd, SayHowItEnded, Fails, Panics, Nothing
  <2> QED BY <1>4, <2>2
<1> QED BY <1>2, <1>3, <1>4

LEMMA WorkingFiles ==
    ASSUME TypeInv, EulaInv, MeetInv, FilesInv, NEW j \in DOMAIN jobs, Working(j)
    PROVE  FilesInv'
<1>1. PICK step, t :
         /\ Takes(j, step, t) /\ JobStep(j)
         /\ RowsStay /\ DOMAIN jobs' = DOMAIN jobs /\ contested' = contested
         /\ \A i \in DOMAIN jobs : i # j => jobs'[i] = jobs[i]
         /\ SameJob(jobs[j], jobs'[j]) /\ jobs'[j].at = step /\ jobs'[j].target = t
         /\ jobs[j].at \in Busy
         /\ step # "download" => t = jobs[j].target
  BY WorkingIs
<1> DEFINE f == jobs[j].unit_file
<1>2. \A u, path, file : Undisturbed(u, path, file)' => Undisturbed(u, path, file)
  BY <1>1, UndisturbedStays
<1>3. /\ jobs'[j].unit = jobs[j].unit /\ jobs'[j].path = jobs[j].path /\ jobs'[j].unit_file = f
  BY <1>1 DEF SameJob
<1>4. <<jobs[j].at, step>> \in NextAt \/ step \in {"failing", "panicked"}
  BY <1>1 DEF Takes
<1>5. \A i \in DOMAIN jobs : jobs[i].at \in {"fill", "add", "complete", "done"} => Saved(i)' = Saved(i)
  <2>1. ASSUME NEW i \in DOMAIN jobs, jobs[i].at \in {"fill", "add", "complete", "done"}
        PROVE  jobs'[i].target = jobs[i].target
    BY <1>1, <1>4, <2>1 DEF NextAt
  <2>2. \A i \in DOMAIN jobs : /\ jobs'[i].unit = jobs[i].unit /\ jobs'[i].path = jobs[i].path
                               /\ jobs'[i].unit_file = jobs[i].unit_file
    BY <1>1, <1>3
  <2> QED BY <2>1, <2>2 DEF Saved, AsFile, Result
<1>6. /\ files \in [Files -> UnitFile \cup {None, Broken}]
      /\ \A c \in Config : c.unit_file \in Files
  BY DEF TypeInv, WorkersInv, WorkersTypeOK, Config
<1>7. \/ UNCHANGED files /\ ~(jobs[j].at = "fill" /\ step = "add")
      \/ /\ jobs[j].at = "write" /\ step = "fill" /\ UNCHANGED queue /\ f \in Files
         /\ files' = [files EXCEPT ![f] = Broken]
      \/ /\ jobs[j].at = "fill" /\ step = "add" /\ UNCHANGED queue /\ f \in Files
         /\ files' = [files EXCEPT ![f] = Saved(j)]
  BY <1>1, StepFiles
<1>8. \A g \in Files : files'[g] = files[g] \/ (g = f /\ jobs[j].at \in {"write", "fill"})
  BY <1>6, <1>7
<1>9. \A u, path : Undisturbed(u, path, f) => jobs[j].unit = u /\ j \notin contested
  BY DEF Undisturbed
<1> HIDE DEF f
<1>10. FileInMessage'
  <2>1. ASSUME NEW u \in Units, NEW c \in Config,
               InMessage(u, c)', Undisturbed(u, c.path, c.unit_file)'
        PROVE  files'[c.unit_file] = AsFile(u, c)
    <3>1. Undisturbed(u, c.path, c.unit_file)
      BY <1>2, <2>1
    <3>2. CASE InMessage(u, c)
      <4>1. files[c.unit_file] = AsFile(u, c)
        BY <3>1, <3>2 DEF FilesInv, FileInMessage
      <4>2. ~(c.unit_file = f /\ jobs[j].at \in {"write", "fill"})
        BY <1>1, <1>9, <3>1, <3>2, InMessageIs DEF MeetInv, SentLast
      <4> QED BY <1>6, <1>8, <4>1, <4>2
    <3>3. CASE ~InMessage(u, c)
      <4>1. SendAdd(j) /\ u = jobs[j].unit /\ c = Result(j)
        BY <1>1, <2>1, <3>3, StepNames
      <4>2. UNCHANGED files /\ jobs[j].at = "add" /\ c.unit_file = f
        BY <4>1 DEF SendAdd, At, Result, f
      <4>3. files[f] = Saved(j)
        BY <1>9, <3>1, <4>2 DEF FilesInv, FileWritten, f
      <4> QED BY <4>1, <4>2, <4>3 DEF Saved
    <3> QED BY <3>2, <3>3
  <2> QED BY <2>1 DEF FileInMessage, AsFile
<1>11. FileWritten'
  <2>1. ASSUME NEW i \in DOMAIN jobs \ contested, jobs'[i].at = "add"
        PROVE  files'[jobs'[i].unit_file] = Saved(i)'
    <3>1. CASE i # j
      <4>1. jobs'[i] = jobs[i] /\ jobs[i].at = "add" /\ jobs[i].unit_file \in Files
        BY <1>1, <2>1, <3>1, ResultIsConfig DEF TypeInv
      <4>2. jobs[i].unit_file # f
        BY <1>1, <2>1, <3>1, <4>1, WorkersAssumption DEF MeetInv, Alone, Share, Busy, f
      <4> QED BY <1>5, <1>8, <2>1, <4>1, <4>2 DEF FilesInv, FileWritten
    <3>2. CASE i = j
      <4>1. jobs[j].at = "fill" /\ step = "add"
        BY <1>1, <1>4, <2>1, <3>2 DEF NextAt
      <4> QED BY <1>3, <1>5, <1>6, <1>7, <3>2, <4>1
    <3> QED BY <3>1, <3>2
  <2> QED BY <1>1, <2>1 DEF FileWritten
<1>12. FileInDaemon'
  <2>1. ASSUME NEW u \in Units, NEW c \in Config,
               InDaemon(u, c)', Undisturbed(u, c.path, c.unit_file)'
        PROVE  Accounted(u, c)'
    <3>1. Undisturbed(u, c.path, c.unit_file) /\ InDaemon(u, c)
      BY <1>1, <1>2, <2>1, StepNames
    <3>2. Accounted(u, c)
      BY <3>1 DEF FilesInv, FileInDaemon
    <3>3. InQueue(u) # {} => InQueue(u)' # {}
      BY <1>1, StepQueue DEF InQueue
    <3>4. CASE files'[c.unit_file] # files[c.unit_file]
      <4>1. c.unit_file = f /\ jobs[j].unit = u
        BY <1>6, <1>8, <1>9, <3>1, <3>4
      <4>2. CASE jobs[j].at = "write"
        <5>1. files'[c.unit_file] = Broken /\ jobs'[j].at = "fill"
          BY <1>1, <1>6, <1>7, <3>4, <4>1, <4>2
        <5> QED BY <1>1, <1>3, <4>1, <5>1 DEF Accounted
      <4>3. CASE jobs[j].at = "fill"
        <5>1. files'[c.unit_file] = Saved(j)' /\ jobs'[j].at = "add"
          BY <1>1, <1>5, <1>6, <1>7, <3>4, <4>1, <4>3
        <5> QED BY <1>1, <1>3, <4>1, <5>1 DEF Accounted
      <4> QED BY <1>6, <1>8, <3>4, <4>2, <4>3
    <3>5. CASE files'[c.unit_file] = files[c.unit_file]
      <4>1. CASE files[c.unit_file] = AsFile(u, c)
        BY <3>5, <4>1 DEF Accounted, AsFile
      <4>2. ASSUME NEW k \in DOMAIN jobs, jobs[k].unit = u, files[c.unit_file] = Saved(k),
                   jobs[k].at = "add"
            PROVE  Accounted(u, c)'
        <5>1. jobs'[k].unit = u /\ files'[c.unit_file] = Saved(k)'
          BY <1>1, <1>3, <1>5, <3>5, <4>2
        <5>2. CASE k # j
          BY <1>1, <4>2, <5>1, <5>2 DEF Accounted
        <5>3. CASE k = j
          <6>1. SendAdd(j)
            BY <1>1, <4>2, <5>3 DEF JobStep, At, Look, MakeDir, AcceptEula, SayProgress,
               CheckForUpdate, Lookup, OpenJar, CopyJar, Patch, TruncateUnitFile, FillUnitFile,
               SayHowItEnded
          <6>2. InQueue(u)' # {} /\ jobs'[j].at = "complete"
            BY <1>1, <4>2, <5>3, <6>1, StepQueue, EventIs DEF InQueue
          <6> QED BY <1>1, <5>1, <5>3, <6>2 DEF Accounted
        <5> QED BY <5>2, <5>3
      <4>3. ASSUME NEW k \in DOMAIN jobs, jobs[k].unit = u, files[c.unit_file] = Saved(k),
                   jobs[k].at \in {"complete", "done"}, InQueue(u) # {}
            PROVE  Accounted(u, c)'
        <5>1. jobs'[k].unit = u /\ files'[c.unit_file] = Saved(k)'
          BY <1>1, <1>3, <1>5, <3>5, <4>3
        <5>2. jobs'[k].at \in {"complete", "done"}
          BY <1>1, <1>4, <4>3 DEF NextAt, Takes, Busy, Sending
        <5> QED BY <1>1, <3>3, <4>3, <5>1, <5>2 DEF Accounted
      <4>4. ASSUME NEW k \in DOMAIN jobs, jobs[k].unit = u, files[c.unit_file] = Broken,
                   jobs[k].at \in {"fill", "failing", "failed"}, jobs[k].unit_file = c.unit_file
            PROVE  Accounted(u, c)'
        <5>1. jobs'[k].unit = u /\ jobs'[k].unit_file = c.unit_file
          BY <1>1, <1>3, <4>4 DEF f
        <5>2. CASE k = j /\ jobs[j].at = "fill" /\ step = "add"
          <6>1. files'[c.unit_file] = Saved(j)'
            BY <1>5, <1>6, <1>7, <4>4, <5>2 DEF f
          <6> QED BY <1>1, <5>1, <5>2, <6>1 DEF Accounted
        <5>3. CASE ~(k = j /\ jobs[j].at = "fill" /\ step = "add")
          <6>1. jobs'[k].at \in {"fill", "failing", "failed"}
            BY <1>1, <1>4, <4>4, <5>3 DEF NextAt, Takes, Busy
          <6> QED BY <1>1, <3>5, <4>4, <5>1, <6>1 DEF Accounted
        <5> QED BY <5>2, <5>3
      <4> QED BY <3>2, <4>1, <4>2, <4>3, <4>4 DEF Accounted
    <3> QED BY <3>4, <3>5
  <2> QED BY <2>1 DEF FileInDaemon
<1> QED BY <1>10, <1>11, <1>12 DEF FilesInv

LEMMA FilesNext ==
    ASSUME TypeInv, EulaInv, MeetInv, FilesInv, [Next]_vars
    PROVE  FilesInv'
  BY NextIs, PassesFiles, SpawnsFiles, WorkingFiles

LEMMA FilesAlways == Spec => [](TypeInv /\ EulaInv /\ MeetInv /\ FilesInv)
<1>1. Init => TypeInv /\ EulaInv /\ MeetInv /\ FilesInv
  BY TypesInit, EulaInit, MeetInit, FilesInit
<1>2. TypeInv /\ EulaInv /\ MeetInv /\ FilesInv /\ [Next]_vars
         => (TypeInv /\ EulaInv /\ MeetInv /\ FilesInv)'
  BY TypesNext, EulaNext, MeetNext, FilesNext
<1> QED BY <1>1, <1>2, PTL DEF Spec

\* What the daemon knows of a unit and what its file says agree, up to the job that
\* has written the file and not handed over the unit; a file that a restart could not
\* read is there only where a job was cut short between truncating and filling it.
THEOREM FilesAgree == Spec => []FileAgrees
<1>1. ASSUME TypeInv, FilesInv
      PROVE  FileAgrees
  <2>1. ASSUME NEW u \in DOMAIN configs, NEW c, c = configs[u],
               Undisturbed(u, c.path, c.unit_file)
        PROVE  \/ files[c.unit_file] = AsFile(u, c)
               \/ \E j \in DOMAIN jobs :
                     /\ jobs[j].unit = u
                     /\ \/ files[c.unit_file] = Saved(j) /\ (At(j, "add") \/ InQueue(u) # {})
                        \/ /\ files[c.unit_file] = Broken
                           /\ jobs[j].at \in {"fill", "failing", "failed"}
    <3>1. u \in Units /\ c \in Config /\ InDaemon(u, c)
      BY <1>1, <2>1 DEF TypeInv, WorkersInv, WorkersTypeOK, InDaemon
    <3>2. Accounted(u, c)
      BY <1>1, <2>1, <3>1 DEF FilesInv, FileInDaemon
    <3> QED BY <3>2 DEF Accounted, At
  <2> QED BY <2>1 DEF FileAgrees
<1> QED BY <1>1, FilesAlways, PTL

(***************************************************************************)
(* Versions.  What the service lists does not change while it is watched,  *)
(* so that what was chosen stays what should be chosen.                    *)
(***************************************************************************)

\* The two numbers that are printed when the third is 0.
LEMMA FirstTwo ==
    ASSUME NEW v \in Core
    PROVE  SubSeq(v, 1, 2) = <<v[1], v[2]>>
<1>1. v = <<v[1], v[2], v[3]>> /\ v[1] \in Nat /\ v[2] \in Nat /\ v[3] \in Nat
  BY DEF Core
<1>2. PICK a \in Nat, b \in Nat, c \in Nat : v = <<a, b, c>> /\ a = v[1] /\ b = v[2]
  BY <1>1
<1>3. <<a, b, c>> \in Seq(Nat) /\ Len(<<a, b, c>>) = 3
  OBVIOUS
<1>4. PICK t : t = SubSeq(<<a, b, c>>, 1, 2)
  OBVIOUS
<1>5. t \in Seq(Nat) /\ Len(t) = 2
  BY <1>3, <1>4
<1>6. t[1] = a /\ t[2] = b
  BY <1>3, <1>4
<1>7. t = <<t[1], t[2]>>
  BY <1>5
<1> QED BY <1>2, <1>4, <1>6, <1>7

\* A release is found under the address that its version leads to.
LEMMA SpelledIs ==
    ASSUME Listing(published), NEW r \in published
    PROVE  /\ Parse(r.numbers) \in Core
           /\ \A v : v.core = Parse(r.numbers) => VersionString(v).numbers = r.numbers
<1>1. r.numbers \in Seq(Nat)
  BY DEF Listing, Release
<1>2. Parse(r.numbers) \in Core
  BY <1>1, ParseIsCore
<1>3. ASSUME NEW v, v.core = Parse(r.numbers)
      PROVE  VersionString(v).numbers = r.numbers
  <2>1. CASE Len(r.numbers) = 2
    <3>1. v.core = <<r.numbers[1], r.numbers[2], 0>>
      BY <1>1, <1>3, <2>1 DEF Parse
    <3>2. VersionString(v).numbers = SubSeq(v.core, 1, 2)
      BY <3>1 DEF VersionString
    <3>3. SubSeq(v.core, 1, 2) = <<r.numbers[1], r.numbers[2]>>
      BY <1>2, <1>3, <3>1, FirstTwo
    <3>4. r.numbers = <<r.numbers[1], r.numbers[2]>>
      BY <1>1, <2>1
    <3> QED BY <3>2, <3>3, <3>4
  <2>2. CASE Len(r.numbers) = 3 /\ r.numbers[3] # 0
    <3>1. v.core = <<r.numbers[1], r.numbers[2], r.numbers[3]>>
      BY <1>1, <1>3, <2>2 DEF Parse
    <3>2. VersionString(v).numbers = v.core
      BY <2>2, <3>1 DEF VersionString
    <3>3. r.numbers = <<r.numbers[1], r.numbers[2], r.numbers[3]>>
      BY <1>1, <2>2
    <3> QED BY <3>1, <3>2, <3>3
  <2> QED BY <2>1, <2>2 DEF Listing
<1> QED BY <1>2, <1>3

LEMMA ReleaseIs ==
    ASSUME Listing(published), NEW x \in Releases
    PROVE  /\ x.core \in Core /\ x.build \in Nat
           /\ \E r \in published : /\ x.core = Parse(r.numbers) /\ x.pre = r.pre
                                  /\ x.build \in r.builds
<1>1. PICK r \in published : \E b \in r.builds :
          x = [core |-> Parse(r.numbers), pre |-> r.pre, build |-> b]
  BY DEF Releases
<1>2. r.builds \subseteq Nat
  BY DEF Listing, Release
<1> QED BY <1>1, <1>2, SpelledIs

\* What is found under the address of a version is a release.
LEMMA FoundIsRelease ==
    ASSUME Listing(published), NEW v \in Version, NEW b \in BuildsAt(VersionString(v))
    PROVE  [core |-> v.core, pre |-> Meant(v).pre, build |-> b] \in Releases
<1>1. PICK s \in published : /\ s.numbers = VersionString(v).numbers
                             /\ s.pre = VersionString(v).pre /\ b \in s.builds
  BY DEF BuildsAt
<1>2. Parse(s.numbers) = v.core
  <2>1. v.core \in Core /\ v.core = <<v.core[1], v.core[2], v.core[3]>>
    BY DEF Version, Core
  <2>2. CASE v.core[3] = 0
    <3>1. s.numbers = SubSeq(v.core, 1, 2)
      BY <1>1, <2>2 DEF VersionString
    <3>2. s.numbers = <<v.core[1], v.core[2]>>
      BY <2>1, <3>1, FirstTwo
    <3>3. Parse(s.numbers) = <<v.core[1], v.core[2], 0>>
      BY <2>1, <3>2 DEF Parse, Core
    <3> QED BY <2>1, <2>2, <3>3
  <2>3. CASE v.core[3] # 0
    <3>1. s.numbers = <<v.core[1], v.core[2], v.core[3]>>
      BY <1>1, <2>1, <2>3 DEF VersionString
    <3>2. Parse(s.numbers) = <<v.core[1], v.core[2], v.core[3]>>
      BY <2>1, <3>1 DEF Parse, Core
    <3> QED BY <2>1, <3>2
  <2> QED BY <2>2, <2>3
<1>3. s.pre = Meant(v).pre
  BY <1>1 DEF VersionString, Meant, Version
<1> QED BY <1>1, <1>2, <1>3 DEF Releases

\* Of the releases of a version that an address leads to, none is newer than the
\* artifact.
LEMMA LatestIsNotAfter ==
    ASSUME Listing(published), NEW v \in Version, v.build = None, GetLatestArtifact(v) # None,
           NEW x \in Releases, x.core = v.core, x.pre = Meant(v).pre
    PROVE  NotAfter(x, GetLatestArtifact(v))
<1>1. PICK t \in Version : /\ t = GetLatestArtifact(v) /\ t.core = v.core /\ t.build \in Nat
                           /\ \A b \in BuildsAt(VersionString(v)) : b <= t.build
  BY LatestArtifactIs
<1>2. PICK r \in published : /\ x.core = Parse(r.numbers) /\ x.pre = r.pre
                             /\ x.build \in r.builds
  BY ReleaseIs
<1>3. VersionString(v).build = None /\ VersionString(v).numbers = r.numbers
  BY <1>2, SpelledIs DEF VersionString
<1>4. VersionString(v).pre = r.pre
  BY <1>2 DEF VersionString, Meant, Version
<1>5. x.build \in BuildsAt(VersionString(v))
  BY <1>2, <1>3, <1>4 DEF BuildsAt
<1> QED BY <1>1, <1>5 DEF NotAfter

ChosenFor(a, t) ==
    /\ Meant(t) \in Releases
    /\ \A x \in Releases : Eligible(x, a) => NotAfter(x, t)
    /\ IF a = None THEN ~t.pre
       ELSE t.core = a.core /\ t.pre = a.pre /\ a.build \in {None, t.build}

LEMMA ArtifactIsChosen ==
    ASSUME Listing(published), NEW j \in DOMAIN jobs, jobs[j] \in Job, Artifact(j) # None
    PROVE  ChosenFor(jobs[j].asked, Artifact(j))
<1> DEFINE a == jobs[j].asked
<1>0. ASSUME NEW v \in Version, NEW w \in Version, w.build \in BuildsAt(VersionString(v)),
             w.core = v.core, w.pre = v.pre
      PROVE  Meant(w) \in Releases
  <2>1. Meant(w) = [core |-> v.core, pre |-> Meant(v).pre, build |-> w.build]
    BY <1>0 DEF Meant, Version
  <2> QED BY <1>0, <2>1, FoundIsRelease
<1>1. ASSUME NEW v \in Version, GetLatestArtifact(v) # None
      PROVE  /\ Meant(GetLatestArtifact(v)) \in Releases
             /\ GetLatestArtifact(v).core = v.core /\ GetLatestArtifact(v).pre = v.pre
  <2>1. PICK t \in Version : /\ t = GetLatestArtifact(v) /\ t.core = v.core /\ t.pre = v.pre
                             /\ t.build \in BuildsAt(VersionString(v))
    BY <1>1, LatestArtifactIs
  <2> QED BY <1>0, <2>1
<1>2. CASE a = None
  <2>1. published # {} /\ Artifact(j) = GetLatestArtifact(LatestVersion)
    BY <1>2, ArtifactIs
  <2>2. PICK v : v = LatestVersion
    OBVIOUS
  <2>3. /\ v \in Version /\ v.build = None /\ \A w \in ListVersions : ~Before(v.core, w)
        /\ Artifact(j) = GetLatestArtifact(v) /\ ~v.pre
    BY <2>1, <2>2, LatestIsNewest DEF LatestVersion
  <2>4. Meant(Artifact(j)) \in Releases /\ Artifact(j).core = v.core /\ ~Artifact(j).pre
    BY <1>1, <2>3
  <2>5. ASSUME NEW x \in Releases, ~x.pre
        PROVE  NotAfter(x, Artifact(j))
    <3>1. CASE x.core = v.core
      <4>1. x.pre = Meant(v).pre
        BY <2>3, <2>5, ReleaseIs DEF Meant, Version, Listing, Release
      <4> QED BY <2>1, <2>3, <3>1, <4>1, LatestIsNotAfter
    <3>2. CASE x.core # v.core
      <4>1. x.core \in Core /\ x.core \in ListVersions
        BY ReleaseIs DEF ListVersions
      <4>2. Before(x.core, v.core)
        BY <2>3, <3>2, <4>1, BeforeIsOrder DEF Version, Core
      <4> QED BY <2>4, <4>2 DEF NotAfter
    <3> QED BY <3>1, <3>2
  <2> QED BY <1>2, <2>4, <2>5 DEF ChosenFor, Eligible
<1>3. CASE a # None /\ a.build = None
  <2>1. a \in Version /\ Artifact(j) = GetLatestArtifact(a)
    BY <1>3, ArtifactIs DEF Artifact, GetArtifact
  <2>2. /\ Meant(Artifact(j)) \in Releases
        /\ Artifact(j).core = a.core /\ Artifact(j).pre = a.pre
    BY <1>1, <2>1
  <2>3. \A x \in Releases : x.core = a.core /\ x.pre = Meant(a).pre => NotAfter(x, Artifact(j))
    BY <1>3, <2>1, LatestIsNotAfter
  <2> QED BY <1>3, <2>2, <2>3 DEF ChosenFor, Eligible
<1>4. CASE a # None /\ a.build # None
  <2>1. a \in Version /\ Artifact(j) = a /\ a.build \in BuildsAt(VersionString(a))
    BY <1>4, ArtifactIs DEF Artifact, GetArtifact
  <2>2. Meant(a) \in Releases
    BY <1>0, <2>1
  <2> QED BY <1>4, <2>1, <2>2 DEF ChosenFor, Eligible
<1> QED BY <1>2, <1>3, <1>4

ChosenInv ==
    \A j \in DOMAIN jobs : jobs[j].target # None =>
        /\ ChosenFor(jobs[j].asked, jobs[j].target)
        /\ jobs[j].kind = "update" => jobs[j].target # jobs[j].current

LEMMA ChosenNext ==
    ASSUME TypeInv, ChosenInv, [Next]_vars
    PROVE  ChosenInv'
<1>1. UNCHANGED published => \A a, t : ChosenFor(a, t)' = ChosenFor(a, t)
  BY DEF ChosenFor, Eligible, Releases
<1>2. CASE Passes
  <2>1. UNCHANGED published
    BY <1>2 DEF Passes, AddUnit, Exit, Restart, TakeEvent, Command, InstallServer, UpdateServer,
       vars, workVars
  <2>2. \A j \in DOMAIN jobs :
           /\ SameJob(jobs[j], jobs'[j]) /\ jobs'[j].target = jobs[j].target
    <3>1. \A j \in DOMAIN jobs : jobs[j] \in Job
      BY DEF TypeInv, WorkersInv, GoodRow
    <3> QED BY <1>2, <3>1, PassesIs, PassesRowsStay, SteppedIs DEF RowsStay
  <2> QED BY <1>1, <1>2, <2>1, <2>2, PassesIs DEF ChosenInv, SameJob
<1>3. ASSUME NEW cmd, Spawns(cmd)
      PROVE  ChosenInv'
  BY <1>1, <1>3, SpawnRowsStay, SpawnsIs DEF ChosenInv
<1>4. ASSUME NEW j \in DOMAIN jobs, Working(j)
      PROVE  ChosenInv'
  <2>1. PICK step, t : Takes(j, step, t)
    BY <1>4, StepIsTaken DEF TypeInv, Working
  <2>2. /\ DOMAIN jobs' = DOMAIN jobs /\ UNCHANGED published
        /\ \A i \in DOMAIN jobs : i # j => jobs'[i] = jobs[i]
        /\ SameJob(jobs[j], jobs'[j]) /\ jobs'[j].target = t
    BY <1>4, <2>1, TakesSame DEF Working, JobStep
  <2>3. CASE step = "download"
    <3>1. jobs[j] \in Job /\ Listing(published) /\ t = Artifact(j) /\ t # None
      BY <2>1, <2>3 DEF Takes, TypeInv, WorkersInv, WorkersTypeOK, GoodRow
    <3>2. ChosenFor(jobs[j].asked, t) /\ (jobs[j].kind = "update" => t # jobs[j].current)
      BY <2>1, <2>3, <3>1, ArtifactIsChosen, UpdateIsNew
    <3> QED BY <1>1, <2>2, <3>2 DEF ChosenInv, SameJob
  <2>4. CASE step # "download"
    <3>1. t = jobs[j].target
      BY <2>1, <2>4 DEF Takes
    <3> QED BY <1>1, <2>2, <3>1 DEF ChosenInv, SameJob
  <2> QED BY <2>3, <2>4
<1> QED BY <1>2, <1>3, <1>4, NextIs

\* A job that asked for no version fetches the newest build of the newest release, one
\* that asked for a version that version's newest build, and one that asked for a build
\* that build (install.rs, line 24; mcman.rs, lines 139 and 188); an update never
\* fetches what the unit has.
THEOREM VersionsAreChosenAsAsked == Spec => []ChosenAsAsked
<1>1. Init => TypeInv /\ ChosenInv
  <2>1. Init => ChosenInv
    BY DEF Init, WorkersInit, ChosenInv
  <2> QED BY <2>1, TypesInit
<1>2. TypeInv /\ ChosenInv /\ [Next]_vars => (TypeInv /\ ChosenInv)'
  BY TypesNext, ChosenNext
<1>3. ChosenInv => ChosenAsAsked
  BY DEF ChosenInv, ChosenAsAsked, ChosenFor
<1> QED BY <1>1, <1>2, <1>3, PTL DEF Spec

(***************************************************************************)
(* What a job that is done leaves behind.  Whoever says of a unit where it *)
(* lives, the daemon, a message, a unit file or a job at work, says the    *)
(* same as long as it is undisturbed.                                      *)
(***************************************************************************)

FileNames(f, u) == f \in UnitFiles /\ files[f] \notin {None, Broken} /\ files[f].unit = u
Holds(u, p, f) ==
    \/ u \in DOMAIN configs /\ configs[u].path = p /\ configs[u].unit_file = f
    \/ \E i \in InQueue(u) : queue[i].config.path = p /\ queue[i].config.unit_file = f
    \/ FileNames(f, u) /\ files[f].path = p
    \/ \E k \in DOMAIN jobs : /\ jobs[k].at \in Busy /\ jobs[k].unit = u
                              /\ jobs[k].path = p /\ jobs[k].unit_file = f
OneHome ==
    \A u, p, f, q, g : Holds(u, p, f) /\ Holds(u, q, g) /\ Undisturbed(u, p, f) => p = q /\ f = g
\* A unit whose file is there is known to the daemon, or is about to be.
FilesKnown ==
    up => \A f, u : FileNames(f, u) =>
        \/ u \in DOMAIN configs
        \/ \E i \in DOMAIN jobs : /\ jobs[i].unit = u /\ jobs[i].unit_file = f
                                  /\ jobs[i].at = "add" \/ InQueue(u) # {}
HomeInv == OneHome /\ FilesKnown

\* Nothing but a command that spawns a job gives a unit a new home.
LEMMA PassesHolds ==
    ASSUME TypeInv, Passes, NEW u, NEW p, NEW f, Holds(u, p, f)'
    PROVE  Holds(u, p, f)
<1>1. /\ UNCHANGED files
      /\ \A i \in DOMAIN queue' : \E k \in DOMAIN queue : queue'[i] = queue[k]
      /\ DOMAIN jobs' = DOMAIN jobs
      /\ \A j \in DOMAIN jobs : jobs'[j].at \in Busy => jobs'[j] = jobs[j]
  BY PassesIs DEF Busy
<1>2. CASE u \in DOMAIN configs' /\ configs'[u].path = p /\ configs'[u].unit_file = f
  <2>1. CASE AddUnit
    <3>1. CASE Head(queue).unit_id = u
      <4>1. configs'[u] = Head(queue).config
        BY <2>1, <3>1 DEF AddUnit, Added
      <4> QED BY <1>2, <2>1, <3>1, <4>1, OneMessageLeaves DEF Holds, InQueue
    <3>2. CASE Head(queue).unit_id # u
      BY <1>2, <2>1, <3>2 DEF AddUnit, Added, Holds
    <3> QED BY <3>1, <3>2
  <2>2. CASE Restart
    <3>1. PICK last : /\ \A v \in {files[g].unit : g \in Readable} : last[v] \in FilesOf(v)
                      /\ configs' = [v \in {files[g].unit : g \in Readable} |-> Loaded(last[v])]
      BY <2>2 DEF Restart
    <3>2. PICK g \in Readable : g = last[u] /\ files[g].unit = u /\ configs'[u] = Loaded(g)
      BY <1>2, <3>1 DEF FilesOf
    <3>3. g = f /\ files[g].path = p /\ files[g] # Broken /\ files[g] # None /\ g \in UnitFiles
      BY <1>2, <2>2, <3>2 DEF Loaded, Restart, Readable
    <3> QED BY <3>2, <3>3 DEF Holds, FileNames
  <2>3. CASE Exit
    <3>1. DOMAIN configs' = {}
      BY <2>3 DEF Exit
    <3> QED BY <1>2, <3>1
  <2>4. CASE ~AddUnit /\ ~Restart /\ ~Exit
    <3>1. UNCHANGED configs
      BY <2>4 DEF Passes, TakeEvent, Command, InstallServer, UpdateServer, vars, workVars
    <3> QED BY <1>2, <3>1 DEF Holds
  <2> QED BY <2>1, <2>2, <2>3, <2>4
<1>3. CASE ~(u \in DOMAIN configs' /\ configs'[u].path = p /\ configs'[u].unit_file = f)
  BY <1>1, <1>3 DEF Holds, InQueue, FileNames
<1> QED BY <1>2, <1>3

LEMMA WorkingHolds ==
    ASSUME TypeInv, EulaInv, MeetInv, NEW j \in DOMAIN jobs, Working(j),
           NEW u, NEW p, NEW f, Holds(u, p, f)'
    PROVE  Holds(u, p, f)
<1>1. /\ JobStep(j) /\ RowsStay /\ DOMAIN jobs' = DOMAIN jobs /\ jobs[j].at \in Busy
      /\ UNCHANGED configs
  BY WorkingIs DEF JobStep
<1>2. Holds(jobs[j].unit, jobs[j].path, jobs[j].unit_file)
  BY <1>1 DEF Holds
<1>3. CASE u \in DOMAIN configs' /\ configs'[u].path = p /\ configs'[u].unit_file = f
  BY <1>1, <1>3 DEF Holds
<1>4. ASSUME NEW i \in DOMAIN queue', queue'[i].unit_id = u, queue'[i].config.path = p,
             queue'[i].config.unit_file = f
      PROVE  Holds(u, p, f)
  <2>1. CASE i \in DOMAIN queue /\ queue'[i] = queue[i]
    BY <1>4, <2>1 DEF Holds, InQueue
  <2>2. CASE ~(i \in DOMAIN queue /\ queue'[i] = queue[i])
    <3>1. queue'[i] = AddServerUnitEvent(jobs[j].unit, Result(j))
      BY <1>1, <1>4, <2>2, StepQueue
    <3> QED BY <1>2, <1>4, <3>1, EventIs DEF Result
  <2> QED BY <2>1, <2>2
<1>5. CASE FileNames(f, u)' /\ files'[f].path = p
  <2>1. f \in Files /\ files \in [Files -> UnitFile \cup {None, Broken}]
    BY <1>5, InstallationAssumption DEF FileNames, TypeInv, WorkersInv, WorkersTypeOK
  <2>2. CASE files'[f] = files[f]
    BY <1>5, <2>2 DEF Holds, FileNames
  <2>3. CASE files'[f] # files[f]
    <3>1. f = jobs[j].unit_file /\ files'[f] \in {Broken, Saved(j)}
      BY <1>1, <2>1, <2>3, StepFiles
    <3>2. files'[f] = Saved(j)
      BY <1>5, <3>1 DEF FileNames, Broken
    <3>3. u = jobs[j].unit /\ p = jobs[j].path
      BY <1>5, <3>2 DEF FileNames, Saved, AsFile, Result
    <3> QED BY <1>2, <3>1, <3>3
  <2> QED BY <2>2, <2>3
<1>6. ASSUME NEW k \in DOMAIN jobs', jobs'[k].at \in Busy, jobs'[k].unit = u,
             jobs'[k].path = p, jobs'[k].unit_file = f
      PROVE  Holds(u, p, f)
  BY <1>1, <1>6 DEF Holds, RowsStay, SameJob
<1> QED BY <1>3, <1>4, <1>5, <1>6 DEF Holds, InQueue

\* An update finds its unit where the daemon has it, and the home of an installation
\* is new: if the unit is somewhere else, both are contested.
LEMMA SpawnsHolds ==
    ASSUME TypeInv, MeetInv, HomeInv, NEW cmd, Spawns(cmd),
           NEW u, NEW p, NEW f, Holds(u, p, f)'
    PROVE  \/ Holds(u, p, f)
           \/ /\ u = NewJob(cmd).unit /\ p = NewJob(cmd).path /\ f = NewJob(cmd).unit_file
              /\ u \notin DOMAIN configs
              /\ \A q, g : Holds(u, q, g) => /\ ~Undisturbed(u, p, f)'
                                             /\ ~Undisturbed(u, q, g)'
<1> DEFINE n == Len(jobs) + 1
           x == NewJob(cmd)
<1>1. /\ RowsStay /\ DOMAIN jobs' = DOMAIN jobs \cup {n} /\ n \notin DOMAIN jobs /\ jobs'[n] = x
      /\ \A i \in DOMAIN jobs : jobs'[i] = jobs[i]
      /\ UNCHANGED <<configs, dirs, files, queue>>
  BY SpawnRowsStay, SpawnsIs
<1>2. CASE cmd.kind = "UpdateServer"
  <2>1. /\ x.unit = cmd.unit_id /\ cmd.unit_id \in DOMAIN configs
        /\ x.path = configs[x.unit].path /\ x.unit_file = configs[x.unit].unit_file
    <3>1. cmd.unit_id \in DOMAIN configs
      BY <1>2, SpawnsIs
    <3>2. PICK c : c = configs[cmd.unit_id]
      OBVIOUS
    <3>3. x = [kind |-> "update", unit |-> cmd.unit_id, type |-> "paper",
               path |-> c.path, unit_file |-> c.unit_file, eula |-> FALSE,
               asked |-> cmd.server_version, current |-> c.version,
               target |-> None, at |-> "check"]
      BY <1>2, <3>2 DEF NewJob
    <3>4. x.unit = cmd.unit_id /\ x.path = c.path /\ x.unit_file = c.unit_file
      BY <3>3
    <3> QED BY <3>1, <3>2, <3>4
  <2> HIDE DEF x, n
  <2> QED BY <1>1, <2>1 DEF Holds, InQueue, FileNames
<1>3. CASE cmd.kind # "UpdateServer"
  <2>1. x.unit \notin DOMAIN configs /\ up
    <3>1. cmd.kind = "InstallServer" /\ cmd.unit_id \notin DOMAIN configs
      BY <1>3, SpawnsIs DEF WorkerCmd
    <3>2. up
      BY DEF Spawns
    <3> QED BY <3>1, <3>2 DEF NewJob
  <2>2. /\ Rivals(x) \subseteq contested' /\ (n \notin contested' => Rivals(x) = {})
        /\ \A j \in DOMAIN jobs : jobs[j].at \in Busy /\ Share(jobs[j], x) => j \in Rivals(x)
        /\ \A j \in DOMAIN jobs : jobs[j].unit = x.unit /\ InQueue(jobs[j].unit) # {}
                                     => j \in Rivals(x)
    BY SpawnsContest
  <2> HIDE DEF x, n
  <2>3. CASE Holds(u, p, f)
    BY <2>3
  <2>4. CASE ~Holds(u, p, f)
    <3>1. u = x.unit /\ p = x.path /\ f = x.unit_file
      BY <1>1, <2>4 DEF Holds, InQueue, FileNames
    <3>2. ASSUME NEW q, NEW g, Holds(u, q, g)
          PROVE  \E k \in DOMAIN jobs : /\ jobs[k].path = q \/ jobs[k].unit_file = g
                                        /\ k \in Rivals(x)
      <4>1. CASE \E i \in InQueue(u) : queue[i].config.path = q
        <5>1. PICK i \in InQueue(u) : queue[i].config.path = q
          BY <4>1
        <5>2. PICK k \in DOMAIN jobs : queue[i] = AddServerUnitEvent(jobs[k].unit, Result(k))
          BY <5>1 DEF MeetInv, SentByJob, InQueue
        <5>3. jobs[k].unit = u /\ jobs[k].path = q
          BY <5>1, <5>2, EventIs DEF InQueue, Result
        <5> QED BY <2>2, <3>1, <5>1, <5>3
      <4>2. CASE FileNames(g, u)
        <5>1. PICK i \in DOMAIN jobs : /\ jobs[i].unit = u /\ jobs[i].unit_file = g
                                       /\ jobs[i].at = "add" \/ InQueue(u) # {}
          BY <2>1, <3>1, <4>2 DEF HomeInv, FilesKnown
        <5> QED BY <2>2, <3>1, <5>1 DEF Share, Busy
      <4>3. CASE \E k \in DOMAIN jobs : jobs[k].at \in Busy /\ jobs[k].unit = u /\ jobs[k].path = q
        BY <2>2, <3>1, <4>3 DEF Share
      <4> QED BY <2>1, <3>1, <3>2, <4>1, <4>2, <4>3 DEF Holds
    <3>3. ASSUME NEW q, NEW g, Holds(u, q, g)
          PROVE  ~Undisturbed(u, p, f)' /\ ~Undisturbed(u, q, g)'
      <4>1. PICK k \in DOMAIN jobs : (jobs[k].path = q \/ jobs[k].unit_file = g) /\ k \in Rivals(x)
        BY <3>2, <3>3
      <4>2. n \in contested' /\ k \in contested'
        BY <2>2, <4>1
      <4> QED BY <1>1, <3>1, <4>1, <4>2 DEF Undisturbed
    <3> QED BY <2>1, <3>1, <3>3 DEF x
  <2> QED BY <2>3, <2>4
<1> QED BY <1>2, <1>3

LEMMA HomeInit ==
    ASSUME Init, TypeInv
    PROVE  HomeInv
<1>1. ASSUME NEW f, NEW u, FileNames(f, u)
      PROVE  u \in DOMAIN configs /\ configs[u].path = files[f].path /\ configs[u].unit_file = f
  <2>1. f \in Files /\ files[f] # None /\ files[f] # Broken
    BY <1>1, InstallationAssumption DEF FileNames
  <2>2. PICK x \in UnitFile : x = files[f]
    BY <2>1 DEF TypeInv, WorkersInv, WorkersTypeOK
  <2> DEFINE c == [path |-> x.path, version |-> x.version, unit_file |-> f]
  <2>3. c \in Config /\ u \in Units /\ AsFile(u, c) = x /\ c.unit_file = f /\ c.path = x.path
    BY <1>1, <2>1, <2>2 DEF Config, UnitFile, AsFile, FileNames
  <2> HIDE DEF c
  <2>4. InDaemon(u, c)
    BY <2>1, <2>2, <2>3, InitNames DEF Names, InFile
  <2> QED BY <2>2, <2>3, <2>4 DEF InDaemon
<1>2. DOMAIN jobs = {} /\ DOMAIN queue = {}
  BY DEF Init, WorkersInit
<1>3. OneHome
  BY <1>1, <1>2 DEF OneHome, Holds, InQueue
<1>4. FilesKnown
  BY <1>1 DEF FilesKnown
<1> QED BY <1>3, <1>4 DEF HomeInv

LEMMA PassesHome ==
    ASSUME TypeInv, HomeInv, Passes
    PROVE  HomeInv'
<1>1. OneHome'
  BY PassesHolds, PassesRowsStay, UndisturbedStays DEF HomeInv, OneHome
<1>2. \A f, u : FileNames(f, u)' => FileNames(f, u)
  BY PassesIs DEF FileNames
<1>3. FilesKnown'
  <2>1. CASE AddUnit
    <3>1. UNCHANGED <<jobs, up>> /\ DOMAIN configs' = DOMAIN configs \cup {Head(queue).unit_id}
      BY <2>1 DEF AddUnit, Added
    <3>2. \A u : InQueue(u) # {} /\ u # Head(queue).unit_id => InQueue(u)' # {}
      BY <2>1, OneMessageLeaves DEF InQueue
    <3> QED BY <1>2, <3>1, <3>2 DEF HomeInv, FilesKnown
  <2>2. CASE Restart
    <3>1. DOMAIN configs' = {files[g].unit : g \in Readable}
      BY <2>2 DEF Restart
    <3> QED BY <1>2, <3>1 DEF FilesKnown, FileNames, Readable
  <2>3. CASE Exit
    BY <2>3 DEF Exit, FilesKnown
  <2>4. CASE ~AddUnit /\ ~Restart /\ ~Exit
    <3>1. UNCHANGED <<configs, jobs, queue, up>>
      BY <2>4 DEF Passes, TakeEvent, Command, InstallServer, UpdateServer, vars, workVars
    <3>2. \A u : InQueue(u)' = InQueue(u)
      BY <3>1 DEF InQueue
    <3> QED BY <1>2, <3>1, <3>2 DEF HomeInv, FilesKnown
  <2> QED BY <2>1, <2>2, <2>3, <2>4
<1> QED BY <1>1, <1>3 DEF HomeInv

LEMMA SpawnsHome ==
    ASSUME TypeInv, MeetInv, HomeInv, NEW cmd, Spawns(cmd)
    PROVE  HomeInv'
<1>1. OneHome'
  <2>1. \A u, p, f : Undisturbed(u, p, f)' => Undisturbed(u, p, f)
    BY SpawnRowsStay, UndisturbedStays
  <2>2. ASSUME NEW u, NEW p, NEW f, NEW q, NEW g,
               Holds(u, p, f)', Holds(u, q, g)', Undisturbed(u, p, f)'
        PROVE  p = q /\ f = g
    <3>1. CASE Holds(u, p, f) /\ Holds(u, q, g)
      BY <2>1, <2>2, <3>1 DEF HomeInv, OneHome
    <3>2. CASE ~Holds(u, p, f) /\ Holds(u, q, g)
      BY <2>2, <3>2, SpawnsHolds
    <3>3. CASE Holds(u, p, f) /\ ~Holds(u, q, g)
      BY <2>2, <3>3, SpawnsHolds
    <3>4. CASE ~Holds(u, p, f) /\ ~Holds(u, q, g)
      BY <2>2, <3>4, SpawnsHolds
    <3> QED BY <3>1, <3>2, <3>3, <3>4
  <2> QED BY <2>2 DEF OneHome
<1>2. /\ DOMAIN jobs \subseteq DOMAIN jobs' /\ \A i \in DOMAIN jobs : jobs'[i] = jobs[i]
      /\ UNCHANGED <<configs, files, queue, up>>
  BY SpawnRowsStay, SpawnsIs
<1>3. \A u : InQueue(u)' = InQueue(u)
  BY <1>2 DEF InQueue
<1>4. FilesKnown'
  BY <1>2, <1>3 DEF HomeInv, FilesKnown, FileNames
<1> QED BY <1>1, <1>4 DEF HomeInv

LEMMA WorkingHome ==
    ASSUME TypeInv, EulaInv, MeetInv, HomeInv, NEW j \in DOMAIN jobs, Working(j)
    PROVE  HomeInv'
<1>1. /\ JobStep(j) /\ RowsStay /\ DOMAIN jobs' = DOMAIN jobs
      /\ \A i \in DOMAIN jobs : i # j => jobs'[i] = jobs[i]
      /\ SameJob(jobs[j], jobs'[j]) /\ UNCHANGED <<configs, up>>
  BY WorkingIs DEF JobStep, Working
<1>2. OneHome'
  BY <1>1, WorkingHolds, UndisturbedStays DEF HomeInv, OneHome
<1>3. FilesKnown'
  <2>1. ASSUME up, NEW f, NEW u, FileNames(f, u)'
        PROVE  \/ u \in DOMAIN configs
               \/ \E i \in DOMAIN jobs : /\ jobs'[i].unit = u /\ jobs'[i].unit_file = f
                                         /\ jobs'[i].at = "add" \/ InQueue(u)' # {}
    <3>1. f \in Files /\ files \in [Files -> UnitFile \cup {None, Broken}]
      BY <2>1, InstallationAssumption DEF FileNames, TypeInv, WorkersInv, WorkersTypeOK
    <3>2. CASE FileNames(f, u)
      <4>1. CASE u \in DOMAIN configs
        BY <4>1
      <4>2. CASE u \notin DOMAIN configs
        <5>1. PICK i \in DOMAIN jobs : /\ jobs[i].unit = u /\ jobs[i].unit_file = f
                                       /\ jobs[i].at = "add" \/ InQueue(u) # {}
          BY <2>1, <3>2, <4>2 DEF HomeInv, FilesKnown
        <5>2. jobs'[i].unit = u /\ jobs'[i].unit_file = f
          BY <1>1, <5>1 DEF SameJob
        <5>3. InQueue(u) # {} => InQueue(u)' # {}
          BY <1>1, StepQueue DEF InQueue
        <5>4. jobs[i].at = "add" => jobs'[i].at = "add" \/ InQueue(u)' # {}
          <6>1. CASE i = j /\ jobs[j].at = "add"
            <7>1. SendAdd(j)
              BY <1>1, <6>1 DEF JobStep, At, Look, MakeDir, AcceptEula, SayProgress, CheckForUpdate,
                 Lookup, OpenJar, CopyJar, Patch, TruncateUnitFile, FillUnitFile, SayHowItEnded
            <7>2. InQueue(u)' # {}
              BY <1>1, <5>1, <6>1, <7>1, StepQueue, EventIs DEF InQueue
            <7> QED BY <7>2
          <6> QED BY <1>1, <6>1
        <5> QED BY <5>1, <5>2, <5>3, <5>4
      <4> QED BY <4>1, <4>2
    <3>3. CASE ~FileNames(f, u)
      <4>1. files'[f] # files[f]
        BY <2>1, <3>3 DEF FileNames
      <4>2. files'[f] # Broken
        BY <2>1 DEF FileNames
      <4>3. f = jobs[j].unit_file /\ jobs'[j].at = "add" /\ files'[f] = Saved(j)
        BY <1>1, <3>1, <4>1, <4>2, StepFiles
      <4>4. u = jobs[j].unit
        BY <2>1, <4>3 DEF FileNames, Saved, AsFile
      <4> QED BY <1>1, <4>3, <4>4 DEF SameJob
    <3> QED BY <3>2, <3>3
  <2> QED BY <1>1, <2>1 DEF FilesKnown
<1> QED BY <1>2, <1>3 DEF HomeInv

\* A job that is uncontested began when the jobs before it had ended.
OneByOne ==
    \A j \in DOMAIN jobs \ contested, k \in DOMAIN jobs :
        k < j /\ Share(jobs[j], jobs[k]) => jobs[k].at \notin Busy

Choosing == {"look", "mkdir", "made", "eula", "accepted", "check", "lookup"}
Later(j) ==
    {jobs[k].target : k \in {i \in DOMAIN jobs : /\ i >= j /\ jobs[i].unit = jobs[j].unit
                                                 /\ jobs[i].at \notin Choosing}}
Finished(j) ==
    /\ jobs[j].at \in {"complete", "done"} /\ jobs[j].unit_file \in UnitFiles
    /\ Undisturbed(jobs[j].unit, jobs[j].path, jobs[j].unit_file)

FileStays(j) ==
    LET file == files[jobs[j].unit_file]
    IN /\ file # None
       /\ file = Broken \/ (/\ file.unit = jobs[j].unit /\ file.path = jobs[j].path
                            /\ file.version \in Later(j))
UnitStays(j) ==
    up => \/ InQueue(jobs[j].unit) # {}
          \/ /\ jobs[j].unit \in DOMAIN configs
             /\ configs[jobs[j].unit].version \in Later(j)
HomeStays(j) ==
    \A p, f : Holds(jobs[j].unit, p, f) => p = jobs[j].path /\ f = jobs[j].unit_file
MessagesFollow(j) ==
    \A i \in InQueue(jobs[j].unit) : queue[i].config.version \in Later(j)
DoneInv ==
    /\ OneByOne
    /\ \A j \in DOMAIN jobs : Finished(j) =>
          FileStays(j) /\ UnitStays(j) /\ HomeStays(j) /\ MessagesFollow(j)

LEMMA PassesDone ==
    ASSUME TypeInv, DoneInv, Passes
    PROVE  DoneInv'
<1>1. /\ RowsStay /\ DOMAIN jobs' = DOMAIN jobs /\ UNCHANGED <<files, contested>>
      /\ \A j \in DOMAIN jobs :
            /\ jobs'[j] = jobs[j] \/ jobs'[j].at = "dead"
            /\ jobs'[j].unit = jobs[j].unit /\ jobs'[j].target = jobs[j].target
  <2>1. \A j \in DOMAIN jobs : jobs[j] \in Job
    BY DEF TypeInv, WorkersInv, GoodRow
  <2> QED BY <2>1, PassesIs, PassesRowsStay, SteppedIs DEF RowsStay, SameJob
<1>2. OneByOne'
  BY <1>1 DEF DoneInv, OneByOne, RowsStay, SameJob, Share
<1>3. \A j \in DOMAIN jobs : Later(j) \subseteq Later(j)'
  <2>1. "dead" \notin Choosing
    BY DEF Choosing
  <2> QED BY <1>1, <2>1 DEF Later
<1>4. ASSUME NEW j \in DOMAIN jobs, Finished(j)'
      PROVE  jobs'[j] = jobs[j] /\ FileStays(j) /\ UnitStays(j) /\ HomeStays(j) /\ MessagesFollow(j)
  <2>1. jobs'[j] = jobs[j]
    BY <1>1, <1>4 DEF Finished
  <2>2. PICK u, p, f : u = jobs[j].unit /\ p = jobs[j].path /\ f = jobs[j].unit_file
    OBVIOUS
  <2>3. Undisturbed(u, p, f)'
    BY <1>4, <2>1, <2>2 DEF Finished, Undisturbed
  <2>4. Undisturbed(u, p, f)
    BY <1>1, <2>3, UndisturbedStays
  <2>5. Finished(j)
    BY <1>4, <2>1, <2>2, <2>4 DEF Finished
  <2> QED BY <2>1, <2>5 DEF DoneInv
<1>5. ASSUME NEW j \in DOMAIN jobs, Finished(j)'
      PROVE  FileStays(j)'
  BY <1>1, <1>3, <1>4, <1>5 DEF FileStays
<1>6. ASSUME NEW j \in DOMAIN jobs, Finished(j)'
      PROVE  HomeStays(j)'
  <2>1. PICK u : u = jobs[j].unit
    OBVIOUS
  <2>2. \A p, f : Holds(u, p, f)' => p = jobs[j].path /\ f = jobs[j].unit_file
    BY <1>4, <1>6, <2>1, PassesHolds DEF HomeStays
  <2> QED BY <1>4, <1>6, <2>1, <2>2 DEF HomeStays, Holds, InQueue, FileNames
<1>7. ASSUME NEW j \in DOMAIN jobs, Finished(j)'
      PROVE  MessagesFollow(j)'
  BY <1>3, <1>4, <1>7, PassesIs DEF MessagesFollow, InQueue
<1>8. ASSUME NEW j \in DOMAIN jobs, Finished(j)'
      PROVE  UnitStays(j)'
  <2>1. PICK u : u = jobs[j].unit /\ u = jobs'[j].unit
    BY <1>4, <1>8
  <2>2. FileStays(j) /\ UnitStays(j) /\ HomeStays(j) /\ MessagesFollow(j)
    BY <1>4, <1>8
  <2>3. SUFFICES ASSUME up'
                 PROVE  \/ InQueue(u)' # {}
                        \/ u \in DOMAIN configs' /\ configs'[u].version \in Later(j)
    BY <1>3, <2>1 DEF UnitStays, InQueue
  <2>4. CASE AddUnit
    <3>1. up' = up /\ configs' = [v \in DOMAIN configs \cup {Head(queue).unit_id} |->
                                     IF v = Head(queue).unit_id THEN Head(queue).config
                                                                ELSE configs[v]]
      BY <2>4 DEF AddUnit, Added
    <3>2. CASE Head(queue).unit_id = u
      <4>1. configs'[u] = Head(queue).config /\ u \in DOMAIN configs'
        BY <3>1, <3>2
      <4>2. 1 \in InQueue(u) /\ Head(queue) = queue[1]
        BY <2>4, <3>2, OneMessageLeaves DEF InQueue
      <4> QED BY <2>1, <2>2, <4>1, <4>2 DEF MessagesFollow
    <3>3. CASE Head(queue).unit_id # u
      <4>1. InQueue(u) # {} => InQueue(u)' # {}
        BY <2>4, <3>3, OneMessageLeaves DEF InQueue
      <4> QED BY <2>1, <2>2, <2>3, <3>1, <3>3, <4>1 DEF UnitStays
    <3> QED BY <3>2, <3>3
  <2>5. CASE Restart
    <3>1. PICK last : /\ \A v \in {files[g].unit : g \in Readable} : last[v] \in FilesOf(v)
                      /\ configs' = [v \in {files[g].unit : g \in Readable} |-> Loaded(last[v])]
      BY <2>5 DEF Restart
    <3>2. \A g \in Readable : g \in UnitFiles /\ files[g] \notin {None, Broken}
      BY <2>5 DEF Restart, Readable
    <3>3. jobs[j].unit_file \in Readable
      BY <1>4, <1>8, <2>2 DEF Finished, FileStays, Readable
    <3>4. /\ files[jobs[j].unit_file].unit = u
          /\ files[jobs[j].unit_file].version \in Later(j)
      BY <2>1, <2>2, <3>2, <3>3 DEF FileStays
    <3>5. PICK g \in Readable : g = last[u] /\ files[g].unit = u /\ configs'[u] = Loaded(g)
      BY <3>1, <3>3, <3>4 DEF FilesOf
    <3>6. g = jobs[j].unit_file
      <4>1. Holds(u, files[g].path, g)
        BY <3>2, <3>5 DEF Holds, FileNames
      <4> QED BY <2>1, <2>2, <4>1 DEF HomeStays
    <3> QED BY <3>1, <3>3, <3>4, <3>5, <3>6 DEF Loaded
  <2>6. CASE Exit
    BY <2>3, <2>6 DEF Exit
  <2>7. CASE ~AddUnit /\ ~Restart /\ ~Exit
    <3>1. UNCHANGED <<configs, queue, up>>
      BY <2>7 DEF Passes, TakeEvent, Command, InstallServer, UpdateServer, vars, workVars
    <3>2. InQueue(u)' = InQueue(u)
      BY <3>1 DEF InQueue
    <3> QED BY <2>1, <2>2, <2>3, <3>1, <3>2 DEF UnitStays
  <2> QED BY <2>4, <2>5, <2>6, <2>7
<1> QED BY <1>1, <1>2, <1>5, <1>6, <1>7, <1>8 DEF DoneInv

LEMMA SpawnsDone ==
    ASSUME TypeInv, MeetInv, HomeInv, DoneInv, NEW cmd, Spawns(cmd)
    PROVE  DoneInv'
<1> DEFINE n == Len(jobs) + 1
           x == NewJob(cmd)
<1>1. /\ RowsStay /\ DOMAIN jobs' = DOMAIN jobs \cup {n} /\ n \notin DOMAIN jobs /\ jobs'[n] = x
      /\ \A i \in DOMAIN jobs : jobs'[i] = jobs[i] /\ i < n
      /\ UNCHANGED <<configs, files, queue, up>> /\ up /\ DOMAIN jobs \subseteq Nat /\ n \in Nat
  <2>1. /\ RowsStay /\ DOMAIN jobs' = DOMAIN jobs \cup {n} /\ n \notin DOMAIN jobs
        /\ jobs'[n] = x /\ \A i \in DOMAIN jobs : jobs'[i] = jobs[i]
    BY SpawnRowsStay
  <2>2. UNCHANGED <<configs, files, queue, up>>
    BY SpawnsIs
  <2>3. up
    BY DEF Spawns
  <2>4. Len(jobs) \in Nat /\ DOMAIN jobs = 1 .. Len(jobs)
    BY JobsAreRows DEF TypeInv
  <2> HIDE DEF x
  <2> QED BY <2>1, <2>2, <2>3, <2>4
<1>2. x.at \in {"look", "check"}
  BY DEF NewJob
<1>3. /\ Rivals(x) \subseteq contested' /\ (n \notin contested' => Rivals(x) = {})
      /\ \A j \in DOMAIN jobs : jobs[j].at \in Busy /\ Share(jobs[j], x) => j \in Rivals(x)
  BY SpawnsContest
<1> HIDE DEF n, x
<1>4. OneByOne'
  BY <1>1, <1>3, ShareIsSymmetric DEF DoneInv, OneByOne, RowsStay
<1>5. \A j \in DOMAIN jobs : Later(j) \subseteq Later(j)'
  BY <1>1 DEF Later
<1>6. \A u : InQueue(u)' = InQueue(u)
  BY <1>1 DEF InQueue
<1>7. ASSUME NEW j \in DOMAIN jobs', Finished(j)'
      PROVE  (FileStays(j) /\ UnitStays(j) /\ HomeStays(j) /\ MessagesFollow(j))'
  <2>1. j \in DOMAIN jobs /\ jobs'[j] = jobs[j]
    BY <1>1, <1>2, <1>7 DEF Finished
  <2>2. PICK u, p, f : u = jobs[j].unit /\ p = jobs[j].path /\ f = jobs[j].unit_file
    OBVIOUS
  <2>3. Undisturbed(u, p, f)'
    BY <1>7, <2>1, <2>2 DEF Finished, Undisturbed
  <2>4. Undisturbed(u, p, f)
    BY <1>1, <2>3, UndisturbedStays
  <2>5. Finished(j)
    BY <1>7, <2>1, <2>2, <2>4 DEF Finished
  <2>6. FileStays(j) /\ UnitStays(j) /\ HomeStays(j) /\ MessagesFollow(j)
    BY <2>1, <2>5 DEF DoneInv
  <2>7. FileStays(j)' /\ UnitStays(j)' /\ MessagesFollow(j)'
    BY <1>1, <1>5, <1>6, <2>1, <2>6 DEF FileStays, UnitStays, MessagesFollow
  <2>8. ASSUME NEW q, NEW g, Holds(u, q, g)'
        PROVE  q = p /\ g = f
    <3>1. CASE Holds(u, q, g)
      BY <2>2, <2>6, <3>1 DEF HomeStays
    <3>2. CASE ~Holds(u, q, g)
      <4>1. /\ u \notin DOMAIN configs
            /\ \A r, h : Holds(u, r, h) => ~Undisturbed(u, r, h)'
        BY <2>8, <3>2, SpawnsHolds
      <4>2. PICK i \in InQueue(u) : TRUE
        BY <1>1, <2>2, <2>6, <4>1 DEF UnitStays
      <4>3. Holds(u, queue[i].config.path, queue[i].config.unit_file)
        BY <4>2 DEF Holds
      <4> QED BY <2>2, <2>3, <2>6, <4>1, <4>3 DEF HomeStays
    <3> QED BY <3>1, <3>2
  <2>9. HomeStays(j)'
    BY <2>1, <2>2, <2>8 DEF HomeStays, Holds, InQueue, FileNames
  <2> QED BY <2>7, <2>9
<1> QED BY <1>4, <1>7 DEF DoneInv

LEMMA WorkingDone ==
    ASSUME TypeInv, EulaInv, MeetInv, FilesInv, HomeInv, DoneInv,
           NEW k \in DOMAIN jobs, Working(k)
    PROVE  DoneInv'
<1>1. PICK step, t :
         /\ Takes(k, step, t) /\ JobStep(k)
         /\ RowsStay /\ DOMAIN jobs' = DOMAIN jobs /\ contested' = contested
         /\ \A i \in DOMAIN jobs : i # k => jobs'[i] = jobs[i]
         /\ SameJob(jobs[k], jobs'[k]) /\ jobs'[k].at = step /\ jobs'[k].target = t
         /\ jobs[k].at \in Busy
         /\ step # "download" => t = jobs[k].target
  BY WorkingIs
<1>2. UNCHANGED <<configs, up>>
  BY DEF Working, JobStep
<1>3. <<jobs[k].at, step>> \in NextAt \/ step \in {"failing", "panicked"}
  BY <1>1 DEF Takes
<1>4. /\ DOMAIN jobs \subseteq Nat
      /\ \A i \in DOMAIN jobs : /\ jobs'[i].unit = jobs[i].unit /\ jobs'[i].path = jobs[i].path
                                /\ jobs'[i].unit_file = jobs[i].unit_file
  BY <1>1, JobsAreRows DEF TypeInv, SameJob
<1>5. OneByOne'
  BY <1>1 DEF DoneInv, OneByOne, RowsStay, SameJob, Share
<1>6. \A j \in DOMAIN jobs : Later(j) \subseteq Later(j)'
  <2>1. \A i \in DOMAIN jobs : jobs[i].at \notin Choosing =>
           jobs'[i].at \notin Choosing /\ jobs'[i].target = jobs[i].target
    BY <1>1, <1>3 DEF NextAt, Choosing
  <2> QED BY <1>1, <1>4, <2>1 DEF Later
<1>7. ASSUME NEW j \in DOMAIN jobs, NEW p, NEW f, Undisturbed(jobs[j].unit, p, f),
             p = jobs[j].path, f = jobs[j].unit_file, jobs[k].unit = jobs[j].unit,
             jobs[k].at \notin Choosing, step \notin Choosing
      PROVE  jobs[k].target \in Later(j)'
  <2>1. j \notin contested
    BY <1>7 DEF Undisturbed
  <2>2. ~(k < j)
    BY <1>1, <1>7, <2>1 DEF DoneInv, OneByOne, Share
  <2>3. k >= j
    BY <1>4, <2>2
  <2>4. step # "download" => jobs'[k].target = jobs[k].target
    BY <1>1
  <2>5. step # "download"
    BY <1>1, <1>3, <1>7 DEF NextAt, Choosing
  <2> QED BY <1>1, <1>4, <1>7, <2>3, <2>4, <2>5 DEF Later
<1>8. ASSUME NEW j \in DOMAIN jobs, Finished(j)'
      PROVE  (FileStays(j) /\ UnitStays(j) /\ HomeStays(j) /\ MessagesFollow(j))'
  <2>1. PICK u, p, f : u = jobs[j].unit /\ p = jobs[j].path /\ f = jobs[j].unit_file
    OBVIOUS
  <2>2. Undisturbed(u, p, f)'
    BY <1>4, <1>8, <2>1 DEF Finished, Undisturbed
  <2>3. Undisturbed(u, p, f) /\ f \in UnitFiles /\ f \in Files
    BY <1>1, <1>4, <1>8, <2>1, <2>2, UndisturbedStays, InstallationAssumption DEF Finished
  <2>4. files \in [Files -> UnitFile \cup {None, Broken}]
    BY DEF TypeInv, WorkersInv, WorkersTypeOK
  <2>5. \A v : InQueue(v) # {} => InQueue(v)' # {}
    BY <1>1, StepQueue DEF InQueue
  <2>6. CASE Finished(j)
    <3>1. FileStays(j) /\ UnitStays(j) /\ HomeStays(j) /\ MessagesFollow(j)
      BY <2>6 DEF DoneInv
    <3>2. FileStays(j)'
      <4>1. CASE files'[f] = files[f]
        BY <1>4, <1>6, <2>1, <3>1, <4>1 DEF FileStays
      <4>2. CASE files'[f] # files[f]
        <5>1. /\ f = jobs[k].unit_file
              /\ files'[f] = Broken \/ (jobs[k].at = "fill" /\ step = "add" /\ files'[f] = Saved(k))
          BY <1>1, <2>3, <2>4, <4>2, StepFiles
        <5>2. jobs[k].unit = u
          BY <2>3, <5>1 DEF Undisturbed
        <5>3. jobs[k].path = p
          <6>1. Holds(u, jobs[k].path, f)
            BY <1>1, <5>1, <5>2 DEF Holds
          <6> QED BY <2>1, <3>1, <6>1 DEF HomeStays
        <5>4. CASE files'[f] = Broken
          BY <1>4, <2>1, <5>4, FileAssumption DEF FileStays
        <5>5. CASE jobs[k].at = "fill" /\ step = "add" /\ files'[f] = Saved(k)
          <6>1. jobs[k].target \in Later(j)'
            BY <1>7, <2>1, <2>3, <5>2, <5>5 DEF Choosing
          <6>2. Saved(k) \in UnitFile
            BY <5>5, ResultIsConfig DEF TypeInv
          <6>3. /\ Saved(k).unit = u /\ Saved(k).path = p
                /\ Saved(k).version = jobs[k].target
            BY <5>2, <5>3 DEF Saved, AsFile, Result
          <6> QED BY <1>4, <2>1, <5>5, <6>1, <6>2, <6>3, FileAssumption DEF FileStays
        <5> QED BY <5>1, <5>4, <5>5
      <4> QED BY <4>1, <4>2
    <3>3. UnitStays(j)'
      BY <1>2, <1>4, <1>6, <2>5, <3>1 DEF UnitStays
    <3>4. HomeStays(j)'
      <4>1. \A q, g : Holds(u, q, g)' => q = p /\ g = f
        BY <2>1, <3>1, WorkingHolds DEF HomeStays
      <4>3. u = jobs'[j].unit /\ p = jobs'[j].path /\ f = jobs'[j].unit_file
        BY <1>4, <2>1
      <4> QED BY <4>1, <4>3 DEF HomeStays, Holds, InQueue, FileNames
    <3>5. MessagesFollow(j)'
      <4>1. ASSUME NEW i \in DOMAIN queue', queue'[i].unit_id = u
            PROVE  queue'[i].config.version \in Later(j)'
        <5>1. CASE i \in DOMAIN queue /\ queue'[i] = queue[i]
          BY <1>6, <2>1, <3>1, <4>1, <5>1 DEF MessagesFollow, InQueue
        <5>2. CASE ~(i \in DOMAIN queue /\ queue'[i] = queue[i])
          <6>1. /\ jobs[k].at = "add" /\ step = "complete"
                /\ queue'[i] = AddServerUnitEvent(jobs[k].unit, Result(k))
            BY <1>1, <4>1, <5>2, StepQueue
          <6>2. jobs[k].unit = u /\ queue'[i].config.version = jobs[k].target
            BY <4>1, <6>1, EventIs DEF Result
          <6> QED BY <1>7, <2>1, <2>3, <6>1, <6>2 DEF Choosing
        <5> QED BY <5>1, <5>2
      <4> QED BY <1>4, <2>1, <4>1 DEF MessagesFollow, InQueue
    <3> QED BY <3>2, <3>3, <3>4, <3>5
  <2>7. CASE ~Finished(j)
    <3>1. jobs[j].at \notin {"complete", "done"} /\ jobs'[j].at \in {"complete", "done"}
      BY <1>4, <1>8, <2>1, <2>3, <2>7 DEF Finished
    <3>2. j = k /\ jobs[k].at = "add" /\ step = "complete"
      BY <1>1, <1>3, <3>1 DEF NextAt
    <3>3. SendAdd(k)
      BY <1>1, <3>2 DEF JobStep, At, Look, MakeDir, AcceptEula, SayProgress, CheckForUpdate, Lookup,
         OpenJar, CopyJar, Patch, TruncateUnitFile, FillUnitFile, SayHowItEnded
    <3>4. k \notin contested
      BY <2>1, <2>3, <3>2 DEF Undisturbed
    <3>5. /\ DOMAIN queue' = DOMAIN queue \cup {Len(queue) + 1}
          /\ \A i \in DOMAIN queue : queue'[i] = queue[i]
          /\ queue'[Len(queue) + 1] = AddServerUnitEvent(u, Result(k))
      BY <1>1, <2>1, <3>2, <3>3, StepQueue
    <3>6. jobs[k].target \in Later(j)'
      BY <1>7, <2>1, <2>3, <3>2 DEF Choosing
    <3>7. FileStays(j)'
      <4>1. files' = files
        BY <3>3 DEF SendAdd
      <4>2. files[f] = Saved(k) /\ Saved(k) \in UnitFile
        BY <2>1, <3>2, <3>4, ResultIsConfig DEF TypeInv, FilesInv, FileWritten
      <4>3. Saved(k).unit = u /\ Saved(k).path = p /\ Saved(k).version = jobs[k].target
        BY <2>1, <3>2 DEF Saved, AsFile, Result
      <4> QED BY <1>4, <2>1, <3>6, <4>1, <4>2, <4>3, FileAssumption DEF FileStays
    <3>8. UnitStays(j)'
      <4>1. Len(queue) + 1 \in InQueue(u)'
        BY <3>5, EventIs DEF InQueue
      <4> QED BY <1>4, <2>1, <4>1 DEF UnitStays
    <3>9. HomeStays(j)'
      <4>1. Holds(u, p, f)
        BY <1>1, <2>1, <3>2 DEF Holds
      <4>2. \A q, g : Holds(u, q, g)' => q = p /\ g = f
        BY <2>3, <4>1, WorkingHolds DEF HomeInv, OneHome
      <4>3. u = jobs'[j].unit /\ p = jobs'[j].path /\ f = jobs'[j].unit_file
        BY <1>4, <2>1
      <4> QED BY <4>2, <4>3 DEF HomeStays, Holds, InQueue, FileNames
    <3>10. MessagesFollow(j)'
      <4>1. InQueue(u) = {}
        BY <1>1, <2>1, <3>2, <3>4 DEF MeetInv, SentLast
      <4>2. ASSUME NEW i \in DOMAIN queue', queue'[i].unit_id = u
            PROVE  queue'[i].config.version \in Later(j)'
        <5>1. i = Len(queue) + 1
          BY <3>5, <4>1, <4>2 DEF InQueue
        <5>2. queue'[i].config.version = jobs[k].target
          BY <3>5, <5>1, EventIs DEF Result
        <5> QED BY <3>6, <5>2
      <4> QED BY <1>4, <2>1, <4>2 DEF MessagesFollow, InQueue
    <3> QED BY <3>7, <3>8, <3>9, <3>10
  <2> QED BY <2>6, <2>7
<1> QED BY <1>1, <1>5, <1>8 DEF DoneInv

DoneAll == TypeInv /\ EulaInv /\ MeetInv /\ FilesInv /\ HomeInv /\ DoneInv

LEMMA DoneAlways == Spec => []DoneAll
<1>1. Init => DoneAll
  <2>1. Init => DOMAIN jobs = {}
    BY DEF Init, WorkersInit
  <2>2. Init => DoneInv
    BY <2>1 DEF DoneInv, OneByOne
  <2> QED BY <2>2, TypesInit, EulaInit, MeetInit, FilesInit, HomeInit DEF DoneAll
<1>2. DoneAll /\ [Next]_vars => DoneAll'
  <2>1. DoneAll /\ [Next]_vars => (TypeInv /\ EulaInv /\ MeetInv /\ FilesInv)'
    BY TypesNext, EulaNext, MeetNext, FilesNext DEF DoneAll
  <2>2. DoneAll /\ [Next]_vars => HomeInv'
    BY NextIs, PassesHome, SpawnsHome, WorkingHome DEF DoneAll
  <2>3. DoneAll /\ [Next]_vars => DoneInv'
    BY NextIs, PassesDone, SpawnsDone, WorkingDone DEF DoneAll
  <2> QED BY <2>1, <2>2, <2>3 DEF DoneAll
<1> QED BY <1>1, <1>2, PTL DEF Spec

\* Whoever was told that a unit is installed or updated finds it: the daemon has it, or
\* the message is on its way, in the version that this job or a later one chose; and
\* after any number of restarts, unless another job was at work on the same things.
THEOREM CompletedUnitsAreThere == Spec => []CompletedIsThere
<1>1. ASSUME DoneAll, up, NEW j \in DOMAIN jobs, jobs[j].at = "done",
             jobs[j].unit_file \in UnitFiles,
             Undisturbed(jobs[j].unit, jobs[j].path, jobs[j].unit_file)
      PROVE  \/ InQueue(jobs[j].unit) # {}
             \/ /\ jobs[j].unit \in DOMAIN configs
                /\ configs[jobs[j].unit].version \in
                      {jobs[k].target : k \in {i \in DOMAIN jobs :
                                               i >= j /\ jobs[i].unit = jobs[j].unit}}
  <2>1. UnitStays(j)
    BY <1>1 DEF DoneAll, DoneInv, Finished
  <2> QED BY <1>1, <2>1 DEF UnitStays, Later
<1>2. DoneAll => CompletedIsThere
  BY <1>1 DEF CompletedIsThere, At
<1> QED BY <1>2, DoneAlways, PTL
=============================================================================
