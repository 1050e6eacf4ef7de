---------------------------- MODULE Installation ----------------------------
(***************************************************************************)
(* Installations and updates, closed: the daemon thread takes any commands *)
(* to install or to update and the units that workers hand it, the daemon  *)
(* ends at any moment and is started again.  The event manager takes what  *)
(* is raised out of eventQueue.                                            *)
(***************************************************************************)
EXTENDS Workers, TLC

CONSTANTS
    UnitFiles,      \* those of Files that lie in a unit directory
    Inventories,    \* bound: the units present at the start, and their configuration
    Repositories,   \* bound: what the service may list
    Requests,       \* bound: the commands that may be sent
    MaxStarts,      \* bound: how often the daemon is started again
    MaxWaiting      \* bound: events the event manager has not taken yet

ASSUME InstallationAssumption ==
    /\ UnitFiles \subseteq Files
    /\ \A installed \in Inventories :
          /\ DOMAIN installed \subseteq Units
          /\ \A u, v \in DOMAIN installed :
                /\ installed[u] \in Config
                /\ u # v => /\ installed[u].path # installed[v].path
                            /\ installed[u].unit_file # installed[v].unit_file
    /\ \A repository \in Repositories : Listing(repository)
    /\ Requests \subseteq WorkerCmd
    /\ MaxStarts \in Nat /\ MaxWaiting \in Nat \ {0}

VARIABLES
    up,         \* the daemon runs
    starts,     \* how often it was started again
    refused,    \* commands refused without a job
    contested   \* history: jobs that met another one over a unit, directory or file

vars == <<workVars, eventQueue, queue, up, starts, refused, contested>>

TypeOK ==
    /\ WorkersTypeOK
    /\ queue \in Seq(AddServerUnitEvents)
    /\ eventQueue \in Seq(EventManagerCmd)
    /\ up \in BOOLEAN
    /\ starts \in 0 .. MaxStarts
    /\ refused \in Nat /\ Len(jobs) + refused <= MaxJobs
    /\ contested \subseteq DOMAIN jobs

Init ==
    /\ published \in Repositories
    /\ configs \in Inventories
    /\ WorkersInit
    /\ eventQueue = <<>>
    /\ queue = <<>>
    /\ up = TRUE
    /\ starts = 0
    /\ refused = 0
    /\ contested = {}

-----------------------------------------------------------------------------
InQueue(u) == {i \in DOMAIN queue : queue[i].unit_id = u}

\* Jobs whose work on something that a command names is not over.
Rivals(job) ==
    {j \in DOMAIN jobs :
        /\ jobs[j].unit = job.unit \/ jobs[j].path = job.path
              \/ (jobs[j].unit_file = job.unit_file /\ job.unit_file # None)
        /\ jobs[j].at \in Busy \/ InQueue(jobs[j].unit) # {}}

Start(cmd) ==
    /\ Spawned(cmd)
    /\ LET rivals == Rivals(NewJob(cmd))
       IN contested' = IF rivals = {} THEN contested
                       ELSE contested \cup rivals \cup {Len(jobs) + 1}
    /\ UNCHANGED <<eventQueue, refused>>

\* A name the daemon has already is refused by an event.
InstallServer(cmd) ==
    /\ cmd.kind = "InstallServer"
    /\ IF cmd.unit_id \in DOMAIN configs
         THEN /\ refused' = refused + 1
              /\ eventQueue' = Append(eventQueue,
                                      JobEvent("InstallationFailed", cmd.unit_id, 0))
              /\ UNCHANGED <<jobs, contested>>
         ELSE Start(cmd)
    /\ UNCHANGED <<published, configs, dirs, files, queue, up, starts>>

UpdateServer(cmd) ==
    /\ cmd.kind = "UpdateServer"
    /\ cmd.unit_id \in DOMAIN configs
    /\ Start(cmd)
    /\ UNCHANGED <<published, configs, dirs, files, queue, up, starts>>

AddUnit ==
    /\ queue # <<>>
    /\ Added(Head(queue))
    /\ queue' = Tail(queue)
    /\ UNCHANGED <<published, jobs, dirs, files, eventQueue, up, starts, refused, contested>>

\* The daemon ends, by StopDaemon, a panic of main or a signal: its threads,
\* what is queued and what it knows are gone.
Exit ==
    /\ starts < MaxStarts
    /\ up' = FALSE
    /\ jobs' = [j \in DOMAIN jobs |->
                   IF jobs[j].at \in Busy THEN [jobs[j] EXCEPT !.at = "dead"] ELSE jobs[j]]
    /\ configs' = << >>
    /\ queue' = <<>>
    /\ eventQueue' = <<>>
    /\ UNCHANGED <<published, dirs, files, starts, refused, contested>>

\* Daemon::from_config, create_servers: the unit files in the unit directories
\* are read, in the order of the directory.  One that cannot be parsed panics,
\* and of two that name one unit the later one counts.
Readable == {f \in UnitFiles : files[f] # None}
FilesOf(u) == {f \in Readable : files[f].unit = u}
Loaded(f) == [path |-> files[f].path, version |-> files[f].version, unit_file |-> f]

Restart ==
    /\ ~up
    /\ \A f \in Readable : files[f] # Broken
    /\ up' = TRUE
    /\ starts' = starts + 1
    /\ LET found == {files[f].unit : f \in Readable}
       IN \E last \in [found -> Readable] :
              /\ \A u \in found : last[u] \in FilesOf(u)
              /\ configs' = [u \in found |-> Loaded(last[u])]
    /\ UNCHANGED <<published, jobs, dirs, files, queue, eventQueue, refused, contested>>

TakeEvent ==
    /\ eventQueue # <<>>
    /\ eventQueue' = Tail(eventQueue)
    /\ UNCHANGED <<workVars, queue, up, starts, refused, contested>>

Command ==
    /\ Len(jobs) + refused < MaxJobs
    /\ \E cmd \in Requests : InstallServer(cmd) \/ UpdateServer(cmd)
    /\ Len(eventQueue') <= MaxWaiting

Working(j) ==
    /\ j \in DOMAIN jobs
    /\ JobStep(j)
    /\ Len(eventQueue') <= MaxWaiting
    /\ UNCHANGED <<up, starts, refused, contested>>

Next ==
    \/ up /\ (Command \/ AddUnit \/ TakeEvent \/ Exit)
    \/ up /\ \E j \in 1 .. MaxJobs : Working(j)
    \/ Restart

Spec == Init /\ [][Next]_vars

-----------------------------------------------------------------------------
(* Fairness: the workers and the daemon thread are not kept from running;   *)
(* the service answers or the connection fails, and java comes to an end.  *)

FairSpec ==
    /\ Spec
    /\ WF_vars(up /\ AddUnit)
    /\ WF_vars(up /\ TakeEvent)
    /\ \A j \in 1 .. MaxJobs : WF_vars(up /\ Working(j))

-----------------------------------------------------------------------------
(* Properties.                                                             *)

\* No other unit's job, and no two jobs at once, were at work on its directory
\* or its unit file.
Undisturbed(u, path, file) ==
    \A j \in DOMAIN jobs :
        jobs[j].path = path \/ jobs[j].unit_file = file
            => jobs[j].unit = u /\ j \notin contested

\* A unit the daemon has can be started: the jar its configuration names lies
\* in its directory, whole, however the jobs that worked there ended.
UnitIsWhole ==
    \A u \in DOMAIN configs :
        LET c == configs[u]
        IN Undisturbed(u, c.path, c.unit_file) =>
               c.path \in DOMAIN dirs /\ c.version \in dirs[c.path].whole

\* What the daemon knows of a unit and what its file says are the same, up to
\* the job that has written the file and not handed over the unit yet; a file
\* that cannot be read was left so by a job that was cut short.
FileAgrees ==
    \A u \in DOMAIN configs :
        LET c == configs[u]
            file == files[c.unit_file]
        IN c.unit_file \in UnitFiles /\ Undisturbed(u, c.path, c.unit_file) =>
               \/ file = AsFile(u, c)
               \/ \E j \in DOMAIN jobs :
                     /\ jobs[j].unit = u
                     /\ \/ file = Saved(j) /\ (At(j, "add") \/ InQueue(u) # {})
                        \/ file = Broken /\ jobs[j].at \in {"fill", "failing", "failed"}

\* A unit of which it was said that it is installed is there, with the version
\* that was fetched or a later job's, and it is there after a restart.
CompletedIsThere ==
    up => \A j \in DOMAIN jobs :
              LET u == jobs[j].unit
              IN /\ At(j, "done")
                 /\ jobs[j].unit_file \in UnitFiles
                 /\ Undisturbed(u, jobs[j].path, jobs[j].unit_file)
                 => \/ InQueue(u) # {}
                    \/ /\ u \in DOMAIN configs
                       /\ configs[u].version \in
                             {jobs[k].target : k \in {i \in DOMAIN jobs :
                                                      i >= j /\ jobs[i].unit = u}}

\* A job that was asked for no version chose the newest release and its newest
\* build (install.rs, line 24), one that was asked for a version its newest
\* build, and an update never fetches what the unit has.  With a patch number
\* of 0 the mark of a pre-release is lost: the build is one of the release then.
NotAfter(v, w) == Before(v.core, w.core) \/ (v.core = w.core /\ v.build <= w.build)
Releases ==
    UNION {{[core |-> Parse(r.numbers), pre |-> r.pre, build |-> b] : b \in r.builds} :
              r \in published}
Meant(v) == [v EXCEPT !.pre = v.pre /\ v.core[3] # 0]
Eligible(r, a) ==
    IF a = None THEN ~r.pre
    ELSE a.build = None /\ r.core = a.core /\ r.pre = Meant(a).pre
ChosenAsAsked ==
    \A j \in DOMAIN jobs :
        LET a == jobs[j].asked
            t == jobs[j].target
        IN t # None =>
               /\ Meant(t) \in Releases
               /\ \A r \in Releases : Eligible(r, a) => NotAfter(r, t)
               /\ IF a = None THEN ~t.pre
                  ELSE t.core = a.core /\ t.pre = a.pre /\ a.build \in {None, t.build}
               /\ jobs[j].kind = "update" => t # jobs[j].current

\* "Implementations MUST NOT accept the EULA if `eula` is not set" (install.rs,
\* line 27): whoever finds it accepted finds a job that was asked to.
EulaOnlyIfAsked ==
    \A d \in DOMAIN dirs :
        dirs[d].eula => \E j \in DOMAIN jobs : jobs[j].path = d /\ jobs[j].eula

\* A worker that was spawned says in the end how it ended, unless it panics or
\* the daemon ends.
Said(j) ==
    \E i \in DOMAIN eventQueue :
        eventQueue[i].event.body = j /\ eventQueue[i].event.type # "ActionProgress"
Is(j, steps) == j \in DOMAIN jobs /\ jobs[j].at \in steps
JobIsHeard ==
    \A j \in 1 .. MaxJobs : Is(j, Busy) ~> Said(j) \/ Is(j, {"panicked", "dead"})

\* "Builds are denoted by '+<build_no>'" (mcman.rs, lines 139 and 188): an update
\* to a build that is published, asked for in that way, does not end in a failure
\* because that build is not found.
AskedBuildIsFound ==
    \A j \in DOMAIN jobs :
        At(j, "failed") /\ jobs[j].asked \in Releases => Artifact(j) = jobs[j].asked

\* "If a unit with this name is already present, the operation will fail"
\* (ipc/mod.rs, line 47): no two installations of one name succeed.
NameIsTakenOnce ==
    \A i, j \in DOMAIN jobs :
        i # j /\ At(i, "done") /\ At(j, "done") /\ jobs[i].unit = jobs[j].unit
            => "update" \in {jobs[i].kind, jobs[j].kind}
=============================================================================
