------------------------------- MODULE Workers ------------------------------
(***************************************************************************)
(* InstallServer and UpdateServer: what the daemon thread does for them    *)
(* and the threads it spawns (src/bin/mcmand.rs, src/ipc/install.rs,       *)
(* src/ipc/update.rs).  A job is one such thread.  It works on the server  *)
(* directories and on the unit files, reports to the event manager, and    *)
(* hands the unit to the daemon thread.                                    *)
(*                                                                         *)
(* A step ends with a send or with a change of a file: other jobs and the  *)
(* end of the daemon come in between.  Every step that asks the system for *)
(* something may fail; what was done before stays.                         *)
(***************************************************************************)
EXTENDS Queues, PaperRepository

CONSTANTS
    Dirs,       \* server directories a client may name
    Files,      \* unit files it may name
    MaxJobs     \* bound: workers spawned

ASSUME WorkersAssumption ==
    MaxJobs \in Nat /\ 0 .. MaxJobs \subseteq Bodies /\ None \notin Files

VARIABLES
    configs,    \* the configuration of each of the daemon's units
    jobs,       \* the workers, in the order they were spawned
    dirs,       \* the server directories that are there, and what is in them
    files       \* the unit files: None, what they say, or Broken

workVars == <<published, configs, jobs, dirs, files>>

\* The type and the name of a server, and its memory, are left out.
Config == [path : Dirs, version : Version, unit_file : Files]
Directory == [eula : BOOLEAN, whole : SUBSET Version, partial : SUBSET Version]
UnitFile == [unit : Units, path : Dirs, version : Version]
Broken == [unit |-> None, path |-> None, version |-> None]  \* no TOML of a unit
ASSUME FileAssumption == None \notin UnitFile \cup {Broken}
Busy == {"look", "mkdir", "made", "eula", "accepted", "check", "lookup", "download",
         "copy", "copied", "patch", "write", "fill", "add", "complete", "failing"}
Job == [kind : {"install", "update"}, unit : Units, type : {"paper", "other"},
        path : Dirs, unit_file : Files \cup {None}, eula : BOOLEAN,
        asked : Version \cup {None}, current : Version \cup {None},
        target : Version \cup {None}, at : Busy \cup {"done", "failed", "panicked", "dead"}]

InstallCmd(u, path, file, version, type, eula) ==
    [kind |-> "InstallServer", unit_id |-> u, install_path |-> path,
     unit_file_path |-> file, server_version |-> version, server_type |-> type,
     accept_eula |-> eula]
UpdateCmd(u, version) ==
    [kind |-> "UpdateServer", unit_id |-> u, server_version |-> version]
WorkerCmd ==
         [kind : {"InstallServer"}, unit_id : Units, install_path : Dirs,
          unit_file_path : Files \cup {None}, server_version : Version \cup {None},
          server_type : {"paper", "other"}, accept_eula : BOOLEAN]
    \cup [kind : {"UpdateServer"}, unit_id : Units, server_version : Version \cup {None}]

AddServerUnitEvent(u, c) == [kind |-> "AddServerUnit", unit_id |-> u, config |-> c]
AddServerUnitEvents == [kind : {"AddServerUnit"}, unit_id : Units, config : Config]

WorkersTypeOK ==
    /\ Listing(published)
    /\ DOMAIN configs \subseteq Units
    /\ \A u \in DOMAIN configs : configs[u] \in Config
    /\ jobs \in Seq(Job)
    /\ DOMAIN dirs \subseteq Dirs
    /\ \A d \in DOMAIN dirs : dirs[d] \in Directory
    /\ files \in [Files -> UnitFile \cup {None, Broken}]

AsFile(u, c) == [unit |-> u, path |-> c.path, version |-> c.version]

\* The units present at the start are whole, and so are their files.
WorkersInit ==
    /\ jobs = <<>>
    /\ dirs = [d \in {configs[u].path : u \in DOMAIN configs} |->
                  [eula |-> FALSE, partial |-> {},
                   whole |-> {configs[u].version :
                                  u \in {v \in DOMAIN configs : configs[v].path = d}}]]
    /\ files = [f \in Files |->
                   IF \A u \in DOMAIN configs : configs[u].unit_file # f THEN None
                   ELSE LET u == CHOOSE v \in DOMAIN configs : configs[v].unit_file = f
                        IN AsFile(u, configs[u])]

-----------------------------------------------------------------------------
(* The daemon thread.                                                      *)

\* Daemon::install_server and update_server, which spawn.
NewJob(cmd) ==
    IF cmd.kind = "InstallServer"
      THEN [kind |-> "install", unit |-> cmd.unit_id, type |-> cmd.server_type,
            path |-> cmd.install_path, unit_file |-> cmd.unit_file_path,
            eula |-> cmd.accept_eula, asked |-> cmd.server_version, current |-> None,
            target |-> None, at |-> "look"]
      ELSE LET c == configs[cmd.unit_id]
           IN [kind |-> "update", unit |-> cmd.unit_id, type |-> "paper",
               path |-> c.path, unit_file |-> c.unit_file, eula |-> FALSE,
               asked |-> cmd.server_version, current |-> c.version,
               target |-> None, at |-> "check"]
Spawned(cmd) == jobs' = Append(jobs, NewJob(cmd))

\* An event of job j; j = 0 stands for the daemon thread.
JobEvent(type, u, j) == DispatchCmd([type |-> type, server_id |-> u, body |-> j])

\* Mutant: the whole message becomes the entry.
AddedMutant(m) == configs' = [u \in DOMAIN configs \cup {m.unit_id} |->
                                  IF u = m.unit_id THEN m ELSE configs[u]]

\* AddServerUnit: the entry of that name is replaced.
Added(m) == configs' = [u \in DOMAIN configs \cup {m.unit_id} |->
                            IF u = m.unit_id THEN m.config ELSE configs[u]]

-----------------------------------------------------------------------------
(* The steps of a job.                                                     *)

At(j, step) == jobs[j].at = step
GoesTo(j, step) == jobs' = [jobs EXCEPT ![j].at = step]
Raises(j, type) == eventQueue' = Append(eventQueue, JobEvent(type, jobs[j].unit, j))
Nothing == UNCHANGED <<eventQueue, queue, dirs, files>>

\* "?" leaves with an error, an unwrap() ends the thread without a word.
Fails(j) == GoesTo(j, "failing") /\ Nothing
Panics(j) == GoesTo(j, "panicked") /\ Nothing

\* A step that reports what comes next.
Reports(j, next) == GoesTo(j, next) /\ Raises(j, "ActionProgress") /\ UNCHANGED queue

\* perform_installation and PaperServerInstaller::install_server.
Look(j) ==
    /\ At(j, "look")
    /\ IF jobs[j].type = "paper" /\ jobs[j].unit_file # None /\ jobs[j].path \notin DOMAIN dirs
         THEN Reports(j, "mkdir") /\ UNCHANGED <<dirs, files>>
         ELSE Fails(j)

\* create_dir_all does not mind a directory that has come up since Look.
Created(path, eula) ==
    dirs' = [d \in DOMAIN dirs \cup {path} |->
                IF d \in DOMAIN dirs THEN dirs[d]
                ELSE [eula |-> eula, whole |-> {}, partial |-> {}]]

\* Mutant: the eula is accepted for everybody.
MakeDirEulaMutant(j) ==
    /\ At(j, "mkdir")
    /\ \/ /\ Created(jobs[j].path, TRUE)
          /\ GoesTo(j, "made")
          /\ UNCHANGED <<eventQueue, queue, files>>
       \/ Fails(j)

MakeDir(j) ==
    /\ At(j, "mkdir")
    /\ \/ /\ Created(jobs[j].path, FALSE)
          /\ GoesTo(j, "made")
          /\ UNCHANGED <<eventQueue, queue, files>>
       \/ Fails(j)

AcceptEula(j) ==
    /\ At(j, "eula")
    /\ \/ /\ dirs' = [dirs EXCEPT ![jobs[j].path].eula = TRUE]
          /\ GoesTo(j, "accepted")
          /\ UNCHANGED <<eventQueue, queue, files>>
       \/ Fails(j)

\* What comes next, said after a change of a file.
SayProgress(j) ==
    /\ \/ At(j, "made") /\ Reports(j, IF jobs[j].eula THEN "eula" ELSE "lookup")
       \/ At(j, "accepted") /\ Reports(j, "lookup")
       \/ At(j, "copied") /\ Reports(j, "patch")
    /\ UNCHANGED <<dirs, files>>

\* perform_update and PaperServerUpdater::update_server.
CheckForUpdate(j) ==
    At(j, "check") /\ Reports(j, "lookup") /\ UNCHANGED <<dirs, files>>

Artifact(j) ==
    IF jobs[j].asked = None THEN GetLatestArtifact(LatestVersion)
                            ELSE GetArtifact(jobs[j].asked)

\* Mutant: a server that has the very build is updated to it.
UpToDateMutant(j) ==
    /\ ~Older(jobs[j].current, Artifact(j))
    /\ jobs[j].current.build > Artifact(j).build

\* The builds are compared whatever the versions are.
UpToDate(j) ==
    /\ ~Older(jobs[j].current, Artifact(j))
    /\ jobs[j].current.build >= Artifact(j).build

\* A unit file without a build has nothing to compare: expect() fails.
NoBuild(j) ==
    jobs[j].current.build = None /\ ~Older(jobs[j].current, Artifact(j))

Lookup(j) ==
    /\ At(j, "lookup")
    /\ \/ Fails(j)
       \/ /\ Artifact(j) # None
          /\ jobs[j].kind = "update" => ~NoBuild(j) /\ ~UpToDate(j)
          /\ IF jobs[j].kind = "update" THEN Raises(j, "ActionProgress")
                                        ELSE UNCHANGED eventQueue
          /\ jobs' = [jobs EXCEPT ![j].target = Artifact(j), ![j].at = "download"]
          /\ UNCHANGED <<queue, dirs, files>>
       \/ jobs[j].kind = "update" /\ Artifact(j) # None /\ NoBuild(j) /\ Panics(j)

\* download_to: the file is created, which truncates one of that name (the
\* create is unwrapped), and then filled.
OpenJar(j) ==
    /\ At(j, "download")
    /\ LET t == jobs[j].target IN
       \/ /\ dirs' = [dirs EXCEPT ![jobs[j].path].whole = @ \ {t},
                                  ![jobs[j].path].partial = @ \cup {t}]
          /\ GoesTo(j, "copy")
          /\ UNCHANGED <<eventQueue, queue, files>>
       \/ Fails(j)
       \/ Panics(j)

CopyJar(j) ==
    /\ At(j, "copy")
    /\ LET t == jobs[j].target IN
       \/ /\ dirs' = IF ~FetchesJar(t) THEN dirs
                     ELSE [dirs EXCEPT ![jobs[j].path].whole = @ \cup {t},
                                       ![jobs[j].path].partial = @ \ {t}]
          /\ GoesTo(j, "copied")
          /\ UNCHANGED <<eventQueue, queue, files>>
       \/ Fails(j)

\* Mutant: the exit status of the patch is not looked at.
PatchUncheckedMutant(j) ==
    /\ At(j, "patch")
    /\ (GoesTo(j, "write") /\ Nothing) \/ Fails(j) \/ Panics(j)

\* java -Dpaperclip.patchonly=true (external): it fails on what is no jar.
Patch(j) ==
    /\ At(j, "patch")
    /\ \/ /\ jobs[j].target \in dirs[jobs[j].path].whole
          /\ GoesTo(j, "write") /\ Nothing
       \/ Fails(j)
       \/ Panics(j)

Result(j) == [path |-> jobs[j].path, version |-> jobs[j].target,
              unit_file |-> jobs[j].unit_file]
Saved(j) == AsFile(jobs[j].unit, Result(j))

\* fs::write of the unit file: truncated, then filled.
TruncateUnitFile(j) ==
    /\ At(j, "write")
    /\ \/ /\ files' = [files EXCEPT ![jobs[j].unit_file] = Broken]
          /\ GoesTo(j, "fill")
          /\ UNCHANGED <<eventQueue, queue, dirs>>
       \/ Fails(j)

\* Mutant: the file gets the configuration from before the update.
FillUnitFileMutant(j) ==
    /\ At(j, "fill")
    /\ \/ /\ files' = [files EXCEPT ![jobs[j].unit_file] =
                          [Saved(j) EXCEPT !.version =
                              IF jobs[j].kind = "update" THEN jobs[j].current ELSE @]]
          /\ GoesTo(j, "add")
          /\ UNCHANGED <<eventQueue, queue, dirs>>
       \/ Fails(j)

FillUnitFile(j) ==
    /\ At(j, "fill")
    /\ \/ /\ files' = [files EXCEPT ![jobs[j].unit_file] = Saved(j)]
          /\ GoesTo(j, "add")
          /\ UNCHANGED <<eventQueue, queue, dirs>>
       \/ Fails(j)

\* Mutant: the unit is not handed over.
SendAddMutant(j) ==
    /\ At(j, "add")
    /\ GoesTo(j, "complete")
    /\ Nothing

\* The worker hands the unit over first and then says that it is done.
SendAdd(j) ==
    /\ At(j, "add")
    /\ queue' = Append(queue, AddServerUnitEvent(jobs[j].unit, Result(j)))
    /\ GoesTo(j, "complete")
    /\ UNCHANGED <<eventQueue, dirs, files>>

CompleteEvent(j) ==
    IF jobs[j].kind = "install" THEN "InstallationComplete" ELSE "UpdateComplete"
FailedEvent(j) ==
    IF jobs[j].kind = "install" THEN "InstallationFailed" ELSE "UpdateFailed"

\* Mutant: an error is not reported.
SayHowItEndedMutant(j) ==
    /\ \/ At(j, "complete") /\ Raises(j, CompleteEvent(j)) /\ GoesTo(j, "done")
       \/ At(j, "failing") /\ UNCHANGED eventQueue /\ GoesTo(j, "failed")
    /\ UNCHANGED <<queue, dirs, files>>

SayHowItEnded(j) ==
    /\ \/ At(j, "complete") /\ Raises(j, CompleteEvent(j)) /\ GoesTo(j, "done")
       \/ At(j, "failing") /\ Raises(j, FailedEvent(j)) /\ GoesTo(j, "failed")
    /\ UNCHANGED <<queue, dirs, files>>

JobStep(j) ==
    /\ \/ Look(j) \/ MakeDir(j) \/ AcceptEula(j) \/ SayProgress(j) \/ CheckForUpdate(j)
       \/ Lookup(j) \/ OpenJar(j) \/ CopyJar(j) \/ Patch(j)
       \/ TruncateUnitFile(j) \/ FillUnitFile(j) \/ SendAdd(j) \/ SayHowItEnded(j)
    /\ UNCHANGED <<published, configs>>
=============================================================================
