# mc-server-manager in TLA+

`mcmand` is a daemon that runs Minecraft servers; `mcman` is its command-line
client. This directory holds TLA+ models of the daemon, its workers and its
client, the TLC configurations that check them, and proofs about the event bus,
the units, the daemon, the installations and the client. Paths are relative to the root of the
repository (`src/` is its Rust source; `PROJECT.json` prefixes them with
another `src/`).

## The system

| Part | Code | State it keeps | Operations |
|---|---|---|---|
| acceptor | `bin/mcmand.rs` `main` | id counter, map of senders (shared, locked) | connect, greet, check `min_version`, register, spawn a client thread |
| client threads | `bin/mcmand.rs` 127-137 | none | relay commands to the daemon thread, report the end of the connection to the event manager |
| daemon thread | `bin/mcmand.rs` `Daemon` | units (`DaemonServer`), its queue | `handle_cmd`, answers, events, `AddServerUnit`, the sweep of `StopDaemon`, exit |
| event manager | `daemon/event.rs` | subscriptions | dispatch, add, remove, remove all |
| log threads | `daemon/basic_log.rs` | one `OutputState` per process (shared, locked) | read a line, write the state, raise an event; end on a line that cannot be read |
| servers | `daemon/paper.rs`, the JVM | stdin, stdout, exit status | spawn, command, end |
| workers | `bin/mcmand.rs` 534-726, `ipc/install.rs`, `ipc/update.rs` | files | install or update a unit, report progress, send `AddServerUnit` |
| Paper repository | `repo/` | none | list versions and builds, pick, download |
| configuration | `config/mod.rs` | files | read once at the start (`create_servers`) |
| client | `bin/mcman.rs` | none | send the command of its subcommand, take answers and events, end |

They interact through two unbounded `mpsc` channels (`queue` to the daemon
thread, `eventQueue` to the event manager), an IPC channel per client and
direction, the lock of the senders, the lock of each `OutputState`, and the
pipes of the servers. Workers share the server directories and the unit files with
each other and with the next start of the daemon; nothing locks them.

    client --cmds--> client thread --queue--> daemon thread --inbox--> client
                          |                    |   ^    |
                          |eventQueue          |   |    +--stdin--> server
                          v                    |   |queue             |stdout
                     event manager <-----------+   |                  v
                          |   ^                    |              log thread
                          +---|--------------------+                  |
                              +-------------eventQueue----------------+

What is hard about it: an event and the answer that announces it take different
ways to the client; a subscription is made after the server it concerns was
started; the daemon thread reads a status that a log thread and the process
change under it; it blocks on servers during the sweep; a log thread may end
before its server does, and the state then stays as it was; clients vanish at any
time; several places `unwrap()` what a dead peer makes fail, which ends the
thread; a worker changes directories and files step by step, each step may fail,
the daemon may end between any two, and the next start reads what is there; two
jobs may be at work on the same files.

What makes each part correct:

* event manager: events go to exactly those who subscribed, in the order they
  were raised, and they arrive;
* units: no running server is lost, the status never contradicts the process or
  an event, the sweep leaves none of the servers it stopped running, and it ends
  where the output of the server it polls is still read;
* daemon thread and clients: nothing is addressed to an unknown client, each
  command is answered once and in order, events follow the answer that promised
  them, who waits hears;
* workers: a unit that the daemon has is whole, what its file says is what the
  daemon knows, what was announced as complete is there and stays there, the
  version fetched is the one asked for, the EULA is accepted only for who asked,
  each job says how it ended;
* client: it ends, panics on nothing but what it was not promised, and what it
  reports as done is done.

## Modules

| Module | Models |
|---|---|
| `Ipc` | commands, events, status values (`ipc/mod.rs`, `lib.rs`, `EventManagerCmd`) |
| `Queues` | the two channels that `main` creates |
| `EventManager` | the event manager thread, one action per command |
| `PubSub` | what event manager and queues promise together: publication at one instant to an ordered channel |
| `EventBus` | the event manager closed with subscribing, raising, leaving and handing-out threads; refines `PubSub` |
| `EventBusProofs` | theorems about `EventBus` |
| `ServerProcess` | a server's process (external) and the log thread that reads it |
| `Supervision` | `DaemonServer`, `PaperServer`, autostart, the sweep |
| `SupervisionProofs` | what the actions of `Supervision` and `ServerProcess` preserve, and how far a process is when its log tells of it, as lemmas |
| `UnitLife` | `Supervision` closed: any commands, crashes, units added over others |
| `UnitLifeProofs` | theorems about `UnitLife` |
| `PaperRepository` | the choice of a version and a build, and the addresses asked for (`repo/`); the service is external |
| `Workers` | `InstallServer`, `UpdateServer`: the jobs, the server directories, the unit files, the configurations |
| `Installation` | `Workers` closed: any such commands, the end of the daemon at any moment and its restart |
| `Daemon` | acceptor, client threads, daemon thread, composed with `EventManager`, `Supervision` and `Workers` |
| `WorkersProofs` | lemmas about queues, finite sets of numbers, the choices of `PaperRepository`, and the steps of a job |
| `InstallationProofs` | theorems about `Installation` |
| `DaemonProofs` | theorems about `Daemon`: types of the units, `RegisteredTargets` |
| `DaemonOrderProofs` | theorems about `Daemon`: `EventsFollowTheirOk`, `TypeOK`, `AnsweredInOrder`, `ListsFollowEvents` |
| `Mcman` | the client, composed with `Daemon`: a process per subcommand |
| `McmanProofs` | theorems about `Mcman`: `ManTypeOK`, `PanicsOnlyIf`, `DoneIsThere` |
| `MCEventBus`, `MCUnitLife`, `MCDaemon`, `MCInstallation`, `MCMcman` | values of the constants for TLC |

Correspondence worth knowing:

* **Steps.** A step ends where a thread blocks, sends, or has read something that
  another thread can change before it is used. One dispatch is one `Received`
  and one `Forward` per subscriber, because other threads send to the queue in
  between. The log thread writes the state (`ReadLine`) and raises the event
  (`RaiseEvent`) in two steps. `stop()` is the look at the status (`StopUnit`,
  `Visit`) and the write (`WriteStop`). `handle_cmd` sends its subscriptions one
  by one (`SendSubscription`) before it answers (`Reply`). A step of a job ends
  with a send or a change of a file; `fs::write` of the unit file is two
  (`TruncateUnitFile`, `FillUnitFile`), a download is two (`OpenJar`, `CopyJar`);
  making a directory, accepting the EULA and a download are each followed by a
  step that says what comes next (`SayProgress`).
* **Data.** Unit ids, clients and event payloads are elements of sets. A server
  process is a number; the events it causes carry that number, which the code
  does not send, so that properties can speak of the process; so do the events of
  a job with the number of the job (0 for the daemon thread). An answer carries
  the command it answers, for the same reason. Of a console command only "is it
  `stop`" is kept; of a log line only which phrase it holds. A version is its
  three numbers, whether it is marked as a pre-release, and its build; a directory is
  whether the EULA is accepted in it
  and which jars lie in it, whole or cut short.
* **HashMap of vectors.** A missing key and an empty vector behave alike in
  `event.rs` and are one value, the empty sequence.
* **End of a log thread.** The loop of `basic_log.rs` is left on a line that cannot
  be read (139-141; one that is not UTF-8 is enough), and the thread panics on a log
  file it cannot create or write (78-85). `EndLog` is that step: possible before any
  line of a process in `Unreadable`, after which nothing of its output is read and
  `OutputState` stays. Nothing obliges it to happen.
* **Failures.** An `unwrap()` on a dead server's stdin, on a failed spawn or on a
  missing sender moves the thread to `"panicked"`. A daemon whose daemon thread
  has panicked is not followed further: everything that sends to it panics too.
  The acceptor's unwraps end the daemon. Each step of a job that asks the system
  or the service for something may also fail: `?` leads to `"failing"`, where the
  final event is raised, an `unwrap()` to `"panicked"`, where it is not. What was
  done before stays.
* **End and restart.** `Exit` of `Installation` may happen at any moment while the
  daemon runs. It kills the jobs and drops the queues and the configurations; the
  directories and unit files stay. `Restart` is `create_servers`: it reads the
  unit files, of two that name one unit either may come last, and it panics (is
  not possible) on a file that was cut short.
* **Client.** Which subcommand a client is called with is chosen once (`called`);
  the client then takes the messages in its inbox one by one. `mcman` asks for no
  minimum version.
* **Server process.** External: it prints the phrases the handler looks for in
  the order Paper prints them, may refuse for its eula, may crash at any moment,
  may be stopped by an operator in the game, and may echo a phrase in a chat line
  (`Echo`).

Operators named `...Mutant` are wrong on purpose. Each stands next to the
definition it varies by a plausible slip (a dropped guard, a wrong order); used
in its place, TLC finds the property that `PROJECT.json` names under "mutants"
violated. They show that no property holds by the shape of the model alone.

## Runs

| Run | Instance | What it shows |
|---|---|---|
| `EventBus.cfg` | 2 clients, 1 server, 2 event types, 2 events, 2 subscriptions, 1 removal, 1 client may leave; fair | types, `OnlyAskedFor`, `InOrder`, refinement of `PubSub`, `OwedIsHanded`, `DispatchCompletes` |
| `EventBusRemoveAll.cfg` | the same without single removals | `RemovesOnlyThatClient` **fails** |
| `UnitLife.cfg` | 2 processes, 2 units of which 1 is known, autostart with nothing or with an unknown and a known name, 2 commands or additions, 1 echoed "Done" line; fair | types, `NoOrphan`, `StatusNotAhead`, `EventImpliesStatus`, `SweptAreGone`, `SweepEnds` |
| `UnitDown.cfg` | the same without echoes | `DownMeansGone` **fails** |
| `UnitGraceful.cfg` | the same without echoes | `StopsGracefully` **fails** |
| `UnitErrored.cfg` | the same with an echoed eula line | `ErroredIsFinal` **fails** |
| `Daemon.cfg` | 1 client, 3 commands (`GetVersion`, `StopDaemon`, `Start` with wait) of which 2 are sent, 1 process whose log thread may end; fair | types, `RequestIsAnswered`, `WaiterHears`, `SweepEnds` |
| `DaemonClients.cfg` | 2 clients of which the second may leave, 1 refusal, 2 commands (`List`, `SubscribeEvent`), 1 server started at the start | `RegisteredTargets`, `AnsweredInOrder`, `EventsFollowTheirOk`, `ListsFollowEvents` |
| `Installation.cfg` | 2 jobs of 9 commands, 1 restart, a unit installed with its build or written by hand without one, 3 lists of releases (the newest has a patch number, has none, is a pre-release); fair | types, `UnitIsWhole`, `FileAgrees`, `CompletedIsThere`, `ChosenAsAsked`, `EulaOnlyIfAsked`, `JobIsHeard` |
| `InstallBuild.cfg` | 1 job, updates to a build or to the newest | `AskedBuildIsFound` **fails** |
| `InstallTwice.cfg` | 2 jobs that install one name, on an empty machine | `NameIsTakenOnce` **fails** |
| `Client.cfg` | every subcommand alone; a start beside `stop-daemon`; an install beside a message to the new unit; 1 process whose log thread may end, 2 jobs; fair | types, `DoneIsThere`, `PanicsOnlyIf`, `ClientEnds` |

Bounds. Two subscriptions and two events are what it takes for a double
subscription, for two subscribers of one event, and for two events in a wrong
order. Two processes are what it takes for a unit to lose one to another; two
commands for a start behind a stop and for a sweep behind either. In `Daemon.cfg`
two commands make every pair of them meet, with everything one server can do in
between; in `DaemonClients.cfg` two clients with one that leaves at any point,
its handshake included, make every race between registration, relay and
departure happen. Commands that the two do not send are sent in `Client.cfg`,
where each subcommand meets everything its server or its job can do, and, for
two pairs, another client. Two jobs are what it takes for one to follow the
other on a directory, a file or a unit, before and after it is done, has failed
or was cut short by an end of the daemon, and one restart for the files to be
read again. One process in `Unreadable` is enough for each property that an ended
log thread concerns, since they speak of one process at a time; only liveness
depends on it, so it is in the two instances that check what clients wait for,
and `SweepEnds` is checked in `UnitLife.cfg` over two processes whose output is
read to its end and in `Daemon.cfg` over one whose log thread may end. Numbers of subscriptions, commands, refusals, echoes, jobs, restarts
and waiting events are bounded by the constants `Max...`; all runs switch the
deadlock check off because the instance is idle once they are used up.

The runs that fail are disagreements between the code and what its comments
promise:

* `RemovesOnlyThatClient`: `retain` in `remove_all_subscriptions` keeps the wrong
  entries (`daemon/event.rs` 89; 74 has the same condition). The run shows a client
  that leaves and another one whose subscription is gone with it.
* `DownMeansGone`: `stop()` gives the process handle away before the process has
  ended (`bin/mcmand.rs` 786), so the unit is `Down` and may be started again
  beside it.
* `StopsGracefully`: a server that ends while the sweep polls it counts as started
  (`bin/mcmand.rs` 797), the write of "stop" to it panics (`daemon/paper.rs` 65),
  and the daemon thread is gone in the middle of the sweep.
* `ErroredIsFinal`: any later phrase overwrites `Errored` (`daemon/basic_log.rs`).
* `AskedBuildIsFound`: an address spells the build behind a version that has a
  patch number (`repo/paper.rs` 56), and the service has no such address: the
  `+<build_no>` that the client's help offers (`bin/mcman.rs` 139, 188) fails. The run
  shows an update that looks for the build and ends in `UpdateFailed`.
* `NameIsTakenOnce`: the name is looked up when the command comes (`bin/mcmand.rs`
  546) and taken when the job is done (457), so of two installations of one name
  that overlap neither fails, which `ipc/mod.rs` 47 promises of a name that is there.

Contradictions that need no run: a command to install without a unit file fails
although `ipc/mod.rs` 52 and `bin/mcman.rs` 132 call it optional; the version is
sent before the client's minimum is checked (`bin/mcmand.rs` 107-119), not after
it as `ipc/mod.rs` 97 says; a waiting client has a branch for `ServerFailed`,
to which a start does not subscribe it (`bin/mcman.rs` 367); `ServerStopped` is
answered although nothing was sent to a server that is not up (`bin/mcmand.rs` 277),
against `ipc/mod.rs` 122; the mark of a pre-release is dropped when the list of
versions is read (`repo/paper.rs` 110), so where the newest release has one, its
builds are looked for under an address that does not exist and an installation
without a version fails, although it "MUST choose the latest available build and
version" (`ipc/install.rs` 23).

Some properties are stated around such behaviour, and say so: `OwedIsHanded` and
`WaiterHears` promise nothing once somebody has left, because of the first;
`NoOrphan` speaks of processes that were not told to stop, because of the second,
and of units that were not added anew, because `AddServerUnit` replaces an entry
whatever its process does (line 457). Three operators name what an ended log thread
leaves behind. `PollsInVain`: the sweep polls a server that lives and whose output
nobody reads; it then polls for ever (`has_started` has no limit), so `SweepEnds`,
`RequestIsAnswered`, `WaiterHears` and `ClientEnds` except a daemon for which that
holds from some moment on. `NeverUp` and `ToCome`: `WaiterHears` and the waiting start
of `ClientEnds` speak of a server whose line of the start is still to be read when
the client's subscription is on its way, and except one that gives up or of whose
output that line is never read. `NoOrphan`, `StatusNotAhead` and
`EventImpliesStatus` are checked with echoes of "Done" only: other phrases in a
chat line make the state untrue, which is what `UnitErrored.cfg` shows.

`UnitIsWhole`, `FileAgrees` and `CompletedIsThere` speak of units whose directory
and file were `Undisturbed`: by another unit's job, and by two jobs at once. The
code does nothing against either, and without the condition they fail; the
history variable `contested` records who met whom. `PanicsOnlyIf` names the
panics of a client that the code does have: an unknown unit, a daemon that ends,
the first of two awaited events raised before the client was subscribed (the
server is started or stopped first, `bin/mcmand.rs` 236, 261), and that event
twice. `Client.cfg` has one process and no echoes and shows the first three; the
last takes two processes of one unit, where output of the earlier one is read
after the client waits for the later one, or a chat line that repeats the phrase
of the end. The proof of `PanicsOnlyIf`, for any number of both, is what brought
these two up.

`ClientEnds` leaves out who waits for ever: for a stop, for a start of what runs
already, gives up or is not read any more, for an update of an unknown unit, for a
worker that has panicked, behind a sweep that polls for ever, and, with the inverted
`retain`, beside a client that has left. But for the last, no document contradicts
these waits; `PROJECT.json` has them under "hazards".

### Fairness

Threads of the daemon are scheduled by the operating system and block on nothing
but their channel, the lock of the senders and, in the sweep, the servers: each
is weakly fair. The daemon thread is one sequential thread and has one condition
for all its steps; so has the event manager. A log thread goes on reading and raising
as long as it is there; `EndLog` is outside its fairness condition, so that it may end at any line, or
not at all. Clients owe nothing: they connect,
send and leave when they like. Of a server process the daemon relies on one
thing, that it does not hang: it finishes loading, refuses or crashes, goes down
once it was told to on its stdin, and ends. Nobody makes a running server stop.
The service answers a worker or the connection fails, and `java` comes to an
end, so each job is weakly fair; so is each client of `Mcman`, which nobody
interrupts there. The end of the daemon and its restart are not fair: they may
happen. A server that ignores "stop" keeps the sweep, and with it the daemon, for ever;
`child.wait()` has no limit.

## Proofs

All are for any values of the constants: sets of clients, units, processes,
commands, versions, lists and bounds. They assume what the modules' `ASSUME`s
state, which TLC evaluates on every run, and what is named below. They hold whatever log
threads end and when. Four of the assumptions
only say that a value is not another one of the model: a file that cannot be read
is no unit (`FileAssumption`), no answer in preparation is no answer
(`AnswerAssumption`), `None` is no id (`NoneAssumption`), and not
what an ended log thread is at (`ProcessAssumption`).

`EventBusProofs`:

* `BusTypeOK`: `Spec => []TypeOK`.
* `BusImplementsPubSub`: `Spec => PS!PSSpec`. Under the mapping `sent <- handed \o
  queue \o outbox` a dispatch publishes, an `AddSubscription` subscribes, a
  removal drops, and everything else stutters: a `Forward` and a `HandOut` only
  move the boundaries inside `sent`.
* `BusOnlyAskedFor`. `OnlyAskedFor` is not inductive: the strengthening adds that
  every entry of the subscription table (`TableAsked`) and every subscription
  still in the manager's queue (`CommandsAsked`) was asked for.
* `BusInOrder`. The order of what was handed out follows from the order of all
  that was sent (`SentInOrder`), which rests on what waits: events in
  `eventQueue` are in order (`WaitingInOrder`), younger than what was sent
  (`SentBeforeWaiting`) and numbered up to `raised` (`AllRaised`).

`UnitLifeProofs`, with the lemmas of `SupervisionProofs`:

* `LifeTypeOK`, and `SweptServersAreGone`, from the invariant `LifeInv`: beside
  the types it says that a process that was not spawned yet has left no trace
  (`UnbornInv`) and how the slots of `servers` relate to processes (`SlotsInv`).
* `StatusIsNotAhead` and `EventsImplyStatus`. Neither is inductive: a status is
  written from a line in a pipe that a process printed long ago. `LogInv` (in
  `SupervisionProofs`) says of each process that its phase, the lines in its pipe,
  the line in the hands of the log thread and the state written last are in the
  order in which a server prints its phrases. It assumes `Echoes \subseteq {"Done"}`: with any other
  phrase in a chat line the properties are false.
* `NoServerIsLost`. `NoOrphan` needs that a start, which spawns where the status is
  `Down`, finds no serving process there, hence `LogInv` again, and, during
  autostart, that the names to come are not started yet (`ListInv`, `KeepInv`). It
  assumes the echoes as above and that no autostart list names a unit twice.

`DaemonProofs`:

* `TargetsAreUnits`: units and processes keep their types in the whole daemon, and
  the unit that is stopped, polled or still to be swept is one that the daemon has.
* `TargetsAreRegistered`: the unwraps on the map of senders (`bin/mcmand.rs` 428,
  440) never fail. The invariant `MsgInv` follows the id of a client on every way
  it takes: the client thread, both queues, the subscription table, the dispatch
  under way, the answer in preparation. Whoever is named there was registered,
  and `senders` never shrinks.

`DaemonOrderProofs`:

* `EventsComeAfterOk`: whoever is sent an event has been sent the Ok of a command
  that subscribed it before. A subscription is `Granted` if the Ok is in the
  inbox, or the answer is in preparation by the daemon thread, which sends it
  before it looks at its queue again, or the client is gone. `Grants` says that
  of every subscription in the manager's table, in its queue, or on its way to
  the daemon thread as an event; `BoxInv`, `CountInv` and `FlagInv` say what the
  inboxes, the counter of clients and the stages of the two threads add to it.

* `DaemonTypes`: `TypeOK` of `Daemon`. Not inductive: `SpawnWorker` reads the
  command from the answer in preparation and the version of an update from the
  configurations. `DeskInv` adds that an answer in preparation is there when the
  daemon thread needs it and that a worker is spawned for a command that names
  one (`HandInv`), that the units and the configurations have the same names
  (`MeetInv`), that a unit's process comes with its status (`HandleInv`), and what
  is in the row of a job at each of its steps (`WorkersInv`).
* `CommandsAreAnsweredInOrder`: `AnsweredInOrder`. `LineInv` cuts what a client
  sent into what it was answered, the command in hand, what is in the daemon's
  queue and what is not yet read by its thread; a step moves one of the
  boundaries or adds at the end. Places are counted with `Cardinality`, not with
  a filter of a sequence, so that no induction over sequences is needed. `FreshInv`
  says that an id that is not registered has sent nothing that would be counted
  for the next client.
* `ListsComeAfterEvents`: `ListsFollowEvents`, under the same assumption on the
  echoes as `EventsImplyStatus`. `LogInv` holds in the whole daemon, and what an
  event tells of a process is true of it from then on (`TrueNow`, `TruthStays`),
  so it is true of every event in the manager's queue, in the dispatch under way,
  in the daemon's queue and in the inboxes (`EventsTrue`). A list that is made
  therefore agrees with all its client was sent by then, and none is handed out
  to the client until the list is sent (`ListInv`).

`InstallationProofs`, with the lemmas of `WorkersProofs`. `Installation` has three
kinds of step, and each invariant is shown to be kept by them: what ends, restarts
or takes over a unit (`Passes`), a new job (`Spawns`), and a step of a job
(`Working`), which changes one row, and at most one file, one directory, one
message.

* `InstallationTypes`, and `VersionsAreChosenAsAsked`: `ChosenAsAsked`. That the
  newest of the releases and builds is chosen, from any list, needs that a finite
  set of numbers has a greatest element, which the library's well-founded
  induction gives (`WFMin`).
* `EulaIsAskedFor`: `EulaOnlyIfAsked`. Only `AcceptEula` accepts, and only a job
  that was asked to gets there; that all other steps leave the EULA of the
  directories alone rests on the directory of a job being there, and an update
  takes its directory from a configuration, which a job or a restart put there.
  So `EulaInv` follows a path: in the unit files, the configurations, the messages
  to the daemon thread and the jobs past `MakeDir` it leads to a directory, and
  directories do not go away.
* `UnitsHaveDirectories`: the directory of each unit the daemon has, and of each
  unit file that can be read, is there. Unlike `UnitIsWhole` it holds where jobs
  met each other.
* `UnitsAreWhole`: `UnitIsWhole`. A job opens, which cuts short, the jar it fetches,
  so the property needs that this jar is nobody's: `MeetInv` says what it means
  that jobs did not meet (no two at work share a unit, a directory or a file, and
  no message about the unit waits), and `WholeInv` that an update knows the
  version the unit has (`SameVersion`, also in a message on its way) and fetches
  another (`NewTarget`), and that an installation has the directory to itself
  (`NothingNew`).
* `FilesAgree`: `FileAgrees`, from `FilesInv`: what the unit file says is with the
  daemon, in a message to it, or in the hands of the job that has written it.
* `CompletedUnitsAreThere`: `CompletedIsThere`. What a finished job leaves may be
  replaced by a later one of the unit, before or after a restart; `HomeInv` says
  that a unit has one file and that the daemon knows each file, and `DoneInv`, for
  every job that is done, that its file, its entry and what is on its way are its
  own or of a later one.

`McmanProofs`. A step of a client either sends its command or is, for the daemon,
a departure or nothing; so all that is proved of the daemon holds beside the
clients (`ManDaemonHolds`), and the proofs below build on it.

* `ManTypes`: `ManTypeOK`. A client has sent its command once it has read anything
  (`SaidInv`), and has read no more than is there (`ReadInv`).
* `ManPanicsOnlyIf`: `PanicsOnlyIf`. What a client gets is a greeting, the answer and
  then events (`ShapeInv`); the answer is one that its subcommand expects or
  `ServerNotFound` (`FitInv`); what it has taken is what it expected up to there
  (`PlayedInv`). What remains is a client that waits and gets the first of its two
  events twice. Of one process that event is one token: it is with the process, its
  pipe or its log thread, or in the manager's queue, or once for each subscription
  of the client on its way to it or in its inbox (`TokenInv`), and a client is
  subscribed to nothing more often than it was answered (`SubscribedInv`), which is
  once. So two of them are of two processes, or of a line that repeats the phrase.
* `ManDoneIsThere`: `DoneIsThere`. The worker hands the unit over and then raises the
  event; the unit goes straight to the daemon's queue, the event through the event
  manager's first, and whoever is subscribed gets it from the daemon's queue.
  `NewsInv` says, of the event in each of these places, that the unit is the
  daemon's or due in the queue before it (`Due`), and of each message in that queue
  that it brings what a job has fetched. `QueueShift` is what a step does to the
  queue: the head is gone or not, something new is behind the rest or not.

Only model-checked: all liveness (`OwedIsHanded`, `DispatchCompletes`, `SweepEnds`,
`RequestIsAnswered`, `WaiterHears`, `JobIsHeard`, `ClientEnds`), which is out of the
prover's reach. That the prover does no induction over data is why the models
choose with `CHOOSE` and count with `Cardinality` where the code loops.

## Not modelled

* Presentation: argument parsing, tables, progress bars, log texts, the copy of a
  server's output in a log file, the notifications to systemd.
* Encoding: serde, bincode, and what the IPC crate does with a socket. The
  handshake starts where the daemon has connected to the client's channel.
* `FileTransaction` (`ipc/install/iops.rs`) and `list_builds` (`repo/paper.rs`): no
  code uses them.
* Of the configuration: `mcman.toml`, units that are not servers, files that are
  not `.toml`, a unit directory that cannot be read. The lists and units it
  yields are constants.
* Of the Paper service: HTTP and JSON. What it lists does not change while the
  daemon runs, and an address it does not know is answered by a page that is not
  a jar.

## Plan

Done: all components with their runs, and theorems for every safety property of a
passing run. What is left:

1. Contested jobs: beyond `NameIsTakenOnce`, what still holds of the files of two
   installations of one name (`bin/mcmand.rs` 546) and of two updates that overlap
   (334).
2. `Daemon` with starts that arrive behind a sweep, and with commands that a
   departed client leaves in the queue.
