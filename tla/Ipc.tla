-------------------------------- MODULE Ipc ---------------------------------
(***************************************************************************)
(* The vocabulary of the daemon: the events of src/ipc/mod.rs, the         *)
(* commands of the event manager (src/daemon/event.rs) and the status      *)
(* values of src/lib.rs.  Strings that are only compared (unit ids) are    *)
(* members of Units; whatever an event carries beside its type and its     *)
(* server id (progress, error text) is one member of Bodies.               *)
(***************************************************************************)
EXTENDS Naturals, Sequences

CONSTANTS
    Units,      \* ids a client may name, known to the daemon or not
    Clients,    \* client ids (u32 values of the acceptor's counter)
    Bodies,     \* payloads of events
    None        \* Rust's Option::None

ASSUME NoneAssumption == None \notin Units \cup Clients \cup Bodies

ServerEventType ==
    {"ServerStarting", "ServerStarted", "ServerStopping", "ServerStopped",
     "ActionProgress", "InstallationComplete", "InstallationFailed",
     "UpdateComplete", "UpdateFailed", "ServerFailed"}

ServerEvent == [type : ServerEventType, server_id : Units, body : Bodies]

\* Updating and Lockdown are declared, but no code produces them.
ServerStatus ==
    {"Unknown", "Starting", "Running", "Updating", "Down", "Lockdown",
     "Errored", "Stopping"}

-----------------------------------------------------------------------------
(* DaemonCmd: what a client sends.  SubscribeEvent names a sequence of       *)
(* servers or None; of a console command only "stop" matters to the models.  *)
(* InstallServer and UpdateServer are in Workers.                            *)

StartCmd(u, wait) == [kind |-> "Start", server_id |-> u, wait |-> wait]
StopCmd(u, wait) == [kind |-> "Stop", server_id |-> u, wait |-> wait]
SubscribeCmd(t, ids) == [kind |-> "SubscribeEvent", event_type |-> t, server_ids |-> ids]
MessageCmd(u) == [kind |-> "SendMessage", unit_id |-> u]
ConsoleCmd(u, isStop) == [kind |-> "SendCommand", unit_id |-> u, isStop |-> isStop]

DaemonCmd ==
         [kind : {"List", "GetVersion", "StopDaemon"}]
    \cup [kind : {"Start", "Stop"}, server_id : Units, wait : BOOLEAN]
    \cup [kind : {"SubscribeEvent"}, event_type : ServerEventType,
          server_ids : Seq(Units) \cup {None}]
    \cup [kind : {"SendMessage"}, unit_id : Units]
    \cup [kind : {"SendCommand"}, unit_id : Units, isStop : BOOLEAN]

-----------------------------------------------------------------------------
(* Commands to the event manager.                                          *)

DispatchCmd(e) == [kind |-> "DispatchEvent", event |-> e]
AddCmd(u, t, c) ==
    [kind |-> "AddSubscription", server_id |-> u, event_type |-> t, client_id |-> c]
RemoveCmd(u, t, c) ==
    [kind |-> "RemoveSubscription", server_id |-> u, event_type |-> t, client_id |-> c]
RemoveAllCmd(c) == [kind |-> "RemoveAllSubscriptions", client_id |-> c]

EventManagerCmd ==
         [kind : {"DispatchEvent"}, event : ServerEvent]
    \cup [kind : {"AddSubscription", "RemoveSubscription"},
          server_id : Units, event_type : ServerEventType, client_id : Clients]
    \cup [kind : {"RemoveAllSubscriptions"}, client_id : Clients]

\* What the event manager sends to the daemon thread: DaemonEvent::SendEvent.
SendEvent(c, e) == [kind |-> "SendEvent", client_id |-> c, event |-> e]
SendEvents == [kind : {"SendEvent"}, client_id : Clients, event : ServerEvent]
=============================================================================
