---------------------------- MODULE DaemonProofs ----------------------------
(***************************************************************************)
(* The whole daemon, for any clients, units, processes, commands and jobs: *)
(* the types of the units' part, and that no answer and no event is ever   *)
(* addressed to a client without a sender, on which the two unwraps of the *)
(* daemon thread rest.                                                     *)
(*                                                                         *)
(* The invariant follows an id on its way: a client's thread starts when   *)
(* its sender is inserted, so the ids in the daemon's queue have one, and  *)
(* so the ids of the answer and of the subscriptions made for them, those  *)
(* in the event manager's queue, in its map, in its sends, and again in    *)
(* the daemon's queue.  Senders are never removed.                         *)
(***************************************************************************)
EXTENDS Daemon, SupervisionProofs, WorkersProofs

\* A client's entries, or none: what retain leaves is among what was there.
LEMMA RetainIsSeq ==
    ASSUME NEW ids, IsSeq(ids), NEW client
    PROVE  IsSeq(Retain(ids, client)) /\ Elems(Retain(ids, client)) \subseteq Elems(ids)
<1> DEFINE own == {j \in DOMAIN ids : ids[j] = client}
           n == Cardinality(own)
<1>1. PICK T : ids \in Seq(T)
  BY DEF IsSeq
<1>2. DOMAIN ids = 1 .. Len(ids) /\ Len(ids) \in Nat
  BY <1>1
<1>3. IsFiniteSet(own) /\ n \in Nat
  <2>1. IsFiniteSet(1 .. Len(ids))
    BY <1>2, FS_Interval
  <2> QED BY <1>2, <2>1, FS_Subset, FS_CardinalityType
<1>4. Retain(ids, client) = [i \in 1 .. n |-> client]
  BY DEF Retain
<1>5. Retain(ids, client) \in Seq({client}) /\ Len(Retain(ids, client)) = n
  BY <1>3, <1>4
<1>6. CASE own = {}
  <2>1. n = 0
    BY <1>6, FS_EmptySet
  <2> QED BY <1>5, <2>1 DEF IsSeq, Elems
<1>7. CASE own # {}
  <2>1. client \in Elems(ids)
    BY <1>2, <1>7 DEF Elems
  <2> QED BY <1>4, <1>5, <2>1 DEF IsSeq, Elems
<1> QED BY <1>6, <1>7

(***************************************************************************)
(* The units' part.                                                        *)
(***************************************************************************)

\* The daemon thread stops, and waits for, units that it has.
TargetInv ==
    /\ left \subseteq DOMAIN servers
    /\ pc \in {"write", "starting"} => target \in DOMAIN servers

UnitsInv == UnitTypes /\ BornInv /\ TargetInv

UnitVars == <<servers, target, sweeping, left, child, autostart, processVars>>

LEMMA UnitsSame ==
    ASSUME UnitsInv, UNCHANGED UnitVars,
           pc' \in {pc, "recv", "reply", "spawn", "closing", "panicked", "exited"}
    PROVE  UnitsInv'
<1>1. UnitTypes'
  BY DEF UnitsInv, UnitTypes, ProcessTypeOK, SupervisionTypeOK, UnitVars, processVars
<1>2. BornInv'
  BY BornSame DEF UnitsInv, UnitVars, processVars
<1>3. TargetInv'
  BY DEF UnitsInv, TargetInv, UnitVars
<1> QED BY <1>1, <1>2, <1>3 DEF UnitsInv

\* What a client may ask for.
LEMMA RequestTypes ==
    ASSUME NEW cmd \in Requests
    PROVE  /\ cmd.kind \in {"SubscribeEvent"} =>
                  cmd.server_ids \in Seq(Units) \cup {None}
           /\ cmd.kind \in {"InstallServer", "UpdateServer"} => cmd.unit_id \in Units
           /\ cmd.kind = "SendCommand" => cmd.isStop \in BOOLEAN
  BY DaemonAssumption DEF DaemonAssumption, DaemonCmd, WorkerCmd

LEMMA SpawnKeepsTarget ==
    ASSUME TargetInv, NEW u, NEW next \in {"autostart", "reply"}, Spawn(u, next)
    PROVE  TargetInv'
<1>1. DOMAIN servers' = DOMAIN servers /\ left' = left /\ pc' = next
  BY DEF Spawn
<1> QED BY <1>1 DEF TargetInv

LEMMA StartUnitKeeps ==
    ASSUME UnitsInv, NEW u \in DOMAIN servers, StartUnit(u)
    PROVE  UnitsInv'
<1>1. UnitTypes'
  BY StartUnitTypes DEF UnitsInv
<1>2. CASE Spawn(u, "reply")
  BY <1>1, <1>2, BornSpawn, SpawnKeepsTarget DEF UnitsInv
<1>3. CASE ~Spawn(u, "reply")
  BY <1>3, UnitsSame DEF StartUnit, Panic, Dies, UnitVars, processVars
<1> QED BY <1>2, <1>3

LEMMA StopUnitKeeps ==
    ASSUME UnitsInv, NEW u \in DOMAIN servers, StopUnit(u)
    PROVE  UnitsInv'
<1>1. UnitTypes'
  BY StopUnitTypes DEF UnitsInv
<1>2. BornInv'
  BY BornSame DEF UnitsInv, StopUnit, processVars
<1>3. TargetInv'
  BY DEF UnitsInv, TargetInv, StopUnit
<1> QED BY <1>1, <1>2, <1>3 DEF UnitsInv

LEMMA SendCommandKeeps ==
    ASSUME UnitsInv, NEW u \in DOMAIN servers, NEW isStop \in BOOLEAN,
           SendCommand(u, isStop)
    PROVE  UnitsInv'
<1>1. UnitTypes'
  BY SendCommandTypes DEF UnitsInv
<1>2. BornInv'
  BY BornSame DEF UnitsInv, SendCommand, Panic, Dies, processVars
<1>3. TargetInv'
  BY DEF UnitsInv, TargetInv, SendCommand, Panic, Dies
<1> QED BY <1>1, <1>2, <1>3 DEF UnitsInv

LEMMA OfUnitsKeeps ==
    ASSUME UnitsInv, Autostart \/ StartThread \/ WriteStop \/ Sweep
    PROVE  UnitsInv'
<1>1. CASE Autostart
  <2>1. UnitTypes'
    BY <1>1, AutostartTypes DEF UnitsInv
  <2>2. CASE \E u \in DOMAIN servers : Spawn(u, "autostart")
    BY <2>1, <2>2, BornSpawn, SpawnKeepsTarget DEF UnitsInv
  <2>3. CASE ~(\E u \in DOMAIN servers : Spawn(u, "autostart"))
    <3>1. UNCHANGED <<servers, left, processVars>> /\ pc' \in {pc, "exited"}
      BY <1>1, <2>3 DEF Autostart, Dies
    <3>2. BornInv'
      BY <3>1, BornSame DEF UnitsInv, processVars
    <3>3. TargetInv'
      BY <1>1, <3>1 DEF UnitsInv, TargetInv, Autostart
    <3> QED BY <2>1, <3>2, <3>3 DEF UnitsInv
  <2> QED BY <2>2, <2>3
<1>2. CASE StartThread
  <2>1. BornInv'
    BY <1>2, BornSame DEF UnitsInv, StartThread, processVars
  <2> QED BY <1>2, <2>1, StartThreadTypes DEF UnitsInv, TargetInv, StartThread
<1>3. CASE WriteStop
  <2>1. UnitTypes'
    BY <1>3, WriteStopTypes DEF UnitsInv, TargetInv, WriteStop
  <2>2. BornInv'
    BY <1>3, BornSame DEF UnitsInv, WriteStop, Panic, Dies, processVars
  <2>3. DOMAIN servers' = DOMAIN servers /\ left' = left /\ pc' \notin {"write", "starting"}
    BY <1>3 DEF WriteStop, Panic, Dies
  <2> QED BY <2>1, <2>2, <2>3 DEF UnitsInv, TargetInv
<1>4. CASE Sweep
  <2>1. UnitTypes'
    BY <1>4, SweepTypes DEF UnitsInv
  <2>2. BornInv'
    BY <1>4, BornSame DEF UnitsInv, Sweep, Visit, HasStarted, Wait, EndSweep, processVars
  <2>3. TargetInv'
    <3>1. ASSUME NEW u \in left, Visit(u)
          PROVE  TargetInv'
      BY <3>1 DEF UnitsInv, TargetInv, Visit
    <3>2. CASE HasStarted \/ Wait \/ EndSweep
      BY <3>2 DEF UnitsInv, TargetInv, HasStarted, Wait, EndSweep
    <3> QED BY <1>4, <3>1, <3>2 DEF Sweep
  <2> QED BY <2>1, <2>2, <2>3 DEF UnitsInv
<1> QED BY <1>1, <1>2, <1>3, <1>4

LEMMA AddServerUnitKeeps ==
    ASSUME UnitsInv, NEW u \in Units, AddServerUnit(u), pc' = pc
    PROVE  UnitsInv'
<1>1. UnitTypes'
  BY AddServerUnitTypes DEF UnitsInv
<1>2. BornInv'
  BY BornSame DEF UnitsInv, AddServerUnit, processVars
<1>3. DOMAIN servers \subseteq DOMAIN servers' /\ UNCHANGED <<left, target>>
  BY DEF AddServerUnit
<1>4. TargetInv'
  BY <1>3 DEF UnitsInv, TargetInv
<1> QED BY <1>1, <1>2, <1>4 DEF UnitsInv

LEMMA BeginSweepKeeps ==
    ASSUME UnitsInv, BeginSweep
    PROVE  UnitsInv'
<1>1. UnitTypes'
  BY BeginSweepTypes DEF UnitsInv
<1>2. BornInv'
  BY BornSame DEF UnitsInv, BeginSweep, processVars
<1>3. TargetInv'
  BY DEF TargetInv, BeginSweep
<1> QED BY <1>1, <1>2, <1>3 DEF UnitsInv

LEMMA ServersKeep ==
    ASSUME UnitsInv, ProcessNext \/ LogNext, UNCHANGED supervisionVars
    PROVE  UnitsInv'
<1>1. ProcessTypeOK'
  BY ProcessNextTypes, ReadLineTypes, RaiseEventTypes, EndLogTypes
     DEF UnitsInv, UnitTypes, LogNext
<1>2. SupervisionTypeOK' /\ TargetInv'
  BY DEF UnitsInv, UnitTypes, SupervisionTypeOK, TargetInv, supervisionVars
<1>3. BornInv'
  BY BornProcess, BornLog DEF UnitsInv, supervisionVars
<1> QED BY <1>1, <1>2, <1>3 DEF UnitsInv, UnitTypes

(***************************************************************************)
(* The ids on their way.                                                   *)
(***************************************************************************)

\* A message to the daemon thread, where the senders map has the ids in S.
FineMsg(m, S) ==
    /\ m.kind = "IncomingCmd" => m.id \in S /\ m.cmd \in Requests
    /\ m.kind = "SendEvent" => m.client_id \in S
    /\ m.kind = "AddServerUnit" => m.unit_id \in Units

\* A command to the event manager.
FineCmd(x, S) ==
    /\ x.kind = "AddSubscription" => x.client_id \in S
    /\ x.kind = "DispatchEvent" => <<x.event.server_id, x.event.type>> \in Key

QueueInv == IsSeq(queue) /\ \A m \in Elems(queue) : FineMsg(m, senders)
EventsInv == IsSeq(eventQueue) /\ \A x \in Elems(eventQueue) : FineCmd(x, senders)
OutboxInv ==
    /\ IsSeq(outbox)
    /\ \A m \in Elems(outbox) : m.kind = "SendEvent" /\ m.client_id \in senders
TodoInv ==
    /\ IsSeq(todo)
    /\ \A x \in Elems(todo) : x.kind = "AddSubscription" /\ x.client_id \in senders
AnswerInv ==
    /\ answering # None \/ pc = "spawn" => /\ answering.client_id \in senders
                                            /\ answering.response.to \in Requests
    /\ pc = "spawn" => answering.response.to.kind \in {"InstallServer", "UpdateServer"}
SubscriptionsInv ==
    /\ subscriptions = [k \in Key |-> subscriptions[k]]
    /\ \A k \in Key : IsSeq(subscriptions[k]) /\ Elems(subscriptions[k]) \subseteq senders
ThreadsInv ==
    /\ thread \in [Clients -> {"none", "recv", "done"}]
    /\ \A c \in Clients : thread[c] = "recv" => c \in senders
    /\ cmds \in [Clients -> Seq(Requests)]

\* Every job is about a unit.
JobsInv ==
    /\ IsSeq(jobs)
    /\ \A j \in 1 .. Len(jobs) : "unit" \in DOMAIN jobs[j] /\ jobs[j].unit \in Units

MsgInv ==
    /\ QueueInv /\ EventsInv /\ OutboxInv /\ TodoInv
    /\ AnswerInv /\ SubscriptionsInv /\ ThreadsInv /\ JobsInv

LEMMA FineGrows ==
    ASSUME NEW S, NEW T, S \subseteq T, NEW m
    PROVE  /\ FineMsg(m, S) => FineMsg(m, T)
           /\ FineCmd(m, S) => FineCmd(m, T)
  BY DEF FineMsg, FineCmd

LEMMA QueueMoves ==
    ASSUME QueueInv, senders \subseteq senders', NEW m, FineMsg(m, senders'),
           Moves(queue, queue', m)
    PROVE  QueueInv'
<1>1. IsSeq(queue') /\ Elems(queue') \subseteq Elems(queue) \cup {m}
  BY MovesIsSeq DEF QueueInv
<1>2. \A n \in Elems(queue) : FineMsg(n, senders')
  BY FineGrows DEF QueueInv
<1> QED BY <1>1, <1>2 DEF QueueInv

LEMMA EventsMove ==
    ASSUME EventsInv, senders \subseteq senders', NEW x, FineCmd(x, senders'),
           Moves(eventQueue, eventQueue', x)
    PROVE  EventsInv'
<1>1. IsSeq(eventQueue') /\ Elems(eventQueue') \subseteq Elems(eventQueue) \cup {x}
  BY MovesIsSeq DEF EventsInv
<1>2. \A y \in Elems(eventQueue) : FineCmd(y, senders')
  BY FineGrows DEF EventsInv
<1> QED BY <1>1, <1>2 DEF EventsInv

LEMMA OutboxMoves ==
    ASSUME OutboxInv, senders \subseteq senders', outbox # <<>>, outbox' = Tail(outbox)
    PROVE  OutboxInv'
  BY TailIsSeq DEF OutboxInv

LEMMA TodoMoves ==
    ASSUME TodoInv, senders \subseteq senders',
           todo' = todo \/ (todo # <<>> /\ todo' = Tail(todo))
    PROVE  TodoInv'
  BY TailIsSeq DEF TodoInv

\* What is not on the way of an id.
LEMMA RestSame ==
    ASSUME senders \subseteq senders'
    PROVE  /\ OutboxInv /\ UNCHANGED outbox => OutboxInv'
           /\ TodoInv /\ UNCHANGED todo => TodoInv'
           /\ AnswerInv /\ UNCHANGED answering /\ pc' # "spawn" => AnswerInv'
           /\ AnswerInv /\ UNCHANGED <<answering, pc>> => AnswerInv'
           /\ SubscriptionsInv /\ UNCHANGED subscriptions => SubscriptionsInv'
           /\ ThreadsInv /\ UNCHANGED <<thread, cmds>> => ThreadsInv'
           /\ JobsInv /\ UNCHANGED jobs => JobsInv'
<1>1. OutboxInv /\ UNCHANGED outbox => OutboxInv'
  BY DEF OutboxInv
<1>2. TodoInv /\ UNCHANGED todo => TodoInv'
  BY DEF TodoInv
<1>3. AnswerInv /\ UNCHANGED answering /\ (pc' # "spawn" \/ pc' = pc) => AnswerInv'
  BY DEF AnswerInv
<1>4. SubscriptionsInv /\ UNCHANGED subscriptions => SubscriptionsInv'
  BY DEF SubscriptionsInv
<1>5. ThreadsInv /\ UNCHANGED <<thread, cmds>> => ThreadsInv'
  BY DEF ThreadsInv
<1>6. JobsInv /\ UNCHANGED jobs => JobsInv'
  BY DEF JobsInv
<1> QED BY <1>1, <1>2, <1>3, <1>4, <1>5, <1>6

\* A step that takes or sends at most one message of each queue.
LEMMA MsgMoves ==
    ASSUME MsgInv, UNCHANGED <<senders, outbox, todo, answering, subscriptions, thread, cmds,
                               jobs>>,
           pc' # "spawn" \/ pc' = pc,
           NEW m, FineMsg(m, senders), Moves(queue, queue', m),
           NEW x, FineCmd(x, senders), Moves(eventQueue, eventQueue', x)
    PROVE  MsgInv'
<1>1. senders \subseteq senders'
  OBVIOUS
<1>2. QueueInv'
  BY <1>1, QueueMoves DEF MsgInv
<1>3. EventsInv'
  BY <1>1, EventsMove DEF MsgInv
<1> QED BY <1>1, <1>2, <1>3, RestSame DEF MsgInv

LEMMA StoppedIsFine == FineMsg(DaemonStopped, senders) /\ FineMsg(StopDaemonEvent, senders)
  BY DEF FineMsg, DaemonStopped, StopDaemonEvent

LEMMA RemoveIsFine == \A c : FineCmd(RemoveAllCmd(c), senders)
  BY DEF FineCmd, RemoveAllCmd

\* A step that leaves the messages where they are.
LEMMA MsgSame ==
    ASSUME MsgInv, UNCHANGED <<senders, outbox, todo, answering, subscriptions, thread, cmds,
                               jobs, queue, eventQueue>>,
           pc' # "spawn" \/ pc' = pc
    PROVE  MsgInv'
  BY MsgMoves, StoppedIsFine, RemoveIsFine DEF Moves

(***************************************************************************)
(* The commands.                                                           *)
(***************************************************************************)

\* What every handler of handle_cmd does to the messages.
Handled ==
    /\ queue # <<>> /\ Head(queue).kind = "IncomingCmd"
    /\ queue' = Tail(queue) \/ queue' = Append(Tail(queue), StopDaemonEvent)
    /\ UNCHANGED <<eventQueue, subscriptions, outbox, senders, thread, cmds, jobs,
                   inbox, counter, main, connected, sweeping>>
    /\ pc = "recv" /\ pc' \in {"reply", "spawn", "write", "panicked"}
    /\ pc' = "spawn" => Head(queue).cmd.kind \in {"InstallServer", "UpdateServer"}

\* The answer goes to the client, and so do the subscriptions before it, which
\* are those that the command asks for and come with an Ok.
Fits(x, response) ==
    /\ x.kind = "AddSubscription" /\ x.client_id = Head(queue).id
    /\ response = "Ok"
    /\ SubscribesTo(Head(queue).cmd, [server_id |-> x.server_id, type |-> x.event_type])
Answers ==
    \E response, list, subs :
        /\ Returns(response, list, subs)
        /\ IsSeq(subs)
        /\ \A x \in Elems(subs) : Fits(x, response)

LEMMA AddCmdFits ==
    ASSUME NEW u, NEW t,
           SubscribesTo(Head(queue).cmd, [server_id |-> u, type |-> t])
    PROVE  Fits(AddCmd(u, t, Head(queue).id), "Ok")
<1> DEFINE x == AddCmd(u, t, Head(queue).id)
<1>1. /\ x.kind = "AddSubscription" /\ x.client_id = Head(queue).id
      /\ x.server_id = u /\ x.event_type = t
  BY DEF AddCmd
<1> HIDE DEF x
<1>2. Fits(x, "Ok")
  BY <1>1 DEF Fits
<1> QED BY <1>2 DEF x

LEMMA AnswersEach ==
    ASSUME NEW n \in Nat, NEW subs, subs = [i \in 1 .. n |-> subs[i]],
           \A i \in 1 .. n : Fits(subs[i], "Ok"), Returns("Ok", None, subs)
    PROVE  Answers
<1> DEFINE R == {subs[i] : i \in 1 .. n}
<1>1. subs \in Seq(R) /\ Len(subs) = n
  OBVIOUS
<1>2. IsSeq(subs) /\ \A x \in Elems(subs) : Fits(x, "Ok")
  BY <1>1 DEF IsSeq, Elems
<1> QED BY <1>2 DEF Answers

LEMMA AnswersNone ==
    ASSUME NEW response, NEW list, Returns(response, list, <<>>)
    PROVE  Answers
  BY EmptyIsSeq DEF Answers

LEMMA AnswersTypes ==
    ASSUME NEW u, NEW types, Len(types) \in Nat,
           \A i \in 1 .. Len(types) :
               SubscribesTo(Head(queue).cmd, [server_id |-> u, type |-> types[i]]),
           Returns("Ok", None, Subscriptions(u, types))
    PROVE  Answers
<1> DEFINE subs == Subscriptions(u, types)
<1>1. subs = [i \in 1 .. Len(types) |-> AddCmd(u, types[i], Head(queue).id)]
  BY DEF Subscriptions
<1>2. \A i \in 1 .. Len(types) : subs[i] = AddCmd(u, types[i], Head(queue).id)
  BY <1>1
<1>3. subs = [i \in 1 .. Len(types) |-> subs[i]]
  BY <1>1
<1>4. \A i \in 1 .. Len(types) : Fits(subs[i], "Ok")
  BY <1>2, AddCmdFits
<1> HIDE DEF subs
<1>5. Returns("Ok", None, subs)
  BY DEF subs
<1> QED BY <1>3, <1>4, <1>5, AnswersEach

LEMMA UnitsOfIncoming ==
    ASSUME QueueInv, NEW kind, Incoming(kind)
    PROVE  /\ Head(queue).cmd \in Requests /\ Head(queue).id \in senders
           /\ queue # <<>> /\ Head(queue).kind = "IncomingCmd"
           /\ queue' = Tail(queue) /\ pc = "recv"
           /\ UNCHANGED <<subscriptions, outbox, senders, thread, cmds, jobs,
                          inbox, counter, main, connected>>
  BY HeadIsElem DEF QueueInv, FineMsg, Incoming, Rest, workVars, clientVars

\* Commands that leave the units alone.
LEMMA QuietCommands ==
    ASSUME QueueInv,
           \/ HandleList \/ HandleGetVersion \/ HandleUnknownServer
           \/ HandleStopDaemon \/ HandleInstall \/ HandleUpdate
    PROVE  /\ Handled /\ Answers /\ UNCHANGED UnitVars
           /\ pc' \in {"reply", "spawn"}
<1>1. CASE HandleList
  <2>1. Incoming("List") /\ UnitsUnchanged /\ pc' = "reply"
    BY <1>1 DEF HandleList
  <2>2. Answers
    BY <1>1, AnswersNone DEF HandleList
  <2> QED BY <2>1, <2>2, UnitsOfIncoming DEF Handled, UnitsUnchanged, UnitVars
<1>2. CASE HandleGetVersion
  <2>1. Incoming("GetVersion") /\ UnitsUnchanged /\ pc' = "reply"
    BY <1>2 DEF HandleGetVersion
  <2>2. Answers
    BY <1>2, AnswersNone DEF HandleGetVersion
  <2> QED BY <2>1, <2>2, UnitsOfIncoming DEF Handled, UnitsUnchanged, UnitVars
<1>3. CASE HandleUnknownServer
  <2>1. (\E kind : Incoming(kind)) /\ UnitsUnchanged /\ pc' = "reply"
    BY <1>3 DEF HandleUnknownServer
  <2>2. Answers
    BY <1>3, AnswersNone DEF HandleUnknownServer
  <2> QED BY <2>1, <2>2, UnitsOfIncoming DEF Handled, UnitsUnchanged, UnitVars
<1>4. CASE HandleStopDaemon
  <2>1. Answers
    BY <1>4, AnswersNone DEF HandleStopDaemon
  <2> QED
    BY <1>4, <2>1 DEF Handled, HandleStopDaemon, Rest, workVars, clientVars,
                      UnitsUnchanged, UnitVars
<1>5. CASE HandleInstall
  <2>1. /\ Incoming("InstallServer") /\ UnitsUnchanged /\ pc' = "spawn"
        /\ Head(queue).cmd.kind = "InstallServer"
    BY <1>5 DEF HandleInstall, Incoming
  <2>2. Answers
    <3> DEFINE cmd == Head(queue).cmd
               types == <<"InstallationComplete", "InstallationFailed", "ActionProgress">>
    <3>1. Len(types) \in Nat /\ \A i \in 1 .. Len(types) :
             SubscribesTo(cmd, [server_id |-> cmd.unit_id, type |-> types[i]])
      BY <2>1 DEF SubscribesTo
    <3> QED BY <1>5, <3>1, AnswersTypes DEF HandleInstall
  <2> QED BY <2>1, <2>2, UnitsOfIncoming DEF Handled, UnitsUnchanged, UnitVars
<1>6. CASE HandleUpdate
  <2>1. /\ Incoming("UpdateServer") /\ UnitsUnchanged /\ pc' = "spawn"
        /\ Head(queue).cmd.kind = "UpdateServer"
    BY <1>6 DEF HandleUpdate, Incoming
  <2>2. Answers
    <3> DEFINE cmd == Head(queue).cmd
               types == <<"UpdateComplete", "UpdateFailed", "ActionProgress">>
    <3>1. Len(types) \in Nat /\ \A i \in 1 .. Len(types) :
             SubscribesTo(cmd, [server_id |-> cmd.unit_id, type |-> types[i]])
      BY <2>1 DEF SubscribesTo
    <3> QED BY <1>6, <3>1, AnswersTypes DEF HandleUpdate
  <2> QED BY <2>1, <2>2, UnitsOfIncoming DEF Handled, UnitsUnchanged, UnitVars
<1> QED BY <1>1, <1>2, <1>3, <1>4, <1>5, <1>6

LEMMA SubscribeKeeps ==
    ASSUME QueueInv, HandleSubscribeEvent
    PROVE  Handled /\ Answers /\ UNCHANGED UnitVars /\ pc' = "reply"
<1> DEFINE cmd == Head(queue).cmd
           subs == IF cmd.server_ids = None THEN <<>>
                   ELSE [i \in 1 .. Len(cmd.server_ids) |->
                            AddCmd(cmd.server_ids[i], cmd.event_type, Head(queue).id)]
<1>1. /\ Incoming("SubscribeEvent") /\ UnitsUnchanged /\ pc' = "reply"
      /\ Returns("Ok", None, subs)
      /\ cmd.kind = "SubscribeEvent"
  BY DEF HandleSubscribeEvent, Incoming
<1>2. cmd \in Requests
  BY <1>1, UnitsOfIncoming
<1>3. cmd.server_ids \in Seq(Units) \cup {None}
  BY <1>1, <1>2, RequestTypes
<1>4. CASE cmd.server_ids = None
  <2>1. Answers
    BY <1>1, <1>4, AnswersNone
  <2> QED BY <1>1, <2>1, UnitsOfIncoming DEF Handled, UnitsUnchanged, UnitVars
<1>5. CASE cmd.server_ids # None
  <2> DEFINE n == Len(cmd.server_ids)
  <2>1. n \in Nat
    BY <1>3, <1>5
  <2>2. \A i \in 1 .. n :
           subs[i] = AddCmd(cmd.server_ids[i], cmd.event_type, Head(queue).id)
    BY <1>5
  <2>3. subs = [i \in 1 .. n |-> subs[i]]
    BY <1>5
  <2>4. ASSUME NEW i \in 1 .. n
        PROVE  Fits(subs[i], "Ok")
    <3>1. cmd.server_ids[i] \in Range(cmd.server_ids)
      BY <1>3, <1>5 DEF Range
    <3>2. SubscribesTo(cmd, [server_id |-> cmd.server_ids[i], type |-> cmd.event_type])
      BY <1>1, <1>5, <3>1 DEF SubscribesTo
    <3> QED BY <2>2, <3>2, AddCmdFits
  <2> HIDE DEF subs, n
  <2>5. Answers
    BY <1>1, <2>1, <2>3, <2>4, AnswersEach
  <2> QED BY <1>1, <2>5, UnitsOfIncoming DEF Handled, UnitsUnchanged, UnitVars
<1> QED BY <1>4, <1>5

LEMMA StartKeeps ==
    ASSUME UnitsInv, QueueInv, HandleStart
    PROVE  Handled /\ Answers /\ UnitsInv' /\ pc' # "spawn"
<1> DEFINE u == Head(queue).cmd.server_id
<1>1. /\ Incoming("Start") /\ u \in DOMAIN servers /\ StartUnit(u)
  BY DEF HandleStart
<1>2. UNCHANGED <<eventQueue, sweeping>> /\ pc' \in {"reply", "panicked"}
  BY <1>1 DEF StartUnit, Spawn, Panic, Dies
<1>3. Answers
  <2> DEFINE cmd == Head(queue).cmd
             types == <<"ServerStarting", "ServerStarted">>
  <2>1. CASE cmd.wait
    <3>1. cmd.kind = "Start"
      BY <1>1 DEF Incoming
    <3>2. Len(types) \in Nat /\ \A i \in 1 .. Len(types) :
             SubscribesTo(cmd, [server_id |-> cmd.server_id, type |-> types[i]])
      BY <2>1, <3>1 DEF SubscribesTo
    <3> QED BY <2>1, <3>2, AnswersTypes DEF HandleStart
  <2>2. CASE ~cmd.wait
    BY <2>2, AnswersNone DEF HandleStart
  <2> QED BY <2>1, <2>2
<1> QED BY <1>1, <1>2, <1>3, UnitsOfIncoming, StartUnitKeeps DEF Handled

LEMMA StopKeeps ==
    ASSUME UnitsInv, QueueInv, HandleStop
    PROVE  Handled /\ Answers /\ UnitsInv' /\ pc' # "spawn"
<1> DEFINE u == Head(queue).cmd.server_id
<1>1. /\ Incoming("Stop") /\ u \in DOMAIN servers /\ StopUnit(u)
  BY DEF HandleStop
<1>2. UNCHANGED <<eventQueue, sweeping>> /\ pc' \in {"reply", "write"}
  BY <1>1 DEF StopUnit
<1>3. Answers
  <2> DEFINE cmd == Head(queue).cmd
             types == <<"ServerStopping", "ServerStopped">>
  <2>1. CASE cmd.wait
    <3>1. cmd.kind = "Stop"
      BY <1>1 DEF Incoming
    <3>2. Len(types) \in Nat /\ \A i \in 1 .. Len(types) :
             SubscribesTo(cmd, [server_id |-> cmd.server_id, type |-> types[i]])
      BY <2>1, <3>1 DEF SubscribesTo
    <3> QED BY <2>1, <3>2, AnswersTypes DEF HandleStop
  <2>2. CASE ~cmd.wait
    BY <2>2, AnswersNone DEF HandleStop
  <2> QED BY <2>1, <2>2
<1> QED BY <1>1, <1>2, <1>3, UnitsOfIncoming, StopUnitKeeps DEF Handled

LEMMA InputKeeps ==
    ASSUME UnitsInv, QueueInv, HandleInput
    PROVE  Handled /\ Answers /\ UnitsInv' /\ pc' # "spawn"
<1> DEFINE cmd == Head(queue).cmd
<1>1. PICK kind \in {"SendMessage", "SendCommand"} :
          /\ Incoming(kind) /\ cmd.unit_id \in DOMAIN servers
          /\ SendCommand(cmd.unit_id, kind = "SendCommand" /\ cmd.isStop)
  BY DEF HandleInput
<1>2. cmd \in Requests /\ cmd.kind = kind
  BY <1>1, UnitsOfIncoming DEF Incoming
<1>3. (kind = "SendCommand" /\ cmd.isStop) \in BOOLEAN
  OBVIOUS
<1>4. UnitsInv'
  BY <1>1, <1>3, SendCommandKeeps
<1>5. UNCHANGED <<eventQueue, sweeping>> /\ pc' \in {"reply", "panicked"}
  BY <1>1 DEF SendCommand, Panic, Dies
<1>6. Answers
  BY AnswersNone DEF HandleInput
<1> QED BY <1>1, <1>4, <1>5, <1>6, UnitsOfIncoming DEF Handled

LEMMA CommandsKeep ==
    ASSUME UnitsInv, MsgInv, Commands
    PROVE  UnitsInv' /\ MsgInv'
<1>1. Handled /\ Answers /\ UnitsInv'
  BY QuietCommands, SubscribeKeeps, StartKeeps, StopKeeps, InputKeeps, UnitsSame
     DEF Commands, MsgInv
<1>2. Head(queue).id \in senders /\ Head(queue).cmd \in Requests
  BY <1>1, HeadIsElem DEF MsgInv, QueueInv, Handled, FineMsg
<1>3. senders \subseteq senders' /\ senders' = senders
  BY <1>1 DEF Handled
<1>4. QueueInv'
  <2>1. IsSeq(Tail(queue)) /\ Elems(Tail(queue)) \subseteq Elems(queue)
    BY <1>1, TailIsSeq DEF MsgInv, QueueInv, Handled
  <2>2. CASE queue' = Tail(queue)
    BY <1>3, <2>1, <2>2 DEF MsgInv, QueueInv
  <2>3. CASE queue' = Append(Tail(queue), StopDaemonEvent)
    <3>1. IsSeq(queue') /\ Elems(queue') = Elems(Tail(queue)) \cup {StopDaemonEvent}
      BY <2>1, <2>3, AppendIsSeq
    <3> QED BY <1>3, <2>1, <3>1, StoppedIsFine DEF MsgInv, QueueInv
  <2> QED BY <1>1, <2>2, <2>3 DEF Handled
<1>5. EventsInv'
  BY <1>1, <1>3 DEF MsgInv, EventsInv, Handled
<1>6. AnswerInv' /\ TodoInv'
  <2>1. PICK response, list, subs :
            /\ Returns(response, list, subs)
            /\ IsSeq(subs)
            /\ \A x \in Elems(subs) :
                   x.kind = "AddSubscription" /\ x.client_id = Head(queue).id
    BY <1>1 DEF Answers, Fits
  <2>2. todo' = subs
    BY <2>1 DEF Returns
  <2>3. /\ answering'.client_id = Head(queue).id
        /\ answering'.response.to = Head(queue).cmd
    BY <2>1 DEF Returns, Answer
  <2> QED BY <1>1, <1>2, <1>3, <2>1, <2>2, <2>3 DEF AnswerInv, TodoInv, Handled
<1> QED BY <1>1, <1>3, <1>4, <1>5, <1>6, RestSame DEF MsgInv, Handled

(***************************************************************************)
(* main and the clients' threads.                                          *)
(***************************************************************************)

LEMMA AcceptorKeeps ==
    ASSUME UnitsInv, MsgInv, Acceptor
    PROVE  UnitsInv' /\ MsgInv'
<1>1. CASE Greet
  <2>1. /\ UNCHANGED <<senders, outbox, todo, answering, subscriptions, thread, cmds,
                       jobs, queue, eventQueue>>
        /\ UNCHANGED UnitVars
        /\ pc' \in {pc, "exited"}
    BY <1>1 DEF Greet, Dies, managerVars, workVars, clientVars, supervisionVars, UnitVars
  <2> QED BY <2>1, MsgSame, UnitsSame
<1>2. CASE RefuseClient
  <2>1. /\ UNCHANGED <<senders, outbox, todo, answering, subscriptions, thread,
                       jobs, queue, eventQueue>>
        /\ UNCHANGED UnitVars /\ pc' = pc
        /\ cmds' = [cmds EXCEPT ![counter] = <<>>]
    BY <1>2 DEF RefuseClient, managerVars, workVars, supervisionVars, UnitVars
  <2>2. ThreadsInv'
    <3>1. <<>> \in Seq(Requests)
      OBVIOUS
    <3>2. cmds' \in [Clients -> Seq(Requests)]
      BY <2>1, <3>1 DEF MsgInv, ThreadsInv
    <3> QED BY <2>1, <3>2 DEF MsgInv, ThreadsInv
  <2>3. QueueInv' /\ EventsInv'
    BY <2>1 DEF MsgInv, QueueInv, EventsInv
  <2> QED BY <2>1, <2>2, <2>3, UnitsSame, RestSame DEF MsgInv
<1>3. CASE Register
  <2>1. /\ UNCHANGED <<outbox, todo, answering, subscriptions, cmds, jobs, queue, eventQueue>>
        /\ UNCHANGED UnitVars /\ pc' = pc
        /\ senders' = senders \cup {counter}
        /\ thread' = [thread EXCEPT ![counter] = "recv"]
    BY <1>3 DEF Register, AcceptorRest, managerVars, workVars, replyVars, supervisionVars,
                UnitVars
  <2>2. senders \subseteq senders'
    BY <2>1
  <2>3. ThreadsInv'
    <3>1. /\ thread' \in [Clients -> {"none", "recv", "done"}]
          /\ \A c \in Clients : thread'[c] = "recv" => c = counter \/ thread[c] = "recv"
      BY <2>1 DEF MsgInv, ThreadsInv
    <3>2. \A c \in Clients : thread'[c] = "recv" => c \in senders'
      BY <2>1, <3>1 DEF MsgInv, ThreadsInv
    <3> QED BY <2>1, <3>1, <3>2 DEF MsgInv, ThreadsInv
  <2>4. QueueInv' /\ EventsInv'
    BY <2>1, <2>2, FineGrows DEF MsgInv, QueueInv, EventsInv
  <2> QED BY <2>1, <2>2, <2>3, <2>4, UnitsSame, RestSame DEF MsgInv
<1> QED BY <1>1, <1>2, <1>3 DEF Acceptor

LEMMA ClientKeeps ==
    ASSUME UnitsInv, MsgInv, NEW c \in Clients, NEW cmd \in Requests,
           Send(c, cmd) \/ Disconnect(c)
    PROVE  UnitsInv' /\ MsgInv'
<1>1. /\ UNCHANGED <<senders, outbox, todo, answering, subscriptions, thread,
                     jobs, queue, eventQueue>>
      /\ UNCHANGED UnitVars /\ pc' = pc
      /\ cmds' = cmds \/ cmds' = [cmds EXCEPT ![c] = Append(@, cmd)]
  BY DEF Send, Disconnect, AcceptorRest, managerVars, workVars, replyVars, supervisionVars,
         UnitVars
<1>2. ThreadsInv'
  <2>1. CASE cmds' = cmds
    BY <1>1, <2>1 DEF MsgInv, ThreadsInv
  <2>2. CASE cmds' = [cmds EXCEPT ![c] = Append(@, cmd)]
    <3>1. Append(cmds[c], cmd) \in Seq(Requests)
      BY DEF MsgInv, ThreadsInv
    <3> QED BY <1>1, <2>2, <3>1 DEF MsgInv, ThreadsInv
  <2> QED BY <1>1, <2>1, <2>2
<1>3. QueueInv' /\ EventsInv'
  BY <1>1 DEF MsgInv, QueueInv, EventsInv
<1> QED BY <1>1, <1>2, <1>3, UnitsSame, RestSame DEF MsgInv

LEMMA RelayKeeps ==
    ASSUME UnitsInv, MsgInv, NEW c \in Clients, Relay(c)
    PROVE  UnitsInv' /\ MsgInv'
<1>1. /\ UNCHANGED <<senders, outbox, todo, answering, subscriptions, thread,
                     jobs, eventQueue>>
      /\ UNCHANGED UnitVars /\ pc' = pc
      /\ cmds' = [cmds EXCEPT ![c] = Tail(@)]
      /\ queue' = Append(queue, IncomingCmd(c, Head(cmds[c])))
  BY DEF Relay, workVars, replyVars, supervisionVars, UnitVars
<1>2. /\ Head(cmds[c]) \in Requests /\ Tail(cmds[c]) \in Seq(Requests)
      /\ c \in senders
  BY DEF Relay, MsgInv, ThreadsInv
<1>3. ThreadsInv'
  BY <1>1, <1>2 DEF MsgInv, ThreadsInv
<1>4. QueueInv'
  <2>1. FineMsg(IncomingCmd(c, Head(cmds[c])), senders')
    BY <1>1, <1>2 DEF FineMsg, IncomingCmd
  <2> QED BY <1>1, <2>1, QueueMoves DEF MsgInv, Moves
<1>5. EventsInv'
  BY <1>1 DEF MsgInv, EventsInv
<1> QED BY <1>1, <1>3, <1>4, <1>5, UnitsSame, RestSame DEF MsgInv

LEMMA HangupKeeps ==
    ASSUME UnitsInv, MsgInv, NEW c \in Clients, Hangup(c)
    PROVE  UnitsInv' /\ MsgInv'
<1>1. /\ UNCHANGED <<senders, outbox, todo, answering, subscriptions, cmds, jobs, queue>>
      /\ UNCHANGED UnitVars /\ pc' = pc
      /\ thread' = [thread EXCEPT ![c] = "done"]
      /\ eventQueue' = Append(eventQueue, RemoveAllCmd(c))
  BY DEF Hangup, workVars, replyVars, supervisionVars, UnitVars
<1>2. ThreadsInv'
  BY <1>1 DEF MsgInv, ThreadsInv
<1>3. EventsInv'
  <2>1. FineCmd(RemoveAllCmd(c), senders')
    BY <1>1, RemoveIsFine
  <2> QED BY <1>1, <2>1, EventsMove DEF MsgInv, Moves
<1>4. QueueInv'
  BY <1>1 DEF MsgInv, QueueInv
<1> QED BY <1>1, <1>2, <1>3, <1>4, UnitsSame, RestSame DEF MsgInv

(***************************************************************************)
(* The rest of the daemon thread.                                          *)
(***************************************************************************)

LEMMA DeliverSends ==
    ASSUME NEW c, NEW response, Deliver(c, response)
    PROVE  Moves(eventQueue, eventQueue', RemoveAllCmd(c))
  BY DEF Deliver, Moves

LEMMA ReplyKeeps ==
    ASSUME UnitsInv, MsgInv, Reply
    PROVE  UnitsInv' /\ MsgInv'
<1>1. /\ UNCHANGED <<senders, outbox, todo, subscriptions, thread, cmds, jobs, queue>>
      /\ UNCHANGED UnitVars
      /\ pc' \in {"recv", "panicked"} /\ answering' = None
      /\ \E c : Moves(eventQueue, eventQueue', RemoveAllCmd(c))
  BY DeliverSends DEF Reply, Elsewhere, workVars, clientVars, UnitVars, Moves
<1>2. EventsInv'
  BY <1>1, RemoveIsFine, EventsMove DEF MsgInv
<1>3. AnswerInv'
  BY <1>1 DEF AnswerInv
<1>4. QueueInv'
  BY <1>1 DEF MsgInv, QueueInv
<1> QED BY <1>1, <1>2, <1>3, <1>4, UnitsSame, RestSame DEF MsgInv

LEMMA SubscriptionKeeps ==
    ASSUME UnitsInv, MsgInv, SendSubscription
    PROVE  UnitsInv' /\ MsgInv'
<1>1. /\ UNCHANGED <<senders, outbox, answering, subscriptions, thread, cmds, jobs, queue>>
      /\ UNCHANGED UnitVars /\ pc' = pc
      /\ todo # <<>> /\ todo' = Tail(todo)
      /\ eventQueue' = Append(eventQueue, Head(todo))
  BY DEF SendSubscription, Elsewhere, workVars, clientVars, UnitVars
<1>2. FineCmd(Head(todo), senders')
  BY <1>1, HeadIsElem DEF MsgInv, TodoInv, FineCmd
<1>3. EventsInv' /\ TodoInv'
  BY <1>1, <1>2, EventsMove, TodoMoves DEF MsgInv, Moves
<1>4. QueueInv'
  BY <1>1 DEF MsgInv, QueueInv
<1> QED BY <1>1, <1>3, <1>4, UnitsSame, RestSame DEF MsgInv

LEMMA WorkerKeeps ==
    ASSUME UnitsInv, MsgInv, SpawnWorker
    PROVE  UnitsInv' /\ MsgInv'
<1> DEFINE cmd == answering.response.to
<1>1. /\ UNCHANGED <<senders, outbox, answering, subscriptions, thread, cmds, queue, todo>>
      /\ UNCHANGED UnitVars /\ pc' = "reply"
      /\ \/ UNCHANGED jobs /\ eventQueue' = Append(eventQueue,
                                  JobEvent("InstallationFailed", cmd.unit_id, 0))
         \/ jobs' = Append(jobs, NewJob(cmd)) /\ UNCHANGED eventQueue
  BY DEF SpawnWorker, Spawned, clientVars, UnitVars
<1>2. cmd.unit_id \in Units
  BY RequestTypes DEF MsgInv, AnswerInv, SpawnWorker
<1>3. QueueInv'
  BY <1>1 DEF MsgInv, QueueInv
<1>4. EventsInv'
  <2>1. FineCmd(JobEvent("InstallationFailed", cmd.unit_id, 0), senders')
    BY <1>2 DEF FineCmd, JobEvent, DispatchCmd, Key, ServerEventType
  <2> QED BY <1>1, <2>1, EventsMove DEF MsgInv, Moves
<1>5. JobsInv'
  <2>1. CASE UNCHANGED jobs
    BY <2>1 DEF MsgInv, JobsInv
  <2>2. CASE jobs' = Append(jobs, NewJob(cmd))
    <3>1. PICK T : jobs \in Seq(T)
      BY DEF MsgInv, JobsInv, IsSeq
    <3>2. "unit" \in DOMAIN NewJob(cmd) /\ NewJob(cmd).unit \in Units
      <4>1. CASE cmd.kind = "InstallServer"
        BY <1>2, <4>1 DEF NewJob
      <4>2. CASE cmd.kind # "InstallServer"
        BY <1>2, <4>2 DEF NewJob
      <4> QED BY <4>1, <4>2
    <3>3. /\ Len(jobs') = Len(jobs) + 1 /\ Len(jobs) \in Nat
          /\ \A j \in 1 .. Len(jobs) : jobs'[j] = jobs[j]
          /\ jobs'[Len(jobs) + 1] = NewJob(cmd)
      <4>1. jobs \in Seq(T \cup {NewJob(cmd)})
        BY <3>1
      <4> HIDE DEF cmd
      <4> QED BY <2>2, <4>1
    <3>4. \A j \in 1 .. Len(jobs') : j \in 1 .. Len(jobs) \/ j = Len(jobs) + 1
      BY <3>3
    <3>5. IsSeq(jobs')
      BY <2>2, AppendIsSeq DEF MsgInv, JobsInv
    <3> QED BY <3>2, <3>3, <3>4, <3>5 DEF MsgInv, JobsInv
  <2> QED BY <1>1, <2>1, <2>2
<1> QED BY <1>1, <1>3, <1>4, <1>5, UnitsSame, RestSame DEF MsgInv

LEMMA HandOutKeeps ==
    ASSUME UnitsInv, MsgInv, HandOut
    PROVE  UnitsInv' /\ MsgInv'
<1>1. /\ UNCHANGED <<senders, outbox, answering, subscriptions, thread, cmds, jobs, todo>>
      /\ UNCHANGED UnitVars
      /\ pc' \in {pc, "panicked"}
      /\ queue # <<>> /\ queue' = Tail(queue)
      /\ \E c : Moves(eventQueue, eventQueue', RemoveAllCmd(c))
  BY DeliverSends DEF HandOut, Elsewhere, workVars, clientVars, UnitVars, Moves
<1>2. PICK c : Moves(eventQueue, eventQueue', RemoveAllCmd(c))
  BY <1>1
<1>3. FineCmd(RemoveAllCmd(c), senders) /\ FineMsg(DaemonStopped, senders)
  BY RemoveIsFine, StoppedIsFine
<1>4. Moves(queue, queue', DaemonStopped)
  BY <1>1 DEF Moves
<1>5. MsgInv'
  BY <1>1, <1>2, <1>3, <1>4, MsgMoves
<1> QED BY <1>1, <1>5, UnitsSame

LEMMA TakeUnitKeeps ==
    ASSUME UnitsInv, MsgInv, TakeUnit
    PROVE  UnitsInv' /\ MsgInv'
<1>1. /\ UNCHANGED <<senders, outbox, answering, subscriptions, thread, cmds, jobs, todo,
                     eventQueue>>
      /\ queue # <<>> /\ queue' = Tail(queue) /\ pc' = pc
      /\ AddServerUnit(Head(queue).unit_id)
      /\ Head(queue).kind = "AddServerUnit"
  BY DEF TakeUnit, AddServerUnit, clientVars, replyVars
<1>2. Head(queue).unit_id \in Units
  BY <1>1, HeadIsElem DEF MsgInv, QueueInv, FineMsg
<1>3. /\ Moves(queue, queue', DaemonStopped)
      /\ \A c : Moves(eventQueue, eventQueue', RemoveAllCmd(c))
  BY <1>1 DEF Moves
<1> QED BY <1>1, <1>2, <1>3, AddServerUnitKeeps, MsgMoves, StoppedIsFine, RemoveIsFine

LEMMA EndKeeps ==
    ASSUME UnitsInv, MsgInv, TakeStopDaemon \/ Broadcast \/ ExitDaemon
    PROVE  UnitsInv' /\ MsgInv'
<1>1. /\ UNCHANGED <<senders, outbox, answering, subscriptions, thread, cmds, jobs, todo,
                     eventQueue>>
      /\ (queue # <<>> /\ queue' = Tail(queue)) \/ UNCHANGED queue
      /\ pc' # "spawn"
      /\ BeginSweep \/ (UNCHANGED UnitVars /\ pc' \in {"closing", "exited"})
  BY DEF TakeStopDaemon, Broadcast, ExitDaemon, BeginSweep, Rest, Elsewhere, workVars,
         clientVars, UnitVars
<1>2. /\ Moves(queue, queue', DaemonStopped)
      /\ \A c : Moves(eventQueue, eventQueue', RemoveAllCmd(c))
  BY <1>1 DEF Moves
<1> QED BY <1>1, <1>2, BeginSweepKeeps, UnitsSame, MsgMoves, StoppedIsFine, RemoveIsFine

LEMMA OfUnitsKeep ==
    ASSUME UnitsInv, MsgInv, OfUnits
    PROVE  UnitsInv' /\ MsgInv'
<1>1. /\ UNCHANGED <<senders, outbox, answering, subscriptions, thread, cmds, jobs, todo>>
      /\ Autostart \/ StartThread \/ WriteStop \/ Sweep
  BY DEF OfUnits, workVars, clientVars, replyVars
<1>2. UNCHANGED eventQueue /\ Moves(queue, queue', DaemonStopped) /\ pc' # "spawn"
  <2>1. CASE Autostart
    BY <2>1 DEF Autostart, Spawn, Dies, Moves
  <2>2. CASE StartThread
    BY <2>2 DEF StartThread, Moves
  <2>3. CASE WriteStop
    BY <2>3 DEF WriteStop, Panic, Dies, Moves
  <2>4. CASE Sweep
    BY <2>4 DEF Sweep, Visit, HasStarted, Wait, EndSweep, Moves
  <2> QED BY <1>1, <2>1, <2>2, <2>3, <2>4
<1>3. \A c : Moves(eventQueue, eventQueue', RemoveAllCmd(c))
  BY <1>2 DEF Moves
<1> QED BY <1>1, <1>2, <1>3, OfUnitsKeeps, MsgMoves, StoppedIsFine, RemoveIsFine

(***************************************************************************)
(* The event manager.                                                      *)
(***************************************************************************)

LEMMA SendEventFields ==
    ASSUME NEW c, NEW e
    PROVE  SendEvent(c, e).kind = "SendEvent" /\ SendEvent(c, e).client_id = c
  BY DEF SendEvent

LEMMA DispatchOutbox ==
    ASSUME EventsInv, SubscriptionsInv, DispatchEvent, senders' = senders
    PROVE  OutboxInv'
<1> DEFINE e == Head(eventQueue).event
           subs == subscriptions[<<e.server_id, e.type>>]
           R == {outbox'[i] : i \in 1 .. Len(subs)}
<1>1. /\ eventQueue # <<>> /\ Head(eventQueue).kind = "DispatchEvent"
      /\ outbox' = [i \in 1 .. Len(subs) |-> SendEvent(subs[i], e)]
  BY DEF DispatchEvent, Received
<1>2. <<e.server_id, e.type>> \in Key
  BY <1>1, HeadIsElem DEF EventsInv, FineCmd
<1>3. IsSeq(subs) /\ Elems(subs) \subseteq senders
  BY <1>2 DEF SubscriptionsInv
<1>4. Len(subs) \in Nat
  BY <1>3 DEF IsSeq
<1> HIDE DEF subs, e
<1>5. \A i \in 1 .. Len(subs) : /\ outbox'[i] = SendEvent(subs[i], e)
                                /\ subs[i] \in senders
  BY <1>1, <1>3 DEF Elems
<1>6. \A i \in 1 .. Len(subs) : /\ outbox'[i].kind = "SendEvent"
                                /\ outbox'[i].client_id \in senders
  BY <1>5, SendEventFields
<1>7. outbox' \in Seq(R) /\ Len(outbox') = Len(subs)
  BY <1>1, <1>4
<1> QED BY <1>6, <1>7 DEF OutboxInv, IsSeq, Elems

LEMMA SubscriptionsChange ==
    ASSUME SubscriptionsInv, EventsInv, senders' = senders,
           AddSubscription \/ RemoveSubscription \/ RemoveAllSubscriptions
    PROVE  SubscriptionsInv'
<1>1. ASSUME NEW key, NEW ids,
             subscriptions' = [subscriptions EXCEPT ![key] = ids],
             key \in Key => IsSeq(ids) /\ Elems(ids) \subseteq senders
      PROVE  SubscriptionsInv'
  <2>1. subscriptions' = [k \in Key |-> subscriptions'[k]]
    BY <1>1 DEF SubscriptionsInv
  <2>2. \A k \in Key : subscriptions'[k] = IF k = key THEN ids ELSE subscriptions[k]
    BY <1>1 DEF SubscriptionsInv
  <2> QED BY <1>1, <2>1, <2>2 DEF SubscriptionsInv
<1> DEFINE cmd == Head(eventQueue)
           key == <<cmd.server_id, cmd.event_type>>
<1>2. CASE AddSubscription
  <2>1. /\ eventQueue # <<>> /\ cmd.kind = "AddSubscription"
        /\ subscriptions' =
               [subscriptions EXCEPT ![key] = Append(subscriptions[key], cmd.client_id)]
    BY <1>2 DEF AddSubscription, Received
  <2>2. cmd.client_id \in senders
    BY <2>1, HeadIsElem DEF EventsInv, FineCmd
  <2>3. key \in Key => /\ IsSeq(Append(subscriptions[key], cmd.client_id))
                       /\ Elems(Append(subscriptions[key], cmd.client_id)) \subseteq senders
    BY <2>2, AppendIsSeq DEF SubscriptionsInv
  <2> HIDE DEF key, cmd
  <2> QED BY <1>1, <2>1, <2>3
<1>3. CASE RemoveSubscription
  <2>1. subscriptions' =
               [subscriptions EXCEPT ![key] = Retain(subscriptions[key], cmd.client_id)]
    BY <1>3 DEF RemoveSubscription
  <2>2. key \in Key => /\ IsSeq(Retain(subscriptions[key], cmd.client_id))
                       /\ Elems(Retain(subscriptions[key], cmd.client_id)) \subseteq senders
    BY RetainIsSeq DEF SubscriptionsInv
  <2> HIDE DEF key, cmd
  <2> QED BY <1>1, <2>1, <2>2
<1>4. CASE RemoveAllSubscriptions
  <2>1. subscriptions' = [k \in Key |-> Retain(subscriptions[k], cmd.client_id)]
    BY <1>4 DEF RemoveAllSubscriptions
  <2>2. \A k \in Key : /\ IsSeq(Retain(subscriptions[k], cmd.client_id))
                       /\ Elems(Retain(subscriptions[k], cmd.client_id)) \subseteq senders
    BY RetainIsSeq DEF SubscriptionsInv
  <2> HIDE DEF cmd
  <2>3. /\ subscriptions' = [k \in Key |-> subscriptions'[k]]
        /\ \A k \in Key : subscriptions'[k] = Retain(subscriptions[k], cmd.client_id)
    BY <2>1
  <2> QED BY <2>2, <2>3 DEF SubscriptionsInv
<1> QED BY <1>2, <1>3, <1>4

LEMMA ManagerKeeps ==
    ASSUME UnitsInv, MsgInv, Manager
    PROVE  UnitsInv' /\ MsgInv'
<1>1. /\ ManagerNext
      /\ UNCHANGED <<senders, answering, thread, cmds, jobs, todo>>
      /\ UNCHANGED UnitVars /\ pc' = pc
  BY DEF Manager, workVars, clientVars, replyVars, supervisionVars, UnitVars
<1>2. CASE DispatchEvent
  <2>1. /\ eventQueue # <<>> /\ eventQueue' = Tail(eventQueue)
        /\ UNCHANGED <<subscriptions, queue>>
    BY <1>2 DEF DispatchEvent, Received
  <2>2. EventsInv' /\ QueueInv'
    BY <1>1, <2>1, TailIsSeq DEF MsgInv, EventsInv, QueueInv
  <2>3. OutboxInv'
    BY <1>1, <1>2, DispatchOutbox DEF MsgInv
  <2> QED BY <1>1, <2>1, <2>2, <2>3, RestSame, UnitsSame DEF MsgInv
<1>3. CASE Forward
  <2>1. /\ outbox # <<>> /\ outbox' = Tail(outbox)
        /\ queue' = Append(queue, Head(outbox))
        /\ UNCHANGED <<subscriptions, eventQueue>>
    BY <1>3 DEF Forward
  <2>2. FineMsg(Head(outbox), senders')
    BY <1>1, <2>1, HeadIsElem DEF MsgInv, OutboxInv, FineMsg
  <2>3. QueueInv'
    BY <1>1, <2>1, <2>2, QueueMoves DEF MsgInv, Moves
  <2>4. EventsInv'
    BY <1>1, <2>1 DEF MsgInv, EventsInv
  <2>5. OutboxInv'
    BY <1>1, <2>1, OutboxMoves DEF MsgInv
  <2> QED BY <1>1, <2>1, <2>3, <2>4, <2>5, RestSame, UnitsSame DEF MsgInv
<1>4. CASE AddSubscription \/ RemoveSubscription \/ RemoveAllSubscriptions
  <2>1. /\ eventQueue # <<>> /\ eventQueue' = Tail(eventQueue)
        /\ UNCHANGED <<outbox, queue>>
    BY <1>4 DEF AddSubscription, RemoveSubscription, RemoveAllSubscriptions, Received
  <2>2. EventsInv' /\ QueueInv'
    BY <1>1, <2>1, TailIsSeq DEF MsgInv, EventsInv, QueueInv
  <2>3. SubscriptionsInv'
    BY <1>1, <1>4, SubscriptionsChange DEF MsgInv
  <2> QED BY <1>1, <2>1, <2>2, <2>3, RestSame, UnitsSame DEF MsgInv
<1> QED BY <1>1, <1>2, <1>3, <1>4 DEF ManagerNext

(***************************************************************************)
(* Servers and workers.                                                    *)
(***************************************************************************)

LEMMA ServersSend ==
    ASSUME UnitsInv, MsgInv, OfServers(ProcessNext) \/ OfServers(LogNext)
    PROVE  UnitsInv' /\ MsgInv'
<1>1. /\ UNCHANGED <<senders, outbox, answering, subscriptions, thread, cmds, jobs, todo, pc>>
      /\ UNCHANGED supervisionVars
      /\ ProcessNext \/ LogNext
  BY DEF OfServers, workVars, clientVars, replyVars, supervisionVars
<1>2. UNCHANGED queue /\ \E x : FineCmd(x, senders) /\ Moves(eventQueue, eventQueue', x)
  <2>1. CASE ProcessNext
    <3>1. UNCHANGED <<eventQueue, queue>>
      BY <2>1 DEF ProcessNext, Load, Run, Refuse, BeginStop, CloseDown, Exit, Echo, Prints
    <3> QED BY <3>1, RemoveIsFine DEF Moves
  <2>2. ASSUME NEW p \in Pids, ReadLine(p)
        PROVE  UNCHANGED <<eventQueue, queue>>
    BY <2>2 DEF ReadLine
  <2>3. ASSUME NEW p \in Pids, RaiseEvent(p)
        PROVE  UNCHANGED queue
               /\ \E x : FineCmd(x, senders) /\ Moves(eventQueue, eventQueue', x)
    <3> DEFINE e == [type |-> raising[p], server_id |-> unit[p], body |-> p]
    <3>1. raising[p] \in ServerEventType /\ unit[p] \in Units
      BY <2>3 DEF RaiseEvent, UnitsInv, UnitTypes, ProcessTypeOK, SupervisionTypeOK, BornInv
    <3>2. FineCmd(DispatchCmd(e), senders)
      BY <3>1 DEF FineCmd, DispatchCmd, Key
    <3>3. UNCHANGED queue /\ eventQueue' = Append(eventQueue, DispatchCmd(e))
      BY <2>3 DEF RaiseEvent
    <3> QED BY <3>2, <3>3 DEF Moves
  <2>4. ASSUME NEW p \in Pids, EndLog(p)
        PROVE  UNCHANGED <<eventQueue, queue>>
    BY <2>4 DEF EndLog
  <2>5. CASE LogNext
    BY <2>2, <2>3, <2>4, <2>5, RemoveIsFine DEF LogNext, Moves
  <2> QED BY <1>1, <2>1, <2>5
<1>3. Moves(queue, queue', DaemonStopped) /\ FineMsg(DaemonStopped, senders)
  BY <1>2, StoppedIsFine DEF Moves
<1>4. MsgInv'
  BY <1>1, <1>2, <1>3, MsgMoves
<1> QED BY <1>1, <1>4, ServersKeep

\* What workers send: no subscription, and nothing addressed to a client.
WorkerCommand(x) == FineCmd(x, senders) /\ x.kind # "AddSubscription"
WorkerMessage(m) == FineMsg(m, senders) /\ m.kind # "SendEvent"

\* What a step of job j does to the messages and to the jobs.
JobRow(j) ==
    /\ \E r : /\ jobs' = [jobs EXCEPT ![j] = r]
              /\ "unit" \in DOMAIN r /\ r.unit = jobs[j].unit
    /\ \E x : WorkerCommand(x) /\ Moves(eventQueue, eventQueue', x)
    /\ \E m : WorkerMessage(m) /\ Moves(queue, queue', m)

LEMMA GoesToRow ==
    ASSUME JobsInv, NEW j \in DOMAIN jobs, NEW step, GoesTo(j, step)
    PROVE  \E r : /\ jobs' = [jobs EXCEPT ![j] = r]
                  /\ "unit" \in DOMAIN r /\ r.unit = jobs[j].unit
<1> DEFINE r == [jobs[j] EXCEPT !.at = step]
<1>1. jobs' = [jobs EXCEPT ![j] = r]
  BY DEF GoesTo
<1>2. "unit" \in DOMAIN jobs[j]
  BY DEF JobsInv, IsSeq
<1>3. "unit" \in DOMAIN r /\ r.unit = jobs[j].unit
  BY <1>2
<1> QED BY <1>1, <1>3

LEMMA IdleIsWorker == WorkerCommand(RemoveAllCmd(None)) /\ WorkerMessage(DaemonStopped)
<1>1. RemoveAllCmd(None).kind # "AddSubscription" /\ DaemonStopped.kind # "SendEvent"
  BY DEF RemoveAllCmd, DaemonStopped
<1> QED BY <1>1, RemoveIsFine, StoppedIsFine DEF WorkerCommand, WorkerMessage

LEMMA QuietRow ==
    ASSUME UNCHANGED <<eventQueue, queue>>
    PROVE  /\ \E x : WorkerCommand(x) /\ Moves(eventQueue, eventQueue', x)
           /\ \E m : WorkerMessage(m) /\ Moves(queue, queue', m)
  BY IdleIsWorker DEF Moves

LEMMA RaisesRow ==
    ASSUME JobsInv, NEW j \in DOMAIN jobs, NEW type \in ServerEventType, Raises(j, type)
    PROVE  \E x : WorkerCommand(x) /\ Moves(eventQueue, eventQueue', x)
<1>1. jobs[j].unit \in Units
  BY DEF JobsInv, IsSeq
<1>2. WorkerCommand(JobEvent(type, jobs[j].unit, j))
  BY <1>1 DEF WorkerCommand, FineCmd, JobEvent, DispatchCmd, Key
<1> QED BY <1>2 DEF Raises, Moves

LEMMA FailsRow ==
    ASSUME JobsInv, NEW j \in DOMAIN jobs, Fails(j) \/ Panics(j)
    PROVE  JobRow(j)
  BY GoesToRow, QuietRow DEF Fails, Panics, Nothing, JobRow

LEMMA ReportsRow ==
    ASSUME JobsInv, NEW j \in DOMAIN jobs, NEW next, Reports(j, next)
    PROVE  JobRow(j)
<1>1. "ActionProgress" \in ServerEventType
  BY DEF ServerEventType
<1>2. GoesTo(j, next) /\ Raises(j, "ActionProgress") /\ UNCHANGED queue
  BY DEF Reports
<1>3. \E m : WorkerMessage(m) /\ Moves(queue, queue', m)
  BY <1>2, IdleIsWorker DEF Moves
<1> QED BY <1>1, <1>2, <1>3, GoesToRow, RaisesRow DEF JobRow

LEMMA QuietStepRow ==
    ASSUME JobsInv, NEW j \in DOMAIN jobs, NEW step,
           GoesTo(j, step), UNCHANGED <<eventQueue, queue>>
    PROVE  JobRow(j)
  BY GoesToRow, QuietRow DEF JobRow

LEMMA LookupRow ==
    ASSUME JobsInv, NEW j \in DOMAIN jobs, Lookup(j)
    PROVE  JobRow(j)
<1>1. CASE Fails(j) \/ Panics(j)
  BY <1>1, FailsRow
<1>2. CASE ~(Fails(j) \/ Panics(j))
  <2> DEFINE r == [jobs[j] EXCEPT !.target = Artifact(j), !.at = "download"]
  <2>1. /\ jobs' = [jobs EXCEPT ![j].target = Artifact(j), ![j].at = "download"]
        /\ UNCHANGED queue
        /\ Raises(j, "ActionProgress") \/ UNCHANGED eventQueue
    BY <1>2 DEF Lookup
  <2>2. "unit" \in DOMAIN jobs[j] /\ DOMAIN jobs = 1 .. Len(jobs)
    BY DEF JobsInv, IsSeq
  <2>3. jobs' = [jobs EXCEPT ![j] = r]
    BY <2>1, <2>2
  <2>4. "unit" \in DOMAIN r /\ r.unit = jobs[j].unit
    BY <2>2
  <2>5. \E x : WorkerCommand(x) /\ Moves(eventQueue, eventQueue', x)
    BY <2>1, RaisesRow, IdleIsWorker DEF Moves, ServerEventType
  <2>6. \E m : WorkerMessage(m) /\ Moves(queue, queue', m)
    BY <2>1, IdleIsWorker DEF Moves
  <2> QED BY <2>3, <2>4, <2>5, <2>6 DEF JobRow
<1> QED BY <1>1, <1>2

LEMMA HandOverRow ==
    ASSUME JobsInv, NEW j \in DOMAIN jobs, SendAdd(j) \/ SayHowItEnded(j)
    PROVE  JobRow(j)
<1>1. jobs[j].unit \in Units
  BY DEF JobsInv, IsSeq
<1>2. CASE SendAdd(j)
  <2> DEFINE m == AddServerUnitEvent(jobs[j].unit, Result(j))
  <2>1. GoesTo(j, "complete") /\ UNCHANGED eventQueue /\ queue' = Append(queue, m)
    BY <1>2 DEF SendAdd
  <2>2. WorkerMessage(m)
    BY <1>1 DEF WorkerMessage, FineMsg, AddServerUnitEvent
  <2> QED BY <2>1, <2>2, GoesToRow, IdleIsWorker DEF JobRow, Moves
<1>3. CASE SayHowItEnded(j)
  <2>1. CompleteEvent(j) \in ServerEventType /\ FailedEvent(j) \in ServerEventType
    BY DEF CompleteEvent, FailedEvent, ServerEventType
  <2>2. /\ UNCHANGED queue
        /\ \/ Raises(j, CompleteEvent(j)) /\ GoesTo(j, "done")
           \/ Raises(j, FailedEvent(j)) /\ GoesTo(j, "failed")
    BY <1>3 DEF SayHowItEnded
  <2> QED BY <2>1, <2>2, GoesToRow, RaisesRow, IdleIsWorker DEF JobRow, Moves
<1> QED BY <1>2, <1>3

LEMMA JobStepRow ==
    ASSUME JobsInv, NEW j \in DOMAIN jobs, JobStep(j)
    PROVE  JobRow(j)
<1>1. CASE Look(j) \/ SayProgress(j) \/ CheckForUpdate(j)
  BY <1>1, FailsRow, ReportsRow DEF Look, SayProgress, CheckForUpdate
<1>2. CASE MakeDir(j) \/ AcceptEula(j) \/ CopyJar(j)
  BY <1>2, FailsRow, QuietStepRow DEF MakeDir, AcceptEula, CopyJar
<1>3. CASE OpenJar(j)
  BY <1>3, FailsRow, QuietStepRow DEF OpenJar
<1>4. CASE Patch(j)
  BY <1>4, FailsRow, QuietStepRow DEF Patch, Nothing
<1>5. CASE TruncateUnitFile(j) \/ FillUnitFile(j)
  BY <1>5, FailsRow, QuietStepRow DEF TruncateUnitFile, FillUnitFile
<1> QED BY <1>1, <1>2, <1>3, <1>4, <1>5, LookupRow, HandOverRow DEF JobStep

LEMMA JobKeeps ==
    ASSUME UnitsInv, MsgInv, NEW j, OfJob(j)
    PROVE  UnitsInv' /\ MsgInv'
<1>1. /\ j \in DOMAIN jobs /\ JobStep(j)
      /\ UNCHANGED <<senders, outbox, answering, subscriptions, thread, cmds, todo>>
      /\ UNCHANGED UnitVars /\ pc' = pc
  BY DEF OfJob, clientVars, replyVars, supervisionVars, UnitVars
<1>2. JobRow(j)
  BY <1>1, JobStepRow DEF MsgInv
<1>3. QueueInv' /\ EventsInv'
  BY <1>1, <1>2, QueueMoves, EventsMove DEF JobRow, WorkerCommand, WorkerMessage, MsgInv
<1>4. JobsInv'
  <2>1. PICK r : /\ jobs' = [jobs EXCEPT ![j] = r]
                 /\ "unit" \in DOMAIN r /\ r.unit = jobs[j].unit
    BY <1>2 DEF JobRow
  <2>2. PICK T : jobs \in Seq(T)
    BY DEF MsgInv, JobsInv, IsSeq
  <2>3. jobs' \in Seq(T \cup {r}) /\ Len(jobs') = Len(jobs)
    <3>1. jobs' = [i \in 1 .. Len(jobs) |-> IF i = j THEN r ELSE jobs[i]]
      <4>1. jobs' = [jobs EXCEPT ![j] = r]
        BY <2>1
      <4>2. DOMAIN jobs = 1 .. Len(jobs)
        BY <2>2
      <4> QED BY <4>1, <4>2
    <3>2. Len(jobs) \in Nat /\ \A i \in 1 .. Len(jobs) : jobs[i] \in T
      BY <2>2
    <3> QED BY <3>1, <3>2
  <2>4. \A i \in 1 .. Len(jobs) : jobs'[i] = IF i = j THEN r ELSE jobs[i]
    BY <1>1, <2>1, <2>2
  <2>5. \A i \in 1 .. Len(jobs) : "unit" \in DOMAIN jobs[i] /\ jobs[i].unit \in Units
    BY DEF MsgInv, JobsInv
  <2>6. \A i \in 1 .. Len(jobs) : "unit" \in DOMAIN jobs'[i] /\ jobs'[i].unit \in Units
    BY <2>1, <2>4, <2>5
  <2> QED BY <2>3, <2>6 DEF JobsInv, IsSeq
<1> QED BY <1>1, <1>3, <1>4, UnitsSame, RestSame DEF MsgInv

(***************************************************************************)
(* The theorems.                                                           *)
(***************************************************************************)

LEMMA InitKeeps ==
    ASSUME Init
    PROVE  UnitsInv /\ MsgInv
<1>1. PICK list \in AutostartLists : SupervisionInit(Known, list)
  BY DEF Init
<1>2. UnitTypes
  BY <1>1, InitTypes, DaemonAssumption DEF DaemonAssumption, Init
<1>3. BornInv
  BY DEF Init, ProcessInit, BornInv
<1>4. TargetInv
  BY <1>1 DEF SupervisionInit, TargetInv
<1>5. QueueInv /\ EventsInv /\ OutboxInv /\ TodoInv
  BY EmptyIsSeq DEF Init, ManagerInit, QueueInv, EventsInv, OutboxInv, TodoInv
<1>6. AnswerInv
  BY <1>1 DEF Init, AnswerInv, SupervisionInit
<1>7. SubscriptionsInv
  <2>1. \A k \in Key : subscriptions[k] = <<>>
    BY DEF Init, ManagerInit
  <2>2. subscriptions = [k \in Key |-> subscriptions[k]]
    BY DEF Init, ManagerInit
  <2> QED BY <2>1, <2>2, EmptyIsSeq DEF SubscriptionsInv
<1>8. ThreadsInv
  <2>1. <<>> \in Seq(Requests)
    OBVIOUS
  <2> QED BY <2>1 DEF Init, ThreadsInv
<1>9. JobsInv
  BY EmptyIsSeq DEF Init, WorkersInit, JobsInv
<1> QED BY <1>2, <1>3, <1>4, <1>5, <1>6, <1>7, <1>8, <1>9 DEF UnitsInv, MsgInv

LEMMA NextKeeps ==
    ASSUME UnitsInv, MsgInv, Next
    PROVE  UnitsInv' /\ MsgInv'
<1>1. CASE Threads
  <2>1. CASE DaemonThread
    BY <2>1, CommandsKeep, OfUnitsKeep, SubscriptionKeeps, WorkerKeeps, ReplyKeeps,
       HandOutKeeps, TakeUnitKeeps, EndKeeps DEF DaemonThread
  <2>2. CASE \E c \in Clients : Relay(c) \/ Hangup(c)
    BY <2>2, RelayKeeps, HangupKeeps
  <2>3. CASE \E j \in 1 .. MaxJobs : OfJob(j)
    BY <2>3, JobKeeps
  <2> QED
    BY <1>1, <2>1, <2>2, <2>3, AcceptorKeeps, ManagerKeeps, ServersSend DEF Threads
<1>2. CASE \E c \in Clients, cmd \in Requests : Send(c, cmd)
  BY <1>2, ClientKeeps
<1>3. CASE \E c \in Leavers : Disconnect(c)
  <2>1. PICK c \in Leavers : Disconnect(c)
    BY <1>3
  <2>2. c \in Clients
    BY <2>1, DaemonAssumption DEF DaemonAssumption
  <2>3. /\ UNCHANGED <<senders, outbox, todo, answering, subscriptions, thread, cmds,
                       jobs, queue, eventQueue>>
        /\ UNCHANGED UnitVars /\ pc' = pc
    BY <2>1 DEF Disconnect, AcceptorRest, managerVars, workVars, replyVars,
                supervisionVars, UnitVars
  <2> QED BY <2>3, MsgSame, UnitsSame
<1> QED BY <1>1, <1>2, <1>3 DEF Next

LEMMA StutterKeeps ==
    ASSUME UnitsInv, MsgInv, UNCHANGED daemonVars
    PROVE  UnitsInv' /\ MsgInv'
<1>1. /\ UNCHANGED <<senders, outbox, todo, answering, subscriptions, thread, cmds,
                     jobs, queue, eventQueue>>
      /\ UNCHANGED UnitVars /\ pc' = pc
  BY DEF daemonVars, managerVars, supervisionVars, workVars, clientVars, replyVars, UnitVars
<1> QED BY <1>1, MsgSame, UnitsSame

\* Both parts hold together: an id is registered before its thread relays, and
\* the event a log thread raises is of a unit that the daemon started.
THEOREM DaemonInv == Spec => [](UnitsInv /\ MsgInv)
<1>1. Init => UnitsInv /\ MsgInv
  BY InitKeeps
<1>2. UnitsInv /\ MsgInv /\ [Next]_daemonVars => (UnitsInv /\ MsgInv)'
  BY NextKeeps, StutterKeeps
<1> QED BY <1>1, <1>2, PTL DEF Spec

\* Whatever commands, jobs and new units come in between, the units and processes
\* keep their types, and the unit that stop() writes to, that has_started() polls
\* and those the sweep has still to visit are units of the daemon.
THEOREM TargetsAreUnits == Spec => [](ProcessTypeOK /\ SupervisionTypeOK /\ TargetInv)
<1>1. UnitsInv => ProcessTypeOK /\ SupervisionTypeOK /\ TargetInv
  BY DEF UnitsInv, UnitTypes
<1> QED BY <1>1, DaemonInv, PTL

\* Whoever a command, a subscription or an event on its way is for has its
\* sender in the map: the two unwraps of the daemon thread (mcmand.rs, the
\* answer and SendEvent) never fail.
THEOREM TargetsAreRegistered == Spec => []RegisteredTargets
<1>1. MsgInv => RegisteredTargets
  <2> SUFFICES ASSUME MsgInv PROVE RegisteredTargets
    OBVIOUS
  <2>1. \A i \in 1 .. Len(queue) :
            /\ queue[i].kind = "IncomingCmd" => queue[i].id \in senders
            /\ queue[i].kind = "SendEvent" => queue[i].client_id \in senders
    BY DEF MsgInv, QueueInv, Elems, FineMsg
  <2>2. answering # None => answering.client_id \in senders
    BY DEF MsgInv, AnswerInv
  <2>3. \A i \in 1 .. Len(outbox) : outbox[i].client_id \in senders
    BY DEF MsgInv, OutboxInv, Elems
  <2>4. \A i \in 1 .. Len(todo) : todo[i].client_id \in senders
    BY DEF MsgInv, TodoInv, Elems
  <2>5. \A i \in 1 .. Len(eventQueue) :
            eventQueue[i].kind = "AddSubscription" => eventQueue[i].client_id \in senders
    BY DEF MsgInv, EventsInv, Elems, FineCmd
  <2>6. ASSUME NEW k \in Key
        PROVE  Range(subscriptions[k]) \subseteq senders
    <3>1. PICK T : subscriptions[k] \in Seq(T)
      BY DEF MsgInv, SubscriptionsInv, IsSeq
    <3>2. DOMAIN subscriptions[k] = 1 .. Len(subscriptions[k])
      BY <3>1
    <3> QED BY <3>2 DEF Range, MsgInv, SubscriptionsInv, Elems
  <2> QED BY <2>1, <2>2, <2>3, <2>4, <2>5, <2>6 DEF RegisteredTargets
<1> QED BY <1>1, DaemonInv, PTL
=============================================================================
