--------------------------- MODULE DaemonOrderProofs ---------------------------
(***************************************************************************)
(* What the daemon sends to its clients, for any clients, units, commands  *)
(* and jobs: no client is sent an event before the Ok of the command that  *)
(* subscribed it to that event; everything that the threads keep and send  *)
(* has its type; the commands of a client are answered in order, each      *)
(* once; and no list tells less than the events sent before it.            *)
(*                                                                         *)
(* Events.  The subscription is made before the Ok is sent, and the event  *)
(* takes a way of its own through the event manager.  What keeps the order *)
(* is that the daemon thread takes nothing from its queue while an answer  *)
(* is in preparation.  The invariant says so of everything on the way that *)
(* may become an event to a client: the Ok is in the client's inbox, or it *)
(* is the answer in preparation, or the client is gone.                    *)
(*                                                                         *)
(* Answers.  What a client has sent is cut in four: answered, in hand, in  *)
(* the daemon's queue, not read by its thread.  The daemon's queue also    *)
(* carries what others send, and the inbox events, so a command stands in  *)
(* them at a place counted among its client's.  A step moves one command   *)
(* over one of the three borders, and no more than one is in hand.         *)
(*                                                                         *)
(* Lists.  SupervisionProofs says how far the output of a process has come *)
(* when an event is raised from it, and that it stays that far; so what    *)
(* every event on its way tells is true until it arrives, and after.  A    *)
(* list looks at the same output later.                                    *)
(***************************************************************************)
EXTENDS DaemonProofs

\* An Ok of a command that subscribes to the event.
Oks(m, e) == m.kind = "Answer" /\ m.response = "Ok" /\ SubscribesTo(m.to, e)
EventAt(u, t) == [server_id |-> u, type |-> t]

Told(c, u, t) == \E j \in 1 .. Len(inbox[c]) : Oks(inbox[c][j], EventAt(u, t))

\* The daemon thread is between a command and its answer.
Preparing == pc \in {"reply", "spawn"} \/ (pc = "write" /\ ~sweeping)
InPreparation(c, u, t) ==
    /\ Preparing
    /\ answering.client_id = c
    /\ Oks(answering.response, EventAt(u, t))

Granted(c, u, t) == Told(c, u, t) \/ InPreparation(c, u, t) \/ c \notin connected

GrantedMsg(m) ==
    m.kind = "SendEvent" => Granted(m.client_id, m.event.server_id, m.event.type)
GrantedCmd(x) ==
    x.kind = "AddSubscription" => Granted(x.client_id, x.server_id, x.event_type)

Grants ==
    /\ \A m \in Elems(queue) : GrantedMsg(m)
    /\ \A m \in Elems(outbox) : GrantedMsg(m)
    /\ \A x \in Elems(eventQueue) : GrantedCmd(x)
    /\ \A x \in Elems(todo) : GrantedCmd(x)
    /\ \A k \in Key : \A c \in Elems(subscriptions[k]) : Granted(c, k[1], k[2])

\* What a client has been sent only grows once it is registered: the acceptor
\* writes to the inbox of the client it has greeted, whose id is new.
BoxInv == DOMAIN inbox = Clients /\ \A c \in Clients : IsSeq(inbox[c])
CountInv ==
    /\ counter \in Nat
    /\ senders \subseteq Clients
    /\ \A c \in senders : c < counter
    /\ main = "greeted" => counter \in Clients
FlagInv ==
    /\ pc \in {"autostart", "recv", "reply", "spawn"} => ~sweeping
    /\ pc \in {"sweep", "starting", "wait"} => sweeping
    /\ Preparing => answering.response.kind = "Answer"

OrderInv == BoxInv /\ CountInv /\ FlagInv /\ EventsFollowTheirOk /\ (Up => Grants)

(***************************************************************************)
(* Inboxes.                                                                *)
(***************************************************************************)

Follows(s) ==
    \A i \in 1 .. Len(s) :
        s[i].kind = "ServerEvent" => \E j \in 1 .. i - 1 : Oks(s[j], s[i].event)

LEMMA FollowsEach == EventsFollowTheirOk <=> \A c \in Clients : Follows(inbox[c])
  BY DEF EventsFollowTheirOk, Follows, Oks

LEMMA SameEvent ==
    ASSUME NEW m, NEW e
    PROVE  Oks(m, e) <=> Oks(m, EventAt(e.server_id, e.type))
  BY DEF Oks, SubscribesTo, EventAt

LEMMA AppendEntries ==
    ASSUME NEW s, IsSeq(s), NEW x
    PROVE  /\ Len(s) \in Nat /\ Len(Append(s, x)) = Len(s) + 1
           /\ \A i \in 1 .. Len(s) : i \in 1 .. Len(s) + 1 /\ Append(s, x)[i] = s[i]
           /\ Append(s, x)[Len(s) + 1] = x
           /\ \A i \in 1 .. Len(s) + 1 : i \in 1 .. Len(s) \/ i = Len(s) + 1
<1>1. PICK T : s \in Seq(T)
  BY DEF IsSeq
<1>2. s \in Seq(T \cup {x})
  BY <1>1
<1>3. /\ Len(s) \in Nat /\ Len(Append(s, x)) = Len(s) + 1
      /\ \A i \in 1 .. Len(s) : Append(s, x)[i] = s[i]
      /\ Append(s, x)[Len(s) + 1] = x
  BY <1>2
<1> QED BY <1>3

LEMMA FollowsAppend ==
    ASSUME NEW s, IsSeq(s), Follows(s), NEW x,
           x.kind = "ServerEvent" => \E j \in 1 .. Len(s) : Oks(s[j], x.event)
    PROVE  Follows(Append(s, x)) /\ IsSeq(Append(s, x))
<1> DEFINE t == Append(s, x)
<1>1. /\ Len(s) \in Nat /\ Len(t) = Len(s) + 1
      /\ \A i \in 1 .. Len(s) : i \in 1 .. Len(s) + 1 /\ t[i] = s[i]
      /\ t[Len(s) + 1] = x
      /\ \A i \in 1 .. Len(s) + 1 : i \in 1 .. Len(s) \/ i = Len(s) + 1
  BY AppendEntries
<1>2. IsSeq(t)
  BY AppendIsSeq
<1> HIDE DEF t
<1>3. ASSUME NEW i \in 1 .. Len(t), t[i].kind = "ServerEvent"
      PROVE  \E j \in 1 .. i - 1 : Oks(t[j], t[i].event)
  <2>1. CASE i \in 1 .. Len(s)
    <3>1. PICK j \in 1 .. i - 1 : Oks(s[j], s[i].event)
      BY <1>1, <1>3, <2>1 DEF Follows
    <3>2. j \in 1 .. Len(s)
      BY <1>1, <2>1, <3>1
    <3> QED BY <1>1, <2>1, <3>1, <3>2
  <2>2. CASE i = Len(s) + 1
    <3>1. PICK j \in 1 .. Len(s) : Oks(s[j], x.event)
      BY <1>1, <1>3, <2>2
    <3>2. j \in 1 .. i - 1 /\ t[j] = s[j]
      BY <1>1, <2>2, <3>1
    <3> QED BY <1>1, <2>2, <3>1, <3>2
  <2> QED BY <1>1, <2>1, <2>2
<1>4. Follows(t)
  BY <1>3 DEF Follows
<1> QED BY <1>2, <1>4 DEF t

\* One client is sent one more message.
LEMMA BoxAppends ==
    ASSUME BoxInv, EventsFollowTheirOk, NEW c \in Clients, NEW x,
           inbox' = [inbox EXCEPT ![c] = Append(@, x)],
           x.kind = "ServerEvent" => Told(c, x.event.server_id, x.event.type)
    PROVE  /\ BoxInv' /\ EventsFollowTheirOk'
           /\ \A d, u, t : Told(d, u, t) => Told(d, u, t)'
<1>1. /\ DOMAIN inbox' = Clients /\ inbox'[c] = Append(inbox[c], x)
      /\ \A d : d # c => inbox'[d] = inbox[d]
  BY DEF BoxInv
<1>2. IsSeq(inbox[c]) /\ Follows(inbox[c])
  BY FollowsEach DEF BoxInv
<1>3. x.kind = "ServerEvent" => \E j \in 1 .. Len(inbox[c]) : Oks(inbox[c][j], x.event)
  BY SameEvent DEF Told
<1>4. Follows(inbox'[c]) /\ IsSeq(inbox'[c])
  BY <1>1, <1>2, <1>3, FollowsAppend
<1>5. BoxInv'
  BY <1>1, <1>4 DEF BoxInv
<1>6. \A d \in Clients : Follows(inbox'[d])
  BY <1>1, <1>4, FollowsEach
<1>7. EventsFollowTheirOk'
  BY <1>6 DEF EventsFollowTheirOk, Follows, Oks
<1>8. ASSUME NEW d, NEW u, NEW t, Told(d, u, t)
      PROVE  Told(d, u, t)'
  <2>1. CASE d # c
    BY <1>1, <1>8, <2>1 DEF Told
  <2>2. CASE d = c
    <3>1. PICK j \in 1 .. Len(inbox[c]) : Oks(inbox[c][j], EventAt(u, t))
      BY <1>8, <2>2 DEF Told
    <3>2. j \in 1 .. Len(inbox'[c]) /\ inbox'[c][j] = inbox[c][j]
      BY <1>1, <1>2, <3>1, AppendEntries
    <3> QED BY <2>2, <3>1, <3>2 DEF Told
  <2> QED BY <2>1, <2>2
<1> QED BY <1>5, <1>7, <1>8

LEMMA BoxSame ==
    ASSUME BoxInv, EventsFollowTheirOk, UNCHANGED inbox
    PROVE  /\ BoxInv' /\ EventsFollowTheirOk'
           /\ \A d, u, t : Told(d, u, t) => Told(d, u, t)'
  BY DEF BoxInv, EventsFollowTheirOk, Told

(***************************************************************************)
(* Everything on the way.                                                  *)
(***************************************************************************)

Stable == \A c \in senders : \A u, t : Granted(c, u, t) => Granted(c, u, t)'

QueueStep ==
    \A m \in Elems(queue') :
        m.kind = "SendEvent" => m \in Elems(queue) \/ m \in Elems(outbox)
OutboxStep ==
    \A m \in Elems(outbox') :
        \/ m \in Elems(outbox)
        \/ \E k \in Key : /\ m.client_id \in Elems(subscriptions[k])
                          /\ m.event.server_id = k[1] /\ m.event.type = k[2]
EventStep ==
    \A x \in Elems(eventQueue') :
        x.kind = "AddSubscription" => x \in Elems(eventQueue) \/ x \in Elems(todo)
SubscriptionStep ==
    \A k \in Key : \A c \in Elems(subscriptions'[k]) :
        \/ c \in Elems(subscriptions[k])
        \/ \E x \in Elems(eventQueue) :
               /\ x.kind = "AddSubscription" /\ x.client_id = c
               /\ x.server_id = k[1] /\ x.event_type = k[2]

LEMMA GrantsKeep ==
    ASSUME MsgInv, Grants, Stable, QueueStep, OutboxStep, EventStep, SubscriptionStep,
           \A x \in Elems(todo') : x \in Elems(todo) \/ GrantedCmd(x)'
    PROVE  Grants'
<1>1. ASSUME NEW m, m \in Elems(queue) \/ m \in Elems(outbox)
      PROVE  GrantedMsg(m)'
  <2>1. CASE m.kind = "SendEvent"
    <3>1. m.client_id \in senders
      BY <1>1, <2>1 DEF MsgInv, QueueInv, OutboxInv, FineMsg
    <3>2. Granted(m.client_id, m.event.server_id, m.event.type)
      BY <1>1, <2>1 DEF Grants, GrantedMsg
    <3>3. PICK c, u, t : c = m.client_id /\ u = m.event.server_id /\ t = m.event.type
      OBVIOUS
    <3>4. Granted(c, u, t)'
      BY <3>1, <3>2, <3>3 DEF Stable
    <3> QED BY <3>3, <3>4 DEF GrantedMsg
  <2> QED BY <2>1 DEF GrantedMsg
<1>2. ASSUME NEW x, x \in Elems(eventQueue) \/ x \in Elems(todo)
      PROVE  GrantedCmd(x)'
  <2>1. CASE x.kind = "AddSubscription"
    <3>1. x.client_id \in senders
      BY <1>2, <2>1 DEF MsgInv, EventsInv, TodoInv, FineCmd
    <3>2. Granted(x.client_id, x.server_id, x.event_type)
      BY <1>2, <2>1 DEF Grants, GrantedCmd
    <3>3. PICK c, u, t : c = x.client_id /\ u = x.server_id /\ t = x.event_type
      OBVIOUS
    <3>4. Granted(c, u, t)'
      BY <3>1, <3>2, <3>3 DEF Stable
    <3> QED BY <3>3, <3>4 DEF GrantedCmd
  <2> QED BY <2>1 DEF GrantedCmd
<1>3. ASSUME NEW k \in Key, NEW c \in Elems(subscriptions[k])
      PROVE  Granted(c, k[1], k[2])'
  <2>1. c \in senders /\ Granted(c, k[1], k[2])
    BY <1>3 DEF MsgInv, SubscriptionsInv, Grants
  <2> QED BY <2>1 DEF Stable
<1>4. \A m \in Elems(queue') : GrantedMsg(m)'
  BY <1>1 DEF QueueStep, GrantedMsg
<1>5. ASSUME NEW m \in Elems(outbox')
      PROVE  GrantedMsg(m)'
  <2>1. CASE m \in Elems(outbox)
    BY <1>1, <2>1
  <2>2. CASE \E k \in Key : /\ m.client_id \in Elems(subscriptions[k])
                            /\ m.event.server_id = k[1] /\ m.event.type = k[2]
    <3>1. PICK k \in Key : /\ m.client_id \in Elems(subscriptions[k])
                           /\ m.event.server_id = k[1] /\ m.event.type = k[2]
      BY <2>2
    <3>2. PICK c : c = m.client_id
      OBVIOUS
    <3>3. Granted(c, k[1], k[2])'
      BY <1>3, <3>1, <3>2
    <3> QED BY <3>1, <3>2, <3>3 DEF GrantedMsg
  <2> QED BY <2>1, <2>2 DEF OutboxStep
<1>6. \A x \in Elems(eventQueue') : GrantedCmd(x)'
  BY <1>2 DEF EventStep, GrantedCmd
<1>7. \A x \in Elems(todo') : GrantedCmd(x)'
  BY <1>2
<1>8. ASSUME NEW k \in Key, NEW c \in Elems(subscriptions'[k])
      PROVE  Granted(c, k[1], k[2])'
  <2>1. CASE c \in Elems(subscriptions[k])
    BY <1>3, <2>1
  <2>2. CASE \E x \in Elems(eventQueue) :
                 /\ x.kind = "AddSubscription" /\ x.client_id = c
                 /\ x.server_id = k[1] /\ x.event_type = k[2]
    <3>1. PICK x \in Elems(eventQueue) :
                 /\ x.kind = "AddSubscription" /\ x.client_id = c
                 /\ x.server_id = k[1] /\ x.event_type = k[2]
      BY <2>2
    <3> QED BY <1>2, <3>1 DEF GrantedCmd
  <2> QED BY <2>1, <2>2, <1>8 DEF SubscriptionStep
<1> QED BY <1>4, <1>5, <1>6, <1>7, <1>8 DEF Grants

LEMMA QueueStepOf ==
    ASSUME QueueInv, NEW m, Moves(queue, queue', m),
           m.kind = "SendEvent" => m \in Elems(outbox)
    PROVE  QueueStep
<1>1. Elems(queue') \subseteq Elems(queue) \cup {m}
  BY MovesIsSeq DEF QueueInv
<1> QED BY <1>1 DEF QueueStep

LEMMA EventStepOf ==
    ASSUME EventsInv, NEW x, Moves(eventQueue, eventQueue', x),
           x.kind = "AddSubscription" => x \in Elems(todo)
    PROVE  EventStep
<1>1. Elems(eventQueue') \subseteq Elems(eventQueue) \cup {x}
  BY MovesIsSeq DEF EventsInv
<1> QED BY <1>1 DEF EventStep

\* What is left alone takes a step, too.
LEMMA SameSteps ==
    /\ UNCHANGED queue => QueueStep
    /\ UNCHANGED outbox => OutboxStep
    /\ UNCHANGED eventQueue => EventStep
    /\ UNCHANGED subscriptions => SubscriptionStep
    /\ UNCHANGED todo => \A x \in Elems(todo') : x \in Elems(todo)
  BY DEF QueueStep, OutboxStep, EventStep, SubscriptionStep

\* Nobody is told anything, and an answer in preparation stays.
LEMMA StableQuiet ==
    ASSUME UNCHANGED inbox, connected' \subseteq connected,
           Preparing => Preparing' /\ UNCHANGED answering
    PROVE  Stable
<1>1. ASSUME NEW c, NEW u, NEW t, Granted(c, u, t)
      PROVE  Granted(c, u, t)'
  <2>1. CASE Told(c, u, t)
    BY <2>1 DEF Told, Granted
  <2>2. CASE InPreparation(c, u, t)
    <3>1. Preparing' /\ UNCHANGED answering
      BY <2>2 DEF InPreparation
    <3> QED BY <2>2, <3>1 DEF InPreparation, Granted
  <2>3. CASE c \notin connected
    BY <2>3 DEF Granted
  <2> QED BY <1>1, <2>1, <2>2, <2>3 DEF Granted
<1> QED BY <1>1 DEF Stable

\* An answer in preparation is there while the daemon thread does not move.
LEMMA PreparingSame ==
    ASSUME UNCHANGED <<pc, sweeping, answering>>
    PROVE  Preparing => Preparing' /\ UNCHANGED answering
  BY DEF Preparing

LEMMA UpSame == UNCHANGED pc => (Up' <=> Up)
  BY DEF Up

LEMMA CountSame ==
    ASSUME CountInv, UNCHANGED <<counter, senders, main>>
    PROVE  CountInv'
  BY DEF CountInv

LEMMA FlagSame ==
    ASSUME FlagInv, UNCHANGED <<pc, sweeping, answering>>
    PROVE  FlagInv'
  BY DEF FlagInv, Preparing

(***************************************************************************)
(* A step of another thread than main and the daemon thread.               *)
(***************************************************************************)

\* What such a step leaves alone.
Aside ==
    UNCHANGED <<inbox, counter, senders, main, pc, sweeping, answering, todo>>
        /\ connected' \subseteq connected

LEMMA AsideKeeps ==
    ASSUME MsgInv, OrderInv, Up, Aside,
           QueueStep, OutboxStep, EventStep, SubscriptionStep
    PROVE  OrderInv'
<1>1. BoxInv' /\ EventsFollowTheirOk'
  BY BoxSame DEF OrderInv, Aside
<1>2. CountInv' /\ FlagInv'
  BY CountSame, FlagSame DEF OrderInv, Aside
<1>3. Stable
  BY StableQuiet, PreparingSame DEF Aside
<1>4. Grants'
  BY <1>3, GrantsKeep, SameSteps DEF OrderInv, Aside
<1> QED BY <1>1, <1>2, <1>4 DEF OrderInv

LEMMA RemoveIsNoAdd == \A c : RemoveAllCmd(c).kind # "AddSubscription"
  BY DEF RemoveAllCmd

LEMMA StoppedIsNoSend ==
    DaemonStopped.kind # "SendEvent" /\ StopDaemonEvent.kind # "SendEvent"
  BY DEF DaemonStopped, StopDaemonEvent

LEMMA ClientOrder ==
    ASSUME MsgInv, OrderInv, Up, NEW c,
           Relay(c) \/ Hangup(c) \/ Disconnect(c) \/ \E cmd \in Requests : Send(c, cmd)
    PROVE  OrderInv'
<1>1. /\ Aside /\ UNCHANGED <<outbox, subscriptions>>
      /\ \/ UNCHANGED queue
         \/ queue' = Append(queue, IncomingCmd(c, Head(cmds[c])))
      /\ UNCHANGED eventQueue \/ eventQueue' = Append(eventQueue, RemoveAllCmd(c))
  <2>1. CASE Relay(c)
    BY <2>1 DEF Relay, Aside, replyVars, supervisionVars
  <2>2. CASE Hangup(c)
    BY <2>2 DEF Hangup, Aside, replyVars, supervisionVars
  <2>3. CASE Disconnect(c)
    BY <2>3 DEF Disconnect, Aside, AcceptorRest, managerVars, replyVars, supervisionVars
  <2>4. CASE \E cmd \in Requests : Send(c, cmd)
    BY <2>4 DEF Send, Aside, AcceptorRest, managerVars, replyVars, supervisionVars
  <2> QED BY <2>1, <2>2, <2>3, <2>4
<1>2. QueueStep
  <2>1. IncomingCmd(c, Head(cmds[c])).kind # "SendEvent"
    BY DEF IncomingCmd
  <2> QED BY <1>1, <2>1, QueueStepOf, SameSteps DEF MsgInv, Moves
<1>3. EventStep
  BY <1>1, RemoveIsNoAdd, EventStepOf, SameSteps DEF MsgInv, Moves
<1> QED BY <1>1, <1>2, <1>3, AsideKeeps, SameSteps

LEMMA ManagerOrder ==
    ASSUME MsgInv, OrderInv, Up, Manager
    PROVE  OrderInv'
<1>1. Aside /\ ManagerNext
  BY DEF Manager, Aside, clientVars, replyVars, supervisionVars
<1>2. CASE DispatchEvent
  <2> DEFINE e == Head(eventQueue).event
             subs == subscriptions[<<e.server_id, e.type>>]
  <2>1. /\ UNCHANGED <<subscriptions, queue>>
        /\ eventQueue # <<>> /\ eventQueue' = Tail(eventQueue)
        /\ Head(eventQueue).kind = "DispatchEvent"
        /\ outbox' = [i \in 1 .. Len(subs) |-> SendEvent(subs[i], e)]
    BY <1>2 DEF DispatchEvent, Received
  <2>2. EventStep
    BY <2>1, TailIsSeq DEF MsgInv, EventsInv, EventStep
  <2>3. <<e.server_id, e.type>> \in Key
    BY <2>1, HeadIsElem DEF MsgInv, EventsInv, FineCmd
  <2>4. OutboxStep
    <3>1. Len(subs) \in Nat
      BY <2>3 DEF MsgInv, SubscriptionsInv, IsSeq
    <3> HIDE DEF subs, e
    <3>2. Len(outbox') = Len(subs)
      BY <2>1, <3>1
    <3>3. ASSUME NEW i \in 1 .. Len(subs)
          PROVE  outbox'[i].client_id \in Elems(subs) /\ outbox'[i].event = e
      <4>1. outbox'[i] = SendEvent(subs[i], e)
        BY <2>1
      <4> QED BY <4>1 DEF SendEvent, Elems
    <3>4. subs = subscriptions[<<e.server_id, e.type>>]
      BY DEF subs
    <3>5. PICK k \in Key : k = <<e.server_id, e.type>>
      BY <2>3
    <3>6. k[1] = e.server_id /\ k[2] = e.type
      BY <3>5
    <3>7. subscriptions[k] = subs
      BY <3>4, <3>5
    <3>8. ASSUME NEW m \in Elems(outbox')
          PROVE  /\ m.client_id \in Elems(subscriptions[k])
                 /\ m.event.server_id = k[1] /\ m.event.type = k[2]
      <4>1. PICK i \in 1 .. Len(outbox') : m = outbox'[i]
        BY DEF Elems
      <4> QED BY <3>2, <3>3, <3>6, <3>7, <4>1
    <3> QED BY <3>8 DEF OutboxStep
  <2> QED BY <1>1, <2>1, <2>2, <2>4, AsideKeeps, SameSteps
<1>3. CASE Forward
  <2>1. /\ outbox # <<>> /\ outbox' = Tail(outbox)
        /\ queue' = Append(queue, Head(outbox))
        /\ UNCHANGED <<subscriptions, eventQueue>>
    BY <1>3 DEF Forward
  <2>2. Head(outbox) \in Elems(outbox)
    BY <2>1, HeadIsElem DEF MsgInv, OutboxInv
  <2>3. QueueStep
    BY <2>1, <2>2, QueueStepOf DEF MsgInv, Moves
  <2>4. OutboxStep
    BY <2>1, TailIsSeq DEF MsgInv, OutboxInv, OutboxStep
  <2> QED BY <1>1, <2>1, <2>3, <2>4, AsideKeeps, SameSteps
<1>4. CASE AddSubscription \/ RemoveSubscription \/ RemoveAllSubscriptions
  <2> DEFINE cmd == Head(eventQueue)
             key == <<cmd.server_id, cmd.event_type>>
  <2>1. /\ eventQueue # <<>> /\ eventQueue' = Tail(eventQueue)
        /\ UNCHANGED <<outbox, queue>>
    BY <1>4 DEF AddSubscription, RemoveSubscription, RemoveAllSubscriptions, Received
  <2>2. EventStep
    BY <2>1, TailIsSeq DEF MsgInv, EventsInv, EventStep
  <2>3. cmd \in Elems(eventQueue)
    BY <2>1, HeadIsElem DEF MsgInv, EventsInv
  <2>4. subscriptions = [k \in Key |-> subscriptions[k]]
        /\ \A k \in Key : IsSeq(subscriptions[k])
    BY DEF MsgInv, SubscriptionsInv
  <2>5. ASSUME NEW k \in Key, NEW c \in Elems(subscriptions'[k])
        PROVE  \/ c \in Elems(subscriptions[k])
               \/ \E x \in Elems(eventQueue) :
                      /\ x.kind = "AddSubscription" /\ x.client_id = c
                      /\ x.server_id = k[1] /\ x.event_type = k[2]
    <3>1. CASE AddSubscription
      <4>1. /\ cmd.kind = "AddSubscription"
            /\ subscriptions' =
                   [subscriptions EXCEPT ![key] = Append(subscriptions[key], cmd.client_id)]
        BY <3>1 DEF AddSubscription, Received
      <4> HIDE DEF cmd
      <4>2. CASE k = key
        <5>1. subscriptions'[k] = Append(subscriptions[k], cmd.client_id)
          BY <2>4, <4>1, <4>2
        <5>2. k[1] = cmd.server_id /\ k[2] = cmd.event_type
          BY <4>2
        <5>3. c \in Elems(subscriptions[k]) \/ c = cmd.client_id
          BY <2>4, <2>5, <5>1, AppendIsSeq
        <5> QED BY <2>3, <4>1, <5>2, <5>3
      <4>3. CASE k # key
        <5>1. subscriptions'[k] = subscriptions[k]
          BY <2>4, <4>1, <4>3
        <5> QED BY <2>5, <5>1
      <4> QED BY <4>2, <4>3
    <3>2. CASE RemoveSubscription \/ RemoveAllSubscriptions
      <4>1. subscriptions'[k] = subscriptions[k]
            \/ subscriptions'[k] = Retain(subscriptions[k], cmd.client_id)
        <5>1. CASE RemoveSubscription
          <6>1. subscriptions' =
                   [subscriptions EXCEPT ![key] = Retain(subscriptions[key], cmd.client_id)]
            BY <5>1 DEF RemoveSubscription
          <6> HIDE DEF cmd, key
          <6> QED BY <2>4, <6>1
        <5>2. CASE RemoveAllSubscriptions
          BY <5>2 DEF RemoveAllSubscriptions
        <5> QED BY <3>2, <5>1, <5>2
      <4> QED BY <2>4, <2>5, <4>1, RetainIsSeq
    <3> QED BY <1>4, <3>1, <3>2
  <2>6. SubscriptionStep
    BY <2>5 DEF SubscriptionStep
  <2> QED BY <1>1, <2>1, <2>2, <2>6, AsideKeeps, SameSteps
<1> QED BY <1>1, <1>2, <1>3, <1>4 DEF ManagerNext

LEMMA ServersOrder ==
    ASSUME UnitsInv, MsgInv, OrderInv, Up, OfServers(ProcessNext) \/ OfServers(LogNext)
    PROVE  OrderInv'
<1>1. /\ Aside /\ UNCHANGED <<outbox, subscriptions>>
      /\ ProcessNext \/ LogNext
  BY DEF OfServers, Aside, clientVars, replyVars, supervisionVars
<1>2. UNCHANGED queue /\ EventStep
  <2>1. CASE ProcessNext
    <3>1. UNCHANGED <<eventQueue, queue>>
      BY <2>1 DEF ProcessNext, Load, Run, Refuse, BeginStop, CloseDown, Exit, Echo, Prints
    <3> QED BY <3>1, SameSteps
  <2>2. ASSUME NEW p \in Pids, ReadLine(p) \/ EndLog(p)
        PROVE  UNCHANGED queue /\ EventStep
    <3>1. UNCHANGED <<eventQueue, queue>>
      BY <2>2 DEF ReadLine, EndLog
    <3> QED BY <3>1, SameSteps
  <2>3. ASSUME NEW p \in Pids, RaiseEvent(p)
        PROVE  UNCHANGED queue /\ EventStep
    <3> DEFINE x == DispatchCmd([type |-> raising[p], server_id |-> unit[p], body |-> p])
    <3>1. UNCHANGED queue /\ eventQueue' = Append(eventQueue, x)
      BY <2>3 DEF RaiseEvent
    <3>2. x.kind # "AddSubscription"
      BY DEF DispatchCmd
    <3> QED BY <3>1, <3>2, EventStepOf DEF MsgInv, Moves
  <2> QED BY <1>1, <2>1, <2>2, <2>3 DEF LogNext
<1> QED BY <1>1, <1>2, AsideKeeps, SameSteps

LEMMA JobOrder ==
    ASSUME MsgInv, OrderInv, Up, NEW j, OfJob(j)
    PROVE  OrderInv'
<1>1. /\ j \in DOMAIN jobs /\ JobStep(j)
      /\ Aside /\ UNCHANGED <<outbox, subscriptions>>
  BY DEF OfJob, Aside, clientVars, replyVars, supervisionVars
<1>2. JobRow(j)
  BY <1>1, JobStepRow DEF MsgInv
<1>3. QueueStep
  <2>1. PICK m : WorkerMessage(m) /\ Moves(queue, queue', m)
    BY <1>2 DEF JobRow
  <2> QED BY <2>1, QueueStepOf DEF WorkerMessage, MsgInv
<1>4. EventStep
  <2>1. PICK x : WorkerCommand(x) /\ Moves(eventQueue, eventQueue', x)
    BY <1>2 DEF JobRow
  <2> QED BY <2>1, EventStepOf DEF WorkerCommand, MsgInv
<1> QED BY <1>1, <1>3, <1>4, AsideKeeps, SameSteps

(***************************************************************************)
(* main.                                                                   *)
(***************************************************************************)

\* The acceptor writes to the inbox of a client that nothing is addressed to yet.
LEMMA FreshBox ==
    ASSUME OrderInv, counter \notin senders,
           NEW box, IsSeq(box), \A i \in 1 .. Len(box) : box[i].kind # "ServerEvent",
           inbox' = [inbox EXCEPT ![counter] = box],
           connected' \subseteq connected \cup {counter},
           UNCHANGED <<pc, sweeping, answering>>
    PROVE  BoxInv' /\ EventsFollowTheirOk' /\ Stable
<1>1. /\ DOMAIN inbox' = Clients
      /\ \A c \in Clients : c # counter => inbox'[c] = inbox[c]
      /\ \A c \in Clients : c = counter => inbox'[c] = box
  BY DEF OrderInv, BoxInv
<1>2. BoxInv'
  BY <1>1 DEF OrderInv, BoxInv
<1>3. \A c \in Clients : Follows(inbox'[c])
  <2>1. Follows(box)
    BY DEF Follows
  <2> QED BY <1>1, <2>1, FollowsEach DEF OrderInv
<1>4. EventsFollowTheirOk'
  BY <1>3 DEF EventsFollowTheirOk, Follows, Oks
<1>5. ASSUME NEW c \in senders, NEW u, NEW t, Granted(c, u, t)
      PROVE  Granted(c, u, t)'
  <2>1. c # counter /\ c \in Clients
    BY DEF OrderInv, CountInv
  <2>2. inbox'[c] = inbox[c]
    BY <1>1, <2>1
  <2>3. CASE Told(c, u, t)
    BY <2>2, <2>3 DEF Told, Granted
  <2>4. CASE InPreparation(c, u, t)
    BY <2>4 DEF InPreparation, Preparing, Granted
  <2>5. CASE c \notin connected
    BY <2>1, <2>5 DEF Granted
  <2> QED BY <1>5, <2>3, <2>4, <2>5 DEF Granted
<1> QED BY <1>2, <1>4, <1>5 DEF Stable

LEMMA AcceptorOrder ==
    ASSUME MsgInv, OrderInv, Up, Acceptor
    PROVE  OrderInv'
<1>1. counter \notin senders
  <2>1. ~(counter < counter)
    BY DEF OrderInv, CountInv
  <2> QED BY <2>1 DEF OrderInv, CountInv
<1>2. CASE Greet
  <2>1. CASE Dies("exited")
    <3>1. /\ UNCHANGED <<inbox, counter, senders, main>> /\ pc' = "exited"
      BY <1>2, <2>1 DEF Greet, Dies, clientVars, supervisionVars, Up
    <3>2. ~Up' /\ FlagInv'
      BY <3>1 DEF Up, FlagInv, Preparing
    <3> QED BY <3>1, <3>2, BoxSame, CountSame DEF OrderInv
  <2>2. CASE ~Dies("exited")
    <3> DEFINE box == <<SetSender, VersionResponse>>
    <3>1. /\ inbox' = [inbox EXCEPT ![counter] = box]
          /\ connected' = connected \cup {counter}
          /\ main' = "greeted" /\ counter \in Clients
          /\ UNCHANGED <<counter, senders, pc, sweeping, answering, todo, queue, eventQueue,
                         outbox, subscriptions>>
      BY <1>2, <2>2 DEF Greet, managerVars, supervisionVars
    <3>2. IsSeq(box) /\ \A i \in 1 .. Len(box) : box[i].kind # "ServerEvent"
      <4>1. box \in Seq({SetSender, VersionResponse}) /\ Len(box) = 2
        OBVIOUS
      <4>2. SetSender.kind # "ServerEvent" /\ VersionResponse.kind # "ServerEvent"
        BY DEF SetSender, VersionResponse
      <4>3. \A i \in 1 .. Len(box) : box[i] \in {SetSender, VersionResponse}
        BY <4>1
      <4> QED BY <4>1, <4>2, <4>3 DEF IsSeq
    <3> HIDE DEF box
    <3>3. BoxInv' /\ EventsFollowTheirOk' /\ Stable
      BY <1>1, <3>1, <3>2, FreshBox
    <3>4. CountInv' /\ FlagInv'
      BY <3>1, FlagSame DEF OrderInv, CountInv
    <3> QED BY <3>1, <3>3, <3>4, GrantsKeep, SameSteps DEF OrderInv
  <2> QED BY <2>1, <2>2
<1>3. CASE RefuseClient
  <2>1. /\ inbox' = [inbox EXCEPT ![counter] = <<>>]
        /\ connected' = connected \ {counter}
        /\ main' = "accept"
        /\ UNCHANGED <<counter, senders, pc, sweeping, answering, todo, queue, eventQueue,
                       outbox, subscriptions>>
    BY <1>3 DEF RefuseClient, managerVars, supervisionVars
  <2>2. IsSeq(<<>>) /\ \A i \in 1 .. Len(<<>>) : FALSE
    BY EmptyIsSeq
  <2>3. BoxInv' /\ EventsFollowTheirOk' /\ Stable
    BY <1>1, <2>1, <2>2, FreshBox
  <2>4. CountInv' /\ FlagInv'
    BY <2>1, FlagSame DEF OrderInv, CountInv
  <2> QED BY <2>1, <2>3, <2>4, GrantsKeep, SameSteps DEF OrderInv
<1>4. CASE Register
  <2>1. /\ UNCHANGED <<inbox, connected, pc, sweeping, answering, todo, queue, eventQueue,
                       outbox, subscriptions>>
        /\ senders' = senders \cup {counter} /\ counter' = counter + 1
        /\ main = "greeted" /\ main' = "accept"
    BY <1>4 DEF Register, AcceptorRest, managerVars, replyVars, supervisionVars
  <2>2. BoxInv' /\ EventsFollowTheirOk'
    BY <2>1, BoxSame DEF OrderInv
  <2>3. Stable
    BY <2>1, StableQuiet, PreparingSame
  <2>4. CountInv'
    <3>1. counter \in Nat /\ counter \in Clients
      BY <2>1 DEF OrderInv, CountInv
    <3>2. \A c \in senders : c \in Nat /\ c < counter + 1
      BY <3>1, DaemonAssumption DEF DaemonAssumption, OrderInv, CountInv
    <3> QED BY <2>1, <3>1, <3>2 DEF OrderInv, CountInv
  <2>5. FlagInv'
    BY <2>1, FlagSame DEF OrderInv
  <2> QED BY <2>1, <2>2, <2>3, <2>4, <2>5, GrantsKeep, SameSteps DEF OrderInv
<1> QED BY <1>2, <1>3, <1>4 DEF Acceptor

(***************************************************************************)
(* The daemon thread.                                                      *)
(***************************************************************************)

\* A step of the daemon thread that sends nothing to a client.
LEMMA ThreadKeeps ==
    ASSUME MsgInv, OrderInv, Up, UNCHANGED <<inbox, counter, senders, main, connected>>,
           FlagInv',
           ~Up' \/ (Preparing => Preparing' /\ UNCHANGED answering),
           QueueStep, OutboxStep, EventStep, SubscriptionStep,
           ~Up' \/ \A x \in Elems(todo') : x \in Elems(todo) \/ GrantedCmd(x)'
    PROVE  OrderInv'
<1>1. BoxInv' /\ EventsFollowTheirOk'
  BY BoxSame DEF OrderInv
<1>2. CountInv'
  BY CountSame DEF OrderInv
<1>3. CASE Up'
  <2>1. Stable
    BY <1>3, StableQuiet
  <2>2. Grants'
    BY <1>3, <2>1, GrantsKeep DEF OrderInv
  <2> QED BY <1>1, <1>2, <2>2 DEF OrderInv
<1> QED BY <1>1, <1>2, <1>3 DEF OrderInv

LEMMA CommandsOrder ==
    ASSUME UnitsInv, MsgInv, OrderInv, Up, Commands
    PROVE  OrderInv'
<1>1. Handled /\ Answers
  BY QuietCommands, SubscribeKeeps, StartKeeps, StopKeeps, InputKeeps DEF Commands, MsgInv
<1>2. ~Preparing /\ ~sweeping
  BY <1>1 DEF Handled, Preparing, OrderInv, FlagInv
<1>3. FlagInv'
  <2>1. PICK response, list, subs : Returns(response, list, subs)
    BY <1>1 DEF Answers
  <2>2. answering'.response.kind = "Answer"
    BY <2>1 DEF Returns, Answer
  <2> QED BY <1>1, <1>2, <2>2 DEF Handled, FlagInv
<1>4. ~Up' \/ Preparing'
  BY <1>1, <1>2 DEF Handled, Preparing, Up
<1>5. QueueStep
  <2>1. IsSeq(Tail(queue)) /\ Elems(Tail(queue)) \subseteq Elems(queue)
    BY <1>1, TailIsSeq DEF MsgInv, QueueInv, Handled
  <2>2. Elems(Append(Tail(queue), StopDaemonEvent)) = Elems(Tail(queue)) \cup {StopDaemonEvent}
    BY <2>1, AppendIsSeq
  <2> QED BY <1>1, <2>1, <2>2, StoppedIsNoSend DEF Handled, QueueStep
<1>6. ASSUME Preparing', NEW x \in Elems(todo')
      PROVE  GrantedCmd(x)'
  <2>1. PICK response, list, subs :
            /\ Returns(response, list, subs)
            /\ \A y \in Elems(subs) : Fits(y, response)
    BY <1>1 DEF Answers
  <2>2. /\ todo' = subs
        /\ answering' = [client_id |-> Head(queue).id,
                         response |-> Answer(Head(queue).cmd, response, list)]
    BY <2>1 DEF Returns
  <2>3. /\ x.client_id = Head(queue).id /\ response = "Ok"
        /\ SubscribesTo(Head(queue).cmd, EventAt(x.server_id, x.event_type))
    BY <1>6, <2>1, <2>2 DEF Fits, EventAt
  <2>4. /\ answering'.client_id = x.client_id
        /\ answering'.response = Answer(Head(queue).cmd, "Ok", list)
    BY <2>2, <2>3
  <2>5. Oks(answering'.response, EventAt(x.server_id, x.event_type))
    <3>1. /\ Answer(Head(queue).cmd, "Ok", list).kind = "Answer"
          /\ Answer(Head(queue).cmd, "Ok", list).response = "Ok"
          /\ Answer(Head(queue).cmd, "Ok", list).to = Head(queue).cmd
      BY DEF Answer
    <3> QED BY <2>3, <2>4, <3>1 DEF Oks
  <2>6. PICK c, u, t : c = x.client_id /\ u = x.server_id /\ t = x.event_type
    OBVIOUS
  <2>7. InPreparation(c, u, t)'
    BY <1>6, <2>4, <2>5, <2>6 DEF InPreparation
  <2> QED BY <2>6, <2>7 DEF GrantedCmd, Granted
<1> QED BY <1>1, <1>2, <1>3, <1>4, <1>5, <1>6, ThreadKeeps, SameSteps DEF Handled

LEMMA OfUnitsOrder ==
    ASSUME MsgInv, OrderInv, Up, OfUnits
    PROVE  OrderInv'
<1>1. /\ UNCHANGED <<inbox, counter, senders, main, connected, outbox, subscriptions, todo,
                     answering>>
      /\ Autostart \/ StartThread \/ WriteStop \/ Sweep
  BY DEF OfUnits, clientVars, replyVars
<1>2. /\ UNCHANGED eventQueue /\ Moves(queue, queue', DaemonStopped) /\ FlagInv'
      /\ ~Up' \/ (Preparing => Preparing')
  <2>1. CASE Autostart
    BY <1>1, <2>1 DEF Autostart, Spawn, Dies, Moves, OrderInv, FlagInv, Preparing, Up
  <2>2. CASE StartThread
    BY <1>1, <2>2 DEF StartThread, Moves, OrderInv, FlagInv, Preparing
  <2>3. CASE WriteStop
    <3>1. /\ UNCHANGED <<eventQueue, queue, sweeping>>
          /\ \/ pc' = "panicked"
             \/ pc' = IF sweeping THEN "wait" ELSE "reply"
      BY <2>3 DEF WriteStop, Panic, Dies
    <3>2. FlagInv'
      BY <1>1, <2>3, <3>1 DEF WriteStop, OrderInv, FlagInv, Preparing
    <3>3. ~Up' \/ (Preparing => Preparing')
      BY <2>3, <3>1 DEF WriteStop, Preparing, Up
    <3> QED BY <3>1, <3>2, <3>3 DEF Moves
  <2>4. CASE \E u \in left : Visit(u)
    BY <1>1, <2>4 DEF Visit, Moves, OrderInv, FlagInv, Preparing
  <2>5. CASE HasStarted \/ Wait \/ EndSweep
    BY <1>1, <2>5 DEF HasStarted, Wait, EndSweep, Moves, OrderInv, FlagInv, Preparing
  <2> QED BY <1>1, <2>1, <2>2, <2>3, <2>4, <2>5 DEF Sweep
<1>3. QueueStep
  BY <1>2, StoppedIsNoSend, QueueStepOf DEF MsgInv
<1> QED BY <1>1, <1>2, <1>3, ThreadKeeps, SameSteps

LEMMA AnswerOrder ==
    ASSUME MsgInv, OrderInv, Up, SendSubscription \/ SpawnWorker
    PROVE  OrderInv'
<1>1. CASE SendSubscription
  <2>1. /\ UNCHANGED <<inbox, counter, senders, main, connected, outbox, subscriptions, queue,
                       answering, pc, sweeping>>
        /\ todo # <<>> /\ todo' = Tail(todo)
        /\ eventQueue' = Append(eventQueue, Head(todo))
    BY <1>1 DEF SendSubscription, Elsewhere, clientVars
  <2>2. Head(todo) \in Elems(todo) /\ Elems(todo') \subseteq Elems(todo)
    BY <2>1, HeadIsElem, TailIsSeq DEF MsgInv, TodoInv
  <2>3. EventStep
    BY <2>1, <2>2, EventStepOf DEF MsgInv, Moves
  <2>4. FlagInv'
    BY <2>1, FlagSame DEF OrderInv
  <2> QED BY <2>1, <2>2, <2>3, <2>4, ThreadKeeps, SameSteps, PreparingSame
<1>2. CASE SpawnWorker
  <2> DEFINE x == JobEvent("InstallationFailed", answering.response.to.unit_id, 0)
  <2>1. /\ UNCHANGED <<inbox, counter, senders, main, connected, outbox, subscriptions, queue,
                       answering, todo, sweeping>>
        /\ pc = "spawn" /\ pc' = "reply"
        /\ UNCHANGED eventQueue \/ eventQueue' = Append(eventQueue, x)
    BY <1>2 DEF SpawnWorker, clientVars
  <2>2. x.kind # "AddSubscription"
    BY DEF JobEvent, DispatchCmd
  <2> HIDE DEF x
  <2>3. EventStep
    BY <2>1, <2>2, EventStepOf, SameSteps DEF MsgInv, Moves
  <2>4. FlagInv' /\ (Preparing => Preparing')
    BY <2>1 DEF OrderInv, FlagInv, Preparing
  <2> QED BY <2>1, <2>3, <2>4, ThreadKeeps, SameSteps
<1> QED BY <1>1, <1>2

LEMMA EndOrder ==
    ASSUME MsgInv, OrderInv, Up, TakeUnit \/ TakeStopDaemon \/ ExitDaemon
    PROVE  OrderInv'
<1>1. /\ UNCHANGED <<inbox, counter, senders, main, connected, outbox, subscriptions,
                     eventQueue, todo, answering>>
      /\ (queue # <<>> /\ queue' = Tail(queue)) \/ UNCHANGED queue
      /\ pc \in {"recv", "closing"}
      /\ \/ UNCHANGED <<pc, sweeping>>
         \/ pc' = "sweep" /\ sweeping'
         \/ pc' = "exited"
  BY DEF TakeUnit, TakeStopDaemon, ExitDaemon, AddServerUnit, BeginSweep, Rest, Elsewhere,
         clientVars, replyVars
<1>2. FlagInv' /\ ~Preparing
  BY <1>1 DEF OrderInv, FlagInv, Preparing
<1>3. QueueStep
  BY <1>1, StoppedIsNoSend, QueueStepOf DEF MsgInv, Moves
<1> QED BY <1>1, <1>2, <1>3, ThreadKeeps, SameSteps

LEMMA DeliverStep ==
    ASSUME EventsInv, NEW c, NEW response, Deliver(c, response)
    PROVE  EventStep
  BY DeliverSends, RemoveIsNoAdd, EventStepOf

LEMMA ReplyOrder ==
    ASSUME MsgInv, OrderInv, Up, Reply
    PROVE  OrderInv'
<1>1. PICK c, r :
      /\ UNCHANGED <<counter, senders, main, connected, outbox, subscriptions, queue, todo,
                     sweeping>>
      /\ pc = "reply" /\ r.kind = "Answer"
      /\ c = answering.client_id /\ r = answering.response
      /\ \/ c \in senders /\ pc' = "recv" /\ Deliver(c, r)
         \/ c \notin senders /\ pc' = "panicked" /\ UNCHANGED <<inbox, eventQueue>>
  BY DEF Reply, Elsewhere, clientVars, OrderInv, FlagInv, Preparing
<1>2. CountInv' /\ FlagInv'
  BY <1>1, CountSame DEF OrderInv, FlagInv, Preparing
<1>3. CASE c \notin senders
  <2>1. ~Up' /\ UNCHANGED inbox
    BY <1>1, <1>3 DEF Up
  <2> QED BY <1>2, <2>1, BoxSame DEF OrderInv
<1>4. CASE c \in senders
  <2>1. Deliver(c, r) /\ c \in Clients
    BY <1>1, <1>4 DEF OrderInv, CountInv
  <2>2. EventStep
    BY <2>1, DeliverStep DEF MsgInv
  <2> SUFFICES ASSUME TRUE
               PROVE  BoxInv' /\ EventsFollowTheirOk' /\ Stable
    BY <1>1, <1>2, <2>2, GrantsKeep, SameSteps DEF OrderInv
  <2>3. CASE c \in connected
    <3>1. inbox' = [inbox EXCEPT ![c] = Append(@, r)]
      BY <2>1, <2>3 DEF Deliver
    <3>2. r.kind # "ServerEvent"
      BY <1>1
    <3>3. /\ BoxInv' /\ EventsFollowTheirOk'
          /\ \A d, u, t : Told(d, u, t) => Told(d, u, t)'
      BY <2>1, <3>1, <3>2, BoxAppends DEF OrderInv
    <3>4. ASSUME NEW u, NEW t, Oks(r, EventAt(u, t))
          PROVE  Told(c, u, t)'
      <4>1. inbox'[c] = Append(inbox[c], r) /\ IsSeq(inbox[c])
        BY <2>1, <3>1 DEF OrderInv, BoxInv
      <4>2. /\ Len(inbox'[c]) \in 1 .. Len(inbox'[c])
            /\ inbox'[c][Len(inbox'[c])] = r
        BY <4>1, AppendEntries
      <4> QED BY <3>4, <4>2 DEF Told
    <3> QED BY <1>1, <3>3, <3>4 DEF Stable, Granted, InPreparation
  <2>4. CASE c \notin connected
    <3>1. UNCHANGED inbox
      BY <2>1, <2>4 DEF Deliver
    <3>2. BoxInv' /\ EventsFollowTheirOk'
      BY <3>1, BoxSame DEF OrderInv
    <3>3. Stable
      BY <1>1, <2>4, <3>1 DEF Stable, Granted, InPreparation, Told
    <3> QED BY <3>2, <3>3
  <2> QED BY <2>3, <2>4
<1> QED BY <1>3, <1>4

\* While the daemon thread hands out an event there is no answer in preparation:
\* the Ok is in the client's inbox.
LEMMA HandOutOrder ==
    ASSUME MsgInv, OrderInv, Up, HandOut
    PROVE  OrderInv'
<1>1. PICK m, c, e :
      /\ UNCHANGED <<counter, senders, main, connected, outbox, subscriptions, todo,
                     sweeping, answering>>
      /\ pc = "recv" /\ pc' \in {"recv", "panicked"}
      /\ queue # <<>> /\ queue' = Tail(queue) /\ m = Head(queue)
      /\ m.kind = "SendEvent" /\ c = m.client_id /\ e = m.event
      /\ \/ c \in senders /\ Deliver(c, EventResponse(e))
         \/ UNCHANGED <<inbox, eventQueue>>
  BY DEF HandOut, Elsewhere, clientVars
<1>2. CountInv' /\ FlagInv' /\ ~Preparing
  BY <1>1, CountSame DEF OrderInv, FlagInv, Preparing
<1>3. QueueStep
  BY <1>1, TailIsSeq DEF MsgInv, QueueInv, QueueStep
<1>4. CASE UNCHANGED <<inbox, eventQueue>>
  BY <1>1, <1>2, <1>3, <1>4, ThreadKeeps, SameSteps
<1>5. CASE c \in senders /\ Deliver(c, EventResponse(e)) /\ c \notin connected
  <2>1. UNCHANGED inbox /\ EventStep
    BY <1>5, DeliverStep DEF Deliver, MsgInv
  <2> QED BY <1>1, <1>2, <1>3, <2>1, ThreadKeeps, SameSteps
<1>6. CASE c \in senders /\ Deliver(c, EventResponse(e)) /\ c \in connected
  <2> DEFINE r == EventResponse(e)
  <2>1. EventStep /\ inbox' = [inbox EXCEPT ![c] = Append(@, r)] /\ c \in Clients
    BY <1>6, DeliverStep DEF Deliver, MsgInv, OrderInv, CountInv
  <2>2. Granted(c, e.server_id, e.type)
    BY <1>1, HeadIsElem DEF OrderInv, Grants, GrantedMsg, MsgInv, QueueInv
  <2>3. Told(c, e.server_id, e.type)
    BY <1>2, <1>6, <2>2 DEF Granted, InPreparation
  <2>4. r.event = e
    BY DEF EventResponse
  <2> HIDE DEF r
  <2>5. /\ BoxInv' /\ EventsFollowTheirOk'
        /\ \A d, u, t : Told(d, u, t) => Told(d, u, t)'
    BY <2>1, <2>3, <2>4, BoxAppends DEF OrderInv
  <2>6. Stable
    BY <1>1, <1>2, <2>5 DEF Stable, Granted, InPreparation
  <2> QED BY <1>1, <1>2, <1>3, <2>1, <2>5, <2>6, GrantsKeep, SameSteps DEF OrderInv
<1> QED BY <1>1, <1>4, <1>5, <1>6

LEMMA BroadcastOrder ==
    ASSUME MsgInv, OrderInv, Up, Broadcast
    PROVE  OrderInv'
<1>1. /\ UNCHANGED <<counter, senders, main, connected, outbox, subscriptions, todo,
                     sweeping, answering, eventQueue>>
      /\ pc = "recv" /\ pc' = "closing"
      /\ queue # <<>> /\ queue' = Tail(queue)
      /\ inbox' = [c \in Clients |-> IF c \in senders \cap connected
                                       THEN Append(inbox[c], StoppedResponse) ELSE inbox[c]]
  BY DEF Broadcast, Elsewhere, clientVars
<1>2. CountInv' /\ FlagInv' /\ ~Preparing
  BY <1>1, CountSame DEF OrderInv, FlagInv, Preparing
<1>3. QueueStep
  BY <1>1, TailIsSeq DEF MsgInv, QueueInv, QueueStep
<1>4. \A c \in Clients : /\ IsSeq(inbox[c]) /\ Follows(inbox[c])
                         /\ \/ inbox'[c] = inbox[c]
                            \/ inbox'[c] = Append(inbox[c], StoppedResponse)
  BY <1>1, FollowsEach DEF OrderInv, BoxInv
<1>5. StoppedResponse.kind # "ServerEvent"
  BY DEF StoppedResponse
<1>6. \A c \in Clients : IsSeq(inbox'[c]) /\ Follows(inbox'[c])
  BY <1>4, <1>5, FollowsAppend
<1>7. BoxInv' /\ EventsFollowTheirOk'
  <2>1. DOMAIN inbox' = Clients
    BY <1>1
  <2> QED BY <1>6, <2>1 DEF BoxInv, EventsFollowTheirOk, Follows, Oks
<1>8. ASSUME NEW c \in senders, NEW u, NEW t, Granted(c, u, t)
      PROVE  Granted(c, u, t)'
  <2>1. CASE Told(c, u, t)
    <3>1. PICK j \in 1 .. Len(inbox[c]) : Oks(inbox[c][j], EventAt(u, t))
      BY <2>1 DEF Told
    <3>2. c \in Clients
      BY DEF OrderInv, CountInv
    <3>3. j \in 1 .. Len(inbox'[c]) /\ inbox'[c][j] = inbox[c][j]
      BY <1>4, <3>1, <3>2, AppendEntries
    <3> QED BY <3>1, <3>3 DEF Told, Granted
  <2>2. CASE c \notin connected
    BY <1>1, <2>2 DEF Granted
  <2> QED BY <1>2, <1>8, <2>1, <2>2 DEF Granted, InPreparation
<1>9. Grants'
  BY <1>1, <1>3, <1>8, GrantsKeep, SameSteps DEF OrderInv, Stable, Up
<1> QED BY <1>2, <1>7, <1>9 DEF OrderInv

(***************************************************************************)
(* The theorem.                                                            *)
(***************************************************************************)

LEMMA OrderInit ==
    ASSUME Init
    PROVE  OrderInv
<1>1. /\ queue = <<>> /\ eventQueue = <<>> /\ outbox = <<>> /\ todo = <<>>
      /\ inbox = [c \in Clients |-> <<>>] /\ counter = 0 /\ senders = {} /\ main = "accept"
      /\ pc = "autostart" /\ ~sweeping
      /\ \A k \in Key : subscriptions[k] = <<>>
  BY DEF Init, ManagerInit, SupervisionInit
<1>2. Elems(<<>>) = {} /\ IsSeq(<<>>) /\ \A i \in 1 .. Len(<<>>) : FALSE
  BY EmptyIsSeq
<1>3. BoxInv
  BY <1>1, <1>2 DEF BoxInv
<1>4. EventsFollowTheirOk
  BY <1>1, <1>2 DEF EventsFollowTheirOk
<1>5. CountInv /\ FlagInv
  BY <1>1 DEF CountInv, FlagInv, Preparing
<1>6. Grants
  BY <1>1, <1>2 DEF Grants
<1> QED BY <1>3, <1>4, <1>5, <1>6 DEF OrderInv

LEMMA OrderNext ==
    ASSUME UnitsInv, MsgInv, OrderInv, Next
    PROVE  OrderInv'
<1>1. Up
  BY DEF Next
<1>2. CASE Threads
  <2>1. CASE DaemonThread
    BY <1>1, <2>1, CommandsOrder, OfUnitsOrder, AnswerOrder, ReplyOrder, HandOutOrder,
       EndOrder, BroadcastOrder DEF DaemonThread
  <2>2. CASE \E c \in Clients : Relay(c) \/ Hangup(c)
    BY <1>1, <2>2, ClientOrder
  <2>3. CASE \E j \in 1 .. MaxJobs : OfJob(j)
    BY <1>1, <2>3, JobOrder
  <2> QED
    BY <1>1, <1>2, <2>1, <2>2, <2>3, AcceptorOrder, ManagerOrder, ServersOrder DEF Threads
<1>3. CASE \E c \in Clients, cmd \in Requests : Send(c, cmd)
  BY <1>1, <1>3, ClientOrder
<1>4. CASE \E c \in Leavers : Disconnect(c)
  BY <1>1, <1>4, ClientOrder
<1> QED BY <1>2, <1>3, <1>4 DEF Next

LEMMA OrderStutter ==
    ASSUME MsgInv, OrderInv, UNCHANGED daemonVars
    PROVE  OrderInv'
<1>1. /\ UNCHANGED <<inbox, counter, senders, main, connected, outbox, subscriptions, queue,
                     eventQueue, todo, answering, pc, sweeping>>
  BY DEF daemonVars, managerVars, supervisionVars, clientVars, replyVars
<1>2. CASE Up
  BY <1>1, <1>2, AsideKeeps, SameSteps DEF Aside
<1>3. CASE ~Up
  BY <1>1, <1>3, BoxSame, CountSame, FlagSame DEF OrderInv, Up
<1> QED BY <1>2, <1>3

\* A client is not sent an event before it is sent the Ok of a command that
\* subscribed it to that event of that server (mcmand.rs, handle_cmd and
\* SendEvent): who waits for the Ok first loses no event by it.
THEOREM EventsComeAfterOk == Spec => []EventsFollowTheirOk
<1>1. Init => OrderInv
  BY OrderInit
<1>2. (UnitsInv /\ MsgInv) /\ OrderInv /\ [Next]_daemonVars => OrderInv'
  BY OrderNext, OrderStutter
<1>3. OrderInv => EventsFollowTheirOk
  BY DEF OrderInv
<1> QED BY <1>1, <1>2, <1>3, DaemonInv, PTL DEF Spec

(***************************************************************************)
(* The types of everything the daemon keeps.  What is on the way has the   *)
(* type it is read with, the daemon thread has an answer in hand exactly   *)
(* while it prepares one, a unit has a configuration exactly when it has a *)
(* server, and a server with a handle has a status.                        *)
(***************************************************************************)

BusTypes == queue \in Seq(DaemonEvent) /\ ManagerTypeOK
ClientTypes ==
    /\ main \in {"accept", "greeted"}
    /\ refusals \in 0 .. MaxRefusals
    /\ connected \subseteq Clients
    /\ cmds \in [Clients -> Seq(Requests)]
    /\ requests \in [Clients -> Seq(Requests)]
ReplyTypes ==
    /\ inbox \in [Clients -> Seq(DaemonResponse)]
    /\ answering \in Answering \cup {None}
    /\ todo \in Seq(EventManagerCmd)

HandInv ==
    /\ Preparing => answering \in Answering
    /\ Up /\ ~Preparing => answering = None
MeetInv ==
    /\ DOMAIN configs = DOMAIN servers
    /\ pc = "spawn" =>
          LET cmd == answering.response.to
          IN cmd.kind = "UpdateServer" => cmd.unit_id \in DOMAIN servers
HandleInv ==
    \A u \in DOMAIN servers :
        servers[u].process # None => servers[u].status = servers[u].process

DeskInv ==
    /\ BusTypes /\ ClientTypes /\ ReplyTypes /\ WorkersInv
    /\ HandInv /\ MeetInv /\ HandleInv

LEMMA TypesFollow ==
    ASSUME UnitsInv, MsgInv, OrderInv, DeskInv
    PROVE  TypeOK
  BY DEF TypeOK, UnitsInv, UnitTypes, MsgInv, ThreadsInv, OrderInv, CountInv, DeskInv, BusTypes,
         ClientTypes, ReplyTypes, WorkersInv

LEMMA SeqMoves ==
    ASSUME NEW T, NEW s \in Seq(T), NEW t,
           \/ t = s
           \/ s # <<>> /\ t = Tail(s)
           \/ \E x \in T : t = Append(s, x)
    PROVE  t \in Seq(T)
  OBVIOUS

LEMMA SeqOfElems ==
    ASSUME NEW T, NEW s, IsSeq(s), Elems(s) \subseteq T
    PROVE  s \in Seq(T)
<1>1. PICK S : s \in Seq(S)
  BY DEF IsSeq
<1>2. \A i \in 1 .. Len(s) : s[i] \in T
  BY DEF Elems
<1> QED BY <1>1, <1>2


LEMMA BusKeeps ==
    ASSUME BusTypes, UNCHANGED <<subscriptions, outbox>>,
           \/ UNCHANGED queue
           \/ queue # <<>> /\ queue' = Tail(queue)
           \/ \E m \in DaemonEvent : queue' = Append(queue, m),
           \/ UNCHANGED eventQueue
           \/ \E x \in EventManagerCmd : eventQueue' = Append(eventQueue, x)
    PROVE  BusTypes'
<1>1. queue' \in Seq(DaemonEvent)
  BY SeqMoves DEF BusTypes
<1>2. eventQueue' \in Seq(EventManagerCmd)
  BY SeqMoves DEF BusTypes, ManagerTypeOK
<1> QED BY <1>1, <1>2 DEF BusTypes, ManagerTypeOK

LEMMA DeskSame ==
    /\ ClientTypes /\ UNCHANGED clientVars => ClientTypes'
    /\ ReplyTypes /\ UNCHANGED replyVars => ReplyTypes'
    /\ HandInv /\ UNCHANGED <<pc, sweeping, answering>> => HandInv'
    /\ MeetInv /\ UNCHANGED <<configs, servers, pc, answering>> => MeetInv'
    /\ MeetInv /\ UNCHANGED <<configs, servers>> /\ pc' # "spawn" => MeetInv'
    /\ HandleInv /\ UNCHANGED servers => HandleInv'
  BY DEF ClientTypes, ReplyTypes, HandInv, MeetInv, HandleInv, clientVars, replyVars,
         Preparing, Up

LEMMA StoppedTypes == DaemonStopped \in DaemonEvent /\ StopDaemonEvent \in DaemonEvent
  BY DEF DaemonEvent

LEMMA RemoveTypes == \A c \in Clients : RemoveAllCmd(c) \in EventManagerCmd
  BY DEF RemoveAllCmd, EventManagerCmd

(* The other threads. *)

LEMMA AcceptorTypes ==
    ASSUME OrderInv, DeskInv, Acceptor
    PROVE  DeskInv'
<1>1. BusTypes' /\ WorkersInv'
  <2>1. UNCHANGED <<managerVars, workVars>>
    BY DEF Acceptor, Greet, RefuseClient, Register, AcceptorRest
  <2> QED BY <2>1, NoWorkKeepsTypes DEF DeskInv, BusTypes, ManagerTypeOK, managerVars
<1>2. ReplyTypes' /\ ClientTypes'
  <2>1. CASE Greet
    <3> DEFINE box == <<SetSender, VersionResponse>>
    <3>1. box \in Seq(DaemonResponse)
      BY DEF DaemonResponse
    <3> HIDE DEF box
    <3>2. /\ UNCHANGED <<answering, todo, refusals, cmds, requests>>
          /\ main' \in {main, "greeted"} /\ connected' \subseteq connected \cup {counter}
          /\ counter \in Clients
          /\ UNCHANGED inbox \/ inbox' = [inbox EXCEPT ![counter] = box]
      BY <2>1 DEF Greet, clientVars, box
    <3> QED BY <3>1, <3>2 DEF DeskInv, ReplyTypes, ClientTypes
  <2>2. CASE RefuseClient
    <3>1. <<>> \in Seq(DaemonResponse) /\ <<>> \in Seq(Requests)
      OBVIOUS
    <3>2. refusals' \in 0 .. MaxRefusals
      BY <2>2, DaemonAssumption DEF DaemonAssumption, RefuseClient, DeskInv, ClientTypes
    <3> QED BY <2>2, <3>1, <3>2 DEF RefuseClient, DeskInv, ReplyTypes, ClientTypes
  <2>3. CASE Register
    BY <2>3 DEF Register, AcceptorRest, replyVars, DeskInv, ReplyTypes, ClientTypes
  <2> QED BY <2>1, <2>2, <2>3 DEF Acceptor
<1>3. HandInv' /\ MeetInv' /\ HandleInv'
  <2>1. /\ UNCHANGED <<servers, sweeping, answering, configs>>
        /\ UNCHANGED pc \/ pc' = "exited"
    BY DEF Acceptor, Greet, RefuseClient, Register, AcceptorRest, Dies, workVars, replyVars,
       supervisionVars
  <2>2. HandInv'
    BY <2>1 DEF DeskInv, HandInv, Preparing, Up
  <2> QED BY <2>1, <2>2, DeskSame DEF DeskInv
<1> QED BY <1>1, <1>2, <1>3 DEF DeskInv

LEMMA ClientThreadTypes ==
    ASSUME MsgInv, OrderInv, DeskInv, NEW c \in Clients,
           Relay(c) \/ Hangup(c) \/ Disconnect(c) \/ \E cmd \in Requests : Send(c, cmd)
    PROVE  DeskInv'
<1>1. UNCHANGED <<workVars, replyVars, supervisionVars>>
  BY DEF Relay, Hangup, Disconnect, Send, AcceptorRest
<1>2. WorkersInv' /\ ReplyTypes' /\ HandInv' /\ MeetInv' /\ HandleInv'
  BY <1>1, NoWorkKeepsTypes, DeskSame DEF DeskInv, workVars, replyVars, supervisionVars
<1>3. ClientTypes'
  <2>1. CASE Relay(c)
    <3>1. Tail(cmds[c]) \in Seq(Requests)
      BY <2>1 DEF Relay, DeskInv, ClientTypes
    <3> QED BY <2>1, <3>1 DEF Relay, DeskInv, ClientTypes
  <2>2. CASE Hangup(c)
    BY <2>2 DEF Hangup, DeskInv, ClientTypes
  <2>3. CASE Disconnect(c)
    BY <2>3 DEF Disconnect, DeskInv, ClientTypes
  <2>4. ASSUME NEW cmd \in Requests, Send(c, cmd)
        PROVE  ClientTypes'
    <3>1. Append(cmds[c], cmd) \in Seq(Requests) /\ Append(requests[c], cmd) \in Seq(Requests)
      BY DEF DeskInv, ClientTypes
    <3> QED BY <2>4, <3>1 DEF Send, DeskInv, ClientTypes
  <2> QED BY <2>1, <2>2, <2>3, <2>4
<1>4. BusTypes'
  <2>1. CASE Relay(c)
    <3>1. IncomingCmd(c, Head(cmds[c])) \in DaemonEvent
      BY <2>1 DEF Relay, IncomingCmd, DaemonEvent, DeskInv, ClientTypes
    <3> QED BY <2>1, <3>1, BusKeeps DEF Relay, DeskInv
  <2>2. CASE Hangup(c)
    BY <2>2, RemoveTypes, BusKeeps DEF Hangup, DeskInv
  <2>3. CASE UNCHANGED managerVars
    BY <2>3 DEF DeskInv, BusTypes, ManagerTypeOK, managerVars
  <2> QED BY <2>1, <2>2, <2>3 DEF Disconnect, Send, AcceptorRest
<1> QED BY <1>2, <1>3, <1>4 DEF DeskInv

LEMMA ManagerTypes ==
    ASSUME MsgInv', OrderInv', DeskInv, Manager
    PROVE  DeskInv'
<1>1. /\ ManagerNext
      /\ UNCHANGED <<supervisionVars, workVars, clientVars, replyVars>>
  BY DEF Manager
<1>2. WorkersInv' /\ ClientTypes' /\ ReplyTypes' /\ HandInv' /\ MeetInv' /\ HandleInv'
  BY <1>1, NoWorkKeepsTypes, DeskSame DEF DeskInv, workVars, replyVars, supervisionVars
<1>3. subscriptions' \in [Key -> Seq(Clients)]
  <2>1. \A k \in Key : subscriptions'[k] \in Seq(Clients)
    BY SeqOfElems DEF MsgInv, SubscriptionsInv, OrderInv, CountInv
  <2>2. subscriptions' = [k \in Key |-> subscriptions'[k]]
    BY DEF MsgInv, SubscriptionsInv
  <2> QED BY <2>1, <2>2
<1>4. /\ queue \in Seq(DaemonEvent) /\ eventQueue \in Seq(EventManagerCmd)
      /\ outbox \in Seq(SendEvents) /\ subscriptions \in [Key -> Seq(Clients)]
  BY DEF DeskInv, BusTypes, ManagerTypeOK
<1>5. CASE Forward
  <2>1. /\ outbox # <<>> /\ outbox' = Tail(outbox)
        /\ queue' = Append(queue, Head(outbox)) /\ UNCHANGED eventQueue
    BY <1>5 DEF Forward
  <2>2. Head(outbox) \in DaemonEvent
    BY <1>4, <2>1 DEF DaemonEvent
  <2>3. queue' \in Seq(DaemonEvent) /\ outbox' \in Seq(SendEvents)
    BY <1>4, <2>1, <2>2, SeqMoves
  <2> QED BY <1>2, <1>3, <1>4, <2>1, <2>3 DEF DeskInv, BusTypes, ManagerTypeOK
<1>6. CASE ~Forward
  <2>1. eventQueue # <<>> /\ eventQueue' = Tail(eventQueue) /\ UNCHANGED queue
    BY <1>1, <1>6 DEF ManagerNext, DispatchEvent, AddSubscription, RemoveSubscription,
       RemoveAllSubscriptions, Received
  <2>2. eventQueue' \in Seq(EventManagerCmd)
    BY <1>4, <2>1, SeqMoves
  <2>3. outbox' \in Seq(SendEvents)
    <3>1. CASE DispatchEvent
      <4>1. PICK e, subs :
                /\ e = Head(eventQueue).event /\ Head(eventQueue).kind = "DispatchEvent"
                /\ subs = subscriptions[<<e.server_id, e.type>>]
                /\ outbox' = [i \in 1 .. Len(subs) |-> SendEvent(subs[i], e)]
        BY <3>1 DEF DispatchEvent, Received
      <4>2. Head(eventQueue) \in EventManagerCmd
        BY <1>4, <2>1
      <4>3. e \in ServerEvent
        BY <4>1, <4>2 DEF EventManagerCmd
      <4>4. subs \in Seq(Clients)
        BY <1>4, <4>1, <4>3 DEF ServerEvent, Key
      <4>5. \A i \in 1 .. Len(subs) : SendEvent(subs[i], e) \in SendEvents
        BY <4>3, <4>4 DEF SendEvent, SendEvents
      <4>6. Len(subs) \in Nat
        BY <4>4
      <4> QED BY <4>1, <4>5, <4>6
    <3>2. CASE ~DispatchEvent
      BY <1>1, <1>4, <1>6, <3>2 DEF ManagerNext, AddSubscription, RemoveSubscription,
         RemoveAllSubscriptions
    <3> QED BY <3>1, <3>2
  <2> QED BY <1>2, <1>3, <1>4, <2>1, <2>2, <2>3 DEF DeskInv, BusTypes, ManagerTypeOK
<1> QED BY <1>5, <1>6

LEMMA ServersTypes ==
    ASSUME UnitsInv, DeskInv, OfServers(ProcessNext) \/ OfServers(LogNext)
    PROVE  DeskInv'
<1>1. /\ UNCHANGED <<subscriptions, outbox, supervisionVars, workVars, clientVars, replyVars>>
      /\ ProcessNext \/ LogNext
  BY DEF OfServers
<1>2. WorkersInv' /\ ClientTypes' /\ ReplyTypes' /\ HandInv' /\ MeetInv' /\ HandleInv'
  BY <1>1, NoWorkKeepsTypes, DeskSame DEF DeskInv, workVars, replyVars, supervisionVars
<1>3. UNCHANGED queue
  BY <1>1 DEF ProcessNext, Load, Run, Refuse, BeginStop, CloseDown, Exit, Echo, Prints,
     LogNext, ReadLine, RaiseEvent, EndLog
<1>4. CASE \E p \in Pids : RaiseEvent(p)
  <2>1. PICK p \in Pids : RaiseEvent(p)
    BY <1>4
  <2> DEFINE e == [type |-> raising[p], server_id |-> unit[p], body |-> p]
  <2>2. raising[p] \in ServerEventType /\ unit[p] \in Units /\ p \in Bodies
    BY <2>1, ProcessAssumption DEF ProcessAssumption, RaiseEvent, UnitsInv, UnitTypes,
       ProcessTypeOK, SupervisionTypeOK, BornInv
  <2>3. DispatchCmd(e) \in EventManagerCmd
    BY <2>2 DEF DispatchCmd, EventManagerCmd, ServerEvent
  <2>4. eventQueue' = Append(eventQueue, DispatchCmd(e))
    BY <2>1 DEF RaiseEvent
  <2>5. BusTypes'
    BY <1>1, <1>3, <2>3, <2>4, BusKeeps DEF DeskInv
  <2> QED BY <1>2, <2>5 DEF DeskInv
<1>5. CASE ~\E p \in Pids : RaiseEvent(p)
  <2>1. UNCHANGED eventQueue
    BY <1>1, <1>5 DEF ProcessNext, Load, Run, Refuse, BeginStop, CloseDown, Exit, Echo, Prints,
       LogNext, ReadLine, EndLog
  <2> QED BY <1>1, <1>2, <1>3, <2>1, BusKeeps DEF DeskInv
<1> QED BY <1>4, <1>5

LEMMA JobEventTypes ==
    ASSUME NEW type \in ServerEventType, NEW u \in Units, NEW j \in 0 .. MaxJobs
    PROVE  JobEvent(type, u, j) \in EventManagerCmd
  BY WorkersAssumption DEF WorkersAssumption, JobEvent, DispatchCmd, EventManagerCmd, ServerEvent

LEMMA JobTypes ==
    ASSUME MsgInv, DeskInv, NEW j \in 1 .. MaxJobs, OfJob(j)
    PROVE  DeskInv'
<1>1. /\ j \in DOMAIN jobs /\ JobStep(j)
      /\ UNCHANGED <<subscriptions, outbox, supervisionVars, clientVars, replyVars, configs>>
  BY DEF OfJob, JobStep
<1>2. WorkersInv'
  BY <1>1, StepKeepsTypes DEF DeskInv
<1>3. jobs[j].unit \in Units
  BY <1>1 DEF MsgInv, JobsInv, IsSeq
<1>4. \A type \in ServerEventType : JobEvent(type, jobs[j].unit, j) \in EventManagerCmd
  BY <1>3, JobEventTypes, WorkersAssumption DEF WorkersAssumption
<1>5. BusTypes'
  BY <1>1, <1>4, StepSends, BusKeeps DEF DeskInv, DaemonEvent
<1> QED BY <1>1, <1>2, <1>5, DeskSame DEF DeskInv, supervisionVars, replyVars

(* The daemon thread. *)

Kinds == {"Ok", "List", "Version", "ServerNotFound", "ServerStarted", "ServerStopped"}
UnitList == [u \in DOMAIN servers |-> ServerInfo(u)]

\* What handle_cmd returns has the type of an answer, and so have the
\* subscriptions it makes.
Typed ==
    \E response \in Kinds, list \in {UnitList, None}, subs \in Seq(EventManagerCmd) :
        Returns(response, list, subs)

LEMMA UnitListTypes ==
    ASSUME UnitsInv, HandleInv
    PROVE  UnitList \in ServerLists
<1>1. ASSUME NEW u \in DOMAIN servers
      PROVE  ServerInfo(u) \in [process : Pids \cup {None}, status : ServerStatus]
  <2>1. servers[u] \in DaemonServer
    BY DEF UnitsInv, UnitTypes, SupervisionTypeOK
  <2>2. PICK p \in Pids \cup {None} : p = servers[u].process
    BY <2>1 DEF DaemonServer
  <2>3. Status(u) \in ServerStatus
    <3>1. CASE p = None
      BY <2>2, <3>1 DEF Status, ServerStatus
    <3>2. CASE p # None /\ phase[p] = "exited"
      BY <2>2, <3>2 DEF Status, ServerStatus
    <3>3. CASE p # None /\ phase[p] # "exited"
      <4>1. servers[u].status \in Pids
        BY <2>2, <3>3 DEF HandleInv
      <4>2. outputState[servers[u].status] \in OutputState
        BY <4>1 DEF UnitsInv, UnitTypes, ProcessTypeOK
      <4>3. StatusOf[outputState[servers[u].status]] \in ServerStatus
        BY <4>2 DEF StatusOf, OutputState, ServerStatus
      <4> QED BY <2>2, <3>3, <4>3 DEF Status
    <3> QED BY <3>1, <3>2, <3>3
  <2> QED BY <2>2, <2>3 DEF ServerInfo
<1>2. UnitList \in [DOMAIN servers -> [process : Pids \cup {None}, status : ServerStatus]]
  BY <1>1 DEF UnitList
<1>3. DOMAIN servers \in SUBSET Units
  BY DEF UnitsInv, UnitTypes, SupervisionTypeOK
<1> QED BY <1>2, <1>3 DEF ServerLists

LEMMA IncomingTypes ==
    ASSUME MsgInv, OrderInv, NEW kind, Incoming(kind)
    PROVE  /\ Head(queue).cmd \in Requests /\ Head(queue).id \in Clients
           /\ Head(queue).cmd.kind = kind
  BY UnitsOfIncoming DEF MsgInv, OrderInv, CountInv, Incoming

LEMMA NoSubscriptions == <<>> \in Seq(EventManagerCmd)
  OBVIOUS

LEMMA AddCmdTypes ==
    ASSUME NEW u \in Units, NEW t \in ServerEventType, NEW c \in Clients
    PROVE  AddCmd(u, t, c) \in EventManagerCmd
  BY DEF AddCmd, EventManagerCmd

LEMMA SubscriptionsTypes ==
    ASSUME NEW u \in Units, NEW types \in Seq(ServerEventType), Head(queue).id \in Clients
    PROVE  Subscriptions(u, types) \in Seq(EventManagerCmd)
<1>1. \A i \in 1 .. Len(types) : types[i] \in ServerEventType
  OBVIOUS
<1>2. \A i \in 1 .. Len(types) : AddCmd(u, types[i], Head(queue).id) \in EventManagerCmd
  BY <1>1, AddCmdTypes
<1>3. Len(types) \in Nat
  OBVIOUS
<1> QED BY <1>2, <1>3 DEF Subscriptions

LEMMA EventLists ==
    /\ <<"ServerStarting", "ServerStarted">> \in Seq(ServerEventType)
    /\ <<"ServerStopping", "ServerStopped">> \in Seq(ServerEventType)
    /\ <<"InstallationComplete", "InstallationFailed", "ActionProgress">>
           \in Seq(ServerEventType)
    /\ <<"UpdateComplete", "UpdateFailed", "ActionProgress">> \in Seq(ServerEventType)
  BY DEF ServerEventType

LEMMA CommandsTyped ==
    ASSUME UnitsInv, MsgInv, OrderInv, Commands
    PROVE  Typed
<1> DEFINE m == Head(queue)
           cmd == Head(queue).cmd
<1>1. CASE HandleList
  BY <1>1, NoSubscriptions DEF HandleList, Typed, Kinds, UnitList
<1>2. CASE HandleGetVersion \/ HandleUnknownServer \/ HandleInput \/ HandleStopDaemon
  BY <1>2, NoSubscriptions DEF HandleGetVersion, HandleUnknownServer, HandleInput,
     HandleStopDaemon, Typed, Kinds
<1>3. CASE HandleStart
  <2>1. m.id \in Clients /\ cmd.server_id \in Units
    BY <1>3, IncomingTypes DEF HandleStart, UnitsInv, UnitTypes, SupervisionTypeOK
  <2>2. Subscriptions(cmd.server_id, <<"ServerStarting", "ServerStarted">>)
            \in Seq(EventManagerCmd)
    BY <2>1, EventLists, SubscriptionsTypes
  <2> QED BY <1>3, <2>2, NoSubscriptions DEF HandleStart, Typed, Kinds
<1>4. CASE HandleStop
  <2>1. m.id \in Clients /\ cmd.server_id \in Units
    BY <1>4, IncomingTypes DEF HandleStop, UnitsInv, UnitTypes, SupervisionTypeOK
  <2>2. Subscriptions(cmd.server_id, <<"ServerStopping", "ServerStopped">>)
            \in Seq(EventManagerCmd)
    BY <2>1, EventLists, SubscriptionsTypes
  <2> QED BY <1>4, <2>2, NoSubscriptions DEF HandleStop, Typed, Kinds
<1>5. CASE HandleInstall
  <2>1. m.id \in Clients /\ cmd.unit_id \in Units
    BY <1>5, IncomingTypes, RequestTypes DEF HandleInstall
  <2>2. Subscriptions(cmd.unit_id,
            <<"InstallationComplete", "InstallationFailed", "ActionProgress">>)
            \in Seq(EventManagerCmd)
    BY <2>1, EventLists, SubscriptionsTypes
  <2> QED BY <1>5, <2>2 DEF HandleInstall, Typed, Kinds
<1>6. CASE HandleUpdate
  <2>1. m.id \in Clients /\ cmd.unit_id \in Units
    BY <1>6, IncomingTypes, RequestTypes DEF HandleUpdate
  <2>2. Subscriptions(cmd.unit_id, <<"UpdateComplete", "UpdateFailed", "ActionProgress">>)
            \in Seq(EventManagerCmd)
    BY <2>1, EventLists, SubscriptionsTypes
  <2> QED BY <1>6, <2>2 DEF HandleUpdate, Typed, Kinds
<1>7. CASE HandleSubscribeEvent
  <2>1. PICK subs : /\ Returns("Ok", None, subs)
                    /\ subs = IF cmd.server_ids = None THEN <<>>
                              ELSE [i \in 1 .. Len(cmd.server_ids) |->
                                      AddCmd(cmd.server_ids[i], cmd.event_type, m.id)]
    BY <1>7 DEF HandleSubscribeEvent
  <2>2. m.id \in Clients /\ cmd \in Requests /\ cmd.kind = "SubscribeEvent"
    BY <1>7, IncomingTypes DEF HandleSubscribeEvent
  <2>3. cmd.server_ids \in Seq(Units) \cup {None} /\ cmd.event_type \in ServerEventType
    BY <2>2, DaemonAssumption DEF DaemonAssumption, DaemonCmd, WorkerCmd
  <2>4. subs \in Seq(EventManagerCmd)
    <3>1. CASE cmd.server_ids = None
      BY <2>1, <3>1, NoSubscriptions
    <3>2. CASE cmd.server_ids # None
      <4>1. PICK ids \in Seq(Units) : ids = cmd.server_ids
        BY <2>3, <3>2
      <4>2. \A i \in 1 .. Len(ids) : AddCmd(ids[i], cmd.event_type, m.id) \in EventManagerCmd
        BY <2>2, <2>3, AddCmdTypes
      <4>3. subs = [i \in 1 .. Len(ids) |-> AddCmd(ids[i], cmd.event_type, m.id)]
        BY <2>1, <3>2, <4>1
      <4>4. Len(ids) \in Nat
        OBVIOUS
      <4> QED BY <4>2, <4>3, <4>4
    <3> QED BY <3>1, <3>2
  <2> QED BY <2>1, <2>4 DEF Typed, Kinds
<1> QED BY <1>1, <1>2, <1>3, <1>4, <1>5, <1>6, <1>7 DEF Commands

\* What a command does to the units.
LEMMA SpawnKeepsHandles ==
    ASSUME UnitsInv, HandleInv, NEW u \in DOMAIN servers, NEW next, Spawn(u, next)
    PROVE  HandleInv' /\ DOMAIN servers' = DOMAIN servers
<1>1. PICK p \in Pids :
          servers' = [servers EXCEPT ![u] = [process |-> p, status |-> p, input |-> p]]
  BY DEF Spawn, Unborn
<1>2. DOMAIN servers' = DOMAIN servers
  BY <1>1
<1>3. \A v \in DOMAIN servers :
          servers'[v] = IF v = u THEN [process |-> p, status |-> p, input |-> p]
                                 ELSE servers[v]
  BY <1>1
<1> QED BY <1>2, <1>3 DEF HandleInv

LEMMA CommandsUnits ==
    ASSUME UnitsInv, MsgInv, DeskInv, Commands
    PROVE  /\ HandleInv' /\ DOMAIN servers' = DOMAIN servers
           /\ pc' = "spawn" /\ Head(queue).cmd.kind = "UpdateServer"
                  => Head(queue).cmd.unit_id \in DOMAIN servers
<1>1. CASE HandleStart
  <2>1. PICK u \in DOMAIN servers : StartUnit(u)
    BY <1>1 DEF HandleStart
  <2>2. pc' # "spawn"
    BY <2>1 DEF StartUnit, Spawn, Panic, Dies
  <2>3. CASE Spawn(u, "reply")
    BY <2>2, <2>3, SpawnKeepsHandles DEF DeskInv
  <2>4. CASE ~Spawn(u, "reply")
    BY <2>1, <2>2, <2>4, DeskSame DEF StartUnit, Panic, Dies, DeskInv
  <2> QED BY <2>3, <2>4
<1>2. CASE HandleStop
  BY <1>2, DeskSame DEF HandleStop, StopUnit, DeskInv
<1>3. CASE HandleInput
  <2>1. UNCHANGED servers /\ pc' # "spawn"
    BY <1>3 DEF HandleInput, SendCommand, Panic, Dies
  <2> QED BY <2>1, DeskSame DEF DeskInv
<1>4. CASE HandleUpdate
  BY <1>4, DeskSame DEF HandleUpdate, UnitsUnchanged, DeskInv
<1>5. CASE HandleInstall
  <2>1. Head(queue).cmd.kind = "InstallServer"
    BY <1>5 DEF HandleInstall, Incoming
  <2> QED BY <1>5, <2>1, DeskSame DEF HandleInstall, UnitsUnchanged, DeskInv
<1>6. CASE HandleList \/ HandleGetVersion \/ HandleUnknownServer \/ HandleSubscribeEvent
           \/ HandleStopDaemon
  <2>1. UNCHANGED servers /\ pc' = "reply"
    BY <1>6 DEF HandleList, HandleGetVersion, HandleUnknownServer, HandleSubscribeEvent,
       HandleStopDaemon, UnitsUnchanged
  <2> QED BY <2>1, DeskSame DEF DeskInv
<1> QED BY <1>1, <1>2, <1>3, <1>4, <1>5, <1>6 DEF Commands

LEMMA CommandsRest ==
    ASSUME MsgInv, Commands
    PROVE  UNCHANGED <<subscriptions, outbox, workVars, clientVars, inbox>>
  BY DEF Commands, HandleList, HandleGetVersion, HandleUnknownServer, HandleStart, HandleStop,
     HandleSubscribeEvent, HandleInput, HandleStopDaemon, HandleInstall, HandleUpdate,
     Incoming, Rest

\* The command at the head of the queue is now in hand.
LEMMA CommandInHand ==
    ASSUME UnitsInv, MsgInv, OrderInv, DeskInv, Commands
    PROVE  /\ todo' \in Seq(EventManagerCmd)
           /\ \E a \in Answering : /\ answering' = a
                                   /\ a.client_id = Head(queue).id
                                   /\ a.response.to = Head(queue).cmd
<1>1. Handled
  BY QuietCommands, SubscribeKeeps, StartKeeps, StopKeeps, InputKeeps DEF Commands, MsgInv
<1>2. PICK response \in Kinds, list \in {UnitList, None}, subs \in Seq(EventManagerCmd) :
          Returns(response, list, subs)
  BY CommandsTyped DEF Typed
<1>3. PICK a : a = answering'
  OBVIOUS
<1>4. /\ a = [client_id |-> Head(queue).id, response |-> Answer(Head(queue).cmd, response, list)]
      /\ todo' = subs
  BY <1>2, <1>3 DEF Returns
<1>5. Head(queue).id \in Clients /\ Head(queue).cmd \in Requests
  BY <1>1, HeadIsElem DEF MsgInv, QueueInv, FineMsg, Handled, OrderInv, CountInv
<1>6. a \in Answering
  <2>1. list \in ServerLists \cup {None}
    BY UnitListTypes DEF DeskInv
  <2>2. Answer(Head(queue).cmd, response, list) \in AnswerMessage
    BY <1>5, <2>1 DEF Answer, AnswerMessage, Kinds
  <2> QED BY <1>4, <1>5, <2>2 DEF Answering
<1> QED BY <1>3, <1>4, <1>6 DEF Answer

LEMMA CommandsTypes ==
    ASSUME UnitsInv, MsgInv, OrderInv, DeskInv, Commands
    PROVE  DeskInv'
<1>1. Handled /\ UNCHANGED <<subscriptions, outbox, workVars, clientVars, inbox>>
  BY QuietCommands, SubscribeKeeps, StartKeeps, StopKeeps, InputKeeps, CommandsRest
     DEF Commands, MsgInv
<1>2. PICK a \in Answering : a = answering' /\ a.response.to = Head(queue).cmd
  BY CommandInHand
<1>3. ReplyTypes' /\ ClientTypes' /\ WorkersInv'
  BY <1>1, <1>2, CommandInHand, NoWorkKeepsTypes, DeskSame DEF DeskInv, ReplyTypes
<1>4. BusTypes'
  <2>1. queue' \in Seq(DaemonEvent)
    <3>1. queue # <<>> /\ queue \in Seq(DaemonEvent)
      BY <1>1 DEF Handled, DeskInv, BusTypes
    <3>2. Tail(queue) \in Seq(DaemonEvent)
      BY <3>1
    <3> QED BY <1>1, <3>2, StoppedTypes, SeqMoves DEF Handled
  <2> QED BY <1>1, <2>1 DEF Handled, DeskInv, BusTypes, ManagerTypeOK
<1>5. HandInv'
  <2>1. ~sweeping /\ UNCHANGED sweeping
    BY <1>1 DEF Handled, OrderInv, FlagInv
  <2> QED BY <1>1, <1>2, <2>1 DEF Handled, HandInv, Preparing, Up
<1>6. MeetInv'
  <2>1. DOMAIN configs' = DOMAIN servers' /\ DOMAIN servers' = DOMAIN servers
    BY <1>1, CommandsUnits DEF workVars, DeskInv, MeetInv
  <2>2. pc' = "spawn" /\ Head(queue).cmd.kind = "UpdateServer"
            => Head(queue).cmd.unit_id \in DOMAIN servers
    BY CommandsUnits
  <2> QED BY <1>2, <2>1, <2>2 DEF MeetInv
<1> QED BY <1>3, <1>4, <1>5, <1>6, CommandsUnits DEF DeskInv

LEMMA OfUnitsTypes ==
    ASSUME UnitsInv, OrderInv, DeskInv, Up, OfUnits
    PROVE  DeskInv'
<1>1. /\ UNCHANGED <<subscriptions, outbox, workVars, clientVars, replyVars>>
      /\ Autostart \/ StartThread \/ WriteStop \/ Sweep
  BY DEF OfUnits
<1>2. UNCHANGED eventQueue
  BY <1>1 DEF Autostart, StartThread, WriteStop, Sweep, Visit, HasStarted, Wait, EndSweep
<1>3. UNCHANGED queue \/ queue' = Append(queue, DaemonStopped)
  BY <1>1 DEF Autostart, StartThread, WriteStop, Sweep, Visit, HasStarted, Wait, EndSweep
<1>4. BusTypes' /\ ClientTypes' /\ ReplyTypes' /\ WorkersInv'
  BY <1>1, <1>2, <1>3, StoppedTypes, BusKeeps, NoWorkKeepsTypes, DeskSame DEF DeskInv
<1>5. pc' # "spawn" /\ UNCHANGED answering
  BY <1>1 DEF Autostart, Spawn, Dies, StartThread, WriteStop, Panic, Sweep, Visit, HasStarted,
     Wait, EndSweep, Up, replyVars
<1>6. HandleInv' /\ DOMAIN servers' = DOMAIN servers
  <2>1. CASE Autostart
    <3>1. CASE UNCHANGED servers
      BY <3>1, DeskSame DEF DeskInv
    <3>2. CASE ~UNCHANGED servers
      BY <2>1, <3>2, SpawnKeepsHandles DEF Autostart, Dies, DeskInv
    <3> QED BY <3>1, <3>2
  <2>2. CASE WriteStop
    <3>1. CASE UNCHANGED servers
      BY <3>1, DeskSame DEF DeskInv
    <3>2. CASE ~UNCHANGED servers
      <4>1. servers' = [servers EXCEPT ![target].process = None]
        BY <2>2, <3>2 DEF WriteStop, Panic, Dies
      <4>2. target \in DOMAIN servers
        BY <2>2 DEF UnitsInv, TargetInv, WriteStop
      <4>3. PICK s \in DaemonServer : s = servers[target]
        BY <4>2 DEF UnitsInv, UnitTypes, SupervisionTypeOK
      <4>4. \A u \in DOMAIN servers :
                servers'[u] = IF u = target THEN [s EXCEPT !.process = None] ELSE servers[u]
        BY <4>1, <4>3
      <4>5. [s EXCEPT !.process = None].process = None
        BY DEF DaemonServer
      <4> QED BY <4>1, <4>4, <4>5 DEF DeskInv, HandleInv
    <3> QED BY <3>1, <3>2
  <2>3. CASE StartThread \/ Sweep
    <3>1. UNCHANGED servers
      BY <2>3 DEF StartThread, Sweep, Visit, HasStarted, Wait, EndSweep
    <3> QED BY <3>1, DeskSame DEF DeskInv
  <2> QED BY <1>1, <2>1, <2>2, <2>3
<1>7. MeetInv'
  BY <1>1, <1>5, <1>6 DEF DeskInv, MeetInv, workVars
<1>8. HandInv'
  <2>1. CASE Autostart
    BY <1>5, <2>1 DEF Autostart, Spawn, Dies, DeskInv, HandInv, Preparing, Up
  <2>2. CASE StartThread
    BY <1>5, <2>2 DEF StartThread, DeskInv, HandInv, Preparing, Up
  <2>3. CASE WriteStop
    <3>1. UNCHANGED sweeping /\ pc' \in {"panicked", IF sweeping THEN "wait" ELSE "reply"}
      BY <2>3 DEF WriteStop, Panic, Dies
    <3> QED BY <1>5, <2>3, <3>1 DEF WriteStop, DeskInv, HandInv, Preparing, Up
  <2>4. CASE Sweep
    <3>1. sweeping /\ pc \in {"sweep", "starting", "wait"}
      BY <2>4 DEF Sweep, Visit, HasStarted, Wait, EndSweep, OrderInv, FlagInv
    <3>2. \/ UNCHANGED sweeping /\ pc' \in {"sweep", "starting", "wait", "write"}
          \/ pc' = "recv"
      BY <2>4, <3>1 DEF Sweep, Visit, HasStarted, Wait, EndSweep
    <3> QED BY <1>5, <3>1, <3>2 DEF DeskInv, HandInv, Preparing, Up
  <2> QED BY <1>1, <2>1, <2>2, <2>3, <2>4
<1> QED BY <1>4, <1>6, <1>7, <1>8 DEF DeskInv

LEMMA AnswerTypes ==
    ASSUME UnitsInv, MsgInv, OrderInv, DeskInv, SendSubscription \/ SpawnWorker
    PROVE  DeskInv'
<1>1. CASE SendSubscription
  <2>1. /\ UNCHANGED <<subscriptions, outbox, clientVars, workVars, servers, sweeping, pc,
                       queue, inbox, answering>>
        /\ todo # <<>> /\ todo' = Tail(todo)
        /\ eventQueue' = Append(eventQueue, Head(todo))
    BY <1>1 DEF SendSubscription, Elsewhere
  <2>2. Head(todo) \in EventManagerCmd /\ todo' \in Seq(EventManagerCmd)
    BY <2>1 DEF DeskInv, ReplyTypes
  <2>3. BusTypes' /\ ReplyTypes'
    BY <2>1, <2>2, BusKeeps DEF DeskInv, ReplyTypes
  <2>4. MeetInv'
    BY <2>1, DeskSame DEF DeskInv, workVars
  <2> QED BY <2>1, <2>3, <2>4, NoWorkKeepsTypes, DeskSame DEF DeskInv
<1>2. CASE SpawnWorker
  <2>1. PICK cmd :
        /\ cmd = answering.response.to
        /\ UNCHANGED <<subscriptions, outbox, clientVars, published, configs, dirs, files,
                       servers, sweeping, queue, inbox, answering, todo>>
        /\ pc = "spawn" /\ pc' = "reply"
        /\ \/ /\ cmd.kind = "InstallServer" /\ UNCHANGED jobs
              /\ eventQueue' = Append(eventQueue,
                                      JobEvent("InstallationFailed", cmd.unit_id, 0))
           \/ Spawned(cmd) /\ UNCHANGED eventQueue
    BY <1>2 DEF SpawnWorker
  <2>2. cmd \in Requests /\ cmd.kind \in {"InstallServer", "UpdateServer"}
    BY <2>1 DEF MsgInv, AnswerInv
  <2>3. cmd \in WorkerCmd /\ cmd.unit_id \in Units
    BY <2>2, DaemonAssumption DEF DaemonAssumption, DaemonCmd, WorkerCmd
  <2>4. cmd.kind = "UpdateServer" => cmd.unit_id \in DOMAIN configs
    BY <2>1 DEF DeskInv, MeetInv
  <2>5. WorkersInv'
    <3>1. CASE UNCHANGED jobs
      BY <2>1, <3>1, NoWorkKeepsTypes DEF DeskInv, workVars
    <3>2. CASE Spawned(cmd)
      BY <2>1, <2>3, <2>4, <3>2, SpawnKeepsTypes DEF DeskInv
    <3> QED BY <2>1, <3>1, <3>2
  <2>6. BusTypes'
    <3>1. 0 \in 0 .. MaxJobs /\ "InstallationFailed" \in ServerEventType
      BY WorkersAssumption DEF WorkersAssumption, ServerEventType
    <3> QED BY <2>1, <2>3, <3>1, JobEventTypes, BusKeeps DEF DeskInv
  <2>7. HandInv'
    BY <2>1 DEF DeskInv, HandInv, Preparing, Up
  <2>8. MeetInv' /\ ReplyTypes' /\ ClientTypes' /\ HandleInv'
    BY <2>1, DeskSame DEF DeskInv, replyVars
  <2> QED BY <2>5, <2>6, <2>7, <2>8 DEF DeskInv
<1> QED BY <1>1, <1>2

\* A response is sent, or the client's subscriptions are to be removed.
LEMMA DeliverTypes ==
    ASSUME DeskInv, NEW c \in Clients, NEW r \in DaemonResponse, Deliver(c, r)
    PROVE  /\ inbox' \in [Clients -> Seq(DaemonResponse)]
           /\ \/ UNCHANGED eventQueue
              \/ \E x \in EventManagerCmd : eventQueue' = Append(eventQueue, x)
<1>1. Append(inbox[c], r) \in Seq(DaemonResponse)
  BY DEF DeskInv, ReplyTypes
<1> QED BY <1>1, RemoveTypes DEF Deliver, DeskInv, ReplyTypes

LEMMA ReplyHandTypes ==
    ASSUME MsgInv, OrderInv, DeskInv, Up, Reply \/ HandOut
    PROVE  DeskInv'
<1>1. CASE Reply
  <2>1. PICK c, r :
        /\ UNCHANGED <<subscriptions, outbox, clientVars, workVars, servers, sweeping, queue, todo>>
        /\ pc = "reply" /\ answering' = None /\ pc' \in {"recv", "panicked"}
        /\ c = answering.client_id /\ r = answering.response
        /\ \/ c \in senders /\ Deliver(c, r)
           \/ UNCHANGED <<inbox, eventQueue>>
    BY <1>1 DEF Reply, Elsewhere
  <2>2. c \in Clients /\ r \in DaemonResponse
    BY <2>1 DEF DeskInv, HandInv, Preparing, Answering, DaemonResponse
  <2>3. /\ inbox' \in [Clients -> Seq(DaemonResponse)]
        /\ \/ UNCHANGED eventQueue
           \/ \E x \in EventManagerCmd : eventQueue' = Append(eventQueue, x)
    BY <2>1, <2>2, DeliverTypes DEF DeskInv, ReplyTypes
  <2>4. BusTypes' /\ ReplyTypes'
    BY <2>1, <2>3, BusKeeps DEF DeskInv, ReplyTypes
  <2>5. HandInv'
    BY <2>1 DEF OrderInv, FlagInv, HandInv, Preparing
  <2>6. MeetInv'
    BY <2>1, DeskSame DEF DeskInv, workVars
  <2> QED BY <2>1, <2>4, <2>5, <2>6, NoWorkKeepsTypes, DeskSame DEF DeskInv
<1>2. CASE HandOut
  <2>1. PICK m :
        /\ UNCHANGED <<subscriptions, outbox, clientVars, workVars, servers, sweeping, answering,
                       todo>>
        /\ pc = "recv" /\ pc' \in {"recv", "panicked"}
        /\ queue # <<>> /\ m = Head(queue) /\ queue' = Tail(queue) /\ m.kind = "SendEvent"
        /\ \/ m.client_id \in senders /\ Deliver(m.client_id, EventResponse(m.event))
           \/ UNCHANGED <<inbox, eventQueue>>
    BY <1>2 DEF HandOut, Elsewhere
  <2>2. m \in SendEvents
    <3>1. m \in DaemonEvent
      BY <2>1 DEF DeskInv, BusTypes
    <3> QED BY <2>1, <3>1 DEF DaemonEvent, SendEvents, AddServerUnitEvents, StopDaemonEvent,
               DaemonStopped
  <2>3. m.client_id \in Clients /\ EventResponse(m.event) \in DaemonResponse
    BY <2>2 DEF SendEvents, EventResponse, DaemonResponse
  <2>4. /\ inbox' \in [Clients -> Seq(DaemonResponse)]
        /\ \/ UNCHANGED eventQueue
           \/ \E x \in EventManagerCmd : eventQueue' = Append(eventQueue, x)
    BY <2>1, <2>3, DeliverTypes DEF DeskInv, ReplyTypes
  <2>5. BusTypes' /\ ReplyTypes'
    BY <2>1, <2>4, BusKeeps DEF DeskInv, ReplyTypes
  <2>6. HandInv'
    BY <2>1 DEF DeskInv, HandInv, Preparing, Up
  <2>7. MeetInv'
    BY <2>1, DeskSame DEF DeskInv, workVars
  <2> QED BY <2>1, <2>5, <2>6, <2>7, NoWorkKeepsTypes, DeskSame DEF DeskInv
<1> QED BY <1>1, <1>2

LEMMA TakeUnitTypesAll ==
    ASSUME DeskInv, TakeUnit
    PROVE  DeskInv'
<1>1. PICK m :
      /\ UNCHANGED <<subscriptions, outbox, eventQueue, clientVars, replyVars, published, jobs,
                     dirs, files, pc, sweeping>>
      /\ pc = "recv" /\ queue # <<>> /\ m = Head(queue) /\ queue' = Tail(queue)
      /\ m.kind = "AddServerUnit" /\ AddServerUnit(m.unit_id) /\ Added(m)
  BY DEF TakeUnit, AddServerUnit
<1>2. m \in AddServerUnitEvents
  <2>1. m \in DaemonEvent
    BY <1>1 DEF DeskInv, BusTypes
  <2> QED BY <1>1, <2>1 DEF DaemonEvent, SendEvents, AddServerUnitEvents, StopDaemonEvent,
             DaemonStopped
<1>3. WorkersInv'
  BY <1>1, <1>2, AddedKeepsTypes DEF DeskInv
<1>4. BusTypes'
  BY <1>1, BusKeeps DEF DeskInv
<1>5. HandInv' /\ ReplyTypes' /\ ClientTypes'
  BY <1>1, DeskSame DEF DeskInv, replyVars
<1>6. /\ DOMAIN servers' = DOMAIN servers \cup {m.unit_id}
      /\ DOMAIN configs' = DOMAIN configs \cup {m.unit_id}
      /\ \A u \in DOMAIN servers' :
             servers'[u] = IF u = m.unit_id THEN NotStarted ELSE servers[u]
  BY <1>1 DEF AddServerUnit, Added
<1>7. MeetInv' /\ HandleInv'
  BY <1>1, <1>6 DEF DeskInv, MeetInv, HandleInv, NotStarted
<1> QED BY <1>3, <1>4, <1>5, <1>7 DEF DeskInv

LEMMA EndTypes ==
    ASSUME OrderInv, DeskInv, Up, TakeStopDaemon \/ Broadcast \/ ExitDaemon
    PROVE  DeskInv'
<1>1. /\ UNCHANGED <<subscriptions, outbox, eventQueue, clientVars, workVars, servers,
                     answering, todo>>
      /\ (queue # <<>> /\ queue' = Tail(queue)) \/ UNCHANGED queue
      /\ pc \in {"recv", "closing"} /\ pc' \in {"sweep", "closing", "exited"}
  BY DEF TakeStopDaemon, Broadcast, ExitDaemon, BeginSweep, Rest, Elsewhere
<1>2. inbox' \in [Clients -> Seq(DaemonResponse)]
  <2>1. CASE Broadcast
    <3>1. StoppedResponse \in DaemonResponse
      BY DEF DaemonResponse
    <3>2. \A c \in Clients : inbox[c] \in Seq(DaemonResponse)
                             /\ Append(inbox[c], StoppedResponse) \in Seq(DaemonResponse)
      BY <3>1 DEF DeskInv, ReplyTypes
    <3> QED BY <2>1, <3>2 DEF Broadcast
  <2>2. CASE ~Broadcast
    BY <2>2 DEF TakeStopDaemon, ExitDaemon, Rest, Elsewhere, DeskInv, ReplyTypes
  <2> QED BY <2>1, <2>2
<1>3. BusTypes' /\ ReplyTypes'
  BY <1>1, <1>2, BusKeeps DEF DeskInv, ReplyTypes
<1>4. HandInv'
  BY <1>1 DEF DeskInv, HandInv, Preparing, Up
<1>5. MeetInv'
  BY <1>1, DeskSame DEF DeskInv, workVars
<1> QED BY <1>1, <1>3, <1>4, <1>5, NoWorkKeepsTypes, DeskSame DEF DeskInv

LEMMA DeskInit ==
    ASSUME Init
    PROVE  DeskInv
<1>1. BusTypes
  <2>1. <<>> \in Seq(DaemonEvent) /\ <<>> \in Seq(EventManagerCmd) /\ <<>> \in Seq(SendEvents)
        /\ <<>> \in Seq(Clients)
    OBVIOUS
  <2> QED BY <2>1 DEF Init, ManagerInit, BusTypes, ManagerTypeOK
<1>2. ClientTypes /\ ReplyTypes
  <2>1. <<>> \in Seq(Requests) /\ <<>> \in Seq(DaemonResponse) /\ <<>> \in Seq(EventManagerCmd)
        /\ 0 \in 0 .. MaxRefusals
    BY DaemonAssumption DEF DaemonAssumption
  <2> QED BY <2>1 DEF Init, ClientTypes, ReplyTypes
<1>3. WorkersInv
  BY WorkersInitTypes, DaemonAssumption DEF DaemonAssumption, Init
<1>4. PICK list \in AutostartLists : SupervisionInit(Known, list)
  BY DEF Init
<1>5. HandInv
  BY <1>4 DEF Init, SupervisionInit, HandInv, Preparing
<1>6. MeetInv /\ HandleInv
  BY <1>4, DaemonAssumption DEF DaemonAssumption, Init, SupervisionInit, MeetInv, HandleInv,
     NotStarted
<1> QED BY <1>1, <1>2, <1>3, <1>5, <1>6 DEF DeskInv

LEMMA DeskNext ==
    ASSUME UnitsInv, MsgInv, MsgInv', OrderInv, OrderInv', DeskInv, [Next]_daemonVars
    PROVE  DeskInv'
<1>1. CASE UNCHANGED daemonVars
  <2>1. UNCHANGED <<managerVars, workVars, clientVars, replyVars, supervisionVars>>
    BY <1>1 DEF daemonVars
  <2>2. BusTypes'
    BY <2>1 DEF DeskInv, BusTypes, ManagerTypeOK, managerVars
  <2> QED BY <2>1, <2>2, NoWorkKeepsTypes, DeskSame DEF DeskInv, workVars, replyVars,
             supervisionVars
<1>2. CASE Next
  <2>1. Up
    BY <1>2 DEF Next
  <2>2. CASE Threads
    <3>1. CASE DaemonThread
      BY <2>1, <3>1, CommandsTypes, OfUnitsTypes, AnswerTypes, ReplyHandTypes, TakeUnitTypesAll,
         EndTypes DEF DaemonThread
    <3>2. CASE \E c \in Clients : Relay(c) \/ Hangup(c)
      BY <3>2, ClientThreadTypes
    <3>3. CASE \E j \in 1 .. MaxJobs : OfJob(j)
      BY <3>3, JobTypes
    <3> QED
      BY <2>2, <3>1, <3>2, <3>3, AcceptorTypes, ManagerTypes, ServersTypes DEF Threads
  <2>3. CASE \E c \in Clients, cmd \in Requests : Send(c, cmd)
    BY <2>3, ClientThreadTypes
  <2>4. CASE \E c \in Leavers : Disconnect(c)
    BY <2>4, ClientThreadTypes, DaemonAssumption DEF DaemonAssumption
  <2> QED BY <1>2, <2>2, <2>3, <2>4 DEF Next
<1> QED BY <1>1, <1>2

\* Everything that the threads keep and send one another has its type, whatever
\* units are installed, commands sent and servers started meanwhile: an event
\* names a unit and a known type, an answer is one of those handle_cmd makes, and
\* the configurations are those of the units the daemon has.
THEOREM DaemonTypes == Spec => []TypeOK
<1>1. Init => OrderInv /\ DeskInv
  BY OrderInit, DeskInit
<1>2. (UnitsInv /\ MsgInv) /\ (UnitsInv /\ MsgInv)' /\ OrderInv /\ DeskInv
          /\ [Next]_daemonVars => (OrderInv /\ DeskInv)'
  BY OrderNext, OrderStutter, DeskNext
<1>3. UnitsInv /\ MsgInv /\ OrderInv /\ DeskInv => TypeOK
  BY TypesFollow
<1> QED BY <1>1, <1>2, <1>3, DaemonInv, PTL DEF Spec


(***************************************************************************)
(* Places in a set of positions.                                           *)
(***************************************************************************)

\* A set of positions up to some n.
Positions(S) == \E n \in Nat : S \subseteq 1 .. n

LEMMA UpToIsFinite == \A n \in Nat : \A S \in SUBSET (1 .. n) : IsFiniteSet(S)
<1>1. \A n \in Nat : IsFiniteSet(1 .. n)
  BY FS_Interval
<1> QED BY <1>1, FS_Subset

LEMMA PositionsAre ==
    ASSUME NEW S, Positions(S)
    PROVE  /\ IsFiniteSet(S) /\ Cardinality(S) \in Nat
           /\ \A i \in S : i \in Nat /\ i >= 1
           /\ \A i : Place(S, i) \in 0 .. Cardinality(S)
           /\ \A i \in S : Place(S, i) \in 1 .. Cardinality(S)
<1>1. PICK n \in Nat : S \subseteq 1 .. n
  BY DEF Positions
<1>2. IsFiniteSet(S) /\ Cardinality(S) \in Nat
  BY <1>1, UpToIsFinite, FS_Subset, FS_CardinalityType
<1>3. ASSUME NEW i
      PROVE  /\ Place(S, i) \in 0 .. Cardinality(S)
             /\ i \in S => Place(S, i) \in 1 .. Cardinality(S)
  <2> DEFINE below == {k \in S : k <= i}
  <2>1. IsFiniteSet(below) /\ Cardinality(below) \in 0 .. Cardinality(S)
    BY <1>2, FS_Subset, FS_CardinalityType
  <2>2. i \in S => below # {}
    BY <1>1
  <2>3. i \in S => Cardinality(below) # 0
    BY <2>1, <2>2, FS_EmptySet
  <2> QED BY <2>1, <2>3 DEF Place
<1> QED BY <1>1, <1>2, <1>3

\* A position after all the others is the last.
LEMMA PlaceOfLast ==
    ASSUME NEW n \in Nat, NEW S \in SUBSET (1 .. n)
    PROVE  LET T == S \cup {n + 1}
           IN /\ Cardinality(T) = Cardinality(S) + 1
              /\ \A i \in S : Place(T, i) = Place(S, i)
              /\ Place(T, n + 1) = Cardinality(S) + 1
<1> DEFINE T == S \cup {n + 1}
<1>1. IsFiniteSet(S) /\ n + 1 \notin S
  BY UpToIsFinite
<1>2. Cardinality(T) = Cardinality(S) + 1
  BY <1>1, FS_AddElement
<1>3. ASSUME NEW i \in S
      PROVE  Place(T, i) = Place(S, i)
  <2>1. i \in Nat /\ i <= n /\ ~(n + 1 <= i)
    OBVIOUS
  <2>2. {k \in T : k <= i} = {k \in S : k <= i}
    BY <2>1
  <2> QED BY <2>2 DEF Place
<1>4. {k \in T : k <= n + 1} = T
  <2>1. \A k \in T : k <= n + 1
    OBVIOUS
  <2> QED BY <2>1
<1> QED BY <1>2, <1>3, <1>4 DEF Place

\* One position less for all of them: the first, if there is one, is gone.
Shifted(S) == {i \in Nat \ {0} : i + 1 \in S}

LEMMA ShiftedCount ==
    ASSUME NEW S, Positions(S)
    PROVE  /\ Positions(Shifted(S))
           /\ Cardinality(Shifted(S)) = Cardinality(S) - (IF 1 \in S THEN 1 ELSE 0)
<1>1. PICK n \in Nat : S \subseteq 1 .. n
  BY DEF Positions
<1> DEFINE T == Shifted(S)
           f == [i \in T |-> i + 1]
<1>2. T \subseteq 1 .. n
  BY <1>1 DEF Shifted
<1>3. IsFiniteSet(T) /\ IsFiniteSet(S)
  BY <1>1, <1>2, UpToIsFinite
<1>4. f \in Bijection(T, S \ {1})
  <2>1. \A i \in T : i \in Nat /\ i >= 1 /\ i + 1 \in S \ {1}
    BY DEF Shifted
  <2>2. f \in [T -> S \ {1}]
    BY <2>1
  <2>3. \A i, k \in T : f[i] = f[k] => i = k
    BY <2>1
  <2>4. \A k \in S \ {1} : \E i \in T : f[i] = k
    <3>1. ASSUME NEW k \in S \ {1}
          PROVE  k - 1 \in T /\ f[k - 1] = k
      BY <1>1 DEF Shifted
    <3> QED BY <3>1
  <2> QED BY <2>2, <2>3, <2>4 DEF Bijection, Injection, Surjection, IsInjective
<1>5. Cardinality(T) = Cardinality(S \ {1})
  BY <1>3, <1>4, FS_Bijection DEF ExistsBijection
<1>6. Cardinality(S) \in Nat
  BY <1>3, FS_CardinalityType
<1>7. Cardinality(S \ {1}) = Cardinality(S) - (IF 1 \in S THEN 1 ELSE 0)
  <2>1. Cardinality(S \ {1}) = IF 1 \in S THEN Cardinality(S) - 1 ELSE Cardinality(S)
    BY <1>3, FS_RemoveElement, Zenon
  <2> QED BY <1>6, <2>1
<1>8. Positions(Shifted(S))
  BY <1>2 DEF Positions
<1> QED BY <1>5, <1>7, <1>8

LEMMA ShiftedPlace ==
    ASSUME NEW S, Positions(S), NEW i \in Nat
    PROVE  Place(Shifted(S), i) = Place(S, i + 1) - (IF 1 \in S THEN 1 ELSE 0)
<1> DEFINE below == {k \in S : k <= i + 1}
<1>1. Positions(below)
  BY DEF Positions
<1>2. {k \in Shifted(S) : k <= i} = Shifted(below)
  BY DEF Shifted
<1>3. 1 \in below <=> 1 \in S
  OBVIOUS
<1> QED BY <1>1, <1>2, <1>3, ShiftedCount DEF Place

LEMMA FirstPlace ==
    ASSUME NEW S, Positions(S), 1 \in S
    PROVE  Place(S, 1) = 1
<1>1. {k \in S : k <= 1} = {1}
  BY PositionsAre
<1> QED BY <1>1, FS_Singleton DEF Place

(***************************************************************************)
(* The messages of a kind in a sequence, and what they say.                *)
(***************************************************************************)

Where(s, M) == {i \in DOMAIN s : s[i] \in M}
Count(s, M) == Cardinality(Where(s, M))

\* What f reads in the messages from M in s is what stands in rs after base.
Says(s, M, f, rs, base) ==
    \A i \in Where(s, M) : f[s[i]] = rs[base + Place(Where(s, M), i)]

LEMMA WhereIs ==
    ASSUME NEW T, NEW s \in Seq(T), NEW M
    PROVE  /\ Len(s) \in Nat /\ Where(s, M) \in SUBSET (1 .. Len(s)) /\ Positions(Where(s, M))
           /\ Count(s, M) \in Nat
           /\ \A i \in Where(s, M) : Place(Where(s, M), i) \in 1 .. Count(s, M)
<1>1. Len(s) \in Nat /\ Where(s, M) \in SUBSET (1 .. Len(s)) /\ Positions(Where(s, M))
  BY DEF Where, Positions
<1> QED BY <1>1, PositionsAre DEF Count

\* t is s with x at its end.
Adds(s, t, x) ==
    /\ IsSeq(t) /\ Len(t) = Len(s) + 1
    /\ \A i \in 1 .. Len(s) : t[i] = s[i]
    /\ t[Len(s) + 1] = x

LEMMA AppendAdds ==
    ASSUME NEW s, IsSeq(s), NEW x
    PROVE  Adds(s, Append(s, x), x)
  BY AppendEntries, AppendIsSeq DEF Adds

LEMMA WhereAppend ==
    ASSUME NEW T, NEW s \in Seq(T), NEW t, NEW x, Adds(s, t, x), NEW M
    PROVE  /\ x \notin M => Where(t, M) = Where(s, M)
           /\ x \in M => Where(t, M) = Where(s, M) \cup {Len(s) + 1}
           /\ \A i \in Where(s, M) : t[i] = s[i]
           /\ t[Len(s) + 1] = x
<1>1. /\ Len(s) \in Nat /\ DOMAIN s = 1 .. Len(s) /\ DOMAIN t = 1 .. Len(s) + 1
      /\ \A i \in 1 .. Len(s) : t[i] = s[i]
      /\ t[Len(s) + 1] = x
  BY DEF Adds, IsSeq
<1>2. DOMAIN t = (1 .. Len(s)) \cup {Len(s) + 1}
  BY <1>1
<1>3. \A i \in 1 .. Len(s) : i \in Where(t, M) <=> i \in Where(s, M)
  BY <1>1, <1>2 DEF Where
<1>4. Len(s) + 1 \in Where(t, M) <=> x \in M
  BY <1>1, <1>2 DEF Where
<1>5. Where(s, M) \subseteq 1 .. Len(s) /\ Where(t, M) \subseteq (1 .. Len(s)) \cup {Len(s) + 1}
  BY <1>1, <1>2 DEF Where
<1>6. x \notin M => Where(t, M) = Where(s, M)
  BY <1>3, <1>4, <1>5
<1>7. x \in M => Where(t, M) = Where(s, M) \cup {Len(s) + 1}
  BY <1>3, <1>4, <1>5
<1> QED BY <1>1, <1>5, <1>6, <1>7

LEMMA WhereTail ==
    ASSUME NEW T, NEW s \in Seq(T), s # <<>>, NEW M
    PROVE  /\ Where(Tail(s), M) = Shifted(Where(s, M))
           /\ 1 \in Where(s, M) <=> Head(s) \in M
           /\ \A i \in Where(Tail(s), M) : i \in Nat /\ i + 1 \in Where(s, M) /\ Tail(s)[i] = s[i + 1]
           /\ Head(s) = s[1]
<1>1. /\ Len(s) \in Nat /\ Len(s) >= 1 /\ DOMAIN s = 1 .. Len(s)
      /\ DOMAIN Tail(s) = 1 .. Len(s) - 1
      /\ \A i \in 1 .. Len(s) - 1 : Tail(s)[i] = s[i + 1]
      /\ Head(s) = s[1]
  OBVIOUS
<1>2. \A i \in Nat \ {0} : i \in 1 .. Len(s) - 1 <=> i + 1 \in 1 .. Len(s)
  BY <1>1
<1>3. \A i \in 1 .. Len(s) - 1 : i \in Nat \ {0}
  OBVIOUS
<1>4. ASSUME NEW i
      PROVE  i \in Where(Tail(s), M) <=> i \in Shifted(Where(s, M))
  BY <1>1, <1>2, <1>3 DEF Where, Shifted
<1>5. 1 \in Where(s, M) <=> Head(s) \in M
  BY <1>1 DEF Where
<1>6. \A i \in Where(Tail(s), M) : i \in Nat /\ i + 1 \in Where(s, M) /\ Tail(s)[i] = s[i + 1]
  BY <1>1, <1>2, <1>3 DEF Where
<1> QED BY <1>1, <1>4, <1>5, <1>6

\* A message of another kind is sent.
LEMMA SaysOther ==
    ASSUME NEW T, NEW s \in Seq(T), NEW t, NEW x, Adds(s, t, x), NEW M, x \notin M
    PROVE  /\ Count(t, M) = Count(s, M)
           /\ \A f, rs, base : Says(s, M, f, rs, base) => Says(t, M, f, rs, base)
<1>1. Where(t, M) = Where(s, M) /\ \A i \in Where(s, M) : t[i] = s[i]
  BY WhereAppend
<1> QED BY <1>1 DEF Count, Says

\* A message of the kind is sent.
LEMMA SaysNext ==
    ASSUME NEW T, NEW s \in Seq(T), NEW t, NEW x, Adds(s, t, x), NEW M, x \in M
    PROVE  /\ Count(t, M) = Count(s, M) + 1
           /\ \A f, rs, base :
                 Says(s, M, f, rs, base) /\ f[x] = rs[base + (Count(s, M) + 1)]
                     => Says(t, M, f, rs, base)
<1> DEFINE S == Where(s, M)
           n == Len(s) + 1
<1>1. /\ Where(t, M) = S \cup {n} /\ t[n] = x
      /\ \A i \in S : t[i] = s[i]
  BY WhereAppend
<1>2. Len(s) \in Nat /\ S \in SUBSET (1 .. Len(s))
  BY WhereIs
<1>3. /\ Cardinality(S \cup {n}) = Cardinality(S) + 1
      /\ \A i \in S : Place(S \cup {n}, i) = Place(S, i)
      /\ Place(S \cup {n}, n) = Cardinality(S) + 1
  BY <1>2, PlaceOfLast
<1> HIDE DEF S, n
<1>4. ASSUME NEW f, NEW rs, NEW base, Says(s, M, f, rs, base),
             f[x] = rs[base + (Count(s, M) + 1)]
      PROVE  Says(t, M, f, rs, base)
  <2>1. \A i \in S : f[t[i]] = rs[base + Place(Where(t, M), i)]
    BY <1>1, <1>3, <1>4 DEF Says, S
  <2>2. f[t[n]] = rs[base + Place(Where(t, M), n)]
    BY <1>1, <1>3, <1>4 DEF Count, S
  <2> QED BY <1>1, <2>1, <2>2 DEF Says
<1>5. Count(t, M) = Count(s, M) + 1
  BY <1>1, <1>3 DEF Count, S
<1> QED BY <1>4, <1>5

\* The first message is taken out, and it is of another kind.
LEMMA SaysPassed ==
    ASSUME NEW T, NEW s \in Seq(T), s # <<>>, NEW M, Head(s) \notin M
    PROVE  /\ Count(Tail(s), M) = Count(s, M)
           /\ \A f, rs, base : Says(s, M, f, rs, base) => Says(Tail(s), M, f, rs, base)
<1> DEFINE S == Where(s, M)
           t == Tail(s)
<1>1. /\ Where(t, M) = Shifted(S) /\ 1 \notin S
      /\ \A i \in Where(t, M) : i \in Nat /\ i + 1 \in S /\ t[i] = s[i + 1]
  BY WhereTail
<1>2. Positions(S) /\ Count(s, M) \in Nat /\ \A i \in S : Place(S, i) \in Nat
  BY WhereIs
<1> HIDE DEF S, t
<1>3. Cardinality(Where(t, M)) = Cardinality(S)
  BY <1>1, <1>2, ShiftedCount DEF Count, S
<1>4. \A i \in Where(t, M) : Place(Where(t, M), i) = Place(S, i + 1)
  <2>1. ASSUME NEW i \in Where(t, M)
        PROVE  Place(Where(t, M), i) = Place(S, i + 1)
    <3>1. i \in Nat /\ Place(S, i + 1) \in Nat
      BY <1>1, <1>2
    <3> QED BY <1>1, <1>2, <3>1, ShiftedPlace
  <2> QED BY <2>1
<1>5. \A f, rs, base : Says(s, M, f, rs, base) => Says(t, M, f, rs, base)
  BY <1>1, <1>4 DEF Says, S
<1> QED BY <1>3, <1>5 DEF Count, S, t

\* The first message is taken out, and it is of the kind.
LEMMA SaysTaken ==
    ASSUME NEW T, NEW s \in Seq(T), s # <<>>, NEW M, Head(s) \in M
    PROVE  /\ Count(Tail(s), M) = Count(s, M) - 1
           /\ \A f, rs : \A base \in Nat : Says(s, M, f, rs, base) =>
                 Says(Tail(s), M, f, rs, base + 1) /\ f[Head(s)] = rs[base + 1]
<1> DEFINE S == Where(s, M)
           t == Tail(s)
<1>1. /\ Where(t, M) = Shifted(S) /\ 1 \in S /\ Head(s) = s[1]
      /\ \A i \in Where(t, M) : i \in Nat /\ i + 1 \in S /\ t[i] = s[i + 1]
  BY WhereTail
<1>2. Positions(S) /\ Count(s, M) \in Nat /\ \A i \in S : Place(S, i) \in Nat
  BY WhereIs
<1> HIDE DEF S, t
<1>3. Cardinality(Where(t, M)) = Cardinality(S) - 1
  BY <1>1, <1>2, ShiftedCount DEF Count, S
<1>4. \A i \in Where(t, M) : Place(Where(t, M), i) = Place(S, i + 1) - 1 /\ Place(S, i + 1) \in Nat
  <2>1. ASSUME NEW i \in Where(t, M)
        PROVE  Place(Where(t, M), i) = Place(S, i + 1) - 1 /\ Place(S, i + 1) \in Nat
    <3>1. i \in Nat /\ Place(S, i + 1) \in Nat
      BY <1>1, <1>2
    <3> QED BY <1>1, <1>2, <3>1, ShiftedPlace
  <2> QED BY <2>1
<1>5. Place(S, 1) = 1
  BY <1>1, <1>2, FirstPlace
<1>6. ASSUME NEW f, NEW rs, NEW base \in Nat, Says(s, M, f, rs, base)
      PROVE  Says(t, M, f, rs, base + 1) /\ f[Head(s)] = rs[base + 1]
  <2>1. ASSUME NEW i \in Where(t, M)
        PROVE  f[t[i]] = rs[(base + 1) + Place(Where(t, M), i)]
    <3>1. f[s[i + 1]] = rs[base + Place(S, i + 1)]
      BY <1>1, <1>6 DEF Says, S
    <3>2. (base + 1) + Place(Where(t, M), i) = base + Place(S, i + 1)
      BY <1>4
    <3> QED BY <1>1, <3>1, <3>2
  <2>2. f[Head(s)] = rs[base + 1]
    BY <1>1, <1>5, <1>6 DEF Says, S
  <2> QED BY <2>1, <2>2 DEF Says
<1> QED BY <1>3, <1>6 DEF Count, S, t

\* What was said is not changed by what is said later.
LEMMA SaysLonger ==
    ASSUME NEW T, NEW s \in Seq(T), NEW M, NEW f, NEW R, NEW rs \in Seq(R),
           NEW longer, NEW x, Adds(rs, longer, x),
           NEW base \in Nat, base + Count(s, M) <= Len(rs), Says(s, M, f, rs, base)
    PROVE  Says(s, M, f, longer, base)
<1>1. ASSUME NEW i \in Where(s, M)
      PROVE  longer[base + Place(Where(s, M), i)] = rs[base + Place(Where(s, M), i)]
  <2>1. Place(Where(s, M), i) \in 1 .. Count(s, M) /\ Count(s, M) \in Nat
    BY WhereIs
  <2>2. base + Place(Where(s, M), i) \in 1 .. Len(rs)
    BY <2>1
  <2> QED BY <2>2 DEF Adds
<1> QED BY <1>1 DEF Says

(***************************************************************************)
(* The commands of one client, from its hand to its inbox.                 *)
(***************************************************************************)

To == [m \in AnswerMessage |-> m.to]

\* What the client has in the daemon's queue.
OwnOf(c) == [kind : {"IncomingCmd"}, id : {c}, cmd : Requests]
Cmd(c) == [m \in OwnOf(c) |-> m.cmd]

\* The answer a in preparation, if any, is the client's.
Holds(a, c) == a # None /\ a.client_id = c
Held(a, c) == IF Holds(a, c) THEN 1 ELSE 0

\* AnsweredInOrder for client c: its inbox, the answer in hand, the daemon's
\* queue, what its thread has not read, and what it has sent.
InLine(c, box, a, q, unread, sent) ==
    LET n == Count(box, AnswerMessage)
        taken == n + Held(a, c)
        queued == Count(q, OwnOf(c))
    IN /\ Len(sent) = taken + queued + Len(unread)
       /\ Says(box, AnswerMessage, To, sent, 0)
       /\ Holds(a, c) => a.response.to = sent[n + 1]
       /\ Says(q, OwnOf(c), Cmd(c), sent, taken)
       /\ \A i \in 1 .. Len(unread) : unread[i] = sent[taken + queued + i]

LineInv == \A c \in connected : InLine(c, inbox[c], answering, queue, cmds[c], requests[c])

LEMMA LineIsOrder ==
    ASSUME DeskInv, LineInv
    PROVE  AnsweredInOrder
<1> SUFFICES ASSUME NEW c \in connected
             PROVE  LET answered == Cardinality(AnswersTo(c))
                        taken == answered + (IF InHand(c) THEN 1 ELSE 0)
                        queued == Cardinality(QueuedOf(c))
                    IN /\ Len(requests[c]) = taken + queued + Len(cmds[c])
                       /\ \A i \in AnswersTo(c) :
                             inbox[c][i].to = requests[c][Place(AnswersTo(c), i)]
                       /\ InHand(c) => answering.response.to = requests[c][answered + 1]
                       /\ \A i \in QueuedOf(c) :
                             queue[i].cmd = requests[c][taken + Place(QueuedOf(c), i)]
                       /\ \A i \in DOMAIN cmds[c] :
                             cmds[c][i] = requests[c][taken + queued + i]
  BY DEF AnsweredInOrder
<1>1. /\ inbox[c] \in Seq(DaemonResponse) /\ queue \in Seq(DaemonEvent)
      /\ cmds[c] \in Seq(Requests) /\ requests[c] \in Seq(Requests)
  BY DEF DeskInv, ReplyTypes, ClientTypes, BusTypes
<1>2. Where(inbox[c], AnswerMessage) = AnswersTo(c)
  <2>1. \A m \in DaemonResponse : m \in AnswerMessage <=> m.kind = "Answer"
    BY DEF DaemonResponse, AnswerMessage, SetSender, VersionResponse, StoppedResponse
  <2> QED BY <1>1, <2>1 DEF Where, AnswersTo
<1>3. Where(queue, OwnOf(c)) = QueuedOf(c)
  <2>1. \A m \in DaemonEvent : m \in OwnOf(c) <=> m.kind = "IncomingCmd" /\ m.id = c
    BY DEF DaemonEvent, OwnOf, SendEvents, AddServerUnitEvents, StopDaemonEvent, DaemonStopped
  <2> QED BY <1>1, <2>1 DEF Where, QueuedOf
<1>4. Held(answering, c) = (IF InHand(c) THEN 1 ELSE 0) /\ (Holds(answering, c) <=> InHand(c))
  BY DEF Held, Holds, InHand
<1>5. DOMAIN cmds[c] = 1 .. Len(cmds[c])
  BY <1>1
<1>6. \A i \in AnswersTo(c) : To[inbox[c][i]] = inbox[c][i].to
  BY <1>2 DEF To, Where
<1>7. \A i \in QueuedOf(c) : Cmd(c)[queue[i]] = queue[i].cmd
  BY <1>3 DEF Cmd, Where
<1>9. \A i \in AnswersTo(c) : Place(AnswersTo(c), i) \in Nat
  BY <1>1, <1>2, WhereIs
<1>8. InLine(c, inbox[c], answering, queue, cmds[c], requests[c])
  BY DEF LineInv
<1> QED BY <1>2, <1>3, <1>4, <1>5, <1>6, <1>7, <1>8, <1>9 DEF InLine, Says, Count

\* The inbox is sent something that is not an answer, or nothing.
BoxRests(box, box2) ==
    box2 = box \/ \E x : x \notin AnswerMessage /\ Adds(box, box2, x)

\* Nothing of the client's enters the queue or leaves it.
QueueRests(c, q, q2) ==
    \/ q2 = q
    \/ q # <<>> /\ Head(q) \notin OwnOf(c) /\ q2 = Tail(q)
    \/ \E m : m \notin OwnOf(c) /\ Adds(q, q2, m)

LEMMA LineRests ==
    ASSUME NEW c, NEW box \in Seq(DaemonResponse), NEW a, NEW q \in Seq(DaemonEvent),
           NEW unread, NEW sent, InLine(c, box, a, q, unread, sent),
           NEW box2, BoxRests(box, box2), NEW q2, QueueRests(c, q, q2),
           NEW b, b = a \/ (~Holds(a, c) /\ ~Holds(b, c))
    PROVE  InLine(c, box2, b, q2, unread, sent)
<1>1. /\ Count(box2, AnswerMessage) = Count(box, AnswerMessage)
      /\ Says(box2, AnswerMessage, To, sent, 0)
  BY SaysOther DEF BoxRests, InLine
<1>2. /\ Count(q2, OwnOf(c)) = Count(q, OwnOf(c))
      /\ \A base : Says(q, OwnOf(c), Cmd(c), sent, base)
                       => Says(q2, OwnOf(c), Cmd(c), sent, base)
  <2>1. CASE q2 = q
    BY <2>1
  <2>2. CASE q # <<>> /\ Head(q) \notin OwnOf(c) /\ q2 = Tail(q)
    BY <2>2, SaysPassed
  <2>3. CASE \E m : m \notin OwnOf(c) /\ Adds(q, q2, m)
    BY <2>3, SaysOther
  <2> QED BY <2>1, <2>2, <2>3 DEF QueueRests
<1>3. Held(b, c) = Held(a, c)
  BY DEF Held
<1> QED BY <1>1, <1>2, <1>3 DEF InLine

\* The client sends a command.
LEMMA LineSends ==
    ASSUME NEW c, NEW box \in Seq(DaemonResponse), NEW a, NEW q \in Seq(DaemonEvent),
           NEW unread \in Seq(Requests), NEW sent \in Seq(Requests),
           InLine(c, box, a, q, unread, sent),
           NEW cmd, NEW unread2, Adds(unread, unread2, cmd), NEW sent2, Adds(sent, sent2, cmd)
    PROVE  InLine(c, box, a, q, unread2, sent2)
<1>1. PICK n, taken, queued :
          /\ n = Count(box, AnswerMessage) /\ taken = n + Held(a, c)
          /\ queued = Count(q, OwnOf(c))
  OBVIOUS
<1>2. n \in Nat /\ queued \in Nat /\ taken \in Nat /\ Held(a, c) \in {0, 1}
      /\ (Holds(a, c) => Held(a, c) = 1)
  BY <1>1, WhereIs DEF Held
<1>3. /\ Len(sent) = taken + queued + Len(unread)
      /\ Says(box, AnswerMessage, To, sent, 0)
      /\ Holds(a, c) => a.response.to = sent[n + 1]
      /\ Says(q, OwnOf(c), Cmd(c), sent, taken)
      /\ \A i \in 1 .. Len(unread) : unread[i] = sent[taken + queued + i]
  BY <1>1 DEF InLine
<1>4. Len(unread) \in Nat /\ Len(sent) \in Nat
  OBVIOUS
<1>5. /\ Len(sent2) = Len(sent) + 1 /\ Len(unread2) = Len(unread) + 1
      /\ \A i \in 1 .. Len(sent) : sent2[i] = sent[i]
      /\ \A i \in 1 .. Len(unread) : unread2[i] = unread[i]
      /\ sent2[Len(sent) + 1] = cmd /\ unread2[Len(unread) + 1] = cmd
  BY DEF Adds
<1>6. Says(box, AnswerMessage, To, sent2, 0)
  BY <1>1, <1>2, <1>3, <1>4, SaysLonger
<1>7. Says(q, OwnOf(c), Cmd(c), sent2, taken)
  BY <1>1, <1>2, <1>3, <1>4, SaysLonger
<1>8. Holds(a, c) => a.response.to = sent2[n + 1]
  <2>1. Len(sent) = taken + queued + Len(unread) /\ taken = n + Held(a, c)
    BY <1>1, <1>3
  <2>2. ASSUME Holds(a, c)
        PROVE  n + 1 \in 1 .. Len(sent)
    BY <1>2, <1>4, <2>1, <2>2
  <2> QED BY <1>3, <1>5, <2>2
<1>9. ASSUME NEW i \in 1 .. Len(unread2)
      PROVE  unread2[i] = sent2[taken + queued + i]
  <2>1. CASE i \in 1 .. Len(unread)
    <3>1. taken + queued + i \in 1 .. Len(sent)
      BY <1>2, <1>3, <1>4, <2>1
    <3> QED BY <1>3, <1>5, <2>1, <3>1
  <2>2. CASE i = Len(unread) + 1
    <3>1. taken + queued + i = Len(sent) + 1
      BY <1>2, <1>3, <1>4, <2>2
    <3> QED BY <1>5, <2>2, <3>1
  <2> QED BY <1>4, <1>5, <2>1, <2>2
<1>10. Len(sent2) = taken + queued + Len(unread2)
  BY <1>2, <1>3, <1>4, <1>5
<1> QED BY <1>1, <1>6, <1>7, <1>8, <1>9, <1>10 DEF InLine

\* Its thread passes its oldest command on.
LEMMA LineRelays ==
    ASSUME NEW c, NEW box \in Seq(DaemonResponse), NEW a, NEW q \in Seq(DaemonEvent),
           NEW unread \in Seq(Requests), NEW sent \in Seq(Requests),
           InLine(c, box, a, q, unread, sent), unread # <<>>,
           NEW q2, Adds(q, q2, IncomingCmd(c, Head(unread)))
    PROVE  InLine(c, box, a, q2, Tail(unread), sent)
<1>1. PICK n, taken, queued :
          /\ n = Count(box, AnswerMessage) /\ taken = n + Held(a, c)
          /\ queued = Count(q, OwnOf(c))
  OBVIOUS
<1>2. n \in Nat /\ queued \in Nat /\ taken \in Nat
  BY <1>1, WhereIs DEF Held
<1>3. /\ Len(sent) = taken + queued + Len(unread)
      /\ Says(box, AnswerMessage, To, sent, 0)
      /\ Holds(a, c) => a.response.to = sent[n + 1]
      /\ Says(q, OwnOf(c), Cmd(c), sent, taken)
      /\ \A i \in 1 .. Len(unread) : unread[i] = sent[taken + queued + i]
  BY <1>1 DEF InLine
<1>4. PICK m : m = IncomingCmd(c, Head(unread))
  OBVIOUS
<1>5. /\ Len(unread) \in Nat /\ Len(unread) >= 1 /\ Head(unread) = unread[1]
      /\ Head(unread) \in Requests /\ Len(Tail(unread)) = Len(unread) - 1
      /\ \A i \in 1 .. Len(unread) - 1 : Tail(unread)[i] = unread[i + 1]
  OBVIOUS
<1>6. m \in OwnOf(c) /\ Cmd(c)[m] = Head(unread)
  BY <1>4, <1>5 DEF IncomingCmd, OwnOf, Cmd
<1>7. Head(unread) = sent[taken + (queued + 1)]
  <2>1. unread[1] = sent[taken + queued + 1]
    BY <1>3, <1>5
  <2>2. taken + queued + 1 = taken + (queued + 1)
    BY <1>2
  <2> QED BY <1>5, <2>1, <2>2
<1>8. Count(q2, OwnOf(c)) = queued + 1 /\ Says(q2, OwnOf(c), Cmd(c), sent, taken)
  BY <1>1, <1>3, <1>4, <1>6, <1>7, SaysNext
<1>9. Len(sent) = taken + (queued + 1) + Len(Tail(unread))
  BY <1>2, <1>3, <1>5
<1>10. ASSUME NEW i \in 1 .. Len(Tail(unread))
       PROVE  Tail(unread)[i] = sent[taken + (queued + 1) + i]
  <2>1. i + 1 \in 1 .. Len(unread) /\ Tail(unread)[i] = unread[i + 1]
    BY <1>5
  <2>2. taken + (queued + 1) + i = taken + queued + (i + 1)
    BY <1>2
  <2> QED BY <1>3, <2>1, <2>2
<1> QED BY <1>1, <1>3, <1>8, <1>9, <1>10 DEF InLine

\* The daemon thread takes the client's oldest command in hand.
LEMMA LineTakes ==
    ASSUME NEW c, NEW box \in Seq(DaemonResponse), NEW a, NEW q \in Seq(DaemonEvent),
           NEW unread, NEW sent,
           InLine(c, box, a, q, unread, sent), ~Holds(a, c),
           q # <<>>, Head(q) \in OwnOf(c),
           NEW b, Holds(b, c), b.response.to = Head(q).cmd
    PROVE  InLine(c, box, b, Tail(q), unread, sent)
<1>1. PICK n, queued : n = Count(box, AnswerMessage) /\ queued = Count(q, OwnOf(c))
  OBVIOUS
<1>2. n \in Nat /\ queued \in Nat /\ Held(a, c) = 0 /\ Held(b, c) = 1
  BY <1>1, WhereIs DEF Held
<1>3. n + Held(a, c) = n /\ n + Held(b, c) = n + 1
  BY <1>2
<1>4. /\ Len(sent) = n + queued + Len(unread)
      /\ Says(box, AnswerMessage, To, sent, 0)
      /\ Says(q, OwnOf(c), Cmd(c), sent, n)
      /\ \A i \in 1 .. Len(unread) : unread[i] = sent[n + queued + i]
  BY <1>1, <1>3 DEF InLine
<1>5. /\ Count(Tail(q), OwnOf(c)) = queued - 1
      /\ Says(Tail(q), OwnOf(c), Cmd(c), sent, n + 1)
      /\ Cmd(c)[Head(q)] = sent[n + 1]
  <2>1. PICK M, f : M = OwnOf(c) /\ f = Cmd(c)
    OBVIOUS
  <2>2. Head(q) \in M /\ Says(q, M, f, sent, n) /\ queued = Count(q, M)
    BY <1>1, <1>4, <2>1
  <2>3. Count(Tail(q), M) = queued - 1
    BY <2>2, SaysTaken
  <2>4. Says(Tail(q), M, f, sent, n + 1) /\ f[Head(q)] = sent[n + 1]
    BY <1>2, <2>2, SaysTaken
  <2> QED BY <2>1, <2>3, <2>4
<1>6. b.response.to = sent[n + 1]
  BY <1>5 DEF Cmd
<1>7. n + queued = (n + 1) + (queued - 1)
  BY <1>2
<1> QED BY <1>1, <1>3, <1>4, <1>5, <1>6, <1>7 DEF InLine

\* The answer in hand is sent.
LEMMA LineAnswers ==
    ASSUME NEW c, NEW box \in Seq(DaemonResponse), NEW a, NEW q \in Seq(DaemonEvent),
           NEW unread, NEW sent,
           InLine(c, box, a, q, unread, sent), Holds(a, c), a.response \in AnswerMessage,
           NEW box2, Adds(box, box2, a.response), NEW b, ~Holds(b, c)
    PROVE  InLine(c, box2, b, q, unread, sent)
<1>1. PICK n, queued : n = Count(box, AnswerMessage) /\ queued = Count(q, OwnOf(c))
  OBVIOUS
<1>2. n \in Nat /\ queued \in Nat /\ Held(a, c) = 1 /\ Held(b, c) = 0
  BY <1>1, WhereIs DEF Held
<1>3. /\ Len(sent) = (n + 1) + queued + Len(unread)
      /\ Says(box, AnswerMessage, To, sent, 0)
      /\ a.response.to = sent[n + 1]
      /\ Says(q, OwnOf(c), Cmd(c), sent, n + 1)
      /\ \A i \in 1 .. Len(unread) : unread[i] = sent[(n + 1) + queued + i]
  BY <1>1, <1>2 DEF InLine
<1>4. PICK m \in AnswerMessage : m = a.response
  OBVIOUS
<1>5. To[m] = sent[0 + (n + 1)]
  BY <1>2, <1>3, <1>4 DEF To
<1>6. Count(box2, AnswerMessage) = n + 1 /\ Says(box2, AnswerMessage, To, sent, 0)
  BY <1>1, <1>3, <1>4, <1>5, SaysNext
<1>7. (n + 1) + Held(b, c) = n + 1
  BY <1>2
<1> QED BY <1>1, <1>3, <1>6, <1>7 DEF InLine

\* A client without a sender has sent nothing, unless it was just greeted.
FreshInv ==
    \A c \in Clients \ senders :
        \/ c = counter /\ main = "greeted"
        \/ c \notin connected /\ cmds[c] = <<>> /\ requests[c] = <<>>

AnswersInv == FreshInv /\ LineInv

LEMMA FreshStays ==
    ASSUME FreshInv, UNCHANGED <<senders, counter, main, cmds, requests>>,
           connected' \subseteq connected
    PROVE  FreshInv'
  BY DEF FreshInv

\* A step that moves no command and no answer.
LEMMA LineStays ==
    ASSUME DeskInv, AnswersInv, UNCHANGED <<senders, counter, main, cmds, requests>>,
           connected' \subseteq connected,
           \A c \in connected' :
               /\ BoxRests(inbox[c], inbox'[c])
               /\ QueueRests(c, queue, queue')
               /\ answering' = answering \/ (~Holds(answering, c) /\ ~Holds(answering', c))
    PROVE  AnswersInv'
<1>1. ASSUME NEW c \in connected'
      PROVE  InLine(c, inbox'[c], answering', queue', cmds[c], requests[c])
  <2>1. c \in connected /\ inbox[c] \in Seq(DaemonResponse) /\ queue \in Seq(DaemonEvent)
    BY DEF DeskInv, ReplyTypes, ClientTypes, BusTypes
  <2>2. InLine(c, inbox[c], answering, queue, cmds[c], requests[c])
    BY <2>1 DEF AnswersInv, LineInv
  <2> QED BY <2>1, <2>2, LineRests
<1>2. LineInv'
  BY <1>1 DEF LineInv
<1> QED BY <1>2, FreshStays DEF AnswersInv

LEMMA BoxSameRests == \A box : BoxRests(box, box)
  BY DEF BoxRests

LEMMA QueueSameRests == \A c, q : QueueRests(c, q, q)
  BY DEF QueueRests

LEMMA QueueTailRests ==
    ASSUME NEW c, NEW q, q # <<>>, Head(q).kind # "IncomingCmd"
    PROVE  QueueRests(c, q, Tail(q))
  BY DEF QueueRests, OwnOf

LEMMA QueueAddRests ==
    ASSUME NEW c, NEW q \in Seq(DaemonEvent), NEW m, m.kind # "IncomingCmd"
    PROVE  QueueRests(c, q, Append(q, m))
<1>1. m \notin OwnOf(c)
  BY DEF OwnOf
<1>2. IsSeq(q)
  BY DEF IsSeq
<1>3. Adds(q, Append(q, m), m)
  BY <1>2, AppendAdds
<1> QED BY <1>1, <1>3 DEF QueueRests

\* What another thread, or the daemon thread between two commands, does to the queue.
LEMMA QueueOther ==
    ASSUME DeskInv, NEW c,
           \/ UNCHANGED queue
           \/ queue # <<>> /\ Head(queue).kind # "IncomingCmd" /\ queue' = Tail(queue)
           \/ \E m : m.kind # "IncomingCmd" /\ queue' = Append(queue, m)
    PROVE  QueueRests(c, queue, queue')
<1>1. queue \in Seq(DaemonEvent)
  BY DEF DeskInv, BusTypes
<1>2. CASE UNCHANGED queue
  BY <1>2, QueueSameRests
<1>3. CASE queue # <<>> /\ Head(queue).kind # "IncomingCmd" /\ queue' = Tail(queue)
  BY <1>3, QueueTailRests
<1>4. CASE \E m : m.kind # "IncomingCmd" /\ queue' = Append(queue, m)
  <2>1. PICK m : m.kind # "IncomingCmd" /\ queue' = Append(queue, m)
    BY <1>4
  <2>2. QueueRests(c, queue, Append(queue, m))
    BY <1>1, <2>1, QueueAddRests
  <2> QED BY <2>1, <2>2
<1> QED BY <1>2, <1>3, <1>4

\* A step that sends a client nothing, and moves no command.
LEMMA LineAside ==
    ASSUME DeskInv, AnswersInv,
           UNCHANGED <<senders, counter, main, cmds, requests, inbox, answering>>,
           connected' \subseteq connected,
           \/ UNCHANGED queue
           \/ queue # <<>> /\ Head(queue).kind # "IncomingCmd" /\ queue' = Tail(queue)
           \/ \E m : m.kind # "IncomingCmd" /\ queue' = Append(queue, m)
    PROVE  AnswersInv'
<1>1. \A c : QueueRests(c, queue, queue')
  BY QueueOther
<1> QED BY <1>1, BoxSameRests, LineStays

(* The other threads. *)

LEMMA AcceptorAnswers ==
    ASSUME MsgInv, OrderInv, DeskInv, AnswersInv, Up, Acceptor
    PROVE  AnswersInv'
<1>1. counter \notin senders
  <2>1. ~(counter < counter)
    BY DEF OrderInv, CountInv
  <2> QED BY <2>1 DEF OrderInv, CountInv
<1>2. UNCHANGED <<queue, answering>>
  BY DEF Acceptor, Greet, RefuseClient, Register, AcceptorRest, Dies, managerVars, replyVars
<1>3. /\ cmds \in [Clients -> Seq(Requests)] /\ requests \in [Clients -> Seq(Requests)]
      /\ inbox \in [Clients -> Seq(DaemonResponse)] /\ connected \subseteq Clients
      /\ queue \in Seq(DaemonEvent)
  BY DEF DeskInv, ClientTypes, ReplyTypes, BusTypes
<1>4. CASE Greet /\ ~Dies("exited")
  <2> DEFINE box == <<SetSender, VersionResponse>>
  <2>1. /\ inbox' = [inbox EXCEPT ![counter] = box]
        /\ connected' = connected \cup {counter}
        /\ main = "accept" /\ main' = "greeted" /\ counter \in Clients
        /\ UNCHANGED <<counter, senders, cmds, requests>>
    BY <1>4 DEF Greet
  <2>2. cmds[counter] = <<>> /\ requests[counter] = <<>>
    BY <1>1, <2>1 DEF AnswersInv, FreshInv
  <2>3. Where(box, AnswerMessage) = {}
    <3>1. DOMAIN box = {1, 2} /\ box[1] = SetSender /\ box[2] = VersionResponse
      OBVIOUS
    <3>2. SetSender \notin AnswerMessage /\ VersionResponse \notin AnswerMessage
      BY DEF SetSender, VersionResponse, AnswerMessage
    <3> HIDE DEF box
    <3> QED BY <3>1, <3>2 DEF Where
  <2> HIDE DEF box
  <2>4. Where(queue, OwnOf(counter)) = {}
    <3>1. ASSUME NEW i \in DOMAIN queue, queue[i] \in OwnOf(counter)
          PROVE  FALSE
      <4>1. i \in 1 .. Len(queue)
        BY <1>3
      <4>2. queue[i] \in Elems(queue)
        BY <4>1 DEF Elems
      <4>3. queue[i].kind = "IncomingCmd" /\ queue[i].id = counter
        BY <3>1 DEF OwnOf
      <4> QED BY <1>1, <4>2, <4>3 DEF MsgInv, QueueInv, FineMsg
    <3> QED BY <3>1 DEF Where
  <2>5. ~Holds(answering, counter)
    BY <1>1 DEF Holds, MsgInv, AnswerInv
  <2>6. /\ Count(box, AnswerMessage) = 0 /\ Count(queue, OwnOf(counter)) = 0
        /\ Held(answering, counter) = 0 /\ Len(<<>>) = 0
    BY <2>3, <2>4, <2>5, FS_EmptySet DEF Count, Held
  <2>7. InLine(counter, box, answering, queue, <<>>, <<>>)
    <3>1. \A f, rs, base : Says(box, AnswerMessage, f, rs, base)
                           /\ Says(queue, OwnOf(counter), f, rs, base)
      BY <2>3, <2>4 DEF Says
    <3> QED BY <2>5, <2>6, <3>1 DEF InLine
  <2>8. ASSUME NEW c \in connected'
        PROVE  InLine(c, inbox'[c], answering', queue', cmds'[c], requests'[c])
    <3>1. CASE c = counter
      BY <1>2, <1>3, <2>1, <2>2, <2>7, <3>1
    <3>2. CASE c # counter
      <4>1. c \in connected /\ inbox'[c] = inbox[c]
        BY <1>3, <2>1, <3>2
      <4> QED BY <1>2, <2>1, <4>1 DEF AnswersInv, LineInv
    <3> QED BY <3>1, <3>2
  <2>9. LineInv'
    BY <2>8 DEF LineInv
  <2>10. FreshInv'
    BY <2>1 DEF AnswersInv, FreshInv
  <2> QED BY <2>9, <2>10 DEF AnswersInv
<1>5. CASE Greet /\ Dies("exited")
  <2>1. UNCHANGED <<clientVars, inbox>>
    BY <1>5 DEF Greet, Dies, supervisionVars, Up
  <2> QED BY <1>2, <2>1, LineAside DEF clientVars
<1>6. CASE RefuseClient
  <2>1. /\ inbox' = [inbox EXCEPT ![counter] = <<>>]
        /\ cmds' = [cmds EXCEPT ![counter] = <<>>]
        /\ requests' = [requests EXCEPT ![counter] = <<>>]
        /\ connected' = connected \ {counter}
        /\ main' = "accept" /\ UNCHANGED <<counter, senders>>
    BY <1>6 DEF RefuseClient
  <2>2. ASSUME NEW c \in connected'
        PROVE  InLine(c, inbox'[c], answering', queue', cmds'[c], requests'[c])
    <3>1. /\ c \in connected /\ inbox'[c] = inbox[c]
          /\ cmds'[c] = cmds[c] /\ requests'[c] = requests[c]
      BY <1>3, <2>1
    <3> QED BY <1>2, <3>1 DEF AnswersInv, LineInv
  <2>3. LineInv'
    BY <2>2 DEF LineInv
  <2>4. FreshInv'
    BY <1>3, <2>1 DEF AnswersInv, FreshInv
  <2> QED BY <2>3, <2>4 DEF AnswersInv
<1>7. CASE Register
  <2>1. /\ UNCHANGED <<inbox, connected, cmds, requests>>
        /\ senders' = senders \cup {counter} /\ counter' = counter + 1 /\ main' = "accept"
    BY <1>7 DEF Register, AcceptorRest, replyVars
  <2>2. LineInv'
    BY <1>2, <2>1 DEF AnswersInv, LineInv
  <2>3. FreshInv'
    BY <2>1 DEF AnswersInv, FreshInv
  <2> QED BY <2>2, <2>3 DEF AnswersInv
<1> QED BY <1>4, <1>5, <1>6, <1>7 DEF Acceptor

LEMMA ClientAnswers ==
    ASSUME MsgInv, OrderInv, DeskInv, AnswersInv, NEW c \in Clients,
           Relay(c) \/ Hangup(c) \/ Disconnect(c) \/ \E cmd \in Requests : Send(c, cmd)
    PROVE  AnswersInv'
<1>1. /\ cmds \in [Clients -> Seq(Requests)] /\ requests \in [Clients -> Seq(Requests)]
      /\ inbox \in [Clients -> Seq(DaemonResponse)] /\ connected \subseteq Clients
      /\ queue \in Seq(DaemonEvent) /\ IsSeq(queue)
  BY DEF DeskInv, ClientTypes, ReplyTypes, BusTypes, IsSeq
<1>2. CASE Hangup(c)
  BY <1>2, LineAside DEF Hangup, replyVars
<1>3. CASE Disconnect(c)
  BY <1>3, LineAside DEF Disconnect, AcceptorRest, managerVars, replyVars
<1>4. CASE Relay(c)
  <2>1. PICK m :
        /\ m = IncomingCmd(c, Head(cmds[c])) /\ queue' = Append(queue, m)
        /\ cmds[c] # <<>> /\ cmds' = [cmds EXCEPT ![c] = Tail(@)]
        /\ UNCHANGED <<inbox, answering, requests, senders, counter, main, connected>>
    BY <1>4 DEF Relay, replyVars
  <2>2. Adds(queue, queue', m)
    BY <1>1, <2>1, AppendAdds
  <2>3. ASSUME NEW d \in connected
        PROVE  InLine(d, inbox[d], answering, queue', cmds'[d], requests[d])
    <3>1. InLine(d, inbox[d], answering, queue, cmds[d], requests[d]) /\ d \in Clients
      BY <1>1 DEF AnswersInv, LineInv
    <3>2. CASE d = c
      <4>1. cmds'[c] = Tail(cmds[c])
        BY <1>1, <2>1
      <4> QED BY <1>1, <2>1, <2>2, <3>1, <3>2, <4>1, LineRelays
    <3>3. CASE d # c
      <4>1. cmds'[d] = cmds[d]
        BY <1>1, <2>1, <3>3
      <4>2. m \notin OwnOf(d)
        BY <2>1, <3>3 DEF IncomingCmd, OwnOf
      <4>3. QueueRests(d, queue, queue')
        BY <2>2, <4>2 DEF QueueRests
      <4> QED BY <1>1, <3>1, <4>1, <4>3, LineRests, BoxSameRests
    <3> QED BY <3>2, <3>3
  <2>4. LineInv'
    BY <2>1, <2>3 DEF LineInv
  <2>5. FreshInv'
    BY <1>1, <2>1 DEF AnswersInv, FreshInv
  <2> QED BY <2>4, <2>5 DEF AnswersInv
<1>5. ASSUME NEW cmd \in Requests, Send(c, cmd)
      PROVE  AnswersInv'
  <2>1. /\ c \in connected
        /\ cmds' = [cmds EXCEPT ![c] = Append(@, cmd)]
        /\ requests' = [requests EXCEPT ![c] = Append(@, cmd)]
        /\ UNCHANGED <<inbox, answering, queue, senders, counter, main, connected>>
    BY <1>5 DEF Send, AcceptorRest, managerVars, replyVars
  <2>2. Adds(cmds[c], cmds'[c], cmd) /\ Adds(requests[c], requests'[c], cmd)
    <3>1. cmds'[c] = Append(cmds[c], cmd) /\ requests'[c] = Append(requests[c], cmd)
      BY <1>1, <2>1
    <3>2. IsSeq(cmds[c]) /\ IsSeq(requests[c])
      BY <1>1 DEF IsSeq
    <3> QED BY <3>1, <3>2, AppendAdds
  <2>3. ASSUME NEW d \in connected
        PROVE  InLine(d, inbox[d], answering, queue, cmds'[d], requests'[d])
    <3>1. InLine(d, inbox[d], answering, queue, cmds[d], requests[d]) /\ d \in Clients
      BY <1>1 DEF AnswersInv, LineInv
    <3>2. CASE d = c
      <4>1. /\ inbox[c] \in Seq(DaemonResponse) /\ cmds[c] \in Seq(Requests)
            /\ requests[c] \in Seq(Requests)
        BY <1>1
      <4> QED BY <1>1, <2>2, <3>1, <3>2, <4>1, LineSends
    <3>3. CASE d # c
      BY <1>1, <2>1, <3>1, <3>3
    <3> QED BY <3>2, <3>3
  <2>4. LineInv'
    BY <2>1, <2>3 DEF LineInv
  <2>5. FreshInv'
    BY <1>1, <2>1 DEF AnswersInv, FreshInv
  <2> QED BY <2>4, <2>5 DEF AnswersInv
<1> QED BY <1>2, <1>3, <1>4, <1>5

LEMMA OthersAnswers ==
    ASSUME MsgInv, DeskInv, AnswersInv,
           \/ Manager
           \/ OfServers(ProcessNext)
           \/ OfServers(LogNext)
           \/ \E j \in 1 .. MaxJobs : OfJob(j)
    PROVE  AnswersInv'
<1>1. UNCHANGED <<senders, counter, main, cmds, requests, inbox, answering, connected>>
  BY DEF Manager, OfServers, OfJob, clientVars, replyVars
<1>2. UNCHANGED queue \/ \E m : m.kind # "IncomingCmd" /\ queue' = Append(queue, m)
  <2>1. CASE Manager
    <3>1. CASE Forward
      <4>1. outbox # <<>> /\ queue' = Append(queue, Head(outbox))
        BY <3>1 DEF Forward
      <4>2. Head(outbox).kind = "SendEvent"
        BY <4>1, HeadIsElem DEF MsgInv, OutboxInv
      <4> QED BY <4>1, <4>2
    <3>2. CASE ~Forward
      BY <2>1, <3>2 DEF Manager, ManagerNext, DispatchEvent, AddSubscription,
         RemoveSubscription, RemoveAllSubscriptions
    <3> QED BY <3>1, <3>2
  <2>2. CASE OfServers(ProcessNext) \/ OfServers(LogNext)
    BY <2>2 DEF OfServers, ProcessNext, Load, Run, Refuse, BeginStop, CloseDown, Exit, Echo,
       Prints, LogNext, ReadLine, RaiseEvent, EndLog
  <2>3. ASSUME NEW j, OfJob(j)
        PROVE  UNCHANGED queue \/ \E m : m.kind # "IncomingCmd" /\ queue' = Append(queue, m)
    <3>1. j \in DOMAIN jobs /\ JobStep(j)
      BY <2>3 DEF OfJob
    <3>2. UNCHANGED queue \/ \E m \in AddServerUnitEvents : queue' = Append(queue, m)
      BY <3>1, StepSends DEF DeskInv
    <3>3. \A m \in AddServerUnitEvents : m.kind # "IncomingCmd"
      BY DEF AddServerUnitEvents
    <3> QED BY <3>2, <3>3
  <2> QED BY <2>1, <2>2, <2>3
<1> QED BY <1>1, <1>2, LineAside

(* The daemon thread. *)

LEMMA CommandsAnswers ==
    ASSUME UnitsInv, MsgInv, OrderInv, DeskInv, AnswersInv, Up, Commands
    PROVE  AnswersInv'
<1>1. Handled /\ Answers
  BY QuietCommands, SubscribeKeeps, StartKeeps, StopKeeps, InputKeeps DEF Commands, MsgInv
<1>2. requests' = requests
  BY DEF Commands, HandleList, HandleGetVersion, HandleUnknownServer, HandleStart, HandleStop,
     HandleSubscribeEvent, HandleInput, HandleStopDaemon, HandleInstall, HandleUpdate, Incoming,
     Rest, clientVars
<1>3. PICK m : m = Head(queue) /\ m.kind = "IncomingCmd"
  BY <1>1 DEF Handled
<1>4. PICK a \in Answering : a = answering' /\ a.client_id = m.id /\ a.response.to = m.cmd
  BY <1>3, CommandInHand
<1>5. a # None /\ answering = None
  BY <1>1, AnswerAssumption DEF Handled, OrderInv, FlagInv, DeskInv, HandInv, Preparing, Up
<1>6. /\ UNCHANGED <<senders, counter, main, cmds, requests, inbox, connected>>
      /\ queue # <<>> /\ queue \in Seq(DaemonEvent) /\ connected \subseteq Clients
      /\ inbox \in [Clients -> Seq(DaemonResponse)] /\ Tail(queue) \in Seq(DaemonEvent)
  BY <1>1, <1>2 DEF Handled, DeskInv, BusTypes, ClientTypes, ReplyTypes
<1>7. m.cmd \in Requests
  BY <1>1, <1>3, HeadIsElem DEF MsgInv, QueueInv, FineMsg, Handled
<1>8. ASSUME NEW c \in connected
      PROVE  InLine(c, inbox[c], a, Tail(queue), cmds[c], requests[c])
  <2>1. InLine(c, inbox[c], answering, queue, cmds[c], requests[c])
        /\ inbox[c] \in Seq(DaemonResponse)
    BY <1>6 DEF AnswersInv, LineInv
  <2>2. ~Holds(answering, c)
    BY <1>5 DEF Holds
  <2>3. CASE m.id = c
    <3>1. m \in OwnOf(c)
      <4>1. m \in DaemonEvent
        BY <1>3, <1>6
      <4> QED BY <1>3, <2>3, <4>1 DEF DaemonEvent, OwnOf, SendEvents, AddServerUnitEvents,
                 StopDaemonEvent, DaemonStopped
    <3>2. Holds(a, c)
      BY <1>4, <1>5, <2>3 DEF Holds
    <3> QED BY <1>3, <1>4, <1>6, <2>1, <2>2, <3>1, <3>2, LineTakes
  <2>4. CASE m.id # c
    <3>1. m \notin OwnOf(c)
      BY <2>4 DEF OwnOf
    <3>2. ~Holds(a, c)
      BY <1>4, <2>4 DEF Holds
    <3>3. QueueRests(c, queue, Tail(queue))
      BY <1>3, <1>6, <3>1 DEF QueueRests
    <3> QED BY <1>6, <2>1, <2>2, <3>2, <3>3, LineRests, BoxSameRests
  <2> QED BY <2>3, <2>4
<1>9. ASSUME NEW c \in connected
      PROVE  InLine(c, inbox[c], a, queue', cmds[c], requests[c])
  <2>1. QueueRests(c, Tail(queue), queue')
    <3>1. StopDaemonEvent.kind # "IncomingCmd"
      BY DEF StopDaemonEvent
    <3>2. QueueRests(c, Tail(queue), Append(Tail(queue), StopDaemonEvent))
      BY <1>6, <3>1, QueueAddRests
    <3> QED BY <1>1, <3>2, QueueSameRests DEF Handled
  <2>2. inbox[c] \in Seq(DaemonResponse)
    BY <1>6
  <2> QED BY <1>6, <1>8, <2>1, <2>2, LineRests, BoxSameRests
<1>10. LineInv'
  BY <1>4, <1>6, <1>9 DEF LineInv
<1> QED BY <1>6, <1>10, FreshStays DEF AnswersInv

\* The answer in hand is sent, and the client hears it next.
LEMMA ReplyAnswers ==
    ASSUME MsgInv, OrderInv, DeskInv, AnswersInv, Up, Reply
    PROVE  AnswersInv'
<1>1. answering \in Answering /\ answering # None
  BY AnswerAssumption DEF Reply, DeskInv, HandInv, Preparing
<1>2. PICK c, r :
      /\ c = answering.client_id /\ r = answering.response /\ c \in Clients
      /\ r \in AnswerMessage /\ c \in senders /\ Deliver(c, r)
      /\ answering' = None
      /\ UNCHANGED <<senders, counter, main, cmds, requests, connected, queue>>
  BY <1>1 DEF Reply, MsgInv, AnswerInv, Elsewhere, clientVars, Answering
<1>3. /\ queue \in Seq(DaemonEvent) /\ connected \subseteq Clients
      /\ inbox \in [Clients -> Seq(DaemonResponse)]
  BY DEF DeskInv, BusTypes, ClientTypes, ReplyTypes
<1>4. ASSUME NEW d \in connected
      PROVE  InLine(d, inbox'[d], None, queue, cmds[d], requests[d])
  <2>1. /\ InLine(d, inbox[d], answering, queue, cmds[d], requests[d])
        /\ inbox[d] \in Seq(DaemonResponse) /\ IsSeq(inbox[d])
    BY <1>3 DEF AnswersInv, LineInv, IsSeq
  <2>2. ~Holds(None, d)
    BY DEF Holds
  <2>3. CASE d = c
    <3>1. inbox'[c] = Append(inbox[c], r)
      BY <1>2, <1>3, <2>3 DEF Deliver
    <3>2. Adds(inbox[c], inbox'[c], r)
      BY <2>1, <2>3, <3>1, AppendAdds
    <3>3. Holds(answering, d)
      BY <1>1, <1>2, <2>3 DEF Holds
    <3> QED BY <1>2, <1>3, <2>1, <2>2, <2>3, <3>2, <3>3, LineAnswers
  <2>4. CASE d # c
    <3>1. inbox'[d] = inbox[d]
      BY <1>2, <1>3, <2>4 DEF Deliver
    <3>2. ~Holds(answering, d)
      BY <1>2, <2>4 DEF Holds
    <3> QED BY <1>3, <2>1, <2>2, <3>1, <3>2, LineRests, BoxSameRests, QueueSameRests
  <2> QED BY <2>3, <2>4
<1>5. LineInv'
  BY <1>2, <1>4 DEF LineInv
<1> QED BY <1>2, <1>5, FreshStays DEF AnswersInv

LEMMA BoxAddRests ==
    ASSUME NEW box \in Seq(DaemonResponse), NEW x, x.kind # "Answer"
    PROVE  BoxRests(box, Append(box, x))
<1>1. IsSeq(box) /\ x \notin AnswerMessage
  BY DEF IsSeq, AnswerMessage
<1> QED BY <1>1, AppendAdds DEF BoxRests

\* An event, or the daemon's own end, is told: no answer.
LEMMA ToldAnswers ==
    ASSUME MsgInv, OrderInv, DeskInv, AnswersInv, Up, HandOut \/ Broadcast
    PROVE  AnswersInv'
<1>1. /\ UNCHANGED <<senders, counter, main, cmds, requests, connected, answering>>
      /\ queue # <<>> /\ Head(queue).kind # "IncomingCmd" /\ queue' = Tail(queue)
  BY DEF HandOut, Broadcast, Elsewhere, clientVars, DaemonStopped
<1>2. inbox \in [Clients -> Seq(DaemonResponse)] /\ connected \subseteq Clients
  BY DEF DeskInv, ReplyTypes, ClientTypes
<1>3. ASSUME NEW c \in connected
      PROVE  \/ inbox'[c] = inbox[c]
             \/ \E x : x.kind # "Answer" /\ inbox'[c] = Append(inbox[c], x)
  <2>1. CASE HandOut
    <3>1. PICK d, e :
              \/ UNCHANGED inbox
              \/ inbox' = [inbox EXCEPT ![d] = Append(@, EventResponse(e))]
      BY <2>1 DEF HandOut, Deliver
    <3>2. EventResponse(e).kind # "Answer"
      BY DEF EventResponse
    <3>3. PICK x : x = EventResponse(e)
      OBVIOUS
    <3> QED BY <1>2, <3>1, <3>2, <3>3
  <2>2. CASE Broadcast
    <3>1. inbox'[c] = inbox[c] \/ inbox'[c] = Append(inbox[c], StoppedResponse)
      BY <1>2, <2>2 DEF Broadcast
    <3>2. StoppedResponse.kind # "Answer"
      BY DEF StoppedResponse
    <3> QED BY <3>1, <3>2
  <2> QED BY <2>1, <2>2
<1>4. ASSUME NEW c \in connected
      PROVE  BoxRests(inbox[c], inbox'[c])
  <2>1. inbox[c] \in Seq(DaemonResponse)
    BY <1>2
  <2>2. CASE inbox'[c] = inbox[c]
    BY <2>2, BoxSameRests
  <2>3. CASE \E x : x.kind # "Answer" /\ inbox'[c] = Append(inbox[c], x)
    <3>1. PICK x : x.kind # "Answer" /\ inbox'[c] = Append(inbox[c], x)
      BY <2>3
    <3>2. BoxRests(inbox[c], Append(inbox[c], x))
      BY <2>1, <3>1, BoxAddRests
    <3> QED BY <3>1, <3>2
  <2> QED BY <1>3, <2>2, <2>3
<1>5. \A c : QueueRests(c, queue, queue')
  BY <1>1, QueueOther
<1> QED BY <1>1, <1>4, <1>5, LineStays

LEMMA ThreadAnswers ==
    ASSUME MsgInv, OrderInv, DeskInv, AnswersInv, Up,
           \/ OfUnits \/ SendSubscription \/ SpawnWorker \/ TakeUnit \/ TakeStopDaemon
           \/ ExitDaemon
    PROVE  AnswersInv'
<1>1. CASE OfUnits
  <2>1. UNCHANGED <<clientVars, inbox, answering>>
    BY <1>1 DEF OfUnits, replyVars
  <2>2. UNCHANGED queue \/ queue' = Append(queue, DaemonStopped)
    BY <1>1 DEF OfUnits, Autostart, StartThread, WriteStop, Sweep, Visit, HasStarted, Wait,
       EndSweep
  <2>3. DaemonStopped.kind # "IncomingCmd"
    BY DEF DaemonStopped
  <2> QED BY <2>1, <2>2, <2>3, LineAside DEF clientVars
<1>2. CASE SendSubscription \/ SpawnWorker \/ ExitDaemon
  <2>1. UNCHANGED <<clientVars, inbox, answering, queue>>
    BY <1>2 DEF SendSubscription, SpawnWorker, ExitDaemon, Elsewhere
  <2> QED BY <2>1, LineAside DEF clientVars
<1>3. CASE TakeUnit \/ TakeStopDaemon
  <2>1. /\ UNCHANGED <<clientVars, inbox, answering>>
        /\ queue # <<>> /\ queue' = Tail(queue) /\ Head(queue).kind # "IncomingCmd"
    BY <1>3 DEF TakeUnit, TakeStopDaemon, Rest, replyVars, StopDaemonEvent
  <2> QED BY <2>1, LineAside DEF clientVars
<1> QED BY <1>1, <1>2, <1>3

LEMMA AnswersInit ==
    ASSUME Init
    PROVE  AnswersInv
  BY DEF Init, AnswersInv, FreshInv, LineInv

LEMMA AnswersNext ==
    ASSUME UnitsInv, MsgInv, OrderInv, DeskInv, AnswersInv, [Next]_daemonVars
    PROVE  AnswersInv'
<1>1. CASE UNCHANGED daemonVars
  <2>1. UNCHANGED <<clientVars, inbox, answering, queue>>
    BY <1>1 DEF daemonVars, managerVars, replyVars
  <2> QED BY <2>1, LineAside DEF clientVars
<1>2. CASE Next
  <2>1. Up
    BY <1>2 DEF Next
  <2>2. CASE Threads
    <3>1. CASE DaemonThread
      BY <2>1, <3>1, CommandsAnswers, ReplyAnswers, ToldAnswers, ThreadAnswers
         DEF DaemonThread
    <3>2. CASE \E c \in Clients : Relay(c) \/ Hangup(c)
      BY <3>2, ClientAnswers
    <3> QED BY <2>1, <2>2, <3>1, <3>2, AcceptorAnswers, OthersAnswers DEF Threads
  <2>3. CASE \E c \in Clients, cmd \in Requests : Send(c, cmd)
    BY <2>3, ClientAnswers
  <2>4. CASE \E c \in Leavers : Disconnect(c)
    BY <2>4, ClientAnswers, DaemonAssumption DEF DaemonAssumption
  <2> QED BY <1>2, <2>2, <2>3, <2>4 DEF Next
<1> QED BY <1>1, <1>2

\* The commands of a client that stays are answered in the order in which it sent
\* them, each exactly once (mcmand.rs: the client's thread, IncomingCmd and what
\* the daemon thread sends back): none is lost, doubled or overtaken on its way.
THEOREM CommandsAreAnsweredInOrder == Spec => []AnsweredInOrder
<1>1. Init => OrderInv /\ DeskInv /\ AnswersInv
  BY OrderInit, DeskInit, AnswersInit
<1>2. (UnitsInv /\ MsgInv) /\ (UnitsInv /\ MsgInv)' /\ OrderInv /\ DeskInv /\ AnswersInv
          /\ [Next]_daemonVars => (OrderInv /\ DeskInv /\ AnswersInv)'
  BY OrderNext, OrderStutter, DeskNext, AnswersNext
<1>3. DeskInv /\ AnswersInv => AnsweredInOrder
  BY LineIsOrder DEF AnswersInv
<1> QED BY <1>1, <1>2, <1>3, DaemonInv, PTL DEF Spec

(***************************************************************************)
(* The daemon's invariants together, and what its threads do to what goes  *)
(* from one to another: to the inboxes, the two queues and the processes.  *)
(***************************************************************************)

DaemonHolds == UnitsInv /\ MsgInv /\ OrderInv /\ DeskInv /\ AnswersInv

LEMMA DaemonInit ==
    ASSUME Init
    PROVE  DaemonHolds
  BY InitKeeps, OrderInit, DeskInit, AnswersInit DEF DaemonHolds

LEMMA DaemonStepKeeps ==
    ASSUME DaemonHolds, [Next]_daemonVars
    PROVE  DaemonHolds'
<1>1. UnitsInv' /\ MsgInv'
  BY NextKeeps, StutterKeeps DEF DaemonHolds
<1> QED BY <1>1, OrderNext, OrderStutter, DeskNext, AnswersNext DEF DaemonHolds

LEMMA DaemonAlways == Spec => []DaemonHolds
<1>1. Init => DaemonHolds
  BY DaemonInit
<1>2. DaemonHolds /\ [Next]_daemonVars => DaemonHolds'
  BY DaemonStepKeeps
<1> QED BY <1>1, <1>2, PTL DEF Spec

\* The inbox of a client is left, greets a new client, or gets one message more:
\* the answer in hand, the event at the head of the queue, or the daemon's end.
BoxStep(c) ==
    \/ inbox'[c] = inbox[c]
    \/ /\ c = counter /\ main = "accept"
       /\ inbox'[c] = <<SetSender, VersionResponse>>
    \/ /\ c \in connected
       /\ \E x : /\ Adds(inbox[c], inbox'[c], x)
                 /\ \/ Holds(answering, c) /\ x = answering.response
                    \/ /\ HandOut /\ Head(queue).client_id = c
                       /\ x = EventResponse(Head(queue).event)
                    \/ x = StoppedResponse /\ pc' = "closing"

LEMMA BoxGrows ==
    ASSUME DaemonHolds, NEW c \in Clients, NEW x, inbox' = [inbox EXCEPT ![c] = Append(@, x)]
    PROVE  Adds(inbox[c], inbox'[c], x)
<1>1. DOMAIN inbox = Clients /\ IsSeq(inbox[c])
  BY DEF DaemonHolds, OrderInv, BoxInv
<1>2. inbox'[c] = Append(inbox[c], x)
  BY <1>1
<1> QED BY <1>1, <1>2, AppendAdds

LEMMA ThreadsBoxes ==
    ASSUME DaemonHolds, Up, Threads, NEW c \in Clients
    PROVE  BoxStep(c) \/ RefuseClient
<1>1. CASE Acceptor
  <2>1. DOMAIN inbox = Clients
    BY DEF DaemonHolds, OrderInv, BoxInv
  <2> QED BY <1>1, <2>1 DEF Acceptor, Register, Greet, AcceptorRest, replyVars, BoxStep
<1>2. CASE Reply
  <2>1. CASE UNCHANGED inbox
    BY <2>1 DEF BoxStep
  <2>2. CASE ~UNCHANGED inbox
    <3>1. PICK d, r : /\ d = answering.client_id /\ r = answering.response /\ d \in connected
                      /\ inbox' = [inbox EXCEPT ![d] = Append(@, r)]
      BY <1>2, <2>2 DEF Reply, Deliver
    <3>2. answering # None /\ connected \subseteq Clients
      BY <1>2, AnswerAssumption DEF Reply, DaemonHolds, DeskInv, HandInv, Preparing, ClientTypes
    <3>3. CASE c = d
      <4>1. Adds(inbox[c], inbox'[c], r) /\ Holds(answering, c)
        BY <3>1, <3>2, <3>3, BoxGrows DEF Holds
      <4> QED BY <3>1, <3>3, <4>1 DEF BoxStep
    <3>4. CASE c # d
      BY <3>1, <3>4 DEF BoxStep, DaemonHolds, OrderInv, BoxInv
    <3> QED BY <3>3, <3>4
  <2> QED BY <2>1, <2>2
<1>3. CASE HandOut
  <2>1. CASE UNCHANGED inbox
    BY <2>1 DEF BoxStep
  <2>2. CASE ~UNCHANGED inbox
    <3>1. PICK d, x : /\ x = EventResponse(Head(queue).event) /\ d \in connected
                      /\ inbox' = [inbox EXCEPT ![d] = Append(@, x)]
                      /\ d = Head(queue).client_id
      BY <1>3, <2>2 DEF HandOut, Deliver
    <3>2. connected \subseteq Clients
      BY DEF DaemonHolds, DeskInv, ClientTypes
    <3>3. CASE c = d
      <4>1. Adds(inbox[c], inbox'[c], x)
        BY <3>1, <3>2, <3>3, BoxGrows
      <4> QED BY <1>3, <3>1, <3>2, <3>3, <4>1 DEF BoxStep
    <3>4. CASE c # d
      BY <3>1, <3>4 DEF BoxStep, DaemonHolds, OrderInv, BoxInv
    <3> QED BY <3>3, <3>4
  <2> QED BY <2>1, <2>2
<1>4. CASE Broadcast
  <2>1. IsSeq(inbox[c])
    BY DEF DaemonHolds, OrderInv, BoxInv
  <2>2. PICK x : x = StoppedResponse
    OBVIOUS
  <2>3. Adds(inbox[c], Append(inbox[c], x), x)
    BY <2>1, AppendAdds
  <2>4. /\ pc' = "closing"
        /\ inbox'[c] = IF c \in senders \cap connected THEN Append(inbox[c], x) ELSE inbox[c]
    BY <1>4, <2>2 DEF Broadcast
  <2> QED BY <2>2, <2>3, <2>4 DEF BoxStep
<1>5. ASSUME UNCHANGED inbox PROVE BoxStep(c)
  BY <1>5 DEF BoxStep
<1>6. CASE \E d \in Clients : Relay(d) \/ Hangup(d)
  BY <1>5, <1>6 DEF Relay, Hangup, replyVars
<1>7. CASE \/ Manager \/ OfServers(LogNext) \/ OfServers(ProcessNext)
           \/ \E j \in 1 .. MaxJobs : OfJob(j)
  BY <1>5, <1>7 DEF Manager, OfServers, OfJob, replyVars
<1>8. CASE DaemonThread /\ ~Reply /\ ~HandOut /\ ~Broadcast
  BY <1>5, <1>8, CommandsRest DEF DaemonHolds, DaemonThread, OfUnits, SendSubscription, SpawnWorker,
     TakeUnit, TakeStopDaemon, ExitDaemon, Elsewhere, Rest, replyVars
<1> QED BY <1>1, <1>2, <1>3, <1>4, <1>6, <1>7, <1>8 DEF Threads

\* A command that neither subscribes nor tells what a server prints.
Plain(x) ==
    /\ x.kind # "AddSubscription"
    /\ x.kind = "DispatchEvent" => x.event.type \notin LogEvents
EventMoves ==
    \/ UNCHANGED eventQueue
    \/ \E p \in Pids : RaiseEvent(p)
    \/ SendSubscription
    \/ ManagerNext /\ eventQueue # <<>> /\ eventQueue' = Tail(eventQueue)
    \/ \E x : Plain(x) /\ eventQueue' = Append(eventQueue, x)

LEMMA PlainOnes ==
    /\ \A c : Plain(RemoveAllCmd(c))
    /\ \A t, u, j : t \notin LogEvents => Plain(JobEvent(t, u, j))
  BY DEF Plain, RemoveAllCmd, JobEvent, DispatchCmd

LEMMA JobEvents ==
    ASSUME NEW j, JobStep(j)
    PROVE  UNCHANGED eventQueue \/ \E x : Plain(x) /\ eventQueue' = Append(eventQueue, x)
<1>1. UNCHANGED eventQueue
      \/ \E type : /\ type \notin LogEvents
                   /\ Raises(j, type)
  BY DEF JobStep, Look, MakeDir, AcceptEula, SayProgress, CheckForUpdate, Lookup, OpenJar, CopyJar,
     Patch, TruncateUnitFile, FillUnitFile, SendAdd, SayHowItEnded, Fails, Panics, Nothing, Reports,
     CompleteEvent, FailedEvent, LogEvents
<1> QED BY <1>1, PlainOnes DEF Raises

LEMMA ThreadsEvents ==
    ASSUME DaemonHolds, Up, Threads
    PROVE  EventMoves
<1>1. ASSUME UNCHANGED eventQueue PROVE EventMoves
  BY <1>1 DEF EventMoves
<1>2. CASE Acceptor
  BY <1>1, <1>2 DEF Acceptor, Greet, Register, RefuseClient, AcceptorRest, managerVars
<1>3. ASSUME NEW c \in Clients, Relay(c) \/ Hangup(c)
      PROVE  EventMoves
  BY <1>3, PlainOnes DEF Relay, Hangup, EventMoves
<1>4. CASE Manager
  <2>1. ManagerNext
    BY <1>4 DEF Manager
  <2>2. UNCHANGED eventQueue \/ (eventQueue # <<>> /\ eventQueue' = Tail(eventQueue))
    BY <2>1 DEF ManagerNext, DispatchEvent, Forward, AddSubscription, RemoveSubscription,
       RemoveAllSubscriptions, Received
  <2> QED BY <2>1, <2>2 DEF EventMoves
<1>5. CASE OfServers(LogNext) \/ OfServers(ProcessNext)
  BY <1>5 DEF OfServers, LogNext, ProcessNext, EventMoves, ReadLine, EndLog, Load, Run, Refuse,
     BeginStop, CloseDown, Exit, Echo, Prints
<1>6. CASE \E j \in 1 .. MaxJobs : OfJob(j)
  BY <1>6, JobEvents DEF OfJob, EventMoves
<1>7. CASE DaemonThread
  <2>1. CASE Commands
    <3>1. Handled
      BY <2>1, QuietCommands, SubscribeKeeps, StartKeeps, StopKeeps, InputKeeps
         DEF Commands, MsgInv, DaemonHolds
    <3> QED BY <1>1, <3>1 DEF Handled
  <2>2. CASE OfUnits
    BY <1>1, <2>2 DEF OfUnits, Autostart, StartThread, WriteStop, Sweep, Visit, HasStarted, Wait,
       EndSweep
  <2>3. CASE SendSubscription
    BY <2>3 DEF EventMoves
  <2>4. CASE SpawnWorker
    <3>1. UNCHANGED eventQueue
          \/ \E u : eventQueue' = Append(eventQueue, JobEvent("InstallationFailed", u, 0))
      BY <2>4 DEF SpawnWorker
    <3> QED BY <1>1, <3>1, PlainOnes DEF EventMoves, LogEvents
  <2>5. CASE Reply \/ HandOut
    <3>1. UNCHANGED eventQueue \/ \E c : eventQueue' = Append(eventQueue, RemoveAllCmd(c))
      BY <2>5 DEF Reply, HandOut, Deliver
    <3> QED BY <1>1, <3>1, PlainOnes DEF EventMoves
  <2>6. CASE TakeUnit \/ TakeStopDaemon \/ Broadcast \/ ExitDaemon
    BY <1>1, <2>6 DEF TakeUnit, TakeStopDaemon, Broadcast, ExitDaemon, AddServerUnit, BeginSweep
  <2> QED BY <1>7, <2>1, <2>2, <2>3, <2>4, <2>5, <2>6 DEF DaemonThread
<1> QED BY <1>2, <1>3, <1>4, <1>5, <1>6, <1>7 DEF Threads

QueueStays ==
    \/ UNCHANGED queue
    \/ queue # <<>> /\ queue' = Tail(queue)
    \/ \E m : m.kind # "SendEvent" /\ queue' = Append(queue, m)
    \/ queue # <<>> /\ queue' = Append(Tail(queue), StopDaemonEvent)

LEMMA ThreadsQueue ==
    ASSUME DaemonHolds, Up, Threads
    PROVE  \/ Manager /\ (Forward \/ DispatchEvent)
           \/ HandOut
           \/ QueueStays /\ UNCHANGED outbox
<1>1. ASSUME UNCHANGED <<queue, outbox>>
      PROVE  QueueStays /\ UNCHANGED outbox
  BY <1>1 DEF QueueStays
<1>2. CASE Acceptor
  BY <1>1, <1>2 DEF Acceptor, Greet, Register, RefuseClient, AcceptorRest, managerVars
<1>3. ASSUME NEW c \in Clients, Relay(c) \/ Hangup(c)
      PROVE  QueueStays /\ UNCHANGED outbox
  <2>1. \A x, y : IncomingCmd(x, y).kind # "SendEvent"
    BY DEF IncomingCmd
  <2> QED BY <1>3, <2>1 DEF Relay, Hangup, QueueStays
<1>4. CASE Manager
  BY <1>1, <1>4 DEF Manager, ManagerNext, AddSubscription, RemoveSubscription,
     RemoveAllSubscriptions
<1>5. CASE OfServers(LogNext) \/ OfServers(ProcessNext)
  BY <1>1, <1>5 DEF OfServers, LogNext, ProcessNext, ReadLine, RaiseEvent, EndLog, Load, Run,
     Refuse, BeginStop, CloseDown, Exit, Echo, Prints
<1>6. ASSUME NEW j \in 1 .. MaxJobs, OfJob(j)
      PROVE  QueueStays /\ UNCHANGED outbox
  <2>1. j \in DOMAIN jobs /\ JobStep(j) /\ WorkersInv /\ UNCHANGED outbox
    BY <1>6 DEF OfJob, DaemonHolds, DeskInv
  <2>2. UNCHANGED queue \/ \E m \in AddServerUnitEvents : queue' = Append(queue, m)
    BY <2>1, StepSends
  <2>3. \A m \in AddServerUnitEvents : m.kind # "SendEvent"
    BY DEF AddServerUnitEvents
  <2> QED BY <2>1, <2>2, <2>3 DEF QueueStays
<1>7. CASE DaemonThread /\ ~HandOut
  <2>1. CASE Commands
    <3>1. Handled
      BY <2>1, QuietCommands, SubscribeKeeps, StartKeeps, StopKeeps, InputKeeps
         DEF Commands, MsgInv, DaemonHolds
    <3> QED BY <3>1 DEF Handled, QueueStays
  <2>2. CASE OfUnits
    <3>1. DaemonStopped.kind # "SendEvent"
      BY DEF DaemonStopped
    <3> QED BY <2>2, <3>1 DEF OfUnits, Autostart, StartThread, WriteStop, Sweep, Visit, HasStarted,
            Wait, EndSweep, QueueStays
  <2>3. CASE SendSubscription \/ SpawnWorker \/ Reply
    BY <1>1, <2>3 DEF SendSubscription, SpawnWorker, Reply, Elsewhere
  <2>4. CASE TakeUnit \/ TakeStopDaemon \/ Broadcast \/ ExitDaemon
    BY <2>4 DEF TakeUnit, TakeStopDaemon, Broadcast, ExitDaemon, AddServerUnit, BeginSweep,
       QueueStays, Elsewhere, Rest
  <2> QED BY <1>7, <2>1, <2>2, <2>3, <2>4 DEF DaemonThread
<1> QED BY <1>2, <1>3, <1>4, <1>5, <1>6, <1>7 DEF Threads

LEMMA ThreadsSources ==
    ASSUME DaemonHolds, Up, Threads
    PROVE  \/ \E p \in Pids :
                PrintsRow(p) \/ Exit(p) \/ ReadLine(p) \/ RaiseEvent(p) \/ EndLog(p)
           \/ /\ UNCHANGED <<pipe, raising, outputState>>
              /\ \/ UNCHANGED phase
                 \/ \E p \in Pids : /\ phase[p] = "unborn"
                                    /\ phase' = [phase EXCEPT ![p] = "booting"]
<1>1. CASE OfServers(LogNext) \/ OfServers(ProcessNext)
  BY <1>1, WorldKinds DEF OfServers, LogNext, ProcessNext
<1>2. CASE Acceptor
  BY <1>2 DEF Acceptor, Greet, Register, RefuseClient, AcceptorRest, processVars, Dies
<1>3. CASE \/ \E c \in Clients : Relay(c) \/ Hangup(c)
           \/ Manager
           \/ \E j \in 1 .. MaxJobs : OfJob(j)
  BY <1>3 DEF Relay, Hangup, Manager, OfJob, processVars
<1>4. CASE DaemonThread
  <2>1. ASSUME NEW u, NEW next, Spawn(u, next)
        PROVE  /\ UNCHANGED <<pipe, raising, outputState>>
               /\ \E p \in Pids : /\ phase[p] = "unborn"
                                  /\ phase' = [phase EXCEPT ![p] = "booting"]
    BY <2>1 DEF Spawn, Unborn
  <2>2. CASE OfUnits
    <3>1. CASE Autostart
      BY <2>1, <3>1 DEF Autostart, Dies, processVars
    <3> QED BY <2>2, <3>1 DEF OfUnits, StartThread, WriteStop, Panic, Dies, Sweep, Visit,
            HasStarted, Wait, EndSweep, processVars
  <2>3. CASE HandleStart
    <3>1. PICK u : StartUnit(u)
      BY <2>3 DEF HandleStart
    <3> QED BY <2>1, <3>1 DEF StartUnit, Panic, Dies, processVars
  <2>4. CASE HandleStop
    BY <2>4 DEF HandleStop, StopUnit, processVars
  <2>5. CASE HandleInput
    BY <2>5 DEF HandleInput, SendCommand, Panic, Dies, processVars
  <2>6. CASE HandleList \/ HandleGetVersion \/ HandleUnknownServer \/ HandleSubscribeEvent
             \/ HandleStopDaemon \/ HandleInstall \/ HandleUpdate
    BY <2>6 DEF HandleList, HandleGetVersion, HandleUnknownServer, HandleSubscribeEvent,
       HandleStopDaemon, HandleInstall, HandleUpdate, UnitsUnchanged, processVars
  <2>7. CASE SendSubscription \/ SpawnWorker \/ Reply \/ HandOut \/ TakeUnit \/ TakeStopDaemon
             \/ Broadcast \/ ExitDaemon
    BY <2>7 DEF SendSubscription, SpawnWorker, Reply, HandOut, TakeUnit, TakeStopDaemon, Broadcast,
       ExitDaemon, Elsewhere, AddServerUnit, BeginSweep, processVars
  <2> QED BY <1>4, <2>2, <2>3, <2>4, <2>5, <2>6, <2>7 DEF DaemonThread, Commands
<1> QED BY <1>1, <1>2, <1>3, <1>4 DEF Threads

LEMMA ThreadsAnswering ==
    ASSUME DaemonHolds, Up, Threads
    PROVE  Commands \/ UNCHANGED answering \/ answering' = None
<1>1. CASE DaemonThread
  BY <1>1 DEF DaemonThread, OfUnits, SendSubscription, SpawnWorker, Reply, HandOut, TakeUnit,
     TakeStopDaemon, Broadcast, ExitDaemon, replyVars
<1>2. CASE \/ Manager \/ OfServers(LogNext) \/ OfServers(ProcessNext)
           \/ \E j \in 1 .. MaxJobs : OfJob(j)
  BY <1>2 DEF Manager, OfServers, OfJob, replyVars
<1>3. CASE Acceptor \/ \E c \in Clients : Relay(c) \/ Hangup(c)
  BY <1>3 DEF Acceptor, Register, Greet, RefuseClient, AcceptorRest, replyVars, Relay, Hangup
<1> QED BY <1>1, <1>2, <1>3 DEF Threads

(***************************************************************************)
(* Lists and events.  An event on its way, or in an inbox, tells of a      *)
(* process whose output has come as far, and stays as far; a list is made  *)
(* from that output at one moment, and until it is sent the daemon thread  *)
(* hands out no event.                                                     *)
(***************************************************************************)

TrueNow(e) ==
    e.type \in LogEvents =>
        e.body \in Pids /\ e.server_id \in DOMAIN servers /\ Heard(e.body, e.type)

EventsTrue ==
    /\ \A x \in Elems(eventQueue) : x.kind = "DispatchEvent" => TrueNow(x.event)
    /\ \A x \in Elems(outbox) : TrueNow(x.event)
    /\ \A x \in Elems(queue) : x.kind = "SendEvent" => TrueNow(x.event)
    /\ \A c \in Clients : \A i \in 1 .. Len(inbox[c]) :
          inbox[c][i].kind = "ServerEvent" => TrueNow(inbox[c][i].event)

\* A message that was sent, and an answer that follows it.
Agree(m, answer) ==
    m.kind = "ServerEvent" /\ m.event.type \in LogEvents /\ answer.response = "List" =>
        LET e == m.event
            list == answer.servers
        IN list[e.server_id].process = e.body
               => list[e.server_id].status \notin NoLongerAfter[e.type]
Orderly(box) ==
    \A i, j \in 1 .. Len(box) : i < j /\ box[j].kind = "Answer" => Agree(box[i], box[j])
ListInv ==
    /\ \A c \in Clients : Orderly(inbox[c])
    /\ \A c \in Clients : Holds(answering, c) =>
          \A i \in 1 .. Len(inbox[c]) : Agree(inbox[c][i], answering.response)

TruthInv == LogInv /\ EventsTrue /\ ListInv

\* What an event says rules out the statuses before it.
LEMMA ReachedRulesOut ==
    ASSUME NEW t \in LogEvents
    PROVE  /\ "Down" \notin NoLongerAfter[t] /\ "Errored" \notin NoLongerAfter[t]
           /\ \A s \in Reached[t] : StatusOf[s] \notin NoLongerAfter[t]
<1>1. CASE t = "ServerStarting"
  BY <1>1 DEF NoLongerAfter, Reached, StatusOf
<1>2. CASE t = "ServerStarted"
  BY <1>2 DEF NoLongerAfter, Reached, StatusOf
<1>3. CASE t = "ServerStopping"
  BY <1>3 DEF NoLongerAfter, Reached, StatusOf
<1>4. CASE t = "ServerStopped"
  BY <1>4 DEF NoLongerAfter, Reached, StatusOf
<1>5. CASE t = "ServerFailed"
  BY <1>5 DEF NoLongerAfter, Reached, StatusOf
<1> QED BY <1>1, <1>2, <1>3, <1>4, <1>5 DEF LogEvents

LEMMA ListTellsNoLess ==
    ASSUME DaemonHolds, NEW e, TrueNow(e), e.type \in LogEvents,
           UnitList[e.server_id].process = e.body
    PROVE  UnitList[e.server_id].status \notin NoLongerAfter[e.type]
<1>1. PICK t \in LogEvents : t = e.type
  OBVIOUS
<1>2. PICK u \in DOMAIN servers : u = e.server_id
  BY DEF TrueNow
<1>3. PICK p \in Pids : p = e.body
  BY DEF TrueNow
<1>4. UnitList[u] = ServerInfo(u)
  BY DEF UnitList
<1>5. servers[u].process = p /\ UnitList[u].status = Status(u)
  BY <1>2, <1>3, <1>4 DEF ServerInfo
<1>6. p # None /\ servers[u].status = p
  BY <1>5, ProcessAssumption DEF ProcessAssumption, DaemonHolds, DeskInv, HandleInv
<1>7. outputState[p] \in Reached[t]
  BY <1>1, <1>3 DEF TrueNow, Heard
<1>8. Status(u) \notin NoLongerAfter[t]
  <2>1. CASE phase[p] = "exited"
    BY <1>5, <1>6, <2>1, ReachedRulesOut DEF Status
  <2>2. CASE phase[p] # "exited"
    BY <1>5, <1>6, <1>7, <2>2, ReachedRulesOut DEF Status
  <2> QED BY <2>1, <2>2
<1> QED BY <1>1, <1>2, <1>5, <1>8

LEMMA OrderlyIsFollowing == ListInv => ListsFollowEvents
<1> SUFFICES ASSUME ListInv, NEW c \in Clients, NEW i \in 1 .. Len(inbox[c]),
                    NEW j \in 1 .. Len(inbox[c]),
                    i < j, inbox[c][i].kind = "ServerEvent",
                    inbox[c][i].event.type \in DOMAIN NoLongerAfter,
                    inbox[c][j].kind = "Answer", inbox[c][j].response = "List"
             PROVE  LET e == inbox[c][i].event
                        list == inbox[c][j].servers
                    IN list[e.server_id].process = e.body
                           => list[e.server_id].status \notin NoLongerAfter[e.type]
  BY DEF ListsFollowEvents
<1>1. PICK m, a : m = inbox[c][i] /\ a = inbox[c][j]
  OBVIOUS
<1>2. m.event.type \in LogEvents
  BY <1>1 DEF NoLongerAfter, LogEvents
<1>3. Agree(m, a)
  BY <1>1 DEF ListInv, Orderly
<1> QED BY <1>1, <1>2, <1>3 DEF Agree

(* What was true stays true. *)

LEMMA ThreadsLog ==
    ASSUME Echoes \subseteq {"Done"}, DaemonHolds, LogInv, Up, Threads
    PROVE  LogInv' /\ HeardStays
<1>1. UnitTypes
  BY DEF DaemonHolds, UnitsInv
<1>2. ASSUME NEW p \in Pids,
             PrintsRow(p) \/ Exit(p) \/ ReadLine(p) \/ RaiseEvent(p) \/ EndLog(p)
      PROVE  LogInv' /\ HeardStays
  BY <1>1, <1>2, LogPrints, LogExit, LogReadLine, LogRaiseEvent, LogEndLog
<1>3. CASE UNCHANGED <<phase, pipe, outputState, raising>>
  BY <1>3, LogSame
<1>4. ASSUME NEW p \in Pids, phase[p] = "unborn", phase' = [phase EXCEPT ![p] = "booting"],
             UNCHANGED <<pipe, outputState, raising>>
      PROVE  LogInv' /\ HeardStays
  <2>1. p \in Unborn
    BY <1>4 DEF Unborn
  <2> QED BY <1>1, <1>4, <2>1, LogSpawn
<1> QED BY <1>2, <1>3, <1>4, ThreadsSources

\* The daemon never loses a unit.
LEMMA ThreadsUnits ==
    ASSUME DaemonHolds, Up, Threads
    PROVE  DOMAIN servers \subseteq DOMAIN servers'
<1>1. CASE Acceptor
  BY <1>1 DEF Acceptor, Greet, Register, RefuseClient, Dies, supervisionVars
<1>2. CASE \/ \E c \in Clients : Relay(c) \/ Hangup(c)
           \/ Manager \/ OfServers(LogNext) \/ OfServers(ProcessNext)
           \/ \E j \in 1 .. MaxJobs : OfJob(j)
  BY <1>2 DEF Relay, Hangup, Manager, OfServers, OfJob, supervisionVars
<1>3. CASE Commands
  BY <1>3, CommandsUnits DEF DaemonHolds
<1>4. CASE OfUnits
  <2>1. \A u, next : Spawn(u, next) => DOMAIN servers' = DOMAIN servers
    BY DEF Spawn
  <2>2. CASE Autostart
    BY <2>1, <2>2 DEF Autostart, Dies
  <2>3. CASE WriteStop
    BY <2>3 DEF WriteStop, Panic, Dies
  <2> QED BY <1>4, <2>2, <2>3 DEF OfUnits, StartThread, Sweep, Visit, HasStarted, Wait, EndSweep
<1>5. CASE SendSubscription \/ SpawnWorker \/ Reply \/ HandOut \/ TakeUnit \/ TakeStopDaemon
           \/ Broadcast \/ ExitDaemon
  BY <1>5 DEF SendSubscription, SpawnWorker, Reply, HandOut, TakeUnit, TakeStopDaemon, Broadcast,
     ExitDaemon, Elsewhere, AddServerUnit, BeginSweep
<1> QED BY <1>1, <1>2, <1>3, <1>4, <1>5 DEF Threads, DaemonThread

TruthStays == \A e : TrueNow(e) => TrueNow(e)'

LEMMA ThreadsTruth ==
    ASSUME Echoes \subseteq {"Done"}, DaemonHolds, LogInv, Up, Threads
    PROVE  TruthStays
<1>1. HeardStays /\ DOMAIN servers \subseteq DOMAIN servers'
  BY ThreadsLog, ThreadsUnits
<1>2. ASSUME NEW e, TrueNow(e)
      PROVE  TrueNow(e)'
  <2>1. CASE e.type \notin LogEvents
    BY <2>1 DEF TrueNow
  <2>2. CASE e.type \in LogEvents
    <3>1. PICK p, t : p \in Pids /\ p = e.body /\ t = e.type
      BY <1>2, <2>2 DEF TrueNow
    <3>2. Heard(p, t)
      BY <1>2, <2>2, <3>1 DEF TrueNow
    <3>3. Heard(p, t)'
      BY <1>1, <3>1, <3>2 DEF HeardStays
    <3>4. e.server_id \in DOMAIN servers'
      BY <1>1, <1>2, <2>2 DEF TrueNow
    <3> QED BY <3>1, <3>3, <3>4 DEF TrueNow
  <2> QED BY <2>1, <2>2
<1> QED BY <1>2 DEF TruthStays

(* Step by step: the four places where events are. *)

LEMMA ThreadsEventQueue ==
    ASSUME DaemonHolds, LogInv, EventsTrue, TruthStays, Up, Threads,
           NEW x \in Elems(eventQueue'), x.kind = "DispatchEvent", NEW e, e = x.event
    PROVE  TrueNow(e)'
<1>1. IsSeq(eventQueue)
  BY DEF DaemonHolds, MsgInv, EventsInv
<1>2. CASE x \in Elems(eventQueue)
  BY <1>2 DEF EventsTrue, TruthStays
<1>3. CASE UNCHANGED eventQueue
  BY <1>2, <1>3
<1>4. CASE eventQueue # <<>> /\ eventQueue' = Tail(eventQueue)
  BY <1>1, <1>2, <1>4, TailIsSeq
<1>5. ASSUME NEW y, Plain(y), eventQueue' = Append(eventQueue, y)
      PROVE  TrueNow(e)'
  <2>1. CASE x = y
    BY <1>5, <2>1 DEF Plain, TrueNow
  <2>2. CASE x # y
    BY <1>1, <1>2, <1>5, <2>2, AppendIsSeq
  <2> QED BY <2>1, <2>2
<1>6. CASE SendSubscription
  <2>1. PICK y : /\ y = Head(todo) /\ todo # <<>> /\ eventQueue' = Append(eventQueue, y)
                 /\ IsSeq(todo) /\ \A z \in Elems(todo) : z.kind = "AddSubscription"
    BY <1>6 DEF SendSubscription, DaemonHolds, MsgInv, TodoInv
  <2>2. y.kind = "AddSubscription"
    BY <2>1, HeadIsElem
  <2> QED BY <1>1, <1>2, <2>1, <2>2, AppendIsSeq
<1>7. ASSUME NEW p \in Pids, RaiseEvent(p)
      PROVE  TrueNow(e)'
  <2>1. PICK d, y : /\ d = [type |-> raising[p], server_id |-> unit[p], body |-> p]
                    /\ y = DispatchCmd(d) /\ eventQueue' = Append(eventQueue, y)
                    /\ raising[p] \notin {None, Ended}
    BY <1>7 DEF RaiseEvent
  <2>2. unit[p] \in DOMAIN servers
    BY <2>1 DEF DaemonHolds, UnitsInv, BornInv
  <2>3. Heard(p, raising[p])
    BY <2>1 DEF LogInv
  <2>4. TrueNow(d)
    BY <2>1, <2>2, <2>3 DEF TrueNow
  <2>5. CASE x = y
    BY <2>1, <2>4, <2>5 DEF DispatchCmd, TruthStays
  <2>6. CASE x # y
    BY <1>1, <1>2, <2>1, <2>6, AppendIsSeq
  <2> QED BY <2>5, <2>6
<1> QED BY <1>3, <1>4, <1>5, <1>6, <1>7, ThreadsEvents DEF EventMoves

LEMMA ThreadsOutbox ==
    ASSUME DaemonHolds, EventsTrue, TruthStays, Up, Threads,
           NEW x \in Elems(outbox'), NEW e, e = x.event
    PROVE  TrueNow(e)'
<1>1. IsSeq(outbox) /\ IsSeq(eventQueue)
  BY DEF DaemonHolds, MsgInv, OutboxInv, EventsInv
<1>2. CASE x \in Elems(outbox)
  BY <1>2 DEF EventsTrue, TruthStays
<1>3. CASE Forward
  <2>1. outbox # <<>> /\ outbox' = Tail(outbox)
    BY <1>3 DEF Forward
  <2> QED BY <1>1, <1>2, <2>1, TailIsSeq
<1>4. CASE DispatchEvent
  <2>1. PICK d, ids : /\ d = Head(eventQueue).event /\ eventQueue # <<>>
                      /\ Head(eventQueue).kind = "DispatchEvent"
                      /\ ids = subscriptions[<<d.server_id, d.type>>]
                      /\ outbox' = [i \in 1 .. Len(ids) |-> SendEvent(ids[i], d)]
    BY <1>4 DEF DispatchEvent, Received
  <2>2. PICK i \in 1 .. Len(outbox') : x = outbox'[i]
    BY DEF Elems
  <2>3. Head(eventQueue) \in Elems(eventQueue)
    BY <1>1, <2>1, HeadIsElem
  <2>4. d.server_id \in Units /\ d.type \in ServerEventType
    <3>1. Head(eventQueue) \in EventManagerCmd
      BY <2>1 DEF DaemonHolds, DeskInv, BusTypes, ManagerTypeOK
    <3> QED BY <2>1, <3>1 DEF EventManagerCmd, ServerEvent
  <2>5. PICK n \in Nat : n = Len(ids)
    BY <2>1, <2>4 DEF DaemonHolds, DeskInv, BusTypes, ManagerTypeOK, Key
  <2>6. x.event = d
    <3>1. outbox' = [h \in 1 .. n |-> SendEvent(ids[h], d)]
      BY <2>1, <2>5
    <3>2. Len(outbox') = n
      BY <3>1
    <3>3. x = SendEvent(ids[i], d)
      BY <2>2, <3>1, <3>2
    <3> QED BY <3>3 DEF SendEvent
  <2>7. TrueNow(d)
    BY <2>1, <2>3 DEF EventsTrue
  <2> QED BY <2>6, <2>7 DEF TruthStays
<1>5. CASE UNCHANGED outbox
  BY <1>2, <1>5
<1>6. HandOut => UNCHANGED outbox
  BY DEF HandOut, Elsewhere
<1> QED BY <1>3, <1>4, <1>5, <1>6, ThreadsQueue

LEMMA ThreadsDaemonQueue ==
    ASSUME DaemonHolds, EventsTrue, TruthStays, Up, Threads,
           NEW x \in Elems(queue'), x.kind = "SendEvent", NEW e, e = x.event
    PROVE  TrueNow(e)'
<1>1. IsSeq(queue) /\ IsSeq(outbox)
  BY DEF DaemonHolds, MsgInv, QueueInv, OutboxInv
<1>2. CASE x \in Elems(queue)
  BY <1>2 DEF EventsTrue, TruthStays
<1>3. CASE UNCHANGED queue
  BY <1>2, <1>3
<1>4. CASE queue # <<>> /\ queue' = Tail(queue)
  BY <1>1, <1>2, <1>4, TailIsSeq
<1>5. ASSUME NEW m, m.kind # "SendEvent", queue' = Append(queue, m)
      PROVE  TrueNow(e)'
  <2>1. x # m
    BY <1>5
  <2> QED BY <1>1, <1>2, <1>5, <2>1, AppendIsSeq
<1>6. CASE queue # <<>> /\ queue' = Append(Tail(queue), StopDaemonEvent)
  <2>1. x # StopDaemonEvent
    BY DEF StopDaemonEvent
  <2>2. IsSeq(Tail(queue)) /\ Elems(Tail(queue)) \subseteq Elems(queue)
    BY <1>1, <1>6, TailIsSeq
  <2>3. Elems(queue') = Elems(Tail(queue)) \cup {StopDaemonEvent}
    BY <1>6, <2>2, AppendIsSeq
  <2> QED BY <1>2, <2>1, <2>2, <2>3
<1>7. CASE Forward
  <2>1. PICK m : m = Head(outbox) /\ outbox # <<>> /\ queue' = Append(queue, m)
    BY <1>7 DEF Forward
  <2>2. TrueNow(m.event)
    BY <1>1, <2>1, HeadIsElem DEF EventsTrue
  <2>3. CASE x = m
    BY <2>2, <2>3 DEF TruthStays
  <2>4. CASE x # m
    BY <1>1, <1>2, <2>1, <2>4, AppendIsSeq
  <2> QED BY <2>3, <2>4
<1>8. DispatchEvent => UNCHANGED queue
  BY DEF DispatchEvent
<1>9. HandOut => queue # <<>> /\ queue' = Tail(queue)
  BY DEF HandOut
<1> QED BY <1>3, <1>4, <1>5, <1>6, <1>7, <1>8, <1>9, ThreadsQueue DEF QueueStays

\* A client's inbox stays, is emptied, greets a new client, or gets a message.
LEMMA BoxCases ==
    ASSUME DaemonHolds, Up, Threads, NEW c \in Clients
    PROVE  \/ inbox'[c] \in {inbox[c], <<>>, <<SetSender, VersionResponse>>}
           \/ \E x : /\ Adds(inbox[c], inbox'[c], x)
                     /\ \/ Holds(answering, c) /\ x = answering.response
                        \/ HandOut /\ x = EventResponse(Head(queue).event)
                        \/ x = StoppedResponse
<1>1. CASE RefuseClient
  <2>1. inbox' = [inbox EXCEPT ![counter] = <<>>] /\ DOMAIN inbox = Clients
    BY <1>1 DEF RefuseClient, DaemonHolds, OrderInv, BoxInv
  <2> QED BY <2>1
<1>2. CASE BoxStep(c)
  BY <1>2 DEF BoxStep
<1> QED BY <1>1, <1>2, ThreadsBoxes

LEMMA BoxLength == DaemonHolds => \A c \in Clients : Len(inbox[c]) \in Nat
  BY DEF DaemonHolds, OrderInv, BoxInv, IsSeq

\* Of a greeting nothing has to be shown.
LEMMA Greeting ==
    ASSUME NEW box, box \in {<<>>, <<SetSender, VersionResponse>>}, NEW i \in 1 .. Len(box)
    PROVE  box[i].kind \notin {"ServerEvent", "Answer"}
<1>1. box[i] \in {SetSender, VersionResponse}
  OBVIOUS
<1> QED BY <1>1 DEF SetSender, VersionResponse

LEMMA AnswerIsAnswer ==
    ASSUME DaemonHolds, NEW c, Holds(answering, c)
    PROVE  answering.response.kind = "Answer"
<1>1. answering.response \in AnswerMessage
  BY DEF Holds, DaemonHolds, DeskInv, ReplyTypes, Answering
<1> QED BY <1>1 DEF AnswerMessage

LEMMA ThreadsInboxes ==
    ASSUME DaemonHolds, EventsTrue, TruthStays, Up, Threads,
           NEW c \in Clients, NEW i \in 1 .. Len(inbox'[c]), inbox'[c][i].kind = "ServerEvent",
           NEW e, e = inbox'[c][i].event
    PROVE  TrueNow(e)'
<1>1. CASE i \in 1 .. Len(inbox[c]) /\ inbox'[c][i] = inbox[c][i]
  BY <1>1 DEF EventsTrue, TruthStays
<1>2. CASE inbox'[c] \in {inbox[c], <<>>, <<SetSender, VersionResponse>>}
  BY <1>1, <1>2, Greeting
<1>3. ASSUME NEW x, Adds(inbox[c], inbox'[c], x),
             \/ Holds(answering, c) /\ x = answering.response
             \/ HandOut /\ x = EventResponse(Head(queue).event)
             \/ x = StoppedResponse
      PROVE  TrueNow(e)'
  <2>1. CASE i # Len(inbox[c]) + 1
    <3>1. i \in 1 .. Len(inbox[c]) /\ inbox'[c][i] = inbox[c][i]
      BY <1>3, <2>1, BoxLength DEF Adds
    <3> QED BY <1>1, <3>1
  <2>2. CASE i = Len(inbox[c]) + 1
    <3>1. inbox'[c][i] = x
      BY <1>3, <2>2 DEF Adds
    <3>2. HandOut /\ x = EventResponse(Head(queue).event)
      BY <1>3, <3>1, AnswerIsAnswer DEF StoppedResponse
    <3>3. PICK m : m = Head(queue) /\ m.kind = "SendEvent" /\ queue # <<>>
      BY <3>2 DEF HandOut
    <3>4. TrueNow(m.event)
      BY <3>3, HeadIsElem DEF EventsTrue, DaemonHolds, MsgInv, QueueInv
    <3>5. e = m.event
      BY <3>1, <3>2, <3>3 DEF EventResponse
    <3> QED BY <3>4, <3>5 DEF TruthStays
  <2> QED BY <2>1, <2>2
<1> QED BY <1>2, <1>3, BoxCases

\* A command that is answered with a list is answered with the list of now.
LEMMA CommandsAnswerLists ==
    ASSUME DaemonHolds, Commands
    PROVE  \E id, cmd, response, list :
              /\ answering' = [client_id |-> id, response |-> Answer(cmd, response, list)]
              /\ response = "List" => list = UnitList
<1>1. ASSUME NEW response, NEW list, NEW subs, Returns(response, list, subs),
             response = "List" => list = UnitList
      PROVE  \E id, cmd, r, l :
                /\ answering' = [client_id |-> id, response |-> Answer(cmd, r, l)]
                /\ r = "List" => l = UnitList
  BY <1>1 DEF Returns
<1>2. CASE HandleList
  BY <1>1, <1>2 DEF HandleList, UnitList
<1>3. CASE HandleStart
  <2>1. \E response \in {"Ok", "ServerStarted"} : \E subs : Returns(response, None, subs)
    BY <1>3 DEF HandleStart
  <2> QED BY <1>1, <2>1
<1>4. CASE HandleStop
  <2>1. \E response \in {"Ok", "ServerStopped"} : \E subs : Returns(response, None, subs)
    BY <1>4 DEF HandleStop
  <2> QED BY <1>1, <2>1
<1>5. CASE HandleGetVersion \/ HandleUnknownServer \/ HandleSubscribeEvent \/ HandleInput
           \/ HandleStopDaemon \/ HandleInstall \/ HandleUpdate
  <2>1. \E response \in {"Ok", "Version", "ServerNotFound"} : \E subs :
            Returns(response, None, subs)
    BY <1>5 DEF HandleGetVersion, HandleUnknownServer, HandleSubscribeEvent, HandleInput,
       HandleStopDaemon, HandleInstall, HandleUpdate
  <2> QED BY <1>1, <2>1
<1> QED BY <1>2, <1>3, <1>4, <1>5 DEF Commands

LEMMA ListLater ==
    ASSUME \A c \in Clients :
              /\ Orderly(inbox'[c])
              /\ Holds(answering', c) =>
                    \A i \in 1 .. Len(inbox'[c]) : Agree(inbox'[c][i], answering'.response)
    PROVE  ListInv'
  BY DEF ListInv, Orderly, Agree, Holds

\* What the list in hand says is no less than what the client was told.
LEMMA CommandsAgree ==
    ASSUME DaemonHolds, EventsTrue, ListInv, Commands
    PROVE  ListInv'
<1>1. UNCHANGED inbox
  BY CommandsRest DEF DaemonHolds
<1>2. PICK a, id, cmd, response, list :
          /\ a = answering'
          /\ a = [client_id |-> id, response |-> Answer(cmd, response, list)]
          /\ response = "List" => list = UnitList
  BY CommandsAnswerLists
<1>3. a.response.response = response /\ a.response.servers = list
  BY <1>2 DEF Answer
<1>4. ASSUME NEW c \in Clients, NEW i \in 1 .. Len(inbox[c])
      PROVE  Agree(inbox[c][i], a.response)
  <2>1. PICK m : m = inbox[c][i]
    OBVIOUS
  <2>2. ASSUME m.kind = "ServerEvent", m.event.type \in LogEvents, response = "List",
               list[m.event.server_id].process = m.event.body
        PROVE  list[m.event.server_id].status \notin NoLongerAfter[m.event.type]
    <3>1. TrueNow(m.event)
      BY <2>1, <2>2 DEF EventsTrue
    <3> QED BY <1>2, <2>2, <3>1, ListTellsNoLess
  <2> QED BY <1>3, <2>1, <2>2 DEF Agree
<1>5. \A c \in Clients : Orderly(inbox'[c])
  BY <1>1 DEF ListInv
<1>6. \A c \in Clients : \A i \in 1 .. Len(inbox'[c]) : Agree(inbox'[c][i], answering'.response)
  BY <1>1, <1>2, <1>4
<1> QED BY <1>5, <1>6, ListLater

LEMMA OrderlyAdds ==
    ASSUME NEW box, NEW box2, NEW x, Len(box) \in Nat, Orderly(box), Adds(box, box2, x),
           x.kind = "Answer" => \A i \in 1 .. Len(box) : Agree(box[i], x)
    PROVE  Orderly(box2)
<1>1. PICK n \in Nat : n = Len(box)
  OBVIOUS
<1>2. Len(box2) = n + 1 /\ box2[n + 1] = x /\ \A i \in 1 .. n : box2[i] = box[i]
  BY <1>1 DEF Adds
<1> SUFFICES ASSUME NEW i \in 1 .. n + 1, NEW j \in 1 .. n + 1, i < j, box2[j].kind = "Answer"
             PROVE  Agree(box2[i], box2[j])
  BY <1>2 DEF Orderly
<1>3. i \in 1 .. n
  BY <1>1
<1>4. CASE j \in 1 .. n
  <2>1. Agree(box[i], box[j])
    BY <1>1, <1>2, <1>3, <1>4 DEF Orderly
  <2> QED BY <1>2, <1>3, <1>4, <2>1
<1>5. CASE j \notin 1 .. n
  <2>1. j = n + 1
    BY <1>1, <1>5
  <2> QED BY <1>1, <1>2, <1>3, <2>1
<1> QED BY <1>4, <1>5

LEMMA ThreadsList ==
    ASSUME DaemonHolds, EventsTrue, ListInv, Up, Threads
    PROVE  ListInv'
<1>1. CASE Commands
  BY <1>1, CommandsAgree
<1>2. CASE ~Commands
  <2>1. \A c : Holds(answering', c) => Holds(answering, c) /\ answering' = answering
    BY <1>2, ThreadsAnswering DEF Holds
  <2>2. HandOut => answering = None
    BY DEF HandOut, DaemonHolds, DeskInv, HandInv, Preparing
  <2> SUFFICES ASSUME NEW c \in Clients
               PROVE  /\ Orderly(inbox'[c])
                      /\ Holds(answering, c) =>
                            \A i \in 1 .. Len(inbox'[c]) : Agree(inbox'[c][i], answering.response)
    BY <2>1, ListLater
  <2>3. PICK box, box2, r : box = inbox[c] /\ box2 = inbox'[c] /\ r = answering.response
    OBVIOUS
  <2>4. /\ Orderly(box) /\ Len(box) \in Nat
        /\ Holds(answering, c) => \A i \in 1 .. Len(box) : Agree(box[i], r)
    BY <2>3, BoxLength DEF ListInv
  <2>5. CASE box2 = box
    BY <2>3, <2>4, <2>5
  <2>6. CASE box2 \in {<<>>, <<SetSender, VersionResponse>>}
    BY <2>3, <2>6, Greeting DEF Orderly, Agree
  <2>7. ASSUME NEW x, Adds(box, box2, x),
               \/ Holds(answering, c) /\ x = r
               \/ HandOut /\ x = EventResponse(Head(queue).event)
               \/ x = StoppedResponse
        PROVE  /\ Orderly(box2)
               /\ Holds(answering, c) => \A i \in 1 .. Len(box2) : Agree(box2[i], r)
    <3>1. x.kind = "Answer" => \A i \in 1 .. Len(box) : Agree(box[i], x)
      BY <2>4, <2>7 DEF EventResponse, StoppedResponse
    <3>2. Orderly(box2)
      BY <2>4, <2>7, <3>1, OrderlyAdds
    <3>3. ASSUME Holds(answering, c), NEW i \in 1 .. Len(box2)
          PROVE  Agree(box2[i], r)
      <4>1. CASE i = Len(box) + 1
        <5>1. box2[i] = x
          BY <2>7, <4>1 DEF Adds
        <5>2. x.kind # "ServerEvent"
          BY <2>2, <2>3, <2>7, <3>3, AnswerIsAnswer DEF StoppedResponse, Holds
        <5> QED BY <5>1, <5>2 DEF Agree
      <4>2. CASE i # Len(box) + 1
        <5>1. i \in 1 .. Len(box) /\ box2[i] = box[i]
          BY <2>4, <2>7, <4>2 DEF Adds
        <5> QED BY <2>4, <3>3, <5>1
      <4> QED BY <4>1, <4>2
    <3> QED BY <3>2, <3>3
  <2> QED BY <2>3, <2>5, <2>6, <2>7, BoxCases
<1> QED BY <1>1, <1>2

LEMMA ThreadsKeepTruth ==
    ASSUME Echoes \subseteq {"Done"}, DaemonHolds, TruthInv, Up, Threads
    PROVE  TruthInv'
<1>1. LogInv' /\ TruthStays /\ ListInv'
  BY ThreadsLog, ThreadsTruth, ThreadsList DEF TruthInv
<1>2. \A x \in Elems(eventQueue') : x.kind = "DispatchEvent" => TrueNow(x.event)'
  BY <1>1, ThreadsEventQueue DEF TruthInv, TrueNow, Heard
<1>3. \A x \in Elems(outbox') : TrueNow(x.event)'
  BY <1>1, ThreadsOutbox DEF TruthInv, TrueNow, Heard
<1>4. \A x \in Elems(queue') : x.kind = "SendEvent" => TrueNow(x.event)'
  BY <1>1, ThreadsDaemonQueue DEF TruthInv, TrueNow, Heard
<1>5. \A c \in Clients : \A i \in 1 .. Len(inbox'[c]) :
          inbox'[c][i].kind = "ServerEvent" => TrueNow(inbox[c][i].event)'
  BY <1>1, ThreadsInboxes DEF TruthInv, TrueNow, Heard
<1> QED BY <1>1, <1>2, <1>3, <1>4, <1>5 DEF TruthInv, EventsTrue

LEMMA TruthNext ==
    ASSUME Echoes \subseteq {"Done"}, DaemonHolds, TruthInv, [Next]_daemonVars
    PROVE  TruthInv'
<1>1. CASE UNCHANGED <<processVars, servers, eventQueue, outbox, queue, inbox, answering>>
  <2>1. LogInv'
    BY <1>1, LogSame DEF TruthInv, processVars
  <2>2. EventsTrue'
    BY <1>1 DEF TruthInv, EventsTrue, TrueNow, Heard, processVars
  <2>3. ListInv'
    BY <1>1, ListLater DEF TruthInv, ListInv
  <2> QED BY <2>1, <2>2, <2>3 DEF TruthInv
<1>2. CASE Next
  <2>1. CASE Up /\ Threads
    BY <2>1, ThreadsKeepTruth
  <2>2. CASE \/ \E c \in Clients, cmd \in Requests : Send(c, cmd)
             \/ \E c \in Leavers : Disconnect(c)
    <3>1. UNCHANGED <<processVars, servers, eventQueue, outbox, queue, inbox, answering>>
      BY <2>2 DEF Send, Disconnect, AcceptorRest, managerVars, replyVars, supervisionVars
    <3> QED BY <1>1, <3>1
  <2> QED BY <1>2, <2>1, <2>2 DEF Next
<1>3. CASE UNCHANGED daemonVars
  BY <1>1, <1>3 DEF daemonVars, managerVars, supervisionVars, replyVars
<1> QED BY <1>2, <1>3

LEMMA TruthInit ==
    ASSUME Init
    PROVE  TruthInv
<1>1. /\ ProcessInit /\ queue = <<>> /\ eventQueue = <<>> /\ outbox = <<>> /\ answering = None
      /\ inbox = [c \in Clients |-> <<>>]
  BY DEF Init, ManagerInit
<1>2. Len(<<>>) = 0 /\ 1 .. 0 = {}
  OBVIOUS
<1>3. EventsTrue
  BY <1>1, <1>2, EmptyIsSeq DEF EventsTrue
<1>4. ListInv
  BY <1>1, <1>2 DEF ListInv, Orderly, Holds
<1> QED BY <1>1, <1>3, <1>4, LogInit DEF TruthInv

\* ListsFollowEvents (mcmand.rs:399-426, 566-570; basic_log.rs:33-62): a client
\* that was sent an event of a process does not find that process in an earlier
\* status in any list it is sent later.
THEOREM ListsComeAfterEvents ==
    ASSUME Echoes \subseteq {"Done"}
    PROVE  Spec => []ListsFollowEvents
<1>1. Init => TruthInv
  BY TruthInit
<1>2. DaemonHolds /\ TruthInv /\ [Next]_daemonVars => TruthInv'
  BY TruthNext
<1>3. TruthInv => ListsFollowEvents
  BY OrderlyIsFollowing DEF TruthInv
<1> QED BY <1>1, <1>2, <1>3, DaemonAlways, PTL DEF Spec
=============================================================================
