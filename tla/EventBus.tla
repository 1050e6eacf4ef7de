------------------------------ MODULE EventBus ------------------------------
(***************************************************************************)
(* The event manager closed with everything that talks to it: the daemon   *)
(* thread that subscribes clients and hands them their events, the log and *)
(* worker threads that raise events, and the client threads that announce  *)
(* the end of a connection.                                                *)
(***************************************************************************)
EXTENDS EventManager, Functions

CONSTANTS
    Keys,           \* bound: the (server, type) pairs subscribed to and raised
    MaxSubscribes,  \* bound: AddSubscription commands sent
    MaxRemoves,     \* bound: RemoveSubscription commands sent
    Leavers         \* bound: the clients that may leave

ASSUME BusAssumption ==
    /\ Keys \subseteq Key
    /\ Bodies \subseteq Nat
    /\ MaxSubscribes \in Nat
    /\ MaxRemoves \in Nat
    /\ Leavers \subseteq Clients

VARIABLES
    raised,         \* number of events raised; the n-th one has body n
    subscribes,     \* the AddSubscription commands sent, in order
    removes,        \* number of RemoveSubscription commands sent
    gone,           \* clients whose end of the connection is closed
    announced,      \* those of them whose thread has told the manager so
    handed          \* SendEvents the daemon thread has taken from its queue

busVars == <<managerVars, raised, subscribes, removes, gone, announced, handed>>

TypeOK ==
    /\ ManagerTypeOK
    /\ queue \in Seq(SendEvents)
    /\ raised \in Nat
    /\ subscribes \in Seq(Key \X Clients)
    /\ removes \in Nat
    /\ gone \subseteq Clients
    /\ announced \subseteq gone
    /\ handed \in Seq(SendEvents)

Init ==
    /\ ManagerInit
    /\ queue = <<>>
    /\ raised = 0
    /\ subscribes = <<>>
    /\ removes = 0
    /\ gone = {}
    /\ announced = {}
    /\ handed = <<>>

-----------------------------------------------------------------------------
\* Daemon::subscribe_event for one server id.  A command of a client that is
\* already gone may still be waiting in the daemon's queue.
Subscribe(k, c) ==
    /\ Len(subscribes) < MaxSubscribes
    /\ subscribes' = Append(subscribes, <<k, c>>)
    /\ eventQueue' = Append(eventQueue, AddCmd(k[1], k[2], c))
    /\ UNCHANGED <<subscriptions, outbox, queue, raised, removes, gone, announced, handed>>

\* EventManagerCmd is public; nothing in this repository sends this command.
Unsubscribe(k, c) ==
    /\ removes < MaxRemoves
    /\ removes' = removes + 1
    /\ eventQueue' = Append(eventQueue, RemoveCmd(k[1], k[2], c))
    /\ UNCHANGED <<subscriptions, outbox, queue, raised, subscribes, gone,
                   announced, handed>>

\* EventHandler::raise_event, called by the log handlers and by the workers.
\* The server id it is given is always the one in the event.
RaiseEvent(k) ==
    /\ raised + 1 \in Bodies
    /\ raised' = raised + 1
    /\ eventQueue' = Append(eventQueue,
           DispatchCmd([type |-> k[2], server_id |-> k[1], body |-> raised + 1]))
    /\ UNCHANGED <<subscriptions, outbox, queue, subscribes, removes, gone,
                   announced, handed>>

\* The client's process ends; from here on a send to it fails.
Leave(c) ==
    /\ gone' = gone \cup {c}
    /\ UNCHANGED <<eventQueue, subscriptions, outbox, queue, raised, subscribes,
                   removes, announced, handed>>

\* Its thread's recv() fails in turn, and it says so to the event manager.
Announce(c) ==
    /\ c \in gone \ announced
    /\ announced' = announced \cup {c}
    /\ eventQueue' = Append(eventQueue, RemoveAllCmd(c))
    /\ UNCHANGED <<subscriptions, outbox, queue, raised, subscribes, removes, gone,
                   handed>>

\* The daemon thread sends the event to the client.  If the client is gone the
\* send fails and the daemon thread asks for its subscriptions to be removed.
HandOut ==
    /\ queue # <<>>
    /\ queue' = Tail(queue)
    /\ handed' = Append(handed, Head(queue))
    /\ eventQueue' = IF Head(queue).client_id \in gone
                       THEN Append(eventQueue, RemoveAllCmd(Head(queue).client_id))
                       ELSE eventQueue
    /\ UNCHANGED <<subscriptions, outbox, raised, subscribes, removes, gone,
                   announced>>

EnvNext ==
    \/ \E k \in Keys, c \in Clients : Subscribe(k, c) \/ Unsubscribe(k, c)
    \/ \E k \in Keys : RaiseEvent(k)
    \/ \E c \in Leavers : Leave(c) \/ Announce(c)
    \/ HandOut

BusRest == <<raised, subscribes, removes, gone, announced, handed>>

Next ==
    \/ ManagerNext /\ UNCHANGED BusRest
    \/ EnvNext

Spec == Init /\ [][Next]_busVars

\* The manager thread and the daemon thread keep receiving: both loop on recv()
\* and block on nothing else here.  Nobody is obliged to subscribe, to raise an
\* event or to leave.
FairSpec ==
    /\ Spec
    /\ WF_busVars(ManagerNext /\ UNCHANGED BusRest)
    /\ WF_busVars(HandOut)

-----------------------------------------------------------------------------
(* Properties.                                                             *)

\* Everything sent to the daemon thread, in order: handed out, queued, or about
\* to be queued by the dispatch in progress.
Sent == handed \o queue \o outbox

\* Two queues and a manager that forwards one subscriber at a time look like
\* one instantaneous publication to an ordered channel.
PS == INSTANCE PubSub WITH subs <- subscriptions, sent <- Sent
ImplementsPubSub == PS!PSSpec

\* No client is handed an event its daemon-side commands never asked for, and
\* none before the subscription was sent: every event on its way names a client
\* that has subscribed to that very server and type.
OnlyAskedFor ==
    \A i \in 1 .. Len(Sent) :
        \E j \in 1 .. Len(subscribes) :
            subscribes[j] = << <<Sent[i].event.server_id, Sent[i].event.type>>,
                               Sent[i].client_id >>

\* The events a client is handed arrive in the order in which they were raised,
\* whichever threads raised them; a client that subscribed twice may see one
\* event twice, never an older one after a newer one.
InOrder ==
    \A i, j \in 1 .. Len(handed) :
        i < j /\ handed[i].client_id = handed[j].client_id
            => handed[i].event.body <= handed[j].event.body

\* An event raised when the client has subscribed or its subscription is on the
\* way, and before anybody leaves or unsubscribes, does reach that client.
Undisturbed == gone = {} /\ removes = 0
Owed(c, n) ==
    \E j \in 1 .. Len(eventQueue) :
        /\ eventQueue[j].kind = "DispatchEvent"
        /\ eventQueue[j].event.body = n
        /\ LET e == eventQueue[j].event
           IN \/ c \in Range(subscriptions[<<e.server_id, e.type>>])
              \/ \E i \in 1 .. j - 1 : eventQueue[i] = AddCmd(e.server_id, e.type, c)
HandedTo(c, n) ==
    \E i \in 1 .. Len(handed) : handed[i].client_id = c /\ handed[i].event.body = n
OwedIsHanded ==
    \A c \in Clients, n \in Bodies :
        Owed(c, n) ~> HandedTo(c, n) \/ ~Undisturbed

\* Every dispatch that has begun is completed: an event on its way to a client
\* is handed to it, also when the client or others leave meanwhile.
OnTheWay(c, n) ==
    \E i \in 1 .. Len(queue \o outbox) :
        (queue \o outbox)[i].client_id = c /\ (queue \o outbox)[i].event.body = n
DispatchCompletes ==
    \A c \in Clients, n \in Bodies : OnTheWay(c, n) ~> HandedTo(c, n)

\* "Removes all subscriptions for a given client" (event.rs, line 86): every other
\* client keeps those it has.
RemovesOnlyThatClient ==
    [][ RemoveAllSubscriptions =>
          \A k \in Key : \A c \in Clients \ {Head(eventQueue).client_id} :
            c \in Range(subscriptions[k]) => c \in Range(subscriptions'[k])
      ]_busVars
=============================================================================
