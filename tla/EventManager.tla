---------------------------- MODULE EventManager ----------------------------
(***************************************************************************)
(* The event manager thread of src/daemon/event.rs: it owns the            *)
(* subscriptions, takes commands from eventQueue (an mpsc channel) and     *)
(* sends one DaemonEvent per subscriber to the daemon thread's queue.      *)
(*                                                                         *)
(* The sends of one dispatch are separate steps: other threads send to     *)
(* the same queue in between.  outbox holds the sends still to be done,    *)
(* and the next command is received when it is empty.                      *)
(***************************************************************************)
EXTENDS Queues, FiniteSets

VARIABLES
    subscriptions,  \* HashMap<(server id, event type), Vec<client id>>
    outbox          \* sends left of the dispatch in progress

managerVars == <<eventQueue, subscriptions, outbox, queue>>

Key == Units \X ServerEventType

ManagerTypeOK ==
    /\ eventQueue \in Seq(EventManagerCmd)
    /\ subscriptions \in [Key -> Seq(Clients)]
    /\ outbox \in Seq(SendEvents)

\* A missing key of the HashMap and an empty vector are not told apart.
ManagerInit ==
    /\ eventQueue = <<>>
    /\ subscriptions = [k \in Key |-> <<>>]
    /\ outbox = <<>>

-----------------------------------------------------------------------------
\* Vec::retain(|id| id == client): keeps the entries of that client, and only
\* those, so what is left is that client's id once per entry it had.
Retain(ids, client) ==
    [i \in 1 .. Cardinality({j \in DOMAIN ids : ids[j] = client}) |-> client]

(* Operators named ...Mutant are wrong on purpose: each stands for a plausible *)
(* slip in the definition it precedes, and shows that a property notices.      *)

\* Mutant: the next command is taken before the dispatch is finished.
ReceivedMutant(kind) ==
    /\ eventQueue # <<>>
    /\ Head(eventQueue).kind = kind
    /\ eventQueue' = Tail(eventQueue)

\* cmd_queue.recv() returned a command of this kind.
Received(kind) ==
    /\ outbox = <<>>
    /\ eventQueue # <<>>
    /\ Head(eventQueue).kind = kind
    /\ eventQueue' = Tail(eventQueue)

\* Mutant: the subscriptions are looked up under a fixed event type.
DispatchWrongKeyMutant ==
    /\ Received("DispatchEvent")
    /\ LET event == Head(eventQueue).event
           subscribers == subscriptions[<<event.server_id, "ServerStarted">>]
       IN outbox' = [i \in 1 .. Len(subscribers) |-> SendEvent(subscribers[i], event)]
    /\ UNCHANGED <<subscriptions, queue>>

DispatchEvent ==
    /\ Received("DispatchEvent")
    /\ LET event == Head(eventQueue).event
           subscribers == subscriptions[<<event.server_id, event.type>>]
       IN outbox' = [i \in 1 .. Len(subscribers) |-> SendEvent(subscribers[i], event)]
    /\ UNCHANGED <<subscriptions, queue>>

\* Mutant: the event is sent without the client it is for.
ForwardBareMutant ==
    /\ outbox # <<>>
    /\ queue' = Append(queue, Head(outbox).event)
    /\ outbox' = Tail(outbox)
    /\ UNCHANGED <<eventQueue, subscriptions>>

\* Mutant: the newest send goes to the front.
ForwardToFrontMutant ==
    /\ outbox # <<>>
    /\ queue' = <<Head(outbox)>> \o queue
    /\ outbox' = Tail(outbox)
    /\ UNCHANGED <<eventQueue, subscriptions>>

\* Mutant: the loop ends after the first subscriber.
ForwardFirstMutant ==
    /\ outbox # <<>>
    /\ queue' = Append(queue, Head(outbox))
    /\ outbox' = <<>>
    /\ UNCHANGED <<eventQueue, subscriptions>>

\* One iteration of the loop over the subscriptions of the event.
Forward ==
    /\ outbox # <<>>
    /\ queue' = Append(queue, Head(outbox))
    /\ outbox' = Tail(outbox)
    /\ UNCHANGED <<eventQueue, subscriptions>>

\* Mutant: insert() of a fresh vector instead of a push to the entry.
AddSubscriptionMutant ==
    /\ Received("AddSubscription")
    /\ LET cmd == Head(eventQueue)
       IN subscriptions' = [subscriptions EXCEPT
              ![<<cmd.server_id, cmd.event_type>>] = <<cmd.client_id>>]
    /\ UNCHANGED <<outbox, queue>>

AddSubscription ==
    /\ Received("AddSubscription")
    /\ LET cmd == Head(eventQueue)
       IN subscriptions' = [subscriptions EXCEPT
              ![<<cmd.server_id, cmd.event_type>>] = Append(@, cmd.client_id)]
    /\ UNCHANGED <<outbox, queue>>

RemoveSubscription ==
    /\ Received("RemoveSubscription")
    /\ LET cmd == Head(eventQueue)
       IN subscriptions' = [subscriptions EXCEPT
              ![<<cmd.server_id, cmd.event_type>>] = Retain(@, cmd.client_id)]
    /\ UNCHANGED <<outbox, queue>>

RemoveAllSubscriptions ==
    /\ Received("RemoveAllSubscriptions")
    /\ subscriptions' =
           [k \in Key |-> Retain(subscriptions[k], Head(eventQueue).client_id)]
    /\ UNCHANGED <<outbox, queue>>

ManagerNext ==
    \/ DispatchEvent
    \/ Forward
    \/ AddSubscription
    \/ RemoveSubscription
    \/ RemoveAllSubscriptions
=============================================================================
