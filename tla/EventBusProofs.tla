--------------------------- MODULE EventBusProofs ---------------------------
(***************************************************************************)
(* Proofs about the event bus, for any number of clients, servers, events  *)
(* and subscriptions:                                                      *)
(*   - TypeOK, OnlyAskedFor and InOrder are invariants of Spec;            *)
(*   - Spec implements PubSub: everything a step of the two queues and of  *)
(*     the manager does is one abstract step or invisible.                 *)
(*                                                                         *)
(* All of it rests on one fact: Sent, the concatenation of what has been   *)
(* handed out, what is queued and what the manager still has to forward,   *)
(* changes only in DispatchEvent, and there it grows at its end.           *)
(***************************************************************************)
EXTENDS EventBus, SequenceTheorems, FiniteSetTheorems, TLAPS

(***************************************************************************)
(* Sequences and the vocabulary.                                           *)
(***************************************************************************)

\* The constructors build commands and events of the declared types.
LEMMA Constructors ==
    /\ \A e \in ServerEvent : DispatchCmd(e) \in EventManagerCmd
    /\ \A u \in Units, t \in ServerEventType, c \in Clients :
          AddCmd(u, t, c) \in EventManagerCmd /\ RemoveCmd(u, t, c) \in EventManagerCmd
    /\ \A c \in Clients : RemoveAllCmd(c) \in EventManagerCmd
    /\ \A c \in Clients, e \in ServerEvent : SendEvent(c, e) \in SendEvents
  BY DEF DispatchCmd, AddCmd, RemoveCmd, RemoveAllCmd, SendEvent, EventManagerCmd,
         SendEvents

\* What a command of each kind carries.
LEMMA CommandFields ==
    ASSUME NEW cmd \in EventManagerCmd
    PROVE  /\ cmd.kind = "DispatchEvent" => cmd.event \in ServerEvent
           /\ cmd.kind \in {"AddSubscription", "RemoveSubscription"}
                => /\ cmd.server_id \in Units
                   /\ cmd.event_type \in ServerEventType
                   /\ cmd.client_id \in Clients
           /\ cmd.kind = "RemoveAllSubscriptions" => cmd.client_id \in Clients
  BY DEF EventManagerCmd

\* Retain keeps entries the list had, and no more than it had.
LEMMA RetainProperties ==
    ASSUME NEW ids \in Seq(Clients), NEW c \in Clients
    PROVE  /\ Retain(ids, c) \in Seq(Clients)
           /\ Len(Retain(ids, c)) <= Len(ids)
           /\ \A i \in 1 .. Len(Retain(ids, c)) :
                 \E j \in 1 .. Len(ids) : ids[j] = Retain(ids, c)[i]
<1> DEFINE Own == {j \in DOMAIN ids : ids[j] = c}
           n == Cardinality(Own)
<1>1. DOMAIN ids = 1 .. Len(ids) /\ Len(ids) \in Nat
  BY LenProperties
<1>2. IsFiniteSet(1 .. Len(ids)) /\ Cardinality(1 .. Len(ids)) = Len(ids)
  BY <1>1, FS_Interval
<1>3. IsFiniteSet(Own) /\ n <= Len(ids)
  BY <1>1, <1>2, FS_Subset
<1>4. n \in Nat
  BY <1>3, FS_CardinalityType
<1>5. Retain(ids, c) = [i \in 1 .. n |-> c]
  BY DEF Retain
<1>6. Retain(ids, c) \in Seq(Clients) /\ Len(Retain(ids, c)) = n
  BY <1>4, <1>5
<1>7. ASSUME NEW i \in 1 .. n
      PROVE  \E j \in 1 .. Len(ids) : ids[j] = c
  <2>1. n # 0
    BY <1>7, <1>4
  <2>2. Cardinality({}) = 0
    BY FS_EmptySet
  <2>3. Own # {}
    BY <2>1, <2>2
  <2> QED BY <2>3, <1>1
<1> QED BY <1>3, <1>4, <1>5, <1>6, <1>7

\* Moving the first element of the second part to the end of the first one
\* changes nothing: this is what a receiver that passes a message on does.
LEMMA MoveHead ==
    ASSUME NEW S, NEW s \in Seq(S), NEW t \in Seq(S), t # <<>>
    PROVE  Append(s, Head(t)) \o Tail(t) = s \o t
<1>1. Head(t) \in S /\ Tail(t) \in Seq(S) /\ Len(Tail(t)) = Len(t) - 1
  BY HeadTailProperties
<1>2. Append(s, Head(t)) \in Seq(S)
  BY <1>1, AppendProperties
<1>3. Len(Append(s, Head(t)) \o Tail(t)) = Len(s \o t)
  BY <1>1, <1>2, AppendProperties, ConcatProperties, LenProperties
<1>4. \A i \in 1 .. Len(s \o t) : (Append(s, Head(t)) \o Tail(t))[i] = (s \o t)[i]
  BY <1>1, <1>2, HeadTailProperties
<1> QED
  BY <1>1, <1>2, <1>3, <1>4, ConcatProperties, SeqEqual

\* The elements of a concatenation.
LEMMA Extended ==
    ASSUME NEW S, NEW s \in Seq(S), NEW t \in Seq(S)
    PROVE  /\ Len(s \o t) = Len(s) + Len(t)
           /\ \A i \in 1 .. Len(s) : (s \o t)[i] = s[i]
           /\ \A i \in 1 .. Len(t) : (s \o t)[Len(s) + i] = t[i]
           /\ \A i \in 1 .. Len(s \o t) :
                 i \in 1 .. Len(s) \/ \E n \in 1 .. Len(t) : i = Len(s) + n
<1>1. Len(s) \in Nat /\ Len(t) \in Nat
  BY LenProperties
<1>2. Len(s \o t) = Len(s) + Len(t)
  BY ConcatProperties
<1>3. \A i \in 1 .. Len(s) + Len(t) : (s \o t)[i] = IF i <= Len(s) THEN s[i] ELSE t[i - Len(s)]
  BY ConcatProperties
<1>4. ASSUME NEW i \in 1 .. Len(t)
      PROVE  (s \o t)[Len(s) + i] = t[i]
  <2>1. Len(s) + i \in 1 .. Len(s) + Len(t) /\ ~(Len(s) + i <= Len(s))
        /\ (Len(s) + i) - Len(s) = i
    BY <1>1
  <2> QED BY <1>3, <2>1
<1>5. \A i \in 1 .. Len(s) : (s \o t)[i] = s[i]
  BY <1>1, <1>3
<1>6. ASSUME NEW i \in 1 .. Len(s \o t), i \notin 1 .. Len(s)
      PROVE  \E n \in 1 .. Len(t) : i = Len(s) + n
  <2>1. i - Len(s) \in 1 .. Len(t) /\ i = Len(s) + (i - Len(s))
    BY <1>1, <1>2, <1>6
  <2> QED BY <2>1
<1> QED BY <1>2, <1>4, <1>5, <1>6

(***************************************************************************)
(* The type invariant.                                                     *)
(***************************************************************************)

LEMMA TypeInit == Init => TypeOK
  BY DEF Init, ManagerInit, TypeOK, ManagerTypeOK

\* What a step that receives a command leaves behind.
LEMMA ReceivedType ==
    ASSUME TypeOK, NEW kind, Received(kind)
    PROVE  /\ Head(eventQueue) \in EventManagerCmd
           /\ Head(eventQueue).kind = kind
           /\ eventQueue' \in Seq(EventManagerCmd)
  BY HeadTailProperties DEF TypeOK, ManagerTypeOK, Received

LEMMA TypeNext == TypeOK /\ [Next]_busVars => TypeOK'
<1> SUFFICES ASSUME TypeOK, [Next]_busVars
             PROVE  TypeOK'
  OBVIOUS
<1> USE DEF TypeOK, ManagerTypeOK, BusRest
<1>1. CASE DispatchEvent /\ UNCHANGED BusRest
  <2> DEFINE event == Head(eventQueue).event
             subscribers == subscriptions[<<event.server_id, event.type>>]
  <2>1. event \in ServerEvent /\ eventQueue' \in Seq(EventManagerCmd)
    BY <1>1, ReceivedType, CommandFields DEF DispatchEvent
  <2>2. subscribers \in Seq(Clients)
    BY <2>1 DEF ServerEvent, Key
  <2>3. \A i \in 1 .. Len(subscribers) : SendEvent(subscribers[i], event) \in SendEvents
    BY <2>1, <2>2, ElementOfSeq, Constructors
  <2>4. outbox' = [i \in 1 .. Len(subscribers) |-> SendEvent(subscribers[i], event)]
    BY <1>1 DEF DispatchEvent
  <2>5. outbox' \in Seq(SendEvents)
    <3> HIDE DEF subscribers, event
    <3> QED BY <2>2, <2>3, <2>4
  <2> QED BY <1>1, <2>1, <2>5 DEF DispatchEvent
<1>2. CASE Forward /\ UNCHANGED BusRest
  BY <1>2, HeadTailProperties, AppendProperties DEF Forward
<1>3. CASE AddSubscription /\ UNCHANGED BusRest
  <2> DEFINE cmd == Head(eventQueue)
             k == <<cmd.server_id, cmd.event_type>>
  <2>1. k \in Key /\ cmd.client_id \in Clients /\ eventQueue' \in Seq(EventManagerCmd)
    BY <1>3, ReceivedType, CommandFields DEF AddSubscription, Key
  <2>2. Append(subscriptions[k], cmd.client_id) \in Seq(Clients)
    BY <2>1, AppendProperties
  <2> QED BY <1>3, <2>1, <2>2 DEF AddSubscription
<1>4. CASE RemoveSubscription /\ UNCHANGED BusRest
  <2> DEFINE cmd == Head(eventQueue)
             k == <<cmd.server_id, cmd.event_type>>
  <2>1. k \in Key /\ cmd.client_id \in Clients /\ eventQueue' \in Seq(EventManagerCmd)
    BY <1>4, ReceivedType, CommandFields DEF RemoveSubscription, Key
  <2>2. Retain(subscriptions[k], cmd.client_id) \in Seq(Clients)
    BY <2>1, RetainProperties
  <2> QED BY <1>4, <2>1, <2>2 DEF RemoveSubscription
<1>5. CASE RemoveAllSubscriptions /\ UNCHANGED BusRest
  <2>1. Head(eventQueue).client_id \in Clients /\ eventQueue' \in Seq(EventManagerCmd)
    BY <1>5, ReceivedType, CommandFields DEF RemoveAllSubscriptions
  <2>2. \A k \in Key : Retain(subscriptions[k], Head(eventQueue).client_id) \in Seq(Clients)
    BY <2>1, RetainProperties
  <2> QED BY <1>5, <2>1, <2>2 DEF RemoveAllSubscriptions
<1>6. CASE \E k \in Keys, c \in Clients : Subscribe(k, c) \/ Unsubscribe(k, c)
  <2> PICK k \in Keys, c \in Clients : Subscribe(k, c) \/ Unsubscribe(k, c)
    BY <1>6
  <2>1. k \in Key /\ k[1] \in Units /\ k[2] \in ServerEventType
    BY BusAssumption DEF Key
  <2>2. /\ AddCmd(k[1], k[2], c) \in EventManagerCmd
        /\ RemoveCmd(k[1], k[2], c) \in EventManagerCmd
    BY <2>1, Constructors
  <2>3. CASE Subscribe(k, c)
    BY <2>1, <2>2, <2>3, AppendProperties DEF Subscribe
  <2>4. CASE Unsubscribe(k, c)
    BY <2>1, <2>2, <2>4, AppendProperties DEF Unsubscribe
  <2> QED BY <2>3, <2>4
<1>7. CASE \E k \in Keys : RaiseEvent(k)
  <2> PICK k \in Keys : RaiseEvent(k)
    BY <1>7
  <2> DEFINE e == [type |-> k[2], server_id |-> k[1], body |-> raised + 1]
  <2>1. k[1] \in Units /\ k[2] \in ServerEventType
    BY BusAssumption DEF Key
  <2>2. e \in ServerEvent
    BY <2>1 DEF RaiseEvent, ServerEvent
  <2>3. DispatchCmd(e) \in EventManagerCmd
    BY <2>2, Constructors
  <2> QED BY <2>3, AppendProperties DEF RaiseEvent
<1>8. CASE \E c \in Leavers : Leave(c) \/ Announce(c)
  <2> PICK c \in Leavers : Leave(c) \/ Announce(c)
    BY <1>8
  <2>1. c \in Clients /\ RemoveAllCmd(c) \in EventManagerCmd
    BY BusAssumption, Constructors
  <2>2. CASE Leave(c)
    BY <2>1, <2>2 DEF Leave
  <2>3. CASE Announce(c)
    BY <2>1, <2>3, AppendProperties DEF Announce
  <2> QED BY <2>2, <2>3
<1>9. CASE HandOut
  <2>1. Head(queue) \in SendEvents /\ Tail(queue) \in Seq(SendEvents)
    BY <1>9, HeadTailProperties DEF HandOut
  <2>2. RemoveAllCmd(Head(queue).client_id) \in EventManagerCmd
    BY <2>1, Constructors DEF SendEvents
  <2> QED BY <1>9, <2>1, <2>2, AppendProperties DEF HandOut
<1>10. CASE UNCHANGED busVars
  BY <1>10 DEF busVars, managerVars
<1> QED
  BY <1>1, <1>2, <1>3, <1>4, <1>5, <1>6, <1>7, <1>8, <1>9, <1>10
     DEF Next, ManagerNext, EnvNext

\* The variables keep their types: every command and every send is well formed.
THEOREM BusTypeOK == Spec => []TypeOK
<1> QED BY TypeInit, TypeNext, PTL DEF Spec

(***************************************************************************)
(* How a step changes what has been sent and what waits for the manager.   *)
(***************************************************************************)

LEMMA SentType == TypeOK => Sent \in Seq(SendEvents)
  BY ConcatProperties DEF TypeOK, ManagerTypeOK, Sent

\* Every step except a dispatch leaves Sent as it is.
LEMMA SentStep ==
    ASSUME TypeOK, [Next]_busVars
    PROVE  Sent' = Sent \/ (DispatchEvent /\ UNCHANGED BusRest)
<1> USE DEF TypeOK, ManagerTypeOK, Sent, BusRest
<1>1. CASE Forward /\ UNCHANGED BusRest
  <2>1. /\ handed \in Seq(SendEvents) /\ queue \in Seq(SendEvents)
        /\ outbox \in Seq(SendEvents) /\ outbox # <<>>
    BY <1>1 DEF Forward
  <2>2. Head(outbox) \in SendEvents /\ Tail(outbox) \in Seq(SendEvents)
    BY <2>1, HeadTailProperties
  <2>3. PICK p \in Seq(SendEvents) : p = Append(queue, Head(outbox))
    BY <2>1, <2>2, AppendProperties
  <2>4. p \o Tail(outbox) = queue \o outbox
    BY <2>1, <2>3, MoveHead
  <2>5. (handed \o p) \o Tail(outbox) = handed \o (p \o Tail(outbox))
    BY <2>1, <2>2, ConcatAssociative
  <2>6. (handed \o queue) \o outbox = handed \o (queue \o outbox)
    BY <2>1, ConcatAssociative
  <2>7. handed' = handed /\ queue' = p /\ outbox' = Tail(outbox)
    BY <1>1, <2>3 DEF Forward
  <2> QED BY <2>4, <2>5, <2>6, <2>7
<1>2. CASE HandOut
  <2>1. Append(handed, Head(queue)) \o Tail(queue) = handed \o queue
    BY <1>2, MoveHead DEF HandOut
  <2> QED BY <1>2, <2>1 DEF HandOut
<1>3. CASE (AddSubscription \/ RemoveSubscription \/ RemoveAllSubscriptions)
           /\ UNCHANGED BusRest
  BY <1>3 DEF AddSubscription, RemoveSubscription, RemoveAllSubscriptions
<1>4. CASE \/ \E k \in Keys, c \in Clients : Subscribe(k, c) \/ Unsubscribe(k, c)
           \/ \E k \in Keys : RaiseEvent(k)
           \/ \E c \in Leavers : Leave(c) \/ Announce(c)
  BY <1>4 DEF Subscribe, Unsubscribe, RaiseEvent, Leave, Announce
<1>5. CASE UNCHANGED busVars
  BY <1>5 DEF busVars, managerVars
<1> QED
  BY <1>1, <1>2, <1>3, <1>4, <1>5 DEF Next, ManagerNext, EnvNext

\* A dispatch appends one send per subscriber, in the order of the list.
LEMMA SentDispatch ==
    ASSUME TypeOK, DispatchEvent, UNCHANGED BusRest
    PROVE  LET event == Head(eventQueue).event
               to == subscriptions[<<event.server_id, event.type>>]
           IN /\ event \in ServerEvent
              /\ to \in Seq(Clients)
              /\ outbox' \in Seq(SendEvents)
              /\ outbox' = [i \in 1 .. Len(to) |-> SendEvent(to[i], event)]
              /\ Sent' = Sent \o outbox'
<1> DEFINE event == Head(eventQueue).event
           to == subscriptions[<<event.server_id, event.type>>]
<1>1. event \in ServerEvent
  BY ReceivedType, CommandFields DEF DispatchEvent
<1>2. to \in Seq(Clients)
  BY <1>1 DEF ServerEvent, Key, TypeOK, ManagerTypeOK
<1>3. outbox' = [i \in 1 .. Len(to) |-> SendEvent(to[i], event)] /\ outbox = <<>>
  BY DEF DispatchEvent, Received
<1>4. outbox' \in Seq(SendEvents)
  BY TypeNext DEF Next, ManagerNext, TypeOK, ManagerTypeOK
<1>5. handed \o queue \in Seq(SendEvents)
  BY ConcatProperties DEF TypeOK
<1>6. Sent = handed \o queue
  BY <1>3, <1>5, ConcatEmptySeq DEF Sent
<1>7. Sent' = Sent \o outbox'
  BY <1>6 DEF Sent, DispatchEvent, BusRest
<1> QED BY <1>1, <1>2, <1>3, <1>4, <1>7

\* The same, element by element.
LEMMA SentGrows ==
    ASSUME TypeOK, DispatchEvent, UNCHANGED BusRest
    PROVE  \E event \in ServerEvent, to \in Seq(Clients) :
              /\ event = Head(eventQueue).event
              /\ to = subscriptions[<<event.server_id, event.type>>]
              /\ Len(Sent') = Len(Sent) + Len(to)
              /\ \A i \in 1 .. Len(Sent) : Sent'[i] = Sent[i]
              /\ \A n \in 1 .. Len(to) : Sent'[Len(Sent) + n] = SendEvent(to[n], event)
              /\ \A i \in 1 .. Len(Sent') :
                    i \in 1 .. Len(Sent) \/ \E n \in 1 .. Len(to) : i = Len(Sent) + n
<1>1. PICK event \in ServerEvent : event = Head(eventQueue).event
  BY SentDispatch
<1>2. PICK to \in Seq(Clients) : to = subscriptions[<<event.server_id, event.type>>]
  BY <1>1, SentDispatch
<1>3. PICK o \in Seq(SendEvents) :
         /\ o = [i \in 1 .. Len(to) |-> SendEvent(to[i], event)]
         /\ Sent' = Sent \o o
  BY <1>1, <1>2, SentDispatch
<1>4. Len(to) \in Nat
  BY LenProperties
<1>5. Len(o) = Len(to) /\ \A n \in 1 .. Len(to) : o[n] = SendEvent(to[n], event)
  BY <1>3, <1>4
<1>6. Sent \in Seq(SendEvents)
  BY SentType
<1>7. /\ Len(Sent') = Len(Sent) + Len(o)
      /\ \A i \in 1 .. Len(Sent) : Sent'[i] = Sent[i]
      /\ \A i \in 1 .. Len(o) : Sent'[Len(Sent) + i] = o[i]
      /\ \A i \in 1 .. Len(Sent') :
            i \in 1 .. Len(Sent) \/ \E n \in 1 .. Len(o) : i = Len(Sent) + n
  <2>1. PICK s \in Seq(SendEvents) : s = Sent
    BY <1>6
  <2>2. PICK r : r = Sent' /\ r = s \o o
    BY <1>3, <2>1
  <2>3. /\ Len(r) = Len(s) + Len(o)
        /\ \A i \in 1 .. Len(s) : r[i] = s[i]
        /\ \A i \in 1 .. Len(o) : r[Len(s) + i] = o[i]
        /\ \A i \in 1 .. Len(r) :
              i \in 1 .. Len(s) \/ \E n \in 1 .. Len(o) : i = Len(s) + n
    <3>1. /\ Len(s \o o) = Len(s) + Len(o)
          /\ \A i \in 1 .. Len(s) : (s \o o)[i] = s[i]
          /\ \A i \in 1 .. Len(o) : (s \o o)[Len(s) + i] = o[i]
          /\ \A i \in 1 .. Len(s \o o) :
                i \in 1 .. Len(s) \/ \E n \in 1 .. Len(o) : i = Len(s) + n
      BY Extended
    <3> QED BY <2>2, <3>1
  <2> QED BY <2>1, <2>2, <2>3
<1>8. \A i \in 1 .. Len(to) : Sent'[Len(Sent) + i] = SendEvent(to[i], event)
  BY <1>5, <1>7
<1>9. \A i \in 1 .. Len(Sent') :
         i \in 1 .. Len(Sent) \/ \E n \in 1 .. Len(to) : i = Len(Sent) + n
  BY <1>5, <1>7
<1>10. Len(Sent') = Len(Sent) + Len(to)
  BY <1>5, <1>7
<1> QED BY <1>1, <1>2, <1>7, <1>8, <1>9, <1>10

(***************************************************************************)
(* The refinement.                                                         *)
(***************************************************************************)

\* The abstract specification speaks of the same keys, events and sends.
LEMMA SameVocabulary ==
    /\ PS!PSKey = Key
    /\ PS!ServerEvent = ServerEvent
    /\ \A c, e : PS!SendEvent(c, e) = SendEvent(c, e)
  BY DEF PS!PSKey, Key, PS!ServerEvent, ServerEvent, PS!ServerEventType,
         ServerEventType, PS!SendEvent, SendEvent

LEMMA RefineInit == Init => PS!PSInit
<1> SUFFICES ASSUME Init
             PROVE  PS!PSInit
  OBVIOUS
<1>1. <<>> \in Seq(SendEvents)
  OBVIOUS
<1>2. Sent = <<>>
  BY <1>1, ConcatEmptySeq DEF Init, ManagerInit, Sent
<1> QED BY <1>2, SameVocabulary DEF Init, ManagerInit, PS!PSInit

\* A subscription list grows in AddSubscription only; otherwise it may shrink.
LEMMA DropStep ==
    ASSUME TypeOK, (RemoveSubscription \/ RemoveAllSubscriptions) /\ UNCHANGED BusRest
    PROVE  PS!PSDrop
<1> DEFINE cmd == Head(eventQueue)
<1>1. UNCHANGED Sent
  BY DEF RemoveSubscription, RemoveAllSubscriptions, BusRest, Sent
<1>2. cmd.client_id \in Clients
  BY ReceivedType, CommandFields DEF RemoveSubscription, RemoveAllSubscriptions
<1>3. \A k \in Key : subscriptions'[k] \in {subscriptions[k],
                                            Retain(subscriptions[k], cmd.client_id)}
  BY DEF RemoveSubscription, RemoveAllSubscriptions, TypeOK, ManagerTypeOK
<1>4. \A k \in Key : subscriptions[k] \in Seq(Clients)
  BY DEF TypeOK, ManagerTypeOK
<1>5. ASSUME NEW k \in Key
      PROVE  /\ Len(subscriptions'[k]) <= Len(subscriptions[k])
             /\ \A i \in 1 .. Len(subscriptions'[k]) :
                   \E j \in 1 .. Len(subscriptions[k]) :
                      subscriptions[k][j] = subscriptions'[k][i]
  <2>1. CASE subscriptions'[k] = subscriptions[k]
    BY <2>1, <1>4, LenProperties
  <2>2. CASE subscriptions'[k] = Retain(subscriptions[k], cmd.client_id)
    <3>1. subscriptions[k] \in Seq(Clients)
      BY <1>4
    <3>2. /\ Len(Retain(subscriptions[k], cmd.client_id)) <= Len(subscriptions[k])
          /\ \A i \in 1 .. Len(Retain(subscriptions[k], cmd.client_id)) :
                \E j \in 1 .. Len(subscriptions[k]) :
                   subscriptions[k][j] = Retain(subscriptions[k], cmd.client_id)[i]
      BY <3>1, <1>2, RetainProperties
    <3> QED BY <2>2, <3>2
  <2> QED BY <2>1, <2>2, <1>3
<1> QED BY <1>1, <1>5, SameVocabulary DEF PS!PSDrop

LEMMA ListsStep ==
    ASSUME TypeOK, [Next]_busVars
    PROVE  AddSubscription \/ PS!PSDrop \/ subscriptions' = subscriptions
<1>1. CASE (RemoveSubscription \/ RemoveAllSubscriptions) /\ UNCHANGED BusRest
  BY <1>1, DropStep
<1> QED
  BY <1>1 DEF Next, ManagerNext, EnvNext, DispatchEvent, Forward, Subscribe, Unsubscribe,
     RaiseEvent, Leave, Announce, HandOut, busVars, managerVars

LEMMA RefineNext == TypeOK /\ [Next]_busVars => [PS!PSNext]_(PS!psVars)
<1> SUFFICES ASSUME TypeOK, [Next]_busVars
             PROVE  PS!PSNext \/ UNCHANGED <<subscriptions, Sent>>
  BY DEF PS!psVars
<1>1. CASE DispatchEvent /\ UNCHANGED BusRest
  <2> DEFINE event == Head(eventQueue).event
             to == subscriptions[<<event.server_id, event.type>>]
  <2>1. /\ event \in ServerEvent
        /\ Sent' = Sent \o [i \in 1 .. Len(to) |-> SendEvent(to[i], event)]
    BY <1>1, SentDispatch
  <2>2. UNCHANGED subscriptions
    BY <1>1 DEF DispatchEvent
  <2>3. PS!PSPublish(event)
    BY <2>1, <2>2, SameVocabulary DEF PS!PSPublish
  <2> QED BY <2>1, <2>3, SameVocabulary DEF PS!PSNext
<1>2. CASE AddSubscription /\ UNCHANGED BusRest
  <2> DEFINE cmd == Head(eventQueue)
             k == <<cmd.server_id, cmd.event_type>>
  <2>1. k \in PS!PSKey /\ cmd.client_id \in Clients
    BY <1>2, ReceivedType, CommandFields, SameVocabulary DEF AddSubscription, Key
  <2>2. UNCHANGED Sent
    BY <1>2 DEF AddSubscription, BusRest, Sent
  <2>3. PS!PSSubscribe(k, cmd.client_id)
    BY <1>2, <2>2 DEF AddSubscription, PS!PSSubscribe
  <2> QED BY <2>1, <2>3 DEF PS!PSNext
<1>3. CASE (RemoveSubscription \/ RemoveAllSubscriptions) /\ UNCHANGED BusRest
  BY <1>3, DropStep DEF PS!PSNext
<1>4. CASE Forward /\ UNCHANGED BusRest
  <2>1. ~DispatchEvent
    BY <1>4 DEF Forward, DispatchEvent, Received
  <2> QED BY <1>4, <2>1, SentStep DEF Forward
<1>5. CASE EnvNext
  <2>1. UNCHANGED subscriptions
    BY <1>5 DEF EnvNext, Subscribe, Unsubscribe, RaiseEvent, Leave, Announce, HandOut
  <2>2. CASE DispatchEvent /\ UNCHANGED BusRest
    BY <2>2, <1>1
  <2> QED BY <2>1, <2>2, SentStep
<1>6. CASE UNCHANGED busVars
  BY <1>6 DEF busVars, managerVars, Sent
<1> QED
  BY <1>1, <1>2, <1>3, <1>4, <1>5, <1>6 DEF Next, ManagerNext

\* The two queues and the manager between them are a publication in one step.
THEOREM BusImplementsPubSub == Spec => ImplementsPubSub
<1> QED
  BY RefineInit, RefineNext, BusTypeOK, PTL DEF Spec, ImplementsPubSub, PS!PSSpec

(***************************************************************************)
(* What waits for the manager: a step takes the first command, adds one at *)
(* the end, or leaves the queue alone.                                     *)
(***************************************************************************)

\* The subscription is on record in s.
Asked(s, u, t, c) == \E j \in 1 .. Len(s) : s[j] = << <<u, t>>, c >>

IsAdd(cmd) == cmd.kind = "AddSubscription"
IsDispatch(cmd) == cmd.kind = "DispatchEvent"

\* A command is added only for a reason: a subscription is on record, an event
\* is the next one raised.
GrowsBy(cmd) ==
    /\ eventQueue' = Append(eventQueue, cmd)
    /\ IsAdd(cmd) => Asked(subscribes', cmd.server_id, cmd.event_type, cmd.client_id)
    /\ IsDispatch(cmd) => cmd.event.body = raised' /\ raised' = raised + 1

LEMMA SubscribesStep ==
    ASSUME TypeOK, [Next]_busVars, NEW u, NEW t, NEW c, Asked(subscribes, u, t, c)
    PROVE  Asked(subscribes', u, t, c)
<1>1. CASE subscribes' = subscribes
  BY <1>1 DEF Asked
<1>2. CASE \E k \in Keys, d \in Clients : Subscribe(k, d)
  <2> PICK k \in Keys, d \in Clients : Subscribe(k, d)
    BY <1>2
  <2>1. <<k, d>> \in Key \X Clients /\ subscribes \in Seq(Key \X Clients)
    BY BusAssumption DEF TypeOK
  <2>2. subscribes' = Append(subscribes, <<k, d>>)
    BY DEF Subscribe
  <2> QED BY <2>1, <2>2, AppendProperties DEF Asked
<1> QED
  BY <1>1, <1>2 DEF Next, EnvNext, BusRest, Unsubscribe, RaiseEvent, Leave, Announce,
     HandOut, busVars

LEMMA QueueStep ==
    ASSUME TypeOK, [Next]_busVars
    PROVE  \/ eventQueue' = eventQueue
           \/ eventQueue # <<>> /\ eventQueue' = Tail(eventQueue)
           \/ \E cmd \in EventManagerCmd : GrowsBy(cmd)
<1>1. CASE ManagerNext
  BY <1>1 DEF ManagerNext, DispatchEvent, Forward, AddSubscription, RemoveSubscription,
     RemoveAllSubscriptions, Received
<1>2. CASE \E k \in Keys, c \in Clients : Subscribe(k, c)
  <2> PICK k \in Keys, c \in Clients : Subscribe(k, c)
    BY <1>2
  <2> DEFINE cmd == AddCmd(k[1], k[2], c)
  <2>1. k \in Key /\ k[1] \in Units /\ k[2] \in ServerEventType /\ k = <<k[1], k[2]>>
    BY BusAssumption DEF Key
  <2>2. cmd \in EventManagerCmd /\ eventQueue' = Append(eventQueue, cmd)
    BY <2>1, Constructors DEF Subscribe
  <2>3. subscribes \in Seq(Key \X Clients) /\ <<k, c>> \in Key \X Clients
    BY <2>1 DEF TypeOK
  <2>4. Asked(subscribes', k[1], k[2], c)
    BY <2>1, <2>3, AppendProperties DEF Subscribe, Asked
  <2>5. GrowsBy(cmd)
    BY <2>2, <2>4 DEF GrowsBy, AddCmd, IsAdd, IsDispatch
  <2> QED BY <2>2, <2>5
<1>3. CASE \E k \in Keys, c \in Clients : Unsubscribe(k, c)
  <2> PICK k \in Keys, c \in Clients : Unsubscribe(k, c)
    BY <1>3
  <2> DEFINE cmd == RemoveCmd(k[1], k[2], c)
  <2>1. cmd \in EventManagerCmd /\ eventQueue' = Append(eventQueue, cmd)
    BY BusAssumption, Constructors DEF Unsubscribe, Key
  <2> QED BY <2>1 DEF GrowsBy, RemoveCmd, IsAdd, IsDispatch
<1>4. CASE \E k \in Keys : RaiseEvent(k)
  <2> PICK k \in Keys : RaiseEvent(k)
    BY <1>4
  <2> DEFINE e == [type |-> k[2], server_id |-> k[1], body |-> raised + 1]
  <2>1. e \in ServerEvent
    BY BusAssumption DEF RaiseEvent, ServerEvent, Key
  <2>2. DispatchCmd(e) \in EventManagerCmd /\ eventQueue' = Append(eventQueue, DispatchCmd(e))
    BY <2>1, Constructors DEF RaiseEvent
  <2>3. raised' = raised + 1 /\ DispatchCmd(e).event.body = raised'
    BY DEF RaiseEvent, DispatchCmd
  <2> QED BY <2>2, <2>3 DEF GrowsBy, DispatchCmd, IsAdd, IsDispatch
<1>5. CASE \E c \in Clients : eventQueue' = Append(eventQueue, RemoveAllCmd(c))
  BY <1>5, Constructors DEF GrowsBy, RemoveAllCmd, IsAdd, IsDispatch
<1>6. CASE \E c \in Leavers : Leave(c) \/ Announce(c)
  BY <1>5, <1>6, BusAssumption DEF Leave, Announce
<1>7. CASE HandOut
  <2>1. queue \in Seq(SendEvents) /\ queue # <<>>
    BY <1>7 DEF HandOut, TypeOK
  <2>2. Head(queue) \in SendEvents
    BY <2>1, HeadTailProperties
  <2>3. Head(queue).client_id \in Clients
    BY <2>2 DEF SendEvents
  <2> QED BY <2>3, <1>5, <1>7 DEF HandOut
<1> QED
  BY <1>1, <1>2, <1>3, <1>4, <1>6, <1>7 DEF Next, EnvNext, busVars, managerVars

(***************************************************************************)
(* OnlyAskedFor is not inductive: a send may come from a subscription that *)
(* is already in the table or still a command on its way.  Both must be on *)
(* record too.                                                             *)
(***************************************************************************)

TableAsked ==
    \A k \in Key : \A i \in 1 .. Len(subscriptions[k]) :
        Asked(subscribes, k[1], k[2], subscriptions[k][i])
CommandsAsked ==
    \A i \in 1 .. Len(eventQueue) :
        IsAdd(eventQueue[i]) =>
            Asked(subscribes, eventQueue[i].server_id, eventQueue[i].event_type,
                  eventQueue[i].client_id)
AskedInv == TypeOK /\ TableAsked /\ CommandsAsked /\ OnlyAskedFor

LEMMA AskedInit == Init => AskedInv
<1> SUFFICES ASSUME Init
             PROVE  AskedInv
  OBVIOUS
<1>1. Sent = <<>>
  BY RefineInit DEF PS!PSInit
<1> QED
  BY <1>1, TypeInit DEF Init, ManagerInit, AskedInv, TableAsked, CommandsAsked,
     OnlyAskedFor

LEMMA CommandsAskedNext == AskedInv /\ [Next]_busVars => CommandsAsked'
<1> SUFFICES ASSUME AskedInv, [Next]_busVars
             PROVE  CommandsAsked'
  OBVIOUS
<1>1. TypeOK /\ eventQueue \in Seq(EventManagerCmd)
  BY DEF AskedInv, TypeOK, ManagerTypeOK
<1>2. \A u, t, c : Asked(subscribes, u, t, c) => Asked(subscribes', u, t, c)
  BY <1>1, SubscribesStep
<1>3. CASE eventQueue' = eventQueue
  BY <1>2, <1>3 DEF CommandsAsked, AskedInv
<1>4. CASE eventQueue # <<>> /\ eventQueue' = Tail(eventQueue)
  <2>1. /\ Len(eventQueue') = Len(eventQueue) - 1
        /\ \A i \in 1 .. Len(eventQueue') :
              i + 1 \in 1 .. Len(eventQueue) /\ eventQueue'[i] = eventQueue[i + 1]
    BY <1>1, <1>4, HeadTailProperties
  <2> QED BY <1>2, <2>1 DEF CommandsAsked, AskedInv
<1>5. CASE \E cmd \in EventManagerCmd : GrowsBy(cmd)
  <2> PICK cmd \in EventManagerCmd : GrowsBy(cmd)
    BY <1>5
  <2>1. /\ Len(eventQueue') = Len(eventQueue) + 1
        /\ \A i \in 1 .. Len(eventQueue) : eventQueue'[i] = eventQueue[i]
        /\ eventQueue'[Len(eventQueue) + 1] = cmd
        /\ Len(eventQueue) \in Nat
    BY <1>1, AppendProperties DEF GrowsBy
  <2>2. ASSUME NEW i \in 1 .. Len(eventQueue'), IsAdd(eventQueue'[i])
        PROVE  Asked(subscribes', eventQueue'[i].server_id, eventQueue'[i].event_type,
                     eventQueue'[i].client_id)
    <3>1. CASE i \in 1 .. Len(eventQueue)
      BY <1>2, <2>1, <2>2, <3>1 DEF CommandsAsked, AskedInv
    <3>2. CASE i = Len(eventQueue) + 1
      BY <2>1, <2>2, <3>2 DEF GrowsBy
    <3> QED BY <2>1, <3>1, <3>2
  <2> QED BY <2>2 DEF CommandsAsked, IsAdd
<1> QED BY <1>1, <1>3, <1>4, <1>5, QueueStep

LEMMA TableAskedNext == AskedInv /\ [Next]_busVars => TableAsked'
<1> SUFFICES ASSUME AskedInv, [Next]_busVars, NEW k \in Key
             PROVE  \A i \in 1 .. Len(subscriptions'[k]) :
                       Asked(subscribes', k[1], k[2], subscriptions'[k][i])
  BY DEF TableAsked
<1>1. TypeOK /\ subscriptions \in [Key -> Seq(Clients)]
  BY DEF AskedInv, TypeOK, ManagerTypeOK
<1>2. \A u, t, c : Asked(subscribes, u, t, c) => Asked(subscribes', u, t, c)
  BY <1>1, SubscribesStep
<1>3. CASE \A i \in 1 .. Len(subscriptions'[k]) :
              \E j \in 1 .. Len(subscriptions[k]) :
                 subscriptions[k][j] = subscriptions'[k][i]
  BY <1>2, <1>3 DEF AskedInv, TableAsked
<1>4. CASE AddSubscription
  <2> DEFINE cmd == Head(eventQueue)
  <2>1. /\ cmd \in EventManagerCmd /\ cmd.client_id \in Clients
        /\ Asked(subscribes, cmd.server_id, cmd.event_type, cmd.client_id)
    <3>1. eventQueue # <<>> /\ eventQueue \in Seq(EventManagerCmd) /\ cmd = eventQueue[1]
      BY <1>1, <1>4 DEF AddSubscription, Received, TypeOK, ManagerTypeOK
    <3>2. 1 \in 1 .. Len(eventQueue)
      BY <3>1
    <3>3. IsAdd(cmd) /\ cmd \in EventManagerCmd
      BY <1>1, <1>4, ReceivedType DEF AddSubscription, IsAdd
    <3> QED BY <3>1, <3>2, <3>3, CommandFields DEF AskedInv, CommandsAsked, IsAdd
  <2>2. CASE k = <<cmd.server_id, cmd.event_type>>
    <3>1. subscriptions'[k] = Append(subscriptions[k], cmd.client_id)
      BY <1>1, <1>4, <2>2 DEF AddSubscription
    <3>2. Asked(subscribes', k[1], k[2], cmd.client_id)
      BY <1>2, <2>1, <2>2
    <3>3. /\ Len(subscriptions'[k]) = Len(subscriptions[k]) + 1
          /\ \A i \in 1 .. Len(subscriptions[k]) :
                subscriptions'[k][i] = subscriptions[k][i]
          /\ subscriptions'[k][Len(subscriptions[k]) + 1] = cmd.client_id
          /\ Len(subscriptions[k]) \in Nat
      BY <1>1, <2>1, <3>1, AppendProperties
    <3>4. ASSUME NEW i \in 1 .. Len(subscriptions'[k])
          PROVE  Asked(subscribes', k[1], k[2], subscriptions'[k][i])
      <4>1. CASE i \in 1 .. Len(subscriptions[k])
        BY <1>2, <3>3, <4>1 DEF AskedInv, TableAsked
      <4>2. CASE i = Len(subscriptions[k]) + 1
        BY <3>2, <3>3, <4>2
      <4> QED BY <3>3, <4>1, <4>2
    <3> QED BY <3>4
  <2>3. CASE k # <<cmd.server_id, cmd.event_type>>
    BY <1>1, <1>3, <1>4, <2>3 DEF AddSubscription
  <2> QED BY <2>2, <2>3
<1>5. CASE PS!PSDrop
  BY <1>3, <1>5, SameVocabulary DEF PS!PSDrop
<1>6. CASE subscriptions' = subscriptions
  BY <1>3, <1>6
<1>7. AddSubscription \/ PS!PSDrop \/ subscriptions' = subscriptions
  BY <1>1, ListsStep
<1> QED BY <1>4, <1>5, <1>6, <1>7

LEMMA OnlyAskedForNext == AskedInv /\ [Next]_busVars => OnlyAskedFor'
<1> SUFFICES ASSUME AskedInv, [Next]_busVars,
                    NEW i \in 1 .. Len(Sent')
             PROVE  LET m == Sent'[i]
                    IN Asked(subscribes', m.event.server_id, m.event.type, m.client_id)
  BY DEF OnlyAskedFor, Asked
<1>1. TypeOK /\ Sent \in Seq(SendEvents)
  BY SentType DEF AskedInv
<1>2. \A u, t, c : Asked(subscribes, u, t, c) => Asked(subscribes', u, t, c)
  BY <1>1, SubscribesStep
<1>3. \A j \in 1 .. Len(Sent) :
         Asked(subscribes', Sent[j].event.server_id, Sent[j].event.type, Sent[j].client_id)
  <2>1. \A j \in 1 .. Len(Sent) :
           Asked(subscribes, Sent[j].event.server_id, Sent[j].event.type, Sent[j].client_id)
    BY DEF AskedInv, OnlyAskedFor, Asked
  <2> QED BY <1>2, <2>1
<1>4. CASE Sent' = Sent
  BY <1>3, <1>4
<1>5. CASE DispatchEvent /\ UNCHANGED BusRest
  <2>1. PICK event \in ServerEvent, to \in Seq(Clients) :
           /\ to = subscriptions[<<event.server_id, event.type>>]
           /\ \A n \in 1 .. Len(Sent) : Sent'[n] = Sent[n]
           /\ \A n \in 1 .. Len(to) : Sent'[Len(Sent) + n] = SendEvent(to[n], event)
           /\ i \in 1 .. Len(Sent) \/ \E n \in 1 .. Len(to) : i = Len(Sent) + n
    BY <1>1, <1>5, SentGrows
  <2>2. CASE i \in 1 .. Len(Sent)
    BY <1>3, <2>1, <2>2
  <2>3. CASE \E n \in 1 .. Len(to) : i = Len(Sent) + n
    <3>1. PICK n \in 1 .. Len(to) : i = Len(Sent) + n
      BY <2>3
    <3>2. Sent'[i] = SendEvent(to[n], event)
      BY <2>1, <3>1
    <3>3. Sent'[i].client_id = to[n] /\ Sent'[i].event = event
      BY <3>2 DEF SendEvent
    <3>4. <<event.server_id, event.type>> \in Key
      BY DEF ServerEvent, Key
    <3>5. Asked(subscribes, event.server_id, event.type, to[n])
      BY <2>1, <3>4 DEF AskedInv, TableAsked
    <3> QED BY <1>2, <3>3, <3>5
  <2> QED BY <2>1, <2>2, <2>3
<1> QED BY <1>1, <1>4, <1>5, SentStep

\* No client is handed an event that was not subscribed to for it.
THEOREM BusOnlyAskedFor == Spec => []OnlyAskedFor
<1>1. AskedInv /\ [Next]_busVars => AskedInv'
  BY TypeNext, TableAskedNext, CommandsAskedNext, OnlyAskedForNext DEF AskedInv
<1>2. AskedInv => OnlyAskedFor
  BY DEF AskedInv
<1> QED BY AskedInit, <1>1, <1>2, PTL DEF Spec

(***************************************************************************)
(* InOrder speaks of one client and of what it was handed.  What is        *)
(* preserved is more: all of Sent is in the order of raising, the manager  *)
(* has nothing waiting that is older, and what waits is in order too.      *)
(***************************************************************************)

SentInOrder ==
    \A i, j \in 1 .. Len(Sent) : i < j => Sent[i].event.body <= Sent[j].event.body
SentBeforeWaiting ==
    \A i \in 1 .. Len(Sent), j \in 1 .. Len(eventQueue) :
        IsDispatch(eventQueue[j]) => Sent[i].event.body <= eventQueue[j].event.body
WaitingInOrder ==
    \A i, j \in 1 .. Len(eventQueue) :
        i < j /\ IsDispatch(eventQueue[i]) /\ IsDispatch(eventQueue[j])
            => eventQueue[i].event.body <= eventQueue[j].event.body
AllRaised ==
    /\ \A i \in 1 .. Len(Sent) : Sent[i].event.body <= raised
    /\ \A j \in 1 .. Len(eventQueue) :
          IsDispatch(eventQueue[j]) => eventQueue[j].event.body <= raised
OrderInv == TypeOK /\ SentInOrder /\ SentBeforeWaiting /\ WaitingInOrder /\ AllRaised

LEMMA OrderInit == Init => OrderInv
<1> SUFFICES ASSUME Init
             PROVE  OrderInv
  OBVIOUS
<1>1. Sent = <<>>
  BY RefineInit DEF PS!PSInit
<1> QED
  BY <1>1, TypeInit DEF Init, ManagerInit, OrderInv, SentInOrder, SentBeforeWaiting,
     WaitingInOrder, AllRaised

\* Bodies are numbers, in what was sent and in what waits.
LEMMA BodiesAreNumbers ==
    ASSUME TypeOK
    PROVE  /\ \A i \in 1 .. Len(Sent) : Sent[i].event.body \in Nat
           /\ \A j \in 1 .. Len(eventQueue) :
                 IsDispatch(eventQueue[j]) => eventQueue[j].event.body \in Nat
           /\ Len(Sent) \in Nat /\ Len(eventQueue) \in Nat /\ raised \in Nat
<1>1. Sent \in Seq(SendEvents) /\ eventQueue \in Seq(EventManagerCmd)
  BY SentType DEF TypeOK, ManagerTypeOK
<1>2. \A i \in 1 .. Len(Sent) : Sent[i] \in SendEvents
  BY <1>1, ElementOfSeq
<1>3. \A j \in 1 .. Len(eventQueue) : eventQueue[j] \in EventManagerCmd
  BY <1>1, ElementOfSeq
<1>4. \A e \in ServerEvent : e.body \in Nat
  BY BusAssumption DEF ServerEvent
<1>5. \A i \in 1 .. Len(Sent) : Sent[i].event.body \in Nat
  BY <1>2, <1>4 DEF SendEvents
<1>6. \A j \in 1 .. Len(eventQueue) :
         IsDispatch(eventQueue[j]) => eventQueue[j].event.body \in Nat
  BY <1>3, <1>4, CommandFields DEF IsDispatch
<1> QED BY <1>1, <1>5, <1>6, LenProperties DEF TypeOK

\* The events that are already on their way keep their places when the queue
\* changes: old entries stay in order and a new one is younger than all.
LEMMA WaitingNext ==
    ASSUME OrderInv, [Next]_busVars
    PROVE  /\ WaitingInOrder'
           /\ raised <= raised'
           /\ \A j \in 1 .. Len(eventQueue') : IsDispatch(eventQueue'[j]) =>
                 /\ eventQueue'[j].event.body \in Nat
                 /\ eventQueue'[j].event.body <= raised'
                 /\ \A i \in 1 .. Len(Sent) :
                       Sent[i].event.body <= eventQueue'[j].event.body
<1>1. TypeOK /\ TypeOK' /\ eventQueue \in Seq(EventManagerCmd)
  BY TypeNext DEF OrderInv, TypeOK, ManagerTypeOK
<1>2. raised \in Nat /\ raised' \in Nat /\ raised <= raised'
  <2>1. raised \in Nat /\ (raised' = raised \/ raised' = raised + 1)
    BY <1>1 DEF TypeOK, Next, EnvNext, BusRest, Subscribe, Unsubscribe, RaiseEvent, Leave,
       Announce, HandOut, busVars
  <2> QED BY <2>1
<1>3. CASE eventQueue' = eventQueue
  BY <1>1, <1>2, <1>3, BodiesAreNumbers DEF OrderInv, WaitingInOrder, AllRaised,
     SentBeforeWaiting
<1>4. CASE eventQueue # <<>> /\ eventQueue' = Tail(eventQueue)
  <2>1. /\ Len(eventQueue') = Len(eventQueue) - 1
        /\ \A j \in 1 .. Len(eventQueue') :
              j + 1 \in 1 .. Len(eventQueue) /\ eventQueue'[j] = eventQueue[j + 1]
    BY <1>1, <1>4, HeadTailProperties
  <2>2. WaitingInOrder'
    <3>1. \A i, j \in 1 .. Len(eventQueue') :
             i < j => /\ i + 1 < j + 1
                      /\ i + 1 \in 1 .. Len(eventQueue) /\ j + 1 \in 1 .. Len(eventQueue)
                      /\ eventQueue'[i] = eventQueue[i + 1]
                      /\ eventQueue'[j] = eventQueue[j + 1]
      BY <2>1
    <3> QED BY <3>1 DEF OrderInv, WaitingInOrder, IsDispatch
  <2>3. \A j \in 1 .. Len(eventQueue') : IsDispatch(eventQueue'[j]) =>
           /\ eventQueue'[j].event.body \in Nat
           /\ eventQueue'[j].event.body <= raised
           /\ \A i \in 1 .. Len(Sent) : Sent[i].event.body <= eventQueue'[j].event.body
    BY <1>1, <2>1, BodiesAreNumbers DEF OrderInv, AllRaised, SentBeforeWaiting
  <2> QED BY <1>2, <2>2, <2>3
<1>5. CASE \E cmd \in EventManagerCmd : GrowsBy(cmd)
  <2> PICK cmd \in EventManagerCmd : GrowsBy(cmd)
    BY <1>5
  <2>1. /\ Len(eventQueue') = Len(eventQueue) + 1
        /\ \A i \in 1 .. Len(eventQueue) : eventQueue'[i] = eventQueue[i]
        /\ eventQueue'[Len(eventQueue) + 1] = cmd
        /\ Len(eventQueue) \in Nat
    BY <1>1, AppendProperties DEF GrowsBy
  <2>2. IsDispatch(cmd) => cmd.event.body = raised' /\ raised <= raised'
    BY <1>2 DEF GrowsBy
  <2>3. \A i, j \in 1 .. Len(eventQueue') :
           i < j => i \in 1 .. Len(eventQueue)
                    /\ (j \in 1 .. Len(eventQueue) \/ j = Len(eventQueue) + 1)
    BY <2>1
  <2>4. WaitingInOrder'
    <3> SUFFICES ASSUME NEW i \in 1 .. Len(eventQueue'), NEW j \in 1 .. Len(eventQueue'),
                        i < j, IsDispatch(eventQueue'[i]), IsDispatch(eventQueue'[j])
                 PROVE  eventQueue'[i].event.body <= eventQueue'[j].event.body
      BY DEF WaitingInOrder, IsDispatch
    <3>1. i \in 1 .. Len(eventQueue) /\ eventQueue'[i] = eventQueue[i]
      BY <2>1, <2>3
    <3>2. eventQueue[i].event.body \in Nat /\ eventQueue[i].event.body <= raised
      BY <1>1, <3>1, BodiesAreNumbers DEF OrderInv, AllRaised
    <3>3. CASE j \in 1 .. Len(eventQueue)
      BY <2>1, <3>1, <3>3 DEF OrderInv, WaitingInOrder
    <3>4. CASE j = Len(eventQueue) + 1
      <4>1. eventQueue'[j].event.body = raised' /\ raised <= raised'
        BY <2>1, <2>2, <3>4
      <4> QED BY <1>2, <3>1, <3>2, <4>1
    <3> QED BY <2>3, <3>3, <3>4
  <2>5. ASSUME NEW j \in 1 .. Len(eventQueue'), IsDispatch(eventQueue'[j])
        PROVE  /\ eventQueue'[j].event.body \in Nat
               /\ eventQueue'[j].event.body <= raised'
               /\ \A i \in 1 .. Len(Sent) :
                     Sent[i].event.body <= eventQueue'[j].event.body
    <3>1. CASE j \in 1 .. Len(eventQueue)
      BY <1>1, <1>2, <2>1, <2>5, <3>1, BodiesAreNumbers DEF OrderInv, AllRaised,
         SentBeforeWaiting
    <3>2. CASE j = Len(eventQueue) + 1
      BY <1>1, <1>2, <2>1, <2>2, <2>5, <3>2, BodiesAreNumbers DEF OrderInv, AllRaised
    <3> QED BY <2>1, <3>1, <3>2
  <2> QED BY <1>2, <2>4, <2>5
<1> QED BY <1>1, <1>3, <1>4, <1>5, QueueStep

LEMMA OrderNext == OrderInv /\ [Next]_busVars => OrderInv'
<1> SUFFICES ASSUME OrderInv, [Next]_busVars
             PROVE  OrderInv'
  OBVIOUS
<1>1. TypeOK /\ TypeOK' /\ Sent \in Seq(SendEvents)
  BY TypeNext, SentType DEF OrderInv
<1>2. raised \in Nat /\ raised' \in Nat /\ Len(Sent) \in Nat
  BY <1>1, BodiesAreNumbers DEF TypeOK
<1>3. CASE Sent' = Sent
  BY <1>1, <1>2, <1>3, WaitingNext, BodiesAreNumbers DEF OrderInv, SentInOrder,
     SentBeforeWaiting, AllRaised
<1>4. CASE DispatchEvent /\ UNCHANGED BusRest
  <2>1. PICK event \in ServerEvent, to \in Seq(Clients) :
           /\ event = Head(eventQueue).event
           /\ Len(Sent') = Len(Sent) + Len(to)
           /\ \A i \in 1 .. Len(Sent) : Sent'[i] = Sent[i]
           /\ \A n \in 1 .. Len(to) : Sent'[Len(Sent) + n] = SendEvent(to[n], event)
           /\ \A i \in 1 .. Len(Sent') :
                 i \in 1 .. Len(Sent) \/ \E n \in 1 .. Len(to) : i = Len(Sent) + n
    BY <1>1, <1>4, SentGrows
  <2>2. \A i \in 1 .. Len(Sent') :
           \/ i \in 1 .. Len(Sent) /\ Sent'[i] = Sent[i]
           \/ i > Len(Sent) /\ Sent'[i].event = event
    <3>1. \A n \in 1 .. Len(to) : Sent'[Len(Sent) + n].event = event
      <4>1. \A c : SendEvent(c, event).event = event
        BY DEF SendEvent
      <4> QED BY <2>1, <4>1
    <3>2. \A n \in 1 .. Len(to) : Len(Sent) + n > Len(Sent)
      BY <1>2
    <3> QED BY <2>1, <3>1, <3>2
  <2>4. /\ eventQueue \in Seq(EventManagerCmd) /\ eventQueue # <<>>
        /\ eventQueue' = Tail(eventQueue)
        /\ IsDispatch(eventQueue[1])
        /\ event = eventQueue[1].event
        /\ 1 \in 1 .. Len(eventQueue)
    <3>1. eventQueue \in Seq(EventManagerCmd) /\ eventQueue # <<>>
      BY <1>1, <1>4 DEF TypeOK, ManagerTypeOK, DispatchEvent, Received
    <3>2. Head(eventQueue) = eventQueue[1] /\ 1 \in 1 .. Len(eventQueue)
      BY <3>1
    <3> QED BY <1>4, <2>1, <3>1, <3>2 DEF DispatchEvent, Received, IsDispatch
  <2>5. /\ event.body \in Nat /\ event.body <= raised
        /\ \A i \in 1 .. Len(Sent) : Sent[i].event.body <= event.body
    BY <1>1, <2>4, BodiesAreNumbers DEF OrderInv, AllRaised, SentBeforeWaiting
  <2>6. \A j \in 1 .. Len(eventQueue') : IsDispatch(eventQueue'[j]) =>
           event.body <= eventQueue'[j].event.body
    <3>1. \A j \in 1 .. Len(eventQueue') :
             /\ j + 1 \in 1 .. Len(eventQueue) /\ 1 < j + 1
             /\ eventQueue'[j] = eventQueue[j + 1]
      BY <2>4, HeadTailProperties
    <3> QED BY <2>4, <3>1 DEF OrderInv, WaitingInOrder
  <2>7. SentInOrder'
    <3> SUFFICES ASSUME NEW i \in 1 .. Len(Sent'), NEW j \in 1 .. Len(Sent'), i < j
                 PROVE  Sent'[i].event.body <= Sent'[j].event.body
      BY DEF SentInOrder
    <3>1. CASE j \in 1 .. Len(Sent) /\ Sent'[j] = Sent[j]
      <4>1. i \in 1 .. Len(Sent) /\ Sent'[i] = Sent[i]
        BY <1>2, <2>2, <3>1
      <4> QED BY <3>1, <4>1 DEF OrderInv, SentInOrder
    <3>2. CASE Sent'[j].event = event
      BY <2>2, <2>5, <3>2
    <3> QED BY <2>2, <3>1, <3>2
  <2>8. SentBeforeWaiting'
    BY <1>1, <2>2, <2>6, WaitingNext DEF SentBeforeWaiting, IsDispatch
  <2>9. AllRaised'
    <3>1. raised' = raised
      BY <1>4 DEF BusRest
    <3>2. \A i \in 1 .. Len(Sent') : Sent'[i].event.body <= raised
      BY <2>2, <2>5 DEF OrderInv, AllRaised
    <3> QED BY <3>1, <3>2, WaitingNext DEF AllRaised, IsDispatch
  <2> QED BY <1>1, <2>7, <2>8, <2>9, WaitingNext DEF OrderInv
<1> QED BY <1>1, <1>3, <1>4, SentStep

\* A client sees events in the order in which they were raised.
THEOREM BusInOrder == Spec => []InOrder
<1>1. OrderInv => InOrder
  <2> SUFFICES ASSUME OrderInv
               PROVE  InOrder
    OBVIOUS
  <2>1. /\ handed \in Seq(SendEvents) /\ queue \in Seq(SendEvents)
        /\ outbox \in Seq(SendEvents)
    BY DEF OrderInv, TypeOK, ManagerTypeOK
  <2>2. PICK p \in Seq(SendEvents) : p = handed \o queue
    BY <2>1, ConcatProperties
  <2>3. /\ Len(p) = Len(handed) + Len(queue)
        /\ \A i \in 1 .. Len(handed) : p[i] = handed[i]
    BY <2>1, <2>2, ConcatProperties, LenProperties
  <2>4. Sent = p \o outbox
    BY <2>2 DEF Sent
  <2>5. \A i \in 1 .. Len(handed) : i \in 1 .. Len(Sent) /\ Sent[i] = handed[i]
    BY <2>1, <2>3, <2>4, ConcatProperties, LenProperties
  <2> QED BY <2>5 DEF OrderInv, SentInOrder, InOrder
<1> QED BY OrderInit, OrderNext, <1>1, PTL DEF Spec
=============================================================================
