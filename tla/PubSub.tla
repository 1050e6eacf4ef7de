------------------------------- MODULE PubSub -------------------------------
(***************************************************************************)
(* What the event manager and the daemon's queue promise together: an      *)
(* event is published at one instant, to everybody subscribed to its key   *)
(* at that instant, and what was published is handed out in that order,    *)
(* with nothing lost, invented, repeated or overtaken on the way.          *)
(* Subscriptions are added at the end of a key's list; apart from that     *)
(* they are only ever dropped.  Which ones a departure drops is left open. *)
(***************************************************************************)
EXTENDS Ipc

VARIABLES
    subs,       \* subscribers of each key, in the order they subscribed
    sent        \* every (client, event) sent so far, oldest first

psVars == <<subs, sent>>

PSKey == Units \X ServerEventType

PSInit ==
    /\ subs = [k \in PSKey |-> <<>>]
    /\ sent = <<>>

PSSubscribe(k, c) ==
    /\ subs' = [subs EXCEPT ![k] = Append(@, c)]
    /\ UNCHANGED sent

\* Every list keeps at most what it had.
PSDrop ==
    /\ \A k \in PSKey :
          /\ Len(subs'[k]) <= Len(subs[k])
          /\ \A i \in 1 .. Len(subs'[k]) :
                \E j \in 1 .. Len(subs[k]) : subs[k][j] = subs'[k][i]
    /\ UNCHANGED sent

PSPublish(e) ==
    /\ LET to == subs[<<e.server_id, e.type>>]
       IN sent' = sent \o [i \in 1 .. Len(to) |-> SendEvent(to[i], e)]
    /\ UNCHANGED subs

PSNext ==
    \/ \E k \in PSKey, c \in Clients : PSSubscribe(k, c)
    \/ PSDrop
    \/ \E e \in ServerEvent : PSPublish(e)

PSSpec == PSInit /\ [][PSNext]_psVars
=============================================================================
