------------------------------- MODULE Queues -------------------------------
(***************************************************************************)
(* The two mpsc channels that main creates (src/bin/mcmand.rs) and through *)
(* which every thread of the daemon speaks to the event manager and to the *)
(* daemon thread.  Both are unbounded and keep the order of the sends.     *)
(***************************************************************************)
EXTENDS Ipc

VARIABLES
    eventQueue,     \* commands sent to the event manager, not yet received
    queue           \* DaemonEvents sent to the daemon thread, not yet received
=============================================================================
