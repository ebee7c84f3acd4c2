---------------------------- MODULE Supervision ----------------------------
(***************************************************************************)
(* The supervision of the server (module Supervisor), under names that can *)
(* stand beside those of another part of the program.                      *)
(***************************************************************************)
CONSTANTS MaxInstances, Ends, MaxSignals, Terminal, SignalAt

VARIABLES sup, instance, shouldRun, child, reaped, pending, sent, killed

Sup == INSTANCE Supervisor

supervision == <<sup, instance, shouldRun, child, reaped, pending, sent, killed>>

-----------------------------------------------------------------------------
(* Properties of the supervision: see Supervisor *)

\* One server at most, waited for only until it is collected, and outlived.
OneInstance == Sup!OneInstance

\* A server that has ended is replaced.
Restarted == Sup!Restarted

\* A signal passed on to a server that is serving ends both processes.
ServingStops == Sup!ServingStops

=============================================================================
