------------------------------ MODULE StreamApi ------------------------------
(***************************************************************************)
(* What start_stream and subscribe_* promise their caller, with neither    *)
(* threads nor flags: start_stream completes after the connection opened,  *)
(* subscribe_* completes after the venue confirmed it, and a confirmation  *)
(* answers one call.                                                       *)
(***************************************************************************)
EXTENDS Naturals

VARIABLES connected, started, granted, completed

vars == <<connected, started, granted, completed>>

Init == ~connected /\ ~started /\ granted = 0 /\ completed = 0

Connect ==
  /\ ~connected
  /\ connected' = TRUE
  /\ UNCHANGED <<started, granted, completed>>

Start ==
  /\ connected /\ ~started
  /\ started' = TRUE
  /\ UNCHANGED <<connected, granted, completed>>

\* A confirmation arrives for the one call that is waiting for it.
Grant ==
  /\ started /\ granted = completed
  /\ granted' = granted + 1
  /\ UNCHANGED <<connected, started, completed>>

Complete ==
  /\ completed < granted
  /\ completed' = completed + 1
  /\ UNCHANGED <<connected, started, granted>>

Next == Connect \/ Start \/ Grant \/ Complete

Spec == Init /\ [][Next]_vars
=============================================================================
