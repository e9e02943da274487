-------------------------- MODULE BreakerContract --------------------------
(***************************************************************************)
(* What a circuit breaker promises its callers, without saying how it      *)
(* counts: the gate is closed, open or half open; an open gate lets nobody *)
(* in before RecoveryTimeout ticks have passed, and a half-open one lets   *)
(* at most HalfOpenMaxCalls callers in until it is decided.  When the gate *)
(* trips and when it closes is left to the implementation.                 *)
(***************************************************************************)
EXTENDS Naturals

CONSTANTS Callers, RecoveryTimeout, HalfOpenMaxCalls

VARIABLES
  gate,    \* "closed", "open" or "half_open"
  waited,  \* ticks since the gate opened, 0 unless it is open
  used,    \* callers let in since the gate became half open, 0 unless it is
  inside   \* callers let in that have not left

contractVars == <<gate, waited, used, inside>>

Init == gate = "closed" /\ waited = 0 /\ used = 0 /\ inside = {}

\* The gate moves to another state, where nothing has been waited for or used.
Move(new) == gate' = new /\ waited' = 0 /\ used' = 0

\* A verdict on the calls that have been made.
Verdict ==
  \/ gate # "open" /\ Move("open")
  \/ gate = "half_open" /\ Move("closed")

Wait ==
  /\ gate = "open" /\ waited < RecoveryTimeout
  /\ waited' = waited + 1
  /\ UNCHANGED <<gate, used, inside>>

\* An open gate may be tried again.
Retry ==
  /\ gate = "open" /\ waited = RecoveryTimeout
  /\ Move("half_open")
  /\ UNCHANGED inside

Enter(c) ==
  /\ c \notin inside
  /\ inside' = inside \union {c}
  /\ \/ gate = "closed" /\ UNCHANGED <<gate, waited, used>>
     \/ /\ gate = "half_open" /\ used < HalfOpenMaxCalls
        /\ used' = used + 1
        /\ UNCHANGED <<gate, waited>>
     \/ /\ gate = "open" /\ waited = RecoveryTimeout
        /\ gate' = "half_open" /\ waited' = 0 /\ used' = 1

Leave(c) ==
  /\ c \in inside
  /\ inside' = inside \ {c}
  /\ Verdict \/ UNCHANGED <<gate, waited, used>>

\* A verdict from outside, or the gate closed by hand.
Decide == (Verdict \/ Move("closed")) /\ UNCHANGED inside

Next ==
  \/ Wait
  \/ Retry
  \/ Decide
  \/ \E c \in Callers : Enter(c) \/ Leave(c)

Spec == Init /\ [][Next]_contractVars
=============================================================================
