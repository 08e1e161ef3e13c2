------------------------------ MODULE HeldGate ------------------------------
(***************************************************************************)
(* What every surface of the SDK promises: in enforce mode a tool call     *)
(* reaches the application only after the gateway allowed that very call,  *)
(* and nothing reaches it once the surface has returned or raised.  In     *)
(* observe mode everything may pass.                                       *)
(***************************************************************************)

CONSTANT AllCalls   \* the calls a provider may make

VARIABLES
    enforced,   \* whether the surface was set up in enforce mode
    granted,    \* calls the gateway allowed
    released,   \* calls the application has in hand
    stopped     \* the surface has returned or raised

gate == <<enforced, granted, released, stopped>>

Init ==
    /\ enforced \in BOOLEAN
    /\ granted = {} /\ released = {}
    /\ stopped = FALSE

\* The gateway decides at any time, on attempts the SDK has given up as well;
\* an error in handling the grant stops the surface.
Grant ==
    /\ granted' \in SUBSET AllCalls /\ granted \subseteq granted'
    /\ stopped' \in {stopped, TRUE}
    /\ UNCHANGED <<enforced, released>>

\* A surface that returns releases with its last step.
Release ==
    /\ ~stopped
    /\ released' \in SUBSET (IF enforced THEN granted ELSE AllCalls)
    /\ stopped' \in BOOLEAN
    /\ UNCHANGED <<enforced, granted>>

\* The application is done with what it has in hand: a call that is made again
\* needs another grant.
Reset ==
    /\ released' = {} /\ granted' \in SUBSET granted
    /\ stopped' \in {stopped, TRUE}
    /\ UNCHANGED enforced

Stop == stopped' = TRUE /\ UNCHANGED <<enforced, granted, released>>

Next == Grant \/ Release \/ Reset \/ Stop

Spec == Init /\ [][Next]_gate
=============================================================================
