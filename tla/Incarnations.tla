---------------------------- MODULE Incarnations ----------------------------
(***************************************************************************)
(* What a machine promises its callers, whatever is done to it: they see a *)
(* sequence of incarnations.  At most one answers at a time.  The one that *)
(* serves may fall silent and be heard again; once it is retired it never  *)
(* answers again.  Nothing is built while another serves, and a call is    *)
(* run to its end by the incarnation that took it.  Module Machine is      *)
(* shown to implement this.                                                *)
(***************************************************************************)
EXTENDS Integers

CONSTANT Slots          \* the places in which a call can be running

VARIABLES
    answering,          \* the incarnation a caller that calls now is answered by, 0 for none
    newest,             \* the incarnation last built, or begun
    state,              \* whether the newest serves, is built and not yet heard, or retired
    on                  \* the incarnation each call is running on, 0 for no call

Init == answering = 1 /\ newest = 1 /\ state = "serving" /\ on = [s \in Slots |-> 0]

\* The machine is given up for dead, ...
Mute ==
    /\ answering # 0
    /\ answering' = 0
    /\ UNCHANGED <<newest, state, on>>

\* ... and for alive again, while it still serves.
Speak ==
    /\ answering = 0 /\ state = "serving"
    /\ answering' = newest
    /\ UNCHANGED <<newest, state, on>>

Retire ==
    /\ state = "serving"
    /\ answering' = 0 /\ state' = "retired"
    /\ UNCHANGED <<newest, on>>

\* The next one is built, or the attempt at it fails.
Build ==
    /\ state = "retired"
    /\ newest' = newest + 1 /\ state' \in {"built", "retired"}
    /\ UNCHANGED <<answering, on>>

\* It serves, though perhaps it was given up meanwhile.
Rise ==
    /\ state = "built"
    /\ answering' \in {0, newest} /\ state' = "serving"
    /\ UNCHANGED <<newest, on>>

\* It was built, and could not be brought to serve.
Scrap ==
    /\ state = "built"
    /\ state' = "retired"
    /\ UNCHANGED <<answering, newest, on>>

\* A call arrives at the one that serves: perhaps it was on its way when that one was
\* given up.
Call(s) ==
    /\ state = "serving" /\ on[s] = 0
    /\ on' = [on EXCEPT ![s] = newest]
    /\ UNCHANGED <<answering, newest, state>>

Answered(s) ==
    /\ on[s] # 0
    /\ on' = [on EXCEPT ![s] = 0]
    /\ UNCHANGED <<answering, newest, state>>

Next == \/ Mute \/ Speak \/ Retire \/ Build \/ Rise \/ Scrap
        \/ \E s \in Slots : Call(s) \/ Answered(s)

Spec == Init /\ [][Next]_<<answering, newest, state, on>>
=============================================================================
