------------------------------ MODULE Timelock ------------------------------
(***************************************************************************)
(* What every timelock of this system promises: an operation takes effect   *)
(* only if it was announced, only when one of the documented delays has     *)
(* passed since its last announcement, and once for each announcement.      *)
(***************************************************************************)
EXTENDS Naturals

CONSTANTS Operations, Delays, StartTime

VARIABLES
    due,        \* operation -> when it may take effect, 0 if not announced
    effects,    \* operation -> how often it took effect
    now

vars == <<due, effects, now>>

Init ==
    /\ due = [o \in Operations |-> 0]
    /\ effects = [o \in Operations |-> 0]
    /\ now = StartTime

(* A new announcement of the same operation starts its delay again.         *)
Announce(o) ==
    /\ \E d \in Delays : due' = [due EXCEPT ![o] = now + d]
    /\ UNCHANGED <<effects, now>>

Withdraw(o) ==
    /\ due' = [due EXCEPT ![o] = 0]
    /\ UNCHANGED <<effects, now>>

TakeEffect(o) ==
    /\ due[o] # 0
    /\ now >= due[o]
    /\ due' = [due EXCEPT ![o] = 0]
    /\ effects' = [effects EXCEPT ![o] = @ + 1]
    /\ UNCHANGED now

Tick == now' = now + 1 /\ UNCHANGED <<due, effects>>

Next ==
    \/ \E o \in Operations : Announce(o) \/ Withdraw(o) \/ TakeEffect(o)
    \/ Tick

Spec == Init /\ [][Next]_vars
=============================================================================
