--------------------------- MODULE LifecycleLedger ---------------------------
(***************************************************************************)
(* What the lifecycle store promises to everybody who reads it: one        *)
(* invocation at a time changes it; during its work an invocation may only *)
(* note single components as stopped; what it brought up is noted all at   *)
(* once, as its last act, or not at all.                                   *)
(***************************************************************************)
CONSTANTS Components, Controllers, NoController

VARIABLES holder,   \* the invocation in charge
          phase,    \* free, working, settled (nothing more will be noted)
          desired   \* component -> none, running, stopped

vars == <<holder, phase, desired>>

Init ==
    /\ holder = NoController
    /\ phase = "free"
    /\ desired = [c \in Components |-> "none"]

Take(k) ==
    /\ phase = "free"
    /\ holder' = k
    /\ phase' = "working"
    /\ UNCHANGED desired

NoteStopped(c) ==
    /\ phase = "working"
    /\ desired' = [desired EXCEPT ![c] = "stopped"]
    /\ UNCHANGED <<holder, phase>>

\* Settling with S = {} is what a failed or aborted invocation does.
Settle(S) ==
    /\ phase = "working"
    /\ phase' = "settled"
    /\ desired' = [c \in Components |-> IF c \in S THEN "running" ELSE desired[c]]
    /\ UNCHANGED holder

\* The invocation ends, or its process dies at any point of its work.
Leave ==
    /\ phase # "free"
    /\ holder' = NoController
    /\ phase' = "free"
    /\ UNCHANGED desired

Next ==
    \/ \E k \in Controllers : Take(k)
    \/ \E c \in Components : NoteStopped(c)
    \/ \E S \in SUBSET Components : Settle(S)
    \/ Leave

Spec == Init /\ [][Next]_vars
=============================================================================
