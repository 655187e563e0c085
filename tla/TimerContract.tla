---------------------------- MODULE TimerContract ----------------------------
(***************************************************************************)
(* What a Timer promises its user, without threads, flags or time: the     *)
(* callback fires only while the timer is on, no operation takes effect    *)
(* while it fires, and a timer that is left on keeps firing.               *)
(***************************************************************************)
VARIABLES
    phase,    \* "off", "on" or "held" (paused)
    firing    \* the user callback is running

vars == <<phase, firing>>

Init == phase = "off" /\ firing = FALSE

Fire == phase = "on" /\ ~firing /\ firing' = TRUE /\ UNCHANGED phase

\* The last callback of a ONESHOT or REPEAT timer also turns it off.
FireEnds == firing /\ firing' = FALSE /\ phase' \in {"on", "off"}

TurnOn == ~firing /\ phase \in {"off", "held"} /\ phase' = "on" /\ UNCHANGED firing
Hold == ~firing /\ phase = "on" /\ phase' = "held" /\ UNCHANGED firing
TurnOff == ~firing /\ phase # "off" /\ phase' = "off" /\ UNCHANGED firing

Next == Fire \/ FireEnds \/ TurnOn \/ Hold \/ TurnOff

SafeSpec == Init /\ [][Next]_vars

\* A timer that stays on fires again, and a callback ends.
Spec == SafeSpec /\ WF_vars(Fire) /\ WF_vars(FireEnds)
=============================================================================
