----------------------------- MODULE CallOutcomes -----------------------------
(***************************************************************************)
(* What a call that changes something at a remote service promises to its  *)
(* caller: the service acts on it at most once; the caller is told "done"  *)
(* only of a call that was acted on, and "notDone" only of one that was    *)
(* not and never will be; otherwise the outcome is unknown to it, and the  *)
(* service may still act.                                                  *)
(***************************************************************************)
CONSTANT Call

VARIABLES
    acted,   \* the calls that the service has acted on
    told     \* what the caller of each call knows of its outcome

outcomeVars == <<acted, told>>

OutcomeInit ==
    /\ acted = {}
    /\ told = [c \in Call |-> "nothing"]

Act(c) ==
    /\ c \notin acted
    /\ told[c] \in {"nothing", "unknown"}
    /\ acted' = acted \cup {c}
    /\ UNCHANGED told

Tell(c, what) ==
    /\ told[c] = "nothing"
    /\ what = "done" => c \in acted
    /\ what = "notDone" => c \notin acted
    /\ told' = [told EXCEPT ![c] = what]
    /\ UNCHANGED acted

OutcomeNext ==
    \E c \in Call :
        \/ Act(c)
        \/ \E what \in {"done", "notDone", "unknown"} : Tell(c, what)

OutcomeSpec == OutcomeInit /\ [][OutcomeNext]_outcomeVars
===============================================================================
