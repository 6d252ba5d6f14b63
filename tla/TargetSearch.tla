----------------------------- MODULE TargetSearch -----------------------------
(***************************************************************************)
(* What a bounded search promises its callers: a run takes up one target    *)
(* of its scope after another, abandoning each before it takes the next and *)
(* never returning to it, and ends at a target, in failure, or because it   *)
(* was dropped.                                                             *)
(***************************************************************************)
CONSTANTS Targets, None

VARIABLES
  phase, target, abandoned,
  scope,   \* the targets the run may take
  run      \* which run this is: only a new run may forget what was abandoned

searchVars == <<phase, target, abandoned, scope, run>>

Pursuing == {"Active", "Reached"}
Ended == {"Stalled", "Failed"}

Init == phase = "Idle" /\ target = None /\ abandoned = {} /\ scope = {}

Begin(s) ==
  /\ scope' = s
  /\ abandoned' \in SUBSET s
  /\ \/ phase' \in Pursuing /\ target' \in s \ abandoned'
     \/ phase' \in Ended /\ target' = None

\* Within a run what is abandoned only grows.
Abandon == abandoned' \in SUBSET Targets /\ abandoned \subseteq abandoned'

TakeNext ==
  /\ Abandon
  /\ target \in abandoned' \cup {None}
  /\ phase' \in Pursuing
  /\ target' \in scope \ abandoned'
  /\ UNCHANGED scope

Arrive ==
  /\ phase = "Active" /\ phase' = "Reached"
  /\ UNCHANGED <<target, abandoned, scope>>

GiveUp ==
  /\ Abandon
  /\ phase' \in Ended \cup {phase}
  /\ target' \in {target, None}
  /\ phase' \in Pursuing => target' = target
  /\ UNCHANGED scope

Drop ==
  /\ phase' = "Idle" /\ target' = None /\ abandoned' = {}
  /\ scope' \in {scope, {}}

Step == \/ run' # run /\ scope' \in SUBSET Targets /\ Begin(scope')
        \/ run' = run /\ (TakeNext \/ Arrive \/ GiveUp \/ Drop)

Spec == Init /\ [][Step]_searchVars
=============================================================================
