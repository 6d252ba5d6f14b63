---------------------------- MODULE LookController ----------------------------
(***************************************************************************)
(* LookController (look/look_controller.rs): one camera, lent to explicit   *)
(* looks and to precise interaction aims.  A precise aim displaces the look *)
(* in progress and gives it back when it is released.                       *)
(*                                                                         *)
(* Angles, motion and randomization are abstracted to whether the camera    *)
(* has come to rest on the target; the priority of a look follows from its  *)
(* precision, and one task runs all calls, so no generation ever differs.   *)
(* Instant looks are never requested by the program.                        *)
(***************************************************************************)
CONSTANTS
  LookTargets,
  Tracked,     \* targets that move: a look at one never comes to rest
  None

VARIABLES
  lookState,
  lookTarget,
  precision,   \* kept when a look ends
  suspended    \* the explicit look a precise aim displaced

lookVars == <<lookState, lookTarget, precision, suspended>>

LookStates == {"Idle", "Looking", "Completed", "Failed"}

LookInit ==
  /\ lookState = "Idle"
  /\ lookTarget = None
  /\ precision = None
  /\ suspended = None

\* resolve_context: the block is no longer loaded or another one, the entity
\* or player is gone, or else there is a point to aim at, which may move.
Contexts(t) == {"Gone", IF t \in Tracked THEN "Moving" ELSE "Still"}

\* How a tick can leave a look at t.
Results(t) ==
  UNION {CASE context = "Gone"   -> {"Failed"}
           [] context = "Moving" -> {"Looking", "Failed"}
           [] context = "Still"  -> {"Looking", "Completed", "Failed"} : context \in Contexts(t)}

\* look_at_with_precision, its first tick included: "Failed" is Err to the caller.
LookAt(t, p, result) ==
  /\ result \in Results(t)
  /\ lookState' = result
  /\ lookTarget' = t
  /\ precision' = p
  /\ suspended' = IF p = "Precise" /\ precision # "Precise" /\ lookTarget # None
                    THEN lookTarget ELSE suspended

LookCancel ==
  /\ lookState' = "Idle"
  /\ lookTarget' = None
  /\ suspended' = None
  /\ UNCHANGED precision

\* release_precise: the displaced look comes back, or else any look ends.
Release ==
  IF suspended = None
    THEN LookCancel
    ELSE /\ lookState' \in Results(suspended)
         /\ lookTarget' = suspended
         /\ precision' = "Natural"
         /\ suspended' = None

\* tick: a completed precise aim is corrected for drift and never changes state.
LookTick ==
  /\ lookState = "Looking"
  /\ lookState' \in Results(lookTarget) \ {"Looking"}
  /\ UNCHANGED <<lookTarget, precision, suspended>>

\* keeps_ticking for a precise aim: the camera belongs to an interaction.
AimHeld == precision = "Precise" /\ lookState \in {"Looking", "Completed"}

\* interruptible_look
Interruptible == precision # "Precise" /\ lookState = "Looking"

LookTypeOK ==
  /\ lookState \in LookStates
  /\ lookTarget \in LookTargets \cup {None}
  /\ precision \in {"Natural", "Precise", None}
  /\ suspended \in LookTargets \cup {None}
=============================================================================
