------------------------------ MODULE Movement ------------------------------
(***************************************************************************)
(* The movement service (movement/movement_service.rs) and what it asks of  *)
(* the client's own pathfinder.  One goal at a time: a place to reach, or a *)
(* player to stay near.  The client walks on its own between ticks.         *)
(*                                                                         *)
(* Places are points of a line; the arrival distance of the service and the *)
(* radius of the client's goal are below the line's unit.  Navigation       *)
(* modes, local input, logging and the published copy are left out.         *)
(***************************************************************************)
EXTENDS Integers

CONSTANTS
  LineEnd,         \* the last place
  FollowDistance,
  None

ASSUME MovementAssumption ==
  /\ LineEnd \in Nat \ {0}
  /\ FollowDistance \in Nat
  /\ None \notin 0 .. LineEnd

VARIABLES
  bot,       \* where the bot stands
  online,    \* the client is connected and has a position
  status,    \* MovementSnapshot.status
  goal,      \* MovementSnapshot.destination
  route      \* the goal of the client's pathfinder, None when it is stopped

movementVars == <<bot, online, status, goal, route>>

Places == 0 .. LineEnd

Statuses == {"Idle", "MovingToPosition", "FollowingPlayer", "Completed", "Failed", "Cancelled"}

Moving == status \in {"MovingToPosition", "FollowingPlayer"}

Gap(a, b) == IF a < b THEN b - a ELSE a - b

MovementTypeOK ==
  /\ bot \in Places
  /\ online \in BOOLEAN
  /\ status \in Statuses
  /\ goal \in Places \cup {None}
  /\ route \in Places \cup {None}

MovementInit ==
  /\ bot = 0
  /\ online = TRUE
  /\ status = "Idle"
  /\ goal = None
  /\ route = None

\* goto_internal: start_navigation_to comes before the snapshot is replaced.
Goto(place) ==
  /\ online
  /\ status' = "MovingToPosition"
  /\ goal' = place
  /\ route' = place

\* stop: the client stops even when the service has nothing to stop, and a
\* failure stays recorded.
Stop ==
  /\ route' = None
  /\ status' = CASE status = "FollowingPlayer" -> "Idle"
                 [] status = "MovingToPosition" -> "Cancelled"
                 [] OTHER -> status
  /\ UNCHANGED goal

Follow(place) ==
  /\ online
  /\ status' = "FollowingPlayer"
  /\ goal' = place
  /\ route' = place
  /\ UNCHANGED <<bot, online>>

\* tick_goto: arrival first, then refresh_navigation_goal.  A route being
\* calculated or walked is never resubmitted; a stopped one is, once the
\* repath interval is over.
TickGoto ==
  /\ status = "MovingToPosition"
  /\ \/ /\ bot = goal
        /\ status' = "Completed"
        /\ route' = None
     \/ /\ bot # goal /\ ~online
        /\ status' = "Failed"
        /\ UNCHANGED route
     \/ /\ bot # goal /\ online /\ route = None
        /\ route' = goal
        /\ UNCHANGED status
  /\ UNCHANGED <<bot, online, goal>>

\* tick_follow, with the player at `place` now, or out of sight.
TickFollow(place) ==
  /\ status = "FollowingPlayer"
  /\ \/ /\ place = None
        /\ status' = "Idle"
        /\ route' = None
        /\ UNCHANGED goal
     \/ /\ place # None
        /\ goal' = place
        /\ \/ /\ Gap(bot, place) <= FollowDistance
              /\ route' = None
              /\ UNCHANGED status
           \/ /\ Gap(bot, place) > FollowDistance /\ ~online
              /\ status' = "Failed"
              /\ UNCHANGED route
           \/ /\ Gap(bot, place) > FollowDistance /\ online
              /\ place # goal \/ route = None
              /\ route' = place
              /\ UNCHANGED status
  /\ UNCHANGED <<bot, online>>

\* The client walks a step along its route; at the end the route is gone.
Walk ==
  /\ online
  /\ route # None
  /\ \/ /\ bot # route
        /\ bot' = IF bot < route THEN bot + 1 ELSE bot - 1
        /\ UNCHANGED route
     \/ /\ bot = route
        /\ route' = None
        /\ UNCHANGED bot
  /\ UNCHANGED <<online, status, goal>>

\* A lost connection takes the client's route with it.
Disconnect ==
  /\ online
  /\ online' = FALSE
  /\ route' = None
  /\ UNCHANGED <<bot, status, goal>>

Reconnect ==
  /\ ~online
  /\ online' = TRUE
  /\ UNCHANGED <<bot, status, goal, route>>
=============================================================================
