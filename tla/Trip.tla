-------------------------------- MODULE Trip --------------------------------
(***************************************************************************)
(* A long /goto: pathfinding/controller.rs with its segment plan, its one   *)
(* background search, the follower of a segment and the movement service    *)
(* the follower drives, under the waits of app.rs.                          *)
(*                                                                         *)
(* A block-level route over the line is its first and its last place.       *)
(* Clocks are choices: a stuck timer, a stalled trip and a due revalidation *)
(* may happen whenever the code looks at them, at the price of one unit of  *)
(* `faults`; MaxFaults bounds them.  Costs, actions, debug counters and the *)
(* chunk cache are left out: with it the coarse route only bends.           *)
(***************************************************************************)
EXTENDS Movement, Sequences, SequencesExt

CONSTANTS
  SegmentLength,
  ArrivalRadius,     \* of the destination
  SegmentRadius,     \* of a waypoint, and of a search's goal
  Tolerance,         \* how far off its waypoints the bot may be
  MaxReplans,        \* max_consecutive_replans
  MaxFaults,         \* bound on what goes wrong
  MaxTrips,          \* bound on the trips asked for
  Destinations,      \* where trips may lead
  Spots              \* where something else may happen

ASSUME TripAssumption ==
  /\ {SegmentLength, MaxReplans, MaxTrips} \subseteq Nat \ {0}
  /\ {ArrivalRadius, SegmentRadius, Tolerance, MaxFaults} \subseteq Nat
  /\ Destinations \cup Spots \subseteq Places

VARIABLES
  trip,      \* the controller's Inner
  faults,    \* how often something went wrong
  trips      \* trips started

tripVars == <<trip, faults, trips>>
vars == <<movementVars, tripVars>>

NavigationStates ==
  {"Idle", "Planning", "FollowingSegment", "Recalculating", "Arrived", "Failed", "Cancelled"}
ActiveStates == {"Planning", "FollowingSegment", "Recalculating"}

Active == trip.state \in ActiveStates

-----------------------------------------------------------------------------
(* Segments and the plan.                                                   *)

\* PathSegment: waypoints is empty until a search has run.
Segment(from, to) ==
  [start |-> from, end |-> to, waypoints |-> <<>>, partial |-> FALSE, state |-> "Planned"]

Calculated(segment) == segment.state \in {"Calculated", "Active"}

Invalid(segment) ==
  [segment EXCEPT !.waypoints = <<>>, !.partial = FALSE, !.state = "Invalidated"]

PassesNear(segment, place, radius) ==
  \E p \in {segment.start, segment.end} \cup Range(segment.waypoints) : Gap(p, place) <= radius

\* route::plan and waypoints_along: a boundary every SegmentLength, the last
\* one dropped when the destination is close behind it, then the destination.
Waypoints(from, to) ==
  LET n == Gap(from, to) \div SegmentLength
      sign == IF from < to THEN 1 ELSE -1
      cut == [k \in 1 .. n |-> from + sign * k * SegmentLength]
      kept == IF n > 0 /\ 2 * Gap(cut[n], to) < SegmentLength THEN n - 1 ELSE n
  IN  Append(SubSeq(cut, 1, kept), to)

\* from_waypoints
PlanFrom(from, waypoints) ==
  [i \in 1 .. Len(waypoints) |->
     Segment(IF i = 1 THEN from ELSE waypoints[i - 1], waypoints[i])]

\* The plan's cursor counts from zero, current_number from one.
CurrentNumber(t) == IF t.current + 1 <= Len(t.plan) THEN t.current + 1 ELSE Len(t.plan)
Finished(t) == t.current >= Len(t.plan)
Current(t) == t.plan[t.current + 1]

\* replace_tail, keeping the first `walked` segments.
ReplaceTail(t, walked, from, waypoints) ==
  LET plan == SubSeq(t.plan, 1, walked) \o PlanFrom(from, waypoints)
  IN  [t EXCEPT !.plan = plan,
                !.current = IF t.current <= Len(plan) THEN t.current ELSE Len(plan)]

\* SegmentPlan::advance.  Where a completed segment led is never read again, and
\* of those before the last not even how many there are: they are cut off.
Walked == [Segment(0, 0) EXCEPT !.state = "Completed"]
Advanced(t) ==
  LET cut == t.current
  IN  [t EXCEPT !.plan = <<Walked>> \o SubSeq(t.plan, t.current + 2, Len(t.plan)),
                !.current = 1,
                !.search = IF t.search = None THEN None
                             ELSE [t.search EXCEPT !.index = @ - cut]]

InvalidateFromCurrent(t) ==
  [t EXCEPT !.plan = [i \in DOMAIN t.plan |->
                        IF i > t.current THEN Invalid(t.plan[i]) ELSE t.plan[i]]]

InvalidateNear(t, place, radius) ==
  [t EXCEPT !.plan = [i \in DOMAIN t.plan |->
                        IF i > t.current /\ PassesNear(t.plan[i], place, radius)
                          THEN Invalid(t.plan[i]) ELSE t.plan[i]]]

-----------------------------------------------------------------------------
(* The controller's helpers, each a step of Inner.                          *)

\* (Mutant: a new segment, the old submission.)
SameFollower(t) == [t EXCEPT !.waypoint = 1]

\* SegmentFollower::new
NewFollower(t) == [t EXCEPT !.waypoint = 1, !.submitted = FALSE]

EnterRecalculating(t) == NewFollower([t EXCEPT !.state = "Recalculating"])

\* (Mutant: a failure that leaves the search running.)
FailAlone(t, why) == [t EXCEPT !.state = "Failed", !.failure = why]

\* fail: the search is cancelled, the movement is not.
Fail(t, why) == [t EXCEPT !.state = "Failed", !.failure = why, !.search = None]

\* rebuild_plan_from_here
Rebuild(t) ==
  LET walked == IF t.plan = <<>> THEN 0 ELSE CurrentNumber(t) - 1
  IN  EnterRecalculating(ReplaceTail(t, walked, bot, Waypoints(bot, t.destination)))

\* search_target: the index of the segment to search for, 0 for none.
SearchTarget(t, prefetch) ==
  LET number == CurrentNumber(t)
      index == (IF number = 0 THEN 1 ELSE number) + (IF prefetch THEN 1 ELSE 0)
  IN  IF index \in DOMAIN t.plan /\ ~Calculated(t.plan[index]) THEN index ELSE 0

\* What a search can answer: the first place within the radius of its goal,
\* any place nearer to the goal, or nothing at all.
Answers(search) ==
  LET toward == IF search.from < search.to
                  THEN search.to - SegmentRadius ELSE search.to + SegmentRadius
      reached == IF Gap(search.from, search.to) <= SegmentRadius THEN search.from ELSE toward
  IN  { [outcome |-> "Complete", last |-> reached],
        [outcome |-> "Unreachable", last |-> search.from] }
      \cup { [outcome |-> "Partial", last |-> p] :
               p \in {q \in Places : /\ Gap(q, search.to) < Gap(search.from, search.to)
                                     /\ Gap(q, search.to) > SegmentRadius} }

\* A route of no length is no better than none.
Usable(search) ==
  search.result.outcome \in {"Complete", "Partial"} /\ search.result.last # search.from

Answered(t) == t.search # None /\ t.search.result # None

\* apply_path
ApplyPath(segment, search) ==
  [segment EXCEPT !.waypoints = <<search.from, search.result.last>>,
                  !.end = search.result.last,
                  !.partial = search.result.outcome # "Complete",
                  !.state = "Calculated"]

\* (Mutant: failures are not counted.)
ApplyUncounted(t) ==
  LET search == t.search
      idle == [t EXCEPT !.search = None]
      applied == [idle EXCEPT !.plan[search.index] = ApplyPath(@, search), !.failed = 0]
  IN  CASE ~Usable(search) -> Rebuild(idle)
        [] Usable(search) /\ search.index \notin DOMAIN t.plan -> idle
        [] OTHER -> IF CurrentNumber(t) = search.index
                      THEN NewFollower([applied EXCEPT !.state = "FollowingSegment"])
                      ELSE applied

\* (Mutant: one replan too many.)
ApplyOnceMore(t) ==
  LET search == t.search
      idle == [t EXCEPT !.search = None]
      worse == [idle EXCEPT !.failed = t.failed + 1]
      applied == [idle EXCEPT !.plan[search.index] = ApplyPath(@, search), !.failed = 0]
  IN  CASE ~Usable(search) /\ t.failed > MaxReplans -> Fail(worse, "NoRoute")
        [] ~Usable(search) /\ t.failed <= MaxReplans -> Rebuild(worse)
        [] Usable(search) /\ search.index \notin DOMAIN t.plan -> idle
        [] OTHER -> IF CurrentNumber(t) = search.index
                      THEN NewFollower([applied EXCEPT !.state = "FollowingSegment"])
                      ELSE applied

\* apply_finished_search
ApplyFinished(t) ==
  LET search == t.search
      idle == [t EXCEPT !.search = None]
      worse == [idle EXCEPT !.failed = t.failed + 1]
      applied == [idle EXCEPT !.plan[search.index] = ApplyPath(@, search), !.failed = 0]
  IN  CASE ~Usable(search) /\ t.failed >= MaxReplans -> Fail(worse, "NoRoute")
        [] ~Usable(search) /\ t.failed < MaxReplans  -> Rebuild(worse)
        [] Usable(search) /\ search.index \notin DOMAIN t.plan -> idle
        [] OTHER -> IF CurrentNumber(t) = search.index
                      THEN NewFollower([applied EXCEPT !.state = "FollowingSegment"])
                      ELSE applied

Ask(t, index, prefetch) ==
  [index |-> index, from |-> IF prefetch THEN t.plan[index].start ELSE bot,
   to |-> t.plan[index].end, result |-> None]

\* drive_search; `sample` is what the terrain around the bot looks like.
Drive(t, prefetch, sample) ==
  LET index == SearchTarget(t, prefetch)
      started == [t EXCEPT !.search = Ask(t, index, prefetch)]
      worse == [t EXCEPT !.failed = t.failed + 1]
  IN  CASE Answered(t) -> ApplyFinished(t)
        [] ~Answered(t) /\ (t.search # None \/ index = 0) -> t
        [] OTHER ->
             CASE sample = "terrain" ->
                    IF ~prefetch /\ t.state = "FollowingSegment"
                      THEN [started EXCEPT !.state = "Recalculating"] ELSE started
               [] sample = "nothing" /\ ~prefetch ->
                    IF t.failed >= MaxReplans THEN Fail(worse, "NoWorldData") ELSE worse
               [] sample = "error" /\ ~prefetch -> Fail(t, "Movement")
               [] OTHER -> t

-----------------------------------------------------------------------------
(* Commands, and what happens to the trip from outside.                     *)

NoTrip ==
  [state |-> "Idle", destination |-> None, plan |-> <<>>, current |-> 0, search |-> None,
   failed |-> 0, waypoint |-> 1, submitted |-> FALSE, failure |-> None]

Init ==
  /\ MovementInit
  /\ trip = NoTrip
  /\ faults = 0
  /\ trips = 0

Fault ==
  /\ faults < MaxFaults
  /\ faults' = faults + 1

\* start: whatever was under way is dropped, the movement is left alone.
Start(place) ==
  /\ trips < MaxTrips
  /\ online
  /\ trip' = [NoTrip EXCEPT !.state = "Planning", !.destination = place]
  /\ trips' = trips + 1
  /\ UNCHANGED <<movementVars, faults>>

Cancel ==
  /\ Active
  /\ Stop
  /\ trip' = NewFollower([trip EXCEPT !.state = "Cancelled", !.failure = None,
                                      !.plan = <<>>, !.current = 0, !.search = None])
  /\ UNCHANGED <<bot, online, faults, trips>>

\* notify_world_change
WorldChange(place) ==
  /\ Active
  /\ Fault
  /\ LET t == InvalidateNear(trip, place, 1)
     IN  trip' = IF t.state = "FollowingSegment" /\ ~Finished(t) /\ ~Calculated(Current(t))
                   THEN EnterRecalculating(t) ELSE t
  /\ UNCHANGED <<movementVars, trips>>

\* The blocking thread finishes; a panic is a search that never was.
SearchAnswers(answer) ==
  /\ trip.search # None
  /\ trip.search.result = None
  /\ trip' = [trip EXCEPT !.search.result = answer]
  /\ UNCHANGED <<movementVars, faults, trips>>

SearchPanics ==
  /\ trip.search # None
  /\ trip.search.result = None
  /\ Fault
  /\ trip' = [trip EXCEPT !.search = None]
  /\ UNCHANGED <<movementVars, trips>>

\* A fall, a knock, a teleport.
Displaced(place) ==
  /\ Active
  /\ Fault
  /\ bot' = place
  /\ UNCHANGED <<online, status, goal, route, trip, trips>>

ConnectionLost == Disconnect /\ Fault /\ UNCHANGED <<trip, trips>>
ConnectionBack == Reconnect /\ UNCHANGED tripVars

-----------------------------------------------------------------------------
(* tick: arrival is looked for in every active state.                       *)

Ticks == Active /\ online
ArrivedAt == Gap(bot, trip.destination) <= ArrivalRadius

Samples == {"terrain", "nothing", "error"}
FaultySample(sample) == IF sample = "terrain" THEN UNCHANGED faults ELSE Fault

\* (Mutant: arrival as reported by the follower, which stops nothing.)
ArriveWalking ==
  /\ Ticks /\ ArrivedAt
  /\ trip' = [trip EXCEPT !.state = "Arrived", !.search = None]
  /\ UNCHANGED <<movementVars, faults, trips>>

CheckArrival ==
  /\ Ticks /\ ArrivedAt
  /\ Stop
  /\ trip' = [trip EXCEPT !.state = "Arrived", !.search = None]
  /\ UNCHANGED <<bot, online, faults, trips>>

TickPlanning(sample) ==
  /\ Ticks /\ ~ArrivedAt
  /\ trip.state = "Planning"
  /\ LET planned == IF trip.plan = <<>>
                      THEN [trip EXCEPT !.plan = PlanFrom(bot, Waypoints(bot, trip.destination))]
                      ELSE trip
     IN  trip' = Drive(planned, FALSE, sample)
  /\ FaultySample(sample)
  /\ UNCHANGED <<movementVars, trips>>

TickRecalculating(sample) ==
  /\ Ticks /\ ~ArrivedAt
  /\ trip.state = "Recalculating"
  /\ LET t == Drive(trip, FALSE, sample)
     IN  trip' = IF t.search # None \/ t.state # "Recalculating" THEN t
                 ELSE IF Finished(t) THEN Rebuild(t)
                 ELSE IF Calculated(Current(t))
                        THEN NewFollower([t EXCEPT !.state = "FollowingSegment"])
                 ELSE t
  /\ FaultySample(sample)
  /\ UNCHANGED <<movementVars, trips>>

Follows == Ticks /\ ~ArrivedAt /\ trip.state = "FollowingSegment"

\* The head of tick_following: the segment under the cursor becomes active.
Entered ==
  IF ~Finished(trip) /\ Current(trip).state = "Calculated"
    THEN [trip EXCEPT !.plan[trip.current + 1].state = "Active"] ELSE trip

\* Every segment walked, but not arrived: the plan is extended from here.
FollowNothing ==
  /\ Follows
  /\ Finished(trip)
  /\ trip' = Rebuild(trip)
  /\ UNCHANGED <<movementVars, faults, trips>>

\* The segment under the cursor has its route: the branch of tick_following for one
\* that has none is never taken (FollowsItsRoute), because whatever takes a route
\* away enters Recalculating in the same step.
OnSegment == Follows /\ ~Finished(trip)

\* displaced_from: the nearest waypoint counts.
OffRoute == \A p \in Range(Current(trip).waypoints) : Gap(p, bot) > Tolerance

FollowOffRoute(sample) ==
  /\ OnSegment
  /\ OffRoute
  /\ trip' = Drive(EnterRecalculating(InvalidateFromCurrent(Entered)), FALSE, sample)
  /\ FaultySample(sample)
  /\ UNCHANGED <<movementVars, trips>>

Walks == OnSegment /\ ~OffRoute
Aim == Current(trip).waypoints[trip.waypoint]
AtAim == Gap(bot, Aim) <= SegmentRadius

\* A revalidation finds the route gone, or the follower is stuck: the current
\* segment alone is thrown away (invalidate_current_and_recalculate).
FollowBlocked(sample) ==
  /\ Walks
  /\ Fault
  /\ sample = "terrain"
  /\ trip' = Drive(EnterRecalculating([Entered EXCEPT !.plan[trip.current + 1] = Invalid(@)]),
                   FALSE, sample)
  /\ UNCHANGED <<movementVars, trips>>

\* maybe_prefetch, and track_progress giving the trip up.
Prefetched(t, sample) ==
  LET segment == Current(t)
      length == Gap(segment.start, segment.end)
  IN  IF /\ 5 * Gap(bot, segment.end) <= 2 * (IF length = 0 THEN 1 ELSE length)
         /\ t.search = None
         /\ SearchTarget(t, TRUE) # 0
        THEN Drive(t, TRUE, sample) ELSE t

Walking(t, sample) ==
  \/ /\ trip' = Prefetched(t, sample)
     /\ FaultySample(sample)
  \/ /\ sample = "terrain"
     /\ Fault
     /\ trip' = Fail(Prefetched(t, sample), "Stuck")

FollowNextWaypoint(sample) ==
  /\ Walks /\ AtAim
  /\ trip.waypoint < Len(Current(trip).waypoints)
  /\ Walking([Entered EXCEPT !.waypoint = trip.waypoint + 1, !.submitted = FALSE], sample)
  /\ UNCHANGED <<movementVars, trips>>

FollowMovementFailed ==
  /\ Walks /\ ~AtAim
  /\ status = "Failed"
  /\ trip' = Fail(Entered, "Movement")
  /\ UNCHANGED <<movementVars, faults, trips>>

FollowSubmit(sample) ==
  /\ Walks /\ ~AtAim
  /\ status # "Failed"
  /\ ~trip.submitted \/ ~Moving
  /\ Goto(Aim)
  /\ Walking([Entered EXCEPT !.submitted = TRUE], sample)
  /\ UNCHANGED <<bot, online, trips>>

FollowWalk(sample) ==
  /\ Walks /\ ~AtAim
  /\ trip.submitted /\ Moving
  /\ Walking(Entered, sample)
  /\ UNCHANGED <<movementVars, trips>>

\* complete_segment
CompleteSegment(sample) ==
  /\ Walks /\ AtAim
  /\ trip.waypoint = Len(Current(trip).waypoints)
  /\ LET t == NewFollower(Advanced([Entered EXCEPT !.failed = 0]))
     IN  trip' = CASE Current(trip).partial \/ Finished(t) -> Rebuild(t)
                   [] ~(Current(trip).partial \/ Finished(t)) /\ ~Calculated(Current(t)) ->
                        Drive(EnterRecalculating(t), FALSE, sample)
                   [] OTHER -> t
  /\ FaultySample(sample)
  /\ UNCHANGED <<movementVars, trips>>

Tick(sample) ==
  \/ TickPlanning(sample) \/ TickRecalculating(sample)
  \/ FollowOffRoute(sample) \/ FollowBlocked(sample)
  \/ FollowNextWaypoint(sample) \/ FollowSubmit(sample) \/ FollowWalk(sample)
  \/ CompleteSegment(sample)

PathfindingTick ==
  CheckArrival \/ FollowNothing \/ FollowMovementFailed \/ \E sample \in Samples : Tick(sample)

\* What else runs under the wait, and the commands between two trips.
MovementTick == (TickGoto \/ \E p \in Spots \cup {None} : TickFollow(p)) /\ UNCHANGED tripVars
ClientWalks == Walk /\ UNCHANGED tripVars
FollowPlayer(place) == trip.state = "Idle" /\ Follow(place) /\ UNCHANGED tripVars
SearchFinishes ==
  /\ trip.search # None
  /\ \E answer \in Answers(trip.search) : SearchAnswers(answer)

Next ==
  \/ \E p \in Destinations : Start(p)
  \/ \E p \in Spots : FollowPlayer(p) \/ WorldChange(p) \/ Displaced(p)
  \/ Cancel
  \/ SearchFinishes \/ SearchPanics
  \/ ConnectionLost \/ ConnectionBack
  \/ PathfindingTick \/ MovementTick \/ ClientWalks

Spec == Init /\ [][Next]_vars

\* The loop keeps ticking, a search has a budget and the client keeps walking.
FairSpec ==
  /\ Spec
  /\ WF_vars(PathfindingTick) /\ WF_vars(MovementTick) /\ WF_vars(ClientWalks)
  /\ WF_vars(SearchFinishes) /\ WF_vars(ConnectionBack)

-----------------------------------------------------------------------------
(* Properties.                                                              *)

Segments ==
  [start: Places, end: Places, waypoints: {<<>>} \cup (Places \X Places), partial: BOOLEAN,
   state: {"Planned", "Calculated", "Active", "Completed", "Invalidated"}]

\* The snapshot, the plan, the search and the follower keep their shapes, and
\* the cursor stays within the plan.
TypeOK ==
  /\ MovementTypeOK
  /\ trip.state \in NavigationStates
  /\ trip.destination \in Places \cup {None}
  /\ \A i \in DOMAIN trip.plan : trip.plan[i] \in Segments
  /\ trip.current \in 0 .. Len(trip.plan)
  /\ trip.failed \in 0 .. MaxReplans + 1
  /\ trip.waypoint \in 1 .. 2
  /\ trip.submitted \in BOOLEAN
  /\ trip.search # None => trip.search.index \in Nat \ {0}

\* A trip that is over has no search left to deliver a route: every way out of
\* the active states goes through the planner's cancel.
NoSearchAfterwards == ~Active => trip.search = None

\* A segment is followed only with a calculated route, and the goal handed to the
\* movement layer is a waypoint of that route: an invalidated or rebuilt segment
\* takes its follower with it, whatever the step that replaced it.
FollowsItsRoute ==
  trip.state = "FollowingSegment" =>
    /\ ~Finished(trip) => Calculated(Current(trip))
    /\ trip.submitted => ~Finished(trip) /\ goal = Aim

\* Arriving and cancelling stop the bot, in whichever state of the trip they
\* come, so that nothing keeps walking afterwards.
EndsStandingStill ==
  [][Active /\ trip'.state \in {"Arrived", "Cancelled"} =>
       route' = None /\ status' \notin {"MovingToPosition", "FollowingPlayer"}]_vars

\* When from some time on no search finds a route, the trips end: the failures
\* are counted over replans, and no replanning goes on for ever.
HopelessEnds == <>[](Answered(trip) => ~Usable(trip.search)) => <>[]~Active

\* state.rs says of NoRoute that no route exists through known terrain; on open
\* ground, with nothing going wrong, a trip does not end so.
OpenGroundHasARoute == trip.failure # "NoRoute"

=============================================================================
