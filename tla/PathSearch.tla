----------------------------- MODULE PathSearch -----------------------------
(***************************************************************************)
(* One block-level search: A* of pathfinding/astar.rs over the moves of     *)
(* moves.rs, the grid of grid.rs, the classes of terrain.rs and the prices  *)
(* of cost.rs, run on a thread of its own by planner.rs.                    *)
(*                                                                         *)
(* Prices are tenths; an estimate is rounded down.  The wall clock and  *)
(* the cancel flag may end a search at any expansion.  Which of two equally *)
(* good nodes the heap gives out is a choice.                               *)
(***************************************************************************)
EXTENDS Integers, FiniteSets, Sequences, SequencesExt

CONSTANTS
  Width, Height, Depth,   \* the sampled region
  Terrains,               \* the grids searched: functions from cells to classes
  Start, Target,
  GoalRadius,
  Costs,                  \* the cost profile
  Policy,                 \* the move policy
  Hostiles,               \* records of a cell and the radius its mob takes
  MaxNodes,
  None

Cells == (0 .. Width - 1) \X (0 .. Height - 1) \X (0 .. Depth - 1)
BodyHeight == 2

Classes ==
  {"Unknown", "Air", "Replaceable", "Water", "Lava", "Hazard", "Solid", "Unbreakable",
   "Climbable"}

\* Config::validate refuses a weight of zero: "a zero-cost cycle is an infinite loop".
Weight == Nat \ {0}
CostProfile ==
  [walk : Weight, diagonal : Weight, jump : Weight, drop : Weight, maxSafeDrop : Nat,
   fallDamage : Weight, swim : Weight, break : Weight, bridge : Weight, climb : Weight,
   hazard : Weight, lava : Weight, proximity : Weight, ledge : Weight, entity : Weight]

MovePolicy ==
  [breaking : BOOLEAN, bridging : BOOLEAN, swimming : BOOLEAN, lava : BOOLEAN, maxDrop : Nat]

ASSUME SearchAssumption ==
  /\ {Width, Height, Depth, MaxNodes} \subseteq Nat \ {0}
  /\ \A t \in Terrains : t \in [Cells -> Classes]
  /\ Start \in Cells /\ Target \in Cells
  /\ Costs \in CostProfile /\ Policy \in MovePolicy
  /\ IsFiniteSet(Hostiles)

Outcomes == {"Complete", "Partial", "Unreachable", "Cancelled"}
ASSUME NoneIsApart == None \notin Cells \cup Outcomes

VARIABLES
  terrain,
  visited,    \* from the cells reached to [g, parent, kind]
  open,       \* the heap: [at, f, h]
  best,       \* the reached cell nearest to the target
  expanded,
  outcome     \* None while the search runs

vars == <<terrain, visited, open, best, expanded, outcome>>

-----------------------------------------------------------------------------
(* Terrain.                                                                 *)

Passable == {"Air", "Replaceable", "Water", "Lava", "Hazard", "Climbable"}
Supporting == {"Solid", "Unbreakable", "Hazard"}

\* TerrainGrid::get: what was not sampled is unknown.
At(cell) == IF cell \in DOMAIN terrain THEN terrain[cell] ELSE "Unknown"

Shift(cell, dx, dy, dz) == <<cell[1] + dx, cell[2] + dy, cell[3] + dz>>
Below(cell) == At(Shift(cell, 0, -1, 0))

BodyFits(cell) == \A dy \in 0 .. BodyHeight - 1 : At(Shift(cell, 0, dy, 0)) \in Passable
Standable(cell) == BodyFits(cell) /\ Below(cell) \in Supporting
Swimmable(cell) == At(cell) = "Water" /\ BodyFits(cell)

\* nearest_standable, one block further down and then up at a time.
NearestStandable(cell, reach) ==
  LET snapped == {n \in 0 .. reach : Standable(Shift(cell, 0, -n, 0)) \/ Standable(Shift(cell, 0, n, 0))}
      n == CHOOSE n \in snapped : \A m \in snapped : n <= m
  IN  IF snapped = {} THEN None
      ELSE IF Standable(Shift(cell, 0, -n, 0)) THEN Shift(cell, 0, -n, 0) ELSE Shift(cell, 0, n, 0)

\* search's own start: a body that fits nowhere near begins where it is.
SearchStart == LET snapped == NearestStandable(Start, 3)
               IN  IF snapped = None THEN Start ELSE snapped

SquaredDistance(a, b) ==
  (a[1] - b[1]) * (a[1] - b[1]) + (a[2] - b[2]) * (a[2] - b[2]) + (a[3] - b[3]) * (a[3] - b[3])

-----------------------------------------------------------------------------
(* Prices.                                                                  *)

\* cheapest_step, as the square of tenths: a diagonal over the square root
\* of two, a walk, a swim or a block of a drop.
CheapestSquared ==
  LET prices == {Costs.walk * Costs.walk, (Costs.diagonal * Costs.diagonal) \div 2,
                 Costs.swim * Costs.swim, Costs.drop * Costs.drop}
  IN  CHOOSE p \in prices : \A q \in prices : p <= q

Root(n) == CHOOSE r \in 0 .. n : r * r <= n /\ (r + 1) * (r + 1) > n

Estimate == [cell \in Cells |-> Root(SquaredDistance(cell, Target) * CheapestSquared)]

CostOf(kind, blocks) ==
  CASE kind = "Walk"     -> Costs.walk
    [] kind = "Diagonal" -> Costs.diagonal
    [] kind = "JumpUp"   -> Costs.jump
    [] kind = "Drop"     -> Costs.drop * blocks
                              + (IF blocks > Costs.maxSafeDrop THEN Costs.fallDamage ELSE 0)
    [] kind = "Swim"     -> Costs.swim
    [] kind = "Break"    -> Costs.walk + Costs.break * blocks
    [] kind = "Bridge"   -> Costs.walk + Costs.bridge * blocks
    [] kind = "Climb"    -> Costs.climb * blocks

Sides == {<<1, 0>>, <<-1, 0>>, <<0, 1>>, <<0, -1>>}
Corners == {<<1, 1>>, <<1, -1>>, <<-1, 1>>, <<-1, -1>>}

\* terrain_penalty and floor_penalty
Penalty(class) == CASE class = "Lava"   -> Costs.lava
                    [] class = "Hazard" -> Costs.hazard
                    [] OTHER            -> 0

Beside(cell, class) ==
  Cardinality({s \in Sides : At(Shift(cell, s[1], 0, s[2])) = class})

\* adjacent_ledges
Ledges(cell) ==
  Cardinality({s \in Sides :
    LET next == Shift(cell, s[1], 0, s[2])
    IN  At(next) \in Passable /\ Below(next) \notin Supporting \cup {"Unknown"}})

\* entity_penalty
Threats(cell) ==
  Cardinality({m \in Hostiles : SquaredDistance(m.at, cell) <= m.radius * m.radius})

\* proximity_penalty, lava beside the cell being priced as eight hazards at most.
Proximity(cell) ==
  Costs.proximity * Beside(cell, "Hazard")
    + (IF Costs.lava < 8 * Costs.proximity THEN Costs.lava ELSE 8 * Costs.proximity)
        * Beside(cell, "Lava")

Price(cell, kind, blocks) ==
  CostOf(kind, blocks) + Penalty(At(cell)) + Penalty(Below(cell)) + Proximity(cell)
    + Costs.ledge * Ledges(cell) + Costs.entity * Threats(cell)

-----------------------------------------------------------------------------
(* Moves: sets of [to, kind, cost].                                         *)

\* (Mutant: lava underfoot is only expensive.)
DearOverLava(cell, kind, blocks) ==
  IF At(cell) = "Lava" /\ ~Policy.lava THEN {}
  ELSE {[to |-> cell, kind |-> kind, cost |-> Price(cell, kind, blocks)]}

\* push_move: lava is refused in the cell itself and under it.
Push(cell, kind, blocks) ==
  IF (At(cell) = "Lava" \/ Below(cell) = "Lava") /\ ~Policy.lava THEN {}
  ELSE {[to |-> cell, kind |-> kind, cost |-> Price(cell, kind, blocks)]}

\* drop_move: the first cell below that is water, unknown or not passable.
DropMoves(cell) ==
  LET ends(n) == LET class == At(Shift(cell, 0, -n, 0))
                 IN  class \notin Passable \/ (class = "Water" /\ Policy.swimming)
      hits == {n \in 1 .. Policy.maxDrop : ends(n)}
      n == CHOOSE n \in hits : \A m \in hits : n <= m
      landing == Shift(cell, 0, 1 - n, 0)
  IN  IF hits = {} THEN {}
      ELSE CASE At(Shift(cell, 0, -n, 0)) = "Unknown" -> {}
             [] At(Shift(cell, 0, -n, 0)) = "Water"   -> Push(Shift(cell, 0, -n, 0), "Swim", 1)
             [] OTHER -> IF Standable(landing) THEN Push(landing, "Drop", n - 1) ELSE {}

\* The case of horizontal_move where the body fits at the same level.
LevelMoves(level, kind) ==
  CASE Below(level) \in Supporting -> Push(level, kind, 1)
    [] Below(level) \notin Supporting /\ At(level) = "Water" /\ Policy.swimming ->
         Push(level, "Swim", 1)
    [] OTHER -> (IF Policy.bridging /\ Below(level) \in Passable
                   THEN Push(level, "Bridge", 1) ELSE {})
                  \cup DropMoves(level)

\* Mining through: both cells known and clearable, ground behind them.
BreakMoves(level) ==
  LET body == {Shift(level, 0, dy, 0) : dy \in 0 .. BodyHeight - 1}
      solid == {c \in body : At(c) = "Solid"}
  IN  IF /\ Policy.breaking
         /\ \A c \in body : At(c) \in Passable \cup {"Solid"}
         /\ solid # {}
         /\ Below(level) \in Supporting
        THEN Push(level, "Break", Cardinality(solid)) ELSE {}

SideMoves(cell, s) ==
  LET level == Shift(cell, s[1], 0, s[2])
      up == Shift(level, 0, 1, 0)
  IN  CASE BodyFits(level) -> LevelMoves(level, "Walk")
        [] ~BodyFits(level) /\ At(Shift(cell, 0, BodyHeight, 0)) \in Passable /\ Standable(up) ->
             Push(up, "JumpUp", 1)
        [] OTHER -> BreakMoves(level)

\* Corners are never jumped, mined or cut.
CornerMoves(cell, s) ==
  LET level == Shift(cell, s[1], 0, s[2])
  IN  IF /\ BodyFits(Shift(cell, s[1], 0, 0))
         /\ BodyFits(Shift(cell, 0, 0, s[2]))
         /\ BodyFits(level)
        THEN LevelMoves(level, "Diagonal") ELSE {}

WaterMoves(cell) ==
  IF Policy.swimming /\ At(cell) = "Water"
    THEN UNION {Push(c, "Swim", 1) :
                  c \in {c \in {Shift(cell, 0, 1, 0), Shift(cell, 0, -1, 0)} :
                           Swimmable(c) \/ Standable(c)}}
    ELSE {}

ClimbMoves(cell) ==
  LET up == Shift(cell, 0, 1, 0)
      down == Shift(cell, 0, -1, 0)
  IN  (IF At(cell) = "Climbable" /\ BodyFits(up) THEN Push(up, "Climb", 1) ELSE {})
        \cup (IF At(down) = "Climbable" /\ BodyFits(down) THEN Push(down, "Climb", 1) ELSE {})

Successors(cell) ==
  (UNION {SideMoves(cell, s) : s \in Sides}) \cup (UNION {CornerMoves(cell, s) : s \in Corners})
    \cup WaterMoves(cell) \cup ClimbMoves(cell)

-----------------------------------------------------------------------------
(* The search.                                                              *)

Reached(cell) == SquaredDistance(cell, Target) <= GoalRadius * GoalRadius

Node(cell, g) == [at |-> cell, f |-> g + Estimate[cell], h |-> Estimate[cell]]

Init ==
  /\ terrain \in Terrains
  /\ LET first == SearchStart
     IN  /\ visited = [c \in {first} |-> [g |-> 0, parent |-> None, kind |-> None]]
         /\ open = {Node(first, 0)}
         /\ best = first
  /\ expanded = 0
  /\ outcome = None

\* Candidate's order: the lowest f, then the lowest h.
Foremost ==
  {n \in open : outcome = None /\ \A m \in open : n.f < m.f \/ (n.f = m.f /\ n.h <= m.h)}

\* (Mutant: a cell takes whatever move came last.)
Latest(moves, g) == {m \in moves : \A o \in moves : o.to = m.to => m.cost <= o.cost}

\* The moves that reach a cell for the first time, or more cheaply; of two to
\* one cell, the cheaper stands at the end.
Improving(moves, g) ==
  {m \in moves :
     /\ m.to \in DOMAIN visited => g + m.cost < visited[m.to].g
     /\ \A o \in moves : o.to = m.to => m.cost <= o.cost}

GoalReached(node) ==
  /\ Reached(node.at)
  /\ outcome' = "Complete"
  /\ best' = node.at
  /\ UNCHANGED <<terrain, visited, open, expanded>>

\* A heap entry whose cell was reached more cheaply since.
Stale(node) == node.f > visited[node.at].g + node.h

DropStale(node) ==
  /\ ~Reached(node.at)
  /\ Stale(node)
  /\ open' = open \ {node}
  /\ UNCHANGED <<terrain, visited, best, expanded, outcome>>

\* What a search without a goal gives: the nearest cell reached, if not the start.
GivenUp(nearest) == IF nearest = SearchStart THEN "Unreachable" ELSE "Partial"

\* The budget of nodes, or the clock, ends the search before the node is expanded.
OutOfBudget(node) ==
  /\ ~Reached(node.at)
  /\ ~Stale(node)
  /\ expanded' = expanded + 1
  /\ outcome' = GivenUp(best)
  /\ UNCHANGED <<terrain, visited, open, best>>

\* The cancel flag: what was reached is given back, and never used.
CancelSeen(node) ==
  /\ ~Reached(node.at)
  /\ ~Stale(node)
  /\ expanded' = expanded + 1
  /\ outcome' = "Cancelled"
  /\ UNCHANGED <<terrain, visited, open, best>>

\* (Mutant: the last cell reached, not the nearest.)
LastOf(cells) == IF cells = {} THEN best ELSE CHOOSE c \in cells : TRUE

\* best_node: the nearest of the cells reached, the earlier one on a tie.
NearestOf(cells) ==
  LET nearer == {c \in cells : Estimate[c] < Estimate[best]}
  IN  IF nearer = {} THEN best
      ELSE CHOOSE c \in nearer : \A d \in nearer : Estimate[c] <= Estimate[d]

Expand(node) ==
  /\ ~Reached(node.at)
  /\ ~Stale(node)
  /\ expanded + 1 < MaxNodes
  /\ LET g == visited[node.at].g
         moves == Improving(Successors(node.at), g)
         found(c) == CHOOSE m \in moves : m.to = c
         cells == {m.to : m \in moves}
         reached(c) == [g |-> g + found(c).cost, parent |-> node.at, kind |-> found(c).kind]
     IN  /\ visited' = [c \in cells \cup DOMAIN visited |->
                         IF c \in cells THEN reached(c) ELSE visited[c]]
         /\ open' = (open \ {node}) \cup {Node(c, g + found(c).cost) : c \in cells}
         /\ best' = NearestOf(cells)
  /\ expanded' = expanded + 1
  /\ UNCHANGED <<terrain, outcome>>

Exhausted ==
  /\ outcome = None
  /\ open = {}
  /\ outcome' = GivenUp(best)
  /\ UNCHANGED <<terrain, visited, open, best, expanded>>

Next ==
  \/ \E node \in Foremost : GoalReached(node)
  \/ \E node \in Foremost : DropStale(node)
  \/ \E node \in Foremost : Expand(node)
  \/ \E node \in Foremost : OutOfBudget(node)
  \/ \E node \in Foremost : CancelSeen(node)
  \/ Exhausted

Spec == Init /\ [][Next]_vars

-----------------------------------------------------------------------------
(* reconstruct, from the end back to the start: the chain after n rounds of   *)
(* its loop, which every cell reached is enough for.                        *)

Trail[n \in Nat] ==
  IF n = 0 THEN <<best>>
  ELSE LET path == Trail[n - 1]
           parent == visited[Head(path)].parent
       IN  IF parent = None THEN path ELSE <<parent>> \o path

Path == Trail[Cardinality(DOMAIN visited)]

-----------------------------------------------------------------------------
(* Properties.                                                              *)

\* A cell is reached from a cell reached before it, at a lower price, by a move
\* that is legal: following the parents always comes to the start, although
\* cells change their parents while the search improves them.
ParentsLeadBack ==
  \A c \in DOMAIN visited \ {SearchStart} :
     LET v == visited[c]
     IN  /\ visited[v.parent].g < v.g
         /\ \E m \in Successors(v.parent) : m.to = c /\ visited[v.parent].g + m.cost <= v.g

\* A partial route is worth walking: it ends nearer to the target than it
\* began, and nowhere was anything nearer reached.
PartialIsNearest ==
  outcome = "Partial" =>
    /\ Estimate[best] < Estimate[SearchStart]
    /\ \A c \in DOMAIN visited : Estimate[best] <= Estimate[c]

\* A route to walk never has the bot stand in lava, over lava or in a place
\* nobody has seen, whatever blocks it breaks, bridges or falls past.
SafeFooting ==
  outcome \in {"Complete", "Partial"} =>
    \A c \in Range(Tail(Path)) : At(c) \notin {"Lava", "Unknown"} /\ Below(c) # "Lava"
=============================================================================
