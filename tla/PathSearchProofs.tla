--------------------------- MODULE PathSearchProofs ---------------------------
(***************************************************************************)
(* What the search of PathSearch.tla gives, for every terrain, every cost    *)
(* profile and policy that the configuration accepts, and every budget.      *)
(***************************************************************************)
EXTENDS PathSearch, Recursions, FiniteSetTheorems, SequenceTheorems

USE SearchAssumption, NoneIsApart

-----------------------------------------------------------------------------
(* Estimates.                                                               *)

\* A choice of a least number among some is one of them, and is the least.
LEMMA LeastChosen ==
  ASSUME NEW S, S \subseteq Nat, S # {}
  PROVE  LET p == CHOOSE p \in S : \A q \in S : p <= q
         IN  p \in S /\ \A q \in S : p <= q
BY Least

\* The integer root of a natural is a natural.
LEMMA RootType == ASSUME NEW n \in Nat PROVE Root(n) \in Nat
<1> DEFINE T == {r \in Nat : (r + 1) * (r + 1) > n}
<1>1. n \in T
  OBVIOUS
<1>2. PICK r \in T : \A q \in T : r <= q
  <2> HIDE DEF T
  <2>1. T # {}
    BY <1>1
  <2>2. T \subseteq Nat
    BY DEF T
  <2> QED BY <2>1, <2>2, Least
<1>3. r * r <= n
  <2>1. CASE r = 0
    BY <2>1
  <2>2. CASE r # 0
    <3>1. r - 1 \in Nat /\ r - 1 \notin T
      BY <1>2, <2>2
    <3>2. PICK q \in Nat : q = r - 1
      BY <3>1
    <3>3. ~((q + 1) * (q + 1) > n)
      BY <3>1, <3>2
    <3>4. q + 1 = r
      BY <3>2
    <3> QED BY <3>3, <3>4
  <2> QED BY <2>1, <2>2
<1>4. r <= r * r
  <2>1. r = 0 \/ r >= 1
    OBVIOUS
  <2> QED BY <2>1
<1>5. r \in 0 .. n
  BY <1>3, <1>4
<1>6. (r + 1) * (r + 1) > n
  BY <1>2
<1> HIDE DEF T
<1>7. \E q \in 0 .. n : q * q <= n /\ (q + 1) * (q + 1) > n
  BY <1>3, <1>5, <1>6
<1>8. Root(n) \in 0 .. n
  BY <1>7 DEF Root
<1> QED BY <1>8

\* Estimates are naturals.
LEMMA EstimateType == ASSUME NEW c \in Cells PROVE Estimate[c] \in Nat
<1>1. ASSUME NEW a \in Int, NEW b \in Int PROVE (a - b) * (a - b) \in Nat
  <2>1. a - b \in Int
    OBVIOUS
  <2>2. ASSUME NEW x \in Int PROVE x * x \in Nat
    <3>1. CASE x >= 0
      BY <3>1
    <3>2. CASE x < 0
      BY <3>2
    <3> QED BY <3>1, <3>2
  <2> QED BY <2>1, <2>2
<1>2. c[1] \in Int /\ c[2] \in Int /\ c[3] \in Int /\ Target[1] \in Int /\ Target[2] \in Int
      /\ Target[3] \in Int
  BY DEF Cells
<1>3. SquaredDistance(c, Target) \in Nat
  BY <1>1, <1>2 DEF SquaredDistance
<1>4. CheapestSquared \in Nat
  <2> DEFINE prices == {Costs.walk * Costs.walk, (Costs.diagonal * Costs.diagonal) \div 2,
                        Costs.swim * Costs.swim, Costs.drop * Costs.drop}
  <2>1. prices \subseteq Nat
    BY DEF CostProfile, Weight
  <2>2. prices # {}
    OBVIOUS
  <2>3. CheapestSquared = CHOOSE p \in prices : \A q \in prices : p <= q
    BY DEF CheapestSquared
  <2> HIDE DEF prices
  <2> QED BY <2>1, <2>2, <2>3, LeastChosen
<1>5. SquaredDistance(c, Target) * CheapestSquared \in Nat
  BY <1>3, <1>4
<1> QED BY <1>5, RootType DEF Estimate

-----------------------------------------------------------------------------
(* Prices.                                                                  *)

\* There are finitely many sides.
LEMMA SidesFinite == IsFiniteSet(Sides)
<1>1. Sides = (({<<1, 0>>} \cup {<<-1, 0>>}) \cup {<<0, 1>>}) \cup {<<0, -1>>}
  BY DEF Sides
<1> QED BY <1>1, FS_Singleton, FS_Union

Kinds == {"Walk", "Diagonal", "JumpUp", "Drop", "Swim", "Break", "Bridge", "Climb"}

\* No move is free, whatever it crosses: a drop and a climb are of a block at least.
LEMMA PriceIsPositive ==
  ASSUME NEW cell, NEW kind \in Kinds, NEW blocks \in Nat,
         kind \in {"Drop", "Climb"} => blocks > 0
  PROVE  Price(cell, kind, blocks) \in Nat /\ Price(cell, kind, blocks) > 0
<1>1. CostOf(kind, blocks) \in Nat /\ CostOf(kind, blocks) > 0
  <2>1. ASSUME NEW a \in Nat, NEW b \in Nat PROVE a * b \in Nat /\ (a > 0 /\ b > 0 => a * b > 0)
    OBVIOUS
  <2>2. \A price \in {Costs.walk, Costs.diagonal, Costs.jump, Costs.drop, Costs.fallDamage,
                      Costs.swim, Costs.break, Costs.bridge, Costs.climb} :
          price \in Nat /\ price > 0
    BY DEF CostProfile, Weight
  <2>3. CASE kind \in {"Walk", "Diagonal", "JumpUp", "Swim"}
    BY <2>2, <2>3 DEF CostOf
  <2>4. CASE kind = "Drop"
    <3>1. CostOf(kind, blocks) = Costs.drop * blocks
            + (IF blocks > Costs.maxSafeDrop THEN Costs.fallDamage ELSE 0)
      BY <2>4 DEF CostOf
    <3>2. Costs.drop * blocks \in Nat /\ Costs.drop * blocks > 0
      BY <2>1, <2>2, <2>4
    <3> QED BY <2>2, <3>1, <3>2
  <2>5. CASE kind = "Climb"
    BY <2>1, <2>2, <2>5 DEF CostOf
  <2>6. CASE kind = "Break"
    <3>1. CostOf(kind, blocks) = Costs.walk + Costs.break * blocks
      BY <2>6 DEF CostOf
    <3>2. Costs.break * blocks \in Nat
      BY <2>1, <2>2
    <3> QED BY <2>2, <3>1, <3>2
  <2>7. CASE kind = "Bridge"
    <3>1. CostOf(kind, blocks) = Costs.walk + Costs.bridge * blocks
      BY <2>7 DEF CostOf
    <3>2. Costs.bridge * blocks \in Nat
      BY <2>1, <2>2
    <3> QED BY <2>2, <3>1, <3>2
  <2> QED BY <2>3, <2>4, <2>5, <2>6, <2>7 DEF Kinds
<1>2. ASSUME NEW class PROVE Penalty(class) \in Nat
  BY DEF Penalty, CostProfile, Weight
<1>3. ASSUME NEW class PROVE Beside(cell, class) \in Nat
  <2>1. {s \in Sides : At(Shift(cell, s[1], 0, s[2])) = class} \in SUBSET Sides
    OBVIOUS
  <2> QED BY <2>1, SidesFinite, FS_Subset, FS_CardinalityType DEF Beside
<1>4. Ledges(cell) \in Nat
  <2> DEFINE L == {s \in Sides :
                     LET next == Shift(cell, s[1], 0, s[2])
                     IN  At(next) \in Passable /\ Below(next) \notin Supporting \cup {"Unknown"}}
  <2>1. L \in SUBSET Sides
    OBVIOUS
  <2>2. Ledges(cell) = Cardinality(L)
    BY DEF Ledges
  <2> HIDE DEF L
  <2> QED BY <2>1, <2>2, SidesFinite, FS_Subset, FS_CardinalityType
<1>5. Threats(cell) \in Nat
  <2>1. {m \in Hostiles : SquaredDistance(m.at, cell) <= m.radius * m.radius} \in SUBSET Hostiles
    OBVIOUS
  <2> QED BY <2>1, FS_Subset, FS_CardinalityType DEF Threats
<1>6. Proximity(cell) \in Nat
  BY <1>3 DEF Proximity, CostProfile, Weight
<1>7. Costs.ledge * Ledges(cell) \in Nat /\ Costs.entity * Threats(cell) \in Nat
  BY <1>4, <1>5 DEF CostProfile, Weight
<1> QED BY <1>1, <1>2, <1>6, <1>7 DEF Price

-----------------------------------------------------------------------------
(* Moves.                                                                   *)

\* Where a move may lead and what it costs.
Footing(c) == At(c) # "Unknown" /\ (~Policy.lava => At(c) # "Lava" /\ Below(c) # "Lava")
Legal(m) == m.to \in Cells /\ Footing(m.to) /\ m.cost \in Nat /\ m.cost > 0

\* Outside the grid everything is unknown.
LEMMA Known ==
  ASSUME terrain \in Terrains, NEW c, At(c) # "Unknown"
  PROVE  c \in Cells
BY DEF At

Places == Int \X Int \X Int

\* A shifted place is a place.
LEMMA Shifted ==
  ASSUME NEW c \in Places, NEW dx \in Int, NEW dy \in Int, NEW dz \in Int
  PROVE  /\ Shift(c, dx, dy, dz) \in Places
         /\ Shift(c, 0, 0, 0) = c
BY DEF Shift, Places

\* What lies one below a place n - 1 down lies n down.
LEMMA UnderShifted ==
  ASSUME NEW c \in Places, NEW n \in Nat
  PROVE  /\ Shift(c, 0, 1 - n, 0) \in Places
         /\ Shift(Shift(c, 0, 1 - n, 0), 0, -1, 0) = Shift(c, 0, -n, 0)
<1>1. c[2] + (1 - n) + (-1) = c[2] + (-n) /\ c[1] + 0 + 0 = c[1] + 0 /\ c[3] + 0 + 0 = c[3] + 0
  BY DEF Places
<1>2. Shift(c, 0, 1 - n, 0) \in Places
  BY DEF Shift, Places
<1> QED BY <1>1, <1>2 DEF Shift

\* Where the body fits, the ground is known and passable.
LEMMA FitsKnown ==
  ASSUME NEW c \in Places, BodyFits(c)
  PROVE  At(c) # "Unknown" /\ At(c) \in Passable
<1>1. 0 \in 0 .. BodyHeight - 1
  BY DEF BodyHeight
<1>2. At(Shift(c, 0, 0, 0)) \in Passable
  BY <1>1 DEF BodyFits
<1> QED BY <1>2, Shifted DEF Passable

\* A move pushed to a known cell is legal.
LEMMA PushLegal ==
  ASSUME terrain \in Terrains, NEW c, At(c) # "Unknown", NEW kind \in Kinds, NEW blocks \in Nat,
         kind \in {"Drop", "Climb"} => blocks > 0, NEW m \in Push(c, kind, blocks)
  PROVE  Legal(m)
BY Known, PriceIsPositive DEF Push, Legal, Footing

\* Moves that drop are legal.
LEMMA DropMovesLegal ==
  ASSUME terrain \in Terrains, NEW c \in Places, Below(c) \notin Supporting, NEW m \in DropMoves(c)
  PROVE  Legal(m)
<1> DEFINE under(n) == At(Shift(c, 0, -n, 0))
           hits == {n \in 1 .. Policy.maxDrop :
                      under(n) \notin Passable \/ (under(n) = "Water" /\ Policy.swimming)}
           n == CHOOSE n \in hits : \A o \in hits : n <= o
           landing == Shift(c, 0, 1 - n, 0)
<1>1. hits # {} /\ m \in CASE under(n) = "Unknown" -> {}
                         [] under(n) = "Water" -> Push(Shift(c, 0, -n, 0), "Swim", 1)
                         [] OTHER -> IF Standable(landing) THEN Push(landing, "Drop", n - 1) ELSE {}
  BY DEF DropMoves
<1>2. n \in 1 .. Policy.maxDrop
  <2>1. hits \subseteq Nat /\ hits \subseteq 1 .. Policy.maxDrop
    BY DEF MovePolicy
  <2> HIDE DEF hits
  <2> QED BY <1>1, <2>1, LeastChosen
<1> HIDE DEF n
<1>3. n \in Nat /\ n >= 1
  BY <1>2 DEF MovePolicy
<1>4. CASE under(n) = "Water"
  BY <1>1, <1>4, PushLegal DEF Kinds
<1>5. CASE under(n) # "Water"
  <2>1. Standable(landing) /\ m \in Push(landing, "Drop", n - 1)
    BY <1>1, <1>5
  <2>2. landing \in Places /\ Shift(landing, 0, -1, 0) = Shift(c, 0, -n, 0)
    BY <1>3, UnderShifted
  <2>3. At(landing) # "Unknown"
    BY <2>1, <2>2, FitsKnown DEF Standable
  <2>4. n # 1
    <3>1. Below(landing) \in Supporting
      BY <2>1 DEF Standable
    <3>2. n = 1 => Below(landing) = Below(c)
      BY <2>2 DEF Below
    <3> QED BY <3>1, <3>2
  <2>5. n - 1 \in Nat /\ n - 1 > 0
    BY <1>3, <2>4
  <2> HIDE DEF landing
  <2> QED BY <2>1, <2>3, <2>5, PushLegal DEF Kinds
<1> QED BY <1>4, <1>5

\* Moves on the level are legal.
LEMMA LevelMovesLegal ==
  ASSUME terrain \in Terrains, NEW c \in Places, BodyFits(c), NEW kind \in {"Walk", "Diagonal"},
         NEW m \in LevelMoves(c, kind)
  PROVE  Legal(m)
<1>1. At(c) # "Unknown"
  BY FitsKnown
<1>2. CASE Below(c) \in Supporting
  BY <1>1, <1>2, PushLegal DEF LevelMoves, Kinds
<1>3. CASE Below(c) \notin Supporting
  <2>1. m \in Push(c, "Swim", 1) \/ m \in Push(c, "Bridge", 1) \/ m \in DropMoves(c)
    BY <1>3 DEF LevelMoves
  <2> QED BY <1>1, <1>3, <2>1, PushLegal, DropMovesLegal DEF Kinds
<1> QED BY <1>2, <1>3

\* Moves through blocks to break are legal.
LEMMA BreakMovesLegal ==
  ASSUME terrain \in Terrains, NEW c \in Places, NEW m \in BreakMoves(c)
  PROVE  Legal(m)
<1> DEFINE body == {Shift(c, 0, dy, 0) : dy \in 0 .. BodyHeight - 1}
           solid == {b \in body : At(b) = "Solid"}
<1>1. /\ \A b \in body : At(b) \in Passable \cup {"Solid"}
      /\ m \in Push(c, "Break", Cardinality(solid))
  BY DEF BreakMoves
<1>2. At(c) # "Unknown"
  <2>1. Shift(c, 0, 0, 0) \in body
    BY DEF BodyHeight
  <2>2. c \in body
    BY <2>1, Shifted
  <2> HIDE DEF body
  <2> QED BY <1>1, <2>2 DEF Passable
<1>3. Cardinality(solid) \in Nat
  <2>1. body = {Shift(c, 0, 0, 0)} \cup {Shift(c, 0, 1, 0)}
    <3>1. 0 .. BodyHeight - 1 = {0, 1}
      BY DEF BodyHeight
    <3> QED BY <3>1
  <2>2. IsFiniteSet(body)
    <3>1. IsFiniteSet({Shift(c, 0, 0, 0)}) /\ IsFiniteSet({Shift(c, 0, 1, 0)})
      BY FS_Singleton
    <3> HIDE DEF body
    <3> QED BY <2>1, <3>1, FS_Union
  <2>3. solid \in SUBSET body
    OBVIOUS
  <2> HIDE DEF solid
  <2> QED BY <2>2, <2>3, FS_Subset, FS_CardinalityType
<1> HIDE DEF solid
<1> QED BY <1>1, <1>2, <1>3, PushLegal DEF Kinds

\* Moves to a side are legal.
LEMMA SideMovesLegal ==
  ASSUME terrain \in Terrains, NEW c \in Places, NEW s \in Sides, NEW m \in SideMoves(c, s)
  PROVE  Legal(m)
<1> DEFINE level == Shift(c, s[1], 0, s[2])
           up == Shift(level, 0, 1, 0)
<1>1. level \in Places /\ up \in Places
  <2>1. s[1] \in Int /\ s[2] \in Int
    BY DEF Sides
  <2> QED BY <2>1, Shifted
<1>2. CASE BodyFits(level)
  <2>1. m \in LevelMoves(level, "Walk")
    BY <1>2 DEF SideMoves
  <2> HIDE DEF level
  <2> QED BY <1>1, <1>2, <2>1, LevelMovesLegal
<1>3. CASE ~BodyFits(level)
  <2>1. (Standable(up) /\ m \in Push(up, "JumpUp", 1)) \/ m \in BreakMoves(level)
    BY <1>3 DEF SideMoves
  <2> HIDE DEF level, up
  <2> QED BY <1>1, <2>1, FitsKnown, PushLegal, BreakMovesLegal DEF Standable, Kinds
<1> QED BY <1>2, <1>3

\* Moves around a corner are legal.
LEMMA CornerMovesLegal ==
  ASSUME terrain \in Terrains, NEW c \in Places, NEW s \in Corners, NEW m \in CornerMoves(c, s)
  PROVE  Legal(m)
<1> DEFINE level == Shift(c, s[1], 0, s[2])
<1>1. level \in Places
  <2>1. s[1] \in Int /\ s[2] \in Int
    BY DEF Corners
  <2> QED BY <2>1, Shifted
<1>2. BodyFits(level) /\ m \in LevelMoves(level, "Diagonal")
  BY DEF CornerMoves
<1> HIDE DEF level
<1> QED BY <1>1, <1>2, LevelMovesLegal

\* Every move leads to a cell that has been sampled, neither in lava nor over it, and
\* has a price.
LEMMA SuccessorsLegal ==
  ASSUME terrain \in Terrains, NEW c \in Cells, NEW m \in Successors(c)
  PROVE  Legal(m)
<1>1. c \in Places
  BY DEF Cells, Places
<1>2. ASSUME NEW d \in Places, NEW kind \in {"Swim", "Climb"}, NEW o \in Push(d, kind, 1),
             At(d) # "Unknown"
      PROVE  Legal(o)
  BY <1>2, PushLegal DEF Kinds
<1>3. Shift(c, 0, 1, 0) \in Places /\ Shift(c, 0, -1, 0) \in Places
  BY <1>1, Shifted
<1>4. CASE m \in WaterMoves(c)
  <2>1. PICK d \in {Shift(c, 0, 1, 0), Shift(c, 0, -1, 0)} :
          (Swimmable(d) \/ Standable(d)) /\ m \in Push(d, "Swim", 1)
    BY <1>4 DEF WaterMoves
  <2> QED BY <1>2, <1>3, <2>1, FitsKnown DEF Swimmable, Standable
<1>5. CASE m \in ClimbMoves(c)
  <2>1. PICK d \in {Shift(c, 0, 1, 0), Shift(c, 0, -1, 0)} : BodyFits(d) /\ m \in Push(d, "Climb", 1)
    BY <1>5 DEF ClimbMoves
  <2> QED BY <1>2, <1>3, <2>1, FitsKnown
<1>6. CASE (\E s \in Sides : m \in SideMoves(c, s)) \/ \E s \in Corners : m \in CornerMoves(c, s)
  BY <1>1, <1>6, SideMovesLegal, CornerMovesLegal
<1>7. \/ m \in UNION {SideMoves(c, s) : s \in Sides}
      \/ m \in UNION {CornerMoves(c, s) : s \in Corners}
      \/ m \in WaterMoves(c) \/ m \in ClimbMoves(c)
  BY DEF Successors
<1> QED BY <1>4, <1>5, <1>6, <1>7

-----------------------------------------------------------------------------
(* The start, and what stays the same while the terrain does.               *)

\* The search starts in the grid.
LEMMA StartIsACell == ASSUME terrain \in Terrains PROVE SearchStart \in Cells
<1> DEFINE down(n) == Shift(Start, 0, -n, 0)
           above(n) == Shift(Start, 0, n, 0)
           snapped == {n \in 0 .. 3 : Standable(down(n)) \/ Standable(above(n))}
           n == CHOOSE n \in snapped : \A o \in snapped : n <= o
<1>1. NearestStandable(Start, 3) =
        IF snapped = {} THEN None ELSE IF Standable(down(n)) THEN down(n) ELSE above(n)
  BY DEF NearestStandable
<1>2. CASE snapped = {}
  BY <1>1, <1>2 DEF SearchStart
<1>3. CASE snapped # {}
  <2>1. n \in snapped
    <3>1. snapped \subseteq Nat
      OBVIOUS
    <3> HIDE DEF snapped
    <3> QED BY <1>3, <3>1, LeastChosen
  <2> HIDE DEF n
  <2>2. PICK c \in {down(n), above(n)} : Standable(c) /\ NearestStandable(Start, 3) = c
    BY <1>1, <1>3, <2>1
  <2>3. c \in Places
    <3>1. Start \in Places /\ n \in Int /\ -n \in Int /\ 0 \in Int
      BY <2>1 DEF Cells, Places
    <3> QED BY <2>2, <3>1, Shifted
  <2>4. c \in Cells
    BY <2>2, <2>3, FitsKnown, Known DEF Standable
  <2> QED BY <2>2, <2>4 DEF SearchStart
<1> QED BY <1>2, <1>3

\* On the same terrain every cell reads the same.
LEMMA SameGround ==
  ASSUME terrain' = terrain, NEW c
  PROVE  /\ At(c)' = At(c) /\ Below(c)' = Below(c)
         /\ BodyFits(c)' = BodyFits(c) /\ Standable(c)' = Standable(c)
         /\ Swimmable(c)' = Swimmable(c) /\ Footing(c)' = Footing(c)
BY DEF At, Below, BodyFits, Standable, Swimmable, Footing

\* On the same terrain the start is the same.
LEMMA SameStart == ASSUME terrain' = terrain PROVE SearchStart' = SearchStart
<1>1. NearestStandable(Start, 3)' = NearestStandable(Start, 3)
  BY DEF NearestStandable, Standable, BodyFits, Below, At
<1> QED BY <1>1 DEF SearchStart

\* On the same terrain prices are the same.
LEMMA SamePrices ==
  ASSUME terrain' = terrain, NEW c, NEW kind, NEW blocks
  PROVE  Price(c, kind, blocks)' = Price(c, kind, blocks)
<1>1. ASSUME NEW class PROVE Beside(c, class)' = Beside(c, class)
  <2>1. {s \in Sides : At(Shift(c, s[1], 0, s[2]))' = class}
          = {s \in Sides : At(Shift(c, s[1], 0, s[2])) = class}
    BY SameGround
  <2> QED BY <2>1 DEF Beside
<1>2. Ledges(c)' = Ledges(c)
  <2> DEFINE next(s) == Shift(c, s[1], 0, s[2])
  <2>1. {s \in Sides : At(next(s))' \in Passable /\ Below(next(s))' \notin Supporting \cup {"Unknown"}}
          = {s \in Sides : At(next(s)) \in Passable /\ Below(next(s)) \notin Supporting \cup {"Unknown"}}
    BY SameGround
  <2> QED BY <2>1 DEF Ledges
<1>3. Proximity(c)' = Proximity(c)
  BY <1>1 DEF Proximity
<1>4. Penalty(At(c))' = Penalty(At(c)) /\ Penalty(Below(c))' = Penalty(Below(c))
  BY SameGround DEF Penalty
<1> QED BY <1>2, <1>3, <1>4 DEF Price, Threats

\* On the same terrain the same moves are pushed.
LEMMA SamePush ==
  ASSUME terrain' = terrain, NEW c, NEW kind, NEW blocks
  PROVE  Push(c, kind, blocks)' = Push(c, kind, blocks)
<1>1. /\ At(c)' = At(c) /\ Below(c)' = Below(c)
      /\ Price(c, kind, blocks)' = Price(c, kind, blocks)
  BY SamePrices, SameGround
<1> QED BY <1>1, Zenon DEF Push

\* On the same terrain the same drops are offered.
LEMMA SameDropMoves == ASSUME terrain' = terrain, NEW c PROVE DropMoves(c)' = DropMoves(c)
<1> DEFINE ends(n) == LET class == At(Shift(c, 0, -n, 0))
                      IN  class \notin Passable \/ (class = "Water" /\ Policy.swimming)
           hits == {n \in 1 .. Policy.maxDrop : ends(n)}
           n == CHOOSE n \in hits : \A m \in hits : n <= m
           landing == Shift(c, 0, 1 - n, 0)
           under == Shift(c, 0, -n, 0)
           moves == IF hits = {} THEN {}
                    ELSE CASE At(under) = "Unknown" -> {}
                           [] At(under) = "Water"   -> Push(under, "Swim", 1)
                           [] OTHER -> IF Standable(landing) THEN Push(landing, "Drop", n - 1) ELSE {}
<1>1. DropMoves(c) = moves
  BY DEF DropMoves
<1>2. DropMoves(c)' = moves'
  BY DEF DropMoves
<1>3. hits' = hits
  <2>1. ASSUME NEW k PROVE ends(k)' <=> ends(k)
    BY SameGround
  <2> QED BY <2>1
<1>4. n' = n
  BY <1>3
<1> HIDE DEF n
<1>5. landing' = landing /\ under' = under
  BY <1>4
<1> HIDE DEF hits, landing, under
<1>6. /\ At(under)' = At(under) /\ Standable(landing)' = Standable(landing)
      /\ Push(under, "Swim", 1)' = Push(under, "Swim", 1)
      /\ Push(landing, "Drop", n - 1)' = Push(landing, "Drop", n - 1)
  BY <1>4, <1>5, SameGround, SamePush
<1> QED BY <1>1, <1>2, <1>3, <1>6

\* On the same terrain the same level moves are offered.
LEMMA SameLevelMoves ==
  ASSUME terrain' = terrain, NEW c, NEW kind
  PROVE  LevelMoves(c, kind)' = LevelMoves(c, kind)
<1>1. /\ At(c)' = At(c) /\ Below(c)' = Below(c) /\ DropMoves(c)' = DropMoves(c)
      /\ Push(c, kind, 1)' = Push(c, kind, 1) /\ Push(c, "Swim", 1)' = Push(c, "Swim", 1)
      /\ Push(c, "Bridge", 1)' = Push(c, "Bridge", 1)
  BY SameGround, SamePush, SameDropMoves
<1> QED BY <1>1, Zenon DEF LevelMoves

\* On the same terrain the same blocks are to be broken.
LEMMA SameBreakMoves == ASSUME terrain' = terrain, NEW c PROVE BreakMoves(c)' = BreakMoves(c)
<1> DEFINE body == {Shift(c, 0, dy, 0) : dy \in 0 .. BodyHeight - 1}
<1>1. {b \in body : At(b)' = "Solid"} = {b \in body : At(b) = "Solid"}
  BY SameGround
<1>2. (\A b \in body : At(b)' \in Passable \cup {"Solid"}) <=> \A b \in body : At(b) \in Passable \cup {"Solid"}
  BY SameGround
<1> HIDE DEF body
<1> QED BY <1>1, <1>2, SameGround, SamePush DEF BreakMoves, body

\* The moves from a cell do not change while the terrain does not.
LEMMA SameMoves == ASSUME terrain' = terrain, NEW c PROVE Successors(c)' = Successors(c)
<1>1. ASSUME NEW s PROVE SideMoves(c, s)' = SideMoves(c, s) /\ CornerMoves(c, s)' = CornerMoves(c, s)
  BY SameGround, SamePush, SameLevelMoves, SameBreakMoves DEF SideMoves, CornerMoves
<1>2. ClimbMoves(c)' = ClimbMoves(c)
  BY SameGround, SamePush DEF ClimbMoves
<1>3. WaterMoves(c)' = WaterMoves(c)
  <2> DEFINE near == {Shift(c, 0, 1, 0), Shift(c, 0, -1, 0)}
             wet == {d \in near : Swimmable(d) \/ Standable(d)}
  <2>1. wet' = wet
    BY SameGround
  <2> HIDE DEF wet
  <2>2. {Push(d, "Swim", 1)' : d \in wet'} = {Push(d, "Swim", 1) : d \in wet}
    BY <2>1, SamePush
  <2>3. WaterMoves(c)' = IF Policy.swimming /\ At(c)' = "Water"
                           THEN UNION {Push(d, "Swim", 1)' : d \in wet'} ELSE {}
    BY DEF WaterMoves, wet
  <2>4. WaterMoves(c) = IF Policy.swimming /\ At(c) = "Water"
                           THEN UNION {Push(d, "Swim", 1) : d \in wet} ELSE {}
    BY DEF WaterMoves, wet
  <2>5. At(c)' = At(c)
    BY SameGround
  <2> QED BY <2>2, <2>3, <2>4, <2>5, Zenon
<1>4. /\ {SideMoves(c, s)' : s \in Sides} = {SideMoves(c, s) : s \in Sides}
      /\ {CornerMoves(c, s)' : s \in Corners} = {CornerMoves(c, s) : s \in Corners}
  BY <1>1
<1> QED BY <1>2, <1>3, <1>4 DEF Successors

-----------------------------------------------------------------------------
(* The invariant.                                                           *)

\* The tree of the cells reached. The start, and nothing else, has no parent.
Tree ==
  /\ DOMAIN visited \subseteq Cells
  /\ SearchStart \in DOMAIN visited
  /\ visited[SearchStart].g = 0 /\ visited[SearchStart].parent = None
  /\ \A c \in DOMAIN visited : visited[c].g \in Nat
  /\ \A c \in DOMAIN visited \ {SearchStart} : visited[c].parent \in DOMAIN visited

Heap == \A n \in open : n.at \in DOMAIN visited

\* The cell given back is the nearest of those reached, and another than the start
\* only if it is nearer.
Nearest ==
  /\ best \in DOMAIN visited
  /\ outcome # "Complete" =>
       /\ \A c \in DOMAIN visited : Estimate[best] <= Estimate[c]
       /\ best = SearchStart \/ Estimate[best] < Estimate[SearchStart]
  /\ outcome = "Partial" => best # SearchStart

Inv == terrain \in Terrains /\ Tree /\ Heap /\ ParentsLeadBack /\ Nearest

\* A search that begins satisfies the invariant.
LEMMA InitInv == Init => Inv
<1> SUFFICES ASSUME Init PROVE Inv
  OBVIOUS
<1>1. terrain \in Terrains
  BY DEF Init
<1>2. SearchStart \in Cells
  BY <1>1, StartIsACell
<1>3. /\ DOMAIN visited = {SearchStart}
      /\ visited[SearchStart] = [g |-> 0, parent |-> None, kind |-> None]
      /\ open = {Node(SearchStart, 0)} /\ best = SearchStart /\ outcome = None
  BY DEF Init
<1>4. Tree
  BY <1>2, <1>3 DEF Tree
<1>5. Heap
  BY <1>3 DEF Heap, Node
<1>6. ParentsLeadBack
  BY <1>3 DEF ParentsLeadBack
<1>7. Nearest
  <2>1. Estimate[SearchStart] \in Nat
    BY <1>2, EstimateType
  <2> QED BY <1>3, <2>1 DEF Nearest, Outcomes
<1> QED BY <1>1, <1>4, <1>5, <1>6, <1>7 DEF Inv

\* What a step does that leaves the terrain and the cells reached alone.
LEMMA StillTree ==
  ASSUME Inv, terrain' = terrain, visited' = visited, open' \subseteq open
  PROVE  terrain' \in Terrains /\ Tree' /\ Heap' /\ ParentsLeadBack'
<1>1. SearchStart' = SearchStart
  BY SameStart
<1>2. \A c : Successors(c)' = Successors(c)
  BY SameMoves
<1>3. Tree' /\ Heap'
  BY <1>1 DEF Inv, Tree, Heap
<1>4. ParentsLeadBack'
  BY <1>1, <1>2 DEF Inv, ParentsLeadBack
<1> QED BY <1>3, <1>4 DEF Inv

\* NearestOf gives the best cell so far or one that is nearer.
LEMMA NearestChosen ==
  ASSUME NEW cells, cells \subseteq Cells, best \in Cells
  PROVE  /\ NearestOf(cells) \in cells \cup {best}
         /\ \A c \in cells \cup {best} : Estimate[NearestOf(cells)] <= Estimate[c]
         /\ NearestOf(cells) = best \/ Estimate[NearestOf(cells)] < Estimate[best]
<1> DEFINE nearer == {c \in cells : Estimate[c] < Estimate[best]}
<1>1. \A c \in cells \cup {best} : Estimate[c] \in Nat
  BY EstimateType
<1>2. CASE nearer = {}
  BY <1>1, <1>2 DEF NearestOf
<1>3. CASE nearer # {}
  <2> DEFINE S == {Estimate[c] : c \in nearer}
  <2>1. S \subseteq Nat /\ S # {}
    BY <1>1, <1>3
  <2>2. PICK n \in S : \A m \in S : n <= m
    <3> HIDE DEF S
    <3> QED BY <2>1, Least
  <2>3. \E c \in nearer : \A d \in nearer : Estimate[c] <= Estimate[d]
    BY <2>2
  <2>4. NearestOf(cells) \in nearer /\ \A d \in nearer : Estimate[NearestOf(cells)] <= Estimate[d]
    <3>1. NearestOf(cells) = CHOOSE c \in nearer : \A d \in nearer : Estimate[c] <= Estimate[d]
      BY <1>3 DEF NearestOf
    <3> HIDE DEF nearer
    <3> QED BY <2>3, <3>1
  <2>5. Estimate[NearestOf(cells)] < Estimate[best] /\ NearestOf(cells) \in cells
    BY <2>4
  <2>6. ASSUME NEW c \in cells \cup {best} PROVE Estimate[NearestOf(cells)] <= Estimate[c]
    <3>1. CASE c \in nearer
      BY <2>4, <3>1
    <3>2. CASE c \notin nearer
      <4>1. ~(Estimate[c] < Estimate[best])
        BY <1>1, <3>2
      <4> QED BY <1>1, <2>5, <4>1
    <3> QED BY <3>1, <3>2
  <2> QED BY <2>5, <2>6
<1> QED BY <1>2, <1>3

\* An expansion hangs the cells it reaches, or reaches more cheaply, under the cell it
\* expands, at a higher price than that one.
LEMMA ExpandInv == ASSUME Inv, NEW node \in Foremost, Expand(node) PROVE Inv'
<1> DEFINE at == node.at
           g == visited[at].g
           moves == Improving(Successors(at), g)
           found(c) == CHOOSE m \in moves : m.to = c
           cells == {m.to : m \in moves}
           reached(c) == [g |-> g + found(c).cost, parent |-> at, kind |-> found(c).kind]
<1>1. /\ visited' = [c \in cells \cup DOMAIN visited |->
                        IF c \in cells THEN reached(c) ELSE visited[c]]
      /\ open' = (open \ {node}) \cup {Node(c, g + found(c).cost) : c \in cells}
      /\ best' = NearestOf(cells)
      /\ terrain' = terrain /\ outcome' = outcome
  BY DEF Expand
<1>2. node \in open /\ outcome = None
  BY DEF Foremost
<1>3. at \in DOMAIN visited /\ at \in Cells /\ g \in Nat
  BY <1>2 DEF Inv, Heap, Tree
<1>4. ASSUME NEW m \in moves
      PROVE  /\ m \in Successors(at) /\ Legal(m) /\ g + m.cost \in Nat /\ g + m.cost > g
             /\ m.to \in DOMAIN visited => g + m.cost < visited[m.to].g
  <2>1. m \in Successors(at) /\ (m.to \in DOMAIN visited => g + m.cost < visited[m.to].g)
    BY DEF Improving
  <2>2. Legal(m)
    BY <1>3, <2>1, SuccessorsLegal DEF Inv
  <2> QED BY <1>3, <2>1, <2>2 DEF Legal
<1>5. ASSUME NEW c \in cells
      PROVE  found(c) \in moves /\ found(c).to = c
  <2>1. \E m \in moves : m.to = c
    BY <1>5
  <2> HIDE DEF moves
  <2> QED BY <2>1
<1> HIDE DEF moves, found
<1>6. ASSUME NEW c \in cells
      PROVE  /\ c \in Cells /\ visited'[c].parent = at
             /\ visited'[c].g = g + found(c).cost /\ visited'[c].g \in Nat /\ visited'[c].g > g
             /\ found(c) \in Successors(at) /\ found(c).to = c
             /\ c \in DOMAIN visited => visited'[c].g < visited[c].g
  BY <1>1, <1>4, <1>5 DEF Legal
<1>7. ASSUME NEW c \in DOMAIN visited, c \notin cells PROVE visited'[c] = visited[c]
  BY <1>1, <1>7
<1>8. DOMAIN visited' = cells \cup DOMAIN visited
  BY <1>1
<1> HIDE DEF cells
<1>9. SearchStart \notin cells
  BY <1>6 DEF Inv, Tree
<1>10. at \notin cells
  BY <1>3, <1>6
<1>11. SearchStart' = SearchStart /\ \A c : Successors(c)' = Successors(c)
  BY <1>1, SameStart, SameMoves
<1>12. \A c \in DOMAIN visited : visited'[c].g \in Nat /\ visited'[c].g <= visited[c].g
  BY <1>6, <1>7 DEF Inv, Tree
<1>13. Tree'
  <2>1. DOMAIN visited' \subseteq Cells /\ SearchStart \in DOMAIN visited'
    BY <1>6, <1>8 DEF Inv, Tree
  <2>2. visited'[SearchStart].g = 0 /\ visited'[SearchStart].parent = None
    BY <1>7, <1>9 DEF Inv, Tree
  <2>3. \A c \in DOMAIN visited' : visited'[c].g \in Nat
    BY <1>6, <1>8, <1>12
  <2>4. ASSUME NEW c \in DOMAIN visited' \ {SearchStart} PROVE visited'[c].parent \in DOMAIN visited'
    <3>1. CASE c \in cells
      BY <1>3, <1>6, <1>8, <3>1
    <3>2. CASE c \notin cells
      <4>1. c \in DOMAIN visited \ {SearchStart} /\ visited'[c] = visited[c]
        BY <1>7, <1>8, <3>2
      <4> QED BY <1>8, <4>1 DEF Inv, Tree
    <3> QED BY <3>1, <3>2
  <2> QED BY <1>11, <2>1, <2>2, <2>3, <2>4 DEF Tree
<1>14. Heap'
  <2>1. ASSUME NEW c \in cells PROVE Node(c, g + found(c).cost).at = c
    BY DEF Node
  <2>2. ASSUME NEW n \in open' PROVE n.at \in DOMAIN visited'
    BY <1>1, <1>8, <2>1 DEF Inv, Heap
  <2> QED BY <2>2 DEF Heap
<1>15. ASSUME NEW c \in DOMAIN visited' \ {SearchStart}
       PROVE  LET v == visited'[c]
              IN  /\ visited'[v.parent].g < v.g
                  /\ \E m \in Successors(v.parent) : m.to = c /\ visited'[v.parent].g + m.cost <= v.g
  <2>1. CASE c \in cells
    <3>1. visited'[at] = visited[at]
      BY <1>3, <1>7, <1>10
    <3>2. visited'[at].g < visited'[c].g /\ visited'[at].g + found(c).cost <= visited'[c].g
      BY <1>3, <1>6, <2>1, <3>1
    <3> QED BY <1>6, <2>1, <3>2
  <2>2. CASE c \notin cells
    <3>1. c \in DOMAIN visited \ {SearchStart} /\ visited'[c] = visited[c]
      BY <1>7, <1>8, <2>2
    <3> DEFINE p == visited[c].parent
    <3>2. p \in DOMAIN visited /\ visited[p].g \in Nat /\ visited[c].g \in Nat /\ p \in Cells
      BY <3>1 DEF Inv, Tree
    <3>3. visited'[p].g \in Nat /\ visited'[p].g <= visited[p].g
      BY <1>12, <3>2
    <3>4. PICK m \in Successors(p) : m.to = c /\ visited[p].g + m.cost <= visited[c].g
      BY <3>1 DEF Inv, ParentsLeadBack
    <3>5. visited[p].g < visited[c].g
      BY <3>1 DEF Inv, ParentsLeadBack
    <3>6. m.cost \in Nat
      BY <3>2, SuccessorsLegal DEF Inv, Legal
    <3> HIDE DEF p
    <3>7. visited'[p].g < visited[c].g /\ visited'[p].g + m.cost <= visited[c].g
      BY <3>2, <3>3, <3>4, <3>5, <3>6
    <3> QED BY <3>1, <3>4, <3>7 DEF p
  <2> QED BY <2>1, <2>2
<1>16. ParentsLeadBack'
  BY <1>11, <1>15 DEF ParentsLeadBack
<1>17. Nearest'
  <2>1. cells \subseteq Cells /\ best \in Cells /\ best \in DOMAIN visited
    BY <1>6 DEF Inv, Tree, Nearest
  <2>2. best' \in cells \cup {best} /\ \A c \in cells \cup {best} : Estimate[best'] <= Estimate[c]
    BY <1>1, <2>1, NearestChosen
  <2>3. /\ \A c \in DOMAIN visited : Estimate[best] <= Estimate[c]
        /\ best = SearchStart \/ Estimate[best] < Estimate[SearchStart]
    BY <1>2 DEF Inv, Nearest, Outcomes
  <2>4. best' \in DOMAIN visited' /\ best' \in Cells
    BY <1>8, <2>1, <2>2
  <2>5. ASSUME NEW c \in DOMAIN visited' PROVE Estimate[best'] <= Estimate[c]
    <3>1. c \in Cells
      BY <1>6, <1>8 DEF Inv, Tree
    <3>2. Estimate[best'] \in Nat /\ Estimate[best] \in Nat /\ Estimate[c] \in Nat
      BY <2>1, <2>4, <3>1, EstimateType
    <3>3. CASE c \in cells
      BY <2>2, <3>3
    <3>4. CASE c \in DOMAIN visited
      <4>1. Estimate[best'] <= Estimate[best] /\ Estimate[best] <= Estimate[c]
        BY <2>2, <2>3, <3>4
      <4> QED BY <3>2, <4>1
    <3> QED BY <1>8, <3>3, <3>4
  <2>6. best' = SearchStart \/ Estimate[best'] < Estimate[SearchStart]
    <3>1. SearchStart \in Cells
      BY DEF Inv, Tree
    <3>2. Estimate[best'] \in Nat /\ Estimate[best] \in Nat /\ Estimate[SearchStart] \in Nat
      BY <2>1, <2>4, <3>1, EstimateType
    <3>3. CASE best' = best
      BY <2>3, <3>3
    <3>4. CASE best' # best
      <4>1. Estimate[best'] < Estimate[best]
        BY <1>1, <2>1, <3>4, NearestChosen
      <4>2. Estimate[best] <= Estimate[SearchStart]
        BY <2>3 DEF Inv, Tree
      <4> QED BY <3>2, <4>1, <4>2
    <3> QED BY <3>3, <3>4
  <2>7. outcome' # "Partial" /\ Estimate' = Estimate
    BY <1>1, <1>2 DEF Outcomes
  <2> QED BY <1>11, <2>4, <2>5, <2>6, <2>7 DEF Nearest
<1> QED BY <1>1, <1>13, <1>14, <1>16, <1>17 DEF Inv

\* Every step of the search keeps the invariant.
LEMMA NextInv == Inv /\ [Next]_vars => Inv'
<1> SUFFICES ASSUME Inv, [Next]_vars PROVE Inv'
  OBVIOUS
\* What ends the search, but for the goal, gives back the nearest cell.
<1>1. ASSUME terrain' = terrain, visited' = visited, open' \subseteq open, best' = best,
             \/ outcome' = outcome
             \/ outcome = None /\ outcome' = GivenUp(best)
             \/ outcome = None /\ outcome' = "Cancelled"
      PROVE  Inv'
  <2>1. terrain' \in Terrains /\ Tree' /\ Heap' /\ ParentsLeadBack'
    BY <1>1, StillTree
  <2>2. SearchStart' = SearchStart
    BY <1>1, SameStart
  <2>3. outcome' # "Complete" => outcome # "Complete"
    BY <1>1 DEF Outcomes
  <2>4. outcome' = "Partial" => best # SearchStart
    BY <1>1 DEF GivenUp, Inv, Nearest
  <2>5. Nearest'
    BY <1>1, <2>2, <2>3, <2>4 DEF Inv, Nearest
  <2> QED BY <2>1, <2>5 DEF Inv
<1>2. CASE UNCHANGED vars
  BY <1>1, <1>2 DEF vars
<1>3. ASSUME NEW node \in Foremost, GoalReached(node) PROVE Inv'
  <2>1. node \in open
    BY DEF Foremost
  <2>2. terrain' \in Terrains /\ Tree' /\ Heap' /\ ParentsLeadBack'
    BY <1>3, StillTree DEF GoalReached
  <2>3. best' \in DOMAIN visited' /\ outcome' = "Complete"
    BY <1>3, <2>1 DEF GoalReached, Inv, Heap
  <2> QED BY <2>2, <2>3 DEF Inv, Nearest
<1>4. ASSUME NEW node \in Foremost, DropStale(node) PROVE Inv'
  BY <1>1, <1>4 DEF DropStale
<1>5. ASSUME NEW node \in Foremost, OutOfBudget(node) \/ CancelSeen(node) PROVE Inv'
  BY <1>1, <1>5 DEF OutOfBudget, CancelSeen, Foremost
<1>6. CASE Exhausted
  BY <1>1, <1>6 DEF Exhausted
<1> QED BY <1>2, <1>3, <1>4, <1>5, <1>6, ExpandInv DEF Next

\* The invariant always holds.
LEMMA AlwaysInv == Spec => []Inv
BY InitInv, NextInv, PTL DEF Spec

\* The cells reached form a tree that leads back to the start: each hangs under one
\* reached at a lower price, by a legal move, whatever is reached anew or more cheaply
\* (the map of Visits in search).
THEOREM LeadsBack == Spec => []ParentsLeadBack
BY AlwaysInv, PTL DEF Inv

\* A search that gives up gives back a cell nearer to its target than the start, and no
\* cell it reached is nearer (best_node of search).
THEOREM GivesNearest == Spec => []PartialIsNearest
<1>1. ASSUME Inv, outcome = "Partial"
      PROVE  /\ Estimate[best] < Estimate[SearchStart]
             /\ \A c \in DOMAIN visited : Estimate[best] <= Estimate[c]
  <2>1. outcome # "Complete"
    BY <1>1
  <2> QED BY <1>1, <2>1 DEF Inv, Nearest
<1>2. Inv => PartialIsNearest
  BY <1>1 DEF PartialIsNearest
<1> QED BY AlwaysInv, <1>2, PTL

-----------------------------------------------------------------------------
(* The route.                                                               *)

CellsFinite == IsFiniteSet(Cells)

\* The grid is finite.
LEMMA FiniteCells == CellsFinite
<1> DEFINE X == 0 .. Width - 1
           Y == 0 .. Height - 1
           Z == 0 .. Depth - 1
           F == [p \in (X \X Y) \X Z |-> <<p[1][1], p[1][2], p[2]>>]
<1>1. IsFiniteSet(X) /\ IsFiniteSet(Y) /\ IsFiniteSet(Z)
  <2>1. Width - 1 \in Int /\ Height - 1 \in Int /\ Depth - 1 \in Int /\ 0 \in Int
    OBVIOUS
  <2> QED BY <2>1, FS_Interval
<1>2. IsFiniteSet((X \X Y) \X Z)
  <2> HIDE DEF X, Y, Z
  <2> QED BY <1>1, FS_Product
<1>3. F \in Surjection((X \X Y) \X Z, Cells)
  <2> HIDE DEF X, Y, Z
  <2>1. Cells = X \X Y \X Z
    BY DEF Cells, X, Y, Z
  <2>2. F \in [(X \X Y) \X Z -> Cells]
    BY <2>1
  <2>3. ASSUME NEW c \in Cells PROVE \E p \in (X \X Y) \X Z : F[p] = c
    <3>1. c = <<c[1], c[2], c[3]>> /\ c[1] \in X /\ c[2] \in Y /\ c[3] \in Z
      BY <2>1
    <3>2. <<<<c[1], c[2]>>, c[3]>> \in (X \X Y) \X Z
      BY <3>1
    <3> QED BY <3>1, <3>2
  <2> QED BY <2>2, <2>3 DEF Surjection
<1> HIDE DEF F
<1> QED BY <1>2, <1>3, FS_Surjection DEF CellsFinite

\* A round of reconstruct, as a function.
Round(path) ==
  LET parent == visited[Head(path)].parent
  IN  IF parent = None THEN path ELSE <<parent>> \o path

\* A round of reconstruct puts the parent in front of a path of reached cells, up to the start.
LEMMA RoundIs ==
  ASSUME Tree, NEW path \in Seq(DOMAIN visited) \ {<<>>}
  PROVE  /\ Round(path) \in Seq(DOMAIN visited) \ {<<>>}
         /\ Head(path) = SearchStart => Round(path) = path
         /\ Head(path) # SearchStart =>
              /\ Len(Round(path)) = Len(path) + 1
              /\ Round(path)[1] = visited[Head(path)].parent
              /\ \A i \in 1 .. Len(path) : Round(path)[i + 1] = path[i]
<1>1. path \in Seq(DOMAIN visited) /\ path # <<>> /\ Head(path) \in DOMAIN visited
  BY HeadTailProperties
<1>2. CASE Head(path) = SearchStart
  BY <1>2 DEF Round, Tree
<1>3. CASE Head(path) # SearchStart
  <2> DEFINE parent == visited[Head(path)].parent
  <2>1. parent \in DOMAIN visited /\ parent # None
    BY <1>1, <1>3 DEF Tree
  <2>2. Round(path) = <<parent>> \o path
    BY <2>1 DEF Round
  <2>3. <<parent>> \in Seq(DOMAIN visited) /\ Len(<<parent>>) = 1 /\ <<parent>>[1] = parent
    BY <2>1
  <2> HIDE DEF parent
  <2>4. /\ Round(path) \in Seq(DOMAIN visited) /\ Len(Round(path)) = 1 + Len(path)
        /\ \A i \in 1 .. 1 + Len(path) : Round(path)[i] = IF i <= 1 THEN <<parent>>[i] ELSE path[i - 1]
    BY <1>1, <2>2, <2>3, ConcatProperties
  <2>5. Len(path) \in Nat
    BY <1>1, LenProperties
  <2>6. Round(path)[1] = parent
    BY <2>3, <2>4, <2>5
  <2>7. ASSUME NEW i \in 1 .. Len(path) PROVE Round(path)[i + 1] = path[i]
    <3>1. i + 1 \in 1 .. 1 + Len(path) /\ ~(i + 1 <= 1) /\ (i + 1) - 1 = i
      BY <2>5
    <3> QED BY <2>4, <3>1
  <2>8. Round(path) # <<>> /\ Len(Round(path)) = Len(path) + 1
    BY <2>4, <2>5
  <2> QED BY <1>3, <2>4, <2>6, <2>7, <2>8 DEF parent
<1> QED BY <1>2, <1>3

\* The rounds of reconstruct from the best cell are a sequence of such paths.
LEMMA TrailIs ==
  ASSUME Tree, best \in DOMAIN visited
  PROVE  /\ Trail \in [Nat -> Seq(DOMAIN visited) \ {<<>>}]
         /\ Trail[0] = <<best>>
         /\ \A n \in Nat : Trail[n + 1] = Round(Trail[n])
<1> DEFINE S == Seq(DOMAIN visited) \ {<<>>}
           step == [path \in S |-> Round(path)]
           Is(f) == f = [n \in Nat |-> IF n = 0 THEN <<best>>
                                      ELSE LET path == f[n - 1]
                                               parent == visited[Head(path)].parent
                                           IN  IF parent = None THEN path ELSE <<parent>> \o path]
<1>1. <<best>> \in S
  OBVIOUS
<1>2. step \in [S -> S]
  BY RoundIs
<1> HIDE DEF S
<1> HIDE DEF step
<1>3. PICK f \in [Nat -> S] : f[0] = <<best>> /\ \A n \in Nat : f[n + 1] = step[f[n]]
  <2>1. Recurs(S, <<best>>, step)
    BY <1>1, <1>2, Recursion
  <2> QED BY <2>1 DEF Recurs
<1>4. Is(f)
  <2>1. ASSUME NEW n \in Nat, n # 0 PROVE f[n] = Round(f[n - 1])
    <3>1. n - 1 \in Nat /\ (n - 1) + 1 = n
      BY <2>1
    <3>2. f[n - 1] \in S /\ f[n] = step[f[n - 1]]
      BY <1>3, <3>1
    <3> QED BY <3>2 DEF step
  <2> QED BY <1>3, <2>1 DEF Round
<1>5. Trail = CHOOSE g : Is(g)
  BY DEF Trail
<1>6. Is(Trail)
  <2> HIDE DEF Is
  <2> QED BY <1>4, <1>5
<1>7. Trail[0] = <<best>>
  BY <1>6
<1>8. ASSUME NEW n \in Nat PROVE Trail[n + 1] = Round(Trail[n])
  <2>1. n + 1 \in Nat /\ n + 1 # 0 /\ (n + 1) - 1 = n
    OBVIOUS
  <2> QED BY <1>6, <2>1 DEF Round
<1>9. ASSUME NEW n \in Nat PROVE Trail[n] \in S
  <2> DEFINE Good == {k \in Nat : Trail[k] \in S}
  <2>1. 0 \in Good
    BY <1>1, <1>7
  <2>2. ASSUME NEW k \in Nat, k \in Good PROVE k + 1 \in Good
    <3>1. Trail[k] \in S
      BY <2>2
    <3>2. Round(Trail[k]) \in S
      BY <3>1, RoundIs DEF S
    <3> QED BY <1>8, <3>2
  <2>3. Nat \subseteq Good
    <3> HIDE DEF Good
    <3> QED BY <2>1, <2>2, Induction
  <2> QED BY <2>3
<1>10. Trail \in [Nat -> S]
  BY <1>6, <1>9
<1> QED BY <1>7, <1>8, <1>10 DEF S

\* Everything on the trail has been reached, and nothing but its head is the start.
LEMMA TrailLeads ==
  ASSUME Tree, best \in DOMAIN visited, NEW n \in Nat
  PROVE  \A i \in 2 .. Len(Trail[n]) : Trail[n][i] \in DOMAIN visited \ {SearchStart}
<1> DEFINE Good == {k \in Nat : \A i \in 2 .. Len(Trail[k]) : Trail[k][i] \in DOMAIN visited \ {SearchStart}}
<1>1. 0 \in Good
  <2>1. Trail[0] = <<best>> /\ Len(<<best>>) = 1
    BY TrailIs
  <2>2. 2 .. Len(Trail[0]) = {}
    BY <2>1
  <2> QED BY <2>2
<1>2. ASSUME NEW k \in Nat, k \in Good PROVE k + 1 \in Good
  <2> DEFINE path == Trail[k]
  <2>1. path \in Seq(DOMAIN visited) \ {<<>>} /\ Trail[k + 1] = Round(path)
    BY TrailIs
  <2>2. \A i \in 2 .. Len(path) : path[i] \in DOMAIN visited \ {SearchStart}
    BY <1>2
  <2>3. Len(path) \in Nat /\ Len(path) >= 1 /\ path[1] = Head(path) /\ Head(path) \in DOMAIN visited
    BY <2>1, LenProperties, HeadTailProperties, EmptySeq
  <2> HIDE DEF path
  <2>4. CASE Head(path) = SearchStart
    BY <2>1, <2>2, <2>4, RoundIs
  <2>5. CASE Head(path) # SearchStart
    <3>1. ASSUME NEW i \in 2 .. Len(Round(path)) PROVE Round(path)[i] \in DOMAIN visited \ {SearchStart}
      <4>1. Len(Round(path)) = Len(path) + 1
        BY <2>1, <2>5, RoundIs
      <4>2. i - 1 \in 1 .. Len(path) /\ (i - 1) + 1 = i
        BY <2>3, <4>1
      <4>3. Round(path)[i] = path[i - 1]
        BY <2>1, <2>5, <4>2, RoundIs
      <4>4. CASE i - 1 = 1
        BY <2>3, <2>5, <4>3, <4>4
      <4>5. CASE i - 1 # 1
        <5>1. i - 1 \in 2 .. Len(path)
          BY <2>3, <4>2, <4>5
        <5> QED BY <2>2, <4>3, <5>1
      <4> QED BY <4>4, <4>5
    <3> QED BY <2>1, <3>1
  <2> QED BY <2>4, <2>5
<1>3. Nat \subseteq Good
  <2> HIDE DEF Good
  <2> QED BY <1>1, <1>2, Induction
<1> QED BY <1>3

\* No route has the bot stand in lava, over lava or in a place that has not been
\* sampled, whatever the moves on it are: the planner never allows lava.
THEOREM RoutesAreSafe == ASSUME ~Policy.lava PROVE Spec => []SafeFooting
<1>1. ASSUME Inv, NEW c \in DOMAIN visited \ {SearchStart} PROVE Footing(c)
  <2>1. visited[c].parent \in Cells /\ \E m \in Successors(visited[c].parent) : m.to = c
    BY <1>1 DEF Inv, Tree, ParentsLeadBack
  <2> QED BY <1>1, <2>1, SuccessorsLegal DEF Inv, Legal
<1>2. ASSUME Inv, NEW c \in Range(Tail(Path)) PROVE c \in DOMAIN visited \ {SearchStart}
  <2>1. Cardinality(DOMAIN visited) \in Nat
    BY <1>2, FiniteCells, FS_Subset, FS_CardinalityType DEF CellsFinite, Inv, Tree
  <2>2. Path \in Seq(DOMAIN visited) \ {<<>>}
    BY <1>2, <2>1, TrailIs DEF Path, Inv, Nearest
  <2>3. \A i \in 2 .. Len(Path) : Path[i] \in DOMAIN visited \ {SearchStart}
    BY <1>2, <2>1, TrailLeads DEF Path, Inv, Nearest
  <2>4. PICK i \in DOMAIN Tail(Path) : c = Tail(Path)[i]
    BY <1>2 DEF Range
  <2>5. /\ Tail(Path) \in Seq(DOMAIN visited) /\ Len(Tail(Path)) = Len(Path) - 1
        /\ \A j \in 1 .. Len(Tail(Path)) : Tail(Path)[j] = Path[j + 1]
    BY <2>2, HeadTailProperties
  <2>6. Len(Path) \in Nat /\ i \in 1 .. Len(Path) - 1
    BY <2>2, <2>4, <2>5, LenProperties
  <2>7. i + 1 \in 2 .. Len(Path) /\ c = Path[i + 1]
    BY <2>4, <2>5, <2>6
  <2> QED BY <2>3, <2>7
<1>3. Inv => SafeFooting
  BY <1>1, <1>2 DEF SafeFooting, Footing
<1> QED BY AlwaysInv, <1>3, PTL

\* A chain of parents to the cell best, each at a lower price than all that follow.
IsChain(path) ==
  /\ path[Len(path)] = best
  /\ \A i \in 1 .. Len(path) - 1 : visited[path[i + 1]].parent = path[i]
  /\ \A i \in 2 .. Len(path) : path[i] # SearchStart
  /\ \A i, j \in 1 .. Len(path) : i < j => visited[path[i]].g < visited[path[j]].g

\* Every round makes the chain longer until it has come to the start.
LEMMA TrailIsChain ==
  ASSUME Inv, NEW n \in Nat
  PROVE  IsChain(Trail[n]) /\ (Trail[n][1] = SearchStart \/ Len(Trail[n]) = n + 1)
<1> DEFINE Good == {k \in Nat : IsChain(Trail[k]) /\ (Trail[k][1] = SearchStart \/ Len(Trail[k]) = k + 1)}
<1>0. Tree /\ best \in DOMAIN visited
  BY DEF Inv, Nearest
<1>1. 0 \in Good
  <2> DEFINE path == <<best>>
  <2>1. Len(path) = 1 /\ path[1] = best
    OBVIOUS
  <2> HIDE DEF path
  <2>2. IsChain(path)
    BY <2>1 DEF IsChain
  <2>3. Trail[0] = path
    BY <1>0, TrailIs DEF path
  <2> QED BY <2>1, <2>2, <2>3
<1>2. ASSUME NEW k \in Nat, k \in Good PROVE k + 1 \in Good
  <2> DEFINE path == Trail[k]
             long == Round(path)
  <2>1. path \in Seq(DOMAIN visited) \ {<<>>} /\ Trail[k + 1] = long
    BY <1>0, TrailIs
  <2>2. IsChain(path) /\ (path[1] = SearchStart \/ Len(path) = k + 1)
    BY <1>2
  <2>3. Len(path) \in Nat /\ Len(path) >= 1 /\ path[1] = Head(path) /\ Head(path) \in DOMAIN visited
    BY <2>1, LenProperties, HeadTailProperties, EmptySeq
  <2> HIDE DEF path
  <2>4. CASE Head(path) = SearchStart
    <3>1. long = path
      BY <1>0, <2>1, <2>4, RoundIs
    <3>2. Trail[k + 1] = path
      BY <2>1, <3>1
    <3>3. path[1] = SearchStart
      BY <2>3, <2>4
    <3>4. k + 1 \in Nat
      OBVIOUS
    <3> QED BY <2>2, <3>2, <3>3, <3>4, Zenon
  <2>5. CASE Head(path) # SearchStart
    <3> DEFINE parent == visited[Head(path)].parent
    <3>1. /\ Len(long) = Len(path) + 1 /\ long[1] = parent
          /\ \A i \in 1 .. Len(path) : long[i + 1] = path[i]
      BY <1>0, <2>1, <2>5, RoundIs
    <3>2. /\ parent \in DOMAIN visited /\ visited[parent].g < visited[Head(path)].g
      BY <1>0, <2>3, <2>5 DEF Inv, Tree, ParentsLeadBack
    <3> HIDE DEF long
    <3>3. \A i \in 2 .. Len(long) : i - 1 \in 1 .. Len(path) /\ long[i] = path[i - 1]
      <4>1. ASSUME NEW i \in 2 .. Len(long) PROVE i - 1 \in 1 .. Len(path) /\ long[i] = path[i - 1]
        <5>1. i - 1 \in 1 .. Len(path) /\ (i - 1) + 1 = i
          BY <2>3, <3>1
        <5> QED BY <3>1, <5>1
      <4> QED BY <4>1
    <3>4. long[Len(long)] = best
      BY <2>2, <2>3, <3>1, <3>3 DEF IsChain
    <3>5. ASSUME NEW i \in 1 .. Len(long) - 1 PROVE visited[long[i + 1]].parent = long[i]
      <4>1. i \in 1 .. Len(path) /\ long[i + 1] = path[i]
        BY <2>3, <3>1
      <4>2. CASE i = 1
        BY <2>3, <3>1, <4>1, <4>2
      <4>3. CASE i # 1
        <5>1. i \in 2 .. Len(long) /\ i - 1 \in 1 .. Len(path) - 1 /\ (i - 1) + 1 = i
          BY <2>3, <3>1, <4>1, <4>3
        <5>2. visited[path[i]].parent = path[i - 1]
          BY <2>2, <5>1 DEF IsChain
        <5> QED BY <3>3, <4>1, <5>1, <5>2
      <4> QED BY <4>2, <4>3
    <3>6. ASSUME NEW i \in 2 .. Len(long) PROVE long[i] # SearchStart
      <4>1. CASE i = 2
        BY <2>3, <2>5, <3>3, <4>1
      <4>2. CASE i # 2
        <5>1. i - 1 \in 2 .. Len(path)
          BY <2>3, <3>1, <4>2
        <5> QED BY <2>2, <3>3, <5>1 DEF IsChain
      <4> QED BY <4>1, <4>2
    <3>7. ASSUME NEW i \in 1 .. Len(long), NEW j \in 1 .. Len(long), i < j
          PROVE  visited[long[i]].g < visited[long[j]].g
      <4>1. j \in 2 .. Len(long) /\ j - 1 \in 1 .. Len(path) /\ long[j] = path[j - 1]
        BY <2>3, <3>1, <3>3, <3>7
      <4>2. CASE i = 1
        <5>1. visited[Head(path)].g <= visited[path[j - 1]].g
          <6>1. ASSUME NEW l \in 1 .. Len(path) PROVE visited[path[l]].g \in Nat
            BY <1>0, <2>1, ElementOfSeq DEF Tree
          <6>2. CASE j - 1 = 1
            BY <2>3, <4>1, <6>1, <6>2
          <6>3. CASE j - 1 # 1
            <7>1. 1 \in 1 .. Len(path) /\ 1 < j - 1
              BY <2>3, <4>1, <6>3
            <7>2. visited[path[1]].g < visited[path[j - 1]].g
              BY <2>2, <4>1, <7>1 DEF IsChain
            <7>3. visited[path[1]].g \in Nat /\ visited[path[j - 1]].g \in Nat
              BY <4>1, <6>1, <7>1
            <7> QED BY <2>3, <7>2, <7>3
          <6> QED BY <6>2, <6>3
        <5>2. path[j - 1] \in DOMAIN visited /\ \A c \in DOMAIN visited : visited[c].g \in Nat
          BY <1>0, <2>1, <4>1, ElementOfSeq DEF Tree
        <5>3. visited[parent].g \in Nat /\ visited[Head(path)].g \in Nat /\ visited[path[j - 1]].g \in Nat
          BY <2>3, <3>2, <5>2
        <5> HIDE DEF parent
        <5>4. visited[parent].g < visited[path[j - 1]].g
          BY <3>2, <5>1, <5>3
        <5>5. long[i] = parent /\ long[j] = path[j - 1]
          BY <3>1, <4>1, <4>2
        <5> QED BY <5>4, <5>5
      <4>3. CASE i # 1
        <5>1. i \in 2 .. Len(long) /\ i - 1 \in 1 .. Len(path) /\ long[i] = path[i - 1] /\ i - 1 < j - 1
          BY <2>3, <3>1, <3>3, <3>7, <4>3
        <5> QED BY <2>2, <4>1, <5>1 DEF IsChain
      <4> QED BY <4>2, <4>3
    <3>8. IsChain(long)
      BY <3>4, <3>5, <3>6, <3>7 DEF IsChain
    <3>9. Len(long) = (k + 1) + 1
      BY <2>2, <2>3, <2>5, <3>1
    <3> QED BY <2>1, <3>8, <3>9
  <2> QED BY <2>4, <2>5
<1>3. Nat \subseteq Good
  <2> HIDE DEF Good
  <2> QED BY <1>1, <1>2, Induction
<1> QED BY <1>3

\* From the start to the cell given back, one legal move after the other.
Walkable(path) ==
  /\ path[1] = SearchStart /\ path[Len(path)] = best
  /\ \A i \in 1 .. Len(path) - 1 : \E m \in Successors(path[i]) : m.to = path[i + 1]

\* The loop of reconstruct ends, although the search rewrites the parents of cells it
\* reaches more cheaply, and what it gives is a route: it begins at the start, ends at
\* the cell the search gives back, and every step of it is a legal move.
THEOREM RoutesAreWalkable == Spec => []Walkable(Path)
<1>1. ASSUME Inv PROVE Walkable(Path)
  <2> DEFINE V == DOMAIN visited
             n == Cardinality(V)
  <2>1. IsFiniteSet(V) /\ n \in Nat
    BY <1>1, FiniteCells, FS_Subset, FS_CardinalityType DEF CellsFinite, Inv, Tree
  <2>2. Path = Trail[n] /\ Path \in Seq(V) \ {<<>>}
    BY <1>1, <2>1, TrailIs DEF Path, Inv, Nearest
  <2>3. IsChain(Path) /\ (Path[1] = SearchStart \/ Len(Path) = n + 1)
    BY <1>1, <2>1, <2>2, TrailIsChain
  <2> HIDE DEF n, V
  <2>4. Len(Path) \in Nat /\ Path \in [1 .. Len(Path) -> V]
    BY <2>2, LenProperties
  <2>5. Path[1] = SearchStart
    <3> SUFFICES ASSUME Len(Path) = n + 1 PROVE FALSE
      BY <2>3
    <3>1. IsFiniteSet(1 .. n + 1) /\ Cardinality(1 .. n + 1) = n + 1
      <4>1. n + 1 \in Int /\ 1 \in Int /\ ~(1 > n + 1) /\ (n + 1) - 1 + 1 = n + 1
        BY <2>1
      <4> QED BY <4>1, FS_Interval
    <3>2. n < n + 1
      BY <2>1
    <3>3. PICK i \in 1 .. n + 1, j \in 1 .. n + 1 : i # j /\ Path[i] = Path[j]
      BY <2>1, <2>4, <3>1, <3>2, FS_PigeonHole DEF n
    <3>4. \A c \in V : visited[c].g \in Nat
      BY <1>1 DEF Inv, Tree, V
    <3>5. visited[Path[i]].g \in Nat
      BY <2>4, <3>4
    <3>6. i < j \/ j < i
      BY <2>1, <3>3
    <3> QED BY <2>3, <3>3, <3>5, <3>6 DEF IsChain
  <2>6. ASSUME NEW i \in 1 .. Len(Path) - 1
        PROVE  \E m \in Successors(Path[i]) : m.to = Path[i + 1]
    <3>1. i + 1 \in 2 .. Len(Path) /\ i + 1 \in 1 .. Len(Path)
      BY <2>4
    <3>2. visited[Path[i + 1]].parent = Path[i] /\ Path[i + 1] # SearchStart
      BY <2>3, <3>1 DEF IsChain
    <3>3. Path[i + 1] \in V
      BY <2>4, <3>1
    <3> QED BY <1>1, <3>2, <3>3 DEF Inv, ParentsLeadBack, V
  <2> QED BY <2>3, <2>5, <2>6 DEF Walkable, IsChain
<1> QED BY AlwaysInv, <1>1, PTL
=============================================================================
