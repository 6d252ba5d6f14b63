----------------------------- MODULE TransferPlan -----------------------------
(***************************************************************************)
(* plan_transfer (container/planner.rs): the pickup clicks that carry an    *)
(* amount of one item between a chest and the player's inventory, and what  *)
(* a click does to the menu.                                                *)
(*                                                                         *)
(* Slots are numbered as in the protocol, the chest's first.  A slot holds  *)
(* a count of the one item asked for; a slot with another item is neither a *)
(* source nor a destination, like one that is not there.                    *)
(***************************************************************************)
EXTENDS Integers, Sequences, FiniteSetsExt, SequencesExt

CONSTANTS
  ChestSlots, PlayerSlots,   \* how many slots of each
  MaxStack                   \* max_count of the item

ASSUME TransferPlanAssumption ==
  ChestSlots \in Nat \ {0} /\ PlayerSlots \in Nat \ {0} /\ MaxStack \in Nat \ {0}

Slots == 1..(ChestSlots + PlayerSlots)
Directions == {"take", "store"}
Menus == [Slots -> 0..MaxStack]

ChestRange == [n \in 1..ChestSlots |-> n]
PlayerRange == [n \in 1..PlayerSlots |-> ChestSlots + n]
Sources(dir) == IF dir = "take" THEN ChestRange ELSE PlayerRange
Destinations(dir) == IF dir = "take" THEN PlayerRange ELSE ChestRange

\* What lies in each source, and what each destination has room for.
Stacks(menu, dir) == [i \in DOMAIN Sources(dir) |-> menu[Sources(dir)[i]]]
Rooms(menu, dir) == [j \in DOMAIN Destinations(dir) |-> MaxStack - menu[Destinations(dir)[j]]]

\* What the first n amounts come to.
Upto(amounts, n) ==
  LET sum[k \in 0..n] == IF k = 0 THEN 0 ELSE sum[k - 1] + amounts[k] IN sum[n]

Available(menu, dir) == Upto(Stacks(menu, dir), Len(Sources(dir)))
Capacity(menu, dir) == Upto(Rooms(menu, dir), Len(Destinations(dir)))

\* The order of the checks; PartialOnly does not occur, allow_partial is set.
PlanError(menu, dir, count) ==
  IF count = 0 THEN "ServerRejected"
  ELSE IF Available(menu, dir) = 0 THEN "ItemNotFound"
  ELSE IF Capacity(menu, dir) = 0 THEN "DestinationFull"
  ELSE "none"

Feasible(menu, dir, count) ==
  Min({count, Available(menu, dir), Capacity(menu, dir)})

-----------------------------------------------------------------------------
(* The greedy loop takes the sources in order and fills the first           *)
(* destination with room.  Laid end to end, the stacks of the sources and   *)
(* the rooms of the destinations are intervals of the amount carried: the   *)
(* loop moves from the i-th source to the j-th destination what their       *)
(* intervals share.                                                         *)

From(menu, dir, i, j) ==
  Max({Upto(Stacks(menu, dir), i - 1), Upto(Rooms(menu, dir), j - 1)})
To(menu, dir, i, j, total) ==
  Min({Upto(Stacks(menu, dir), i), Upto(Rooms(menu, dir), j), total})

Moving(menu, dir, i, j, total) == To(menu, dir, i, j, total) - From(menu, dir, i, j)
\* source_remaining
Remaining(menu, dir, i, j) == Upto(Stacks(menu, dir), i) - From(menu, dir, i, j)

Left(s) == [slot |-> s, button |-> "left"]
Right(s) == [slot |-> s, button |-> "right"]

\* Pick the stack up; put it down whole, or one by one and the rest back.
PutWhole(s, d) == <<Left(s), Left(d)>>
\* (Mutant: the rest stays on the cursor.)
KeepRest(s, d, n) == <<Left(s)>> \o [k \in 1..n |-> Right(d)]
PutSome(s, d, n) == <<Left(s)>> \o [k \in 1..n |-> Right(d)] \o <<Left(s)>>

Carry(menu, dir, i, j, total) ==
  LET moving == Moving(menu, dir, i, j, total)
      s == Sources(dir)[i]
      d == Destinations(dir)[j]
  IN IF moving <= 0 THEN <<>>
     ELSE IF moving = Remaining(menu, dir, i, j) THEN PutWhole(s, d)
     ELSE PutSome(s, d, moving)

PlanClicks(menu, dir, count) ==
  FlattenSeq([i \in DOMAIN Sources(dir) |->
    FlattenSeq([j \in DOMAIN Destinations(dir) |->
      Carry(menu, dir, i, j, Feasible(menu, dir, count))])])

-----------------------------------------------------------------------------
(* Azalea's prediction of a pickup click (PickupClick), with a cursor.      *)

LeftClick(menu, cursor, s) ==
  IF cursor = 0
    THEN [menu |-> [menu EXCEPT ![s] = 0], cursor |-> menu[s]]
    ELSE LET n == Min({cursor, MaxStack - menu[s]})
         IN [menu |-> [menu EXCEPT ![s] = @ + n], cursor |-> cursor - n]

RightClick(menu, cursor, s) ==
  IF cursor = 0
    THEN [menu |-> [menu EXCEPT ![s] = @ \div 2], cursor |-> (menu[s] + 1) \div 2]
    ELSE LET n == Min({1, MaxStack - menu[s]})
         IN [menu |-> [menu EXCEPT ![s] = @ + n], cursor |-> cursor - n]

Clicked(menu, cursor, click) ==
  IF click.button = "left" THEN LeftClick(menu, cursor, click.slot)
                           ELSE RightClick(menu, cursor, click.slot)
=============================================================================
