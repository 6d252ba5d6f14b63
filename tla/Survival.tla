------------------------------- MODULE Survival -------------------------------
(***************************************************************************)
(* The water clutch of survival/mod.rs: a dangerous fall takes the hand and *)
(* the camera, puts water under the bot, scoops it up and gives both back.  *)
(* The hand, the hold on it and the camera are state it shares with a fight *)
(* (Fight.tla).                                                             *)
(*                                                                         *)
(* Coordinates and speeds are abstracted to what the decisions read: when   *)
(* the bot lands, is in reach or runs out of time is chosen freely.  A      *)
(* client call of a tick fails only without a connection, and no tick then  *)
(* gets as far as the call.  Of the hotbar the model has the selected slot  *)
(* but not what lies in each: that a slot holds what it was selected for is *)
(* chosen freely where something is used.                                   *)
(***************************************************************************)
EXTENDS Naturals, SequencesExt

CONSTANTS
  MaxScoops,   \* MAX_RECOVER_ATTEMPTS
  Columns      \* the columns of blocks the bot may fall through

VARIABLES
  hand,    \* guard, selected, told, using: see HandType
  camera,  \* what the look controller holds, and the look a precise aim displaced
  clutch   \* state, the slot to give back, how often it has tried to scoop

survivalVars == <<hand, camera, clutch>>

Cells == {"air", "grass", "stone", "water", "lava", "unloaded"}
ASSUME SurvivalAssumption == MaxScoops \in Nat /\ Columns \subseteq Seq(Cells)

\* Hotbar slots are known by what the bot looks for there; the weapon's stands
\* for every slot that neither the bite nor the launch asks for.  The bucket has
\* no name of its own, because it may lie in any of them.
HotbarSlots == {"weapon", "food", "charge"}

HandType == [ guard : BOOLEAN,                     \* consume_guard
              selected : HotbarSlots,              \* the slot selected locally
              told : {"never", "stale", "current"},  \* what the server knows of that
              using : {"nothing", "food", "swallowed", "shield"} ]

Aims == {"free", "target", "down", "water"}
CameraType == [aim : Aims, precise : BOOLEAN, suspended : Aims]

ClutchType == [ state : {"Idle", "Suppressed", "Tracking", "Placed", "Recovering"},
                previous : HotbarSlots \cup {"unset"},
                scoops : 0 .. MaxScoops ]

\* The server restores the slot the bot held when it was last there.
Joined(slot) == [guard |-> FALSE, selected |-> slot, told |-> "never", using |-> "nothing"]
Unaimed == [aim |-> "free", precise |-> FALSE, suspended |-> "free"]
NoClutch == [state |-> "Idle", previous |-> "unset", scoops |-> 0]

SurvivalInit ==
  /\ \E slot \in HotbarSlots : hand = Joined(slot)
  /\ camera = Unaimed /\ clutch = NoClutch

SurvivalTypeOK == hand \in HandType /\ camera \in CameraType /\ clutch \in ClutchType

(***************************************************************************)
(* The hand and the camera.                                                 *)
(***************************************************************************)
\* select_hotbar_slot_during_consume
Select(h, slot) ==
  IF h.selected = slot THEN h
  ELSE [h EXCEPT !.selected = slot, !.told = IF @ = "never" THEN @ ELSE "stale"]

\* Whether acknowledged_hotbar_slot is that slot: of an older selection the
\* model forgets which it was.
Acknowledged(h, slot) ==
  CASE h.told = "current" -> {h.selected = slot}
    [] h.told = "stale" /\ h.selected # slot -> BOOLEAN
    [] OTHER -> {FALSE}

\* (Mutant: nobody asks.)
NeverRefused(h) == FALSE

\* refuse_while_consuming: what the selections, clicks and transfers of others
\* go through.  The fight, the clutch and the swaps of the two equipment
\* services (SwapInHand) have calls of their own that do not ask.
Refused(h) == h.guard

Release(h) == [h EXCEPT !.guard = FALSE]  \* end_consume_guard
Hold(h) == [h EXCEPT !.guard = TRUE]      \* begin_consume_guard
StopUsing(h) == [h EXCEPT !.using = "nothing"]

LookAtTarget(c) == [c EXCEPT !.aim = "target", !.precise = FALSE]

\* (Mutant: a precise aim is displaced like any other look.)
DisplaceAnyAim(c, aim) ==
  [aim |-> aim, precise |-> TRUE, suspended |-> IF c.aim # "free" THEN c.aim ELSE c.suspended]

AimPrecisely(c, aim) ==
  [ aim |-> aim, precise |-> TRUE,
    suspended |-> IF ~c.precise /\ c.aim # "free" THEN c.aim ELSE c.suspended ]

\* cancel; the precision that it leaves behind counts only with a target.
CancelLook(c) == Unaimed

\* release_precise: the displaced look comes back, or else any look ends.
ReleasePrecise(c) ==
  IF c.suspended = "free" THEN CancelLook(c)
  ELSE [aim |-> c.suspended, precise |-> FALSE, suspended |-> "free"]

\* The client's next game tick tells the server of the slot; a bite of
\* something the hand no longer holds is over.
SendSlot ==
  /\ hand.told # "current"
  /\ hand' = [hand EXCEPT !.told = "current",
                          !.using = IF @ = "food" /\ hand.selected # "food" THEN "nothing" ELSE @]
  /\ UNCHANGED <<camera, clutch>>

\* The server finishes the bite, or something else interrupts it.
BiteEnds ==
  /\ hand.using = "food"
  /\ hand' \in {[hand EXCEPT !.using = "swallowed"], StopUsing(hand)}
  /\ UNCHANGED <<camera, clutch>>

\* Any other part of the program selects a slot, which nothing but the
\* guard keeps it from.
SelectOther(slot) ==
  /\ ~Refused(hand)
  /\ hand' = Select(hand, slot)
  /\ UNCHANGED <<camera, clutch>>

\* swap_into_slot_during_consume of the hotbar and inventory services, which
\* the guard does not keep from the slot in the hand: what was being eaten
\* lies elsewhere.
SwapInHand ==
  /\ hand.using = "food"
  /\ hand' = StopUsing(hand)
  /\ UNCHANGED <<camera, clutch>>

(***************************************************************************)
(* Where the bot will land: what lies first in the column under its feet.   *)
(***************************************************************************)
Replaceable(cell) == cell \in {"air", "grass"}
Support(column) == SelectInSeq(column, LAMBDA cell : ~Replaceable(cell))

Landing(column) ==
  LET support == Support(column)
      cell == column[support]
  IN IF support = 0 \/ cell = "unloaded" THEN "Unknown"
     ELSE IF cell \in {"water", "lava"} THEN "SafeLiquid"
     ELSE "Prediction"

(***************************************************************************)
(* tick: falling, dangerous and in the placement window are the senses'.    *)
(***************************************************************************)
Clutching == clutch.state \in {"Tracking", "Placed", "Recovering"}

\* The Nether, no water bucket, or one that could not be brought into the hand:
\* interaction and mob combat, which are not of this module, are cancelled even
\* then.
CannotArm ==
  /\ clutch.state = "Idle"
  /\ clutch' = [clutch EXCEPT !.state = "Suppressed"]
  /\ UNCHANGED <<hand, camera>>

\* tick_idle: interaction and mob combat are cancelled, a fight with a player
\* is not.  The bucket may be in any slot, or is swapped into one, the first of
\* a full hotbar, whatever it held and even when it is the selected one.  The
\* slot to give back is the selected one of the last world snapshot, which has
\* one as it has the bucket, but which a selection since may have outdated.
Arm(column, slot, seen) ==
  /\ clutch.state = "Idle" /\ Landing(column) = "Prediction"
  /\ clutch' = [state |-> "Tracking", previous |-> seen, scoops |-> 0]
  /\ hand' = Select(hand, slot)
  /\ camera' = AimPrecisely(camera, "water")

\* tick_suppressed: grounded, or no longer falling.
FallOver ==
  /\ clutch.state = "Suppressed"
  /\ clutch' = [clutch EXCEPT !.state = "Idle"]
  /\ UNCHANGED <<hand, camera>>

\* The slot, which may have become the bucket's own.
GiveBack(h) == IF clutch.previous = "unset" THEN h ELSE Select(h, clutch.previous)

Abort ==
  /\ clutch' = [clutch EXCEPT !.state = "Suppressed", !.previous = "unset"]
  /\ hand' = GiveBack(hand)
  /\ camera' = ReleasePrecise(camera)

Finish ==
  /\ clutch' = NoClutch
  /\ hand' = GiveBack(hand)
  /\ camera' = ReleasePrecise(camera)

\* The bot died or landed early, its aim failed, the surface is out of
\* sight, the bucket is gone, the placement failed, or no landing in time.
ClutchFails == clutch.state \in {"Tracking", "Placed"} /\ Abort

\* tick_tracking: the landing point drifted.
Track(column) ==
  /\ clutch.state = "Tracking" /\ Landing(column) = "Prediction"
  /\ camera' = AimPrecisely(camera, "water")
  /\ UNCHANGED <<hand, clutch>>

DriftOverLiquid(column) ==
  /\ clutch.state = "Tracking" /\ Landing(column) = "SafeLiquid"
  /\ Finish

\* The window is open: the bucket's slot is selected once more and used at once.
Place(column, drifted, slot) ==
  /\ clutch.state = "Tracking" /\ Landing(column) = "Prediction"
  /\ camera' = IF drifted THEN AimPrecisely(camera, "water") ELSE camera
  /\ hand' = Select(hand, slot)
  /\ clutch' = [clutch EXCEPT !.state = "Placed"]

\* tick_placed: the water is there, and the first scoop is made.
Land ==
  /\ clutch.state = "Placed"
  /\ clutch' = [clutch EXCEPT !.state = "Recovering", !.scoops = 0]
  /\ UNCHANGED <<hand, camera>>

\* tick_placed: dead, no water where it was placed, or it may stay there.
LandForGood == clutch.state = "Placed" /\ Finish

ScoopAgain ==
  /\ clutch.state = "Recovering" /\ clutch.scoops < MaxScoops
  /\ clutch' = [clutch EXCEPT !.scoops = @ + 1]
  /\ UNCHANGED <<hand, camera>>

\* tick_recovering: a water bucket in the hotbar, or enough tries.
Recovered == clutch.state = "Recovering" /\ Finish

SurvivalNext ==
  \/ SendSlot
  \/ BiteEnds
  \/ \E slot \in HotbarSlots : SelectOther(slot)
  \/ SwapInHand
  \/ CannotArm
  \/ \E column \in Columns, slot, seen \in HotbarSlots : Arm(column, slot, seen)
  \/ FallOver
  \/ ClutchFails
  \/ \E column \in Columns : Track(column)
  \/ \E column \in Columns : DriftOverLiquid(column)
  \/ \E column \in Columns, drifted \in BOOLEAN, slot \in HotbarSlots : Place(column, drifted, slot)
  \/ Land
  \/ LandForGood
  \/ ScoopAgain
  \/ Recovered

\* The clutch leaves no aim of its own behind: once it is over, however it
\* ended and whatever looks and precise aims came between, the camera does
\* not point at where the water should go, nor is that a look to come back to
\* (suspended_look and release_precise of look/look_controller.rs; finish and abort).
AimEndsWithTheClutch == ~Clutching => "water" \notin {camera.aim, camera.suspended}
=============================================================================
