--------------------------------- MODULE Fight ---------------------------------
(***************************************************************************)
(* A fight with a player: KillController (combat/kill.rs) and the tick of   *)
(* combat/executor.rs with its two machines, the bite (combat/consume.rs)   *)
(* and the wind charge launch (combat/wind_launch.rs).  It runs beside the  *)
(* water clutch of Survival.tla and everything else that moves the hand.    *)
(*                                                                         *)
(* One tick is a sequence of steps: the aim, the bite, the legs, the        *)
(* launch, the weapon and the swing, the shield.  Each maps a state s of    *)
(* the bot to the set of states it may leave: positions, health, cooldowns, *)
(* the fall and what the inventory holds are chosen freely.  Which of       *)
(* sword, axe and mace the weapon is, is not told apart.                    *)
(***************************************************************************)
EXTENDS Survival

CONSTANTS
  MinHits, MaxHits,  \* MACE_ATTEMPT_MIN_HITS and MACE_ATTEMPT_MAX_HITS
  Deadline           \* ticks after which a state of a machine is surely overdue

VARIABLES
  legs,   \* the walk keys the fight holds down, the goal it gave the movement service
  fight   \* the fight in hand; its fields count only while it runs

fightVars == <<hand, camera, clutch, legs, fight>>

ASSUME FightAssumption ==
  /\ MinHits \in Nat /\ MaxHits \in Nat /\ MinHits <= MaxHits
  /\ Deadline \in Nat \ {0}

LegsType == [keys : BOOLEAN, goal : BOOLEAN]

BiteStates == {"Idle", "Preparing", "WaitingForSlotAck", "Using", "RestoringWeapon"}
LaunchStates == {"Idle", "Preparing", "WaitingForSlotAck", "AimingDown", "WaitingForLaunch"}

FightType == [ state : {"Created", "Running", "Completed", "Failed", "Cancelled"},
               approaching : BOOLEAN,   \* the pathfinder drives
               aimed : BOOLEAN,         \* look_target_set_for
               shield : BOOLEAN,        \* shield_raised
               bite : BiteStates,
               launch : LaunchStates,
               age : Nat,               \* ticks since either machine changed its state
               hits : 0 .. MaxHits ]    \* still to land before the next launch

\* reset_for_new_fight; the fields a fight left are read by nobody before that.
Reset(state, hits) ==
  [ state |-> state, approaching |-> FALSE, aimed |-> FALSE, shield |-> FALSE,
    bite |-> "Idle", launch |-> "Idle", age |-> 0, hits |-> hits ]

Standing == [keys |-> FALSE, goal |-> FALSE]

FightInit == SurvivalInit /\ legs = Standing /\ fight = Reset("Created", 0)

TypeOK == SurvivalTypeOK /\ legs \in LegsType /\ fight \in FightType

Running == fight.state = "Running"

\* blocks_combat, and is_active of the launch
BiteBlocks(f) == f.bite \in {"Preparing", "WaitingForSlotAck", "Using"}
LaunchActive(f) == f.launch # "Idle"

(***************************************************************************)
(* Steps over the state s of a tick.                                        *)
(***************************************************************************)
Here == [hand |-> hand, camera |-> camera, legs |-> legs, fight |-> fight]

Then(S, Step(_)) == UNION {Step(s) : s \in S}

\* (Mutant: no deadline.)
NeverOverdue(age) == BOOLEAN

\* A state is overdue after its deadline; ticks take any time before that.
Overdue(age) == IF age >= Deadline THEN {TRUE} ELSE BOOLEAN

EnterBite(s, state) == [s EXCEPT !.fight.bite = state, !.fight.age = 0]
EnterLaunch(s, state) == [s EXCEPT !.fight.launch = state, !.fight.age = 0]

\* equip_item_at_slot: refused under the guard, or there may be no such item.
Equip(s, slot) ==
  IF Refused(s.hand) THEN {s} ELSE {s, [s EXCEPT !.hand = Select(@, slot)]}

RestoreWeapon(s) == Equip(s, "weapon")

\* (Mutant: the movement service is left walking.)
StopKeys(s) ==
  RestoreWeapon([s EXCEPT !.hand = StopUsing(Release(@)), !.legs.keys = FALSE, !.camera = CancelLook(@)])

\* stop_all
StopAll(s) ==
  RestoreWeapon([s EXCEPT !.hand = StopUsing(Release(@)), !.legs = Standing, !.camera = CancelLook(@)])

\* track_aim: the look is submitted once, and again if that fails.
TrackAim(s) ==
  IF s.fight.aimed THEN {s}
  ELSE {[s EXCEPT !.camera = LookAtTarget(@), !.fight.aimed = ok] : ok \in BOOLEAN}

(***************************************************************************)
(* The bite.                                                                *)
(***************************************************************************)
\* ConsumeMachine::fail and its driver: the weapon comes back before a retry.
BiteFails(s) == RestoreWeapon([EnterBite(s, "Idle") EXCEPT !.hand = Release(@)])

\* begin_consume: no food, or the hold on the hand, the shield down and the food in the hotbar.
BeginBite(s) ==
  LET held == [s EXCEPT !.hand = Hold(IF s.fight.shield THEN StopUsing(@) ELSE @),
                        !.fight.shield = FALSE]
  IN {s, EnterBite(held, "Preparing"), [held EXCEPT !.hand = Release(@)]}

\* start_use_main_hand: no use of the food while the shield is in use, nor when
\* a swap has put something else into its slot.
UseMainHand(h) == {h, [h EXCEPT !.using = IF @ = "shield" THEN @ ELSE "food"]}

\* advance: the machine waits until its state is overdue.
KeepBiting(s) ==
  UNION {IF late THEN BiteFails(s) ELSE {s} : late \in Overdue(s.fight.age)}

\* drive_consume
DriveBite(s) ==
  CASE s.fight.bite = "Preparing" ->
         {[EnterBite(s, "WaitingForSlotAck") EXCEPT !.hand = Select(@, "food")]}
    [] s.fight.bite = "WaitingForSlotAck" ->
         UNION {IF known THEN {[EnterBite(s, "Using") EXCEPT !.hand = h] : h \in UseMainHand(s.hand)}
                ELSE KeepBiting(s) : known \in Acknowledged(s.hand, "food")}
    [] s.fight.bite = "Using" /\ s.hand.using = "swallowed" ->
         RestoreWeapon([EnterBite(s, "RestoringWeapon") EXCEPT !.hand = Release(StopUsing(@))])
    [] s.fight.bite = "RestoringWeapon" /\ s.hand.selected = "weapon" ->
         {EnterBite([s EXCEPT !.hand = Release(@)], "Idle")} \cup KeepBiting(s)
    [] OTHER -> KeepBiting(s)

\* apply_eating: a target about to die ends the bite or keeps it from
\* beginning, and so do a sound health, the cooldown and the retry delay.
AbandonBite(s) == EnterBite([s EXCEPT !.hand = Release(@)], "Idle")

Eat(s) ==
  IF s.fight.bite # "Idle" THEN DriveBite(s) \cup {AbandonBite(s)}
  ELSE {s} \cup IF LaunchActive(s.fight) THEN {} ELSE BeginBite(s)

\* combat_blocked: no shield and no sprint.
CombatBlocked(s) == BiteBlocks(s.fight) \/ LaunchActive(s.fight)

(***************************************************************************)
(* The legs: the pathfinder far away, the keys close by.                    *)
(***************************************************************************)
Approach(s) ==
  LET off == IF s.fight.approaching THEN s
             ELSE [s EXCEPT !.legs.keys = FALSE, !.fight.approaching = TRUE]
  IN {off, [off EXCEPT !.legs.goal = TRUE]}

\* Keys the controller lets go for a tick count as held.
CloseIn(s) ==
  LET on == IF s.fight.approaching
              THEN [s EXCEPT !.legs = Standing, !.fight.approaching = FALSE] ELSE s
  IN [on EXCEPT !.legs.keys = ~LaunchActive(s.fight)]

\* pathfinder_should_drive
Walk(s) == Approach(s) \cup {CloseIn(s)}

(***************************************************************************)
(* The wind charge launch.                                                  *)
(***************************************************************************)
Rerolled(s) == {[s EXCEPT !.fight.hits = hits] : hits \in MinHits .. MaxHits}

WantsLaunch(f) == f.bite = "Idle" /\ f.launch = "Idle" /\ f.hits = 0

\* begin_wind_launch past finding a charge: the swap of it into its slot may fail.
BeginLaunch(s) == Rerolled(EnterLaunch([s EXCEPT !.hand = Hold(@)], "Preparing"))

\* (Mutant: the guard stays up.)
LaunchLeftHeld(s) == [EnterLaunch(s, "Idle") EXCEPT !.camera = ReleasePrecise(@)]

\* The end of a launch, either way.
LaunchOver(s) == [EnterLaunch(s, "Idle") EXCEPT !.hand = Release(@), !.camera = ReleasePrecise(@)]

\* WindLaunchAction::Launched: the mace is equipped best-effort, past the guard.
Launched(s) == Equip(LaunchOver(s), "weapon")

\* advance, like the one of the bite
KeepLaunching(s) == {IF late THEN LaunchOver(s) ELSE s : late \in Overdue(s.fight.age)}

\* drive_wind_launch: any slot the server knows of will do, any look down is settled.
DriveLaunch(s) ==
  CASE s.fight.launch = "Preparing" ->
         {[EnterLaunch(s, "WaitingForSlotAck") EXCEPT !.hand = Select(@, "charge")]}
    [] s.fight.launch = "WaitingForSlotAck" /\ s.hand.told # "never" ->
         {[EnterLaunch(s, "AimingDown") EXCEPT !.camera = AimPrecisely(@, "down")]}
    [] s.fight.launch = "AimingDown" /\ s.camera.aim \in {"down", "water"} ->
         {EnterLaunch(s, "WaitingForLaunch")} \cup KeepLaunching(s)
    [] s.fight.launch = "WaitingForLaunch" -> Launched(s) \cup KeepLaunching(s)
    [] OTHER -> KeepLaunching(s)

(***************************************************************************)
(* Weapon, swing and shield.                                                *)
(***************************************************************************)
\* swing: a mace starts the count anew, any other weapon is counted.
\* Readiness, reach and the wait for a critical hit only put it off.
Swing(s) ==
  {s, [s EXCEPT !.fight.hits = IF @ = 0 THEN 0 ELSE @ - 1]} \cup Rerolled(s)

\* apply_weapon_selection: sword, axe or mace, or the wait for a smash.
SelectWeapon(s) == Equip(s, "weapon")

\* apply_attack
Attack(s) == Then(SelectWeapon(s), Swing)

\* The middle of tick: a bite claims the turn, then a launch, then the weapon.
Act(s) ==
  CASE s.fight.bite # "Idle" -> {s}
    [] s.fight.bite = "Idle" /\ LaunchActive(s.fight) -> DriveLaunch(s)
    [] OTHER -> Attack(s) \cup (IF WantsLaunch(s.fight) THEN BeginLaunch(s) ELSE {})

\* apply_defense: only a change is sent, and a shield in use stays so.
Defend(s) ==
  {s} \cup {IF s.fight.shield
        THEN [s EXCEPT !.hand = StopUsing(@), !.fight.shield = FALSE]
        ELSE [s EXCEPT !.hand.using = IF @ = "food" THEN @ ELSE "shield", !.fight.shield = TRUE]}

\* What follows the bite; whether the shield is blocked is read before the launch.
AfterBite(s) ==
  LET acted == Then(Walk(s), Act)
  IN IF CombatBlocked(s) THEN acted ELSE Then(acted, Defend)

(***************************************************************************)
(* tick and the calls of KillController.                                    *)
(***************************************************************************)
Become(s) == hand' = s.hand /\ camera' = s.camera /\ legs' = s.legs /\ fight' = s.fight

\* A tick later; the age counts only while a machine is under way.
Aged == [Here EXCEPT !.fight.age = IF fight.bite # "Idle" \/ fight.launch # "Idle" THEN @ + 1 ELSE 0]

\* tick with a live target in reach of the eyes.
FightOn ==
  /\ Running
  /\ \E s \in Then(Then(TrackAim(Aged), Eat), AfterBite) : Become(s)
  /\ UNCHANGED clutch

\* handle_unresolved_target: the target is in the tab list but out of sight.
TargetUnseen ==
  /\ Running
  /\ Become([Here EXCEPT !.legs.keys = FALSE, !.fight.aimed = FALSE])
  /\ UNCHANGED clutch

Ended(outcome) ==
  /\ Running
  /\ \E s \in StopAll(Here) : Become([s EXCEPT !.fight = Reset(outcome, 0)])
  /\ UNCHANGED clutch

\* disconnect, lose_target and abort
TargetLost == Ended("Failed")
TargetDies == Ended("Completed")
Cancel == Ended("Cancelled")

\* KillController::start, which replaces a fight that runs.
Kill ==
  /\ \E hits \in MinHits .. MaxHits :
       Become([Here EXCEPT !.hand = Release(@), !.fight = Reset("Running", hits)])
  /\ UNCHANGED clutch

(***************************************************************************)
(* The rest of the program.                                                 *)
(***************************************************************************)
Arrive ==
  /\ legs.goal
  /\ legs' = [legs EXCEPT !.goal = FALSE]
  /\ UNCHANGED <<hand, camera, clutch, fight>>

\* control/stop.rs: movement, the fight, the clutch, and the camera last.
EmergencyStop ==
  /\ \E s \in IF Running THEN StopAll(Here) ELSE {Here} :
       /\ hand' = GiveBack(s.hand)
       /\ fight' = IF Running THEN Reset("Cancelled", 0) ELSE fight
  /\ legs' = [legs EXCEPT !.goal = FALSE, !.keys = @ /\ ~Running]
  /\ camera' = CancelLook(camera)
  /\ clutch' = NoClutch

\* The connection is lost, and the select loop cleans up before the next one.
SessionEnds ==
  /\ \E slot \in HotbarSlots : hand' = [Joined(slot) EXCEPT !.guard = hand.guard /\ ~Running]
  /\ camera' = CancelLook(camera)
  /\ clutch' = NoClutch
  /\ legs' = Standing
  /\ fight' = IF Running THEN Reset("Cancelled", 0) ELSE fight

\* It comes back before the select loop sees it gone: inside a blocking wait.
SessionSlips ==
  /\ \E slot \in HotbarSlots : hand' = [Joined(slot) EXCEPT !.guard = hand.guard]
  /\ legs' = [legs EXCEPT !.keys = FALSE]
  /\ UNCHANGED <<camera, clutch, fight>>

ClutchStep == SurvivalNext /\ UNCHANGED <<legs, fight>>

Next ==
  \/ FightOn
  \/ TargetUnseen
  \/ TargetLost
  \/ TargetDies
  \/ Cancel
  \/ Kill
  \/ Arrive
  \/ EmergencyStop
  \/ SessionEnds
  \/ SessionSlips
  \/ ClutchStep

Spec == FightInit /\ [][Next]_fightVars

(***************************************************************************)
(* Properties.                                                              *)
(***************************************************************************)
\* The guard that locks everybody else out of the inventory is up exactly
\* while one of the two machines holds the hand, and never both
\* (begin_consume_guard and end_consume_guard, over every exit of a fight).
GuardHasAnOwner ==
  /\ hand.guard <=> Running /\ (BiteBlocks(fight) \/ LaunchActive(fight))
  /\ ~(fight.bite # "Idle" /\ LaunchActive(fight))

\* While the guard is up no state of a machine outlives its deadline, so the
\* hand is not held forever (SLOT_ACK_TIMEOUT, USE_TIMEOUT, AIM_TIMEOUT and
\* LAUNCH_TIMEOUT of the two machines).
GuardIsBrief == hand.guard => fight.age < Deadline

\* From the selection of the food's slot until the bite has landed or failed
\* only the clutch or a new session selects another one (refuse_while_consuming).
\* It says nothing of what lies in the slot, which a swap may change meanwhile.
Chewing == BiteBlocks(fight) /\ hand.selected = "food"
SlotStaysOnTheBite ==
  [][Chewing /\ BiteBlocks(fight') /\ hand'.selected # "food"
       => clutch' # clutch \/ hand'.told = "never"]_fightVars

\* A fight that is over leaves nothing on: no guard, no key down, no goal of
\* its own, nothing in use and neither of its aims, not even one to come
\* back to (stop_all).
LeavesNothingOn ==
  ~Running => /\ ~hand.guard /\ hand.using = "nothing"
              /\ legs = Standing
              /\ {camera.aim, camera.suspended} \cap {"target", "down"} = {}

\* What a launch throws is the wind charge (WaitingForSlotAck's comment in wind_launch.rs).
ThrowsTheCharge ==
  [][fight.launch = "AimingDown" /\ fight'.launch = "WaitingForLaunch"
       => hand.selected = "charge" /\ hand.told = "current"]_fightVars

\* The pathfinder and the raw input never drive together (executor.rs:34-38).
OneDriver == ~(legs.keys /\ legs.goal)

\* While it fights, the camera has the target, unless a precise aim has
\* displaced it for a while (track_aim submits the look once).
KeepsItsAim ==
  Running /\ fight.aimed => "target" \in {camera.aim, camera.suspended}
=============================================================================
