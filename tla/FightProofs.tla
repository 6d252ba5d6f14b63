------------------------------ MODULE FightProofs ------------------------------
(***************************************************************************)
(* Who holds the hand, and what a fight leaves behind, for any number of     *)
(* scoops, any columns to fall through, any span of hits and any deadline.   *)
(***************************************************************************)
EXTENDS Fight, TLAPS

States == [hand : HandType, camera : CameraType, legs : LegsType, fight : FightType]

\* GuardHasAnOwner of the state of a tick.
Owned(s) ==
  /\ s.hand.guard <=> s.fight.state = "Running" /\ (BiteBlocks(s.fight) \/ LaunchActive(s.fight))
  /\ ~(s.fight.bite # "Idle" /\ LaunchActive(s.fight))

\* What holds of a state from which a step of a tick starts.
Sound(s) == s \in States /\ Owned(s) /\ s.fight.state = "Running"

\* GuardIsBrief of such a state, at the end of a tick and when it has just begun.
Brief(s) == s.hand.guard => s.fight.age < Deadline
Ripe(s) == s.hand.guard => s.fight.age <= Deadline

\* Once the bite has had its turn only a launch may still be overdue.
Timely(s) == Brief(s) \/ (LaunchActive(s.fight) /\ Ripe(s))

\* Only a precise aim is at the water, and it is never displaced.
Tame(c) == c.suspended # "water" /\ (c.aim = "water" => c.precise)

\* From camera c to camera d without turning to the water.
Dry(c, d) == Tame(c) => Tame(d) /\ (d.aim = "water" => c.aim = "water")

\* A step of a tick keeps it so and does not turn the camera to the water.
Leads(s, t) == Sound(t) /\ Dry(s.camera, t.camera)

USE FightAssumption, SurvivalAssumption

\* A machine that has just changed its state is not overdue.
LEMMA AtOnce == ASSUME NEW s, s.fight.age = 0 PROVE Brief(s)
BY DEF Brief

-----------------------------------------------------------------------------
\* The functions of the hand and the camera keep their types.
LEMMA SelectType ==
  ASSUME NEW h \in HandType, NEW slot \in HotbarSlots
  PROVE /\ Select(h, slot) \in HandType
        /\ Select(h, slot).guard = h.guard
        /\ Select(h, slot).selected = slot
BY DEF Select, HandType

\* Leaving the camera as it is turns it nowhere.
LEMMA DryStill == ASSUME NEW c PROVE Dry(c, c)
BY DEF Dry

\* One step after another.
LEMMA DryOn == ASSUME NEW c, NEW d, NEW e, Dry(c, d), Dry(d, e) PROVE Dry(c, e)
BY DEF Dry

\* A precise aim leaves a camera.
LEMMA AimType ==
  ASSUME NEW c \in CameraType, NEW aim \in Aims
  PROVE /\ AimPrecisely(c, aim) \in CameraType
        /\ Tame(c) => Tame(AimPrecisely(c, aim))
        /\ AimPrecisely(c, aim).aim = aim
BY DEF AimPrecisely, CameraType, Aims, Tame

\* Releasing, cancelling and looking at the target leave a camera.
LEMMA ReleaseAimType ==
  ASSUME NEW c \in CameraType
  PROVE /\ ReleasePrecise(c) \in CameraType /\ CancelLook(c) \in CameraType /\ LookAtTarget(c) \in CameraType
        /\ Dry(c, ReleasePrecise(c)) /\ Dry(c, CancelLook(c)) /\ Dry(c, LookAtTarget(c))
        /\ Tame(c) => ReleasePrecise(c).aim # "water"
BY DEF ReleasePrecise, CancelLook, LookAtTarget, Unaimed, CameraType, Aims, Dry, Tame

\* equip_item_at_slot changes only the hand, and under the guard nothing.
LEMMA EquipLeads ==
  ASSUME NEW s \in States, NEW t \in Equip(s, "weapon")
  PROVE /\ t \in States
        /\ t.fight = s.fight /\ t.hand.guard = s.hand.guard
        /\ t.camera = s.camera
<1>1. CASE t = s
  BY <1>1
<1>2. CASE t = [s EXCEPT !.hand = Select(@, "weapon")]
  <2>1. Select(s.hand, "weapon") \in HandType /\ Select(s.hand, "weapon").guard = s.hand.guard
        /\ Select(s.hand, "weapon").selected = "weapon"
    BY SelectType DEF States, HotbarSlots
  <2> QED BY <1>2, <2>1 DEF States
<1> QED BY <1>1, <1>2 DEF Equip

-----------------------------------------------------------------------------
\* The steps of a tick, one after the other.
LEMMA TrackAimLeads ==
  ASSUME NEW s, Sound(s), NEW t \in TrackAim(s)
  PROVE Leads(s, t) /\ (Ripe(s) => Ripe(t))
<1>1. CASE s.fight.aimed
  BY <1>1, DryStill DEF TrackAim, Leads
<1>2. CASE ~s.fight.aimed
  <2>1. PICK ok \in BOOLEAN : t = [s EXCEPT !.camera = LookAtTarget(@), !.fight.aimed = ok]
    BY <1>2 DEF TrackAim
  <2>2. LookAtTarget(s.camera) \in CameraType /\ Dry(s.camera, LookAtTarget(s.camera))
    BY ReleaseAimType DEF Sound, States
  <2> QED BY <2>1, <2>2 DEF Sound, Leads, Owned, Ripe, States, FightType, BiteBlocks, LaunchActive
<1> QED BY <1>1, <1>2

\* A bite that fails, and the weapon coming back.
LEMMA BiteFailsLeads ==
  ASSUME NEW s, Sound(s), ~LaunchActive(s.fight), NEW t \in BiteFails(s)
  PROVE Leads(s, t) /\ ~t.hand.guard
<1> DEFINE u == [EnterBite(s, "Idle") EXCEPT !.hand = Release(@)]
<1>1. u \in States /\ u.camera = s.camera /\ u.fight.bite = "Idle" /\ ~u.hand.guard
      /\ u.fight.launch = "Idle" /\ u.fight.state = "Running"
  BY DEF EnterBite, Release, Sound, States, FightType, HandType, BiteStates, LaunchActive
<1>2. t \in Equip(u, "weapon")
  BY DEF BiteFails, RestoreWeapon
<1> HIDE DEF u
<1>3. t \in States /\ t.fight = u.fight /\ t.hand.guard = u.hand.guard
      /\ t.camera = u.camera
  BY <1>1, <1>2, EquipLeads
<1> QED BY <1>1, <1>3, DryStill DEF Leads, Sound, Owned, BiteBlocks, LaunchActive

\* A bite that goes on is sound and brief.
LEMMA KeepBitingLeads ==
  ASSUME NEW s, Sound(s), ~LaunchActive(s.fight), NEW t \in KeepBiting(s)
  PROVE Leads(s, t) /\ (Ripe(s) => Brief(t))
<1>1. (t = s /\ ~(s.fight.age >= Deadline)) \/ t \in BiteFails(s)
  <2>1. PICK late \in Overdue(s.fight.age) : t \in IF late THEN BiteFails(s) ELSE {s}
    BY DEF KeepBiting
  <2>2. s.fight.age >= Deadline => late
    BY DEF Overdue
  <2> QED BY <2>1, <2>2
<1>2. s.fight.age \in Nat
  BY DEF Sound, States, FightType
<1> QED BY <1>1, <1>2, BiteFailsLeads, DryStill DEF Leads, Brief

\* A bite that begins takes the guard at age zero.
LEMMA BeginBiteLeads ==
  ASSUME NEW s, Sound(s), s.fight.bite = "Idle", ~LaunchActive(s.fight), NEW t \in BeginBite(s)
  PROVE Leads(s, t) /\ Brief(t)
<1> DEFINE held == [s EXCEPT !.hand = Hold(IF s.fight.shield THEN StopUsing(@) ELSE @),
                             !.fight.shield = FALSE]
<1>1. held \in States /\ held.camera = s.camera /\ held.hand.guard
      /\ held.fight.bite = "Idle" /\ held.fight.launch = "Idle" /\ held.fight.state = "Running"
  BY DEF Hold, StopUsing, Sound, States, FightType, HandType, LaunchActive
<1>2. t \in {s, EnterBite(held, "Preparing"), [held EXCEPT !.hand = Release(@)]}
  BY DEF BeginBite
<1> HIDE DEF held
<1>3. CASE t = s
  BY <1>3, DryStill DEF Leads, Brief, Sound, Owned, BiteBlocks
<1>4. CASE t = EnterBite(held, "Preparing")
  <2>1. /\ t \in States /\ t.hand = held.hand /\ t.camera = held.camera
        /\ t.fight.bite = "Preparing" /\ t.fight.launch = "Idle" /\ t.fight.age = 0
        /\ t.fight.state = "Running"
    BY <1>1, <1>4 DEF EnterBite, States, FightType, BiteStates
  <2> QED BY <1>1, <2>1, AtOnce, DryStill DEF Leads, Sound, Owned, BiteBlocks, LaunchActive
<1>5. CASE t = [held EXCEPT !.hand = Release(@)]
  BY <1>1, <1>5, DryStill DEF Release, Leads, Brief, Sound, Owned, States, HandType, FightType, BiteBlocks, LaunchActive
<1> QED BY <1>2, <1>3, <1>4, <1>5

\* A tick of the bite is sound and brief.
LEMMA DriveBiteLeads ==
  ASSUME NEW s, Sound(s), s.fight.bite # "Idle", NEW t \in DriveBite(s)
  PROVE Leads(s, t) /\ (Ripe(s) => Brief(t))
<1>0. s \in States /\ ~LaunchActive(s.fight) /\ s.fight.launch = "Idle"
  BY DEF Sound, Owned, LaunchActive
<1>1. CASE s.fight.bite = "Preparing"
  <2>1. t = [EnterBite(s, "WaitingForSlotAck") EXCEPT !.hand = Select(@, "food")]
    BY <1>1 DEF DriveBite
  <2>2. Select(s.hand, "food") \in HandType /\ Select(s.hand, "food").guard = s.hand.guard
        /\ Select(s.hand, "food").selected = "food"
    BY <1>0, SelectType DEF States, HotbarSlots
  <2>3. /\ t \in States /\ t.hand.guard = s.hand.guard /\ t.camera = s.camera
        /\ t.fight.bite = "WaitingForSlotAck" /\ t.fight.launch = s.fight.launch /\ t.fight.age = 0
        /\ t.fight.state = s.fight.state
    BY <1>0, <2>1, <2>2 DEF EnterBite, States, FightType, BiteStates
  <2> QED BY <1>0, <1>1, <2>3, AtOnce, DryStill DEF Leads, Sound, Owned, BiteBlocks, LaunchActive
<1>2. CASE s.fight.bite = "WaitingForSlotAck"
  <2>1. t \in KeepBiting(s) \/ \E h \in UseMainHand(s.hand) : t = [EnterBite(s, "Using") EXCEPT !.hand = h]
    BY <1>2 DEF DriveBite
  <2>2. CASE \E h \in UseMainHand(s.hand) : t = [EnterBite(s, "Using") EXCEPT !.hand = h]
    <3>1. /\ t \in States /\ t.hand.guard = s.hand.guard /\ t.camera = s.camera
          /\ t.fight.bite = "Using" /\ t.fight.launch = s.fight.launch /\ t.fight.age = 0
          /\ t.fight.state = s.fight.state
      <4>1. PICK h \in UseMainHand(s.hand) : t = [EnterBite(s, "Using") EXCEPT !.hand = h]
        BY <2>2
      <4>2. h \in HandType /\ h.guard = s.hand.guard
        BY <1>0, <4>1 DEF UseMainHand, States, HandType
      <4> QED BY <1>0, <4>1, <4>2 DEF EnterBite, States, FightType, BiteStates
    <3> QED BY <1>0, <1>2, <3>1, AtOnce, DryStill DEF Leads, Sound, Owned, BiteBlocks, LaunchActive
  <2> QED BY <1>0, <2>1, <2>2, KeepBitingLeads
<1>3. CASE s.fight.bite = "Using" /\ s.hand.using = "swallowed"
  <2> DEFINE u == [EnterBite(s, "RestoringWeapon") EXCEPT !.hand = Release(StopUsing(@))]
  <2>1. u \in States /\ u.camera = s.camera /\ ~u.hand.guard
        /\ u.fight.bite = "RestoringWeapon" /\ u.fight.launch = "Idle" /\ u.fight.state = "Running"
    BY <1>0 DEF EnterBite, Release, StopUsing, Sound, States, HandType, FightType, BiteStates
  <2>2. t \in Equip(u, "weapon")
    BY <1>3 DEF DriveBite, RestoreWeapon
  <2> HIDE DEF u
  <2>3. t \in States /\ t.fight = u.fight /\ t.hand.guard = u.hand.guard
        /\ t.camera = u.camera
    BY <2>1, <2>2, EquipLeads
  <2> QED BY <2>1, <2>3, DryStill DEF Leads, Brief, Sound, Owned, BiteBlocks, LaunchActive
<1>4. CASE s.fight.bite = "RestoringWeapon" /\ s.hand.selected = "weapon"
  <2>1. t \in KeepBiting(s) \/ t = EnterBite([s EXCEPT !.hand = Release(@)], "Idle")
    BY <1>4 DEF DriveBite
  <2>2. CASE t = EnterBite([s EXCEPT !.hand = Release(@)], "Idle")
    BY <1>0, <1>4, <2>2, DryStill DEF Release, EnterBite, Leads, Brief, Sound, Owned, States, HandType, FightType,
                            BiteStates, BiteBlocks, LaunchActive
  <2> QED BY <1>0, <2>1, <2>2, KeepBitingLeads
<1>5. CASE /\ s.fight.bite \notin {"Preparing", "WaitingForSlotAck"}
           /\ ~(s.fight.bite = "Using" /\ s.hand.using = "swallowed")
           /\ ~(s.fight.bite = "RestoringWeapon" /\ s.hand.selected = "weapon")
  <2>1. t \in KeepBiting(s)
    BY <1>5 DEF DriveBite
  <2> QED BY <1>0, <2>1, KeepBitingLeads
<1> QED BY <1>1, <1>2, <1>3, <1>4, <1>5

\* The part of the tick that eats is sound and timely.
LEMMA EatLeads ==
  ASSUME NEW s, Sound(s), NEW t \in Eat(s)
  PROVE Leads(s, t) /\ (Ripe(s) => Timely(t))
<1>1. CASE s.fight.bite # "Idle"
  <2>1. t \in DriveBite(s) \/ t = AbandonBite(s)
    BY <1>1 DEF Eat
  <2>2. CASE t = AbandonBite(s)
    BY <1>1, <2>2, DryStill DEF AbandonBite, Release, EnterBite, Leads, Brief, Timely, Sound, Owned, States, HandType, FightType,
                      BiteStates, BiteBlocks, LaunchActive
  <2> QED BY <1>1, <2>1, <2>2, DriveBiteLeads DEF Timely
<1>2. CASE s.fight.bite = "Idle"
  <2>1. t = s \/ (~LaunchActive(s.fight) /\ t \in BeginBite(s))
    BY <1>2 DEF Eat
  <2>2. CASE t = s
    BY <1>2, <2>2, DryStill DEF Leads, Brief, Timely, Sound, Owned, BiteBlocks
  <2> QED BY <1>2, <2>1, <2>2, BeginBiteLeads DEF Timely
<1> QED BY <1>1, <1>2

\* The legs touch neither the hand nor the machines.
LEMMA WalkLeads ==
  ASSUME NEW s, Sound(s), NEW t \in Walk(s)
  PROVE Leads(s, t) /\ (Timely(s) => Timely(t))
<1>1. t \in States /\ t.hand = s.hand /\ t.camera = s.camera /\ t.fight.age = s.fight.age
      /\ t.fight.bite = s.fight.bite /\ t.fight.launch = s.fight.launch /\ t.fight.state = s.fight.state
  <2>1. CASE t = CloseIn(s)
    BY <2>1 DEF CloseIn, Standing, Sound, States, LegsType, FightType, LaunchActive
  <2>2. CASE t \in Approach(s)
    <3> DEFINE off == IF s.fight.approaching THEN s
                      ELSE [s EXCEPT !.legs.keys = FALSE, !.fight.approaching = TRUE]
    <3>1. off \in States /\ off.hand = s.hand /\ off.camera = s.camera
          /\ off.fight.age = s.fight.age /\ off.fight.bite = s.fight.bite
          /\ off.fight.launch = s.fight.launch /\ off.fight.state = s.fight.state
      BY DEF Sound, States, LegsType, FightType
    <3>2. t = off \/ t = [off EXCEPT !.legs.goal = TRUE]
      BY <2>2 DEF Approach
    <3> HIDE DEF off
    <3> QED BY <3>1, <3>2 DEF States, LegsType
  <2> QED BY <2>1, <2>2 DEF Walk
<1> QED BY <1>1, DryStill DEF Leads, Timely, Brief, Ripe, Sound, Owned, BiteBlocks, LaunchActive

-----------------------------------------------------------------------------
\* A roll changes nothing but the count.
LEMMA RerolledKeeps ==
  ASSUME NEW s \in States, NEW t \in Rerolled(s)
  PROVE t \in States /\ t.hand = s.hand /\ t.camera = s.camera /\ t.fight.age = s.fight.age
        /\ t.fight.bite = s.fight.bite /\ t.fight.launch = s.fight.launch /\ t.fight.state = s.fight.state
<1>1. PICK hits \in MinHits .. MaxHits : t = [s EXCEPT !.fight.hits = hits]
  BY DEF Rerolled
<1>2. hits \in 0 .. MaxHits
  OBVIOUS
<1> QED BY <1>1, <1>2 DEF States, FightType

\* A launch that begins takes the guard at age zero.
LEMMA BeginLaunchLeads ==
  ASSUME NEW s, Sound(s), WantsLaunch(s.fight), NEW t \in BeginLaunch(s)
  PROVE Leads(s, t) /\ Brief(t)
<1> DEFINE u == EnterLaunch([s EXCEPT !.hand = Hold(@)], "Preparing")
<1>1. u \in States /\ u.hand.guard /\ u.camera = s.camera
      /\ u.fight.bite = "Idle" /\ u.fight.launch = "Preparing" /\ u.fight.age = 0
      /\ u.fight.state = "Running"
  BY DEF EnterLaunch, Hold, WantsLaunch, Sound, States, HandType, FightType, LaunchStates
<1>2. t \in Rerolled(u)
  BY DEF BeginLaunch
<1> HIDE DEF u
<1> QED BY <1>1, <1>2, RerolledKeeps, DryStill DEF Leads, Brief, Sound, Owned, BiteBlocks, LaunchActive

\* The guard goes down with the launch.
LEMMA LaunchOverKeeps ==
  ASSUME NEW s, Sound(s), s.fight.bite = "Idle"
  PROVE LET t == LaunchOver(s)
        IN t \in States /\ ~t.hand.guard /\ Dry(s.camera, t.camera)
           /\ t.fight.bite = "Idle" /\ t.fight.launch = "Idle" /\ t.fight.state = "Running"
<1>1. ReleasePrecise(s.camera) \in CameraType /\ Dry(s.camera, ReleasePrecise(s.camera))
  BY ReleaseAimType DEF Sound, States
<1> QED BY <1>1 DEF LaunchOver, EnterLaunch, Release, Sound, States, HandType, FightType, LaunchStates

\* A launch that goes on is sound and brief.
LEMMA KeepLaunchingLeads ==
  ASSUME NEW s, Sound(s), s.fight.bite = "Idle", NEW t \in KeepLaunching(s)
  PROVE Leads(s, t) /\ (Ripe(s) => Brief(t))
<1>1. (t = s /\ ~(s.fight.age >= Deadline)) \/ t = LaunchOver(s)
  BY DEF KeepLaunching, Overdue
<1>2. s.fight.age \in Nat
  BY DEF Sound, States, FightType
<1> QED BY <1>1, <1>2, LaunchOverKeeps, DryStill DEF Leads, Brief, Sound, Owned, BiteBlocks, LaunchActive

\* A launch that has happened gives the guard back.
LEMMA LaunchedLeads ==
  ASSUME NEW s, Sound(s), s.fight.bite = "Idle", NEW t \in Launched(s)
  PROVE Leads(s, t) /\ Brief(t)
<1> DEFINE u == LaunchOver(s)
<1>1. u \in States /\ ~u.hand.guard /\ Dry(s.camera, u.camera)
      /\ u.fight.bite = "Idle" /\ u.fight.launch = "Idle" /\ u.fight.state = "Running"
  BY LaunchOverKeeps
<1>2. t \in Equip(u, "weapon")
  BY DEF Launched
<1> HIDE DEF u
<1>3. t \in States /\ t.fight = u.fight /\ t.hand.guard = u.hand.guard
      /\ t.camera = u.camera
  BY <1>1, <1>2, EquipLeads
<1> QED BY <1>1, <1>3 DEF Leads, Brief, Sound, Owned, BiteBlocks, LaunchActive

\* A tick of the launch is sound and brief.
LEMMA DriveLaunchLeads ==
  ASSUME NEW s, Sound(s), s.fight.bite = "Idle", LaunchActive(s.fight), NEW t \in DriveLaunch(s)
  PROVE Leads(s, t) /\ (Ripe(s) => Brief(t))
<1>0. s \in States /\ s.hand.guard
  BY DEF Sound, Owned
<1>1. CASE s.fight.launch = "Preparing"
  <2>1. t = [EnterLaunch(s, "WaitingForSlotAck") EXCEPT !.hand = Select(@, "charge")]
    BY <1>1 DEF DriveLaunch
  <2>2. Select(s.hand, "charge") \in HandType /\ Select(s.hand, "charge").guard = s.hand.guard
        /\ Select(s.hand, "charge").selected = "charge"
    BY <1>0, SelectType DEF States, HotbarSlots
  <2>3. /\ t \in States /\ t.hand.guard = s.hand.guard /\ t.camera = s.camera
        /\ t.fight.launch = "WaitingForSlotAck" /\ t.fight.bite = s.fight.bite /\ t.fight.age = 0
        /\ t.fight.state = s.fight.state
    BY <1>0, <2>1, <2>2 DEF EnterLaunch, States, FightType, LaunchStates
  <2> QED BY <2>3, AtOnce, DryStill DEF Leads, Sound, Owned, BiteBlocks, LaunchActive
<1>2. CASE s.fight.launch = "WaitingForSlotAck" /\ s.hand.told # "never"
  <2>1. t = [EnterLaunch(s, "AimingDown") EXCEPT !.camera = AimPrecisely(@, "down")]
    BY <1>2 DEF DriveLaunch
  <2>2. AimPrecisely(s.camera, "down") \in CameraType /\ Dry(s.camera, AimPrecisely(s.camera, "down"))
    BY <1>0, AimType DEF States, Aims, Dry
  <2>3. /\ t \in States /\ t.hand = s.hand /\ Dry(s.camera, t.camera)
        /\ t.fight.launch = "AimingDown" /\ t.fight.bite = s.fight.bite /\ t.fight.age = 0
        /\ t.fight.state = s.fight.state
    BY <1>0, <2>1, <2>2 DEF EnterLaunch, States, FightType, LaunchStates
  <2> QED BY <2>3, AtOnce DEF Leads, Sound, Owned, BiteBlocks, LaunchActive
<1>3. CASE s.fight.launch = "AimingDown" /\ s.camera.aim \in {"down", "water"}
  <2>1. t \in KeepLaunching(s) \/ t = EnterLaunch(s, "WaitingForLaunch")
    BY <1>3 DEF DriveLaunch
  <2>2. CASE t = EnterLaunch(s, "WaitingForLaunch")
    <3>1. /\ t \in States /\ t.hand = s.hand /\ t.camera = s.camera
          /\ t.fight.launch = "WaitingForLaunch" /\ t.fight.bite = s.fight.bite /\ t.fight.age = 0
          /\ t.fight.state = s.fight.state
      BY <1>0, <2>2 DEF EnterLaunch, States, FightType, LaunchStates
    <3> QED BY <3>1, AtOnce, DryStill DEF Leads, Sound, Owned, BiteBlocks, LaunchActive
  <2> QED BY <2>1, <2>2, KeepLaunchingLeads
<1>4. CASE s.fight.launch = "WaitingForLaunch"
  <2>1. t \in KeepLaunching(s) \/ t \in Launched(s)
    BY <1>4 DEF DriveLaunch
  <2> QED BY <2>1, KeepLaunchingLeads, LaunchedLeads
<1>5. CASE /\ s.fight.launch \notin {"Preparing", "WaitingForLaunch"}
           /\ ~(s.fight.launch = "WaitingForSlotAck" /\ s.hand.told # "never")
           /\ ~(s.fight.launch = "AimingDown" /\ s.camera.aim \in {"down", "water"})
  <2>1. t \in KeepLaunching(s)
    BY <1>5 DEF DriveLaunch
  <2> QED BY <2>1, KeepLaunchingLeads
<1> QED BY <1>1, <1>2, <1>3, <1>4, <1>5

-----------------------------------------------------------------------------
\* Weapon, swing and shield.
LEMMA AttackLeads ==
  ASSUME NEW s, Sound(s), NEW t \in Attack(s)
  PROVE Leads(s, t) /\ t.hand.guard = s.hand.guard
<1>1. PICK u \in Equip(s, "weapon") : t \in Swing(u)
  BY DEF Attack, Then, SelectWeapon
<1>2. u \in States /\ u.fight = s.fight /\ u.hand.guard = s.hand.guard
      /\ u.camera = s.camera
  BY <1>1, EquipLeads DEF Sound
<1>3. t \in States /\ t.hand = u.hand /\ t.camera = u.camera
      /\ t.fight.bite = u.fight.bite /\ t.fight.launch = u.fight.launch /\ t.fight.state = u.fight.state
  <2>1. t \in {u, [u EXCEPT !.fight.hits = IF @ = 0 THEN 0 ELSE @ - 1]} \/ t \in Rerolled(u)
    BY <1>1 DEF Swing
  <2>2. CASE t = [u EXCEPT !.fight.hits = IF @ = 0 THEN 0 ELSE @ - 1]
    <3>1. (IF u.fight.hits = 0 THEN 0 ELSE u.fight.hits - 1) \in 0 .. MaxHits
      BY <1>2 DEF States, FightType
    <3> QED BY <1>2, <2>2, <3>1 DEF States, FightType
  <2> QED BY <1>2, <2>1, <2>2, RerolledKeeps
<1> QED BY <1>2, <1>3, DryStill DEF Leads, Sound, Owned, BiteBlocks, LaunchActive

\* The part of the tick that acts is sound and brief.
LEMMA ActLeads ==
  ASSUME NEW s, Sound(s), NEW t \in Act(s)
  PROVE Leads(s, t) /\ (Timely(s) => Brief(t))
<1>1. CASE s.fight.bite # "Idle"
  BY <1>1, DryStill DEF Act, Leads, Timely, Sound, Owned
<1>2. CASE s.fight.bite = "Idle" /\ LaunchActive(s.fight)
  <2>1. Timely(s) => Ripe(s)
    BY DEF Timely, Brief, Ripe, Sound, States, FightType
  <2> QED BY <1>2, <2>1, DriveLaunchLeads DEF Act
<1>3. CASE s.fight.bite = "Idle" /\ ~LaunchActive(s.fight)
  <2>1. t \in Attack(s) \/ (WantsLaunch(s.fight) /\ t \in BeginLaunch(s))
    BY <1>3 DEF Act
  <2>2. ~s.hand.guard
    BY <1>3 DEF Sound, Owned, BiteBlocks
  <2> QED BY <2>1, <2>2, AttackLeads, BeginLaunchLeads DEF Brief
<1> QED BY <1>1, <1>2, <1>3

\* The part of the tick that defends is sound and brief.
LEMMA DefendLeads ==
  ASSUME NEW s, Sound(s), NEW t \in Defend(s)
  PROVE Leads(s, t) /\ (Brief(s) => Brief(t))
<1>1. CASE t = s
  BY <1>1, DryStill DEF Leads
<1>2. CASE s.fight.shield /\ t = [s EXCEPT !.hand = StopUsing(@), !.fight.shield = FALSE]
  BY <1>2, DryStill DEF StopUsing, Leads, Brief, Sound, Owned, States, HandType, FightType, BiteBlocks, LaunchActive
<1>3. CASE t = [s EXCEPT !.hand.using = IF @ = "food" THEN @ ELSE "shield", !.fight.shield = TRUE]
  BY <1>3, DryStill DEF Leads, Brief, Sound, Owned, States, HandType, FightType, BiteBlocks, LaunchActive
<1> QED BY <1>1, <1>2, <1>3 DEF Defend

\* What follows the bite in a tick is sound and brief.
LEMMA AfterBiteLeads ==
  ASSUME NEW s, Sound(s), NEW t \in AfterBite(s)
  PROVE Leads(s, t) /\ (Timely(s) => Brief(t))
<1>1. PICK u \in Then(Walk(s), Act) : t = u \/ t \in Defend(u)
  BY DEF AfterBite, Then
<1>2. PICK v \in Walk(s) : u \in Act(v)
  BY DEF Then
<1>3. Leads(s, v) /\ (Timely(s) => Timely(v))
  BY <1>2, WalkLeads
<1>4. Leads(v, u) /\ (Timely(v) => Brief(u))
  BY <1>2, <1>3, ActLeads DEF Leads
<1>5. Leads(u, t) /\ (Brief(u) => Brief(t))
  BY <1>1, <1>4, DefendLeads, DryStill DEF Leads
<1>6. Dry(s.camera, u.camera)
  BY <1>3, <1>4, DryOn DEF Leads
<1>7. Dry(s.camera, t.camera)
  BY <1>5, <1>6, DryOn DEF Leads
<1> QED BY <1>3, <1>4, <1>5, <1>7 DEF Leads

-----------------------------------------------------------------------------
(***************************************************************************)
(* The invariant.  That no aim at the water outlives the clutch rests on     *)
(* what may be displaced: a precise aim never, so that the look that comes   *)
(* back when a clutch ends is never at the water, whosever it was.           *)
(***************************************************************************)
AimsForWater == Tame(camera) /\ (camera.aim = "water" => Clutching)

Inv == TypeOK /\ GuardHasAnOwner /\ GuardIsBrief /\ AimsForWater

\* A new session has nothing in use.
LEMMA JoinedType ==
  ASSUME NEW slot \in HotbarSlots, NEW guard \in BOOLEAN
  PROVE LET h == [Joined(slot) EXCEPT !.guard = guard]
        IN Joined(slot) \in HandType /\ h \in HandType /\ h.guard = guard
           /\ h.told = "never" /\ h.using = "nothing"
BY DEF Joined, HandType

\* The idle fight satisfies the invariant.
LEMMA InitInv == FightInit => Inv
<1> SUFFICES ASSUME FightInit PROVE Inv
  OBVIOUS
<1>1. hand \in HandType /\ ~hand.guard
  BY DEF FightInit, SurvivalInit, Joined, HandType
<1> QED BY <1>1 DEF FightInit, SurvivalInit, Unaimed, NoClutch, Standing, Reset, Inv, TypeOK, SurvivalTypeOK,
       CameraType, ClutchType, LegsType, FightType, BiteStates, LaunchStates, Aims,
       GuardHasAnOwner, GuardIsBrief, Running, BiteBlocks, LaunchActive, AimsForWater, Tame

\* Giving the slot back leaves a hand with its guard.
LEMMA GiveBackType ==
  ASSUME Inv, NEW h \in HandType
  PROVE GiveBack(h) \in HandType /\ GiveBack(h).guard = h.guard
<1>1. clutch.previous \in HotbarSlots \cup {"unset"}
  BY DEF Inv, TypeOK, SurvivalTypeOK, ClutchType
<1> QED BY <1>1, SelectType DEF GiveBack

\* The camera turns to the water only while a clutch goes on.
LEMMA StaysDry ==
  ASSUME AimsForWater, Dry(camera, camera'), Clutching => Clutching'
  PROVE AimsForWater'
BY DEF AimsForWater, Dry, Tame

\* A precise aim at the water is the clutch's.
LEMMA AimsAtWater ==
  ASSUME Inv, camera' = AimPrecisely(camera, "water"), Clutching'
  PROVE camera' \in CameraType /\ AimsForWater'
<1>1. camera \in CameraType /\ Tame(camera)
  BY DEF Inv, TypeOK, SurvivalTypeOK, AimsForWater
<1>2. AimPrecisely(camera, "water") \in CameraType /\ Tame(AimPrecisely(camera, "water"))
  BY <1>1, AimType DEF Aims
<1>3. Tame(camera')
  BY <1>2
<1> QED BY <1>2, <1>3 DEF AimsForWater, Tame

-----------------------------------------------------------------------------
\* The clutch and what else moves the hand.
LEMMA ClutchStepInv == ASSUME Inv, ClutchStep PROVE Inv'
<1> USE DEF Inv, TypeOK, SurvivalTypeOK
<1>0. legs' \in LegsType /\ fight' \in FightType
  BY DEF ClutchStep
<1>g. ASSUME hand' \in HandType, hand'.guard = hand.guard PROVE GuardHasAnOwner' /\ GuardIsBrief'
  BY <1>g DEF ClutchStep, GuardHasAnOwner, GuardIsBrief, Running, BiteBlocks, LaunchActive
<1>s. ASSUME UNCHANGED camera, Clutching => Clutching' PROVE camera' \in CameraType /\ AimsForWater'
  BY <1>s, DryStill, StaysDry
<1>f. ASSUME Finish \/ Abort PROVE Inv'
  <2>1. GiveBack(hand) \in HandType /\ GiveBack(hand).guard = hand.guard
    BY GiveBackType
  <2>2. hand' = GiveBack(hand) /\ camera' = ReleasePrecise(camera)
    BY <1>f DEF Finish, Abort
  <2>3. camera' \in CameraType /\ Tame(camera') /\ camera'.aim # "water"
    <3>1. Tame(camera)
      BY DEF AimsForWater
    <3>2. /\ ReleasePrecise(camera) \in CameraType /\ Dry(camera, ReleasePrecise(camera))
          /\ ReleasePrecise(camera).aim # "water"
      BY <3>1, ReleaseAimType
    <3>3. Tame(ReleasePrecise(camera))
      BY <3>1, <3>2 DEF Dry
    <3> QED BY <2>2, <3>2, <3>3
  <2>4. clutch' \in ClutchType
    <3>1. CASE Finish
      BY <3>1 DEF Finish, NoClutch, ClutchType
    <3>2. CASE Abort
      BY <3>2 DEF Abort, ClutchType
    <3> QED BY <1>f, <3>1, <3>2
  <2> QED BY <1>0, <1>g, <2>1, <2>2, <2>3, <2>4 DEF AimsForWater
<1>1. CASE SendSlot \/ BiteEnds \/ SwapInHand
  <2>1. hand' \in HandType /\ hand'.guard = hand.guard
    BY <1>1 DEF SendSlot, BiteEnds, SwapInHand, StopUsing, HandType
  <2>2. UNCHANGED <<camera, clutch>> /\ (Clutching => Clutching')
    BY <1>1 DEF SendSlot, BiteEnds, SwapInHand, Clutching
  <2> QED BY <1>0, <1>g, <1>s, <2>1, <2>2
<1>3. ASSUME NEW slot \in HotbarSlots, SelectOther(slot) PROVE Inv'
  <2>1. hand' \in HandType /\ hand'.guard = hand.guard
    BY <1>3, SelectType DEF SelectOther
  <2>2. UNCHANGED <<camera, clutch>> /\ (Clutching => Clutching')
    BY <1>3 DEF SelectOther, Clutching
  <2> QED BY <1>0, <1>g, <1>s, <2>1, <2>2
<1>4. CASE CannotArm \/ FallOver
  <2>1. clutch' \in ClutchType /\ ~Clutching /\ UNCHANGED <<hand, camera>>
    BY <1>4 DEF CannotArm, FallOver, ClutchType, Clutching
  <2> QED BY <1>0, <1>g, <1>s, <2>1
<1>5. ASSUME NEW column \in Columns, NEW slot \in HotbarSlots, NEW seen \in HotbarSlots, Arm(column, slot, seen)
      PROVE Inv'
  <2>1. clutch' \in ClutchType /\ Clutching'
    BY <1>5 DEF Arm, ClutchType, Clutching
  <2>2. hand' \in HandType /\ hand'.guard = hand.guard
    BY <1>5, SelectType DEF Arm
  <2>3. camera' \in CameraType /\ AimsForWater'
    BY <1>5, <2>1, AimsAtWater DEF Arm
  <2> QED BY <1>0, <1>g, <2>1, <2>2, <2>3
<1>6. CASE ClutchFails
  BY <1>6, <1>f DEF ClutchFails
<1>7. ASSUME NEW column \in Columns, Track(column) PROVE Inv'
  <2>1. UNCHANGED <<hand, clutch>> /\ Clutching'
    BY <1>7 DEF Track, Clutching
  <2>2. camera' \in CameraType /\ AimsForWater'
    BY <1>7, <2>1, AimsAtWater DEF Track
  <2> QED BY <1>0, <1>g, <2>1, <2>2
<1>8. ASSUME NEW column \in Columns, DriftOverLiquid(column) PROVE Inv'
  BY <1>8, <1>f DEF DriftOverLiquid
<1>9. ASSUME NEW column \in Columns, NEW drifted \in BOOLEAN, NEW slot \in HotbarSlots,
             Place(column, drifted, slot)
      PROVE Inv'
  <2>1. clutch' \in ClutchType /\ Clutching'
    BY <1>9 DEF Place, ClutchType, Clutching
  <2>2. hand' \in HandType /\ hand'.guard = hand.guard
    BY <1>9, SelectType DEF Place
  <2>3. camera' \in CameraType /\ AimsForWater'
    <3>1. CASE drifted
      BY <1>9, <2>1, <3>1, AimsAtWater DEF Place
    <3>2. CASE ~drifted
      BY <1>9, <1>s, <2>1, <3>2 DEF Place
    <3> QED BY <3>1, <3>2
  <2> QED BY <1>0, <1>g, <2>1, <2>2, <2>3
<1>10. CASE Land \/ ScoopAgain
  <2>1. clutch' \in ClutchType /\ Clutching' /\ UNCHANGED <<hand, camera>>
    <3>1. CASE Land
      BY <3>1, 0 \in 0 .. MaxScoops DEF Land, ClutchType, Clutching
    <3>2. CASE ScoopAgain
      <4>1. clutch.scoops + 1 \in 0 .. MaxScoops
        BY <3>2 DEF ScoopAgain, ClutchType
      <4> QED BY <3>2, <4>1 DEF ScoopAgain, ClutchType, Clutching
    <3> QED BY <1>10, <3>1, <3>2
  <2> QED BY <1>0, <1>g, <1>s, <2>1
<1>11. CASE LandForGood \/ Recovered
  BY <1>11, <1>f DEF LandForGood, Recovered
<1> QED BY <1>1, <1>3, <1>4, <1>5, <1>6, <1>7, <1>8, <1>9, <1>10, <1>11
        DEF ClutchStep, SurvivalNext

-----------------------------------------------------------------------------
\* A state of the tick that holds the hand as the invariant says becomes the next state.
LEMMA BecomeInv ==
  ASSUME Inv, NEW s \in States, Owned(s), Brief(s), Become(s), UNCHANGED clutch,
         Dry(camera, s.camera)
  PROVE Inv'
<1>1. TypeOK'
  BY DEF Inv, TypeOK, SurvivalTypeOK, Become, States
<1>2. GuardHasAnOwner' /\ GuardIsBrief'
  BY DEF Become, Owned, Brief, GuardHasAnOwner, GuardIsBrief, Running, BiteBlocks, LaunchActive
<1>3. AimsForWater'
  BY StaysDry DEF Inv, Become, Clutching
<1> QED BY <1>1, <1>2, <1>3 DEF Inv

\* The present state is typed, owned and brief.
LEMMA HereOwned == ASSUME Inv PROVE Here \in States /\ Owned(Here) /\ Brief(Here)
BY DEF Inv, TypeOK, SurvivalTypeOK, Here, States, Owned, Brief, GuardHasAnOwner, GuardIsBrief, Running, BiteBlocks, LaunchActive

\* A tick of the fight keeps the invariant.
LEMMA FightOnInv == ASSUME Inv, FightOn PROVE Inv'
<1>1. Sound(Aged) /\ Aged.camera = camera /\ Ripe(Aged)
  <2>1. fight.age + 1 \in Nat
    BY DEF Inv, TypeOK, FightType
  <2>2. Sound(Aged) /\ Aged.camera = camera
    BY <2>1, HereOwned DEF FightOn, Running, Aged, Here, Sound, States, Owned, FightType, BiteBlocks,
                          LaunchActive
  <2>3. fight.age \in Nat /\ (hand.guard => fight.age < Deadline) /\ Aged.fight.age <= fight.age + 1
    BY DEF Inv, TypeOK, FightType, GuardIsBrief, Aged, Here
  <2>4. hand.guard => Aged.fight.age <= Deadline
    BY <2>1, <2>2, <2>3 DEF Sound, States, FightType
  <2>5. Aged.hand = hand
    BY DEF Aged, Here
  <2> QED BY <2>2, <2>4, <2>5 DEF Ripe
<1>2. PICK t \in Then(Then(TrackAim(Aged), Eat), AfterBite) : Become(t)
  BY DEF FightOn
<1>3. PICK v \in Then(TrackAim(Aged), Eat) : t \in AfterBite(v)
  BY DEF Then
<1>4. PICK u \in TrackAim(Aged) : v \in Eat(u)
  BY DEF Then
<1>5. Leads(Aged, u) /\ Ripe(u)
  BY <1>1, TrackAimLeads
<1>6. Leads(u, v) /\ Timely(v)
  BY <1>4, <1>5, EatLeads DEF Leads
<1>7. Leads(v, t) /\ Brief(t)
  BY <1>3, <1>6, AfterBiteLeads DEF Leads
<1>8. t \in States /\ Owned(t)
  BY <1>7 DEF Leads, Sound
<1>9. Dry(camera, t.camera)
  <2>1. Dry(camera, u.camera)
    BY <1>1, <1>5 DEF Leads
  <2>2. Dry(camera, v.camera)
    BY <1>6, <2>1, DryOn DEF Leads
  <2> QED BY <1>7, <2>2, DryOn DEF Leads
<1> QED BY <1>2, <1>7, <1>8, <1>9, BecomeInv DEF FightOn

\* stop_all releases the hand before it asks for the weapon.
LEMMA StopAllKeeps ==
  ASSUME NEW s \in States, NEW t \in StopAll(s)
  PROVE t \in States /\ ~t.hand.guard /\ Dry(s.camera, t.camera)
<1> DEFINE u == [s EXCEPT !.hand = StopUsing(Release(@)), !.legs = Standing, !.camera = CancelLook(@)]
<1>1. u \in States /\ ~u.hand.guard /\ Dry(s.camera, u.camera)
  <2>1. CancelLook(s.camera) \in CameraType /\ Dry(s.camera, CancelLook(s.camera))
    BY ReleaseAimType DEF States
  <2> QED BY <2>1 DEF StopUsing, Release, Standing, States, HandType, LegsType
<1>2. t \in Equip(u, "weapon")
  BY DEF StopAll, RestoreWeapon
<1> HIDE DEF u
<1> QED BY <1>1, <1>2, EquipLeads

\* A fight that has not begun or is over needs no guard.
LEMMA ResetOwned ==
  ASSUME NEW s \in States, ~s.hand.guard, NEW hits \in 0 .. MaxHits,
         NEW state \in {"Created", "Running", "Completed", "Failed", "Cancelled"}
  PROVE LET t == [s EXCEPT !.fight = Reset(state, hits)]
        IN t \in States /\ Owned(t) /\ Brief(t) /\ t.camera = s.camera
BY DEF Reset, Brief, States, FightType, BiteStates, LaunchStates, Owned, BiteBlocks, LaunchActive

\* A fight that ends keeps the invariant.
LEMMA EndedInv ==
  ASSUME Inv, NEW outcome \in {"Completed", "Failed", "Cancelled"}, Ended(outcome)
  PROVE Inv'
<1>1. PICK s \in StopAll(Here) : Become([s EXCEPT !.fight = Reset(outcome, 0)])
  BY DEF Ended
<1>2. s \in States /\ ~s.hand.guard /\ Dry(camera, s.camera)
  BY <1>1, HereOwned, StopAllKeeps DEF Here
<1> DEFINE t == [s EXCEPT !.fight = Reset(outcome, 0)]
<1>3. t \in States /\ Owned(t) /\ Brief(t) /\ t.camera = s.camera
  <2>1. 0 \in 0 .. MaxHits
    OBVIOUS
  <2>2. outcome \in {"Created", "Running", "Completed", "Failed", "Cancelled"}
    OBVIOUS
  <2> QED BY <1>2, <2>1, <2>2, ResetOwned
<1> HIDE DEF t
<1>4. Become(t)
  BY <1>1 DEF t
<1> QED BY <1>2, <1>3, <1>4, BecomeInv DEF Ended

\* A tick without the target in sight keeps the invariant.
LEMMA TargetUnseenInv == ASSUME Inv, TargetUnseen PROVE Inv'
<1> DEFINE t == [Here EXCEPT !.legs.keys = FALSE, !.fight.aimed = FALSE]
<1>1. t \in States /\ Owned(t) /\ Brief(t) /\ Dry(camera, t.camera)
  BY HereOwned, DryStill DEF Here, States, Owned, Brief, LegsType, FightType, BiteBlocks, LaunchActive
<1>2. Become(t)
  BY DEF TargetUnseen
<1> HIDE DEF t
<1> QED BY <1>1, <1>2, BecomeInv DEF TargetUnseen

\* /kill keeps the invariant.
LEMMA KillInv == ASSUME Inv, Kill PROVE Inv'
<1>1. PICK hits \in MinHits .. MaxHits :
        Become([Here EXCEPT !.hand = Release(@), !.fight = Reset("Running", hits)])
  BY DEF Kill
<1>2. hits \in 0 .. MaxHits
  OBVIOUS
<1> DEFINE s == [Here EXCEPT !.hand = Release(@)]
<1> DEFINE t == [s EXCEPT !.fight = Reset("Running", hits)]
<1>3. s \in States /\ ~s.hand.guard /\ Dry(camera, s.camera)
  BY HereOwned, DryStill DEF Here, Release, States, HandType
<1>4. t = [Here EXCEPT !.hand = Release(@), !.fight = Reset("Running", hits)]
  BY DEF Here
<1> HIDE DEF s
<1>5. t \in States /\ Owned(t) /\ Brief(t) /\ t.camera = s.camera
  BY <1>2, <1>3, ResetOwned
<1> HIDE DEF t
<1> QED BY <1>1, <1>3, <1>4, <1>5, BecomeInv DEF Kill

\* The emergency stop keeps the invariant.
LEMMA EmergencyStopInv == ASSUME Inv, EmergencyStop PROVE Inv'
<1>1. PICK s \in (IF Running THEN StopAll(Here) ELSE {Here}) :
        hand' = GiveBack(s.hand) /\ fight' = IF Running THEN Reset("Cancelled", 0) ELSE fight
  BY DEF EmergencyStop
<1>2. s \in States /\ ~s.hand.guard
  BY <1>1, HereOwned, StopAllKeeps DEF Here, Owned, Running
<1>3. s.hand \in HandType
  BY <1>2 DEF States
<1>4. hand' \in HandType /\ ~hand'.guard
  BY <1>1, <1>2, <1>3, GiveBackType
<1>5. fight' \in FightType /\ fight'.state # "Running" /\ ~(fight'.bite # "Idle" /\ LaunchActive(fight'))
  BY <1>1, 0 \in 0 .. MaxHits DEF Inv, TypeOK, GuardHasAnOwner, Running, Reset, FightType, BiteStates,
                                LaunchStates, LaunchActive
<1>6. camera' \in CameraType /\ camera' = Unaimed /\ legs' \in LegsType /\ clutch' = NoClutch
  BY ReleaseAimType DEF EmergencyStop, CancelLook, Inv, TypeOK, SurvivalTypeOK, LegsType, Running
<1>7. TypeOK'
  BY <1>4, <1>5, <1>6 DEF TypeOK, SurvivalTypeOK, NoClutch, ClutchType
<1> QED BY <1>4, <1>5, <1>6, <1>7 DEF Inv, GuardHasAnOwner, GuardIsBrief, Running, AimsForWater, Tame, Unaimed

\* The end of the session keeps the invariant.
LEMMA SessionEndsInv == ASSUME Inv, SessionEnds PROVE Inv'
<1>1. hand' \in HandType /\ ~hand'.guard
  <2>1. (hand.guard /\ ~Running) = FALSE
    BY DEF Inv, GuardHasAnOwner, Running
  <2> QED BY <2>1, JoinedType DEF SessionEnds
<1>2. fight' \in FightType /\ fight'.state # "Running" /\ ~(fight'.bite # "Idle" /\ LaunchActive(fight'))
  BY 0 \in 0 .. MaxHits DEF SessionEnds, Inv, TypeOK, GuardHasAnOwner, Running, Reset, FightType,
                             BiteStates, LaunchStates, LaunchActive
<1>3. camera' \in CameraType /\ camera' = Unaimed /\ legs' \in LegsType /\ clutch' = NoClutch
  BY ReleaseAimType DEF SessionEnds, CancelLook, Inv, TypeOK, SurvivalTypeOK, LegsType, Standing
<1>4. TypeOK'
  BY <1>1, <1>2, <1>3 DEF TypeOK, SurvivalTypeOK, NoClutch, ClutchType
<1> QED BY <1>1, <1>2, <1>3, <1>4 DEF Inv, GuardHasAnOwner, GuardIsBrief, Running, AimsForWater, Tame, Unaimed

\* A session lost and regained unnoticed keeps the invariant.
LEMMA SessionSlipsInv == ASSUME Inv, SessionSlips PROVE Inv'
<1>1. hand' \in HandType /\ hand'.guard = hand.guard
  <2>1. hand.guard \in BOOLEAN
    BY DEF Inv, TypeOK, SurvivalTypeOK, HandType
  <2> QED BY <2>1, JoinedType DEF SessionSlips
<1>2. legs' \in LegsType
  BY DEF SessionSlips, Inv, TypeOK, LegsType
<1> QED BY <1>1, <1>2 DEF SessionSlips, Inv, TypeOK, SurvivalTypeOK, GuardHasAnOwner, GuardIsBrief, Running,
                          AimsForWater, Tame, Clutching

\* Every step keeps the invariant.
LEMMA NextInv == ASSUME Inv, [Next]_fightVars PROVE Inv'
<1>1. CASE UNCHANGED fightVars
  BY <1>1 DEF fightVars, Inv, TypeOK, SurvivalTypeOK, GuardHasAnOwner, GuardIsBrief, Running, BiteBlocks,
              LaunchActive, AimsForWater, Tame, Clutching
<1>2. CASE Arrive
  BY <1>2 DEF Arrive, Inv, TypeOK, SurvivalTypeOK, LegsType, GuardHasAnOwner, GuardIsBrief, Running, BiteBlocks,
              LaunchActive, AimsForWater, Tame, Clutching
<1>3. CASE TargetLost \/ TargetDies \/ Cancel
  BY <1>3, EndedInv DEF TargetLost, TargetDies, Cancel
<1> QED BY <1>1, <1>2, <1>3, FightOnInv, TargetUnseenInv, KillInv, EmergencyStopInv, SessionEndsInv,
           SessionSlipsInv, ClutchStepInv DEF Next

-----------------------------------------------------------------------------
\* The invariant always holds.
LEMMA AlwaysInv == Spec => []Inv
BY InitInv, NextInv, PTL DEF Spec

\* Every variable of the fight and of the clutch keeps its type.
THEOREM TypeCorrect == Spec => []TypeOK
BY AlwaysInv, PTL DEF Inv

\* The guard on the hand is up exactly while a bite or a launch of the
\* running fight holds it, and never for both (begin_consume_guard).
THEOREM GuardAlwaysHasAnOwner == Spec => []GuardHasAnOwner
BY AlwaysInv, PTL DEF Inv

\* The hand is never held longer than the deadline of one state of a machine
\* (ConsumeMachine.advance and WindLaunchMachine.advance).
THEOREM GuardIsAlwaysBrief == Spec => []GuardIsBrief
BY AlwaysInv, PTL DEF Inv

\* However a clutch ends, and whatever the fight has displaced or had displaced, no
\* aim at the water is left, nor one to come back to (finish and abort of survival/mod.rs).
THEOREM AimAlwaysEndsWithTheClutch == Spec => []AimEndsWithTheClutch
<1>1. Inv => AimEndsWithTheClutch
  BY DEF Inv, AimsForWater, Tame, AimEndsWithTheClutch
<1> QED BY AlwaysInv, <1>1, PTL

-----------------------------------------------------------------------------
(* What a fight leaves behind when it is over, and what happens to the food  *)
(* in the hand while it bites.                                             *)

\* The machines of a fight that does not run are at rest.
Calm == ~Running => fight.bite = "Idle"

Rest == LeavesNothingOn /\ Calm

\* The steps of a tick, one after the other.
LEMMA FightOnSteps ==
  ASSUME Inv, FightOn
  PROVE  \E u \in TrackAim(Aged) : \E v \in Eat(u) : \E t \in AfterBite(v) :
           /\ Sound(Aged) /\ Sound(u) /\ Sound(v) /\ Sound(t) /\ Become(t)
<1>1. Sound(Aged)
  <2>1. fight.age + 1 \in Nat
    BY DEF Inv, TypeOK, FightType
  <2> QED BY <2>1, HereOwned DEF FightOn, Running, Aged, Here, Sound, States, Owned, FightType,
                                 BiteBlocks, LaunchActive
<1>2. PICK t \in Then(Then(TrackAim(Aged), Eat), AfterBite) : Become(t)
  BY DEF FightOn
<1>3. PICK v \in Then(TrackAim(Aged), Eat) : t \in AfterBite(v)
  BY DEF Then
<1>4. PICK u \in TrackAim(Aged) : v \in Eat(u)
  BY DEF Then
<1>5. Sound(u)
  BY <1>1, TrackAimLeads DEF Leads
<1>6. Sound(v)
  BY <1>4, <1>5, EatLeads DEF Leads
<1>7. Sound(t)
  BY <1>3, <1>6, AfterBiteLeads DEF Leads
<1> QED BY <1>1, <1>2, <1>3, <1>4, <1>5, <1>6, <1>7

-----------------------------------------------------------------------------
(* What a fight leaves behind.                                              *)

\* stop_all leaves the hand, the legs and the camera alone.
LEMMA StopAllLeaves ==
  ASSUME NEW s \in States, NEW t \in StopAll(s)
  PROVE  ~t.hand.guard /\ t.hand.using = "nothing" /\ t.legs = Standing /\ t.camera = Unaimed
<1> DEFINE u == [s EXCEPT !.hand = StopUsing(Release(@)), !.legs = Standing, !.camera = CancelLook(@)]
<1>1. /\ u \in States /\ ~u.hand.guard /\ u.hand.using = "nothing"
      /\ u.legs = Standing /\ u.camera = Unaimed
  <2>1. CancelLook(s.camera) \in CameraType /\ CancelLook(s.camera) = Unaimed
    BY ReleaseAimType DEF States, CancelLook
  <2>2. /\ StopUsing(Release(s.hand)) \in HandType /\ ~StopUsing(Release(s.hand)).guard
        /\ StopUsing(Release(s.hand)).using = "nothing"
    BY DEF StopUsing, Release, States, HandType
  <2>3. Standing \in LegsType
    BY DEF Standing, LegsType
  <2> QED BY <2>1, <2>2, <2>3 DEF States
<1>2. t \in Equip(u, "weapon")
  BY DEF StopAll, RestoreWeapon
<1> HIDE DEF u
<1>3. t = u \/ t = [u EXCEPT !.hand = Select(@, "weapon")]
  BY <1>2 DEF Equip
<1>4. Select(u.hand, "weapon").using = u.hand.using /\ Select(u.hand, "weapon").guard = u.hand.guard
  BY <1>1 DEF Select, States, HandType
<1> QED BY <1>1, <1>3, <1>4 DEF States

\* A clutch takes the camera only for water, and gives back only what it displaced.
LEMMA ClutchStepRests == ASSUME Inv, Rest, ClutchStep PROVE Rest'
<1>1. UNCHANGED <<legs, fight>> /\ (Running' <=> Running)
  BY DEF ClutchStep, Running
<1>2. hand \in HandType /\ camera \in CameraType
  BY DEF Inv, TypeOK, SurvivalTypeOK
<1>3. ASSUME NEW h \in HandType, NEW slot
      PROVE  Select(h, slot).using = h.using /\ Select(h, slot).guard = h.guard
  BY DEF Select, HandType
<1>4. GiveBack(hand).using = hand.using /\ GiveBack(hand).guard = hand.guard
  BY <1>2, <1>3 DEF GiveBack
<1>5. ASSUME ~Running PROVE hand'.using = "nothing" /\ ~hand'.guard
  <2>1. hand.using = "nothing" /\ ~hand.guard
    BY <1>5 DEF Rest, LeavesNothingOn
  <2>2. \/ UNCHANGED hand \/ SendSlot \/ BiteEnds \/ SwapInHand \/ hand' = GiveBack(hand)
        \/ \E slot \in HotbarSlots : hand' = Select(hand, slot)
    BY DEF ClutchStep, SurvivalNext, SelectOther, CannotArm, Arm, FallOver, ClutchFails, Abort, Track,
           DriftOverLiquid, Finish, Place, Land, LandForGood, ScoopAgain, Recovered
  <2>3. CASE SendSlot
    BY <1>2, <2>1, <2>3 DEF SendSlot, HandType
  <2>4. CASE BiteEnds \/ SwapInHand
    BY <2>1, <2>4 DEF BiteEnds, SwapInHand
  <2> QED BY <1>2, <1>3, <1>4, <2>1, <2>2, <2>3, <2>4
<1>6. ASSUME ~Running PROVE {camera'.aim, camera'.suspended} \cap {"target", "down"} = {}
  <2>1. {camera.aim, camera.suspended} \cap {"target", "down"} = {}
    BY <1>6 DEF Rest, LeavesNothingOn
  <2>2. camera' \in {camera, AimPrecisely(camera, "water"), ReleasePrecise(camera)}
    BY DEF ClutchStep, SurvivalNext, SendSlot, BiteEnds, SwapInHand, SelectOther, CannotArm, Arm, FallOver,
           ClutchFails, Abort, Track, DriftOverLiquid, Finish, Place, Land, LandForGood, ScoopAgain,
           Recovered
  <2>3. /\ AimPrecisely(camera, "water").aim = "water"
        /\ AimPrecisely(camera, "water").suspended \in {camera.aim, camera.suspended}
    BY DEF AimPrecisely
  <2>4. /\ ReleasePrecise(camera).aim \in {camera.suspended, "free"}
        /\ ReleasePrecise(camera).suspended = "free"
    BY DEF ReleasePrecise, CancelLook, Unaimed
  <2> QED BY <2>1, <2>2, <2>3, <2>4
<1> QED BY <1>1, <1>5, <1>6 DEF Rest, LeavesNothingOn, Calm

\* A camera that is not aimed looks neither at the target nor down.
LEMMA UnaimedIs == {Unaimed.aim, Unaimed.suspended} \cap {"target", "down"} = {}
BY DEF Unaimed

\* A fight that ends leaves nothing on.
LEMMA EndedRests ==
  ASSUME Inv, NEW outcome \in {"Completed", "Failed", "Cancelled"}, Ended(outcome)
  PROVE  Rest'
<1>1. PICK s \in StopAll(Here) : Become([s EXCEPT !.fight = Reset(outcome, 0)])
  BY DEF Ended
<1>2. /\ s \in States /\ ~s.hand.guard /\ s.hand.using = "nothing" /\ s.legs = Standing
      /\ s.camera = Unaimed
  BY HereOwned, StopAllKeeps, StopAllLeaves
<1>3. hand' = s.hand /\ legs' = s.legs /\ camera' = s.camera /\ fight' = Reset(outcome, 0)
  BY <1>1, <1>2 DEF Become, States
<1>4. fight'.bite = "Idle"
  BY <1>3 DEF Reset
<1> QED BY <1>2, <1>3, <1>4, UnaimedIs DEF Rest, LeavesNothingOn, Calm

\* The emergency stop leaves nothing on.
LEMMA EmergencyStopRests == ASSUME Inv, Rest, EmergencyStop PROVE Rest'
<1>1. PICK s \in (IF Running THEN StopAll(Here) ELSE {Here}) :
        hand' = GiveBack(s.hand) /\ fight' = IF Running THEN Reset("Cancelled", 0) ELSE fight
  BY DEF EmergencyStop
<1>2. s.hand \in HandType /\ ~s.hand.guard /\ s.hand.using = "nothing"
  <2>1. CASE Running
    BY <1>1, <2>1, HereOwned, StopAllKeeps, StopAllLeaves DEF States
  <2>2. CASE ~Running
    BY <1>1, <2>2 DEF Here, Rest, LeavesNothingOn, Inv, TypeOK, SurvivalTypeOK
  <2> QED BY <2>1, <2>2
<1>3. ~hand'.guard /\ hand'.using = "nothing"
  BY <1>1, <1>2 DEF GiveBack, Select, HandType
<1>4. fight'.bite = "Idle"
  BY <1>1 DEF Rest, Calm, Reset
<1>5. legs' = Standing
  <2>1. legs \in LegsType /\ (~Running => ~legs.keys)
    BY DEF Standing, Rest, LeavesNothingOn, Inv, TypeOK
  <2>2. legs' = [legs EXCEPT !.goal = FALSE, !.keys = FALSE]
    BY <2>1 DEF EmergencyStop, LegsType
  <2> QED BY <2>1, <2>2 DEF LegsType, Standing
<1>6. camera' = Unaimed
  BY DEF EmergencyStop, CancelLook
<1> QED BY <1>3, <1>4, <1>5, <1>6, UnaimedIs DEF Rest, LeavesNothingOn, Calm

\* The end of the session leaves nothing on.
LEMMA SessionEndsRests == ASSUME Inv, Rest, SessionEnds PROVE Rest'
<1>1. ~hand'.guard /\ hand'.using = "nothing"
  BY DEF SessionEnds, Joined, Inv, TypeOK, SurvivalTypeOK, HandType, GuardHasAnOwner, Running
<1>2. fight'.bite = "Idle"
  BY DEF SessionEnds, Rest, Calm, Reset
<1>3. legs' = Standing /\ camera' = Unaimed
  BY DEF SessionEnds, CancelLook
<1> QED BY <1>1, <1>2, <1>3, UnaimedIs DEF Rest, LeavesNothingOn, Calm

\* A session lost and regained unnoticed leaves nothing on.
LEMMA SessionSlipsRests == ASSUME Inv, Rest, SessionSlips PROVE Rest'
<1>1. UNCHANGED <<camera, fight>>
  BY DEF SessionSlips
<1>2. hand'.guard = hand.guard /\ hand'.using = "nothing"
  BY DEF SessionSlips, Joined
<1>3. legs = Standing => legs' = Standing
  <2>1. legs \in LegsType /\ legs' = [legs EXCEPT !.keys = FALSE]
    BY DEF SessionSlips, Inv, TypeOK
  <2>2. ASSUME legs = Standing
        PROVE  legs' \in LegsType /\ ~legs'.keys /\ ~legs'.goal
    BY <2>1, <2>2 DEF LegsType, Standing
  <2> QED BY <2>2 DEF LegsType, Standing
<1> QED BY <1>1, <1>2, <1>3 DEF Rest, LeavesNothingOn, Calm, Running

\* Every step leaves nothing on once the fight is over.
LEMMA NextRests == ASSUME Inv, Rest, [Next]_fightVars PROVE Rest'
<1>1. CASE UNCHANGED fightVars
  BY <1>1 DEF fightVars, Rest, LeavesNothingOn, Calm, Running
<1>2. CASE FightOn
  <2>1. PICK t : Sound(t) /\ Become(t)
    BY <1>2, FightOnSteps
  <2>2. Running'
    BY <2>1 DEF Sound, Become, Running
  <2> QED BY <2>2 DEF Rest, LeavesNothingOn, Calm
<1>3. CASE TargetUnseen \/ Kill
  <2>1. Running'
    BY <1>3, HereOwned DEF TargetUnseen, Kill, Become, Here, States, FightType, Reset, Running
  <2> QED BY <2>1 DEF Rest, LeavesNothingOn, Calm
<1>4. CASE TargetLost \/ TargetDies \/ Cancel
  BY <1>4, EndedRests DEF TargetLost, TargetDies, Cancel
<1>5. CASE Arrive
  <2>1. UNCHANGED <<hand, camera, fight>> /\ (legs = Standing => legs' = Standing)
    BY <1>5 DEF Arrive, Standing
  <2> QED BY <2>1 DEF Rest, LeavesNothingOn, Calm, Running
<1> QED BY <1>1, <1>2, <1>3, <1>4, <1>5, EmergencyStopRests, SessionEndsRests, SessionSlipsRests,
           ClutchStepRests DEF Next

\* The idle fight has nothing on.
LEMMA InitRests == FightInit => Rest
BY DEF FightInit, SurvivalInit, Joined, Unaimed, Reset, Rest, LeavesNothingOn, Calm

\* The invariant always holds, and nothing is left on.
LEMMA AlwaysRests == Spec => [](Inv /\ Rest)
<1>1. Inv /\ Rest /\ [Next]_fightVars => (Inv /\ Rest)'
  BY NextInv, NextRests
<1> QED BY InitInv, InitRests, <1>1, PTL DEF Spec

\* A fight that is over, however it ended, leaves nothing on: not the guard, no key
\* held, nothing in use, no goal of its own and neither of its looks (stop_all).
THEOREM NothingIsLeftOn == Spec => []LeavesNothingOn
BY AlwaysRests, PTL DEF Rest

-----------------------------------------------------------------------------
(* The bite.                                                                *)

\* What changes with the state of a machine, and what with the hand.
LEMMA EnterBiteIs ==
  ASSUME NEW s \in States, NEW b \in BiteStates
  PROVE  /\ EnterBite(s, b) \in States /\ EnterBite(s, b).hand = s.hand
         /\ EnterBite(s, b).fight.bite = b
BY DEF EnterBite, States, FightType

\* Entering a state of the launch changes only the launch.
LEMMA EnterLaunchIs ==
  ASSUME NEW s \in States, NEW l \in LaunchStates
  PROVE  /\ EnterLaunch(s, l) \in States /\ EnterLaunch(s, l).hand = s.hand
         /\ EnterLaunch(s, l).fight.bite = s.fight.bite
BY DEF EnterLaunch, States, FightType

\* Giving the hand another state changes only the hand.
LEMMA InHand ==
  ASSUME NEW s \in States, NEW h \in HandType
  PROVE  LET t == [s EXCEPT !.hand = h] IN t \in States /\ t.hand = h /\ t.fight = s.fight
BY DEF States

\* What is done to a hand leaves a hand.
LEMMA HandIs ==
  ASSUME NEW h \in HandType
  PROVE  /\ Release(h) \in HandType /\ Hold(h) \in HandType
         /\ StopUsing(h) \in HandType /\ StopUsing(h).selected = h.selected
         /\ \A g \in UseMainHand(h) : g \in HandType /\ g.selected = h.selected
BY DEF Release, Hold, StopUsing, UseMainHand, HandType

Bites(s) == BiteBlocks(s.fight) /\ s.hand.selected = "food"

\* A bite that does not fail keeps the food it has selected in the hand.
LEMMA EatKeepsFood ==
  ASSUME NEW s, Sound(s), Bites(s), NEW t \in Eat(s), BiteBlocks(t.fight)
  PROVE  t.hand.selected = "food"
<1>1. s.fight.bite \in {"Preparing", "WaitingForSlotAck", "Using"} /\ s.hand \in HandType
  BY DEF Bites, BiteBlocks, Sound, States
<1>2. ASSUME NEW u \in Equip([EnterBite(s, "Idle") EXCEPT !.hand = Release(@)], "weapon")
      PROVE  ~BiteBlocks(u.fight)
  <2> DEFINE b == EnterBite(s, "Idle")
             c == [b EXCEPT !.hand = Release(@)]
  <2>1. b \in States /\ b.hand = s.hand /\ b.fight.bite = "Idle"
    BY EnterBiteIs DEF Sound, BiteStates
  <2>2. c \in States /\ c.fight.bite = "Idle"
    <3>1. c = [b EXCEPT !.hand = Release(b.hand)] /\ Release(b.hand) \in HandType
      BY <1>1, <2>1, HandIs DEF States
    <3> HIDE DEF b, c
    <3> QED BY <2>1, <3>1, InHand
  <2> HIDE DEF c
  <2>3. u \in Equip(c, "weapon")
    BY DEF c
  <2> QED BY <2>2, <2>3, EquipLeads DEF BiteBlocks
<1>3. ASSUME t \in KeepBiting(s) PROVE t = s
  BY <1>2, <1>3 DEF KeepBiting, BiteFails, RestoreWeapon
<1>4. ~BiteBlocks(AbandonBite(s).fight)
  BY DEF AbandonBite, EnterBite, BiteBlocks, Sound, States, FightType
<1>5. t \in DriveBite(s)
  BY <1>1, <1>4 DEF Eat
<1>6. CASE s.fight.bite = "Preparing"
  <2>1. t = [EnterBite(s, "WaitingForSlotAck") EXCEPT !.hand = Select(@, "food")]
    BY <1>5, <1>6 DEF DriveBite
  <2> QED BY <1>1, <2>1 DEF Bites, EnterBite, Select, Sound, States
<1>7. CASE s.fight.bite = "WaitingForSlotAck"
  <2>1. t \in KeepBiting(s) \/ \E h \in UseMainHand(s.hand) : t = [EnterBite(s, "Using") EXCEPT !.hand = h]
    BY <1>5, <1>7 DEF DriveBite
  <2>2. CASE \E h \in UseMainHand(s.hand) : t = [EnterBite(s, "Using") EXCEPT !.hand = h]
    <3>1. EnterBite(s, "Using") \in States /\ EnterBite(s, "Using").hand = s.hand
      BY EnterBiteIs DEF Sound, BiteStates
    <3> QED BY <1>1, <2>2, <3>1, HandIs, InHand DEF Bites
  <2> QED BY <1>3, <2>1, <2>2 DEF Bites
<1>8. CASE s.fight.bite = "Using"
  <2>1. CASE s.hand.using = "swallowed"
    <3>1. t \in RestoreWeapon([EnterBite(s, "RestoringWeapon") EXCEPT !.hand = Release(StopUsing(@))])
      BY <1>5, <1>8, <2>1 DEF DriveBite
    <3> DEFINE b == EnterBite(s, "RestoringWeapon")
               c == [b EXCEPT !.hand = Release(StopUsing(@))]
    <3>2. b \in States /\ b.hand = s.hand /\ b.fight.bite = "RestoringWeapon"
      BY EnterBiteIs DEF Sound, BiteStates
    <3>3. c \in States /\ c.fight.bite = "RestoringWeapon"
      <4>1. /\ c = [b EXCEPT !.hand = Release(StopUsing(b.hand))]
            /\ Release(StopUsing(b.hand)) \in HandType
        BY <1>1, <3>2, HandIs DEF States
      <4> HIDE DEF b, c
      <4> QED BY <3>2, <4>1, InHand
    <3> HIDE DEF c
    <3>4. t \in Equip(c, "weapon")
      BY <3>1 DEF c, RestoreWeapon
    <3> QED BY <3>3, <3>4, EquipLeads DEF BiteBlocks
  <2>2. CASE s.hand.using # "swallowed"
    <3>1. t \in KeepBiting(s)
      BY <1>5, <1>8, <2>2 DEF DriveBite
    <3> QED BY <1>3, <3>1 DEF Bites
  <2> QED BY <2>1, <2>2
<1> QED BY <1>1, <1>6, <1>7, <1>8

\* Neither the launch nor the weapon begins a bite.
LEMMA ActKeepsTheBite ==
  ASSUME NEW s, Sound(s), s.fight.bite = "Idle", NEW t \in Act(s)
  PROVE  t.fight.bite = "Idle"
<1>1. s \in States
  BY DEF Sound
<1>2. ASSUME NEW u \in States, NEW v \in Equip(u, "weapon")
      PROVE  v \in States /\ v.fight = u.fight
  BY <1>2, EquipLeads
<1>3. LaunchOver(s) \in States /\ LaunchOver(s).fight.bite = "Idle"
  BY LaunchOverKeeps
<1>4. CASE LaunchActive(s.fight)
  <2>1. t \in DriveLaunch(s)
    BY <1>4 DEF Act
  <2>3. CASE t \in KeepLaunching(s)
    BY <1>3, <2>3 DEF KeepLaunching
  <2>4. CASE t \in Launched(s)
    BY <1>2, <1>3, <2>4 DEF Launched
  <2>5. CASE t = [EnterLaunch(s, "WaitingForSlotAck") EXCEPT !.hand = Select(@, "charge")]
    BY <1>1, <2>5 DEF EnterLaunch, States, FightType
  <2>6. CASE t = [EnterLaunch(s, "AimingDown") EXCEPT !.camera = AimPrecisely(@, "down")]
    BY <1>1, <2>6 DEF EnterLaunch, States, FightType
  <2>7. CASE t = EnterLaunch(s, "WaitingForLaunch")
    BY <1>1, <2>7 DEF EnterLaunch, States, FightType
  <2> QED BY <2>1, <2>3, <2>4, <2>5, <2>6, <2>7 DEF DriveLaunch
<1>5. CASE ~LaunchActive(s.fight)
  <2>1. CASE t \in Attack(s)
    <3>1. PICK u \in Equip(s, "weapon") : t \in Swing(u)
      BY <2>1 DEF Attack, Then, SelectWeapon
    <3>2. u \in States /\ u.fight.bite = "Idle"
      BY <1>1, <1>2, <3>1
    <3> QED BY <3>1, <3>2 DEF Swing, Rerolled, States, FightType
  <2>2. CASE t \in BeginLaunch(s)
    <3> DEFINE h == [s EXCEPT !.hand = Hold(@)]
               l == EnterLaunch(h, "Preparing")
    <3>1. h \in States /\ h.fight = s.fight
      BY <1>1, HandIs DEF States
    <3> HIDE DEF h
    <3>2. l \in States /\ l.fight.bite = "Idle"
      BY <3>1, EnterLaunchIs DEF LaunchStates
    <3> HIDE DEF l
    <3>3. t \in Rerolled(l)
      BY <2>2 DEF BeginLaunch, h, l
    <3> QED BY <3>2, <3>3, RerolledKeeps
  <2> QED BY <1>5, <2>1, <2>2 DEF Act
<1> QED BY <1>4, <1>5

\* The rest of the tick does not touch the slot while a bite is under way, and
\* begins none.
LEMMA AfterBiteKeepsFood ==
  ASSUME NEW s, Sound(s), NEW t \in AfterBite(s), BiteBlocks(t.fight)
  PROVE  BiteBlocks(s.fight) /\ t.hand.selected = s.hand.selected
<1>1. PICK u \in Then(Walk(s), Act) : t = u \/ t \in Defend(u)
  BY DEF AfterBite, Then
<1>2. PICK v \in Walk(s) : u \in Act(v)
  BY DEF Then
<1>3. Sound(v) /\ Sound(u)
  BY <1>2, WalkLeads, ActLeads DEF Leads
<1>4. v.hand = s.hand /\ v.fight.bite = s.fight.bite
  <2>1. CASE v = CloseIn(s)
    BY <2>1 DEF CloseIn, Standing, Sound, States, LegsType, FightType, LaunchActive
  <2>2. CASE v \in Approach(s)
    <3> DEFINE off == IF s.fight.approaching THEN s
                      ELSE [s EXCEPT !.legs.keys = FALSE, !.fight.approaching = TRUE]
    <3>1. off \in States /\ off.hand = s.hand /\ off.fight.bite = s.fight.bite
      BY DEF Sound, States, LegsType, FightType
    <3>2. v \in {off, [off EXCEPT !.legs.goal = TRUE]}
      BY <2>2 DEF Approach
    <3> HIDE DEF off
    <3> QED BY <3>1, <3>2 DEF States
  <2> QED BY <1>2, <2>1, <2>2 DEF Walk
<1>5. t.fight.bite = u.fight.bite /\ t.hand.selected = u.hand.selected
  <2>1. ASSUME NEW d \in Defend(u) PROVE d.fight.bite = u.fight.bite /\ d.hand.selected = u.hand.selected
    <3>1. u.hand \in HandType /\ u.fight \in FightType /\ u \in States
      BY <1>3 DEF Sound, States
    <3>2. CASE d = [u EXCEPT !.hand = StopUsing(@), !.fight.shield = FALSE]
      BY <3>1, <3>2 DEF StopUsing, States, HandType, FightType
    <3>3. CASE d = [u EXCEPT !.hand.using = IF @ = "food" THEN @ ELSE "shield", !.fight.shield = TRUE]
      BY <3>1, <3>3 DEF States, HandType, FightType
    <3> QED BY <2>1, <3>2, <3>3 DEF Defend
  <2> QED BY <1>1, <2>1
<1>6. u = v
  <2>1. v.fight.bite # "Idle"
    <3>1. ASSUME v.fight.bite = "Idle" PROVE u.fight.bite = "Idle"
      BY <1>2, <1>3, <3>1, ActKeepsTheBite
    <3> QED BY <1>5, <3>1 DEF BiteBlocks
  <2> QED BY <1>2, <2>1 DEF Act
<1> QED BY <1>4, <1>5, <1>6 DEF BiteBlocks

\* A tick of the fight keeps the food in the hand while a bite chews.
LEMMA FightOnKeepsFood ==
  ASSUME Inv, FightOn, Chewing, BiteBlocks(fight')
  PROVE  hand'.selected = "food"
<1>1. PICK u \in TrackAim(Aged) : \E v \in Eat(u) : \E t \in AfterBite(v) :
        /\ Sound(Aged) /\ Sound(u) /\ Sound(v) /\ Sound(t) /\ Become(t)
  BY FightOnSteps
<1>2. PICK v \in Eat(u) : \E t \in AfterBite(v) : Sound(v) /\ Sound(t) /\ Become(t)
  BY <1>1
<1>3. PICK t \in AfterBite(v) : Sound(v) /\ Sound(t) /\ Become(t)
  BY <1>2
<1>4. Bites(Aged)
  BY <1>1 DEF Chewing, Bites, BiteBlocks, Aged, Here, Sound, States, FightType
<1>5. u.fight.bite = Aged.fight.bite /\ u.hand = Aged.hand
  <2>1. Aged \in States
    BY <1>1 DEF Sound
  <2>2. ASSUME NEW ok \in BOOLEAN, u = [Aged EXCEPT !.camera = LookAtTarget(@), !.fight.aimed = ok]
        PROVE  u.fight.bite = Aged.fight.bite /\ u.hand = Aged.hand
    BY <2>1, <2>2 DEF States, FightType
  <2> QED BY <2>2 DEF TrackAim
<1>6. Bites(u)
  BY <1>4, <1>5 DEF Bites, BiteBlocks
<1>7. BiteBlocks(v.fight) /\ hand'.selected = v.hand.selected
  BY <1>2, <1>3, AfterBiteKeepsFood DEF Become
<1> QED BY <1>1, <1>2, <1>6, <1>7, EatKeepsFood

\* From the selection of the food's slot until the bite has landed or failed only the clutch
\* or a new session selects another one: nobody else gets past the guard, which
\* is up all the while, and the fight's own steps leave the slot alone.
THEOREM FoodSlotStaysSelected == Spec => SlotStaysOnTheBite
<1>1. ASSUME Inv, Rest, [Next]_fightVars, Chewing, BiteBlocks(fight'), hand'.selected # "food"
      PROVE  clutch' # clutch \/ hand'.told = "never"
  <2>1. Running /\ hand.guard
    BY <1>1 DEF Rest, Calm, Chewing, BiteBlocks, Inv, GuardHasAnOwner
  <2>2. CASE UNCHANGED hand
    BY <1>1, <2>2 DEF Chewing
  <2>3. CASE FightOn
    BY <1>1, <2>3, FightOnKeepsFood
  <2>4. CASE TargetUnseen
    BY <2>2, <2>4 DEF TargetUnseen, Become, Here
  <2>5. CASE TargetLost \/ TargetDies \/ Cancel
    <3>1. PICK outcome \in {"Failed", "Completed", "Cancelled"} : Ended(outcome)
      BY <2>5 DEF TargetLost, TargetDies, Cancel
    <3>2. PICK s \in StopAll(Here) : Become([s EXCEPT !.fight = Reset(outcome, 0)])
      BY <3>1 DEF Ended
    <3>3. s \in States
      BY <1>1, HereOwned, StopAllKeeps
    <3> QED BY <1>1, <3>2, <3>3 DEF Become, Reset, BiteBlocks, States
  <2>6. CASE Kill
    BY <1>1, <2>6 DEF Kill, Become, Here, Reset, BiteBlocks
  <2>7. CASE EmergencyStop
    BY <1>1, <2>1, <2>7 DEF EmergencyStop, Reset, BiteBlocks
  <2>8. CASE SessionEnds \/ SessionSlips
    BY <2>8 DEF SessionEnds, SessionSlips, Joined
  <2>9. CASE ClutchStep
    <3>1. CASE SendSlot \/ BiteEnds \/ SwapInHand
      <4>1. hand'.selected = hand.selected
        BY <1>1, <3>1 DEF SendSlot, BiteEnds, SwapInHand, StopUsing, Inv, TypeOK, SurvivalTypeOK, HandType
      <4> QED BY <1>1, <4>1 DEF Chewing
    <3>2. CASE \E slot \in HotbarSlots : SelectOther(slot)
      BY <2>1, <3>2 DEF SelectOther, Refused
    <3>3. CASE \/ \E column \in Columns, slot, seen \in HotbarSlots : Arm(column, slot, seen)
               \/ \E column \in Columns : DriftOverLiquid(column)
               \/ \E column \in Columns, drifted \in BOOLEAN, slot \in HotbarSlots : Place(column, drifted, slot)
               \/ ClutchFails \/ LandForGood \/ Recovered
      <4>1. clutch \in ClutchType
        BY <1>1 DEF Inv, TypeOK, SurvivalTypeOK
      <4>2. CASE \E column \in Columns, slot, seen \in HotbarSlots : Arm(column, slot, seen)
        BY <4>2 DEF Arm
      <4>3. CASE \E column \in Columns, drifted \in BOOLEAN, slot \in HotbarSlots : Place(column, drifted, slot)
        BY <4>1, <4>3 DEF Place, ClutchType
      <4>4. CASE ClutchFails
        BY <4>1, <4>4 DEF ClutchFails, Abort, ClutchType
      <4>5. CASE (\E column \in Columns : DriftOverLiquid(column)) \/ LandForGood \/ Recovered
        BY <4>5 DEF DriftOverLiquid, LandForGood, Recovered, Finish, NoClutch
      <4> QED BY <3>3, <4>2, <4>3, <4>4, <4>5
    <3> QED BY <2>2, <2>9, <3>1, <3>2, <3>3 DEF ClutchStep, SurvivalNext, CannotArm, FallOver, Track,
                                                Land, ScoopAgain
  <2> QED BY <1>1, <2>2, <2>3, <2>4, <2>5, <2>6, <2>7, <2>8, <2>9 DEF Next, Arrive, fightVars
<1>2. Inv /\ Rest /\ [Next]_fightVars =>
        [Chewing /\ BiteBlocks(fight') /\ hand'.selected # "food"
           => clutch' # clutch \/ hand'.told = "never"]_fightVars
  BY <1>1
<1> QED BY AlwaysRests, <1>2, PTL DEF Spec, SlotStaysOnTheBite
=============================================================================
