# MagicAIBot in TLA+

MagicAIBot is a Minecraft bot written in Rust on top of Azalea. One task runs the
application loop (`src/src/app.rs`); services that the loop owns walk, look, break and
place blocks, open containers and fight. Azalea itself, the server and the operator run
beside that task. This directory models the loop and its services as state machines in
TLA+, model-checks them with TLC, and proves with TLAPS, for every value of the
constants, the safety properties of the block navigation, the interaction, the
container sessions, trips, the path search, the fight and the application loop.

Paths below are relative to `src/src/`.

## 1. Inventory

| Component | State it keeps | Operations | Hard behaviour |
|---|---|---|---|
| Block navigation (`navigation/`) | state, candidate list, blocks and approaches written off, attempts of the leg, top-up flag, generation, two clocks | `start_multi`, `start_exact`, `cancel`, `try_another_approach`, `tick`, `continue_after_mined`, `maybe_topup_candidates` | cells and connection change between and inside calls; Azalea retries for ever, so only its own clocks end a leg |
| Interaction (`interaction/`) | state, operation, `dispatched`, retries, face and hit point counters, `restore_after_break` | break, place, interact, `/testoaklog`, `replace`, `cancel`, `tick` | packets acknowledged late or never, blocks that change or unload under the operation, shares navigation, camera and mining with others |
| Look (`look/`) | state, target, precision, `suspended` | `look_at…`, `cancel`, `release_precise`, `tick` | one camera and several owners |
| Application loop (`app.rs`) | running command, pending chat, the select loop's timers | console and chat commands, the `*_and_wait` helpers, `/get`, `/mine`, disconnect and shutdown clean-up | blocking waits that tick only part of the services; commands queued meanwhile |
| Emergency stop (`control/`) | the current cancellation token | trigger, reset, `execute` | cancels all subsystems while a wait may be inside one of them |
| Container sessions (`container/`) | phase, window, revision, pending clicks, deadlines, owner | open, inspect, transfer, close, cancel, tick | window packets that are late or for another window; deadlines |
| Movement (`movement/`) | status, destination, monitor clocks | goto, stop, follow, tick | runs beside Azalea's pathfinder: a goal accepted is not a goal pursued |
| Pathfinding (`pathfinding/`) | goal, route, segment, generation of the background search | set goal, cancel, tick, result of a search | results that arrive after the goal or the world changed |
| Gathering and mobs (`mobs/`) | target, mode, drops owed | start, tick, cancel | targets that move, die or unload |
| Player combat (`combat/`) | mode of the executor, hotbar holder, timers | start, tick, consume, stop | modes that preempt each other |
| Survival (`survival/`) | fall rescue state, slot to restore | tick | decisions within a few ticks of a fall |
| Connection and world view (`minecraft/`) | connection state, generation, last snapshot | connect, reconnect, read, act | reconnects while calls are under way |
| Equipment, items, blocks, bridging, tasks, console, config, logging | tables, parsed values | parsing, scoring, planning | mostly pure |

How they interact: the loop calls the services and ticks them with three timers
(movement, look, interaction). The interaction owns a precise look while it aims, starts
the block navigation when it is out of reach, and lets Azalea mine. The navigation owns
Azalea's pathfinder through the movement service. All are cancelled by the loop on a
disconnect and by the emergency stop.

What makes each correct, in a sentence: the navigation never goes back to what it wrote
off and never stops silently; the interaction ends, sends a bounded number of packets and
reports success only for what it saw; the camera goes back to whom it was taken from; the
loop leaves nothing running that no command owns, and after an emergency stop nothing at
all; a container session never clicks on a window that it did not see; the movement layer
is never given a goal off the current route, and a hopeless trip ends; a route leads back
to the start by legal moves, and in none of its cells is there lava, or a place not
sampled, where the feet are or below them; whoever guards the hand gives it back, soon,
and no aim of a water clutch outlives it; the slots that the equipment manages are in the
end filled.

## 2. What is modelled

### BlockNavigation (`navigation/block_navigation.rs`)

A public method runs to completion on the application's task, so each method is one
action, with everything it calls. `TryNextTarget` is the set of outcomes of
one pass over the candidates (`try_next_target`): targets taken, blocks and approaches
marked, attempts used, and whether the connection dropped at one of the cell reads or
at `goto`. `Rescan` (`rescan_and_try_next`) runs a pass, a scan and perhaps a second
pass. The variables are the fields of `BlockNavigationSnapshot` and of the service;
`movement` is the movement service's status; `valid` and `linked` are what the world
answers and change at any time; that the bot has died or left the world is free in
every tick.

A method reads the world in several awaits. The position is read once per candidate or
tick, before the cells, so Reached may be claimed from a place the bot has left: whether
it counted as there is therefore free in every pass and every tick. Each cell is read once in
a pass, and cells change freely between calls, so one reading of them all stands for any
of those; that the second pass of one call meets other cells than its first is left out.

Abstracted: distances (any open candidate may be the nearest), geometry (an approach is
an index, `approach_positions` yields 11), status-line counters, the never entered state
`Repathing`. `stalled` and `expired` say that a clock has run out.

`TargetSearch` is the abstract specification: a run takes up targets of its scope one
after the other, abandons each before it takes the next, never returns to one. Only a
new run forgets.

### Interaction (`interaction/interaction_controller.rs`) and LookController (`look/look_controller.rs`)

One action per branch of `tick` and per command. The block navigation enters by its
contract: the actions `Begin`, `TakeNext`, `Arrive`, `GiveUp` and `Drop` of
`TargetSearch`, which `BlockNavigation` is shown to implement. That it is Reached does
not mean that the bot is still there: the interaction measures its reach itself. The look controller is
instantiated as a whole. Faces and hit points are one count of probes; block ids are
three contents ("stone", "log", "air") and "unloaded", which is how a chunk that is not
loaded reads; the inventory is the stock of one item. The console and `/mine` appear as
the commands that call the controller.

### Container and TransferPlan (`container/service.rs`, `state_machine.rs`, `planner.rs`)

One action per console command (`open`, `transfer`, `close`, `cancel`) and per branch of
`tick`; the phase is the machine's, `transfer` the fields that only Transferring reads.
`TransferPlan` holds the click planner: the greedy loop visits sources and destinations in
the order of their slots, and a source and a destination share the overlap of their
intervals when the stacks and the rooms are laid end to end (`From`, `To`), which is what
the loop moves between them; the clicks of a pair are `Carry`, those of the plan their
concatenation. Every click is then carried out, one per tick, on a menu with a cursor, so
that the plan is judged by what it does. Server windows, acknowledgements and changes by
others come at any time, between two clicks too. Deadlines are whether they have passed;
the observer of `minecraft/container.rs` is not read by the service and is left out.

### Application (`app.rs`, `control/stop.rs`, the life of the connection in `minecraft/client.rs`)

`at` is where the one task is: in the select loop, in a blocking wait, about to listen
(the polls of console, chat and token between two ticks of a wait), ended. The timers of
the select loop are `MovementTick` (with the clean-up after a lost connection and the
draining of the chat), `LookTick` and `InteractionTick`. `Execute` runs one command: what
it cancels up front (`UpFront`, per command), what it starts, what it waits for. A wait
drives what its helper drives (`Drivers`) and ends when the controller does (`Finished`),
when it is interrupted, or when the session is gone. `/get` and `/mine` are the chains of
waits they go through (`NextWaits`, the `After...` operators) with their counts of
failures. `Heard` is what `wait_tick` leaves of the chat while a command waits: status
queries are answered, the first stop is taken, the rest stays in its order (`Without`).

A controller is a member of `bot.on`, the walk and the camera are what it may do to them
(`On`, `Tick`, `Cancel`): the modules below say which of it happens when. `Chase` and
`Strike` are the hunt of `mobs/combat.rs` in that form: which mob comes next and the walk
to its drop are not told apart. The console always has an input ready or not; the chat is
a queue, because a stop overtakes the lines before it.

### Movement and Trip (`movement/movement_service.rs`, `pathfinding/controller.rs`, `segment.rs`, `planner.rs`, `executor.rs`)

`Movement` is the service over Azalea's walk: `Goto`, `Stop`, `Follow`, the two ticks,
and the client that walks by itself between them. `Trip` is the controller on top of it:
the segment plan, one background search whose answer may come at any later time, the
prefetch of the next segment, the follower of a segment. `Tick` is one disjunct per
early return of `tick` and `tick_following`. Places are points of a line, so a
block-level route is its first and its last place; stuck timers, stalls and
due revalidations may happen whenever the code looks at them, at the price of a unit of
`faults`.

### PathSearch (`pathfinding/astar.rs`, `moves.rs`, `grid.rs`, `terrain.rs`, `cost.rs`)

One search: `Successors` is all the moves with their guards and prices (level, side step,
jump, drop, break, bridge, diagonal with both corners, water, ladder), `Expand` one
iteration of the loop with its early exits as disjuncts of `Next`. Prices are tenths, the
estimate is rounded down, which of two equal nodes the heap gives out is a choice, and
the wall clock or the cancel flag may end a search at any expansion.

### Equipment (`equipment/manager.rs`, `hotbar.rs`, `tools.rs`, `armor.rs`, `offhand.rs`, `autodrop.rs`)

`Scan` and `ScanHotbar` begin a round with a snapshot; every `Step` decides from the
snapshot and acts on the inventory as it is by then (`Source` for the decision, `Clicks`
for the three clicks, `Dropped` for what `maybe_drop` throws). Between two steps the
server may add or take items (`PickUp`, `UseUp`), and a menu that opens or closes cuts a
swap short. Scores are ranks, and a snapshot that cannot be read is a round that begins
later.

### Survival and Fight (`survival/mod.rs`; `combat/executor.rs`, `consume.rs`, `wind_launch.rs`, `kill.rs`)

The two share the hand, the guard on it (`consume_guard`) and the camera, and a tick of
the loop drives both: the composition is the point. `Survival` has one action per exit of
each of the five states of the water clutch. The bucket may be in any slot of the hotbar,
the selected one included, because a full hotbar has it swapped into the first slot; the
slot that the clutch will give back is that of a world snapshot, which a selection since
may have outdated; a new session holds whatever slot the server restores. In `Fight`,
`FightOn` is one tick of the executor: a pipeline of operators from a state to a set of
states (aim, bite, legs, launch, weapon and swing, shield) in the order of the code, each
with its early returns.

Abstracted: of the slot that the server was told only whether it was told, and whether it
is the one selected now (`told` is "never", "stale" or "current"); sword, axe and mace are
one weapon, whose slot stands for every other slot too; the contents of the slots are not
modelled: positions, health, cooldowns, the timing of the fall and what lies in a slot
when it is used are free choices. The swaps of the equipment services pass the guard
(`SwapInHand`): what is being eaten may leave the hand with its slot still selected; `age`
counts the ticks a machine is driven in one state, and is the only clock. A call on the
client fails only when the bot is not joined. Keys that are let go for one tick and
pressed in the next count as held. The fields of a fight are cleared at its end where the
code clears them at the next start: nothing reads them in between.
`ConsumeMachine.attempts`, the window of the smash attack, the timing of critical hits and
the sensors are left out: they choose between behaviours that are all allowed here.

Constants bound what has no bound in the program: `MaxGeneration` (starts explored),
`MaxItems` (stock), `MaxWindows`, `MaxRevision` and `MaxAsked` (windows, their
revisions, transfers begun in one). `RetryLimit`, `MaxProbes`, `MaxTargetAttempts`, `TopupLowWater` and
`NumApproaches` are the program's own limits, made small; so are `MaxReplans`,
`MaxFailures`, `ChatCapacity`, `MaxScoops`, `MaxHits`, `Deadline`, `SegmentLength` and the
radii. `MaxFaults`, `MaxTrips`, `MaxEvents` and `MaxNodes` are bounds of the exploration
(`MaxNodes` also the program's own).

## 3. Runs

| Run | Shows | Bounds, and why they are enough |
|---|---|---|
| `navigation` | type, pursuit of open targets, no silent stall, no giving up early, no mark without a cause; refinement of `TargetSearch`; every leg is decided | 2 blocks with 2 approaches and 2 attempts: fewer attempts than targets, so the cap binds; the low-water mark is crossed; the connection drops inside a pass; 2 runs, the second started in every state of the first; liveness without symmetry (502,208 states) |
| `interaction_break` | bounded packets, fresh dispatch, the camera is the operation's own, nothing held afterwards | 2 blocks, 1 retry, 2 probes; break, `/mine`, `/look`, `/look stop` and `/stopinteraction` |
| `interaction_place` | walking to its own block, no debt afterwards | 2 blocks, one may support the other; place, use, `/testoaklog`, `/stopmovement` |
| `interaction_ends` | no operation prepares, aims, waits or retries for ever | 1 block; liveness without symmetry |
| `container_session` | clicks land in their own window, an undisturbed transfer is exact, ownership follows the session | 2 windows, 2 revisions, 2 transfers each (the second may begin while the first is under way); 2+2 slots and stacks of 3, from menus with stacks to split, rooms to fill from two stacks, an empty and a full slot |
| `trip` | a finished trip has no search left, the walk is to a waypoint of the current route, arriving and cancelling stand still, a hopeless trip ends | 6 places, segments of 3: two segments and a waypoint between; one fault of any kind at any time, one replan, and a second trip that starts in every state of the first |
| `trip_open_ground` | disagreement (section 5) | 9 places, no fault, every search complete |
| `path_search` | parents lead back by legal moves at a falling price, a partial route is the nearest, no footing in lava or the unknown | a slice of 4 x 5 x 2 with a wall to cross, two of whose cells may be of any of seven classes; 12 nodes, so that searches run out of budget as well as arrive |
| `application` | one long-running controller per wait, quiet after a stop, waits are bounded, queued actions keep their order, a stop overtakes them | every command at the console; a chat of capacity 2 with a friend and a stranger, so that it overflows and a stop is behind another line; 2 failures; the connection is lost anywhere |
| `equipment` | what is in the inventory ends in its slot, although both services work from snapshots and the server moves items | sword, pickaxe and bucket in managed slots, armour and a totem to wear, one of each, from every arrangement of them; one event from outside at any step |
| `equipment_default_slots` | disagreement (section 5) | a block, a bucket and another item in every arrangement, slots for the block and the bucket, no event |
| `fight` | the guard has an owner and is brief, the bite keeps its slot selected, nothing is left on, the aim of the clutch ends with it | solid ground, a plant in water and an unloaded column; one scoop, one hit and a deadline of 2 ticks: every state of both machines is left early, in time and late, under a clutch in every state (515,656 states) |

Fairness. `tick_interaction` runs in the select loop every `interaction_tick` (50 ms) and
in every blocking wait, and ticks the navigation too; the look has a tick of its own.
So time passes (`Expire`) and `TickExpired`, the tick of `BlockNavigation` that finds a
leg's time up, is weakly fair: that a tick ever finds the bot arrived, its cells changed
or the world gone is not assumed. `Tick`, `NavTick` and `LookTick` of `Interaction` are
weakly fair. `Trip` is ticked in the same way, and its search thread ends, because of
its own time limit. In `Equipment` a round takes its next step (weak fairness) and
both services are scanned again and again, which is strong fairness because the one may
be in the middle of a round whenever the other's turn comes: the code ticks both, one after the other,
for ever. Nothing is assumed of the pathfinder, the server, the blocks or the
operator. `EndsOrWalks` speaks of operations that their callers leave alone: the operator
could restart one for ever.

Deadlock is checked wherever the system goes on for ever. It is not in `application`
(the program ends), `path_search` (a search ends) and the two runs of trips (the last
trip ends).

## 4. Proofs

Each component that is proved about has a module of proofs. Every theorem below holds
for every value of the constants; what is assumed of them is the `ASSUME` of the module
concerned: types, positive bounds, null values that are not data, and the few facts named
below. The pattern is the same everywhere: an inductive invariant, checked with TLC
before it was proved, one lemma for each helper and each action, and the theorems from
that invariant. The bounds of the exploration (faults, windows, generations) are
constants of the theorems too.

`Recursions` holds what the others share: that a non-empty set of naturals has a least
member, that a set of naturals with 0 and all successors is all of them, and that a
recursive definition over the naturals, or over the first n of them, has a function
that satisfies it. Induction over data is done with these.

**BlockNavigationProofs.** `Inv` is the conjunction of `TypeOK`, `PursuesOpenTarget`
and `NoSilentStall`, none of which is inductive alone: a tick that gives the target up
marks it and needs to know it was a candidate, and the bound on attempts needs the
pass's own guard. What a pass may choose is outside the marks it makes; so
`TryNextTarget`, and `Rescan`, return outcomes that are either moving to an open target
or final; `Adopt` carries such an outcome into the state. The action properties need
more of an outcome: `Follows` says what a pass may have marked and when it may fail
(`GivesUpExhausted`, `MarkedForGoodCause`), `Decides` that the
targets it took form a run of the abstract search. From that `Refines` proves that
`BlockNavigation` implements `TargetSearch` under the refinement mapping, step by step:
a step of the service is one step of the search, a sequence of its `TakeNext` that ends
in the same state, or a stutter.

**InteractionProofs.** `Books` ties state, operation, flag, retries and packets
together, `Walk` and `LookTypeOK` are the navigation's and the camera's part. The bound
on packets needs the flag: `sends` exceeds the retries counted by one exactly while
`dispatched` is up, and every way back to aiming lowers it (`SendsAreBounded`,
`DispatchIsFresh`). `CameraIsOwn` and `EndsQuietly` carry each other: a command that ends
an operation relies on the camera being its own when it gives it back. `WalksHome` has a
hypothesis, that `/mine` is not among the commands, because with it the property fails:
the recovery from an obstructed raycast takes the next approach of the search that
`/mine` made over every block (section 5). That it is used through `TargetSearch` is
justified by `Refines`.

**ContainerProofs.** The invariant adds to ownership that the window the clicks were
planned for is the session's (`PlannedForSession`): `begin_transfer` establishes it, and
the session's window changes only in AwaitingMenu, where no transfer is under way. That
a transfer is exact rests on `Exact`: as long as nobody else touched the window, the
clicks that are left lead (`Leads`: there is a trace of menus and cursors, one click at a
time) to a menu in which the planned amount has left the source side, with nothing on the
cursor. A click that is done shortens the trace (`ClickExact`). That a fresh plan
satisfies it (`BegunExact`) is a proof about the planner: `MenuAt(menu, dir, p)` is the menu after
p items have been carried, from the stacks and into the rooms in order; the clicks of
each pair lead from one such menu to the next (`CarryLeads`, over the three ways a stack
is put down: whole, one by one with the rest put back, or not at all), a source's clicks
through all its rooms (`RowLeads`), and the whole plan from 0 to the feasible amount
(`PlanLeads`). Sums over slots are unrolled with `Recursions`; no bound on slots, stacks
or amounts is used.

**TripProofs.** `Sound` gives the trip its shape in each state (a calculated segment has
a waypoint, the cursor is in the plan, a follower exists exactly while a segment is
followed, an ended trip has no search); `Aimed` relates it to the movement service: the
walk goes to the waypoint the follower submitted, unless a player is followed. Each operator that the
tick is built from (top-up, prefetch, simplification, thinning, adopting an answer)
keeps both; waypoints stay on the line by division. `StandsStill` is an action property:
every exit to Arrived or Cancelled goes through the service's stop. A failed trip is not
among them (section 5).

**PathSearchProofs.** `Tree` says that the parents of reached cells are reached cells,
one legal move and a strictly lower price away, and that only the start has none; `Heap`
and `Nearest` are about the open nodes and the best one. The difficulty is that the
search rewrites parents as it finds cheaper ways, so that a chain that was legal must be
shown to stay so: prices only fall, and a price that falls is still above its parent's.
From this the loop of `reconstruct` ends (no path of parents is longer than the number of
cells reached, because prices fall strictly along it) and what it gives is a route:
`RoutesAreWalkable`. Assumed is what `Config::validate` (config.rs:1948-1976) makes sure
of, positive prices, and that hostiles are finitely many. Prices are integers here and floats in
the code: the argument uses only that a positive price makes a sum larger. `RoutesAreSafe` has the
hypothesis that the policy does not allow lava, which the planner never does
(pathfinding/planner.rs:237); under another it would be false by design.

**FightProofs.** The invariant is the conjunction of `TypeOK`, `GuardHasAnOwner`,
`GuardIsBrief` and `AimsForWater`: only a clutch under way aims for its water, that aim is
precise, and it is never a look to come back to. Without the precision
`AimEndsWithTheClutch` is not inductive: the next precise aim would displace the clutch's,
and the end of the clutch would bring it back. Brevity needs ownership, because only the machine that owns the guard
counts its age. A tick's pipeline is proved operator by operator: `Sound` states (typed,
owned, the launch and the bite exclusive) lead to sound states (the lemmas `...Leads`), and
`Ripe`, `Timely` and `Brief` follow the age through the tick. `NothingIsLeftOn` needs
`Calm`, that a fight that is over has no bite left, because the end of a bite would act on
the hand again; `FoodSlotStaysSelected` follows the selected slot along the same pipeline,
where the guard keeps the weapon, the shield and the launch out. It says nothing of what
lies in the slot, which the equipment services may exchange (section 5).

**ApplicationProofs.** The invariant adds three parts to the properties. `OwnWait`: what
a command waits for is one of its own waits. `Counted`: the waits begun since the last
look at the chat are at most twice the failures counted, and one to three more according
to the kind of wait; every round of waits of a gathering passes one that counts, which
gives `NeverIsDeaf` for any limit. `Stopped`: after a stop nothing waits, and the bot is in
`Quiet`, a set closed under every tick (`QuietDrives`). What a list of cancels reaches is proved for
lists of any length (`CancelEnds`: it starts nothing, and what it names is off), likewise
for ticks (`DriveKeeps`); the lists of `control/stop.rs` and of the commands are
instances. For `ActionsWait` the chat's filter is shown to go through
concatenation, so that leaving out the queries, or a stop from anywhere in the queue,
changes nothing for the lines that ask for action.

| Module | Theorems |
|---|---|
| `BlockNavigationProofs` | `TypeCorrect`, `AlwaysPursuesOpenTarget`, `NeverStallsSilently`, `GivesUpExhausted`, `MarkedForGoodCause`, `Refines` |
| `InteractionProofs` | `TypesHold`, `SendsAreBounded`, `DispatchIsFresh`, `CameraIsOwn`, `EndsQuietly`, `WalksHome` |
| `ContainerProofs` | `AlwaysTyped`, `AlwaysOwnedWhileSetUp`, `AlwaysClicksInTheirWindow`, `AlwaysExact` |
| `TripProofs` | `TypesHold`, `EndsWithoutSearch`, `RouteIsFollowed`, `StandsStill` |
| `PathSearchProofs` | `LeadsBack`, `GivesNearest`, `RoutesAreSafe`, `RoutesAreWalkable` |
| `FightProofs` | `TypeCorrect`, `GuardAlwaysHasAnOwner`, `GuardIsAlwaysBrief`, `AimAlwaysEndsWithTheClutch`, `NothingIsLeftOn`, `FoodSlotStaysSelected` |
| `ApplicationProofs` | `TypesHold`, `FightAlone`, `QuietAfterAStop`, `NeverIsDeaf`, `StopAlwaysOvertakes`, `ActionsWait` |

Every invariant and every action property of the passing runs is a theorem. Only
model-checked is liveness (`LegIsDecided`, `EndsOrWalks`, `HopelessEnds` and, the one
property of `Equipment`, `EventuallyStocked`), which is beyond the prover.

## 5. Where the code and its words disagree

Two disagreements have a run of their own. `trip_open_ground`: on open ground, with every search
complete, a trip may end in Failed(NoRoute), because a bot within the segment's arrival
radius but not within the trip's has no segment left, and its searches, which return at
once, count as failures (`pathfinding/controller.rs:497` against `state.rs:72-73`).
`equipment_default_slots`: the default slots keep a building block in 5 and the water
bucket in 6; when each lies in the other's slot, the step for the block swaps them and
the step for the bucket, which decides from the same snapshot, swaps them back, in every
round (`equipment/hotbar.rs:123` against "self-corrects on the very next tick",
`hotbar.rs:119-120`). `EventuallyStocked` is violated there; the run `equipment`, whose
steps keep tools and one item, shows it otherwise.

The others are stated as properties beside those that hold; TLC shows each violated when
it is added to the configuration named:

| Property | Configuration | What the code does |
|---|---|---|
| `OperationEnds` | InteractionEnds | out of reach, `tick` returns (line 594) before it reads the navigation's state (596-615): a walk that failed or was dropped leaves the operation in Moving without a timeout |
| `BrokenWasSeen` | InteractionBreak | while a break waits, `Ok(None)` (an unloaded chunk) completes it |
| `ReleasedWhenFailed` | InteractionBreak | `fail` keeps the precise look and the mining, and `cancel` can no longer release them |
| `ReleaseSparesOthers` | InteractionBreak | `release_precise` cancels a look nothing displaced, against its comment |
| `PartialIsSaid` | ContainerSession | `transferred` accumulates over the transfers of a session while `requested` is the latest request's, so a partial transfer may be reported as complete |
| `StopIsNeverThrottled` | Application | a `#stop` that the select loop takes from the chat goes through the rate limit |
| `OneDriver` | Fight | `/kill` of another player during the approach leaves the walk going, and the keys are driven beside it |
| `ThrowsTheCharge` | Fight | a launch goes on when the server has been told of any slot, the earlier one included |
| `KeepsItsAim` | Fight | a launch that fails before it has aimed ends the fight's own look, which is never submitted again |
| `DropsOnlyTheDisplaced` | Equipment | the drop is decided from the snapshot and done to what lies in the slot by now |
| `KeepsTheBest` | Equipment | a tool that outranks what lies in its slot replaces, and drops, the only tool of another kind |

Met while modelling, without a property:

- Interaction: a failed `/testoaklog` leaves `restore_after_break` set, so that the next
  unrelated break places an oak log; raycast recovery during `/mine` may walk to the
  approach of another block; `/lookstop` during an interaction leaves it in Looking.
- Container: a completed transfer leaves its 5 s deadline on the open session, which then
  times out; a failed or closed session leaves the navigation walking, the window open
  and the precise look in place; a window left open is taken for the next session's; a
  transfer begun in mid-transfer plans with items on the cursor.
- Pathfinding: a follower takes the Failed status of an earlier walk for its own; `fail`
  leaves its walk going; a prefetch survives the rebuilding of the plan that it was for;
  a search that panicked is not counted as a failure; `complete` of the coarse route is
  never false; the estimate is not admissible for a drop of one block (`cost.rs:180`); lava
  at the height of the head, or in the cells that a drop falls through, is let through
  (`moves.rs:406`, `299-333`).
- Equipment: swaps pass the guard that a bite or a launch relies on, and may exchange the
  food in the hand (`hotbar.rs:215`, `combat/executor.rs:867-869`); a container that opens
  between the clicks of a swap leaves an item on the cursor.
- Fight and survival: arming the clutch cancels its rivals only when it arms; some states of the
  bite and of the clutch have no deadline of their own; `/kill` restarts with a raised
  shield or in the middle of a launch; `begin_wind_launch` leaves the shield up; the
  clutch moves the bucket into the first slot even if that is the selected one, and then
  leaves it in the hand (`survival/mod.rs:362`); it gives back the slot of a snapshot,
  which may not be the one selected when it armed (`survival/mod.rs:300`).
- Application: the clean-ups after the loop and after a lost connection each leave a
  controller going; a connection that is back before the next movement tick was never
  noticed to be lost; Ctrl+C is not heard inside a wait; a stall resets the count of
  failures of `/get`; a `/quit` that interrupts a wait begun from the chat is dropped; status
  queries answered in a wait skip the rate limit; with the console disabled the bot ends
  at once; `supervise` takes a closed event stream for a shutdown.

## 6. Not modelled, and what is left

Left out: floating-point geometry (rotation, steering, prediction of motion), parsing,
validation of the configuration, logging and file I/O; the tracking of entities and
players; the sampling of the world into a grid and its cache (`PathSearch` takes any
grid, `Trip` any answer); the drop plan and the order of block queries, which are pure
functions with tests of their cases; the choice of the next mob and the walk to its drop.

What would add most next: the controllers of `Application` by the modules that implement
them, by refinement instead of by contract; the choice of targets of the hunt; safety of
`Equipment`, of which only the end of its rounds is checked.
