----------------------------- MODULE Interaction -----------------------------
(***************************************************************************)
(* InteractionController (interaction/interaction_controller.rs) with the   *)
(* two components it borrows: the block navigation, by the contract of      *)
(* TargetSearch, and the look controller.  One operation at a time: break a *)
(* block, place one, or use an item on one.  It walks into reach, aims,     *)
(* checks the crosshair, sends the packet and waits for the server's word.  *)
(*                                                                         *)
(* The console and the /mine loop call it from the same task that ticks it, *)
(* so a call or a tick is one action.  Between actions blocks change, the   *)
(* bot moves, and the bot may die or lose the connection.                   *)
(*                                                                         *)
(* Faces and hit points are a count of probes, positions a set of blocks in *)
(* reach, block ids three contents, and the inventory the stock of the one  *)
(* item the operator places and uses.                                       *)
(***************************************************************************)
EXTENDS Naturals, FiniteSets

CONSTANTS
  Blocks, NumApproaches,
  RetryLimit,   \* config.retry_limit
  MaxProbes,    \* maximum_face_attempts * maximum_hit_points_per_face
  MaxItems,     \* bound on the stock
  Appearing,    \* contents a block may come to have
  Commands,     \* what the operator and the /mine loop may do
  Somewhere,    \* the target of an explicit look
  None

ASSUME InteractionAssumption ==
  /\ NumApproaches \in Nat \ {0}
  /\ RetryLimit \in Nat
  /\ MaxProbes \in Nat \ {0}
  /\ MaxItems \in Nat
  /\ Appearing \subseteq {"stone", "log", "air", "unloaded"}
  /\ Somewhere \notin Blocks
  /\ None \notin Blocks \cup {Somewhere} \cup (Blocks \X (1..NumApproaches))

Approaches == 1..NumApproaches
Targets == Blocks \X Approaches

VARIABLES
  istate,      \* snapshot.state; "Acting" is Breaking, Placing or Interacting
  op,          \* the operation, or None
  dispatched,
  retries,
  probes,      \* face_attempt and hit_point_attempt as one count
  restore,     \* restore_after_break: a log is owed at this block
  late,        \* verification_timeout_ms passed since the dispatch
  sends,       \* packets sent for the operation
  lookState, lookTarget, precision, suspended,
  phase, target, abandoned, scope,
  mining,      \* the block Azalea is breaking
  cell,        \* what the client reads at each block
  items,
  inReach,     \* blocks within reach of the bot
  presence     \* joined_world, dead, or disconnected

opVars == <<istate, op, dispatched, retries, probes, restore, late, sends>>
worldVars == <<mining, cell, items, inReach, presence>>

Look == INSTANCE LookController WITH
  LookTargets <- Blocks \cup {Somewhere}, Tracked <- {}
Nav == INSTANCE TargetSearch WITH run <- 0

lookVars == <<lookState, lookTarget, precision, suspended>>
navVars == <<phase, target, abandoned, scope>>
vars == <<opVars, lookVars, navVars, worldVars>>

Solid == {"stone", "log"}
Contents == Solid \cup {"air", "unloaded"}
Kinds == {"break", "place", "interact"}
ActiveStates == {"Preparing", "Moving", "Looking", "Acting", "Retrying"}
InteractionStates == ActiveStates \cup {"Idle", "Completed", "Cancelled", "Failed"}

Operations ==
  [kind : Kinds, block : Blocks, support : Blocks, expected : Contents,
   before : 0..MaxItems]

\* None is a model value, no record.
ASSUME NoneIsNoOperation == None \notin Operations

\* What an operation aims at: its block, or for a placement the support.
Operation(k, b, s) ==
  [kind |-> k, block |-> b, support |-> s, expected |-> cell[s], before |-> items]

\* operation_still_valid
Valid(o) ==
  /\ cell[o.support] = o.expected
  /\ o.kind = "place" => cell[o.block] = "air"
  /\ o.kind # "break" => items > 0

Active == op # None /\ istate \in ActiveStates

-----------------------------------------------------------------------------
(* Steps of the controller's own state.                                     *)

Enter(s) == istate' = s /\ UNCHANGED <<op, dispatched, retries, probes>>

\* Back to the start of the operation.  (Mutants: the retry count starts over;
\* the dispatch flag stays up.)
PrepareAfresh ==
  /\ istate' = "Preparing" /\ dispatched' = FALSE /\ retries' = 0
  /\ UNCHANGED <<op, probes>>
PrepareStill == istate' = "Preparing" /\ UNCHANGED <<op, dispatched, retries, probes>>
Prepare ==
  /\ istate' = "Preparing"
  /\ dispatched' = FALSE
  /\ UNCHANGED <<op, retries, probes>>

\* fail: neither the look nor the mining is given up.
Fail == istate' = "Failed" /\ op' = None /\ UNCHANGED <<dispatched, retries, probes>>

\* Mutant: one retry too many.
ExhaustedLate == retries > RetryLimit
Exhausted == retries >= RetryLimit

RetryOrFail(flag) ==
  /\ dispatched' = flag
  /\ IF Exhausted
       THEN istate' = "Failed" /\ op' = None /\ UNCHANGED retries
       ELSE istate' = "Retrying" /\ retries' = retries + 1 /\ UNCHANGED op

Complete == istate' = "Completed" /\ op' = None /\ UNCHANGED <<dispatched, retries, probes>>

Quiet == UNCHANGED <<restore, late, sends>>

\* What cancel gives back: the walk, the camera, the pickaxe.  (Mutant: the
\* camera is kept.)
KeepCamera ==
  IF Active
    THEN Nav!Drop /\ mining' = None /\ UNCHANGED lookVars
    ELSE UNCHANGED <<navVars, lookVars, mining>>
ReleaseControls ==
  IF Active
    THEN Nav!Drop /\ Look!Release /\ mining' = None
    ELSE UNCHANGED <<navVars, lookVars, mining>>

\* What cancel forgets.  (Mutant: nothing; the operation runs on.)
ForgetNothing == UNCHANGED <<istate, op, dispatched, retries, probes>>
Forget ==
  /\ istate' = IF Active THEN "Cancelled" ELSE istate
  /\ op' = IF Active THEN None ELSE op
  /\ dispatched' = (~Active /\ dispatched)
  /\ probes' = IF Active THEN 0 ELSE probes
  /\ UNCHANGED retries

\* Mutant: the log is owed for ever.
StillOwed == restore
OwedAfterCancel == IF Active THEN None ELSE restore

\* replace: cancel what runs, then take o up if the bot can act at all.
Replace(o, owed) ==
  /\ mining' = IF Active THEN None ELSE mining
  /\ IF presence = "joined"
       THEN /\ istate' = "Preparing" /\ op' = o /\ dispatched' = FALSE
            /\ retries' = 0 /\ probes' = 0
            /\ sends' = 0 /\ restore' = owed
       ELSE Forget /\ restore' = OwedAfterCancel /\ UNCHANGED sends
  /\ UNCHANGED late

-----------------------------------------------------------------------------
(* tick                                                                     *)

TickRetry ==
  /\ istate = "Retrying"
  /\ Prepare
  /\ UNCHANGED <<restore, late, sends, lookVars, navVars, worldVars>>

TickUnable ==
  /\ Active /\ istate # "Retrying"
  /\ presence # "joined"
  /\ Fail
  /\ UNCHANGED <<restore, late, sends, lookVars, navVars, worldVars>>

Able == Active /\ presence = "joined"
Reaching == op.block \in inReach

\* Where it walks: to the block it aims at.  (Mutant: to the block it changes.)
BlockItself == {op.block} \X Approaches
Destination == {op.support} \X Approaches

\* Out of reach: start_exact towards the support, once.
TickSetOff ==
  /\ Able /\ istate = "Preparing" /\ ~Reaching
  /\ \/ /\ cell[op.support] # op.expected
        /\ Fail
        /\ UNCHANGED navVars
     \/ /\ cell[op.support] = op.expected
        /\ Nav!Begin(Destination)
        /\ IF phase' \in Nav!Pursuing THEN Enter("Moving") ELSE Fail
  /\ Quiet /\ UNCHANGED <<lookVars, worldVars>>

\* The navigation is consulted only from within reach of the block, whatever it
\* claims: that it is Reached does not mean that the bot is still there.
TickArrived ==
  /\ Able /\ istate = "Moving" /\ Reaching
  /\ \/ phase = "Failed" /\ Fail
     \/ phase = "Reached" /\ Valid(op) /\ Prepare
     \/ phase = "Reached" /\ ~Valid(op) /\ Fail
  /\ Quiet /\ UNCHANGED <<lookVars, navVars, worldVars>>

TickAim ==
  /\ Able /\ istate = "Preparing" /\ Reaching
  /\ \E result \in Look!LookStates :
       /\ result # "Failed" => cell[op.support] = op.expected
       /\ Look!LookAt(op.support, "Precise", result)
       /\ IF result = "Failed" THEN Fail ELSE Enter("Looking")
  /\ Quiet /\ UNCHANGED <<navVars, worldVars>>

\* dispatch: the packet goes out, or a tool or hotbar slot is missing.
Dispatch ==
  \/ /\ ~dispatched
     /\ istate' = "Acting" /\ dispatched' = TRUE
     /\ late' = FALSE /\ sends' = sends + 1
     /\ mining' = IF op.kind = "break" THEN op.block ELSE mining
     /\ UNCHANGED <<op, retries>>
  \/ /\ ~dispatched
     /\ RetryOrFail(TRUE)
     /\ late' = FALSE
     /\ UNCHANGED <<sends, mining>>
  \/ /\ dispatched
     /\ UNCHANGED <<istate, op, dispatched, retries, late, sends, mining>>

\* The camera rests and the ray hits the block, on a face that will do.
TickHit ==
  /\ Able /\ istate = "Looking" /\ lookState = "Completed"
  /\ \/ Valid(op) /\ Dispatch
     \/ /\ ~Valid(op) /\ RetryOrFail(dispatched)
        /\ UNCHANGED <<late, sends, mining>>
  /\ UNCHANGED <<probes, restore, lookVars, navVars, cell, items, inReach, presence>>

\* The look failed, the ray is lost, or it hits what a placement cannot use.
TickMiss ==
  /\ Able /\ istate = "Looking" /\ lookState \in {"Completed", "Failed"}
  /\ RetryOrFail(dispatched)
  /\ Quiet /\ UNCHANGED <<probes, lookVars, navVars, worldVars>>

\* The next hit point of the face, or the first of the next face.  (Mutant: the
\* same one again.)
SameProbe == probes
NextProbe == probes + 1

\* recover_break_raycast: the next hit point, then the next face, and when
\* all are spent another place to stand.
TickObstructed ==
  /\ Able /\ istate = "Looking" /\ lookState = "Completed" /\ op.kind = "break"
  /\ IF NextProbe < MaxProbes
       THEN /\ probes' = NextProbe
            /\ istate' = "Preparing"
            /\ UNCHANGED <<op, dispatched, retries, navVars>>
       ELSE /\ probes' = 0
            /\ \/ /\ target # None /\ Nav!TakeNext
                  /\ istate' = "Moving"
                  /\ UNCHANGED <<op, dispatched, retries>>
               \/ /\ target # None /\ Nav!GiveUp
                  /\ phase' = phase /\ target' = target
                  /\ RetryOrFail(dispatched)
               \/ /\ target = None
                  /\ RetryOrFail(dispatched)
                  /\ UNCHANGED navVars
  /\ Quiet /\ UNCHANGED <<lookVars, worldVars>>

Waiting(kind) == Able /\ istate = "Acting" /\ dispatched /\ op.kind = kind

TickOverdue ==
  /\ late
  /\ \/ Waiting("break") /\ cell[op.block] \in Solid
     \/ Waiting("place") /\ ~(cell[op.block] = "log" /\ items < op.before)
     \/ Waiting("interact") /\ cell[op.block] \in {op.expected, "unloaded"}
  /\ RetryOrFail(dispatched)
  /\ Quiet /\ UNCHANGED <<probes, lookVars, navVars, worldVars>>

TickConfirmed ==
  /\ \/ Waiting("place") /\ cell[op.block] = "log" /\ items < op.before
     \/ Waiting("interact") /\ cell[op.block] \notin {op.expected, "unloaded"}
  /\ Complete
  /\ Look!Release
  /\ Quiet /\ UNCHANGED <<navVars, worldVars>>

\* place_at accepts: an empty cell, a stack in hand, a block to place against.
Placeable(b) == {s \in Blocks \ {b} : cell[s] \in Solid /\ cell[b] = "air" /\ items > 0}

\* complete_break, with the placement of the log that is owed.
TickBroken ==
  /\ Waiting("break") /\ cell[op.block] \notin Solid
  /\ Look!Release
  /\ restore' = None
  /\ \/ restore = None /\ Complete /\ UNCHANGED sends
     \/ \E s \in IF restore = None THEN {} ELSE Placeable(restore) :
          /\ istate' = "Preparing" /\ op' = Operation("place", restore, s)
          /\ dispatched' = FALSE /\ retries' = 0 /\ probes' = 0 /\ sends' = 0
     \/ restore # None /\ Fail /\ UNCHANGED sends
  /\ UNCHANGED <<late, navVars, worldVars>>

Tick == TickRetry \/ TickUnable \/ TickSetOff \/ TickArrived \/ TickAim
          \/ TickHit \/ TickMiss \/ TickObstructed
          \/ TickOverdue \/ TickConfirmed \/ TickBroken

-----------------------------------------------------------------------------
(* The callers: console commands, and the /mine loop.                       *)

Untouched == UNCHANGED <<cell, items, inReach, presence>>

\* The navigation after a console command that began with its cancel.
Resume(o, owed) ==
  /\ Nav!Drop
  /\ IF Active THEN Look!Release ELSE UNCHANGED lookVars
  /\ Replace(o, owed)
  /\ Untouched

Breakable(b) == cell[b] \in Solid

Break ==
  /\ "break" \in Commands
  /\ \E b \in Blocks : Breakable(b) /\ Resume(Operation("break", b, b), OwedAfterCancel)

Place ==
  /\ "place" \in Commands
  /\ \E b \in Blocks : \E s \in Placeable(b) :
       Resume(Operation("place", b, s), OwedAfterCancel)

Interact ==
  /\ "interact" \in Commands
  /\ items > 0
  /\ \E b \in Blocks :
       cell[b] # "unloaded" /\ Resume(Operation("interact", b, b), OwedAfterCancel)

TestOakLog ==
  /\ "testoaklog" \in Commands
  /\ \E b \in Blocks : cell[b] = "log" /\ Resume(Operation("break", b, b), b)

\* run_mine: a search over every block, then break_at what it reached.
MineSearch ==
  /\ "mine" \in Commands
  /\ ~Active
  /\ Nav!Begin(Targets)
  /\ UNCHANGED <<opVars, lookVars, worldVars>>

MineContinue ==
  /\ "mine" \in Commands
  /\ ~Active /\ scope = Targets
  /\ Nav!TakeNext
  /\ UNCHANGED <<opVars, lookVars, worldVars>>

MineBreak ==
  /\ "mine" \in Commands
  /\ ~Active /\ scope = Targets /\ phase = "Reached"
  /\ Breakable(target[1])
  /\ Replace(Operation("break", target[1], target[1]), restore)
  /\ UNCHANGED <<lookVars, navVars>>
  /\ Untouched

StopInteraction ==
  /\ "stopinteraction" \in Commands /\ Active
  /\ ReleaseControls /\ Forget
  /\ restore' = OwedAfterCancel
  /\ UNCHANGED <<late, sends>> /\ Untouched

\* /look and its kin: the interaction yields, then the look begins.
LookCommand ==
  /\ "look" \in Commands
  /\ IF Active THEN Nav!Drop /\ mining' = None ELSE UNCHANGED <<navVars, mining>>
  /\ Forget /\ restore' = OwedAfterCancel
  /\ lookState' \in Look!Results(Somewhere)
  /\ lookTarget' = Somewhere /\ precision' = "Natural"
  /\ suspended' = IF Active THEN None ELSE suspended
  /\ UNCHANGED <<late, sends>> /\ Untouched

LookStop ==
  /\ "lookstop" \in Commands
  /\ Look!LookCancel
  /\ UNCHANGED <<opVars, navVars, worldVars>>

StopMovement ==
  /\ "stopmovement" \in Commands
  /\ Nav!Drop
  /\ IF Look!Interruptible THEN Look!LookCancel ELSE UNCHANGED lookVars
  /\ UNCHANGED <<opVars, worldVars>>

Command == Break \/ Place \/ Interact \/ TestOakLog \/ MineSearch \/ MineContinue
             \/ MineBreak \/ StopInteraction \/ LookCommand \/ LookStop \/ StopMovement

\* The movement tick that finds the connection gone.
SessionLost ==
  /\ presence = "gone"
  /\ Nav!Drop /\ Look!LookCancel
  /\ mining' = IF Active THEN None ELSE mining
  /\ Forget /\ restore' = OwedAfterCancel
  /\ UNCHANGED <<late, sends>> /\ Untouched

-----------------------------------------------------------------------------
(* What the controller does not control.                                    *)

LookTick == Look!LookTick /\ UNCHANGED <<opVars, navVars, worldVars>>

\* The navigation ticks, by TargetSearch's contract.
NavTick ==
  /\ phase = "Active"
  /\ \/ Nav!Arrive
     \/ Nav!TakeNext
     \/ Nav!GiveUp /\ phase' = "Failed" /\ target' = target
     \/ Nav!Drop /\ presence # "joined"
  /\ UNCHANGED <<opVars, lookVars, worldVars>>

Expire ==
  /\ istate = "Acting" /\ ~late
  /\ late' = TRUE
  /\ UNCHANGED <<istate, op, dispatched, retries, probes, restore, sends,
                 lookVars, navVars, worldVars>>

\* The server, or a chunk that comes or goes, changes what a block reads;
\* mining ends with its block.
CellChanges ==
  /\ \E b \in Blocks, c \in Appearing :
       /\ c # cell[b]
       /\ cell' = [cell EXCEPT ![b] = c]
       /\ mining' = IF mining = b /\ c = "air" THEN None ELSE mining
  /\ UNCHANGED <<opVars, lookVars, navVars, items, inReach, presence>>

ItemsChange ==
  /\ items' \in 0..MaxItems
  /\ items' # items
  /\ UNCHANGED <<opVars, lookVars, navVars, mining, cell, inReach, presence>>

BotMoves ==
  /\ inReach' \in SUBSET Blocks
  /\ inReach' # inReach
  /\ UNCHANGED <<opVars, lookVars, navVars, mining, cell, items, presence>>

PresenceChanges ==
  /\ presence' \in {"joined", "dead", "gone"} \ {presence}
  /\ mining' = IF presence' = "joined" THEN mining ELSE None
  /\ UNCHANGED <<opVars, lookVars, navVars, cell, items, inReach>>

Environment == LookTick \/ NavTick \/ Expire \/ CellChanges \/ ItemsChange
                 \/ BotMoves \/ PresenceChanges

Init ==
  /\ istate = "Idle" /\ op = None /\ dispatched = FALSE
  /\ retries = 0 /\ probes = 0 /\ restore = None
  /\ late = FALSE /\ sends = 0
  /\ Look!LookInit /\ Nav!Init
  /\ mining = None
  /\ cell \in [Blocks -> Appearing \cap Solid]
  /\ items = MaxItems
  /\ inReach = {}
  /\ presence = "joined"

Next == Tick \/ Command \/ SessionLost \/ Environment

Spec == Init /\ [][Next]_vars

\* The 50 ms interaction tick, which also ticks the navigation (its legs are
\* decided: LegIsDecided), and the look tick run for ever, and time passes.
FairSpec == Spec /\ WF_vars(Tick) /\ WF_vars(NavTick) /\ WF_vars(LookTick)
                 /\ WF_vars(Expire)

\* Even a tick quick enough to catch every passing state.
AttentiveSpec == FairSpec /\ SF_vars(Tick)
-----------------------------------------------------------------------------
(* Properties.                                                              *)

TypeOK ==
  /\ istate \in InteractionStates
  /\ op \in Operations \cup {None}
  /\ dispatched \in BOOLEAN
  /\ retries \in 0..RetryLimit
  /\ probes \in 0..(MaxProbes - 1)
  /\ restore \in Blocks \cup {None}
  /\ late \in BOOLEAN
  /\ sends \in 0..(RetryLimit + 1)
  /\ Look!LookTypeOK
  /\ mining \in Blocks \cup {None}
  /\ cell \in [Blocks -> Contents]
  /\ items \in 0..MaxItems
  /\ inReach \subseteq Blocks
  /\ presence \in {"joined", "dead", "gone"}

\* retry_limit bounds the packets sent for one operation, however often the
\* raycast recovery moves the bot and starts over in between.
BoundedSends ==
  /\ op # None => /\ sends <= retries + 1
                  /\ istate # "Acting" => sends <= retries
  /\ sends <= RetryLimit + 1

\* dispatch returns without a word when the flag is still up, which would leave
\* the operation looking at its block for ever: every way back to aiming has
\* lowered it, and every way into waiting has raised it.
FreshDispatch ==
  /\ istate \in {"Preparing", "Looking"} => ~dispatched
  /\ istate = "Acting" => dispatched

\* While an operation looks or acts the camera is its own: whoever takes the
\* camera has first ended the operation or the look.
AimIsOwn ==
  istate \in {"Looking", "Acting"} /\ lookState \in {"Looking", "Completed"} =>
    precision = "Precise" /\ lookTarget = op.support

\* A cancelled or completed operation holds neither the camera nor, if it was
\* cancelled, the pickaxe, and owes no placement.
QuietAfterwards ==
  /\ istate \in {"Completed", "Cancelled"} => ~Look!AimHeld
  /\ istate = "Cancelled" => mining = None /\ restore = None

\* An operation that set out by itself is taken to its own block (or the block
\* it places against), whichever approaches the navigation falls back over.
WalksToOwn ==
  istate = "Moving" /\ phase \in Nav!Pursuing => target[1] = op.support

Busy == istate \in ActiveStates \ {"Moving"}

\* Left alone by its callers an operation does not prepare, look, act or retry
\* for ever: it ends, or sets out for the block.
EndsOrWalks == (<>[][~Command]_vars) => (Busy ~> ~Busy)

-----------------------------------------------------------------------------
(* What the documents and comments say, and the code does not do.           *)

\* Success means an authoritative observed state transition: a break completes
\* when the block was seen to be gone.
BrokenWasSeen ==
  [][(op # None /\ op.kind = "break" /\ istate = "Acting" /\ istate' = "Completed")
       => cell[op.block] = "air"]_vars

\* The precise look, and the mining, end when the interaction finishes, in
\* failure too.
ReleasedWhenFailed == istate = "Failed" => ~Look!AimHeld /\ mining = None

\* Retry counts and timeouts are bounded: left alone, an operation ends.
OperationEnds == (<>[][~Command]_vars) => (Active ~> ~Active)

\* release_precise does nothing when no look was displaced: the explicit look
\* in progress goes on.
ReleaseSparesOthers ==
  [][(StopInteraction /\ suspended = None /\ precision # "Precise")
       => UNCHANGED lookVars]_vars
=============================================================================
