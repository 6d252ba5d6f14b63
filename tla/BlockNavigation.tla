--------------------------- MODULE BlockNavigation ---------------------------
(***************************************************************************)
(* BlockNavigationService (navigation/block_navigation.rs): find a block of *)
(* a requested kind, walk to a place from which it can be worked, and fall  *)
(* back over places and blocks until one is reached or nothing is left.     *)
(*                                                                         *)
(* Every public method runs to completion on the application's task, so a   *)
(* method is one action.  What lies outside the service is read by each     *)
(* call in several awaits, between which it changes:                        *)
(*  - the position once per candidate or tick, before any of its cells, so  *)
(*    that whether the bot counts as there is free in every pass and tick;  *)
(*  - the cells place by place, each once in a pass.  They change freely    *)
(*    between calls, so one reading of them all stands for any of those;    *)
(*    that a second pass of one call meets other cells is left out;         *)
(*  - the connection, which may drop anywhere in a call;                    *)
(*  - whether the bot is alive and in a world, by a tick, and free there.   *)
(*                                                                         *)
(* The distance order of the candidate list is abstracted: any open         *)
(* candidate may be the nearest.  Labels, counters shown by status lines    *)
(* and the unused Repathing state are left out.                             *)
(***************************************************************************)
EXTENDS Naturals, FiniteSets

CONSTANTS
  Blocks,            \* positions a search may return
  NumApproaches,     \* length of approach_positions(target); 11 in the code
  MaxTargetAttempts, \* config.maximum_target_attempts
  TopupLowWater,     \* TOPUP_LOW_WATER_MARK
  MaxGeneration,     \* bound on the number of starts explored
  None               \* no target

ASSUME BlockNavigationAssumption ==
  /\ NumApproaches \in Nat \ {0}
  /\ MaxTargetAttempts \in Nat \ {0}
  /\ TopupLowWater \in Nat
  /\ MaxGeneration \in Nat
  /\ None \notin Blocks \X (1..NumApproaches)

Approaches == 1..NumApproaches
Targets == Blocks \X Approaches

VARIABLES
  state,             \* snapshot.state
  query,             \* requested ids and radius: "none", "search" or "exact"
  candidates,        \* cached candidate blocks
  failedBlocks,
  failedApproaches,  \* pairs (block, approach)
  selected,          \* selected block and approach, or None
  attempts,          \* snapshot.current_attempt
  toppedUp,          \* topup_attempted
  generation,
  lastCall,          \* Ok or Err of the latest public call
  stalled,           \* stuck_timeout_seconds passed without progress
  expired,           \* maximum_navigation_seconds passed since start_time
  movement,          \* MovementService status
  valid,             \* pairs for which is_valid_approach now holds
  linked             \* ConnectionState::Connected

serviceVars == <<state, query, candidates, failedBlocks, failedApproaches,
                 selected, attempts, toppedUp, generation, lastCall>>
clockVars == <<stalled, expired>>
vars == <<serviceVars, clockVars, movement, valid, linked>>

States == {"Idle", "SelectingTarget", "Moving", "Reached", "Failed"}
MovementStatuses == {"Idle", "Moving", "Completed", "Failed", "Cancelled"}

\* MovementService::stop as its callers here see it.
Stop(status) == IF status = "Moving" THEN "Cancelled" ELSE status

-----------------------------------------------------------------------------
(* try_next_target: one pass over the open candidates.                      *)

Usable(b, failed) == {a \in Approaches : <<b, a>> \in valid \ failed}
Hopeless(open, failed) == {b \in open : Usable(b, failed) = {}}
EarlierThan(b, a) == {<<b, x>> : x \in 1..(a - 1)}

\* Mutant: one attempt too many.
SpentLate(att) == att > MaxTargetAttempts
Spent(att) == att >= MaxTargetAttempts

\* What a pass leaves behind: how it ended, the target it chose, the marks it
\* made, the attempts it used, and whether the connection survived.
Outcome(result, target, fb, fa, att, up) ==
  [result |-> result, target |-> target, failedBlocks |-> fb,
   failedApproaches |-> fa, attempts |-> att, linked |-> up]

\* The places of open blocks that no earlier approach of the block, still
\* unmarked and sound, comes before.  (Mutant: marked places are tried again.)
ForemostAgain(open, fa) ==
  {u \in open \X Approaches : EarlierThan(u[1], u[2]) \cap (valid \ fa) = {}}
Foremost(open, fa) ==
  {u \in (open \X Approaches) \ fa : EarlierThan(u[1], u[2]) \cap (valid \ fa) = {}}

\* Those that pass is_valid_approach.
Takeable(open, fa) == Foremost(open, fa) \cap valid

\* Blocks met before the one of t had no usable approach and are written off,
\* and so are the approaches of its block that come before t.  (Mutant: and
\* those that come after it.)
MarkedWhole(t, skipped, fa) ==
  (fa \cup ((skipped \cup {t[1]}) \X Approaches)) \ {t}
Marked(t, skipped, fa) ==
  fa \cup (skipped \X Approaches) \cup EarlierThan(t[1], t[2])

\* there: arrival_valid of the position read before the cells of its block.
Choose(t, there, skipped, fb, fa, att) ==
  Outcome(IF there THEN "reached" ELSE "moving", t,
          fb \cup skipped, Marked(t, skipped, fa), att + 1, linked)

Chosen(open, fb, fa, att) ==
  {Choose(t, there, skipped, fb, fa, att) :
     t \in Takeable(open, fa), there \in BOOLEAN, skipped \in SUBSET Hopeless(open, fa)}

\* The connection drops while the pass reads the cells of t (`?`).
BreakOff(t, skipped, fb, fa, att) ==
  Outcome("error", None, fb \cup skipped, Marked(t, skipped, fa), att, FALSE)

DroppedReading(open, fb, fa, att) ==
  {BreakOff(t, skipped, fb, fa, att) :
     t \in Foremost(open, fa), skipped \in SUBSET Hopeless(open, fa)}

\* The connection drops between the reading of the cells of the chosen target
\* and the goto: the attempt is spent and the target marked.  The next read
\* fails, unless it was the last thing the pass had left to try.
StrandedAt(o, open, fa) ==
  LET b == o.target[1]
      over == \A x \in (o.target[2] + 1)..NumApproaches : <<b, x>> \in fa
      rest == open \ (o.failedBlocks \cup {b})
  IN Outcome(IF over /\ (Spent(o.attempts) \/ rest = {})
               THEN "none" ELSE "error",
             None,
             IF over THEN o.failedBlocks \cup {b} ELSE o.failedBlocks,
             o.failedApproaches \cup {o.target}, o.attempts, FALSE)

DroppedStarting(open, fb, fa, att) ==
  {StrandedAt(o, open, fa) :
     o \in {c \in Chosen(open, fb, fa, att) : c.result = "moving"}}

\* Every open block turned out to have no usable approach.
Barren(open, fb, fa, att) ==
  IF Hopeless(open, fa) = open
    THEN {Outcome("none", None, fb \cup open, fa \cup (open \X Approaches), att, TRUE)}
    ELSE {}

TryNextTarget(cands, fb, fa, att) ==
  LET open == cands \ fb
  IN IF Spent(att) \/ open = {}
       THEN {Outcome("none", None, fb, fa, att, linked)}
     ELSE IF ~linked
       THEN {Outcome("error", None, fb, fa, att, FALSE)}
     ELSE Barren(open, fb, fa, att) \cup Chosen(open, fb, fa, att)
            \cup DroppedReading(open, fb, fa, att)
            \cup DroppedStarting(open, fb, fa, att)

Success(o) == o.result \in {"moving", "reached"}

\* What a scan adds: blocks neither written off nor already listed.
Merge(cands, found, fb) == cands \cup (found \ fb)

\* search_candidates: an unanswered scan, or one of radius zero, finds nothing.
ScanResults(kind, up) == IF up /\ kind = "search" THEN SUBSET Blocks ELSE {{}}

\* rescan_and_try_next after a pass that ended with o.  The second pass keeps
\* the marks of the first; a connection that dropped stays down.  (Mutant: what
\* the scan found is listed and never tried.)
Unanswered(all, o) ==
  [o EXCEPT !.result = IF Spent(o.attempts) \/ all \subseteq o.failedBlocks
                         THEN "none" ELSE "error"]

SecondPassSkipped(all, o) == {[o EXCEPT !.result = "none"]}
SecondPass(all, o) ==
  IF o.linked
    THEN TryNextTarget(all, o.failedBlocks, o.failedApproaches, o.attempts)
    ELSE {Unanswered(all, o)}

Rescanned(found, last) == [found |-> found, last |-> last]

Rescan(cands, kind, o) ==
  IF kind = "none"
    THEN {Rescanned({}, [o EXCEPT !.result = "none"])}
    ELSE UNION {{Rescanned(found, last) :
                   last \in SecondPass(Merge(cands, found, o.failedBlocks), o)} :
                found \in ScanResults(kind, o.linked)}

-----------------------------------------------------------------------------
Init ==
  /\ state = "Idle"
  /\ query = "none"
  /\ candidates = {}
  /\ failedBlocks = {}
  /\ failedApproaches = {}
  /\ selected = None
  /\ attempts = 0
  /\ toppedUp = FALSE
  /\ generation = 0
  /\ lastCall = "ok"
  /\ stalled = FALSE
  /\ expired = FALSE
  /\ movement = "Idle"
  /\ valid \in SUBSET Targets
  /\ linked = TRUE

\* The pass ended with o: its marks stay.  A chosen target begins a leg (or
\* ends it at once when the bot already stands there); otherwise the caller
\* decides the state.
Adopt(o, stateOtherwise, movementOtherwise) ==
  /\ failedBlocks' = o.failedBlocks
  /\ failedApproaches' = o.failedApproaches
  /\ attempts' = o.attempts
  /\ linked' = o.linked
  /\ \/ /\ Success(o)
        /\ state' = IF o.result = "reached" THEN "Reached" ELSE "Moving"
        /\ movement' = IF o.result = "reached" THEN Stop(movement) ELSE "Moving"
        /\ selected' = o.target
        /\ toppedUp' = FALSE
        /\ stalled' = FALSE
     \/ /\ ~Success(o)
        /\ state' = stateOtherwise
        /\ movement' = movementOtherwise

\* Where a start or a continuation without success leaves the service, and what
\* it returns.  (Mutant: a pass that broke off is reported as one that ended.)
Resting(o) == IF o.result = "none" THEN "Failed" ELSE "SelectingTarget"
VerdictLost(o) == "ok"
Verdict(o) == IF o.result = "error" THEN "err" ELSE "ok"

KeepLeg == UNCHANGED <<selected, toppedUp, stalled>>

\* start_multi: forget the previous run, scan, take the first usable target.
StartMulti ==
  /\ generation < MaxGeneration
  /\ generation' = generation + 1
  /\ query' = "search"
  /\ expired' = FALSE
  /\ \E found \in ScanResults("search", linked) :
       /\ candidates' = found
       /\ \E o \in TryNextTarget(found, {}, {}, 0) :
            /\ Adopt(o, Resting(o), Stop(movement))
            /\ lastCall' = Verdict(o)
            /\ ~Success(o) => /\ selected' = None
                              /\ toppedUp' = FALSE
                              /\ stalled' = FALSE
  /\ UNCHANGED valid

\* start_exact: one given block, no search and no top-up.
StartExact(b) ==
  /\ generation < MaxGeneration
  /\ linked
  /\ generation' = generation + 1
  /\ query' = "exact"
  /\ expired' = FALSE
  /\ candidates' = {b}
  /\ \E o \in TryNextTarget({b}, {}, {}, 0) :
       /\ Adopt(o, Resting(o), Stop(movement))
       /\ lastCall' = IF Success(o) THEN "ok" ELSE "err"
       /\ ~Success(o) => /\ selected' = None
                         /\ toppedUp' = TRUE
                         /\ stalled' = FALSE
  /\ UNCHANGED valid

Forget ==
  /\ state' = "Idle"
  /\ selected' = None
  /\ candidates' = {}
  /\ failedBlocks' = {}
  /\ failedApproaches' = {}
  /\ toppedUp' = TRUE
  /\ movement' = IF state \in {"SelectingTarget", "Moving"}
                   THEN Stop(movement) ELSE movement
  /\ lastCall' = "ok"
  /\ UNCHANGED <<query, attempts, generation>>

\* cancel
Cancel == Forget /\ UNCHANGED <<clockVars, valid, linked>>

\* try_another_approach: the place reached has no clear ray to the block.
TryAnotherApproach ==
  /\ state \in {"Reached", "Failed"}
  /\ selected # None
  /\ \E o \in TryNextTarget(candidates, failedBlocks,
                            failedApproaches \cup {selected}, attempts) :
       /\ Adopt(o, state, movement)
       /\ ~Success(o) => KeepLeg
       /\ lastCall' = Verdict(o)
  /\ UNCHANGED <<query, candidates, generation, expired, valid>>

-----------------------------------------------------------------------------
(* tick                                                                     *)

Driving == state = "Moving" /\ selected # None

\* maximum_navigation_seconds are over.  (Mutant: looked at between walks only.)
OutOfTimeResting == expired /\ movement # "Moving"
OutOfTime == expired

\* retry_or_fail: the cached list first, then one scan, then give up.
RetryOrFail(marked) ==
  /\ \E o \in TryNextTarget(candidates, failedBlocks, marked, attempts) :
       \/ /\ Success(o)
          /\ Adopt(o, "Failed", movement)
          /\ UNCHANGED candidates
       \/ /\ ~Success(o)
          /\ \E r \in Rescan(candidates, query, o) :
               /\ candidates' = Merge(candidates, r.found, o.failedBlocks)
               /\ Adopt(r.last, "Failed", Stop(movement))
               /\ ~Success(r.last) => KeepLeg
  /\ UNCHANGED <<query, generation, lastCall, expired, valid>>

\* At any tick the bot may have died or be in no world.
TickLeftWorld ==
  /\ Driving
  /\ Forget
  /\ UNCHANGED <<clockVars, valid, linked>>

TickExpired ==
  /\ Driving /\ OutOfTime
  /\ state' = "Failed"
  /\ movement' = Stop(movement)
  /\ UNCHANGED <<query, candidates, failedBlocks, failedApproaches, selected,
                 attempts, toppedUp, generation, lastCall, clockVars,
                 valid, linked>>

Live == Driving /\ ~OutOfTime

TickUnread == Live /\ ~linked /\ RetryOrFail(failedApproaches)

TickInvalid ==
  /\ Live /\ linked
  /\ selected \notin valid
  /\ RetryOrFail(failedApproaches \cup {selected})

\* The position read before the cells was there: TickReached; or it was not.
TickReached ==
  /\ Live /\ linked
  /\ selected \in valid
  /\ state' = "Reached"
  /\ movement' = Stop(movement)
  /\ UNCHANGED <<query, candidates, failedBlocks, failedApproaches, selected,
                 attempts, toppedUp, generation, lastCall, clockVars,
                 valid, linked>>

\* No progress for stuck_timeout_seconds, or movement gave up or stopped short.
TickStuck ==
  /\ Live /\ linked
  /\ selected \in valid
  /\ stalled \/ movement \in {"Failed", "Completed"}
  /\ RetryOrFail(failedApproaches \cup {selected})

Tick == TickLeftWorld \/ TickExpired \/ TickUnread \/ TickInvalid
          \/ TickReached \/ TickStuck

-----------------------------------------------------------------------------
\* The selected block is mined: it is written off.  (Mutant: forgotten.)
StillThere == failedBlocks
Gone == failedBlocks \cup {b \in Blocks : selected # None /\ b = selected[1]}

\* continue_after_mined: the selected block is gone; next cached candidate,
\* then one scan.  The generation and its marks survive.
ContinueAfterMined ==
  /\ state \in {"Idle", "Reached", "Failed"}
  /\ \E o \in TryNextTarget(candidates, Gone, failedApproaches, 0) :
       \/ /\ Success(o)
          /\ Adopt(o, "SelectingTarget", movement)
          /\ lastCall' = "ok"
          /\ UNCHANGED candidates
       \/ /\ o.result = "error"
          /\ Adopt(o, "SelectingTarget", movement)
          /\ lastCall' = "err"
          /\ selected' = None
          /\ stalled' = FALSE
          /\ UNCHANGED <<candidates, toppedUp>>
       \/ /\ o.result = "none"
          /\ \E r \in Rescan(candidates, query, o) :
               /\ candidates' = Merge(candidates, r.found, o.failedBlocks)
               /\ Adopt(r.last, Resting(r.last), movement)
               /\ lastCall' = Verdict(r.last)
               /\ ~Success(r.last) => /\ selected' = None
                                      /\ stalled' = FALSE
                                      /\ UNCHANGED toppedUp
  /\ expired' = FALSE
  /\ UNCHANGED <<query, generation, valid>>

\* maybe_topup_candidates: one scan per leg once the cache runs low.
MaybeTopupCandidates ==
  /\ state = "Moving" /\ ~toppedUp
  /\ Cardinality(candidates \ failedBlocks) <= TopupLowWater
  /\ toppedUp' = TRUE
  /\ \E found \in ScanResults(query, linked) :
       candidates' = Merge(candidates, found, failedBlocks)
  /\ UNCHANGED <<state, query, failedBlocks, failedApproaches, selected,
                 attempts, generation, lastCall, clockVars, movement,
                 valid, linked>>

-----------------------------------------------------------------------------
(* What the service does not control.                                       *)

\* A tick finds the bot moved by 0.1 blocks, which restarts the stall clock.
BotMoves ==
  /\ stalled
  /\ stalled' = FALSE
  /\ UNCHANGED <<serviceVars, expired, movement, valid, linked>>

MovementSettles ==
  /\ movement = "Moving"
  /\ movement' \in {"Completed", "Failed"}
  /\ UNCHANGED <<serviceVars, clockVars, valid, linked>>

CellChanges ==
  /\ \E t \in Targets :
       valid' = IF t \in valid THEN valid \ {t} ELSE valid \cup {t}
  /\ UNCHANGED <<serviceVars, clockVars, movement, linked>>

Stall ==
  /\ state = "Moving" /\ ~stalled
  /\ stalled' = TRUE
  /\ UNCHANGED <<serviceVars, expired, movement, valid, linked>>

Expire ==
  /\ state = "Moving" /\ ~expired
  /\ expired' = TRUE
  /\ UNCHANGED <<serviceVars, stalled, movement, valid, linked>>

ConnectionChanges ==
  /\ linked' = ~linked
  /\ UNCHANGED <<serviceVars, clockVars, movement, valid>>

Environment == BotMoves \/ MovementSettles \/ CellChanges \/ Stall \/ Expire
                 \/ ConnectionChanges

Next ==
  \/ StartMulti
  \/ \E b \in Blocks : StartExact(b)
  \/ Cancel
  \/ TryAnotherApproach
  \/ Tick
  \/ ContinueAfterMined
  \/ MaybeTopupCandidates
  \/ Environment

Spec == Init /\ [][Next]_vars

\* The application ticks the service every interaction_tick, and time passes: a leg
\* whose time is up is not left so.  That a tick ever finds the bot arrived, its
\* cells changed or the world gone is not assumed.
FairSpec == Spec /\ WF_vars(TickExpired) /\ WF_vars(Expire)
-----------------------------------------------------------------------------
(* Properties.                                                              *)

TypeOK ==
  /\ state \in States
  /\ query \in {"none", "search", "exact"}
  /\ candidates \subseteq Blocks
  /\ failedBlocks \subseteq Blocks
  /\ failedApproaches \subseteq Targets
  /\ selected \in Targets \cup {None}
  /\ attempts \in 0..MaxTargetAttempts
  /\ toppedUp \in BOOLEAN
  /\ generation \in 0..MaxGeneration
  /\ lastCall \in {"ok", "err"}
  /\ stalled \in BOOLEAN /\ expired \in BOOLEAN
  /\ movement \in MovementStatuses
  /\ valid \subseteq Targets
  /\ linked \in BOOLEAN

Abandoned == {t \in Targets : t[1] \in failedBlocks \/ t \in failedApproaches}

\* A leg always drives at a cached candidate that has not been given up, for
\* which an attempt was counted: mark_approach_failed and mark_target_failed
\* never leave the service walking to what they marked.
PursuesOpenTarget ==
  state = "Moving" =>
    /\ selected \in Targets \ Abandoned
    /\ selected[1] \in candidates
    /\ attempts \in 1..MaxTargetAttempts

\* start_multi, start_exact and continue_after_mined either report an error or
\* leave a state that tick drives or that a waiting caller takes as final.
NoSilentStall == state = "SelectingTarget" => lastCall = "err"

\* retry_or_fail and continue_after_mined give up only when the attempts of the
\* leg are spent, the time or the connection is gone, or no cached candidate
\* has an untried sound approach: a marked approach never hides another one.
GivesUpOnlyWhenExhausted ==
  [][(state' = "Failed" /\ state # "Failed")
       => \/ expired
          \/ ~linked'
          \/ attempts' = MaxTargetAttempts
          \/ \A b \in candidates' :
               \A a \in Approaches : <<b, a>> \in valid => <<b, a>> \in Abandoned']_vars

\* A leg that has started is always decided: reached, failed, or dropped with
\* the world, whatever the pathfinder does.
LegIsDecided == state = "Moving" ~> state # "Moving"

\* A place is only written off for a cause: it is not sound, the bot was there or
\* on its way, or the connection dropped.  A block only when it was mined or has no
\* sound place left untried.
MarksForCause ==
  [][~linked' \/ generation' # generation \/
     /\ failedApproaches' \ failedApproaches \subseteq (Targets \ valid) \cup {selected}
     /\ \A b \in failedBlocks' \ failedBlocks :
          \/ selected # None /\ b = selected[1]
          \/ \A a \in Approaches : <<b, a>> \in valid => <<b, a>> \in failedApproaches']_vars

Phase ==
  [Idle |-> "Idle", SelectingTarget |-> "Stalled", Moving |-> "Active",
   Reached |-> "Reached", Failed |-> "Failed"][state]

\* A run with a query may take any target, an exact one only those of its block.
Scope == IF query = "search" THEN Targets ELSE candidates \X Approaches

Search == INSTANCE TargetSearch WITH
  phase <- Phase, target <- selected, abandoned <- Abandoned, scope <- Scope,
  run <- generation

\* The service implements the bounded search: within one run no target that was
\* abandoned, or whose block was mined, is ever taken up again, and the run that
\* start_exact began never walks to another block.
ImplementsSearch == Search!Spec
=============================================================================
