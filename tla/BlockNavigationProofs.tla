------------------------ MODULE BlockNavigationProofs ------------------------
(* Proofs about BlockNavigation, for every number of blocks, approaches and   *)
(* attempts.                                                                  *)
EXTENDS BlockNavigation, TLAPS

Results == {"none", "error", "moving", "reached"}

OutcomeType ==
  [result : Results, target : Targets \cup {None},
   failedBlocks : SUBSET Blocks, failedApproaches : SUBSET Targets,
   attempts : 0..MaxTargetAttempts, linked : BOOLEAN]

\* A pass over cands that ends in a target has chosen one it has not marked.
Sound(o, cands) ==
  Success(o) => /\ o.target \in Targets
                /\ o.target[1] \in cands \ o.failedBlocks
                /\ o.target \notin o.failedApproaches
                /\ o.attempts \in 1..MaxTargetAttempts

\* The cells and the connection a pass may read.
WorldOK == valid \subseteq Targets /\ linked \in BOOLEAN

\* The marks a pass makes are marks on targets, and never on the one it takes.
LEMMA MarkedSound ==
  ASSUME NEW open \in SUBSET Blocks, NEW fa \in SUBSET Targets,
         NEW t \in Foremost(open, fa), NEW skipped \in SUBSET Hopeless(open, fa)
  PROVE  /\ t \in Targets /\ t[1] \in open
         /\ Marked(t, skipped, fa) \in SUBSET Targets
         /\ skipped \subseteq Blocks
         /\ t \in valid => t[1] \notin skipped /\ t \notin Marked(t, skipped, fa)
<1>1. /\ t \in Targets /\ t \notin fa /\ t = <<t[1], t[2]>>
      /\ t[1] \in open /\ t[2] \in Approaches
  BY DEF Foremost, Targets
<1>2. skipped \subseteq open
  BY DEF Hopeless
<1>3. EarlierThan(t[1], t[2]) \subseteq Targets /\ t \notin EarlierThan(t[1], t[2])
  BY <1>1, BlockNavigationAssumption DEF EarlierThan, Targets, Approaches
<1>4. skipped \X Approaches \subseteq Targets
  BY <1>2 DEF Targets
<1>5. ASSUME t \in valid PROVE t[1] \notin skipped
  BY <1>1, <1>5 DEF Hopeless, Usable
<1>6. t[1] \notin skipped => t \notin skipped \X Approaches
  BY <1>1
<1> QED BY <1>1, <1>2, <1>3, <1>4, <1>5, <1>6 DEF Marked

\* A chosen target is open, unmarked, and counted as an attempt.
LEMMA ChosenSound ==
  ASSUME WorldOK, NEW open \in SUBSET Blocks, NEW fb \in SUBSET Blocks,
         NEW fa \in SUBSET Targets, NEW att \in 0..(MaxTargetAttempts - 1),
         open \cap fb = {},
         NEW o \in Chosen(open, fb, fa, att)
  PROVE  /\ o \in OutcomeType
         /\ Sound(o, open)
         /\ o.target \in Targets
<1>1. PICK t \in Takeable(open, fa), there \in BOOLEAN, skipped \in SUBSET Hopeless(open, fa) :
        o = Choose(t, there, skipped, fb, fa, att)
  BY DEF Chosen
<1>2. /\ t \in Targets /\ t[1] \in open /\ skipped \subseteq Blocks
      /\ Marked(t, skipped, fa) \in SUBSET Targets
      /\ t[1] \notin skipped /\ t \notin Marked(t, skipped, fa)
  <2>1. t \in Foremost(open, fa) /\ t \in valid
    BY <1>1 DEF Takeable
  <2>2. skipped \subseteq open
    BY <1>1 DEF Hopeless
  <2> QED BY <1>1, <2>1, <2>2, MarkedSound
<1>3. att + 1 \in 1..MaxTargetAttempts /\ 1..MaxTargetAttempts \subseteq 0..MaxTargetAttempts
  BY BlockNavigationAssumption
<1>4. PICK r \in {"moving", "reached"} :
        o = [result |-> r, target |-> t, failedBlocks |-> fb \cup skipped,
             failedApproaches |-> Marked(t, skipped, fa),
             attempts |-> att + 1, linked |-> linked]
  <2>1. CASE there
    BY <1>1, <2>1 DEF Choose, Outcome
  <2>2. CASE ~there
    BY <1>1, <2>2 DEF Choose, Outcome
  <2> QED BY <2>1, <2>2
<1>5. o \in OutcomeType
  BY <1>2, <1>3, <1>4 DEF OutcomeType, Results, WorldOK
<1>6. Sound(o, open)
  BY <1>2, <1>3, <1>4 DEF Sound
<1> QED BY <1>2, <1>4, <1>5, <1>6

\* A pass cut short by the connection reports an error and no target.
LEMMA BreakOffSound ==
  ASSUME WorldOK, NEW open \in SUBSET Blocks, NEW fb \in SUBSET Blocks,
         NEW fa \in SUBSET Targets, NEW att \in 0..(MaxTargetAttempts - 1),
         NEW o \in DroppedReading(open, fb, fa, att)
  PROVE  o \in OutcomeType /\ ~Success(o)
<1>1. PICK t \in Foremost(open, fa), skipped \in SUBSET Hopeless(open, fa) :
        o = BreakOff(t, skipped, fb, fa, att)
  BY DEF DroppedReading
<1>2. skipped \subseteq Blocks /\ Marked(t, skipped, fa) \in SUBSET Targets
  <2>1. skipped \subseteq open
    BY <1>1 DEF Hopeless
  <2> QED BY <1>1, <2>1, MarkedSound
<1>3. att \in 0..MaxTargetAttempts
  BY BlockNavigationAssumption
<1> QED BY <1>1, <1>2, <1>3 DEF BreakOff, Outcome, OutcomeType, Results, Success

\* A goto that cannot start marks its target and reports no success.
LEMMA StrandedSound ==
  ASSUME WorldOK, NEW open \in SUBSET Blocks, NEW fb \in SUBSET Blocks,
         NEW fa \in SUBSET Targets, NEW att \in 0..(MaxTargetAttempts - 1),
         open \cap fb = {},
         NEW o \in DroppedStarting(open, fb, fa, att)
  PROVE  o \in OutcomeType /\ ~Success(o)
<1>1. PICK c \in Chosen(open, fb, fa, att) : o = StrandedAt(c, open, fa)
  BY DEF DroppedStarting
<1>2. c \in OutcomeType /\ c.target \in Targets
  BY <1>1, ChosenSound
<1>3. /\ c.failedBlocks \in SUBSET Blocks
      /\ c.failedApproaches \cup {c.target} \in SUBSET Targets
      /\ c.attempts \in 0..MaxTargetAttempts
      /\ c.target[1] \in Blocks
  BY <1>2 DEF OutcomeType, Targets
<1>4. PICK r \in {"none", "error"}, fb2 \in SUBSET Blocks :
        o = [result |-> r, target |-> None, failedBlocks |-> fb2,
             failedApproaches |-> c.failedApproaches \cup {c.target},
             attempts |-> c.attempts, linked |-> FALSE]
  <2> DEFINE over == \A x \in (c.target[2] + 1)..NumApproaches :
                       <<c.target[1], x>> \in fa
             rest == open \ (c.failedBlocks \cup {c.target[1]})
             r == IF over /\ (Spent(c.attempts) \/ rest = {})
                    THEN "none" ELSE "error"
             fb2 == IF over THEN c.failedBlocks \cup {c.target[1]} ELSE c.failedBlocks
  <2>1. o = [result |-> r, target |-> None, failedBlocks |-> fb2,
             failedApproaches |-> c.failedApproaches \cup {c.target},
             attempts |-> c.attempts, linked |-> FALSE]
    BY <1>1 DEF StrandedAt, Outcome
  <2>2. r \in {"none", "error"}
    OBVIOUS
  <2>3. fb2 \in SUBSET Blocks
    BY <1>3
  <2> HIDE DEF over, rest, r, fb2
  <2> QED BY <2>1, <2>2, <2>3
<1> QED BY <1>3, <1>4 DEF OutcomeType, Results, Success

\* try_next_target: whatever it meets, the marks and the count stay within
\* bounds, and a target it takes up is an open candidate it has not marked.
LEMMA TryNextTargetSound ==
  ASSUME WorldOK, NEW cands \in SUBSET Blocks, NEW fb \in SUBSET Blocks,
         NEW fa \in SUBSET Targets, NEW att \in 0..MaxTargetAttempts,
         NEW o \in TryNextTarget(cands, fb, fa, att)
  PROVE  o \in OutcomeType /\ Sound(o, cands)
<1> DEFINE open == cands \ fb
<1>1. CASE Spent(att) \/ open = {}
  <2>1. o = Outcome("none", None, fb, fa, att, linked)
    BY <1>1 DEF TryNextTarget
  <2> QED BY <2>1 DEF Outcome, OutcomeType, Results, Sound, Success, WorldOK
<1>2. CASE ~(Spent(att) \/ open = {}) /\ ~linked
  <2>1. o = Outcome("error", None, fb, fa, att, FALSE)
    BY <1>2 DEF TryNextTarget
  <2> QED BY <2>1 DEF Outcome, OutcomeType, Results, Sound, Success
<1>3. CASE ~(Spent(att) \/ open = {}) /\ linked
  <2>1. att \in 0..(MaxTargetAttempts - 1) /\ open \in SUBSET Blocks
    BY <1>3, BlockNavigationAssumption DEF Spent
  <2>2. \/ o \in Barren(open, fb, fa, att)
        \/ o \in Chosen(open, fb, fa, att)
        \/ o \in DroppedReading(open, fb, fa, att)
        \/ o \in DroppedStarting(open, fb, fa, att)
    BY <1>3 DEF TryNextTarget
  <2>3. CASE o \in Barren(open, fb, fa, att)
    <3>1. o = Outcome("none", None, fb \cup open, fa \cup (open \X Approaches),
                      att, TRUE)
      BY <2>3 DEF Barren
    <3>2. fa \cup (open \X Approaches) \in SUBSET Targets
      BY DEF Targets
    <3> QED BY <3>1, <3>2 DEF Outcome, OutcomeType, Results, Sound, Success
  <2>4. CASE o \in Chosen(open, fb, fa, att)
    <3>1. o \in OutcomeType /\ Sound(o, open)
      BY <2>1, <2>4, ChosenSound
    <3> QED BY <3>1 DEF Sound
  <2>5. CASE o \in DroppedReading(open, fb, fa, att)
    BY <2>1, <2>5, BreakOffSound DEF Sound
  <2>6. CASE o \in DroppedStarting(open, fb, fa, att)
    BY <2>1, <2>6, StrandedSound DEF Sound
  <2> QED BY <2>2, <2>3, <2>4, <2>5, <2>6
<1> QED BY <1>1, <1>2, <1>3

\* rescan_and_try_next: the second pass obeys the first one's bounds, over the
\* candidates the scan has added to.
LEMMA RescanSound ==
  ASSUME WorldOK, NEW cands \in SUBSET Blocks, NEW kind,
         NEW o \in OutcomeType, ~Success(o), NEW r \in Rescan(cands, kind, o)
  PROVE  /\ r.found \in SUBSET Blocks
         /\ r.last \in OutcomeType
         /\ Sound(r.last, Merge(cands, r.found, o.failedBlocks))
<1>1. CASE kind = "none"
  <2>1. r = Rescanned({}, [o EXCEPT !.result = "none"])
    BY <1>1 DEF Rescan
  <2>2. [o EXCEPT !.result = "none"] \in OutcomeType
    BY DEF OutcomeType, Results
  <2> QED BY <2>1, <2>2 DEF Rescanned, Sound, Success, OutcomeType
<1>2. CASE kind # "none"
  <2>1. PICK found \in ScanResults(kind, o.linked) :
          \E last \in SecondPass(Merge(cands, found, o.failedBlocks), o) :
            r = Rescanned(found, last)
    BY <1>2 DEF Rescan
  <2>2. PICK last \in SecondPass(Merge(cands, found, o.failedBlocks), o) :
          r = Rescanned(found, last)
    BY <2>1
  <2>3. found \in SUBSET Blocks
    BY <2>1 DEF ScanResults
  <2> DEFINE all == Merge(cands, found, o.failedBlocks)
  <2>4. all \in SUBSET Blocks
    BY <2>3 DEF Merge
  <2>5. last \in OutcomeType /\ Sound(last, all)
    <3>1. CASE o.linked
      <4>1. last \in TryNextTarget(all, o.failedBlocks, o.failedApproaches, o.attempts)
        BY <2>2, <3>1 DEF SecondPass
      <4> QED BY <2>4, <4>1, TryNextTargetSound DEF OutcomeType
    <3>2. CASE ~o.linked
      <4>1. last = Unanswered(all, o)
        BY <2>2, <3>2 DEF SecondPass
      <4>2. PICK res \in {"none", "error"} : last = [o EXCEPT !.result = res]
        BY <4>1 DEF Unanswered
      <4> QED BY <4>2 DEF OutcomeType, Results, Sound, Success
    <3> QED BY <3>1, <3>2
  <2> QED BY <2>2, <2>3, <2>5 DEF Rescanned
<1> QED BY <1>1, <1>2

-----------------------------------------------------------------------------
(* The inductive invariant.                                                 *)

Inv == TypeOK /\ PursuesOpenTarget /\ NoSilentStall

\* Adopting a sound outcome keeps the types, and a leg it begins is sound.
LEMMA AdoptSound ==
  ASSUME TypeOK, NEW cands \in SUBSET Blocks,
         NEW o \in OutcomeType, Sound(o, cands),
         NEW s \in States \ {"Moving"}, NEW m \in MovementStatuses,
         Adopt(o, s, m), candidates' = cands
  PROVE  /\ state' \in States /\ movement' \in MovementStatuses
         /\ failedBlocks' \in SUBSET Blocks /\ failedApproaches' \in SUBSET Targets
         /\ attempts' \in 0..MaxTargetAttempts /\ linked' \in BOOLEAN
         /\ Success(o) => /\ selected' \in Targets
                          /\ toppedUp' = FALSE /\ stalled' = FALSE
                          /\ state' \in {"Moving", "Reached"}
         /\ ~Success(o) => state' = s
         /\ PursuesOpenTarget'
<1>1. /\ failedBlocks' = o.failedBlocks /\ failedApproaches' = o.failedApproaches
      /\ attempts' = o.attempts /\ linked' = o.linked
  BY DEF Adopt
<1>2. /\ o.failedBlocks \in SUBSET Blocks /\ o.failedApproaches \in SUBSET Targets
      /\ o.attempts \in 0..MaxTargetAttempts /\ o.linked \in BOOLEAN
  BY DEF OutcomeType
<1>3. Stop(movement) \in MovementStatuses
  BY DEF Stop, TypeOK, MovementStatuses
<1>4. CASE Success(o)
  <2>1. /\ state' \in {"Moving", "Reached"} /\ selected' = o.target
        /\ toppedUp' = FALSE /\ stalled' = FALSE
        /\ movement' \in MovementStatuses
    BY <1>3, <1>4 DEF Adopt, MovementStatuses
  <2>2. PursuesOpenTarget'
    <3>1. /\ selected' \in Targets /\ selected'[1] \in candidates'
          /\ attempts' \in 1..MaxTargetAttempts
      BY <1>1, <1>4, <2>1 DEF Sound
    <3>2. selected' \notin Abandoned'
      BY <1>1, <1>4, <2>1 DEF Sound, Abandoned
    <3> QED BY <3>1, <3>2 DEF PursuesOpenTarget
  <2> QED BY <1>1, <1>2, <1>4, <2>1, <2>2 DEF Sound, States
<1>5. CASE ~Success(o)
  <2>1. state' = s /\ movement' = m
    BY <1>5 DEF Adopt
  <2> QED BY <1>1, <1>2, <1>5, <2>1 DEF PursuesOpenTarget
<1> QED BY <1>4, <1>5

\* retry_or_fail, from any set of marks, keeps the invariant.
LEMMA RetryOrFailSound ==
  ASSUME Inv, NEW marked \in SUBSET Targets, RetryOrFail(marked)
  PROVE  Inv'
<1>1. PICK o \in TryNextTarget(candidates, failedBlocks, marked, attempts) :
        \/ /\ Success(o)
           /\ Adopt(o, "Failed", movement)
           /\ UNCHANGED candidates
        \/ /\ ~Success(o)
           /\ \E r \in Rescan(candidates, query, o) :
                /\ candidates' = Merge(candidates, r.found, o.failedBlocks)
                /\ Adopt(r.last, "Failed", Stop(movement))
                /\ ~Success(r.last) => KeepLeg
  BY DEF RetryOrFail
<1>2. /\ UNCHANGED <<query, generation, lastCall, expired, valid>>
      /\ TypeOK /\ WorldOK
  BY DEF RetryOrFail, Inv, TypeOK, WorldOK
<1>3. o \in OutcomeType /\ Sound(o, candidates)
  BY <1>1, <1>2, TryNextTargetSound DEF TypeOK
<1>4. "Failed" \in States \ {"Moving"} /\ Stop(movement) \in MovementStatuses
      /\ movement \in MovementStatuses
  BY <1>2 DEF States, TypeOK, Stop, MovementStatuses
<1>5. PICK cands \in SUBSET Blocks, last \in OutcomeType, m \in MovementStatuses :
        /\ candidates' = cands
        /\ Sound(last, cands)
        /\ Adopt(last, "Failed", m)
        /\ ~Success(last) => KeepLeg
  <2>1. CASE Success(o) /\ Adopt(o, "Failed", movement) /\ UNCHANGED candidates
    BY <1>2, <1>3, <1>4, <2>1 DEF TypeOK
  <2>2. CASE /\ ~Success(o)
             /\ \E r \in Rescan(candidates, query, o) :
                  /\ candidates' = Merge(candidates, r.found, o.failedBlocks)
                  /\ Adopt(r.last, "Failed", Stop(movement))
                  /\ ~Success(r.last) => KeepLeg
    <3>1. PICK r \in Rescan(candidates, query, o) :
            /\ candidates' = Merge(candidates, r.found, o.failedBlocks)
            /\ Adopt(r.last, "Failed", Stop(movement))
            /\ ~Success(r.last) => KeepLeg
      BY <2>2
    <3>2. /\ r.found \in SUBSET Blocks /\ r.last \in OutcomeType
          /\ Sound(r.last, Merge(candidates, r.found, o.failedBlocks))
      BY <1>2, <1>3, <2>2, RescanSound DEF TypeOK
    <3>3. Merge(candidates, r.found, o.failedBlocks) \in SUBSET Blocks
      BY <1>2, <3>2 DEF Merge, TypeOK
    <3> QED BY <1>4, <3>1, <3>2, <3>3
  <2> QED BY <1>1, <2>1, <2>2
<1>6. /\ state' \in States /\ movement' \in MovementStatuses
      /\ failedBlocks' \in SUBSET Blocks /\ failedApproaches' \in SUBSET Targets
      /\ attempts' \in 0..MaxTargetAttempts /\ linked' \in BOOLEAN
      /\ Success(last) => /\ selected' \in Targets
                          /\ toppedUp' = FALSE /\ stalled' = FALSE
                          /\ state' \in {"Moving", "Reached"}
      /\ ~Success(last) => state' = "Failed"
      /\ PursuesOpenTarget'
  BY <1>2, <1>4, <1>5, AdoptSound
<1>7. TypeOK'
  BY <1>2, <1>5, <1>6 DEF TypeOK, KeepLeg
<1>8. NoSilentStall'
  BY <1>6 DEF NoSilentStall
<1> QED BY <1>6, <1>7, <1>8 DEF Inv

\* start_multi begins a run that satisfies the invariant.
LEMMA StartMultiSound ==
  ASSUME Inv, StartMulti
  PROVE  Inv'
<1>1. PICK found \in ScanResults("search", linked) :
        /\ candidates' = found
        /\ \E o \in TryNextTarget(found, {}, {}, 0) :
             /\ Adopt(o, Resting(o), Stop(movement))
             /\ lastCall' = Verdict(o)
             /\ ~Success(o) => /\ selected' = None
                               /\ toppedUp' = FALSE
                               /\ stalled' = FALSE
  BY DEF StartMulti
<1>2. PICK o \in TryNextTarget(found, {}, {}, 0) :
        /\ Adopt(o, Resting(o), Stop(movement))
        /\ lastCall' = Verdict(o)
        /\ ~Success(o) => selected' = None /\ toppedUp' = FALSE /\ stalled' = FALSE
  BY <1>1
<1>3. /\ found \in SUBSET Blocks /\ TypeOK /\ WorldOK /\ 0 \in 0..MaxTargetAttempts
  BY <1>1, BlockNavigationAssumption DEF ScanResults, Inv, TypeOK, WorldOK
<1>4. o \in OutcomeType /\ Sound(o, found)
  BY <1>2, <1>3, TryNextTargetSound
<1>5. Resting(o) \in States \ {"Moving"} /\ Stop(movement) \in MovementStatuses
  BY <1>3 DEF Resting, States, Stop, TypeOK, MovementStatuses
<1>6. /\ state' \in States /\ movement' \in MovementStatuses
      /\ failedBlocks' \in SUBSET Blocks /\ failedApproaches' \in SUBSET Targets
      /\ attempts' \in 0..MaxTargetAttempts /\ linked' \in BOOLEAN
      /\ Success(o) => /\ selected' \in Targets
                       /\ toppedUp' = FALSE /\ stalled' = FALSE
                       /\ state' \in {"Moving", "Reached"}
      /\ ~Success(o) => state' = Resting(o)
      /\ PursuesOpenTarget'
  BY <1>1, <1>2, <1>3, <1>4, <1>5, AdoptSound
<1>7. TypeOK'
  <2>1. generation' \in 0..MaxGeneration /\ query' = "search" /\ expired' = FALSE
        /\ UNCHANGED valid
    BY <1>3, BlockNavigationAssumption DEF StartMulti, TypeOK
  <2> QED BY <1>1, <1>2, <1>3, <1>6, <2>1 DEF TypeOK, Verdict
<1>8. NoSilentStall'
  BY <1>2, <1>4, <1>6 DEF NoSilentStall, OutcomeType, Results, Success, Resting, Verdict
<1> QED BY <1>6, <1>7, <1>8 DEF Inv

\* start_exact begins a run that satisfies the invariant.
LEMMA StartExactSound ==
  ASSUME Inv, NEW b \in Blocks, StartExact(b)
  PROVE  Inv'
<1>1. PICK o \in TryNextTarget({b}, {}, {}, 0) :
        /\ Adopt(o, Resting(o), Stop(movement))
        /\ lastCall' = IF Success(o) THEN "ok" ELSE "err"
        /\ ~Success(o) => selected' = None /\ toppedUp' = TRUE /\ stalled' = FALSE
  BY DEF StartExact
<1>2. /\ {b} \in SUBSET Blocks /\ TypeOK /\ WorldOK /\ 0 \in 0..MaxTargetAttempts
  BY BlockNavigationAssumption DEF Inv, TypeOK, WorldOK
<1>3. o \in OutcomeType /\ Sound(o, {b})
  BY <1>1, <1>2, TryNextTargetSound
<1>4. Resting(o) \in States \ {"Moving"} /\ Stop(movement) \in MovementStatuses
  BY <1>2 DEF Resting, States, Stop, TypeOK, MovementStatuses
<1>5. candidates' = {b}
  BY DEF StartExact
<1>6. /\ state' \in States /\ movement' \in MovementStatuses
      /\ failedBlocks' \in SUBSET Blocks /\ failedApproaches' \in SUBSET Targets
      /\ attempts' \in 0..MaxTargetAttempts /\ linked' \in BOOLEAN
      /\ Success(o) => /\ selected' \in Targets
                       /\ toppedUp' = FALSE /\ stalled' = FALSE
                       /\ state' \in {"Moving", "Reached"}
      /\ ~Success(o) => state' = Resting(o)
      /\ PursuesOpenTarget'
  BY <1>1, <1>2, <1>3, <1>4, <1>5, AdoptSound
<1>7. TypeOK'
  <2>1. generation' \in 0..MaxGeneration /\ query' = "exact" /\ expired' = FALSE
        /\ UNCHANGED valid
    BY <1>2, BlockNavigationAssumption DEF StartExact, TypeOK
  <2> QED BY <1>1, <1>2, <1>5, <1>6, <2>1 DEF TypeOK
<1>8. NoSilentStall'
  BY <1>1, <1>6 DEF NoSilentStall
<1> QED BY <1>6, <1>7, <1>8 DEF Inv

\* try_another_approach marks the place reached before it looks for the next.
LEMMA TryAnotherApproachSound ==
  ASSUME Inv, TryAnotherApproach
  PROVE  Inv'
<1>1. PICK o \in TryNextTarget(candidates, failedBlocks,
                               failedApproaches \cup {selected}, attempts) :
        /\ Adopt(o, state, movement)
        /\ ~Success(o) => KeepLeg
        /\ lastCall' = Verdict(o)
  BY DEF TryAnotherApproach
<1>2. /\ TypeOK /\ WorldOK /\ state \in {"Reached", "Failed"}
      /\ failedApproaches \cup {selected} \in SUBSET Targets
      /\ UNCHANGED <<query, candidates, generation, expired, valid>>
  BY DEF TryAnotherApproach, Inv, TypeOK, WorldOK
<1>3. o \in OutcomeType /\ Sound(o, candidates)
  BY <1>1, <1>2, TryNextTargetSound DEF TypeOK
<1>4. state \in States \ {"Moving"} /\ movement \in MovementStatuses
      /\ candidates \in SUBSET Blocks
  BY <1>2 DEF States, TypeOK
<1>5. /\ state' \in States /\ movement' \in MovementStatuses
      /\ failedBlocks' \in SUBSET Blocks /\ failedApproaches' \in SUBSET Targets
      /\ attempts' \in 0..MaxTargetAttempts /\ linked' \in BOOLEAN
      /\ Success(o) => /\ selected' \in Targets
                       /\ toppedUp' = FALSE /\ stalled' = FALSE
                       /\ state' \in {"Moving", "Reached"}
      /\ ~Success(o) => state' = state
      /\ PursuesOpenTarget'
  BY <1>1, <1>2, <1>3, <1>4, AdoptSound
<1>6. TypeOK'
  BY <1>1, <1>2, <1>5 DEF TypeOK, KeepLeg, Verdict
<1>7. NoSilentStall'
  BY <1>2, <1>5 DEF NoSilentStall
<1> QED BY <1>5, <1>6, <1>7 DEF Inv

\* continue_after_mined: the mined block joins the marks, and the pass that
\* follows obeys them.
LEMMA ContinueAfterMinedSound ==
  ASSUME Inv, ContinueAfterMined
  PROVE  Inv'
<1>1. PICK o \in TryNextTarget(candidates, Gone, failedApproaches, 0) :
        \/ /\ Success(o)
           /\ Adopt(o, "SelectingTarget", movement)
           /\ lastCall' = "ok"
           /\ UNCHANGED candidates
        \/ /\ o.result = "error"
           /\ Adopt(o, "SelectingTarget", movement)
           /\ lastCall' = "err"
           /\ selected' = None
           /\ stalled' = FALSE
           /\ UNCHANGED <<candidates, toppedUp>>
        \/ /\ o.result = "none"
           /\ \E r \in Rescan(candidates, query, o) :
                /\ candidates' = Merge(candidates, r.found, o.failedBlocks)
                /\ Adopt(r.last, Resting(r.last), movement)
                /\ lastCall' = Verdict(r.last)
                /\ ~Success(r.last) => /\ selected' = None
                                       /\ stalled' = FALSE
                                       /\ UNCHANGED toppedUp
  BY DEF ContinueAfterMined
<1>2. /\ TypeOK /\ WorldOK /\ Gone \in SUBSET Blocks /\ 0 \in 0..MaxTargetAttempts
      /\ expired' = FALSE /\ UNCHANGED <<query, generation, valid>>
  BY BlockNavigationAssumption DEF ContinueAfterMined, Gone, Inv, TypeOK, WorldOK
<1>3. o \in OutcomeType /\ Sound(o, candidates)
  BY <1>1, <1>2, TryNextTargetSound DEF TypeOK
<1>4. /\ "Failed" \in States \ {"Moving"}
      /\ "SelectingTarget" \in States \ {"Moving"}
      /\ movement \in MovementStatuses
  BY <1>2 DEF States, TypeOK
\* Whichever way the passes went, the last one decided the state.
<1>5. PICK cands \in SUBSET Blocks, last \in OutcomeType, s \in States \ {"Moving"} :
        /\ candidates' = cands
        /\ Sound(last, cands)
        /\ Adopt(last, s, movement)
        /\ lastCall' \in {"ok", "err"}
        /\ ~Success(last) => /\ selected' = None /\ stalled' = FALSE
                             /\ UNCHANGED toppedUp
                             /\ s = "SelectingTarget" => lastCall' = "err"
  <2>1. CASE /\ Success(o)
             /\ Adopt(o, "SelectingTarget", movement)
             /\ lastCall' = "ok"
             /\ UNCHANGED candidates
    BY <1>2, <1>3, <1>4, <2>1 DEF TypeOK
  <2>2. CASE /\ o.result = "error"
             /\ Adopt(o, "SelectingTarget", movement)
             /\ lastCall' = "err"
             /\ selected' = None
             /\ stalled' = FALSE
             /\ UNCHANGED <<candidates, toppedUp>>
    BY <1>2, <1>3, <1>4, <2>2 DEF TypeOK
  <2>3. CASE /\ o.result = "none"
             /\ \E r \in Rescan(candidates, query, o) :
                  /\ candidates' = Merge(candidates, r.found, o.failedBlocks)
                  /\ Adopt(r.last, Resting(r.last), movement)
                  /\ lastCall' = Verdict(r.last)
                  /\ ~Success(r.last) => /\ selected' = None
                                         /\ stalled' = FALSE
                                         /\ UNCHANGED toppedUp
    <3>1. PICK r \in Rescan(candidates, query, o) :
            /\ candidates' = Merge(candidates, r.found, o.failedBlocks)
            /\ Adopt(r.last, Resting(r.last), movement)
            /\ lastCall' = Verdict(r.last)
            /\ ~Success(r.last) => selected' = None /\ stalled' = FALSE
                                   /\ UNCHANGED toppedUp
      BY <2>3
    <3>2. ~Success(o)
      BY <2>3 DEF Success
    <3>3. /\ r.found \in SUBSET Blocks /\ r.last \in OutcomeType
          /\ Sound(r.last, Merge(candidates, r.found, o.failedBlocks))
      BY <1>2, <1>3, <3>1, <3>2, RescanSound DEF TypeOK
    <3>4. Merge(candidates, r.found, o.failedBlocks) \in SUBSET Blocks
      BY <1>2, <3>3 DEF Merge, TypeOK
    <3>5. /\ Resting(r.last) \in States \ {"Moving"}
          /\ Verdict(r.last) \in {"ok", "err"}
      BY <1>4 DEF Resting, Verdict
    <3>6. ~Success(r.last) /\ Resting(r.last) = "SelectingTarget"
            => Verdict(r.last) = "err"
      BY <3>3 DEF OutcomeType, Results, Success, Resting, Verdict
    <3> QED BY <3>1, <3>3, <3>4, <3>5, <3>6
  <2> QED BY <1>1, <2>1, <2>2, <2>3
<1>6. /\ state' \in States /\ movement' \in MovementStatuses
      /\ failedBlocks' \in SUBSET Blocks /\ failedApproaches' \in SUBSET Targets
      /\ attempts' \in 0..MaxTargetAttempts /\ linked' \in BOOLEAN
      /\ Success(last) => /\ selected' \in Targets
                          /\ toppedUp' = FALSE /\ stalled' = FALSE
                          /\ state' \in {"Moving", "Reached"}
      /\ ~Success(last) => state' = s
      /\ PursuesOpenTarget'
  BY <1>2, <1>4, <1>5, AdoptSound
<1>7. TypeOK'
  BY <1>2, <1>5, <1>6 DEF TypeOK
<1>8. NoSilentStall'
  BY <1>5, <1>6 DEF NoSilentStall
<1> QED BY <1>6, <1>7, <1>8 DEF Inv

\* Forgetting everything leaves nothing to walk to.
LEMMA ForgetSound ==
  ASSUME Inv, Forget, UNCHANGED <<clockVars, valid, linked>>
  PROVE  Inv'
<1>1. TypeOK'
  BY DEF Inv, TypeOK, Forget, States, Stop, MovementStatuses, clockVars
<1>2. state' = "Idle"
  BY DEF Forget
<1> QED BY <1>1, <1>2 DEF Inv, PursuesOpenTarget, NoSilentStall

\* tick, one step per way it can go.
LEMMA TickSound ==
  ASSUME Inv, Tick
  PROVE  Inv'
<1>1. CASE TickLeftWorld
  BY <1>1, ForgetSound DEF TickLeftWorld
<1>2. CASE TickExpired
  <2>1. TypeOK'
    BY <1>2 DEF TickExpired, Inv, TypeOK, States, Stop, MovementStatuses,
                clockVars
  <2>2. state' = "Failed"
    BY <1>2 DEF TickExpired
  <2> QED BY <2>1, <2>2 DEF Inv, PursuesOpenTarget, NoSilentStall
<1>3. CASE TickUnread
  BY <1>3, RetryOrFailSound DEF TickUnread, RetryOrFail, Inv, TypeOK
<1>4. CASE TickInvalid
  <2>1. failedApproaches \cup {selected} \in SUBSET Targets
    BY <1>4 DEF TickInvalid, Live, Driving, Inv, TypeOK
  <2> QED BY <1>4, <2>1, RetryOrFailSound DEF TickInvalid, RetryOrFail
<1>5. CASE TickReached
  <2>1. TypeOK'
    BY <1>5 DEF TickReached, Inv, TypeOK, States, Stop, MovementStatuses,
                clockVars
  <2>2. state' = "Reached"
    BY <1>5 DEF TickReached
  <2> QED BY <2>1, <2>2 DEF Inv, PursuesOpenTarget, NoSilentStall
<1>6. CASE TickStuck
  <2>1. failedApproaches \cup {selected} \in SUBSET Targets
    BY <1>6 DEF TickStuck, Live, Driving, Inv, TypeOK
  <2> QED BY <1>6, <2>1, RetryOrFailSound DEF TickStuck, RetryOrFail
<1> QED BY <1>1, <1>2, <1>3, <1>4, <1>5, <1>6 DEF Tick

\* A top-up only adds candidates, so the target of the leg stays among them.
LEMMA TopupSound ==
  ASSUME Inv, MaybeTopupCandidates
  PROVE  Inv'
<1>1. PICK found \in ScanResults(query, linked) :
        candidates' = Merge(candidates, found, failedBlocks)
  BY DEF MaybeTopupCandidates
<1>2. found \in SUBSET Blocks
  BY <1>1 DEF ScanResults
<1>3. TypeOK'
  BY <1>1, <1>2 DEF MaybeTopupCandidates, Inv, TypeOK, Merge, clockVars
<1>4. PursuesOpenTarget'
  BY <1>1 DEF MaybeTopupCandidates, Inv, PursuesOpenTarget, Abandoned, Merge
<1>5. NoSilentStall'
  BY DEF MaybeTopupCandidates, Inv, NoSilentStall
<1> QED BY <1>3, <1>4, <1>5 DEF Inv

\* The world moves without touching what the service remembers.
LEMMA EnvironmentSound ==
  ASSUME Inv, Environment
  PROVE  Inv'
<1>1. UNCHANGED serviceVars
  BY DEF Environment, BotMoves, MovementSettles, CellChanges, Stall, Expire,
         ConnectionChanges
<1>2. /\ PursuesOpenTarget' /\ NoSilentStall'
  BY <1>1 DEF Inv, PursuesOpenTarget, NoSilentStall, Abandoned, serviceVars
<1>3. /\ stalled' \in BOOLEAN /\ expired' \in BOOLEAN
      /\ movement' \in MovementStatuses
      /\ linked' \in BOOLEAN
  BY DEF Inv, TypeOK, Environment, BotMoves, MovementSettles, CellChanges, Stall,
         Expire, ConnectionChanges, MovementStatuses,
         clockVars
<1>4. valid' \subseteq Targets
  <2>1. CASE CellChanges
    <3>1. PICK t \in Targets :
            valid' = IF t \in valid THEN valid \ {t} ELSE valid \cup {t}
      BY <2>1 DEF CellChanges
    <3> QED BY <3>1 DEF Inv, TypeOK
  <2>2. CASE ~CellChanges
    BY <2>2 DEF Inv, TypeOK, Environment, BotMoves, MovementSettles, Stall,
                Expire, ConnectionChanges, clockVars
  <2> QED BY <2>1, <2>2
<1> QED BY <1>1, <1>2, <1>3, <1>4 DEF Inv, TypeOK, serviceVars

\* The service starts idle, with nothing to pursue.
LEMMA Initially == Init => Inv
<1> SUFFICES ASSUME Init PROVE Inv
  OBVIOUS
<1>1. 0 \in 0..MaxTargetAttempts /\ 0 \in 0..MaxGeneration
  BY BlockNavigationAssumption
<1>2. /\ attempts \in 0..MaxTargetAttempts /\ generation \in 0..MaxGeneration
      /\ valid \subseteq Targets
      /\ selected \in Targets \cup {None}
  BY <1>1 DEF Init
<1>3. TypeOK
  BY <1>2 DEF Init, TypeOK, States, MovementStatuses
<1> QED BY <1>3 DEF Init, Inv, PursuesOpenTarget, NoSilentStall

\* Every step of the service and of its surroundings keeps the invariant.
LEMMA Inductive == Inv /\ [Next]_vars => Inv'
<1> SUFFICES ASSUME Inv, [Next]_vars PROVE Inv'
  OBVIOUS
<1>1. CASE StartMulti
  BY <1>1, StartMultiSound
<1>2. CASE \E b \in Blocks : StartExact(b)
  BY <1>2, StartExactSound
<1>3. CASE Cancel
  BY <1>3, ForgetSound DEF Cancel
<1>4. CASE TryAnotherApproach
  BY <1>4, TryAnotherApproachSound
<1>5. CASE Tick
  BY <1>5, TickSound
<1>6. CASE ContinueAfterMined
  BY <1>6, ContinueAfterMinedSound
<1>7. CASE MaybeTopupCandidates
  BY <1>7, TopupSound
<1>8. CASE Environment
  BY <1>8, EnvironmentSound
<1>9. CASE UNCHANGED vars
  BY <1>9 DEF vars, serviceVars, clockVars, Inv, TypeOK,
              PursuesOpenTarget, NoSilentStall, Abandoned
<1> QED BY <1>1, <1>2, <1>3, <1>4, <1>5, <1>6, <1>7, <1>8, <1>9 DEF Next

\* The inductive invariant holds throughout.
THEOREM AlwaysInv == Spec => []Inv
  BY Initially, Inductive, PTL DEF Spec

\* Every variable keeps its type; in particular no run ever spends more than
\* maximum_target_attempts attempts.
THEOREM TypeCorrect == Spec => []TypeOK
<1>1. Inv => TypeOK
  BY DEF Inv
<1> QED BY <1>1, AlwaysInv, PTL

\* While a leg is under way its target is a cached candidate that was not given
\* up: no call, tick, top-up or dropped connection leaves the service walking to
\* a target that it marked.
THEOREM AlwaysPursuesOpenTarget == Spec => []PursuesOpenTarget
<1>1. Inv => PursuesOpenTarget
  BY DEF Inv
<1> QED BY <1>1, AlwaysInv, PTL

\* A call that leaves SelectingTarget, which no tick drives, told its caller so.
THEOREM NeverStallsSilently == Spec => []NoSilentStall
<1>1. Inv => NoSilentStall
  BY DEF Inv
<1> QED BY <1>1, AlwaysInv, PTL

-----------------------------------------------------------------------------
(* What a step may do, and that every step is one of the bounded search that *)
(* BlockNavigation promises (TargetSearch).                                 *)

\* No sound place of b is left untried.
WrittenOff(b, fa) == \A a \in Approaches : <<b, a>> \in valid => <<b, a>> \in fa

NothingLeft(o, cands) ==
  \A b \in cands : b \in o.failedBlocks \/ WrittenOff(b, o.failedApproaches)

\* What a pass over cands, or a first pass and a rescan, does to the marks fb and
\* fa it began with: it only adds marks, on its candidates, and while the
\* connection lasts for a cause; it takes a target only while connected, and comes back empty only when nothing is left to try.
Follows(o, cands, fb, fa) ==
  /\ fb \subseteq o.failedBlocks /\ o.failedBlocks \subseteq fb \cup cands
  /\ fa \subseteq o.failedApproaches
  /\ o.failedApproaches \subseteq fa \cup (cands \X Approaches)
  /\ o.linked => /\ (o.failedApproaches \ fa) \cap valid = {}
                 /\ \A b \in o.failedBlocks \ fb : WrittenOff(b, o.failedApproaches)
  /\ Success(o) => linked
  /\ ~Success(o) /\ o.linked => o.attempts = MaxTargetAttempts \/ NothingLeft(o, cands)

-----------------------------------------------------------------------------
(* Passes.                                                                  *)

\* Before t, a pass marks only hopeless blocks and places that are not sound.
LEMMA MarkedForCause ==
  ASSUME NEW open \in SUBSET Blocks, NEW fa \in SUBSET Targets,
         NEW t \in Foremost(open, fa), NEW skipped \in SUBSET Hopeless(open, fa)
  PROVE  /\ t \in open \X Approaches
         /\ skipped \subseteq open
         /\ fa \subseteq Marked(t, skipped, fa)
         /\ Marked(t, skipped, fa) \subseteq fa \cup (open \X Approaches)
         /\ (Marked(t, skipped, fa) \ fa) \cap valid = {}
         /\ \A b \in skipped : WrittenOff(b, Marked(t, skipped, fa))
<1>1. t \in open \X Approaches /\ t[1] \in open /\ t[2] \in Approaches
  BY DEF Foremost
<1>2. skipped \subseteq open
  BY DEF Hopeless
<1>3. EarlierThan(t[1], t[2]) \subseteq open \X Approaches
  BY <1>1, BlockNavigationAssumption DEF EarlierThan, Approaches
<1>4. EarlierThan(t[1], t[2]) \cap (valid \ fa) = {}
  BY DEF Foremost
<1>5. ASSUME NEW u \in skipped \X Approaches, u \in valid PROVE u \in fa
  <2>1. u = <<u[1], u[2]>> /\ u[1] \in skipped /\ u[2] \in Approaches
    OBVIOUS
  <2>2. Usable(u[1], fa) = {}
    BY <2>1 DEF Hopeless
  <2> QED BY <1>5, <2>1, <2>2 DEF Usable
<1>6. ASSUME NEW b \in skipped PROVE WrittenOff(b, Marked(t, skipped, fa))
  BY DEF WrittenOff, Marked
<1> QED BY <1>1, <1>2, <1>3, <1>4, <1>5, <1>6 DEF Marked

\* A target that a pass chooses while linked follows from the marks it started with.
LEMMA ChosenFollows ==
  ASSUME WorldOK, linked, NEW open \in SUBSET Blocks, NEW fb \in SUBSET Blocks,
         NEW fa \in SUBSET Targets, NEW att, NEW o \in Chosen(open, fb, fa, att)
  PROVE  /\ Follows(o, open, fb, fa) /\ Success(o)
         /\ o.target \in open \X Approaches
<1>1. PICK t \in Takeable(open, fa), there \in BOOLEAN, skipped \in SUBSET Hopeless(open, fa) :
        o = Choose(t, there, skipped, fb, fa, att)
  BY DEF Chosen
<1>2. t \in Foremost(open, fa) /\ t \in valid
  BY DEF Takeable
<1>3. /\ o.result \in {"reached", "moving"}
      /\ o.target = t /\ o.failedBlocks = fb \cup skipped
      /\ o.failedApproaches = Marked(t, skipped, fa)
  BY <1>1 DEF Choose, Outcome
<1>4. Success(o)
  BY <1>3 DEF Success
<1>5. /\ t \in open \X Approaches
      /\ skipped \subseteq open
      /\ fa \subseteq Marked(t, skipped, fa)
      /\ Marked(t, skipped, fa) \subseteq fa \cup (open \X Approaches)
      /\ (Marked(t, skipped, fa) \ fa) \cap valid = {}
      /\ \A b \in skipped : WrittenOff(b, Marked(t, skipped, fa))
  BY <1>2, MarkedForCause
<1> QED BY <1>3, <1>4, <1>5 DEF Follows

\* A pass that the connection cut short has still only added marks.
LEMMA BreakOffFollows ==
  ASSUME NEW open \in SUBSET Blocks, NEW fb \in SUBSET Blocks,
         NEW fa \in SUBSET Targets, NEW att, NEW o \in DroppedReading(open, fb, fa, att)
  PROVE  Follows(o, open, fb, fa)
<1>1. PICK t \in Foremost(open, fa), skipped \in SUBSET Hopeless(open, fa) :
        o = BreakOff(t, skipped, fb, fa, att)
  BY DEF DroppedReading
<1>2. /\ o.result = "error" /\ o.linked = FALSE /\ o.failedBlocks = fb \cup skipped
      /\ o.failedApproaches = Marked(t, skipped, fa)
  BY <1>1 DEF BreakOff, Outcome
<1>3. /\ skipped \subseteq open
      /\ fa \subseteq Marked(t, skipped, fa)
      /\ Marked(t, skipped, fa) \subseteq fa \cup (open \X Approaches)
  BY <1>1, MarkedForCause
<1> QED BY <1>2, <1>3 DEF Follows, Success

\* A pass that loses the connection at the start of the walk follows as well.
LEMMA StrandedFollows ==
  ASSUME WorldOK, linked, NEW open \in SUBSET Blocks, NEW fb \in SUBSET Blocks,
         NEW fa \in SUBSET Targets, NEW att, NEW o \in DroppedStarting(open, fb, fa, att)
  PROVE  Follows(o, open, fb, fa)
<1>1. PICK c \in Chosen(open, fb, fa, att) : o = StrandedAt(c, open, fa)
  BY DEF DroppedStarting
<1>2. Follows(c, open, fb, fa) /\ c.target \in open \X Approaches
  BY <1>1, ChosenFollows
<1>3. c.target[1] \in open
  BY <1>2
<1>4. /\ o.result \in {"none", "error"} /\ o.linked = FALSE
      /\ o.failedBlocks \in {c.failedBlocks, c.failedBlocks \cup {c.target[1]}}
      /\ o.failedApproaches = c.failedApproaches \cup {c.target}
  BY <1>1 DEF StrandedAt, Outcome
<1> QED BY <1>2, <1>3, <1>4 DEF Follows, Success

\* So does every outcome of try_next_target.
LEMMA TryNextTargetFollows ==
  ASSUME WorldOK, NEW cands \in SUBSET Blocks, NEW fb \in SUBSET Blocks,
         NEW fa \in SUBSET Targets, NEW att \in 0..MaxTargetAttempts,
         NEW o \in TryNextTarget(cands, fb, fa, att)
  PROVE  Follows(o, cands, fb, fa)
<1> DEFINE open == cands \ fb
<1>1. ASSUME Follows(o, open, fb, fa) PROVE Follows(o, cands, fb, fa)
  <2>1. NothingLeft(o, open) => NothingLeft(o, cands)
    BY <1>1 DEF Follows, NothingLeft
  <2> QED BY <1>1, <2>1 DEF Follows
<1>2. CASE Spent(att) \/ open = {}
  <2>1. o = Outcome("none", None, fb, fa, att, linked)
    BY <1>2 DEF TryNextTarget
  <2>2. /\ o.result = "none" /\ o.failedBlocks = fb /\ o.failedApproaches = fa
        /\ o.attempts = att
    BY <2>1 DEF Outcome
  <2>3. o.attempts = MaxTargetAttempts \/ NothingLeft(o, open)
    BY <1>2, <2>2, BlockNavigationAssumption DEF Spent, NothingLeft
  <2> QED BY <1>1, <2>2, <2>3 DEF Follows, Success
<1>3. CASE ~(Spent(att) \/ open = {}) /\ ~linked
  <2>1. o = Outcome("error", None, fb, fa, att, FALSE)
    BY <1>3 DEF TryNextTarget
  <2>2. /\ o.result = "error" /\ o.failedBlocks = fb /\ o.failedApproaches = fa
        /\ o.linked = FALSE
    BY <2>1 DEF Outcome
  <2> QED BY <2>2 DEF Follows, Success
<1>4. CASE ~(Spent(att) \/ open = {}) /\ linked
  <2>1. open \in SUBSET Blocks
    OBVIOUS
  <2>2. CASE o \in Barren(open, fb, fa, att)
    <3>1. /\ o = Outcome("none", None, fb \cup open, fa \cup (open \X Approaches),
                         att, TRUE)
          /\ Hopeless(open, fa) = open
      BY <2>2 DEF Barren
    <3>2. /\ o.result = "none" /\ o.failedBlocks = fb \cup open
          /\ o.failedApproaches = fa \cup (open \X Approaches)
      BY <3>1 DEF Outcome
    <3>3. ASSUME NEW u \in open \X Approaches, u \in valid PROVE u \in fa
      <4>1. u = <<u[1], u[2]>> /\ u[1] \in open /\ u[2] \in Approaches
        OBVIOUS
      <4>2. Usable(u[1], fa) = {}
        BY <3>1, <4>1 DEF Hopeless
      <4> QED BY <3>3, <4>1, <4>2 DEF Usable
    <3>4. \A b \in o.failedBlocks \ fb : WrittenOff(b, o.failedApproaches)
      BY <3>2 DEF WrittenOff
    <3>5. NothingLeft(o, open)
      BY <3>2 DEF NothingLeft
    <3>6. (o.failedApproaches \ fa) \cap valid = {}
      BY <3>2, <3>3
    <3> QED BY <1>1, <3>2, <3>4, <3>5, <3>6 DEF Follows, Success
  <2>3. CASE o \in Chosen(open, fb, fa, att)
    BY <1>1, <1>4, <2>1, <2>3, ChosenFollows
  <2>4. CASE o \in DroppedReading(open, fb, fa, att)
    BY <1>1, <2>1, <2>4, BreakOffFollows
  <2>5. CASE o \in DroppedStarting(open, fb, fa, att)
    BY <1>1, <1>4, <2>1, <2>5, StrandedFollows
  <2> QED BY <1>4, <2>2, <2>3, <2>4, <2>5 DEF TryNextTarget
<1> QED BY <1>2, <1>3, <1>4

\* A second pass that goes on from where a first one ended.
LEMMA FollowsTwice ==
  ASSUME NEW cands, NEW all, NEW fb, NEW fa, NEW o, NEW last, cands \subseteq all,
         Follows(o, cands, fb, fa), Follows(last, all, o.failedBlocks, o.failedApproaches),
         last.linked => o.linked
  PROVE  Follows(last, all, fb, fa)
<1>1. ASSUME last.linked, NEW b \in last.failedBlocks \ fb
      PROVE  WrittenOff(b, last.failedApproaches)
  <2>1. CASE b \in o.failedBlocks
    <3>1. WrittenOff(b, o.failedApproaches)
      BY <1>1, <2>1 DEF Follows
    <3> QED BY <3>1 DEF Follows, WrittenOff
  <2>2. CASE b \notin o.failedBlocks
    BY <1>1, <2>2 DEF Follows
  <2> QED BY <2>1, <2>2
<1>2. ASSUME last.linked PROVE (last.failedApproaches \ fa) \cap valid = {}
  BY <1>2 DEF Follows
<1>3. last.failedBlocks \subseteq fb \cup all
  BY DEF Follows
<1>4. cands \X Approaches \subseteq all \X Approaches
  OBVIOUS
<1>5. last.failedApproaches \subseteq fa \cup (all \X Approaches)
  BY <1>4 DEF Follows
<1>6. fb \subseteq last.failedBlocks /\ fa \subseteq last.failedApproaches
  BY DEF Follows
<1> QED BY <1>1, <1>2, <1>3, <1>5, <1>6 DEF Follows

\* rescan_and_try_next.  Only a search lists more candidates.
LEMMA RescanFollows ==
  ASSUME WorldOK, NEW cands \in SUBSET Blocks, NEW kind, NEW fb, NEW fa,
         NEW o \in OutcomeType, ~Success(o), Follows(o, cands, fb, fa),
         NEW r \in Rescan(cands, kind, o)
  PROVE  /\ Follows(r.last, Merge(cands, r.found, o.failedBlocks), fb, fa)
         /\ kind # "search" => r.found = {}
<1>1. CASE kind = "none"
  <2>1. r = Rescanned({}, [o EXCEPT !.result = "none"])
    BY <1>1 DEF Rescan
  <2>2. r.found = {} /\ r.last = [o EXCEPT !.result = "none"]
    BY <2>1 DEF Rescanned
  <2>3. Merge(cands, r.found, o.failedBlocks) = cands
    BY <2>2 DEF Merge
  <2>4. /\ r.last.result = "none" /\ r.last.failedBlocks = o.failedBlocks
        /\ r.last.failedApproaches = o.failedApproaches
        /\ r.last.linked = o.linked /\ r.last.attempts = o.attempts
    BY <2>2 DEF OutcomeType
  <2>5. ~Success(r.last) /\ (NothingLeft(o, cands) => NothingLeft(r.last, cands))
    BY <2>4 DEF Success, NothingLeft
  <2> QED BY <2>2, <2>3, <2>4, <2>5 DEF Follows
<1>2. CASE kind # "none"
  <2>1. PICK found \in ScanResults(kind, o.linked) :
          \E last \in SecondPass(Merge(cands, found, o.failedBlocks), o) :
            r = Rescanned(found, last)
    BY <1>2 DEF Rescan
  <2>2. PICK last \in SecondPass(Merge(cands, found, o.failedBlocks), o) :
          r = Rescanned(found, last)
    BY <2>1
  <2>3. found \in SUBSET Blocks /\ (kind # "search" => found = {})
    BY <2>1 DEF ScanResults
  <2> DEFINE all == Merge(cands, found, o.failedBlocks)
  <2>4. all \in SUBSET Blocks /\ cands \subseteq all
    BY <2>3 DEF Merge
  <2>5. Follows(last, all, fb, fa)
    <3>1. CASE o.linked
      <4>1. last \in TryNextTarget(all, o.failedBlocks, o.failedApproaches, o.attempts)
        BY <2>2, <3>1 DEF SecondPass
      <4>2. Follows(last, all, o.failedBlocks, o.failedApproaches)
        BY <2>4, <4>1, TryNextTargetFollows DEF OutcomeType
      <4> HIDE DEF all
      <4> QED BY <2>4, <3>1, <4>2, FollowsTwice
    <3>2. CASE ~o.linked
      <4>1. last = Unanswered(all, o)
        BY <2>2, <3>2 DEF SecondPass
      <4>2. /\ last.result \in {"none", "error"} /\ last.failedBlocks = o.failedBlocks
            /\ last.failedApproaches = o.failedApproaches /\ last.linked = o.linked
        BY <4>1 DEF Unanswered, OutcomeType
      <4>3. cands \X Approaches \subseteq all \X Approaches
        BY <2>4
      <4> HIDE DEF all
      <4> QED BY <2>4, <3>2, <4>2, <4>3 DEF Follows, Success
    <3> QED BY <3>1, <3>2
  <2> QED BY <2>2, <2>3, <2>5 DEF Rescanned
<1> QED BY <1>1, <1>2

-----------------------------------------------------------------------------
(* What a call or a tick that runs such passes leaves behind.               *)

\* The pass o began with the marks fb and fa and decided the step; without
\* success it leaves the state at rest.
Decides(o, fb, fa, rest) ==
  /\ o \in OutcomeType
  /\ Sound(o, candidates')
  /\ Follows(o, candidates', fb, fa)
  /\ failedBlocks' = o.failedBlocks /\ failedApproaches' = o.failedApproaches
  /\ attempts' = o.attempts /\ linked' = o.linked
  /\ Success(o) => /\ selected' = o.target
                   /\ state' = IF o.result = "reached" THEN "Reached" ELSE "Moving"
  /\ ~Success(o) => state' = rest

\* Adopting an outcome that follows decides the leg.
LEMMA AdoptDecides ==
  ASSUME NEW o \in OutcomeType, NEW fb, NEW fa, NEW rest, NEW m, Adopt(o, rest, m),
         Sound(o, candidates'), Follows(o, candidates', fb, fa)
  PROVE  Decides(o, fb, fa, rest)
BY DEF Adopt, Decides

\* A search among several blocks starts with a decision on its first leg.
LEMMA StartMultiDecides ==
  ASSUME Inv, StartMulti
  PROVE  \E o \in OutcomeType : /\ Decides(o, {}, {}, Resting(o))
                                /\ ~Success(o) => selected' = None
<1>1. PICK found \in ScanResults("search", linked) :
        /\ candidates' = found
        /\ \E o \in TryNextTarget(found, {}, {}, 0) :
             /\ Adopt(o, Resting(o), Stop(movement))
             /\ ~Success(o) => selected' = None
  BY DEF StartMulti
<1>2. PICK o \in TryNextTarget(found, {}, {}, 0) :
        Adopt(o, Resting(o), Stop(movement)) /\ (~Success(o) => selected' = None)
  BY <1>1
<1>3. /\ found \in SUBSET Blocks /\ WorldOK /\ 0 \in 0..MaxTargetAttempts
      /\ {} \in SUBSET Blocks /\ {} \in SUBSET Targets
  BY BlockNavigationAssumption DEF ScanResults, Inv, TypeOK, WorldOK
<1>4. o \in OutcomeType /\ Sound(o, candidates') /\ Follows(o, candidates', {}, {})
  BY <1>1, <1>2, <1>3, TryNextTargetSound, TryNextTargetFollows
<1> QED BY <1>2, <1>4, AdoptDecides

\* So does a search for one block.
LEMMA StartExactDecides ==
  ASSUME Inv, NEW b \in Blocks, StartExact(b)
  PROVE  \E o \in OutcomeType : /\ Decides(o, {}, {}, Resting(o))
                                /\ ~Success(o) => selected' = None
<1>1. PICK o \in TryNextTarget({b}, {}, {}, 0) :
        Adopt(o, Resting(o), Stop(movement)) /\ (~Success(o) => selected' = None)
  BY DEF StartExact
<1>2. /\ {b} \in SUBSET Blocks /\ WorldOK /\ 0 \in 0..MaxTargetAttempts
      /\ {} \in SUBSET Blocks /\ {} \in SUBSET Targets /\ candidates' = {b}
  BY BlockNavigationAssumption DEF StartExact, Inv, TypeOK, WorldOK
<1>3. o \in OutcomeType /\ Sound(o, candidates') /\ Follows(o, candidates', {}, {})
  BY <1>1, <1>2, TryNextTargetSound, TryNextTargetFollows
<1> QED BY <1>1, <1>3, AdoptDecides

\* try_another_approach marks the approach pursued and decides on the next.
LEMMA TryAnotherDecides ==
  ASSUME Inv, TryAnotherApproach
  PROVE  \E o \in OutcomeType :
           /\ Decides(o, failedBlocks, failedApproaches \cup {selected}, state)
           /\ ~Success(o) => selected' = selected
<1>1. PICK o \in TryNextTarget(candidates, failedBlocks,
                               failedApproaches \cup {selected}, attempts) :
        Adopt(o, state, movement) /\ (~Success(o) => selected' = selected)
  BY DEF TryAnotherApproach, KeepLeg
<1>2. /\ TypeOK /\ WorldOK /\ failedApproaches \cup {selected} \in SUBSET Targets
      /\ candidates' = candidates
  BY DEF TryAnotherApproach, Inv, TypeOK, WorldOK
<1>3. /\ o \in OutcomeType /\ Sound(o, candidates')
      /\ Follows(o, candidates', failedBlocks, failedApproaches \cup {selected})
  BY <1>1, <1>2, TryNextTargetSound, TryNextTargetFollows DEF TypeOK
<1> QED BY <1>1, <1>3, AdoptDecides

\* A tick that gives the target up marks it and decides on the next.
LEMMA RetryOrFailDecides ==
  ASSUME Inv, NEW marked \in SUBSET Targets, RetryOrFail(marked)
  PROVE  /\ \E o \in OutcomeType : /\ Decides(o, failedBlocks, marked, "Failed")
                                   /\ ~Success(o) => selected' = selected
         /\ query # "search" => candidates' = candidates
<1>1. PICK o \in TryNextTarget(candidates, failedBlocks, marked, attempts) :
        \/ /\ Success(o)
           /\ Adopt(o, "Failed", movement)
           /\ UNCHANGED candidates
        \/ /\ ~Success(o)
           /\ \E r \in Rescan(candidates, query, o) :
                /\ candidates' = Merge(candidates, r.found, o.failedBlocks)
                /\ Adopt(r.last, "Failed", Stop(movement))
                /\ ~Success(r.last) => KeepLeg
  BY DEF RetryOrFail
<1>2. TypeOK /\ WorldOK
  BY DEF Inv, TypeOK, WorldOK
<1>3. /\ o \in OutcomeType /\ Sound(o, candidates)
      /\ Follows(o, candidates, failedBlocks, marked)
  BY <1>1, <1>2, TryNextTargetSound, TryNextTargetFollows DEF TypeOK
<1>4. CASE Success(o) /\ Adopt(o, "Failed", movement) /\ UNCHANGED candidates
  <2>1. Decides(o, failedBlocks, marked, "Failed")
    BY <1>3, <1>4, AdoptDecides
  <2> QED BY <1>3, <1>4, <2>1
<1>5. CASE /\ ~Success(o)
           /\ \E r \in Rescan(candidates, query, o) :
                /\ candidates' = Merge(candidates, r.found, o.failedBlocks)
                /\ Adopt(r.last, "Failed", Stop(movement))
                /\ ~Success(r.last) => KeepLeg
  <2>1. PICK r \in Rescan(candidates, query, o) :
          /\ candidates' = Merge(candidates, r.found, o.failedBlocks)
          /\ Adopt(r.last, "Failed", Stop(movement))
          /\ ~Success(r.last) => KeepLeg
    BY <1>5
  <2>2. /\ r.last \in OutcomeType /\ Sound(r.last, candidates')
        /\ Follows(r.last, candidates', failedBlocks, marked)
        /\ query # "search" => r.found = {}
    BY <1>2, <1>3, <1>5, <2>1, RescanSound, RescanFollows DEF TypeOK
  <2>3. Decides(r.last, failedBlocks, marked, "Failed")
    BY <2>1, <2>2, AdoptDecides
  <2>4. query # "search" => candidates' = candidates
    BY <2>1, <2>2 DEF Merge
  <2> QED BY <2>1, <2>2, <2>3, <2>4 DEF KeepLeg
<1> QED BY <1>1, <1>4, <1>5

\* Going on after a block was mined decides on the next with the blocks that are gone marked.
LEMMA ContinueDecides ==
  ASSUME Inv, ContinueAfterMined
  PROVE  /\ \E o \in OutcomeType, rest \in {"Failed", "SelectingTarget"} :
              /\ Decides(o, Gone, failedApproaches, rest)
              /\ ~Success(o) => selected' = None
         /\ query # "search" => candidates' = candidates
<1>1. PICK o \in TryNextTarget(candidates, Gone, failedApproaches, 0) :
        \/ /\ ~Success(o) => selected' = None
           /\ Adopt(o, "SelectingTarget", movement)
           /\ UNCHANGED candidates
        \/ /\ o.result = "none"
           /\ \E r \in Rescan(candidates, query, o) :
                /\ candidates' = Merge(candidates, r.found, o.failedBlocks)
                /\ Adopt(r.last, Resting(r.last), movement)
                /\ ~Success(r.last) => selected' = None
  BY DEF ContinueAfterMined
<1>2. /\ TypeOK /\ WorldOK /\ Gone \in SUBSET Blocks /\ 0 \in 0..MaxTargetAttempts
  BY BlockNavigationAssumption DEF Gone, Inv, TypeOK, WorldOK
<1>3. /\ o \in OutcomeType /\ Sound(o, candidates)
      /\ Follows(o, candidates, Gone, failedApproaches)
  BY <1>1, <1>2, TryNextTargetSound, TryNextTargetFollows DEF TypeOK
<1>4. CASE /\ ~Success(o) => selected' = None
           /\ Adopt(o, "SelectingTarget", movement)
           /\ UNCHANGED candidates
  <2>1. Decides(o, Gone, failedApproaches, "SelectingTarget")
    BY <1>3, <1>4, AdoptDecides
  <2> QED BY <1>3, <1>4, <2>1
<1>5. CASE /\ o.result = "none"
           /\ \E r \in Rescan(candidates, query, o) :
                /\ candidates' = Merge(candidates, r.found, o.failedBlocks)
                /\ Adopt(r.last, Resting(r.last), movement)
                /\ ~Success(r.last) => selected' = None
  <2>1. PICK r \in Rescan(candidates, query, o) :
          /\ candidates' = Merge(candidates, r.found, o.failedBlocks)
          /\ Adopt(r.last, Resting(r.last), movement)
          /\ ~Success(r.last) => selected' = None
    BY <1>5
  <2>2. ~Success(o)
    BY <1>5 DEF Success
  <2>3. /\ r.last \in OutcomeType /\ Sound(r.last, candidates')
        /\ Follows(r.last, candidates', Gone, failedApproaches)
        /\ query # "search" => r.found = {}
    BY <1>2, <1>3, <2>1, <2>2, RescanSound, RescanFollows DEF TypeOK
  <2>4. Decides(r.last, Gone, failedApproaches, Resting(r.last))
    BY <2>1, <2>3, AdoptDecides
  <2>5. Resting(r.last) \in {"Failed", "SelectingTarget"}
    BY DEF Resting
  <2>6. query # "search" => candidates' = candidates
    BY <2>1, <2>3 DEF Merge
  <2> QED BY <2>1, <2>3, <2>4, <2>5, <2>6
<1> QED BY <1>1, <1>4, <1>5

\* The three ways a tick decides a leg by a new pass.
LEMMA TickRetries ==
  ASSUME Inv, TickUnread \/ TickInvalid \/ TickStuck
  PROVE  \E marked \in SUBSET Targets :
           /\ RetryOrFail(marked)
           /\ marked \in {failedApproaches, failedApproaches \cup {selected}}
           /\ linked => selected \in marked
<1>1. selected \in Targets /\ failedApproaches \in SUBSET Targets
  BY DEF TickUnread, TickInvalid, TickStuck, Live, Driving, Inv, TypeOK
<1>2. CASE TickUnread
  BY <1>1, <1>2 DEF TickUnread
<1>3. CASE TickInvalid \/ TickStuck
  <2>1. failedApproaches \cup {selected} \in SUBSET Targets
    BY <1>1
  <2> QED BY <1>3, <2>1 DEF TickInvalid, TickStuck
<1> QED BY <1>2, <1>3

-----------------------------------------------------------------------------
(* The action properties.                                                   *)

\* A decision fails only offline, with its attempts spent, or with every sound approach abandoned.
LEMMA DecidedEnd ==
  ASSUME NEW o, NEW fb, NEW fa, NEW rest, Decides(o, fb, fa, rest), candidates' \subseteq Blocks,
         state' = "Failed"
  PROVE  \/ ~linked'
         \/ attempts' = MaxTargetAttempts
         \/ \A b \in candidates' :
              \A a \in Approaches : <<b, a>> \in valid => <<b, a>> \in Abandoned'
<1>1. ~Success(o)
  BY DEF Decides
<1>2. CASE NothingLeft(o, candidates')
  <2> SUFFICES ASSUME NEW b \in candidates', NEW a \in Approaches, <<b, a>> \in valid
               PROVE  <<b, a>> \in Abandoned'
    OBVIOUS
  <2>1. b \in failedBlocks' \/ <<b, a>> \in failedApproaches'
    BY <1>2 DEF NothingLeft, WrittenOff, Decides
  <2>2. <<b, a>> \in Targets /\ <<b, a>>[1] = b
    BY DEF Targets
  <2> QED BY <2>1, <2>2 DEF Abandoned
<1> QED BY <1>1, <1>2 DEF Decides, Follows

\* While linked, a decision marks unsound approaches, and blocks without a sound one left.
LEMMA DecidedMarks ==
  ASSUME NEW o, NEW fb, NEW fa, NEW rest, Decides(o, fb, fa, rest), linked'
  PROVE  /\ failedApproaches' \ fa \subseteq Targets \ valid
         /\ \A b \in failedBlocks' \ fb :
              \A a \in Approaches : <<b, a>> \in valid => <<b, a>> \in failedApproaches'
<1>1. failedApproaches' \subseteq Targets
  BY DEF Decides, OutcomeType
<1> QED BY <1>1 DEF Decides, Follows, WrittenOff

\* Every step that is not a pass leaves the marks alone or drops them all.
LEMMA Uneventful ==
  ASSUME Inv, [Next]_vars, ~StartMulti, \A b \in Blocks : ~StartExact(b),
         ~TryAnotherApproach, ~ContinueAfterMined, ~TickUnread, ~TickInvalid, ~TickStuck
  PROVE  /\ failedBlocks' \subseteq failedBlocks
         /\ failedApproaches' \subseteq failedApproaches
         /\ state' = "Failed" => state = "Failed" \/ expired
<1>1. CASE TickLeftWorld \/ Cancel
  BY <1>1 DEF TickLeftWorld, Cancel, Forget
<1>2. CASE TickExpired
  BY <1>2 DEF TickExpired, OutOfTime
<1>3. CASE TickReached
  BY <1>3 DEF TickReached
<1>4. CASE MaybeTopupCandidates
  BY <1>4 DEF MaybeTopupCandidates
<1>5. CASE Environment
  BY <1>5 DEF Environment, BotMoves, MovementSettles, CellChanges, Stall, Expire,
              ConnectionChanges, serviceVars
<1>6. CASE UNCHANGED vars
  BY <1>6 DEF vars, serviceVars
<1> QED BY <1>1, <1>2, <1>3, <1>4, <1>5, <1>6 DEF Next, Tick

\* A leg that fails has spent its attempts, its time or the connection, or there
\* is no candidate left with a sound place it has not tried: neither the marks of
\* an earlier pass nor a rescan can hide one.
THEOREM GivesUpExhausted == Spec => GivesUpOnlyWhenExhausted
<1>1. ASSUME Inv, [Next]_vars, state' = "Failed", state # "Failed"
      PROVE  \/ expired
             \/ ~linked'
             \/ attempts' = MaxTargetAttempts
             \/ \A b \in candidates' :
                  \A a \in Approaches : <<b, a>> \in valid => <<b, a>> \in Abandoned'
  <2> Inv' /\ candidates' \subseteq Blocks
    BY <1>1, Inductive DEF Inv, TypeOK
  <2>1. CASE StartMulti
    BY <1>1, <2>1, StartMultiDecides, DecidedEnd
  <2>2. CASE \E b \in Blocks : StartExact(b)
    BY <1>1, <2>2, StartExactDecides, DecidedEnd
  <2>3. CASE TryAnotherApproach
    BY <1>1, <2>3, TryAnotherDecides, DecidedEnd
  <2>4. CASE ContinueAfterMined
    BY <1>1, <2>4, ContinueDecides, DecidedEnd
  <2>5. CASE TickUnread \/ TickInvalid \/ TickStuck
    BY <1>1, <2>5, TickRetries, RetryOrFailDecides, DecidedEnd
  <2> QED BY <1>1, <2>1, <2>2, <2>3, <2>4, <2>5, Uneventful
<1>2. Inv /\ [Next]_vars =>
        [(state' = "Failed" /\ state # "Failed")
           => \/ expired
              \/ ~linked'
              \/ attempts' = MaxTargetAttempts
              \/ \A b \in candidates' :
                   \A a \in Approaches : <<b, a>> \in valid => <<b, a>> \in Abandoned']_vars
  BY <1>1
<1> QED BY <1>2, AlwaysInv, PTL DEF Spec, GivesUpOnlyWhenExhausted

\* While the connection lasts a run writes a place off only when it is not sound
\* or is the one the bot was at, and a block only when it was mined or has no sound
\* place left untried.
THEOREM MarkedForGoodCause == Spec => MarksForCause
<1> DEFINE Cause ==
      /\ failedApproaches' \ failedApproaches \subseteq (Targets \ valid) \cup {selected}
      /\ \A b \in failedBlocks' \ failedBlocks :
           \/ selected # None /\ b = selected[1]
           \/ \A a \in Approaches : <<b, a>> \in valid => <<b, a>> \in failedApproaches'
<1>1. ASSUME Inv, [Next]_vars, linked', generation' = generation PROVE Cause
  <2>1. ~StartMulti /\ \A b \in Blocks : ~StartExact(b)
    BY <1>1 DEF StartMulti, StartExact, Inv, TypeOK
  <2>2. CASE TryAnotherApproach
    BY <1>1, <2>2, TryAnotherDecides, DecidedMarks
  <2>3. CASE ContinueAfterMined
    <3>1. /\ failedApproaches' \ failedApproaches \subseteq Targets \ valid
          /\ \A b \in failedBlocks' \ Gone :
               \A a \in Approaches : <<b, a>> \in valid => <<b, a>> \in failedApproaches'
      BY <1>1, <2>3, ContinueDecides, DecidedMarks
    <3>2. \A b \in Gone \ failedBlocks : selected # None /\ b = selected[1]
      BY DEF Gone
    <3> QED BY <3>1, <3>2
  <2>4. CASE TickUnread \/ TickInvalid \/ TickStuck
    <3>1. PICK marked \in {failedApproaches, failedApproaches \cup {selected}} :
            RetryOrFail(marked) /\ marked \in SUBSET Targets
      BY <1>1, <2>4, TickRetries
    <3> QED BY <1>1, <3>1, RetryOrFailDecides, DecidedMarks
  <2> QED BY <1>1, <2>1, <2>2, <2>3, <2>4, Uneventful
<1>2. Inv /\ [Next]_vars => [~linked' \/ generation' # generation \/ Cause]_vars
  BY <1>1
<1> QED BY <1>2, AlwaysInv, PTL DEF Spec, MarksForCause

-----------------------------------------------------------------------------
(* The refinement.                                                          *)

\* A pass from within a run, while connected, is the search's TakeNext or GiveUp.
LEMMA DecidedSearches ==
  ASSUME TypeOK, TypeOK', NEW o, NEW fb, NEW fa, NEW rest, Decides(o, fb, fa, rest),
         rest \in {state, "Failed", "SelectingTarget"},
         state \in {"Idle", "Reached", "Failed", "Moving"}, rest # "Moving",
         failedBlocks \subseteq fb, failedApproaches \subseteq fa,
         Success(o) => selected = None \/ selected \in fa \/ selected[1] \in fb,
         ~Success(o) => selected' \in {selected, None},
         ~Success(o) /\ rest = "Reached" => selected' = selected,
         Scope' = Scope, Success(o) => selected' \in Scope
  PROVE  Search!TakeNext \/ Search!GiveUp
<1>1. /\ fb \subseteq failedBlocks' /\ fa \subseteq failedApproaches'
  BY DEF Decides, Follows
<1>2. Search!Abandon
  BY <1>1 DEF Search!Abandon, Abandoned
<1>3. CASE Success(o)
  <2>1. selected' \in Targets \ Abandoned'
    BY <1>3 DEF Decides, Sound, Abandoned
  <2>2. Phase' \in Search!Pursuing
    BY <1>3 DEF Phase, Search!Pursuing, Decides
  <2>3. selected \in Abandoned' \cup {None}
    BY <1>1, <1>3 DEF Abandoned, TypeOK
  <2> QED BY <1>2, <1>3, <2>1, <2>2, <2>3 DEF Search!TakeNext
<1>4. CASE ~Success(o)
  <2>1. state' = rest
    BY <1>4 DEF Decides
  <2>2. Phase' \in Search!Ended \cup {Phase}
    BY <2>1 DEF Phase, Search!Ended, TypeOK, States
  <2>3. Phase' \in Search!Pursuing => selected' = selected
    BY <1>4, <2>1 DEF Phase, Search!Pursuing, TypeOK, States
  <2> QED BY <1>2, <1>4, <2>2, <2>3 DEF Search!GiveUp
<1> QED BY <1>3, <1>4

\* Only a search lists more candidates, and then every target is in its scope.
LEMMA SameScope ==
  ASSUME query' = query, query # "search" => candidates' = candidates
  PROVE  Scope' = Scope
BY DEF Scope

\* A target that a decision takes is in the scope of the search.
LEMMA TakenIsInScope ==
  ASSUME TypeOK', NEW o, NEW fb, NEW fa, NEW rest, Decides(o, fb, fa, rest), Success(o)
  PROVE  selected' \in Scope'
<1>1. selected' \in Targets /\ selected'[1] \in candidates'
  BY DEF Decides, Sound
<1> QED BY <1>1 DEF Scope, Targets

\* A start is a new run, over all targets or over those of its block.
LEMMA StartSearches ==
  ASSUME Inv, Inv', StartMulti \/ \E b \in Blocks : StartExact(b)
  PROVE  generation' # generation /\ Scope' \in SUBSET Targets /\ Search!Begin(Scope')
<1>1. generation' # generation
  <2>1. generation \in Nat
    BY BlockNavigationAssumption DEF Inv, TypeOK
  <2>2. generation' = generation + 1
    BY DEF StartMulti, StartExact
  <2> QED BY <2>1, <2>2
<1>2. PICK o \in OutcomeType : /\ Decides(o, {}, {}, Resting(o))
                               /\ ~Success(o) => selected' = None
  BY StartMultiDecides, StartExactDecides
<1>3. Scope' \in SUBSET Targets
  BY DEF Inv, TypeOK, Scope, Targets
<1>4. Abandoned' \in SUBSET Scope'
  <2>1. CASE query' = "search"
    BY <2>1 DEF Scope, Abandoned
  <2>2. CASE query' # "search"
    <3>1. failedBlocks' \subseteq candidates'
      BY <1>2 DEF Decides, Follows
    <3>2. failedApproaches' \subseteq candidates' \X Approaches
      BY <1>2 DEF Decides, Follows
    <3>3. Abandoned' \subseteq candidates' \X Approaches
      BY <3>1, <3>2 DEF Abandoned, Targets
    <3> QED BY <2>2, <3>3 DEF Scope
  <2> QED BY <2>1, <2>2
<1>5. CASE Success(o)
  <2>1. selected' \in Scope'
    BY <1>2, <1>5, TakenIsInScope DEF Inv
  <2>2. selected' \notin Abandoned'
    BY <1>2, <1>5 DEF Decides, Sound, Abandoned
  <2>3. Phase' \in Search!Pursuing
    BY <1>2, <1>5 DEF Phase, Search!Pursuing, Decides
  <2>4. Search!Begin(Scope')
    BY <1>4, <2>1, <2>2, <2>3 DEF Search!Begin
  <2> QED BY <1>1, <1>3, <2>4
<1>6. CASE ~Success(o)
  <2>1. Phase' \in Search!Ended /\ selected' = None
    BY <1>2, <1>6 DEF Phase, Search!Ended, Decides, Resting
  <2>2. Search!Begin(Scope')
    BY <1>4, <2>1 DEF Search!Begin
  <2> QED BY <1>1, <1>3, <2>2
<1> QED BY <1>5, <1>6

\* try_another_approach is a step of the abstract search.
LEMMA TryAnotherSearches ==
  ASSUME Inv, Inv', TryAnotherApproach
  PROVE  Search!TakeNext \/ Search!GiveUp
<1>1. PICK o \in OutcomeType :
        /\ Decides(o, failedBlocks, failedApproaches \cup {selected}, state)
        /\ ~Success(o) => selected' = selected
  BY TryAnotherDecides
<1>2. Scope' = Scope
  BY SameScope DEF TryAnotherApproach
<1>3. Success(o) => selected' \in Scope
  BY <1>1, <1>2, TakenIsInScope DEF Inv
<1>4. state \in {"Reached", "Failed"}
  BY DEF TryAnotherApproach
<1> QED BY <1>1, <1>2, <1>3, <1>4, DecidedSearches DEF Inv

\* Going on after a block was mined is a step of the abstract search.
LEMMA ContinueSearches ==
  ASSUME Inv, Inv', ContinueAfterMined
  PROVE  Search!TakeNext \/ Search!GiveUp
<1>1. PICK o \in OutcomeType, rest \in {"Failed", "SelectingTarget"} :
        /\ Decides(o, Gone, failedApproaches, rest)
        /\ ~Success(o) => selected' = None
  BY ContinueDecides
<1>2. Scope' = Scope
  BY ContinueDecides, SameScope DEF ContinueAfterMined
<1>3. Success(o) => selected' \in Scope
  BY <1>1, <1>2, TakenIsInScope DEF Inv
<1>4. /\ failedBlocks \subseteq Gone
      /\ selected # None => selected[1] \in Gone
  BY DEF Gone, Inv, TypeOK, Targets
<1>5. state \in {"Idle", "Reached", "Failed"}
  BY DEF ContinueAfterMined
<1> QED BY <1>1, <1>2, <1>3, <1>4, <1>5, DecidedSearches DEF Inv

\* A tick that gives the target up is a step of the abstract search.
LEMMA RetrySearches ==
  ASSUME Inv, Inv', TickUnread \/ TickInvalid \/ TickStuck
  PROVE  Search!TakeNext \/ Search!GiveUp
<1>1. PICK marked \in SUBSET Targets :
        /\ RetryOrFail(marked)
        /\ marked \in {failedApproaches, failedApproaches \cup {selected}}
        /\ linked => selected \in marked
  BY TickRetries
<1>2. PICK o \in OutcomeType : /\ Decides(o, failedBlocks, marked, "Failed")
                               /\ ~Success(o) => selected' = selected
  BY <1>1, RetryOrFailDecides
<1>3. Scope' = Scope
  BY <1>1, RetryOrFailDecides, SameScope DEF RetryOrFail
<1>4. Success(o) => selected' \in Scope /\ selected \in marked
  BY <1>1, <1>2, <1>3, TakenIsInScope DEF Inv, Decides, Follows
<1>5. state = "Moving"
  BY DEF TickUnread, TickInvalid, TickStuck, Live, Driving
<1> QED BY <1>1, <1>2, <1>3, <1>4, <1>5, DecidedSearches DEF Inv

\* Forgetting the run drops the abstract search.
LEMMA ForgetDrops == ASSUME Forget PROVE Search!Drop
<1>1. Phase' = "Idle" /\ selected' = None
  BY DEF Forget, Phase
<1>2. Abandoned' = {}
  BY DEF Forget, Abandoned
<1>3. Scope' \in {Scope, {}}
  BY DEF Forget, Scope
<1> QED BY <1>1, <1>2, <1>3 DEF Search!Drop

\* Every step of the service and of its surroundings is a step of the search, or
\* the search does not notice.
LEMMA StepSearches ==
  ASSUME Inv, Inv', [Next]_vars
  PROVE  [Search!Step]_(Search!searchVars)
<1>1. CASE StartMulti \/ \E b \in Blocks : StartExact(b)
  BY <1>1, StartSearches DEF Search!Step
<1>2. CASE TryAnotherApproach
  BY <1>2, TryAnotherSearches DEF TryAnotherApproach, Search!Step
<1>3. CASE ContinueAfterMined
  BY <1>3, ContinueSearches DEF ContinueAfterMined, Search!Step
<1>4. CASE TickUnread \/ TickInvalid \/ TickStuck
  <2>1. generation' = generation
    BY <1>4 DEF TickUnread, TickInvalid, TickStuck, RetryOrFail
  <2> QED BY <1>4, <2>1, RetrySearches DEF Search!Step
<1>5. CASE Cancel \/ TickLeftWorld
  <2>1. generation' = generation /\ Forget
    BY <1>5 DEF Cancel, TickLeftWorld, Forget
  <2> QED BY <2>1, ForgetDrops DEF Search!Step
<1>6. CASE TickExpired \/ TickReached
  <2>1. /\ state = "Moving" /\ state' \in {"Failed", "Reached"}
        /\ UNCHANGED <<query, candidates, failedBlocks, failedApproaches, selected, generation>>
    BY <1>6 DEF TickExpired, TickReached, Live, Driving
  <2>2. Abandoned' = Abandoned /\ Scope' = Scope /\ Abandoned \in SUBSET Targets
    BY <2>1 DEF Abandoned, Scope
  <2>3. CASE state' = "Failed"
    BY <2>1, <2>2, <2>3
       DEF Phase, Search!Step, Search!GiveUp, Search!Abandon, Search!Ended, Search!Pursuing
  <2>4. CASE state' = "Reached"
    BY <2>1, <2>2, <2>4 DEF Phase, Search!Step, Search!Arrive
  <2> QED BY <2>1, <2>3, <2>4
<1>7. CASE MaybeTopupCandidates
  <2>1. query # "search" => candidates' = candidates
    BY <1>7 DEF MaybeTopupCandidates, ScanResults, Merge
  <2>2. Scope' = Scope
    BY <1>7, <2>1, SameScope DEF MaybeTopupCandidates
  <2>3. UNCHANGED <<Phase, selected, Abandoned, generation>>
    BY <1>7 DEF MaybeTopupCandidates, Phase, Abandoned
  <2> QED BY <2>2, <2>3 DEF Search!searchVars
<1>8. CASE Environment \/ UNCHANGED vars
  <2>1. UNCHANGED serviceVars
    BY <1>8 DEF Environment, BotMoves, MovementSettles, CellChanges, Stall, Expire,
                ConnectionChanges, vars
  <2>2. UNCHANGED <<Phase, selected, Abandoned, Scope, generation>>
    BY <2>1 DEF serviceVars, Phase, Abandoned, Scope
  <2> QED BY <2>2 DEF Search!searchVars
<1> QED BY <1>1, <1>2, <1>3, <1>4, <1>5, <1>6, <1>7, <1>8 DEF Next, Tick

\* The service implements the bounded search: a run takes one target after
\* another, has abandoned each before it takes the next, never returns to one, and
\* a run of start_exact never leaves its block.
THEOREM Refines == Spec => ImplementsSearch
<1>1. Init => Search!Init
  <2> SUFFICES ASSUME Init PROVE Search!Init
    OBVIOUS
  <2>1. Phase = "Idle" /\ selected = None
    BY DEF Init, Phase
  <2>2. Abandoned = {} /\ Scope = {}
    BY DEF Init, Abandoned, Scope
  <2> QED BY <2>1, <2>2 DEF Search!Init
<1>2. Inv /\ Inv' /\ [Next]_vars => [Search!Step]_(Search!searchVars)
  BY StepSearches
<1> QED BY <1>1, <1>2, AlwaysInv, PTL DEF Spec, ImplementsSearch, Search!Spec

=============================================================================
