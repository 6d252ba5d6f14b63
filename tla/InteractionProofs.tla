--------------------------- MODULE InteractionProofs ---------------------------
(* Proofs about Interaction, for any blocks, approaches, retries and probes,   *)
(* whatever the operator and the world do.                                     *)
EXTENDS Interaction, TLAPS

-----------------------------------------------------------------------------
(* The inductive invariant, one part for each component's own variables and *)
(* one for each relation between them.                                      *)

\* The controller's books: an operation is there exactly in the active states,
\* the packets it sent are accounted for by its retries, the flag by its state.
Books ==
  /\ istate \in InteractionStates
  /\ op \in Operations \cup {None}
  /\ dispatched \in BOOLEAN
  /\ retries \in 0..RetryLimit
  /\ probes \in 0..(MaxProbes - 1)
  /\ restore \in Blocks \cup {None}
  /\ late \in BOOLEAN
  /\ sends \in 0..(RetryLimit + 1)
  /\ op # None <=> istate \in ActiveStates
  /\ BoundedSends
  /\ FreshDispatch

NavPhases == {"Idle"} \cup Nav!Pursuing \cup Nav!Ended

Walk ==
  /\ phase \in NavPhases
  /\ target \in Targets \cup {None}
  /\ scope \in SUBSET Targets
  /\ phase \in Nav!Pursuing => target \in scope

World ==
  /\ mining \in Blocks \cup {None}
  /\ cell \in [Blocks -> Contents]
  /\ items \in 0..MaxItems
  /\ inReach \subseteq Blocks
  /\ presence \in {"joined", "dead", "gone"}

Inv == Books /\ Walk /\ Look!LookTypeOK /\ World /\ AimIsOwn /\ QuietAfterwards

\* Without /mine, whose search is over every block, a walk that belongs to an
\* operation is a walk to its own block.  A placement that follows a break keeps
\* the target of the break until it sets out itself.
OwnWalk ==
  op # None /\ target # None /\ (op.kind = "break" \/ istate = "Moving")
    => /\ scope \subseteq {op.support} \X Approaches
       /\ target \in scope

-----------------------------------------------------------------------------
(* What the helpers of the model do.                                        *)

\* Whatever a command asks for is an operation, and not the null value.
LEMMA OperationIs ==
  ASSUME World, NEW k \in Kinds, NEW b \in Blocks, NEW s \in Blocks
  PROVE  /\ Operation(k, b, s) \in Operations
         /\ Operation(k, b, s) # None
         /\ Operation(k, b, s).kind = k
         /\ Operation(k, b, s).support = s
<1>1. cell[s] \in Contents /\ items \in 0..MaxItems
  BY DEF World
<1>2. Operation(k, b, s) \in Operations
  BY <1>1 DEF Operation, Operations
<1> QED BY <1>2, NoneIsNoOperation DEF Operation

\* An operation has a kind, a block and a support.
LEMMA OperationFields ==
  ASSUME NEW o \in Operations
  PROVE  o.kind \in Kinds /\ o.block \in Blocks /\ o.support \in Blocks /\ o # None
BY NoneIsNoOperation DEF Operations

\* A tick of the look controller on an aim leads to one of three states.
LEMMA ResultsAre ==
  ASSUME NEW t PROVE Look!Results(t) \subseteq {"Looking", "Completed", "Failed"}
<1> SUFFICES ASSUME NEW r \in Look!Results(t)
             PROVE  r \in {"Looking", "Completed", "Failed"}
  OBVIOUS
<1>1. Look!Contexts(t) = {"Gone", "Still"}
  BY DEF Look!Contexts
<1>2. PICK c \in {"Gone", "Still"} :
        r \in CASE c = "Gone"   -> {"Failed"}
                [] c = "Moving" -> {"Looking", "Failed"}
                [] c = "Still"  -> {"Looking", "Completed", "Failed"}
  BY <1>1 DEF Look!Results
<1>3. CASE c = "Gone"
  BY <1>2, <1>3
<1>4. CASE c = "Still"
  BY <1>2, <1>4
<1> QED BY <1>3, <1>4

\* Ending a look, or giving the camera back, leaves no aim behind.
LEMMA LookCancelFrees ==
  ASSUME Look!LookTypeOK, Look!LookCancel
  PROVE  Look!LookTypeOK' /\ ~Look!AimHeld' /\ lookState' = "Idle"
BY DEF Look!LookTypeOK, Look!LookCancel, Look!AimHeld, Look!LookStates

\* After release_precise no aim is held.
LEMMA ReleaseFrees ==
  ASSUME Look!LookTypeOK, Look!Release
  PROVE  Look!LookTypeOK' /\ ~Look!AimHeld'
<1>1. CASE suspended = None
  BY <1>1, LookCancelFrees DEF Look!Release
<1>2. CASE suspended # None
  <2>1. lookState' \in {"Looking", "Completed", "Failed"}
    BY <1>2, ResultsAre DEF Look!Release
  <2> QED BY <1>2, <2>1 DEF Look!Release, Look!LookTypeOK, Look!AimHeld, Look!LookStates
<1> QED BY <1>1, <1>2

\* The contract of the navigation keeps a target that is of the search's scope.
LEMMA BeginWalks ==
  ASSUME Walk, NEW s \in SUBSET Targets, Nav!Begin(s)
  PROVE  Walk' /\ scope' = s
BY InteractionAssumption DEF Nav!Begin, Walk, NavPhases, Nav!Pursuing, Nav!Ended

\* Taking the next target keeps the walk's types, within the scope of the search.
LEMMA TakeNextWalks ==
  ASSUME Walk, Nav!TakeNext PROVE Walk' /\ scope' = scope /\ target' \in scope
BY DEF Nav!TakeNext, Walk, NavPhases, Nav!Pursuing, Nav!Ended

\* Giving up keeps the walk's types.
LEMMA GiveUpWalks ==
  ASSUME Walk, Nav!GiveUp PROVE Walk' /\ scope' = scope
BY DEF Nav!GiveUp, Walk, NavPhases, Nav!Pursuing, Nav!Ended

\* Arriving keeps the walk's types and its target.
LEMMA ArriveWalks ==
  ASSUME Walk, Nav!Arrive PROVE Walk' /\ scope' = scope /\ target' = target
BY DEF Nav!Arrive, Walk, NavPhases, Nav!Pursuing, Nav!Ended

\* Dropping a walk keeps its types and leaves no target.
LEMMA DropWalks ==
  ASSUME Walk, Nav!Drop PROVE Walk' /\ target' = None
BY DEF Nav!Drop, Walk, NavPhases, Nav!Pursuing, Nav!Ended

-----------------------------------------------------------------------------
(* The books.                                                               *)

\* retry_or_fail counts a retry and lowers the flag, or ends the operation.
LEMMA RetryOrFailKeepsBooks ==
  ASSUME Books, NEW flag \in BOOLEAN, RetryOrFail(flag),
         op # None, istate \in {"Looking", "Acting"},
         UNCHANGED <<restore, sends>>, late' \in BOOLEAN, probes' \in 0..(MaxProbes - 1)
  PROVE  Books'
<1> USE InteractionAssumption
<1>1. op' \in Operations \cup {None} /\ retries' \in 0..RetryLimit /\ retries <= retries'
  BY DEF RetryOrFail, Exhausted, Books
<1>2. istate' \in {"Failed", "Retrying"} /\ (op' # None <=> istate' = "Retrying")
  BY DEF RetryOrFail, Books
<1>3. BoundedSends'
  <2>1. sends <= retries + 1 /\ sends <= RetryLimit + 1
    BY DEF Books, BoundedSends
  <2>2. istate' = "Retrying" => retries' = retries + 1
    BY DEF RetryOrFail
  <2> QED BY <1>2, <2>1, <2>2 DEF BoundedSends, Books
<1> QED BY <1>1, <1>2, <1>3
        DEF Books, FreshDispatch, InteractionStates, ActiveStates, RetryOrFail

\* An operation that is forgotten leaves nothing to keep books on.
LEMMA ForgetKeepsBooks ==
  ASSUME Books, Forget, restore' \in Blocks \cup {None}, UNCHANGED <<late, sends>>
  PROVE  Books'
BY InteractionAssumption
   DEF Forget, Books, BoundedSends, FreshDispatch, Active, InteractionStates, ActiveStates

\* A command that replaces the operation starts with empty books.
LEMMA ReplaceKeepsBooks ==
  ASSUME Books, NEW o \in Operations, NEW owed \in Blocks \cup {None}, Replace(o, owed)
  PROVE  Books'
<1>1. CASE presence = "joined"
  <2>1. o # None
    BY OperationFields
  <2>2. 0 \in 0..RetryLimit /\ 0 \in 0..(MaxProbes - 1) /\ 0 \in 0..(RetryLimit + 1)
    BY InteractionAssumption
  <2>3. /\ istate' = "Preparing" /\ op' = o /\ dispatched' = FALSE
        /\ retries' = 0 /\ probes' = 0 /\ sends' = 0 /\ restore' = owed
        /\ late' = late
    BY <1>1 DEF Replace
  <2>4. BoundedSends' /\ FreshDispatch'
    BY <2>2, <2>3 DEF BoundedSends, FreshDispatch
  <2> QED BY <2>1, <2>2, <2>3, <2>4 DEF Books, InteractionStates, ActiveStates
<1>2. CASE presence # "joined"
  <2>1. Forget /\ restore' \in Blocks \cup {None} /\ UNCHANGED <<late, sends>>
    BY <1>2 DEF Replace, OwedAfterCancel, Books
  <2> QED BY <2>1, ForgetKeepsBooks
<1> QED BY <1>1, <1>2

\* Where a command or a tick stands still, or only fails or completes.
LEMMA EndKeepsBooks ==
  ASSUME Books, istate' \in {"Failed", "Completed"}, op' = None,
         UNCHANGED <<dispatched, retries, late, sends>>,
         probes' \in 0..(MaxProbes - 1), restore' \in Blocks \cup {None}
  PROVE  Books'
BY DEF Books, BoundedSends, FreshDispatch, InteractionStates, ActiveStates

\* A step that leaves the operation alone keeps its books.
LEMMA SameBooks == ASSUME Books, UNCHANGED opVars PROVE Books'
BY DEF Books, BoundedSends, FreshDispatch, opVars

\* Every branch of the tick keeps the books.
LEMMA TickKeepsBooks == ASSUME Books, World, Tick PROVE Books'
<1> USE InteractionAssumption
<1>1. CASE TickRetry
  BY <1>1 DEF TickRetry, Prepare, Books, BoundedSends, FreshDispatch, InteractionStates,
              ActiveStates
<1>2. CASE TickUnable
  BY <1>2, EndKeepsBooks DEF TickUnable, Fail, Books
<1>3. CASE TickSetOff
  <2>1. CASE Fail
    BY <1>3, <2>1, EndKeepsBooks DEF TickSetOff, Fail, Books, Quiet
  <2>2. CASE Enter("Moving")
    BY <1>3, <2>2 DEF TickSetOff, Enter, Books, Quiet, BoundedSends, FreshDispatch,
                      InteractionStates, ActiveStates
  <2> QED BY <1>3, <2>1, <2>2 DEF TickSetOff
<1>4. CASE TickArrived
  <2>1. CASE Fail
    BY <1>4, <2>1, EndKeepsBooks DEF TickArrived, Fail, Books, Quiet
  <2>2. CASE Prepare
    BY <1>4, <2>2 DEF TickArrived, Prepare, Books, Quiet, BoundedSends, FreshDispatch,
                      InteractionStates, ActiveStates
  <2> QED BY <1>4, <2>1, <2>2 DEF TickArrived
<1>5. CASE TickAim
  <2>1. CASE Fail
    BY <1>5, <2>1, EndKeepsBooks DEF TickAim, Fail, Books, Quiet
  <2>2. CASE Enter("Looking")
    BY <1>5, <2>2 DEF TickAim, Enter, Books, Quiet, BoundedSends, FreshDispatch,
                      InteractionStates, ActiveStates
  <2> QED BY <1>5, <2>1, <2>2 DEF TickAim
<1>6. CASE TickHit
  <2> USE <1>6 DEF TickHit
  <2>1. /\ op # None /\ istate = "Looking" /\ ~dispatched
        /\ UNCHANGED <<probes, restore>> /\ probes' \in 0..(MaxProbes - 1)
    BY DEF Able, Active, Books, FreshDispatch
  <2>2. CASE Dispatch
    <3>1. CASE istate' = "Acting"
      <4>1. /\ dispatched' = TRUE /\ late' = FALSE /\ sends' = sends + 1
            /\ UNCHANGED <<op, retries, probes, restore>>
        BY <2>1, <2>2, <3>1 DEF Dispatch, RetryOrFail
      <4>2. sends <= retries /\ retries \in 0..RetryLimit /\ sends \in 0..(RetryLimit + 1)
        BY <2>1 DEF Books, BoundedSends
      <4>3. sends + 1 \in 0..(RetryLimit + 1) /\ sends + 1 <= retries + 1
        BY <4>2
      <4>4. BoundedSends' /\ FreshDispatch'
        BY <3>1, <4>1, <4>3 DEF BoundedSends, FreshDispatch
      <4> QED BY <2>1, <3>1, <4>1, <4>3, <4>4 DEF Books, InteractionStates, ActiveStates
    <3>2. CASE RetryOrFail(TRUE) /\ late' = FALSE /\ sends' = sends
      BY <2>1, <3>2, RetryOrFailKeepsBooks
    <3> QED BY <2>1, <2>2, <3>1, <3>2 DEF Dispatch
  <2>3. CASE RetryOrFail(dispatched) /\ UNCHANGED <<late, sends>>
    <3>1. dispatched \in BOOLEAN /\ late' \in BOOLEAN
      BY <2>3 DEF Books
    <3> QED BY <2>1, <2>3, <3>1, RetryOrFailKeepsBooks
  <2> QED BY <2>2, <2>3
<1>7. CASE TickMiss
  <2>1. /\ op # None /\ istate = "Looking" /\ dispatched \in BOOLEAN
        /\ RetryOrFail(dispatched) /\ UNCHANGED <<restore, sends>>
        /\ late' \in BOOLEAN /\ probes' \in 0..(MaxProbes - 1)
    BY <1>7 DEF TickMiss, Able, Active, Books, Quiet
  <2> QED BY <2>1, RetryOrFailKeepsBooks
<1>8. CASE TickObstructed
  <2> USE <1>8 DEF TickObstructed
  <2>1. /\ op # None /\ istate = "Looking" /\ dispatched \in BOOLEAN
        /\ UNCHANGED <<restore, late, sends>> /\ late' \in BOOLEAN
    BY DEF Able, Active, Books, Quiet
  <2>2. probes' \in 0..(MaxProbes - 1)
    BY DEF NextProbe, Books
  <2>3. CASE /\ istate' \in {"Preparing", "Moving"}
             /\ UNCHANGED <<op, dispatched, retries>>
    BY <2>1, <2>2, <2>3 DEF Books, BoundedSends, FreshDispatch, InteractionStates, ActiveStates
  <2>4. CASE RetryOrFail(dispatched)
    BY <2>1, <2>2, <2>4, RetryOrFailKeepsBooks
  <2> QED BY <2>3, <2>4
<1>9. CASE TickOverdue
  <2>1. /\ op # None /\ istate = "Acting" /\ dispatched \in BOOLEAN
        /\ RetryOrFail(dispatched) /\ UNCHANGED <<restore, sends>>
        /\ late' \in BOOLEAN /\ probes' \in 0..(MaxProbes - 1)
    BY <1>9 DEF TickOverdue, Waiting, Able, Active, Books, Quiet
  <2> QED BY <2>1, RetryOrFailKeepsBooks
<1>10. CASE TickConfirmed
  BY <1>10, EndKeepsBooks DEF TickConfirmed, Complete, Books, Quiet
<1>11. CASE TickBroken
  <2>1. CASE istate' \in {"Completed", "Failed"} /\ op' = None
             /\ UNCHANGED <<dispatched, retries, probes, late, sends>>
    BY <1>11, <2>1, EndKeepsBooks DEF TickBroken, Books
  <2>2. CASE /\ restore \in Blocks
             /\ \E s \in Placeable(restore) : op' = Operation("place", restore, s)
             /\ istate' = "Preparing" /\ dispatched' = FALSE
             /\ retries' = 0 /\ probes' = 0 /\ sends' = 0
    <3>1. PICK s \in Blocks : op' = Operation("place", restore, s)
      BY <2>2 DEF Placeable
    <3>2. op' \in Operations /\ op' # None
      BY <2>2, <3>1, OperationIs DEF Kinds
    <3>3. 0 \in 0..RetryLimit /\ 0 \in 0..(MaxProbes - 1) /\ 0 \in 0..(RetryLimit + 1)
      OBVIOUS
    <3>4. restore' = None /\ late' = late
      BY <1>11 DEF TickBroken
    <3>5. BoundedSends' /\ FreshDispatch'
      BY <2>2, <3>3 DEF BoundedSends, FreshDispatch
    <3> QED BY <2>2, <3>2, <3>3, <3>4, <3>5 DEF Books, InteractionStates, ActiveStates
  <2>3. restore # None => restore \in Blocks
    BY DEF Books
  <2> QED BY <1>11, <2>1, <2>2, <2>3 DEF TickBroken, Complete, Fail
<1> QED BY <1>1, <1>2, <1>3, <1>4, <1>5, <1>6, <1>7, <1>8, <1>9, <1>10, <1>11 DEF Tick

\* Every command keeps the books.
LEMMA CommandKeepsBooks == ASSUME Books, World, Walk, Command PROVE Books'
<1>1. OwedAfterCancel \in Blocks \cup {None} /\ restore \in Blocks \cup {None}
  BY DEF OwedAfterCancel, Books
<1>2. ASSUME NEW k \in Kinds, NEW b \in Blocks, NEW s \in Blocks,
             NEW o \in Blocks \cup {None}, Replace(Operation(k, b, s), o)
      PROVE  Books'
  BY <1>2, OperationIs, ReplaceKeepsBooks
<1>3. CASE Break
  BY <1>1, <1>2, <1>3 DEF Break, Resume, Kinds
<1>4. CASE Place
  BY <1>1, <1>2, <1>4 DEF Place, Resume, Kinds, Placeable
<1>5. CASE Interact
  BY <1>1, <1>2, <1>5 DEF Interact, Resume, Kinds
<1>6. CASE TestOakLog
  BY <1>2, <1>6 DEF TestOakLog, Resume, Kinds
<1>7. CASE MineBreak
  <2>1. target[1] \in Blocks
    BY <1>7 DEF MineBreak, Walk, Nav!Pursuing, Targets
  <2> QED BY <1>1, <1>2, <1>7, <2>1 DEF MineBreak, Kinds
<1>8. CASE StopInteraction \/ LookCommand
  BY <1>1, <1>8, ForgetKeepsBooks DEF StopInteraction, LookCommand
<1>9. CASE MineSearch \/ MineContinue \/ LookStop \/ StopMovement
  BY <1>9, SameBooks DEF MineSearch, MineContinue, LookStop, StopMovement
<1> QED BY <1>3, <1>4, <1>5, <1>6, <1>7, <1>8, <1>9 DEF Command

\* Every step keeps the books.
LEMMA NextKeepsBooks == ASSUME Books, World, Walk, [Next]_vars PROVE Books'
<1>1. CASE Tick
  BY <1>1, TickKeepsBooks
<1>2. CASE Command
  BY <1>2, CommandKeepsBooks
<1>3. CASE SessionLost
  <2>1. restore' \in Blocks \cup {None}
    BY <1>3 DEF SessionLost, OwedAfterCancel, Books
  <2> QED BY <1>3, <2>1, ForgetKeepsBooks DEF SessionLost
<1>4. CASE Expire
  BY <1>4 DEF Expire, Books, BoundedSends, FreshDispatch
<1>5. CASE Environment /\ ~Expire
  BY <1>5, SameBooks DEF Environment, LookTick, NavTick, CellChanges, ItemsChange, BotMoves,
                         PresenceChanges
<1>6. CASE UNCHANGED vars
  BY <1>6, SameBooks DEF vars
<1> QED BY <1>1, <1>2, <1>3, <1>4, <1>5, <1>6 DEF Next

-----------------------------------------------------------------------------
(* The borrowed components and the world.                                   *)

\* Every step keeps the types of the walk.
LEMMA NextKeepsWalk == ASSUME Books, Walk, World, [Next]_vars PROVE Walk'
<1>1. ASSUME UNCHANGED navVars PROVE Walk'
  BY <1>1 DEF Walk, navVars
<1>2. CASE TickSetOff
  <2>1. Destination \in SUBSET Targets
    BY <1>2 DEF TickSetOff, Able, Active, Books, Destination, Targets, Operations
  <2> QED BY <1>1, <1>2, <2>1, BeginWalks DEF TickSetOff
<1>3. CASE TickObstructed
  BY <1>1, <1>3, TakeNextWalks, GiveUpWalks DEF TickObstructed
<1>4. CASE Tick /\ ~TickSetOff /\ ~TickObstructed
  BY <1>1, <1>4 DEF Tick, TickRetry, TickUnable, TickArrived, TickAim, TickHit, TickMiss,
                    TickOverdue, TickConfirmed, TickBroken
<1>5. CASE Command
  <2>1. Targets \in SUBSET Targets
    OBVIOUS
  <2> QED BY <1>1, <1>5, <2>1, BeginWalks, TakeNextWalks, DropWalks
          DEF Command, Break, Place, Interact, TestOakLog, Resume, MineSearch, MineContinue,
              MineBreak, StopInteraction, ReleaseControls, LookCommand, LookStop, StopMovement
<1>6. CASE SessionLost
  BY <1>6, DropWalks DEF SessionLost
<1>7. CASE Environment
  BY <1>1, <1>7, ArriveWalks, TakeNextWalks, GiveUpWalks, DropWalks
     DEF Environment, LookTick, NavTick, Expire, CellChanges, ItemsChange, BotMoves,
         PresenceChanges
<1>8. CASE UNCHANGED vars
  BY <1>1, <1>8 DEF vars
<1> QED BY <1>2, <1>3, <1>4, <1>5, <1>6, <1>7, <1>8 DEF Next

\* Every step keeps the types of the look.
LEMMA NextKeepsLook ==
  ASSUME Books, Look!LookTypeOK, [Next]_vars PROVE Look!LookTypeOK'
<1>1. ASSUME UNCHANGED lookVars PROVE Look!LookTypeOK'
  BY <1>1 DEF Look!LookTypeOK, lookVars
<1>2. CASE TickAim
  <2>1. op.support \in Blocks
    BY <1>2 DEF TickAim, Able, Active, Books, Operations
  <2> QED BY <1>2, <2>1 DEF TickAim, Look!LookAt, Look!LookTypeOK
<1>3. CASE TickConfirmed \/ TickBroken
  BY <1>3, ReleaseFrees DEF TickConfirmed, TickBroken
<1>4. CASE Tick /\ ~TickAim /\ ~TickConfirmed /\ ~TickBroken
  BY <1>1, <1>4 DEF Tick, TickRetry, TickUnable, TickSetOff, TickArrived, TickHit, TickMiss,
                    TickObstructed, TickOverdue
<1>5. CASE LookCommand
  <2>1. lookState' \in {"Looking", "Completed", "Failed"}
    BY <1>5, ResultsAre DEF LookCommand
  <2> QED BY <1>5, <2>1 DEF LookCommand, Look!LookTypeOK, Look!LookStates
<1>6. CASE Command /\ ~LookCommand
  BY <1>1, <1>6, ReleaseFrees, LookCancelFrees
     DEF Command, Break, Place, Interact, TestOakLog, Resume, MineSearch, MineContinue,
         MineBreak, StopInteraction, ReleaseControls, LookStop, StopMovement
<1>7. CASE SessionLost
  BY <1>7, LookCancelFrees DEF SessionLost
<1>8. CASE LookTick
  <2>1. lookState' \in {"Looking", "Completed", "Failed"}
    BY <1>8, ResultsAre DEF LookTick, Look!LookTick
  <2> QED BY <1>8, <2>1 DEF LookTick, Look!LookTick, Look!LookTypeOK, Look!LookStates
<1>9. CASE Environment /\ ~LookTick
  BY <1>1, <1>9 DEF Environment, NavTick, Expire, CellChanges, ItemsChange, BotMoves,
                    PresenceChanges
<1>10. CASE UNCHANGED vars
  BY <1>1, <1>10 DEF vars
<1> QED BY <1>2, <1>3, <1>4, <1>5, <1>6, <1>7, <1>8, <1>9, <1>10 DEF Next

\* Every step keeps the types of what surrounds the controller.
LEMMA NextKeepsWorld == ASSUME Books, World, [Next]_vars PROVE World'
<1>1. ASSUME mining' \in {mining, None} \cup Blocks,
             UNCHANGED <<cell, items, inReach, presence>>
      PROVE  World'
  BY <1>1 DEF World
<1>2. ASSUME NEW o, NEW owed, Replace(o, owed), Untouched PROVE World'
  BY <1>1, <1>2 DEF Replace, Untouched
<1>3. CASE TickHit
  <2>1. op.block \in Blocks
    BY <1>3 DEF TickHit, Able, Active, Books, Operations
  <2> QED BY <1>1, <1>3, <2>1 DEF TickHit, Dispatch
<1>4. CASE Tick /\ ~TickHit
  BY <1>1, <1>4 DEF Tick, TickRetry, TickUnable, TickSetOff, TickArrived, TickAim, TickMiss,
                    TickObstructed, TickOverdue, TickConfirmed, TickBroken, worldVars
<1>5. CASE Break \/ Place \/ Interact \/ TestOakLog \/ MineBreak
  BY <1>2, <1>5 DEF Break, Place, Interact, TestOakLog, Resume, MineBreak
<1>6. CASE MineSearch \/ MineContinue \/ StopInteraction \/ LookCommand \/ LookStop
             \/ StopMovement
  BY <1>1, <1>6 DEF MineSearch, MineContinue, StopInteraction, ReleaseControls, LookCommand,
                    LookStop, StopMovement, worldVars, Untouched
<1>7. CASE SessionLost
  BY <1>1, <1>7 DEF SessionLost, Untouched
<1>8. CASE LookTick \/ NavTick \/ Expire
  BY <1>1, <1>8 DEF LookTick, NavTick, Expire, worldVars
<1>9. CASE CellChanges
  <2>1. PICK b \in Blocks, c \in Appearing : cell' = [cell EXCEPT ![b] = c]
    BY <1>9 DEF CellChanges
  <2>2. cell' \in [Blocks -> Contents]
    BY <2>1, InteractionAssumption DEF World, Contents, Solid
  <2> QED BY <1>9, <2>2 DEF CellChanges, World
<1>10. CASE ItemsChange \/ BotMoves \/ PresenceChanges
  BY <1>10 DEF ItemsChange, BotMoves, PresenceChanges, World
<1>11. CASE UNCHANGED vars
  BY <1>1, <1>11 DEF vars, worldVars
<1> QED BY <1>3, <1>4, <1>5, <1>6, <1>7, <1>8, <1>9, <1>10, <1>11
        DEF Next, Command, Environment

-----------------------------------------------------------------------------
(* The camera and what an ended operation leaves behind.                    *)

\* Every step keeps the camera on the operation's own block.
LEMMA NextKeepsAim ==
  ASSUME Books, AimIsOwn, [Next]_vars PROVE AimIsOwn'
<1>1. ASSUME istate' \notin {"Looking", "Acting"} PROVE AimIsOwn'
  BY <1>1 DEF AimIsOwn
<1>2. ASSUME lookState' \notin {"Looking", "Completed"} PROVE AimIsOwn'
  BY <1>2 DEF AimIsOwn
<1>3. ASSUME UNCHANGED lookVars, istate \in {"Looking", "Acting"}, UNCHANGED op
      PROVE  AimIsOwn'
  BY <1>3 DEF AimIsOwn, lookVars
<1>4. ASSUME UNCHANGED <<istate, op, lookVars>> PROVE AimIsOwn'
  BY <1>4 DEF AimIsOwn, lookVars
<1>5. ASSUME Forget PROVE AimIsOwn'
  BY <1>1, <1>5 DEF Forget, Active, Books, ActiveStates
<1>6. ASSUME NEW o, NEW owed, Replace(o, owed) PROVE AimIsOwn'
  BY <1>1, <1>5, <1>6 DEF Replace
<1>7. CASE TickAim
  <2>1. Look!LookAt(op.support, "Precise", lookState')
    BY <1>7 DEF TickAim, Look!LookAt
  <2>2. lookTarget' = op.support /\ precision' = "Precise"
    BY <2>1 DEF Look!LookAt
  <2> QED BY <1>7, <2>2 DEF TickAim, Enter, Fail, AimIsOwn
<1>8. CASE TickHit
  <2>1. istate = "Looking" /\ UNCHANGED lookVars
    BY <1>8 DEF TickHit
  <2>2. istate' \notin {"Looking", "Acting"} \/ UNCHANGED op
    BY <1>8 DEF TickHit, Dispatch, RetryOrFail
  <2> QED BY <1>1, <1>3, <2>1, <2>2
<1>9. CASE Tick /\ ~TickAim /\ ~TickHit
  BY <1>1, <1>9 DEF Tick, TickRetry, TickUnable, TickSetOff, TickArrived, TickMiss,
       TickObstructed, TickOverdue, TickConfirmed, TickBroken, Prepare, Fail, Complete, Enter,
       RetryOrFail
<1>10. CASE Break \/ Place \/ Interact \/ TestOakLog \/ MineBreak
  BY <1>6, <1>10 DEF Break, Place, Interact, TestOakLog, Resume, MineBreak
<1>11. CASE StopInteraction \/ LookCommand \/ SessionLost
  BY <1>5, <1>11 DEF StopInteraction, LookCommand, SessionLost
<1>12. CASE MineSearch \/ MineContinue
  BY <1>4, <1>12 DEF MineSearch, MineContinue, opVars
<1>13. CASE LookStop \/ StopMovement
  <2>1. CASE Look!LookCancel
    BY <1>2, <2>1 DEF Look!LookCancel
  <2> QED BY <1>4, <1>13, <2>1 DEF LookStop, StopMovement, opVars
<1>14. CASE LookTick
  BY <1>14 DEF LookTick, Look!LookTick, opVars, AimIsOwn
<1>15. CASE Environment /\ ~LookTick
  BY <1>4, <1>15 DEF Environment, NavTick, Expire, CellChanges, ItemsChange, BotMoves,
                     PresenceChanges, opVars
<1>16. CASE UNCHANGED vars
  BY <1>4, <1>16 DEF vars, opVars
<1> QED BY <1>7, <1>8, <1>9, <1>10, <1>11, <1>12, <1>13, <1>14, <1>15, <1>16
        DEF Next, Command

\* Every step keeps an ended operation from holding anything.
LEMMA NextKeepsQuiet ==
  ASSUME Books, World, Look!LookTypeOK, QuietAfterwards, [Next]_vars PROVE QuietAfterwards'
<1>1. ASSUME istate' \notin {"Completed", "Cancelled"} PROVE QuietAfterwards'
  BY <1>1 DEF QuietAfterwards
<1>2. ASSUME UNCHANGED <<istate, restore>>, mining' \in {mining, None},
             Look!AimHeld' => Look!AimHeld
      PROVE  QuietAfterwards'
  BY <1>2 DEF QuietAfterwards
<1>3. ASSUME UNCHANGED lookVars PROVE Look!AimHeld' <=> Look!AimHeld
  BY <1>3 DEF Look!AimHeld, lookVars
<1>4. ASSUME Forget, restore' = OwedAfterCancel,
             Active => mining' = None /\ ~Look!AimHeld',
             ~Active => mining' \in {mining, None} /\ (Look!AimHeld' => Look!AimHeld)
      PROVE  QuietAfterwards'
  BY <1>4 DEF Forget, OwedAfterCancel, QuietAfterwards, Active, ActiveStates
<1>5. ASSUME NEW o, NEW owed, Replace(o, owed),
             IF Active THEN Look!Release ELSE UNCHANGED lookVars
      PROVE  QuietAfterwards'
  <2>1. mining' = IF Active THEN None ELSE mining
    BY <1>5 DEF Replace
  <2> QED BY <1>1, <1>3, <1>4, <1>5, <2>1, ReleaseFrees DEF Replace
<1>6. CASE TickConfirmed \/ TickBroken
  <2>1. ~Look!AimHeld'
    BY <1>6, ReleaseFrees DEF TickConfirmed, TickBroken
  <2>2. istate' # "Cancelled"
    BY <1>6 DEF TickConfirmed, TickBroken, Complete, Fail
  <2> QED BY <2>1, <2>2 DEF QuietAfterwards
<1>7. CASE Tick /\ ~TickConfirmed /\ ~TickBroken
  BY <1>1, <1>7 DEF Tick, TickRetry, TickUnable, TickSetOff, TickArrived, TickAim, TickHit,
       TickMiss, TickObstructed, TickOverdue, Prepare, Fail, Enter, RetryOrFail, Dispatch
<1>8. CASE Break \/ Place \/ Interact \/ TestOakLog
  BY <1>5, <1>8 DEF Break, Place, Interact, TestOakLog, Resume
<1>9. CASE MineBreak
  BY <1>5, <1>9 DEF MineBreak
<1>10. CASE StopInteraction
  BY <1>4, <1>10, ReleaseFrees DEF StopInteraction, ReleaseControls
<1>11. CASE LookCommand
  <2>1. ~Look!AimHeld'
    BY <1>11 DEF LookCommand, Look!AimHeld
  <2> QED BY <1>4, <1>11, <2>1 DEF LookCommand
<1>12. CASE SessionLost
  <2>1. ~Look!AimHeld'
    BY <1>12, LookCancelFrees DEF SessionLost
  <2> QED BY <1>4, <1>12, <2>1 DEF SessionLost
<1>13. CASE MineSearch \/ MineContinue
  BY <1>2, <1>3, <1>13 DEF MineSearch, MineContinue, opVars, worldVars
<1>14. CASE LookStop \/ StopMovement
  BY <1>2, <1>3, <1>14, LookCancelFrees DEF LookStop, StopMovement, opVars, worldVars
<1>15. CASE LookTick
  BY <1>2, <1>15 DEF LookTick, Look!LookTick, Look!AimHeld, opVars, worldVars
<1>16. CASE Environment /\ ~LookTick
  BY <1>2, <1>3, <1>16 DEF Environment, NavTick, Expire, CellChanges, ItemsChange, BotMoves,
                           PresenceChanges, opVars, worldVars
<1>17. CASE UNCHANGED vars
  BY <1>2, <1>3, <1>17 DEF vars, opVars, worldVars
<1> QED BY <1>6, <1>7, <1>8, <1>9, <1>10, <1>11, <1>12, <1>13, <1>14, <1>15, <1>16, <1>17
        DEF Next, Command

-----------------------------------------------------------------------------
(* The invariant.                                                           *)

\* The idle controller satisfies the invariant.
LEMMA InitInv == Init => Inv
<1> SUFFICES ASSUME Init PROVE Inv
  OBVIOUS
<1> USE InteractionAssumption DEF Init
<1>1. Books
  <2>1. 0 \in 0..RetryLimit /\ 0 \in 0..(MaxProbes - 1) /\ 0 \in 0..(RetryLimit + 1)
    OBVIOUS
  <2>2. BoundedSends /\ FreshDispatch
    BY <2>1 DEF BoundedSends, FreshDispatch
  <2> QED BY <2>1, <2>2 DEF Books, InteractionStates, ActiveStates
<1>2. Walk
  BY DEF Nav!Init, Walk, NavPhases, Nav!Pursuing
<1>3. Look!LookTypeOK
  BY DEF Look!LookInit, Look!LookTypeOK, Look!LookStates
<1>4. World
  BY DEF World, Contents, Solid
<1>5. AimIsOwn /\ QuietAfterwards
  BY DEF AimIsOwn, QuietAfterwards
<1> QED BY <1>1, <1>2, <1>3, <1>4, <1>5 DEF Inv

\* Every step keeps the invariant.
LEMMA NextInv == Inv /\ [Next]_vars => Inv'
BY NextKeepsBooks, NextKeepsWalk, NextKeepsLook, NextKeepsWorld, NextKeepsAim, NextKeepsQuiet
   DEF Inv

\* The invariant always holds.
LEMMA AlwaysInv == Spec => []Inv
BY InitInv, NextInv, PTL DEF Spec

\* The controller's variables stay in their ranges: the retries within the
\* configured limit, the probes within the faces and hit points, and the
\* packets of an operation within one more than its retries.
THEOREM TypesHold == Spec => []TypeOK
<1>1. Inv => TypeOK
  BY DEF Inv, Books, World, TypeOK
<1> QED BY <1>1, AlwaysInv, PTL

\* retry_limit bounds the packets sent for one operation, however often the
\* raycast recovery or the navigation starts the operation over in between.
THEOREM SendsAreBounded == Spec => []BoundedSends
<1>1. Inv => BoundedSends
  BY DEF Inv, Books
<1> QED BY <1>1, AlwaysInv, PTL

\* dispatch never finds its flag still up: every way back to aiming has lowered
\* it, so no operation stays looking at its block without a packet.
THEOREM DispatchIsFresh == Spec => []FreshDispatch
<1>1. Inv => FreshDispatch
  BY DEF Inv, Books
<1> QED BY <1>1, AlwaysInv, PTL

\* While an operation looks or acts, a camera that is in use is on its block.
THEOREM CameraIsOwn == Spec => []AimIsOwn
<1>1. Inv => AimIsOwn
  BY DEF Inv
<1> QED BY <1>1, AlwaysInv, PTL

\* A completed or cancelled operation holds no camera, and a cancelled one
\* neither the pickaxe nor the log it owed.
THEOREM EndsQuietly == Spec => []QuietAfterwards
<1>1. Inv => QuietAfterwards
  BY DEF Inv
<1> QED BY <1>1, AlwaysInv, PTL

-----------------------------------------------------------------------------
(* Where an operation walks.                                                *)

\* Without /mine every step keeps the walk within the operation's own blocks.
LEMMA NextKeepsOwnWalk ==
  ASSUME "mine" \notin Commands, Inv, OwnWalk, [Next]_vars
  PROVE  OwnWalk'
<1> USE DEF Inv
<1>1. ASSUME op' = None \/ target' = None PROVE OwnWalk'
  BY <1>1 DEF OwnWalk
<1>2. ASSUME UNCHANGED <<op, target, scope>>, istate' = "Moving" => istate = "Moving"
      PROVE  OwnWalk'
  BY <1>2 DEF OwnWalk
<1>3. ASSUME NEW o, NEW owed, Resume(o, owed) PROVE OwnWalk'
  BY <1>1, <1>3, DropWalks DEF Resume
<1>4. CASE TickSetOff
  <2>1. CASE Fail
    BY <1>1, <2>1 DEF Fail
  <2>2. CASE Nav!Begin(Destination) /\ Enter("Moving")
    <3>1. op' = op /\ scope' = Destination /\ Destination = {op'.support} \X Approaches
      BY <2>2 DEF Enter, Nav!Begin, Destination
    <3>2. target' = None \/ target' \in scope'
      BY <2>2 DEF Nav!Begin
    <3> QED BY <3>1, <3>2 DEF OwnWalk
  <2> QED BY <1>4, <2>1, <2>2 DEF TickSetOff
<1>5. CASE TickObstructed
  <2>1. op # None /\ op.kind = "break"
    BY <1>5 DEF TickObstructed, Able, Active
  <2>2. CASE UNCHANGED op
    <3>1. CASE UNCHANGED navVars
      BY <2>1, <2>2, <3>1 DEF OwnWalk, navVars
    <3>2. CASE target # None /\ Nav!TakeNext
      BY <2>1, <2>2, <3>2, TakeNextWalks DEF OwnWalk
    <3>3. CASE target # None /\ Nav!GiveUp /\ target' = target
      BY <2>1, <2>2, <3>3, GiveUpWalks DEF OwnWalk
    <3> QED BY <1>5, <3>1, <3>2, <3>3 DEF TickObstructed
  <2> QED BY <1>1, <1>5, <2>2 DEF TickObstructed, RetryOrFail
<1>6. CASE TickBroken
  <2>1. op' = None \/ (istate' = "Preparing" /\ op'.kind = "place")
    BY <1>6 DEF TickBroken, Complete, Fail, Operation
  <2> QED BY <2>1 DEF OwnWalk
<1>7. CASE Tick /\ ~TickSetOff /\ ~TickObstructed /\ ~TickBroken
  <2>1. UNCHANGED navVars /\ (op' = None \/ UNCHANGED op) /\ istate' # "Moving"
    BY <1>7 DEF Tick, TickRetry, TickUnable, TickArrived, TickAim, TickHit, TickMiss,
         TickOverdue, TickConfirmed, Prepare, Fail, Complete, Enter, RetryOrFail, Dispatch
  <2> QED BY <1>1, <1>2, <2>1 DEF navVars
<1>8. CASE Break \/ Place \/ Interact \/ TestOakLog
  BY <1>3, <1>8 DEF Break, Place, Interact, TestOakLog
<1>9. CASE StopInteraction \/ LookCommand \/ SessionLost
  BY <1>1, <1>9 DEF StopInteraction, LookCommand, SessionLost, Forget, Active, Books
<1>10. CASE LookStop
  BY <1>2, <1>10 DEF LookStop, opVars, navVars
<1>11. CASE StopMovement
  BY <1>1, <1>11, DropWalks DEF StopMovement
<1>12. CASE NavTick
  <2>1. UNCHANGED <<op, istate>>
    BY <1>12 DEF NavTick, opVars
  <2>2. CASE Nav!Arrive
    BY <1>2, <2>1, <2>2, ArriveWalks
  <2>3. CASE Nav!TakeNext
    <3>1. scope' = scope /\ target' \in scope
      BY <2>3, TakeNextWalks
    <3>2. phase \in Nav!Pursuing /\ target # None
      BY <1>12, InteractionAssumption DEF NavTick, Walk, Nav!Pursuing, Targets, Approaches
    <3> QED BY <2>1, <3>1, <3>2 DEF OwnWalk
  <2>4. CASE Nav!GiveUp /\ target' = target
    BY <1>2, <2>1, <2>4, GiveUpWalks
  <2>5. CASE Nav!Drop
    BY <1>1, <2>5, DropWalks
  <2> QED BY <1>12, <2>2, <2>3, <2>4, <2>5 DEF NavTick
<1>13. CASE Environment /\ ~NavTick
  BY <1>2, <1>13 DEF Environment, LookTick, Expire, CellChanges, ItemsChange, BotMoves,
                     PresenceChanges, opVars, navVars
<1>14. CASE UNCHANGED vars
  BY <1>2, <1>14 DEF vars, opVars, navVars
<1> QED BY <1>4, <1>5, <1>6, <1>7, <1>8, <1>9, <1>10, <1>11, <1>12, <1>13, <1>14
        DEF Next, Command, MineSearch, MineContinue, MineBreak

\* An operation that set out by itself walks to its own block, whichever of the
\* approaches the navigation falls back over.  Without /mine: that loop hands
\* its own search over every block to the operation, and when the raycast is
\* obstructed the recovery takes that search's next approach, of any block.
THEOREM WalksHome ==
  ASSUME "mine" \notin Commands
  PROVE  Spec => []WalksToOwn
<1>1. Init => OwnWalk
  BY DEF Init, OwnWalk
<1>2. Inv /\ OwnWalk /\ [Next]_vars => OwnWalk'
  BY NextKeepsOwnWalk
<1>3. Inv /\ OwnWalk => WalksToOwn
  <2> SUFFICES ASSUME Inv, OwnWalk, istate = "Moving", phase \in Nav!Pursuing
               PROVE  target[1] = op.support
    BY DEF WalksToOwn
  <2>1. op # None /\ target \in scope
    BY DEF Inv, Books, Walk, ActiveStates
  <2>2. target # None
    BY <2>1, InteractionAssumption DEF Inv, Walk, Targets, Approaches
  <2>3. target \in {op.support} \X Approaches
    BY <2>1, <2>2 DEF OwnWalk
  <2> QED BY <2>3
<1> QED BY <1>1, <1>2, <1>3, AlwaysInv, PTL DEF Spec

=============================================================================
