------------------------------ MODULE Container ------------------------------
(***************************************************************************)
(* ContainerService and ContainerMachine (container/service.rs,             *)
(* container/state_machine.rs): walk to a chest, look at it, use it, take   *)
(* the menu the server opens, and carry items with pickup clicks that the   *)
(* server confirms by a new revision.                                       *)
(*                                                                         *)
(* Console commands and the 50 ms tick run on one task, so a command or a   *)
(* tick is one action.  Between them the server opens, closes and changes   *)
(* windows, and the navigation, the camera and the connection change under  *)
(* other hands.                                                             *)
(*                                                                         *)
(* A tick within click_delay of the last click does nothing and is left     *)
(* out; deadlines are whether they have passed.                             *)
(***************************************************************************)
EXTENDS TransferPlan

CONSTANTS
  Chests,          \* positions with a chest
  Fillings,        \* menus the server may show
  Counts,          \* amounts the operator asks for
  MaxWindows,      \* bound on the windows the server opens
  MaxRevision,     \* bound on the revisions of a window
  MaxAsked,        \* bound on the transfers begun in a window
  None

ASSUME ContainerAssumption ==
  /\ Fillings \subseteq Menus
  /\ Counts \subseteq Nat
  /\ MaxWindows \in Nat /\ MaxRevision \in Nat /\ MaxAsked \in Nat
  /\ None \notin Chests \cup Nat

VARIABLES
  phase, owned, target, outcome,
  window,            \* status.window_id
  expectedRevision,
  requested, transferred,
  transfer,          \* clicks to come, planned, baseline and direction
  plannedFor,        \* history: the window those clicks were planned for
  undisturbed,       \* history: planned with an empty cursor, only clicks since
  overdue,           \* now > deadline
  nav, look,         \* states of the navigation and of the camera
  presence,          \* joined, dead, or disconnected
  open,              \* the server's window: id, kind and revision, id 0 for none
  opened,            \* windows the server has opened so far
  menu, cursor,
  asked              \* transfers begun since the window opened

machineVars == <<phase, owned, target, outcome, window, expectedRevision,
                 requested, transferred>>
transferVars == <<transfer, plannedFor, undisturbed>>
othersVars == <<nav, look, presence>>
windowVars == <<open, opened, menu, cursor, asked>>
vars == <<machineVars, transferVars, overdue, othersVars, windowVars>>

Terminal == {"Idle", "Completed", "Failed", "Cancelled"}
Preparing == {"Navigating", "Aligning", "AwaitingMenu"}
Phases == Terminal \cup Preparing \cup {"Open", "Transferring"}
\* What the session tells apart of the navigation's and the camera's states.
Answers == {"Pending", "Done", "Failed"}

NoWindow == [id |-> 0, kind |-> "none", revision |-> 0]
\* chest_menu_snapshot.  (Mutant: no menu passes for one.)
ChestOrNothing == open.kind # "other"
ChestOpen == open.kind = "chest"
Bare == [s \in Slots |-> 0]

\* The fields of a transfer are read in Transferring only, which begins by setting
\* them all; a transfer that is over is forgotten.
NoTransfer == [clicks |-> <<>>, planned |-> 0, baseline |-> 0, direction |-> "take"]
TransferOver == transfer' = NoTransfer /\ plannedFor' = None /\ undisturbed' = FALSE

\* (Mutant: a failed session keeps the inventory.)
StillOwned == owned
OwnedAfterFailure == FALSE

\* fail of the machine and of the service; the window stays open.
Fail(o) ==
  /\ phase' = "Failed" /\ outcome' = o /\ owned' = OwnedAfterFailure
  /\ TransferOver
  /\ UNCHANGED <<target, window, expectedRevision, requested, transferred>>

Advance(p) ==
  /\ phase' = p
  /\ UNCHANGED <<owned, target, outcome, window, expectedRevision, requested,
                 transferred>>

-----------------------------------------------------------------------------
(* Commands.                                                                *)

\* open, where the block is no chest: whatever session is under way fails.
OpenElsewhere ==
  /\ presence # "gone"
  /\ Fail("TargetNotFound")
  /\ UNCHANGED <<overdue, othersVars, windowVars>>

\* open: expectedRevision is that of the session before.
OpenChest ==
  /\ presence # "gone" /\ ~owned
  /\ target' \in Chests
  /\ phase' = "Navigating" /\ owned' = TRUE /\ outcome' = None
  /\ window' = None /\ requested' = 0 /\ transferred' = 0
  /\ overdue' = FALSE
  /\ nav' \in Answers
  /\ UNCHANGED <<expectedRevision, transferVars, look, presence, windowVars>>

\* begin_transfer's check.
PlanCurrent == window = open.id /\ expectedRevision = open.revision

\* transfer, in any phase: only the menu must be a chest's.
TransferRefused(dir, count) ==
  /\ PlanError(menu, dir, count) # "none"
  /\ Fail(PlanError(menu, dir, count))
  /\ UNCHANGED overdue

TransferStale(dir, count) ==
  /\ PlanError(menu, dir, count) = "none" /\ ~PlanCurrent
  /\ Fail("InventoryConflict")
  /\ UNCHANGED overdue

TransferBegun(dir, count) ==
  /\ PlanError(menu, dir, count) = "none" /\ PlanCurrent
  /\ phase' = "Transferring" /\ requested' = count
  /\ UNCHANGED <<owned, target, outcome, window, expectedRevision, transferred>>
  /\ transfer' =
       [clicks |-> PlanClicks(menu, dir, count), planned |-> Feasible(menu, dir, count),
        baseline |-> Available(menu, dir), direction |-> dir]
  /\ plannedFor' = open.id /\ undisturbed' = (cursor = 0)
  /\ overdue' = FALSE

Transfer ==
  /\ presence # "gone" /\ ChestOpen
  /\ asked < MaxAsked /\ asked' = asked + 1
  /\ \E dir \in Directions, count \in Counts :
       \/ TransferRefused(dir, count)
       \/ TransferStale(dir, count)
       \/ TransferBegun(dir, count)
  /\ UNCHANGED <<othersVars, open, opened, menu, cursor>>

\* The client closes the window; what is on the cursor goes back.
WindowCloses ==
  open' = NoWindow /\ menu' = Bare /\ cursor' = 0 /\ asked' = 0 /\ UNCHANGED opened

Close ==
  /\ phase' = "Completed" /\ owned' = FALSE
  /\ UNCHANGED <<target, outcome, window, expectedRevision, requested, transferred>>
  /\ TransferOver
  /\ WindowCloses
  /\ UNCHANGED <<overdue, othersVars>>

\* cancel: the emergency stop and the shutdown.
Cancel ==
  /\ phase' = "Cancelled" /\ owned' = FALSE /\ outcome' = "Cancelled"
  /\ UNCHANGED <<target, window, expectedRevision, requested, transferred>>
  /\ TransferOver
  /\ nav' = "Pending" /\ look' = "Pending"
  /\ WindowCloses
  /\ UNCHANGED <<overdue, presence>>

Command == OpenElsewhere \/ OpenChest \/ Transfer \/ Close \/ Cancel

-----------------------------------------------------------------------------
(* tick                                                                     *)

Ending ==
  IF presence = "gone" THEN "Disconnected"
  ELSE IF presence = "dead" THEN "Died"
  ELSE IF overdue THEN "TimedOut"
  ELSE "none"

TickEnds ==
  /\ Ending # "none"
  /\ Fail(Ending)
  /\ UNCHANGED <<overdue, othersVars, windowVars>>

TickNavigating ==
  /\ phase = "Navigating"
  /\ \/ /\ nav = "Done"
        /\ Advance("Aligning")
        /\ look' \in Answers
        /\ UNCHANGED transferVars
     \/ /\ nav = "Failed"
        /\ Fail("TargetUnreachable")
        /\ UNCHANGED look
  /\ UNCHANGED <<overdue, nav, presence, windowVars>>

\* interact_block fails only if the client has just gone.
TickAligning ==
  /\ phase = "Aligning"
  /\ \/ look = "Done" /\ Advance("AwaitingMenu") /\ UNCHANGED transferVars
     \/ look = "Done" /\ Fail("BlockedOrRemoved")
     \/ look = "Failed" /\ Fail("TargetUnreachable")
  /\ UNCHANGED <<overdue, othersVars, windowVars>>

TickAwaitingMenu ==
  /\ phase = "AwaitingMenu"
  /\ \/ /\ ChestOpen
        /\ phase' = "Open" /\ outcome' = "Opened"
        /\ window' = open.id /\ expectedRevision' = open.revision
        /\ overdue' = FALSE
        /\ UNCHANGED <<owned, target, requested, transferred, transferVars>>
     \/ /\ open.kind = "other"
        /\ Fail("WrongMenu")
        /\ UNCHANGED overdue
  /\ UNCHANGED <<othersVars, windowVars>>

TickOpen ==
  /\ phase = "Open" /\ ~ChestOpen
  /\ Fail("ContainerClosedUnexpectedly")
  /\ UNCHANGED <<overdue, othersVars, windowVars>>

\* container_click's check of the window.  (Mutant: any window will do.)
AnyWindow == open.id # 0
SameWindow == open.id = window

\* It also refuses while the bot eats.
TickClickFails ==
  /\ transfer.clicks # <<>>
  /\ Fail("InventoryConflict")
  /\ UNCHANGED <<overdue, othersVars, windowVars>>

TickClick ==
  /\ transfer.clicks # <<>> /\ SameWindow
  /\ transfer' = [transfer EXCEPT !.clicks = Tail(@)]
  /\ LET after == Clicked(menu, cursor, Head(transfer.clicks))
     IN menu' = after.menu /\ cursor' = after.cursor
  /\ UNCHANGED <<machineVars, plannedFor, undisturbed, overdue, othersVars, open,
                 opened, asked>>

\* What the server's new revision shows to have left the sources.
Actual ==
  Min({Max({transfer.baseline - Available(menu, transfer.direction), 0}),
       transfer.planned})

ConfirmError ==
  IF window # open.id THEN "ContainerClosedUnexpectedly"
  ELSE IF Actual = 0 THEN "ServerRejected"
  ELSE "none"

TickConfirm ==
  /\ transfer.clicks = <<>> /\ ChestOpen
  /\ expectedRevision # open.revision
  /\ \/ /\ ConfirmError # "none"
        /\ Fail(ConfirmError)
     \/ /\ ConfirmError = "none"
        /\ phase' = "Open"
        /\ expectedRevision' = open.revision
        /\ transferred' = transferred + Actual
        /\ outcome' = IF transferred' < requested THEN "TransferPartial"
                                                  ELSE "TransferCompleted"
        /\ TransferOver
        /\ UNCHANGED <<owned, target, window, requested>>
  /\ UNCHANGED <<overdue, othersVars, windowVars>>

TickTransferring ==
  phase = "Transferring" /\ (TickClickFails \/ TickClick \/ TickConfirm)

TickPhase == TickNavigating \/ TickAligning \/ TickAwaitingMenu \/ TickOpen
               \/ TickTransferring

Tick ==
  /\ phase \notin Terminal
  /\ TickEnds \/ (Ending = "none" /\ TickPhase)

-----------------------------------------------------------------------------
(* What the service does not control.                                       *)

\* A window, perhaps of an interaction that is long over.
ServerOpens ==
  /\ presence = "joined" /\ opened < MaxWindows
  /\ opened' = opened + 1
  /\ \E kind \in {"chest", "other"} :
       open' = [id |-> opened + 1, kind |-> kind, revision |-> 0]
  /\ menu' \in (IF open'.kind = "chest" THEN Fillings ELSE {Bare})
  /\ cursor' = 0 /\ asked' = 0
  /\ undisturbed' = FALSE /\ UNCHANGED <<transfer, plannedFor>>
  /\ UNCHANGED <<machineVars, overdue, othersVars>>

ServerCloses ==
  /\ open.id # 0
  /\ WindowCloses
  /\ undisturbed' = FALSE /\ UNCHANGED <<transfer, plannedFor>>
  /\ UNCHANGED <<machineVars, overdue, othersVars>>

\* The server acknowledges what it was sent.
ServerAcknowledges ==
  /\ ChestOpen /\ open.revision < MaxRevision
  /\ open' = [open EXCEPT !.revision = @ + 1]
  /\ UNCHANGED <<machineVars, transferVars, overdue, othersVars, opened, menu,
                 cursor, asked>>

\* Another player, or a correction, changes what is in the chest.
ServerChangesMenu ==
  /\ ChestOpen /\ open.revision < MaxRevision
  /\ open' = [open EXCEPT !.revision = @ + 1]
  /\ menu' \in Fillings \ {menu}
  /\ undisturbed' = FALSE /\ UNCHANGED <<transfer, plannedFor>>
  /\ UNCHANGED <<machineVars, overdue, othersVars, opened, cursor, asked>>

\* The navigation and the camera, by themselves or by another command; they are
\* followed while the session reads them.
OthersMove ==
  /\ \/ phase = "Navigating" /\ nav' \in Answers \ {nav} /\ UNCHANGED look
     \/ phase = "Aligning" /\ look' \in Answers \ {look} /\ UNCHANGED nav
  /\ UNCHANGED <<machineVars, transferVars, overdue, presence, windowVars>>

PresenceChanges ==
  /\ presence' \in {"joined", "dead", "gone"} \ {presence}
  /\ IF presence' = "gone"
       THEN WindowCloses /\ undisturbed' = FALSE /\ UNCHANGED <<transfer, plannedFor>>
       ELSE UNCHANGED <<windowVars, transferVars>>
  /\ UNCHANGED <<machineVars, overdue, nav, look>>

Expire ==
  /\ phase \notin Terminal /\ ~overdue
  /\ overdue' = TRUE
  /\ UNCHANGED <<machineVars, transferVars, othersVars, windowVars>>

Environment == ServerOpens \/ ServerCloses \/ ServerAcknowledges
                 \/ ServerChangesMenu \/ OthersMove \/ PresenceChanges \/ Expire

Init ==
  /\ phase = "Idle" /\ owned = FALSE /\ target = None /\ outcome = None
  /\ window = None /\ expectedRevision = None
  /\ requested = 0 /\ transferred = 0
  /\ transfer = NoTransfer /\ plannedFor = None /\ undisturbed = FALSE
  /\ overdue = FALSE
  /\ nav = "Pending" /\ look = "Pending" /\ presence = "joined"
  /\ open = NoWindow /\ opened = 0 /\ menu = Bare /\ cursor = 0
  /\ asked = 0

Next == Command \/ Tick \/ Environment

Spec == Init /\ [][Next]_vars

-----------------------------------------------------------------------------
(* Properties.                                                              *)

TypeOK ==
  /\ phase \in Phases /\ owned \in BOOLEAN
  /\ target \in Chests \cup {None}
  /\ window \in 1..MaxWindows \cup {None}
  /\ expectedRevision \in 0..MaxRevision \cup {None}
  /\ requested \in Counts \cup {0} /\ transferred \in Nat
  /\ overdue \in BOOLEAN
  /\ nav \in Answers /\ look \in Answers
  /\ presence \in {"joined", "dead", "gone"}
  /\ opened \in 0..MaxWindows /\ open.id \in 0..opened
  /\ menu \in Menus /\ cursor \in 0..MaxStack /\ asked \in 0..MaxAsked
  /\ transfer.planned \in Nat /\ transfer.direction \in Directions
  /\ plannedFor \in 1..MaxWindows \cup {None} /\ undisturbed \in BOOLEAN

\* Clicks reach only the window they were planned for, which the session saw
\* open, however late windows open and close in between.
ClicksInTheirWindow ==
  [][(phase = "Transferring" /\ TickClick) => open.id = plannedFor /\ plannedFor = window]_vars

\* A transfer that starts with an empty cursor and is left alone moves exactly what
\* was planned, as much as was asked for, there was, and there was room for, and
\* leaves nothing on the cursor.
TransferIsExact ==
  phase = "Transferring" /\ undisturbed /\ transfer.clicks = <<>> =>
    /\ cursor = 0
    /\ transfer.baseline - Available(menu, transfer.direction) = transfer.planned
    /\ transfer.planned \in 1..requested

\* A session that is being set up owns the inventory, so no second one supersedes
\* it; and none keeps it after its end, which would bar every later session.
OwnedWhileSetUp ==
  /\ phase \in Preparing => owned
  /\ phase \in Terminal => ~owned

-----------------------------------------------------------------------------
(* What the tests say, and the code does not do.                            *)

\* A transfer that moves less than was requested is reported as partial.
PartialIsSaid ==
  [][(phase = "Transferring" /\ phase' = "Open" /\ Actual < requested)
       => outcome' = "TransferPartial"]_vars
=============================================================================
