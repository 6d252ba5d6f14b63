----------------------------- MODULE Application -----------------------------
(***************************************************************************)
(* The application loop of app.rs: one task that ticks every controller,    *)
(* runs the commands of the console and of the players' chat, and, while a  *)
(* command waits, drives only what that command needs.  With it the         *)
(* emergency stop (control/) and the connection's supervisor (client.rs).   *)
(*                                                                         *)
(* A controller is whether it is running, and what its tick and its cancel  *)
(* may do to the walk, the camera and the other controllers; the modules of *)
(* the controllers say which of it happens when.  The local console always  *)
(* has an input ready or not, so its channel is a choice; chat is a queue,  *)
(* because an emergency stop overtakes the lines before it.                 *)
(***************************************************************************)
EXTENDS Naturals, SequencesExt

CONSTANTS
  Typed,          \* what the console may enter
  Lines,          \* what players may say behind a #
  Players,
  Allowed,        \* those chat_access_allowed lets through
  ChatCapacity,   \* incoming_player_chat_capacity
  MaxFailures,    \* GET_RESOURCE_MAX_CONSECUTIVE_FAILURES
  MayLose,        \* whether the connection may be lost
  None

VARIABLES
  at,         \* where the application's task is
  draining,   \* inside tick_chat_commands
  task,       \* the command that waits, and for what
  bot,        \* the controllers, the walk and the camera
  chat,       \* incoming_player_chat, its #-lines
  link,       \* the connection: "Down" while the supervisor retries
  ready,      \* session_ready
  stopped     \* history: an emergency stop, and no action command since

vars == <<at, draining, task, bot, chat, link, ready, stopped>>

Controllers ==
  {"trip", "navigation", "interaction", "combat", "pvp", "container", "clutch"}

Queries == {"status"}    \* is_read_only_query
\* "goto" is also /goto-player and /goto-mine, "break" /place and /interact, "select"
\* every command that is over at once, a container's transfers among them.
Commands ==
  {"goto", "trip", "follow", "kill", "gotoBlock", "cancelGotoBlock", "mine", "hunt", "drop",
   "look", "lookStop", "break", "test", "stopInteraction", "select", "open", "close",
   "reconnect", "stop", "stopMovement", "quit"} \cup Queries

\* A line of the chat: who says it, and the command behind the #.
Said == [by : Players, says : Commands]

ASSUME ApplicationAssumption ==
  /\ Allowed \subseteq Players
  /\ Typed \subseteq Commands
  /\ Lines \subseteq Said
  /\ {ChatCapacity, MaxFailures} \subseteq Nat \ {0}
  /\ MayLose \in BOOLEAN

\* What a wait is for, the failures in a row, and the waits begun since the chat was
\* last looked at; "collect" and "settle" are the bounded ones.
Waits == {"walk", "trip", "navigation", "interaction", "combat", "pvp", "look", "collect", "settle"}

Waiting == at \in {"Drive", "Listen"}

TypeOK ==
  /\ at \in {"Loop", "Drive", "Listen", "Ended"}
  /\ draining \in BOOLEAN /\ ready \in BOOLEAN /\ stopped \in BOOLEAN
  /\ IF Waiting THEN task \in [command : Commands, awaits : Waits,
                               failures : 0 .. MaxFailures - 1, rounds : Nat] ELSE task = None
  /\ bot \in [on : SUBSET Controllers, walk : {"Still", "Going", "Following"},
              look : {"Free", "Plain", "Precise"}, kept : BOOLEAN]
  /\ chat \in Seq(Said) /\ Len(chat) <= ChatCapacity
  /\ link \in {"Up", "Down", "Gone"}

AtRest == [on |-> {}, walk |-> "Still", look |-> "Free", kept |-> FALSE]

Init ==
  /\ at = "Loop" /\ draining = FALSE /\ task = None
  /\ bot = AtRest
  /\ chat = <<>> /\ link = "Up"
  /\ ready = FALSE /\ stopped = FALSE

-----------------------------------------------------------------------------
(* The controllers' contracts.                                              *)

Off(b, c) == [b EXCEPT !.on = @ \ {c}]
On(b, c) == [b EXCEPT !.on = @ \cup {c}]
Still(b) == [b EXCEPT !.walk = "Still"]
Going(b) == [b EXCEPT !.walk = "Going"]
Unlooked(b) == [b EXCEPT !.look = "Free", !.kept = FALSE]
LookPlain(b) == [b EXCEPT !.look = "Plain"]
Aimed(b) == [b EXCEPT !.look = "Precise", !.kept = @ \/ b.look = "Plain"]

\* release_precise: the displaced look is resumed.
Released(b) == IF b.kept THEN [b EXCEPT !.look = "Plain", !.kept = FALSE] ELSE Unlooked(b)

\* What cancelling c does.  Only a container's is not guarded by its state, and
\* survival's emergency_stop.
Halted(b, c) == IF c \in b.on THEN Still(Off(b, c)) ELSE b
CancelOne(b, c) ==
  CASE c \in {"trip", "navigation"} -> Halted(b, c)
    [] c \in {"combat", "pvp"} -> IF c \in b.on THEN Unlooked(Halted(b, c)) ELSE b
    [] c = "interaction" ->
         IF c \in b.on THEN Released(Halted(Halted(b, c), "navigation")) ELSE b
    [] c = "container" -> Unlooked(Halted(Off(b, c), "navigation"))
    [] c = "clutch" -> Released(Off(b, c))
    [] c = "reset" -> Off(b, "clutch")
    [] c = "walk" -> Still(b)
    [] c = "look" -> Unlooked(b)
    [] c = "plainLook" -> IF b.look = "Plain" THEN Unlooked(b) ELSE b

\* All of cs, one after the other.
Cancel(b, cs) ==
  LET after[n \in 0 .. Len(cs)] == IF n = 0 THEN b ELSE CancelOne(after[n - 1], cs[n])
  IN  after[Len(cs)]

\* tick_moving and tick_looking of mobs/combat.rs: the walk goes on or to the
\* next mob, the mob is near enough to look at, or there is none left.
Chase(b) == {b, Going(b), LookPlain(Still(b)), Off(b, "combat")}

\* tick_attacking and tick_collecting: the mob goes away or dies, its drop is walked
\* to, and the hunt is over.
Strike(b) == {b, Going(b), Off(b, "combat"), Still(Off(b, "combat"))}

\* How a tick of c may leave the bot; a clutch that frees the hand may find that it
\* cannot take the bucket into it.
Tick(b, c) ==
  IF c \notin {"movement", "look", "clutch"} \cup b.on THEN {b} ELSE
  CASE c = "movement" -> {b} \cup (IF b.walk = "Still" THEN {} ELSE {Still(b)})
    [] c = "look" -> {b} \cup (IF b.look = "Free" THEN {} ELSE {[b EXCEPT !.look = "Free"]})
    [] c = "clutch" ->
         IF c \in b.on THEN {b, Released(Off(b, c))}
                       ELSE LET freed == Cancel(b, <<"interaction", "combat">>)
                            IN  {b, freed, Aimed(On(freed, c))}
    [] c \in {"trip", "navigation"} -> {b, Going(b), Still(Off(b, c)), Off(b, c)}
    [] c = "interaction" ->
         {b, Going(On(b, "navigation")), Aimed(b), Off(b, c), Released(Off(b, c))}
    [] c = "combat" -> Chase(b) \cup Strike(b)
    [] c = "pvp" -> {b, Going(b), Still(b), LookPlain(b), Aimed(b), Unlooked(Still(Off(b, c)))}
    [] c = "container" -> {b, Aimed(b), Off(b, c)}

\* The ticks of cs, one after the other.
Drive(b, cs) ==
  LET after[n \in 0 .. Len(cs)] ==
        IF n = 0 THEN {b} ELSE UNION {Tick(a, cs[n]) : a \in after[n - 1]}
  IN  after[Len(cs)]

-----------------------------------------------------------------------------
(* The commands.                                                            *)

\* (Mutant: fights that every command leaves alone.)
LeaveFights(c) == IF c \in Queries \cup {"stop"} THEN <<>> ELSE <<"trip">>

\* Cancelled up front, whatever the command does.
UpFront(c) ==
  CASE c \in Queries \cup {"stop"} -> <<>>
    [] c \in {"kill", "stopMovement"} -> <<"trip">>
    [] OTHER -> <<"pvp", "trip">>

\* What the commands cancel themselves, before they start anything.
GotoCancels == <<"interaction", "navigation">>
GatherCancels == <<"interaction", "combat", "pvp", "navigation">>
LookCancels == <<"interaction">>
BreakCancels == <<"navigation">>
PlaceCancels == <<"navigation">>
ReconnectCancels == <<"walk", "navigation", "look", "interaction">>
StopMovementCancels == <<"navigation", "plainLook", "walk">>

\* (Mutant: a stop that leaves the camera to those it is handed back by.)
StopHandsBack ==
  <<"trip", "navigation", "walk", "combat", "pvp", "interaction", "clutch">>
\* control/stop.rs, execute
StopCancels ==
  <<"trip", "navigation", "walk", "combat", "pvp", "interaction", "container", "clutch", "look">>

Before(c) ==
  CASE c \in {"goto", "trip", "follow"} -> GotoCancels
    [] c \in {"mine", "hunt", "drop"} -> GatherCancels
    [] c \in {"gotoBlock", "look"} -> LookCancels
    [] c = "break" -> BreakCancels
    [] c = "test" -> PlaceCancels
    [] c = "cancelGotoBlock" -> <<"navigation">>
    [] c = "lookStop" -> <<"look">>
    [] c = "stopInteraction" -> <<"interaction">>
    [] c = "reconnect" -> ReconnectCancels
    [] c = "stopMovement" -> StopMovementCancels
    [] c = "stop" -> StopCancels
    [] OTHER -> <<>>

\* What a command waits for first.
First(c) ==
  CASE c \in {"goto", "drop"} -> "walk"
    [] c = "trip" -> "trip"
    [] c = "kill" -> "pvp"
    [] c \in {"gotoBlock", "mine"} -> "navigation"
    [] c = "hunt" -> "combat"
    [] c = "look" -> "look"
    [] c = "break" -> "interaction"
    [] OTHER -> None

\* What run_get_item, run_mine, run_get_mob and run_drop_to_player wait for next.
\* A reached block may be one that cannot be broken: the search starts anew.
AfterSearch == {"interaction", "navigation"}
AfterBreak == {"collect", "navigation"}
AfterKill == {"combat"}
AfterApproach == {"settle"}
NextWaits(t) ==
  CASE t.command = "mine" /\ t.awaits = "navigation" -> AfterSearch
    [] t.command = "mine" /\ t.awaits = "interaction" -> AfterBreak
    [] t.command = "mine" /\ t.awaits = "collect" -> {"navigation"}
    [] t.command = "hunt" -> AfterKill
    [] t.command = "drop" /\ t.awaits = "walk" -> AfterApproach
    [] OTHER -> {}

\* How a gathering gives up.
GivenUp(b, t) ==
  CASE t.command = "mine" -> CancelOne(b, "navigation")
    [] t.command = "hunt" -> CancelOne(b, "combat")
    [] OTHER -> b

\* replace: an operation in progress is cancelled for the new one.
Operating(b) == On(CancelOne(b, "interaction"), "interaction")
Hunting(b) == On(Still(b), "combat")

Begun(b, wait) ==
  CASE wait \in {"walk", "collect"} -> Going(b)
    [] wait \in {"look", "settle"} -> LookPlain(b)
    [] wait = "interaction" -> Operating(b)
    [] wait = "combat" -> Hunting(b)
    [] OTHER -> On(b, wait)

\* follow, /testoaklog and /open begin something and do not wait for it.
Launched(b, c) ==
  CASE c = "follow" -> [b EXCEPT !.walk = "Following"]
    [] c = "test" -> Operating(b)
    [] c = "open" -> On(On(b, "container"), "navigation")
    [] c = "close" -> Off(b, "container")
    [] OTHER -> b

\* The ticks of each wait, in the code's order.
AwaitMovement == <<"movement", "clutch">>
AwaitNavigation == <<"trip", "movement", "clutch">>
AwaitBlockNavigation == <<"movement", "navigation", "clutch">>
AwaitLook == <<"look">>
AwaitInteraction == <<"movement", "navigation", "look", "interaction", "clutch">>
AwaitCombat == <<"movement", "look", "combat", "clutch">>
AwaitKill == <<"look", "pvp", "movement", "clutch">>
CollectDrop == <<"movement", "clutch">>
LookBriefly == <<"look">>

Drivers ==
  [walk |-> AwaitMovement, trip |-> AwaitNavigation, navigation |-> AwaitBlockNavigation,
   look |-> AwaitLook, interaction |-> AwaitInteraction, combat |-> AwaitCombat,
   pvp |-> AwaitKill, collect |-> CollectDrop, settle |-> LookBriefly]

Finished(b, wait) ==
  CASE wait = "walk" -> b.walk = "Still"
    [] wait \in {"look", "settle"} -> b.look = "Free"
    [] wait = "collect" -> FALSE
    [] OTHER -> wait \notin b.on

-----------------------------------------------------------------------------
(* execute_console_input                                                    *)

Back == at' = "Loop" /\ task' = None

Await(command, wait, failures, rounds) ==
  /\ at' = "Drive"
  /\ task' = [command |-> command, awaits |-> wait, failures |-> failures, rounds |-> rounds]

History(c) == stopped' = IF c = "stop" THEN TRUE ELSE stopped /\ c \in Queries

\* /quit ends the program, but not when a chat line's command waited: what that
\* line returns is dropped.
Quits == at' = (IF draining THEN "Loop" ELSE "Ended") /\ task' = None

\* The clean-up after the loop; "Ended" is also the end of the connection.
Closed(b) ==
  Cancel(b, <<"container", "navigation", "look", "reset", "interaction", "combat", "pvp", "walk">>)

\* reconnect waits for the outcome inside the command.
Reconnects ==
  \/ link = "Down" /\ UNCHANGED <<chat, link>>
  \/ link # "Down" /\ chat' = <<>> /\ link' \in (IF MayLose THEN {"Up", "Gone"} ELSE {"Up"})

\* Run c with the bot as b and the chat as `lines`; every start may fail, and
\* without a connection it does.
Execute(c, b, lines) ==
  LET cancelled == Cancel(Cancel(b, UpFront(c)), Before(c))
  IN  /\ History(c)
      /\ UNCHANGED <<draining, ready>>
      /\ IF c = "reconnect" THEN Reconnects ELSE chat' = lines /\ UNCHANGED link
      /\ \/ /\ c = "quit" /\ Quits
            /\ bot' = IF draining THEN cancelled ELSE Closed(cancelled)
         \/ /\ First(c) # None /\ link = "Up"
            /\ Await(c, First(c), 0, 1)
            /\ bot' = Begun(cancelled, First(c))
         \/ /\ c # "quit" /\ Back
            /\ bot' \in {cancelled} \cup (IF link = "Up" THEN {Launched(cancelled, c)} ELSE {})

-----------------------------------------------------------------------------
(* A command that waits.                                                    *)

\* consecutive_failures when a gathering goes on to wait for `wait`.  No break and
\* no kill succeeds within one round, and 45 seconds without progress, which
\* clear the failures, pass only in wait_tick.
Uncounted(wait) == {0}
Failures(wait) ==
  IF task.awaits \in {"interaction", "combat", wait}
    THEN (IF wait = "collect" THEN {} ELSE {task.failures + 1})
         \cup (IF task.rounds = 0 THEN {0} ELSE {})
    ELSE {task.failures}

\* The end of a wait: the command's next one, or the end of the command.
EndOfWait(b) ==
  \/ /\ Back
     /\ bot' \in {b, GivenUp(b, task)}
  \/ \E wait \in NextWaits(task) : \E failures \in Failures(wait) :
       /\ link = "Up" /\ failures < MaxFailures
       /\ Await(task.command, wait, failures, task.rounds + 1)
       /\ bot' = Begun(b, wait)

\* One round of an await_*_terminal loop, up to wait_tick.
DriveWait ==
  /\ at = "Drive"
  /\ \E b \in Drive(bot, Drivers[task.awaits]) :
       \/ Finished(b, task.awaits) /\ EndOfWait(b)
       \/ ~Finished(b, task.awaits) /\ at' = "Listen" /\ bot' = b /\ UNCHANGED task
  /\ UNCHANGED <<draining, chat, link, ready, stopped>>

\* The waits with an end of their own: a walk stalls or takes too long, a drop
\* is reached or given up, the aim at a player has had its time.
CutWait ==
  /\ at = "Drive"
  /\ \/ task.awaits \in {"walk", "collect"} /\ EndOfWait(Still(bot))
     \/ task.awaits = "settle" /\ EndOfWait(bot)
  /\ UNCHANGED <<draining, chat, link, ready, stopped>>

IsStop(line) == line.says = "stop"

\* (Mutant: a stop is noticed only when it is next in the queue.)
NextInQueue == IF chat # <<>> /\ IsStop(chat[1]) THEN 1 ELSE 0
FirstStop == SelectInSeq(chat, IsStop)

\* wait_tick hands an input over: run_get_mob alone lets go of what it drove.
Interrupt(c, lines) ==
  Execute(c, IF task.command = "hunt" THEN CancelOne(bot, "combat") ELSE bot, lines)

\* emergency_stop_from_chat
StopFromChat ==
  /\ at = "Listen"
  /\ FirstStop # 0 /\ chat[FirstStop].by \in Allowed
  /\ Interrupt("stop", RemoveAt(chat, FirstStop))

\* (Mutant: every line is answered while a command waits.)
AnyLine == Said
\* chat_status_query
Answerable == {line \in Said : line.says \in Queries}

\* The lines that are not in S, in their order.
Without(lines, S) ==
  LET left[n \in 0 .. Len(lines)] ==
        IF n = 0 THEN <<>>
        ELSE left[n - 1] \o (IF lines[n] \in S THEN <<>> ELSE <<lines[n]>>)
  IN  left[Len(lines)]

\* What wait_tick leaves of the chat: a refused stop is gone, and so is every
\* query, answered or refused.
Heard == Without(IF FirstStop = 0 THEN chat ELSE RemoveAt(chat, FirstStop), Answerable)

Unstopped == FirstStop # 0 => chat[FirstStop].by \notin Allowed

Sleep ==
  /\ at = "Listen" /\ Unstopped
  /\ at' = "Drive" /\ chat' = Heard
  /\ task' = [task EXCEPT !.rounds = 0]
  /\ UNCHANGED <<draining, bot, link, ready, stopped>>

\* handle_inert_input answers queries; anything else interrupts.
Inert(c) == c \in Queries
ConsoleInterrupts(c) ==
  /\ at = "Listen" /\ Unstopped
  /\ ~Inert(c)
  /\ Interrupt(c, Heard)

-----------------------------------------------------------------------------
(* The select loop of run.                                                  *)

\* movement_tick without a connection
CleanUp ==
  /\ at = "Loop" /\ ~draining /\ link # "Up" /\ ready
  /\ ready' = FALSE
  /\ bot' = Cancel(bot, <<"interaction", "combat", "pvp", "trip", "navigation", "look", "reset", "walk">>)
  /\ UNCHANGED <<at, draining, task, chat, link, stopped>>

\* movement_tick with one: first the chat, to the end, although its commands may wait
StartDrain ==
  /\ at = "Loop" /\ ~draining /\ link = "Up"
  /\ ready' = TRUE /\ draining' = TRUE
  /\ UNCHANGED <<at, task, bot, chat, link, stopped>>

\* handle_chat_console_command
Dropped ==
  /\ at = "Loop" /\ draining /\ chat # <<>>
  /\ chat' = Tail(chat)
  /\ UNCHANGED <<at, draining, task, bot, link, ready, stopped>>

DrainDenied ==
  Dropped /\ <<Head(chat).by, Head(chat).says>> \notin Allowed \X (Commands \ {"quit"})
\* consume_chat_rate_limit: how many lines the window holds is not counted.
DrainOverLimit == Dropped /\ Head(chat).by \in Allowed

DrainCommand ==
  /\ at = "Loop" /\ draining /\ chat # <<>>
  /\ Head(chat).by \in Allowed /\ Head(chat).says # "quit"
  /\ Execute(Head(chat).says, bot, Tail(chat))

\* then the walk of trips and the movement service
MovementTick ==
  /\ at = "Loop" /\ draining /\ chat = <<>>
  /\ draining' = FALSE
  /\ bot' \in Drive(bot, <<"trip", "movement">>)
  /\ UNCHANGED <<at, task, chat, link, ready, stopped>>

\* Not while the client walks, unless an aim is precise.
LookTick ==
  /\ at = "Loop" /\ ~draining
  /\ bot.look = "Precise" \/ bot.walk = "Still"
  /\ bot' \in Tick(bot, "look")
  /\ UNCHANGED <<at, draining, task, chat, link, ready, stopped>>

InteractionTick ==
  /\ at = "Loop" /\ ~draining
  /\ bot' \in Drive(bot, <<"navigation", "interaction", "combat", "pvp", "container", "clutch">>)
  /\ UNCHANGED <<at, draining, task, chat, link, ready, stopped>>

ConsoleInput(c) == at = "Loop" /\ ~draining /\ Execute(c, bot, chat)

\* Ctrl+C, SIGTERM, or the end of the console's input.
ShutDown ==
  /\ at = "Loop" /\ ~draining
  /\ at' = "Ended" /\ bot' = Closed(bot)
  /\ UNCHANGED <<draining, task, chat, link, ready, stopped>>

-----------------------------------------------------------------------------
(* The other actors.                                                        *)

\* (Mutant: the capacity is tested before the line is added.)
FullBefore(line) ==
  IF Len(chat) > ChatCapacity THEN Append(Tail(chat), line) ELSE Append(chat, line)

\* record_received: beyond its capacity the queue loses its oldest line.
Queued(line) ==
  LET lines == Append(chat, line)
  IN  IF Len(lines) > ChatCapacity THEN Tail(lines) ELSE lines

Say(line) ==
  /\ link = "Up" /\ at # "Ended"
  /\ chat' = Queued(line)
  /\ UNCHANGED <<at, draining, task, bot, link, ready, stopped>>

\* supervise: the session's chat goes with the connection.
Disconnect ==
  /\ MayLose /\ link = "Up" /\ at # "Ended"
  /\ link' = "Down" /\ chat' = <<>>
  /\ UNCHANGED <<at, draining, task, bot, ready, stopped>>

Retried ==
  /\ link = "Down" /\ at # "Ended"
  /\ link' \in {"Up", "Gone"}
  /\ UNCHANGED <<at, draining, task, bot, chat, ready, stopped>>

Next ==
  \/ DriveWait \/ CutWait \/ StopFromChat \/ Sleep
  \/ \E c \in Typed : ConsoleInterrupts(c)
  \/ CleanUp \/ StartDrain \/ DrainDenied \/ DrainOverLimit \/ DrainCommand \/ MovementTick
  \/ LookTick \/ InteractionTick
  \/ \E c \in Typed : ConsoleInput(c)
  \/ ShutDown
  \/ \E line \in Lines : Say(line)
  \/ Disconnect \/ Retried

Spec == Init /\ [][Next]_vars

-----------------------------------------------------------------------------
(* Properties.                                                              *)

\* A fight and a trip keep ticking after their command is gone (app.rs:1001-1060);
\* neither is ever left beside a wait for something else, nor beside the other.
FightsAlone ==
  /\ "pvp" \in bot.on => ~Waiting \/ task.awaits = "pvp"
  /\ "trip" \in bot.on => ~Waiting \/ task.awaits = "trip"
  /\ ~({"pvp", "trip"} \subseteq bot.on)

\* After an emergency stop nothing reasserts itself (control/stop.rs:11-16): until
\* the next action command no controller runs, walks or holds the camera, but for
\* a clutch that catches a fall.
QuietAfterStop ==
  stopped => /\ bot.on \subseteq {"clutch"}
             /\ bot.walk = "Still" /\ ~bot.kept
             /\ bot.look # "Free" => "clutch" \in bot.on

\* While a command waits, what is said in chat starts nothing and is not lost
\* (app.rs:544-572): the lines that ask for action stay, in their order.
Actions(lines) == Without(lines, {line \in Said : line.says \in Queries \cup {"stop"}})
ActionsWaitTheirTurn ==
  [][Waiting /\ link' = "Up" /\ link = "Up" /\ Len(chat') <= Len(chat)
       => \/ Actions(chat') = Actions(chat)
          \/ Len(chat') = ChatCapacity /\ Len(chat) = ChatCapacity   \* the oldest was pushed out
          \/ chat' = <<>> /\ stopped' = stopped /\ ~Waiting']_vars   \* reconnected

\* However the parts of a gathering fail or are taken away by a clutch, it looks
\* at the chat and the console again after a bounded number of waits
\* (app.rs:3816-3834, 3844-3849).
NeverDeaf == Waiting => task.rounds <= 2 * MaxFailures + 1

\* When it looks, #stop is run although lines that ask for action were queued
\* before it (app.rs:624-631): the first stop in the queue, if its player may.
StopNext ==
  \E i \in DOMAIN chat : /\ IsStop(chat[i]) /\ chat[i].by \in Allowed
                        /\ \A j \in 1 .. i - 1 : ~IsStop(chat[j])
StopOvertakes == [][at = "Listen" /\ StopNext /\ at' # at => stopped']_vars

\* "an emergency stop must never be throttled" (app.rs:626-627): one that leaves
\* the queue was run.
Throttled ==
  /\ chat # <<>> /\ chat' = Tail(chat) /\ link' = link /\ at = "Loop"
  /\ IsStop(Head(chat)) /\ Head(chat).by \in Allowed
StopIsNeverThrottled == [][Throttled => stopped']_vars
=============================================================================
