------------------------------ MODULE Equipment ------------------------------
(***************************************************************************)
(* The automatic equipment of equipment/: EquipmentService wears the best   *)
(* armour and keeps the offhand filled, HotbarEquipmentService keeps the    *)
(* best tool of a category, a block to build with, a water bucket and the   *)
(* configured utility items each in its slot.                               *)
(*                                                                         *)
(* Each service reads the inventory once and then decides step by step from *)
(* that snapshot, while its own swaps, its drops and the server move the    *)
(* items.  A swap is three clicks, and a menu that opens or closes in       *)
(* between refuses the rest.                                                *)
(***************************************************************************)
EXTENDS Naturals, Sequences, FiniteSetsExt

CONSTANTS
  Items,        \* what may lie in a slot: [kind, rank]; an item is its id
  MainSlots,    \* how many slots of the inventory nobody manages
  HotbarSteps,  \* the steps of evaluate, in their order, one managed slot each
  Margin,       \* by how much a candidate must outrank what lies there
  DropGroups,   \* the kinds whose replacement drops what it displaced
  Protected,    \* protected_items
  Starts,       \* the inventories the bot may join with
  MaxEvents,    \* bound on what happens from outside
  Nothing

VARIABLES
  inv,        \* slot -> item, the worn armour and the offhand among the slots
  carried,    \* what the clicks left on the cursor
  at,         \* the service and the step it is in, or idle
  snapshot,   \* the inventory that service read
  due,        \* the revision is not the one HotbarEquipmentService last saw
  events      \* bound: how much has happened from outside

vars == <<inv, carried, at, snapshot, due, events>>

Kinds == {"armour", "totem", "shield", "sword", "pickaxe", "block", "bucket", "other"}
Steps == [rule : {"tool", "block", "exact"}, kind : Kinds]

ASSUME EquipmentAssumption ==
  /\ Items \subseteq [kind : Kinds, rank : Nat] /\ Nothing \notin Items
  /\ MainSlots \in Nat /\ Margin \in Nat \ {0} /\ MaxEvents \in Nat
  /\ HotbarSteps \in Seq(Steps)
  /\ DropGroups \subseteq Kinds /\ Protected \subseteq Items

Inventory == 1 .. MainSlots + Len(HotbarSteps)
Chest == MainSlots + Len(HotbarSteps) + 1
Offhand == Chest + 1
Slots == Inventory \cup {Chest, Offhand}

WearSteps == << [rule |-> "armour", kind |-> "armour"], [rule |-> "offhand", kind |-> "totem"] >>
StepsOf(service) == IF service = "wear" THEN WearSteps ELSE HotbarSteps
SlotOf(service, n) == IF service = "wear" THEN <<Chest, Offhand>>[n] ELSE MainSlots + n

Idle == [service |-> "none", step |-> 0]

ASSUME StartAssumption == Starts \subseteq [Slots -> Items \cup {Nothing}]

TypeOK ==
  /\ inv \in [Slots -> Items \cup {Nothing}] /\ snapshot \in [Slots -> Items \cup {Nothing}]
  /\ carried \in Items \cup {Nothing}
  /\ at = Idle \/ (at.service \in {"wear", "hotbar"} /\ at.step \in DOMAIN StepsOf(at.service))
  /\ due \in BOOLEAN /\ events \in 0 .. MaxEvents

\* equipment_snapshot: the player's own slots, whatever container is open; it leaves
\* the cursor out.
EquipmentSnapshot == inv

-----------------------------------------------------------------------------
(* What a step decides from an inventory: the slot to take from, if any.    *)

Rank(item) == IF item = Nothing THEN 0 ELSE item.rank
OfKind(i, kind) == {s \in Inventory : i[s] # Nothing /\ i[s].kind = kind}

\* best_candidate: the later of two equals.
Best(i, kind) ==
  Max({s \in OfKind(i, kind) : \A t \in OfKind(i, kind) : Rank(i[s]) >= Rank(i[t])})

\* (Mutant: no threshold, so that two equals replace each other.)
AsGood(candidate, held) == Rank(candidate) >= Rank(held)

\* should_replace: what is held there may be of any other kind.
Outranks(candidate, held) == Rank(candidate) >= Rank(held) + Margin

\* Armour that classify does not know counts as none.
WornRank(item) == IF item # Nothing /\ item.kind = "armour" THEN item ELSE Nothing

FirstOf(i, item) == {s \in Inventory : i[s] = item /\ \A t \in Inventory : t < s => i[t] # item}

\* The totem before the shield, wherever either is.
Desired(i) ==
  LET has(kind) == OfKind(i, kind) # {} \/ (i[Offhand] # Nothing /\ i[Offhand].kind = kind)
  IN  IF has("totem") THEN "totem" ELSE IF has("shield") THEN "shield" ELSE "none"

\* scaffold_allow_list: by preference, whatever slot the block is in.
Source(i, step, slot) ==
  LET held == OfKind(i, step.kind) IN
  CASE step.rule = "armour" ->
         {s \in held : s = Best(i, step.kind) /\ Outranks(i[s], WornRank(i[slot]))}
    [] step.rule = "offhand" ->
         {s \in OfKind(i, Desired(i)) : (i[slot] = Nothing \/ i[slot].kind # Desired(i))
                                        /\ \A t \in OfKind(i, Desired(i)) : s <= t}
    [] step.rule = "tool" ->
         {s \in held : s = Best(i, step.kind) /\ s # slot /\ Outranks(i[s], i[slot])}
    [] step.rule = "block" ->
         IF held = {} \/ i[slot] = i[Best(i, step.kind)] THEN {}
         ELSE FirstOf(i, i[Best(i, step.kind)])
    [] step.rule = "exact" ->
         {s \in held : ~(i[slot] # Nothing /\ i[slot].kind = step.kind)
                       /\ \A t \in held : s <= t}

-----------------------------------------------------------------------------
(* swap_into_slot: the first n of its three clicks on source, destination   *)
(* and source again, each of which exchanges the slot with the cursor.      *)

Click(m, s) == [inv |-> [m.inv EXCEPT ![s] = m.carried], carried |-> m.inv[s]]
Clicks(m, s, t, n) ==
  CASE n = 0 -> m [] n = 1 -> Click(m, s)
    [] n = 2 -> Click(Click(m, s), t) [] n = 3 -> Click(Click(Click(m, s), t), s)

\* maybe_drop: decided by what lay there in the snapshot, done to what lies in the
\* source slot by now.
Drops(displaced, step) ==
  displaced # Nothing /\ step.kind \in DropGroups /\ displaced \notin Protected
Dropped(i, s) == [i EXCEPT ![s] = Nothing]

Init ==
  /\ inv \in Starts
  /\ carried = Nothing
  /\ at = Idle /\ snapshot = [s \in Slots |-> Nothing]
  /\ due = TRUE /\ events = 0

Following(a) ==
  IF a.step < Len(StepsOf(a.service)) THEN [a EXCEPT !.step = @ + 1] ELSE Idle

\* EquipmentService::tick reads afresh every time.
Scan ==
  /\ at = Idle
  /\ at' = [service |-> "wear", step |-> 1] /\ snapshot' = EquipmentSnapshot
  /\ UNCHANGED <<inv, carried, due, events>>

\* HotbarEquipmentService::tick: the revision counts as seen before the evaluation.
ScanHotbar ==
  /\ at = Idle /\ due
  /\ at' = [service |-> "hotbar", step |-> 1] /\ snapshot' = EquipmentSnapshot
  /\ due' = FALSE
  /\ UNCHANGED <<inv, carried, events>>

Changed(i) == inv' = i /\ due' = (due \/ i # inv)

\* One step, its swap and its drop; a swap cut short is one of the events.
Step ==
  LET step == StepsOf(at.service)[at.step]
      slot == SlotOf(at.service, at.step)
      sources == Source(snapshot, step, slot)
      now == [inv |-> inv, carried |-> carried] IN
  /\ at # Idle
  /\ at' = Following(at)
  /\ UNCHANGED snapshot
  /\ \/ /\ sources = {}
        /\ UNCHANGED <<inv, carried, due, events>>
     \/ \E s \in sources :
          LET after == Clicks(now, s, slot, 3) IN
          /\ Changed(IF Drops(snapshot[slot], step) THEN Dropped(after.inv, s) ELSE after.inv)
          /\ carried' = after.carried
          /\ UNCHANGED events
     \/ \E s \in sources, n \in 0 .. 2 :
          /\ events < MaxEvents /\ events' = events + 1
          /\ Changed(Clicks(now, s, slot, n).inv)
          /\ carried' = Clicks(now, s, slot, n).carried

\* periodic_scan_seconds.
Periodic ==
  /\ at = Idle /\ ~due
  /\ due' = TRUE
  /\ UNCHANGED <<inv, carried, at, snapshot, events>>

Outside(i) ==
  /\ events < MaxEvents /\ events' = events + 1
  /\ Changed(i)
  /\ UNCHANGED <<carried, at, snapshot>>

\* The server puts what is picked up in the first slot that is free, and takes what
\* is eaten, thrown or worn out.
PickUp(item) ==
  \E s \in Inventory :
    /\ inv[s] = Nothing /\ \A t \in Inventory : t < s => inv[t] # Nothing
    /\ Outside([inv EXCEPT ![s] = item])
UseUp(s) == inv[s] # Nothing /\ Outside([inv EXCEPT ![s] = Nothing])

Next ==
  \/ Scan \/ ScanHotbar \/ Step \/ Periodic
  \/ \E item \in Items : PickUp(item)
  \/ \E s \in Slots : UseUp(s)

\* The application ticks both services one after the other, for ever.
Fairness == WF_vars(Step) /\ SF_vars(Scan) /\ SF_vars(ScanHotbar) /\ SF_vars(Periodic)

Spec == Init /\ [][Next]_vars /\ Fairness

-----------------------------------------------------------------------------
(* A managed slot is stocked when its step, on the inventory as it is,      *)
(* would take nothing.  Once the outside is quiet every slot gets stocked   *)
(* and stays so ("self-corrects on the very next tick", hotbar.rs:115-122), *)
(* although each round decides from an inventory its earlier swaps have     *)
(* already changed (HotbarEquipmentService::evaluate,                       *)
(* EquipmentService::tick).  It holds where only tools and one item are     *)
(* kept, and not for two slots kept by what lies in them: a block in the    *)
(* slot of the bucket and the bucket in that of the block change places and *)
(* change back in every round.                                              *)
Stocked ==
  \A service \in {"wear", "hotbar"} : \A n \in DOMAIN StepsOf(service) :
    Source(inv, StepsOf(service)[n], SlotOf(service, n)) = {}

EventuallyStocked == <>[]Stocked

(* What a step throws away is the item its own replacement displaced        *)
(* (equipment/autodrop.rs), never another one that has come to lie where    *)
(* the displaced one was expected.  The code does not keep to it: a step    *)
(* that displaces what an earlier step of its round put there throws away   *)
(* an item it never looked at, a protected one among them.                  *)
Possessions(i, c) == {i[s] : s \in Slots} \cup {c}
DropsOnlyTheDisplaced ==
  [][Step => Possessions(inv, carried) \ Possessions(inv', carried')
               \subseteq {snapshot[SlotOf(at.service, at.step)]}]_vars

(* "keeps the best sword/pickaxe/... in a fixed hotbar slot": the services  *)
(* never throw the best tool of a managed category away.  The code does:    *)
(* a pickaxe that outranks the only sword takes its slot and drops it.      *)
KeepsTheBest ==
  [][\A n \in DOMAIN HotbarSteps :
       LET kind == HotbarSteps[n].kind IN
       Step /\ HotbarSteps[n].rule = "tool" /\ OfKind(inv, kind) # {}
         => inv[Best(inv, kind)] \in Possessions(inv', carried')]_vars
=============================================================================
