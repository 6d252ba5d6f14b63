----------------------------- MODULE MCEquipment -----------------------------
(* Instances of the automatic equipment: two tools and the water bucket kept  *)
(* in their slots, armour and a totem to wear; and the slots of the default   *)
(* configuration that hold by id, a block to build with and the bucket.      *)
EXTENDS Equipment

Tool(kind) == [rule |-> "tool", kind |-> kind]
Stock(kind) == [rule |-> "exact", kind |-> kind]
ToolsAndBucket == << Tool("sword"), Tool("pickaxe"), Stock("bucket") >>
BlockAndBucket == << [rule |-> "block", kind |-> "block"], Stock("bucket") >>

Item(kind, rank) == [kind |-> kind, rank |-> rank]
ThingsToWear == {Item("sword", 5), Item("pickaxe", 7), Item("bucket", 0),
                 Item("armour", 5), Item("totem", 0)}
ThingsToBuild == {Item("block", 0), Item("bucket", 0), Item("other", 0)}

\* Every inventory with at most one of each, that wears only what can be worn.
OneOfEach ==
  {i \in [Slots -> Items \cup {Nothing}] :
     /\ \A s, t \in Slots : s # t /\ i[s] # Nothing => i[s] # i[t]
     /\ i[Chest] # Nothing => i[Chest].kind = "armour"}
=============================================================================
