---------------------------- MODULE ContainerProofs ----------------------------
(***************************************************************************)
(* The chest session, for any chest, any stacks, any amounts and any number *)
(* of windows: who owns the inventory, where clicks land, that every field   *)
(* keeps its type, and that the clicks plan_transfer returns move exactly    *)
(* what was planned.                                                        *)
(***************************************************************************)
EXTENDS Container, Recursions, SequenceTheorems

-----------------------------------------------------------------------------
(* Who owns the inventory, and where clicks land.                           *)

\* The window the clicks were planned for is the one the session saw open:
\* begin_transfer compares them, and only a session in AwaitingMenu takes another.
PlannedForSession == phase = "Transferring" => plannedFor = window

Inv == OwnedWhileSetUp /\ PlannedForSession

\* The idle service owns nothing and has planned nothing.
LEMMA InitInv == Init => Inv
BY DEF Init, Inv, OwnedWhileSetUp, PlannedForSession, Preparing, Terminal

\* fail, wherever it is called, gives the inventory back.
LEMMA FailInv == ASSUME NEW o, Fail(o) PROVE Inv'
BY DEF Fail, Inv, OwnedWhileSetUp, PlannedForSession, Preparing, Terminal, OwnedAfterFailure

\* Every command: open takes the inventory, transfer plans for the session's window
\* or fails, close and cancel give the inventory back.
LEMMA CommandInv == Inv /\ Command => Inv'
<1> SUFFICES ASSUME Inv, Command PROVE Inv'
  OBVIOUS
<1>1. CASE OpenElsewhere
  BY <1>1, FailInv DEF OpenElsewhere
<1>2. CASE OpenChest
  BY <1>2 DEF OpenChest, Inv, OwnedWhileSetUp, PlannedForSession, Terminal
<1>3. CASE Transfer
  <2>1. PICK dir \in Directions, count \in Counts :
          TransferRefused(dir, count) \/ TransferStale(dir, count)
            \/ TransferBegun(dir, count)
    BY <1>3 DEF Transfer
  <2>2. CASE TransferRefused(dir, count) \/ TransferStale(dir, count)
    BY <2>2, FailInv DEF TransferRefused, TransferStale
  <2>3. CASE TransferBegun(dir, count)
    <3>1. window' = open.id /\ plannedFor' = open.id
      BY <2>3 DEF TransferBegun, PlanCurrent
    <3>2. phase' = "Transferring"
      BY <2>3 DEF TransferBegun
    <3> QED
      BY <3>1, <3>2 DEF Inv, OwnedWhileSetUp, PlannedForSession, Preparing, Terminal
  <2> QED
    BY <2>1, <2>2, <2>3
<1>4. CASE Close
  BY <1>4 DEF Close, Inv, OwnedWhileSetUp, PlannedForSession, Preparing
<1>5. CASE Cancel
  BY <1>5 DEF Cancel, Inv, OwnedWhileSetUp, PlannedForSession, Preparing
<1> QED
  BY <1>1, <1>2, <1>3, <1>4, <1>5 DEF Command

\* Every branch of the tick: it advances an owned session, clicks without a new plan,
\* ends the transfer, or fails.
LEMMA TickInv == Inv /\ Tick => Inv'
<1> SUFFICES ASSUME Inv, Tick PROVE Inv'
  OBVIOUS
<1>1. CASE TickEnds
  BY <1>1, FailInv DEF TickEnds
<1>2. CASE TickNavigating
  <2>1. CASE phase = "Navigating" /\ Advance("Aligning")
    BY <2>1 DEF Advance, Inv, OwnedWhileSetUp, PlannedForSession, Preparing, Terminal
  <2> QED
    BY <1>2, <2>1, FailInv DEF TickNavigating
<1>3. CASE TickAligning
  <2>1. CASE phase = "Aligning" /\ Advance("AwaitingMenu")
    BY <2>1 DEF Advance, Inv, OwnedWhileSetUp, PlannedForSession, Preparing, Terminal
  <2> QED
    BY <1>3, <2>1, FailInv DEF TickAligning
<1>4. CASE TickAwaitingMenu
  <2>1. CASE phase' = "Open" /\ UNCHANGED owned
    BY <2>1 DEF Inv, OwnedWhileSetUp, PlannedForSession, Preparing, Terminal
  <2> QED
    BY <1>4, <2>1, FailInv DEF TickAwaitingMenu
<1>5. CASE TickOpen
  BY <1>5, FailInv DEF TickOpen
<1>6. CASE TickTransferring
  <2>1. CASE TickClickFails
    BY <2>1, FailInv DEF TickClickFails
  <2>2. CASE TickClick
    <3>1. UNCHANGED <<phase, owned, window, plannedFor>>
      BY <2>2 DEF TickClick, machineVars
    <3> QED
      BY <3>1 DEF Inv, OwnedWhileSetUp, PlannedForSession
  <2>3. CASE TickConfirm
    <3>1. CASE phase' = "Open" /\ UNCHANGED owned
      BY <3>1 DEF Inv, OwnedWhileSetUp, PlannedForSession, Preparing, Terminal
    <3> QED
      BY <2>3, <3>1, FailInv DEF TickConfirm
  <2> QED
    BY <1>6, <2>1, <2>2, <2>3 DEF TickTransferring
<1> QED
  BY <1>1, <1>2, <1>3, <1>4, <1>5, <1>6 DEF Tick, TickPhase

\* Whatever the server and the others do, the session and the window its clicks were
\* planned for stay as they are.
LEMMA EnvironmentInv == Inv /\ (Environment \/ UNCHANGED vars) => Inv'
<1> SUFFICES ASSUME Inv, Environment \/ UNCHANGED vars PROVE Inv'
  OBVIOUS
<1> DEFINE Kept == UNCHANGED <<phase, owned, window, plannedFor>>
<1>1. CASE ServerOpens
  <2>1. Kept
    BY <1>1 DEF ServerOpens, machineVars
  <2> QED
    BY <2>1 DEF Inv, OwnedWhileSetUp, PlannedForSession
<1>2. CASE ServerCloses
  <2>1. Kept
    BY <1>2 DEF ServerCloses, machineVars
  <2> QED
    BY <2>1 DEF Inv, OwnedWhileSetUp, PlannedForSession
<1>3. CASE ServerAcknowledges
  <2>1. Kept
    BY <1>3 DEF ServerAcknowledges, machineVars, transferVars
  <2> QED
    BY <2>1 DEF Inv, OwnedWhileSetUp, PlannedForSession
<1>4. CASE ServerChangesMenu
  <2>1. Kept
    BY <1>4 DEF ServerChangesMenu, machineVars
  <2> QED
    BY <2>1 DEF Inv, OwnedWhileSetUp, PlannedForSession
<1>5. CASE OthersMove
  <2>1. Kept
    BY <1>5 DEF OthersMove, machineVars, transferVars
  <2> QED
    BY <2>1 DEF Inv, OwnedWhileSetUp, PlannedForSession
<1>6. CASE PresenceChanges
  <2>1. Kept
    BY <1>6 DEF PresenceChanges, machineVars, transferVars
  <2> QED
    BY <2>1 DEF Inv, OwnedWhileSetUp, PlannedForSession
<1>7. CASE Expire
  <2>1. Kept
    BY <1>7 DEF Expire, machineVars, transferVars
  <2> QED
    BY <2>1 DEF Inv, OwnedWhileSetUp, PlannedForSession
<1>8. CASE UNCHANGED vars
  <2>1. Kept
    BY <1>8 DEF vars, machineVars, transferVars
  <2> QED
    BY <2>1 DEF Inv, OwnedWhileSetUp, PlannedForSession
<1> QED
  BY <1>1, <1>2, <1>3, <1>4, <1>5, <1>6, <1>7, <1>8 DEF Environment

\* The invariant holds for ever.
THEOREM AlwaysInv == Spec => []Inv
<1>1. Inv /\ [Next]_vars => Inv'
  BY CommandInv, TickInv, EnvironmentInv DEF Next
<1> QED
  BY InitInv, <1>1, PTL DEF Spec

\* A session that is being set up owns the inventory, and an ended one does not: no
\* second open supersedes it, and none is barred for ever.
THEOREM AlwaysOwnedWhileSetUp == Spec => []OwnedWhileSetUp
BY AlwaysInv, PTL DEF Inv

\* A click reaches the window it was planned for and no other.
THEOREM AlwaysClicksInTheirWindow == Spec => ClicksInTheirWindow
<1>1. Inv /\ [Next]_vars =>
        [(phase = "Transferring" /\ TickClick)
           => open.id = plannedFor /\ plannedFor = window]_vars
  BY DEF Inv, PlannedForSession, TickClick, SameWindow
<1> QED
  BY AlwaysInv, <1>1, PTL DEF Spec, ClicksInTheirWindow

-----------------------------------------------------------------------------
(* Sums.                                                                    *)

\* A sum has a trace, and there is only one.
Sums(amounts, f) == f[0] = 0 /\ \A k \in DOMAIN f \ {0} : f[k] = f[k - 1] + amounts[k]
Summed(amounts, n) ==
  \E f \in [0 .. n -> Nat] : Sums(amounts, f) /\ Upto(amounts, n) = f[n]

\* A sum of naturals has a trace.
LEMMA UptoRuns ==
  ASSUME NEW n \in Nat, NEW amounts, \A k \in 1 .. n : amounts[k] \in Nat
  PROVE  Summed(amounts, n)
<1> DEFINE step == [x \in (1 .. n) \X Nat |-> x[2] + amounts[x[1]]]
           Is(f) == f = [k \in 0 .. n |-> IF k = 0 THEN 0 ELSE f[k - 1] + amounts[k]]
           sum == CHOOSE f : Is(f)
<1>1. step \in [(1 .. n) \X Nat -> Nat]
  OBVIOUS
<1>2. PICK f \in [0 .. n -> Nat] : f[0] = 0 /\ \A k \in 1 .. n : f[k] = step[<<k, f[k - 1]>>]
  <2> HIDE DEF step
  <2>1. Unrolls(Nat, 0, step, n)
    BY <1>1, Unrolling
  <2> QED BY <2>1 DEF Unrolls
<1>3. ASSUME NEW k \in 1 .. n PROVE f[k] = f[k - 1] + amounts[k]
  <2>1. k - 1 \in 0 .. n
    OBVIOUS
  <2>2. <<k, f[k - 1]>> \in (1 .. n) \X Nat
    BY <1>2, <2>1
  <2> QED BY <1>2, <2>2
<1>4. Is(f)
  <2>1. \A k \in 0 .. n : f[k] = IF k = 0 THEN 0 ELSE f[k - 1] + amounts[k]
    BY <1>2, <1>3
  <2> QED BY <1>2, <2>1
<1>5. Is(sum)
  <2> HIDE DEF Is
  <2> QED BY <1>4
<1>6. Upto(amounts, n) = sum[n]
  BY DEF Upto
<1> HIDE DEF sum
<1>7. sum = [k \in 0 .. n |-> IF k = 0 THEN 0 ELSE sum[k - 1] + amounts[k]]
  BY <1>5
<1>8. DOMAIN sum = 0 .. n /\ sum[0] = 0
  BY <1>7
<1>9. ASSUME NEW k \in 1 .. n PROVE sum[k] = sum[k - 1] + amounts[k]
  <2>1. k \in 0 .. n /\ k # 0
    OBVIOUS
  <2>2. sum[k] = IF k = 0 THEN 0 ELSE sum[k - 1] + amounts[k]
    BY <1>7, <2>1, Zenon
  <2> QED BY <2>1, <2>2, Zenon
<1> DEFINE Good == {k \in Nat : k <= n => sum[k] \in Nat}
<1>10. Nat \subseteq Good
  <2>1. 0 \in Good
    BY <1>8
  <2>2. ASSUME NEW k \in Nat, k \in Good PROVE k + 1 \in Good
    <3> SUFFICES ASSUME k + 1 <= n PROVE sum[k + 1] \in Nat
      OBVIOUS
    <3>1. sum[k] \in Nat /\ k + 1 \in 1 .. n /\ (k + 1) - 1 = k
      BY <2>2
    <3>2. sum[k + 1] = sum[k] + amounts[k + 1]
      BY <1>9, <3>1
    <3> QED BY <3>1, <3>2
  <2> HIDE DEF Good
  <2> QED BY <2>1, <2>2, Induction
<1>11. sum \in [0 .. n -> Nat]
  <2>1. \A k \in 0 .. n : sum[k] \in Nat
    BY <1>10
  <2>2. sum = [k \in 0 .. n |-> sum[k]]
    BY <1>7
  <2> QED BY <2>1, <2>2
<1>12. Sums(amounts, sum)
  <2>1. \A k \in (0 .. n) \ {0} : k \in 1 .. n
    OBVIOUS
  <2> QED BY <1>8, <1>9, <2>1 DEF Sums
<1> QED BY <1>6, <1>11, <1>12 DEF Summed

\* A sum starts at 0 and grows by one amount at a step.
LEMMA UptoSteps ==
  ASSUME NEW n \in Nat, NEW amounts, \A k \in 1 .. n : amounts[k] \in Nat
  PROVE  /\ Upto(amounts, 0) = 0
         /\ \A k \in 0 .. n : Upto(amounts, k) \in Nat
         /\ \A k \in 1 .. n : Upto(amounts, k) = Upto(amounts, k - 1) + amounts[k]
<1>1. PICK f \in [0 .. n -> Nat] : Sums(amounts, f)
  BY UptoRuns DEF Summed
<1>2. f[0] = 0 /\ \A k \in 1 .. n : f[k] = f[k - 1] + amounts[k]
  BY <1>1 DEF Sums
<1>3. ASSUME NEW k \in 0 .. n PROVE Upto(amounts, k) = f[k]
  <2>1. PICK g \in [0 .. k -> Nat] : Sums(amounts, g) /\ Upto(amounts, k) = g[k]
    <3>1. k \in Nat /\ \A i \in 1 .. k : amounts[i] \in Nat
      OBVIOUS
    <3>2. Summed(amounts, k)
      BY <3>1, UptoRuns
    <3> QED BY <3>2 DEF Summed
  <2>2. g[0] = 0 /\ \A i \in 1 .. k : g[i] = g[i - 1] + amounts[i]
    BY <2>1 DEF Sums
  <2> DEFINE Same == {i \in Nat : i <= k => f[i] = g[i]}
  <2>3. 0 \in Same
    BY <1>2, <2>2
  <2>4. ASSUME NEW i \in Nat, i \in Same PROVE i + 1 \in Same
    <3> SUFFICES ASSUME i + 1 <= k PROVE f[i + 1] = g[i + 1]
      OBVIOUS
    <3>1. i + 1 \in 1 .. k /\ i + 1 \in 1 .. n /\ (i + 1) - 1 = i /\ f[i] = g[i]
      BY <2>4
    <3> QED BY <1>2, <2>2, <3>1
  <2>5. Nat \subseteq Same
    <3> HIDE DEF Same
    <3> QED BY <2>3, <2>4, Induction
  <2> QED BY <2>1, <2>5
<1>4. \A k \in 1 .. n : k \in 0 .. n /\ k - 1 \in 0 .. n
  OBVIOUS
<1>5. 0 \in 0 .. n
  OBVIOUS
<1>6. Upto(amounts, 0) = 0
  BY <1>2, <1>3, <1>5
<1>7. \A k \in 0 .. n : Upto(amounts, k) \in Nat
  BY <1>3
<1>8. ASSUME NEW k \in 1 .. n PROVE Upto(amounts, k) = Upto(amounts, k - 1) + amounts[k]
  <2>1. Upto(amounts, k) = f[k] /\ Upto(amounts, k - 1) = f[k - 1]
    BY <1>3, <1>4
  <2> QED BY <1>2, <2>1
<1> QED BY <1>6, <1>7, <1>8

\* Of two sums of the same amounts the longer is not the smaller.
LEMMA UptoGrows ==
  ASSUME NEW n \in Nat, NEW amounts, \A k \in 1 .. n : amounts[k] \in Nat,
         NEW i \in 0 .. n, NEW j \in i .. n
  PROVE  Upto(amounts, i) <= Upto(amounts, j)
<1> DEFINE Good == {k \in Nat : i + k <= n => Upto(amounts, i) <= Upto(amounts, i + k)}
<1>1. 0 \in Good
  <2>1. Upto(amounts, i) \in Nat /\ i + 0 = i
    BY UptoSteps
  <2> QED BY <2>1
<1>2. ASSUME NEW k \in Nat, k \in Good PROVE k + 1 \in Good
  <2> SUFFICES ASSUME i + (k + 1) <= n PROVE Upto(amounts, i) <= Upto(amounts, i + (k + 1))
    OBVIOUS
  <2> DEFINE m == i + k
  <2>1. m \in 0 .. n /\ m + 1 \in 1 .. n /\ (m + 1) - 1 = m /\ i + (k + 1) = m + 1
    OBVIOUS
  <2>2. Upto(amounts, i) <= Upto(amounts, m)
    BY <1>2
  <2> HIDE DEF m
  <2>3. Upto(amounts, m + 1) = Upto(amounts, m) + amounts[m + 1]
    BY <2>1, UptoSteps
  <2>4. /\ Upto(amounts, i) \in Nat /\ Upto(amounts, m) \in Nat /\ amounts[m + 1] \in Nat
    BY <2>1, UptoSteps
  <2> QED BY <2>1, <2>2, <2>3, <2>4
<1>3. j - i \in Nat /\ i + (j - i) = j
  OBVIOUS
<1>4. Nat \subseteq Good
  <2> HIDE DEF Good
  <2> QED BY <1>1, <1>2, Induction
<1> QED BY <1>3, <1>4
-----------------------------------------------------------------------------
(* What a sequence of clicks does.                                          *)

\* What is clicked on: the slots of the window and the cursor.
Hands == [menu : Menus, cursor : 0 .. MaxStack]
Clicks == [slot : Slots, button : {"left", "right"}]
After(h, c) == Clicked(h.menu, h.cursor, c)
Holding(m, n) == [menu |-> m, cursor |-> n]

Traces(f, h, clicks, g) ==
  /\ f[0] = h /\ f[Len(clicks)] = g
  /\ \A n \in 1 .. Len(clicks) : f[n] = After(f[n - 1], clicks[n])
Leads(h, clicks, g) == \E f \in [0 .. Len(clicks) -> Hands] : Traces(f, h, clicks, g)

\* The smaller of two numbers.
LEMMA MinOfTwo ==
  ASSUME NEW a \in Int, NEW b \in Int
  PROVE  /\ a <= b => Min({a, b}) = a
         /\ b <= a => Min({a, b}) = b
BY DEF Min

\* A click leaves every slot and the cursor with 0 to MaxStack items.
LEMMA ClickTyped ==
  ASSUME NEW h \in Hands, NEW c \in Clicks
  PROVE  After(h, c) \in Hands
<1> DEFINE m == h.menu
           n == h.cursor
           s == c.slot
<1>1. m \in Menus /\ n \in 0 .. MaxStack /\ s \in Slots /\ MaxStack \in Nat \ {0}
  BY TransferPlanAssumption DEF Hands, Clicks
<1>2. m[s] \in 0 .. MaxStack
  BY <1>1 DEF Menus
<1> HIDE DEF m, n, s
<1>3. ASSUME NEW a \in 0 .. MaxStack, NEW b \in 0 .. MaxStack
      PROVE  [menu |-> [m EXCEPT ![s] = a], cursor |-> b] \in Hands
  BY <1>1 DEF Hands, Menus
<1>4. LeftClick(m, n, s) \in Hands
  <2>1. CASE n = 0
    <3>1. 0 \in 0 .. MaxStack
      BY <1>1
    <3> QED BY <1>2, <1>3, <2>1, <3>1 DEF LeftClick
  <2>2. CASE n # 0
    <3> DEFINE k == Min({n, MaxStack - m[s]})
    <3>1. k \in Nat /\ k <= n /\ k <= MaxStack - m[s]
      BY <1>1, <1>2, MinOfTwo
    <3> HIDE DEF k
    <3>2. m[s] + k \in 0 .. MaxStack /\ n - k \in 0 .. MaxStack
      BY <1>1, <1>2, <3>1
    <3>3. LeftClick(m, n, s) = [menu |-> [m EXCEPT ![s] = m[s] + k], cursor |-> n - k]
      BY <1>1, <2>2 DEF LeftClick, k, Menus
    <3> QED BY <1>3, <3>2, <3>3
  <2> QED BY <2>1, <2>2
<1>5. RightClick(m, n, s) \in Hands
  <2>1. CASE n = 0
    <3>1. m[s] \div 2 \in 0 .. MaxStack /\ (m[s] + 1) \div 2 \in 0 .. MaxStack
      BY <1>1, <1>2
    <3>2. RightClick(m, n, s) =
            [menu |-> [m EXCEPT ![s] = m[s] \div 2], cursor |-> (m[s] + 1) \div 2]
      BY <1>1, <2>1 DEF RightClick, Menus
    <3> QED BY <1>3, <3>1, <3>2
  <2>2. CASE n # 0
    <3> DEFINE k == Min({1, MaxStack - m[s]})
    <3>1. k \in Nat /\ k <= 1 /\ k <= MaxStack - m[s]
      BY <1>1, <1>2, MinOfTwo
    <3> HIDE DEF k
    <3>2. m[s] + k \in 0 .. MaxStack /\ n - k \in 0 .. MaxStack
      BY <1>1, <1>2, <2>2, <3>1
    <3>3. RightClick(m, n, s) = [menu |-> [m EXCEPT ![s] = m[s] + k], cursor |-> n - k]
      BY <1>1, <2>2 DEF RightClick, k, Menus
    <3> QED BY <1>3, <3>2, <3>3
  <2> QED BY <2>1, <2>2
<1> QED BY <1>4, <1>5 DEF After, Clicked, m, n, s

\* No click leads from a state to itself and nowhere else.
LEMMA LeadsNowhere ==
  ASSUME NEW h \in Hands
  PROVE  /\ Leads(h, <<>>, h)
         /\ \A g : Leads(h, <<>>, g) => g = h
<1>1. Len(<<>>) = 0 /\ 1 .. 0 = {}
  OBVIOUS
<1>2. Leads(h, <<>>, h)
  <2>1. [n \in 0 .. 0 |-> h] \in [0 .. 0 -> Hands]
    OBVIOUS
  <2>2. Traces([n \in 0 .. 0 |-> h], h, <<>>, h)
    BY <1>1 DEF Traces
  <2> QED BY <1>1, <2>1, <2>2 DEF Leads
<1>3. ASSUME NEW g, Leads(h, <<>>, g) PROVE g = h
  BY <1>1, <1>3 DEF Leads, Traces
<1> QED BY <1>2, <1>3

\* One click leads to what the click makes.
LEMMA LeadsOnce ==
  ASSUME NEW h \in Hands, NEW c \in Clicks
  PROVE  Leads(h, <<c>>, After(h, c))
<1> DEFINE f == [n \in 0 .. 1 |-> IF n = 0 THEN h ELSE After(h, c)]
<1>1. After(h, c) \in Hands
  BY ClickTyped
<1>2. Len(<<c>>) = 1 /\ <<c>>[1] = c
  OBVIOUS
<1>3. f \in [0 .. 1 -> Hands] /\ f[0] = h /\ f[1] = After(h, c)
  BY <1>1
<1> HIDE DEF f
<1>4. Traces(f, h, <<c>>, After(h, c))
  <2>1. \A n \in 1 .. 1 : n = 1 /\ n - 1 = 0
    OBVIOUS
  <2> QED BY <1>2, <1>3, <2>1 DEF Traces
<1> QED BY <1>2, <1>3, <1>4 DEF Leads

\* What a sequence of clicks leads from and to is a state of the window.
LEMMA LeadsTyped ==
  ASSUME NEW clicks \in Seq(Clicks), NEW h, NEW g, Leads(h, clicks, g)
  PROVE  h \in Hands /\ g \in Hands
<1>1. Len(clicks) \in Nat
  BY LenProperties
<1>2. 0 \in 0 .. Len(clicks) /\ Len(clicks) \in 0 .. Len(clicks)
  BY <1>1
<1> QED BY <1>2 DEF Leads, Traces

\* Where one sequence ends another can begin.
LEMMA LeadsOn ==
  ASSUME NEW a \in Seq(Clicks), NEW b \in Seq(Clicks), NEW h, NEW g, NEW k,
         Leads(h, a, g), Leads(g, b, k)
  PROVE  Leads(h, a \o b, k)
<1> DEFINE A == Len(a)
           B == Len(b)
<1>0. A \in Nat /\ B \in Nat
  BY LenProperties
<1>1. PICK e \in [0 .. A -> Hands] : Traces(e, h, a, g)
  BY DEF Leads
<1>2. PICK f \in [0 .. B -> Hands] : Traces(f, g, b, k)
  BY DEF Leads
<1>3. /\ a \o b \in Seq(Clicks) /\ Len(a \o b) = A + B
      /\ \A i \in 1 .. A + B : (a \o b)[i] = IF i <= A THEN a[i] ELSE b[i - A]
  BY ConcatProperties
<1>4. e[0] = h /\ e[A] = g /\ \A n \in 1 .. A : e[n] = After(e[n - 1], a[n])
  BY <1>1 DEF Traces
<1>5. f[0] = g /\ f[B] = k /\ \A n \in 1 .. B : f[n] = After(f[n - 1], b[n])
  BY <1>2 DEF Traces
<1> DEFINE ab == a \o b
<1> HIDE DEF A, B, ab
<1> DEFINE d == [n \in 0 .. A + B |-> IF n <= A THEN e[n] ELSE f[n - A]]
<1>6. d \in [0 .. A + B -> Hands]
  <2>1. ASSUME NEW n \in 0 .. A + B PROVE (IF n <= A THEN e[n] ELSE f[n - A]) \in Hands
    <3>1. n <= A => n \in 0 .. A
      BY <1>0
    <3>2. ~(n <= A) => n - A \in 0 .. B
      BY <1>0
    <3> QED BY <1>1, <1>2, <3>1, <3>2
  <2> QED BY <2>1
<1>7. \A n \in 0 .. A : d[n] = e[n]
  BY <1>0
<1>8. \A n \in 0 .. B : d[A + n] = f[n]
  <2>1. ASSUME NEW n \in 0 .. B PROVE d[A + n] = f[n]
    <3>1. CASE n = 0
      BY <1>0, <1>4, <1>5, <3>1
    <3>2. CASE n # 0
      <4>1. A + n \in 0 .. A + B /\ ~(A + n <= A) /\ (A + n) - A = n
        BY <1>0, <3>2
      <4> QED BY <4>1
    <3> QED BY <3>1, <3>2
  <2> QED BY <2>1
<1> HIDE DEF d
<1>9. d[0] = h /\ d[A + B] = k
  <2>1. 0 \in 0 .. A /\ B \in 0 .. B
    BY <1>0
  <2> QED BY <1>4, <1>5, <1>7, <1>8, <2>1
<1>10. ASSUME NEW n \in 1 .. A + B PROVE d[n] = After(d[n - 1], ab[n])
  <2>0. ab[n] = IF n <= A THEN a[n] ELSE b[n - A]
    BY <1>3 DEF ab
  <2>1. CASE n <= A
    <3>1. n \in 1 .. A /\ n \in 0 .. A /\ n - 1 \in 0 .. A
      BY <1>0, <2>1
    <3>2. d[n] = e[n] /\ d[n - 1] = e[n - 1] /\ ab[n] = a[n]
      BY <1>7, <2>0, <2>1, <3>1
    <3> QED BY <1>4, <3>1, <3>2
  <2>2. CASE ~(n <= A)
    <3> DEFINE m == n - A
    <3>1. /\ m \in 1 .. B /\ m \in 0 .. B /\ m - 1 \in 0 .. B
          /\ A + m = n /\ A + (m - 1) = n - 1
      BY <1>0, <2>2
    <3>2. ab[n] = b[m]
      BY <2>0, <2>2
    <3> HIDE DEF m
    <3>3. d[n] = f[m] /\ d[n - 1] = f[m - 1]
      BY <1>8, <3>1
    <3> QED BY <1>5, <3>1, <3>2, <3>3
  <2> QED BY <2>1, <2>2
<1>11. Traces(d, h, ab, k)
  BY <1>3, <1>9, <1>10 DEF Traces, ab
<1> QED BY <1>3, <1>6, <1>11 DEF Leads, ab

\* After the first click, the rest of a sequence leads where the whole did.
LEMMA LeadsAfterwards ==
  ASSUME NEW clicks \in Seq(Clicks), clicks # <<>>, NEW h, NEW g, Leads(h, clicks, g)
  PROVE  Leads(After(h, Head(clicks)), Tail(clicks), g)
<1> DEFINE N == Len(clicks)
           t == Tail(clicks)
<1>0. N \in Nat \ {0}
  BY EmptySeq
<1>1. PICK f \in [0 .. N -> Hands] : Traces(f, h, clicks, g)
  BY DEF Leads
<1>2. f[0] = h /\ f[N] = g /\ \A n \in 1 .. N : f[n] = After(f[n - 1], clicks[n])
  BY <1>1 DEF Traces
<1>3. Len(t) = N - 1 /\ \A i \in 1 .. N - 1 : t[i] = clicks[i + 1]
  BY HeadTailProperties
<1>4. Head(clicks) = clicks[1]
  OBVIOUS
<1> HIDE DEF N, t
<1> DEFINE e == [n \in 0 .. N - 1 |-> f[n + 1]]
<1>5. e \in [0 .. N - 1 -> Hands]
  BY <1>0, <1>1
<1>6. e[0] = After(h, Head(clicks)) /\ e[N - 1] = g
  <2>1. 1 \in 1 .. N /\ 0 \in 0 .. N - 1 /\ N - 1 \in 0 .. N - 1 /\ (N - 1) + 1 = N /\ 1 - 1 = 0
    BY <1>0
  <2>2. e[0] = f[1] /\ e[N - 1] = f[N]
    BY <2>1
  <2> HIDE DEF e
  <2> QED BY <1>2, <1>4, <2>1, <2>2
<1>7. ASSUME NEW n \in 1 .. N - 1 PROVE e[n] = After(e[n - 1], t[n])
  <2>1. /\ n \in 0 .. N - 1 /\ n - 1 \in 0 .. N - 1 /\ n + 1 \in 1 .. N
        /\ (n + 1) - 1 = n /\ (n - 1) + 1 = n
    BY <1>0
  <2>2. e[n] = f[n + 1] /\ e[n - 1] = f[n]
    BY <2>1
  <2> HIDE DEF e
  <2> QED BY <1>2, <1>3, <2>1, <2>2
<1>8. Traces(e, After(h, Head(clicks)), t, g)
  <2> HIDE DEF e
  <2> QED BY <1>3, <1>6, <1>7 DEF Traces
<1>9. Len(t) = N - 1
  BY <1>3
<1> HIDE DEF e
<1> QED BY <1>5, <1>8, <1>9 DEF Leads, t

\* Sequences of clicks laid end to end.
Flattens(seqs, f) ==
  /\ f[1] = seqs[1]
  /\ \A i \in 2 .. Len(seqs) : f[i] = f[i - 1] \o seqs[i]
Flattened(S, seqs) ==
  \E f \in [1 .. Len(seqs) -> S] : Flattens(seqs, f) /\ FlattenSeq(seqs) = f[Len(seqs)]

\* Flattening a sequence of sequences concatenates them one after another.
LEMMA FlattenRuns ==
  ASSUME NEW S, NEW seqs \in Seq(Seq(S)), Len(seqs) # 0
  PROVE  Flattened(Seq(S), seqs)
<1> DEFINE N == Len(seqs)
           T == Seq(S)
           step == [x \in (1 .. N) \X T |-> x[2] \o seqs[x[1]]]
           Is(f) == f = [i \in 1 .. N |-> IF i = 1 THEN seqs[i] ELSE f[i - 1] \o seqs[i]]
           flatten == CHOOSE f : Is(f)
<1>0. N \in Nat \ {0} /\ <<>> \in T
  BY LenProperties
<1>1. ASSUME NEW n \in 1 .. N PROVE seqs[n] \in T
  BY ElementOfSeq
<1>2. step \in [(1 .. N) \X T -> T]
  <2>1. ASSUME NEW x \in (1 .. N) \X T PROVE x[2] \o seqs[x[1]] \in T
    BY <1>1, ConcatProperties
  <2> QED BY <2>1
<1>3. PICK f \in [0 .. N -> T] : f[0] = <<>> /\ \A n \in 1 .. N : f[n] = step[<<n, f[n - 1]>>]
  <2> HIDE DEF step, N, T
  <2>1. Unrolls(T, <<>>, step, N)
    BY <1>0, <1>2, Unrolling
  <2> QED BY <2>1 DEF Unrolls
<1> HIDE DEF N
<1>4. ASSUME NEW n \in 1 .. N PROVE f[n] = f[n - 1] \o seqs[n]
  <2>1. n - 1 \in 0 .. N
    BY <1>0
  <2>2. <<n, f[n - 1]>> \in (1 .. N) \X T
    BY <1>3, <2>1
  <2> QED BY <1>3, <2>2
<1>5. f[1] = seqs[1]
  <2>1. 1 \in 1 .. N /\ 1 - 1 = 0
    BY <1>0
  <2>2. f[1] = f[1 - 1] \o seqs[1] /\ f[1 - 1] = <<>>
    <3> HIDE DEF T
    <3>1. f[1] = f[1 - 1] \o seqs[1]
      BY <1>4, <2>1
    <3> QED BY <1>3, <2>1, <3>1
  <2> QED BY <1>1, <2>1, <2>2, ConcatEmptySeq
<1> DEFINE g == [i \in 1 .. N |-> f[i]]
<1>6. g \in [1 .. N -> T]
  BY <1>0, <1>3
<1>7. g[1] = seqs[1] /\ \A i \in 2 .. N : g[i] = g[i - 1] \o seqs[i]
  <2>1. 1 \in 1 .. N /\ \A i \in 2 .. N : i \in 1 .. N /\ i - 1 \in 1 .. N
    BY <1>0
  <2> QED BY <1>4, <1>5, <2>1
<1> HIDE DEF g, step
<1>8. Is(g)
  <2>1. ASSUME NEW i \in 1 .. N PROVE g[i] = IF i = 1 THEN seqs[i] ELSE g[i - 1] \o seqs[i]
    <3>1. i # 1 => i \in 2 .. N
      BY <1>0
    <3> HIDE DEF T
    <3> QED BY <1>7, <3>1
  <2> HIDE DEF T
  <2> QED BY <1>6, <2>1
<1>9. Is(flatten)
  <2> HIDE DEF Is
  <2> QED BY <1>8
<1>10. FlattenSeq(seqs) = flatten[N]
  BY <1>0 DEF FlattenSeq, N
<1> HIDE DEF flatten
<1>11. flatten = [i \in 1 .. N |-> IF i = 1 THEN seqs[i] ELSE flatten[i - 1] \o seqs[i]]
  BY <1>9
<1>12. flatten[1] = seqs[1] /\ \A i \in 2 .. N : flatten[i] = flatten[i - 1] \o seqs[i]
  <2>1. 1 \in 1 .. N /\ \A i \in 2 .. N : i \in 1 .. N /\ i # 1
    BY <1>0
  <2>2. flatten[1] = seqs[1]
    BY <1>11, <2>1, Zenon
  <2>3. ASSUME NEW i \in 2 .. N PROVE flatten[i] = flatten[i - 1] \o seqs[i]
    <3>1. flatten[i] = IF i = 1 THEN seqs[i] ELSE flatten[i - 1] \o seqs[i]
      BY <1>11, <2>1, Zenon
    <3> QED BY <2>1, <3>1, Zenon
  <2> QED BY <2>2, <2>3
<1> DEFINE Good == {k \in Nat : k + 1 <= N => flatten[k + 1] = g[k + 1]}
<1>13. Nat \subseteq Good
  <2>1. 0 \in Good
    <3>1. 0 + 1 = 1
      OBVIOUS
    <3> QED BY <1>7, <1>12, <3>1
  <2>2. ASSUME NEW k \in Nat, k \in Good PROVE k + 1 \in Good
    <3> DEFINE i == (k + 1) + 1
    <3> SUFFICES ASSUME i <= N PROVE flatten[i] = g[i]
      OBVIOUS
    <3>1. i \in 2 .. N /\ i - 1 = k + 1 /\ flatten[k + 1] = g[k + 1]
      BY <1>0, <2>2
    <3> HIDE DEF i
    <3> QED BY <1>7, <1>12, <3>1
  <2> HIDE DEF Good
  <2> QED BY <2>1, <2>2, Induction
<1>14. flatten[N] = g[N]
  <2>1. N - 1 \in Nat /\ (N - 1) + 1 = N /\ N <= N
    BY <1>0
  <2>2. N - 1 \in Good
    <3> HIDE DEF Good
    <3> QED BY <1>13, <2>1
  <2> HIDE DEF flatten, g
  <2>3. (N - 1) + 1 <= N => flatten[(N - 1) + 1] = g[(N - 1) + 1]
    BY <2>2
  <2> QED BY <2>1, <2>3
<1>15. Flattens(seqs, g)
  BY <1>7 DEF Flattens, N
<1> QED BY <1>6, <1>10, <1>14, <1>15 DEF Flattened, N

\* Sequences that lead from each point to the next lead, flattened, from the first to
\* the last.
LEMMA LeadsThrough ==
  ASSUME NEW seqs \in Seq(Seq(Clicks)), NEW n, n = Len(seqs), n # 0, NEW at,
         \A i \in 1 .. n : Leads(at[i - 1], seqs[i], at[i])
  PROVE  /\ Leads(at[0], FlattenSeq(seqs), at[n])
         /\ FlattenSeq(seqs) \in Seq(Clicks)
<1>0. n \in Nat \ {0}
  BY LenProperties
<1>1. PICK f \in [1 .. n -> Seq(Clicks)] : Flattens(seqs, f) /\ FlattenSeq(seqs) = f[n]
  BY FlattenRuns DEF Flattened
<1>2. f[1] = seqs[1] /\ \A i \in 2 .. n : f[i] = f[i - 1] \o seqs[i]
  BY <1>1 DEF Flattens
<1>3. \A i \in 1 .. n : seqs[i] \in Seq(Clicks)
  BY ElementOfSeq
<1> DEFINE Good == {k \in Nat : k + 1 <= n => Leads(at[0], f[k + 1], at[k + 1])}
<1>4. 0 \in Good
  <2>1. 1 \in 1 .. n /\ 1 - 1 = 0 /\ 0 + 1 = 1
    BY <1>0
  <2>2. Leads(at[0], seqs[1], at[1])
    BY <2>1
  <2> QED BY <1>2, <2>1, <2>2
<1>5. ASSUME NEW k \in Nat, k \in Good PROVE k + 1 \in Good
  <2> DEFINE i == (k + 1) + 1
  <2> SUFFICES ASSUME i <= n PROVE Leads(at[0], f[i], at[i])
    OBVIOUS
  <2>1. i \in 2 .. n /\ i \in 1 .. n /\ i - 1 \in 1 .. n /\ i - 1 = k + 1
    BY <1>0
  <2>2. Leads(at[0], f[i - 1], at[i - 1])
    BY <1>5, <2>1
  <2> HIDE DEF i
  <2>3. f[i - 1] \in Seq(Clicks) /\ seqs[i] \in Seq(Clicks) /\ Leads(at[i - 1], seqs[i], at[i])
    BY <1>1, <1>3, <2>1
  <2>4. Leads(at[0], f[i - 1] \o seqs[i], at[i])
    BY <2>2, <2>3, LeadsOn
  <2> QED BY <1>2, <2>1, <2>4
<1>6. Nat \subseteq Good
  <2> HIDE DEF Good
  <2> QED BY <1>4, <1>5, Induction
<1>7. n - 1 \in Nat /\ (n - 1) + 1 = n /\ n \in 1 .. n /\ n <= n
  BY <1>0
<1>8. Leads(at[0], f[n], at[n])
  <2>1. \A k \in Nat : k + 1 <= n => Leads(at[0], f[k + 1], at[k + 1])
    BY <1>6
  <2> QED BY <1>7, <2>1
<1> QED BY <1>1, <1>7, <1>8

\* n items from slot s to slot d.
Moved(m, s, d, n) == [m EXCEPT ![s] = @ - n, ![d] = @ + n]

\* Items moved from a slot to another that has room for them leave a menu.
LEMMA MovedTyped ==
  ASSUME NEW m \in Menus, NEW s \in Slots, NEW d \in Slots, s # d,
         NEW n \in Nat, n <= m[s], m[d] + n <= MaxStack
  PROVE  /\ Moved(m, s, d, n) \in Menus
         /\ Moved(m, s, d, n)[s] = m[s] - n
         /\ Moved(m, s, d, n)[d] = m[d] + n
         /\ \A t \in Slots \ {s, d} : Moved(m, s, d, n)[t] = m[t]
<1>1. MaxStack \in Nat /\ m[s] \in 0 .. MaxStack /\ m[d] \in 0 .. MaxStack
  BY TransferPlanAssumption DEF Menus
<1>2. m[s] - n \in 0 .. MaxStack /\ m[d] + n \in 0 .. MaxStack
  BY <1>1
<1>3. Moved(m, s, d, n) =
        [t \in Slots |-> IF t = s THEN m[s] - n ELSE IF t = d THEN m[d] + n ELSE m[t]]
  BY DEF Moved, Menus
<1> QED BY <1>2, <1>3 DEF Menus

\* A whole stack.
LEMMA PutWholeLeads ==
  ASSUME NEW m \in Menus, NEW s \in Slots, NEW d \in Slots, s # d,
         m[s] > 0, m[d] + m[s] <= MaxStack
  PROVE  /\ PutWhole(s, d) \in Seq(Clicks)
         /\ Leads(Holding(m, 0), PutWhole(s, d), Holding(Moved(m, s, d, m[s]), 0))
<1>1. MaxStack \in Nat /\ m[s] \in 0 .. MaxStack /\ m[d] \in 0 .. MaxStack
  BY TransferPlanAssumption DEF Menus
<1>2. Left(s) \in Clicks /\ Left(d) \in Clicks
  BY DEF Left, Clicks
<1> DEFINE h0 == Holding(m, 0)
           m1 == [m EXCEPT ![s] = 0]
           h1 == Holding(m1, m[s])
           h2 == Holding(Moved(m, s, d, m[s]), 0)
<1>3. h0 \in Hands
  BY <1>1 DEF Holding, Hands
<1>4. After(h0, Left(s)) = h1
  BY DEF After, Clicked, Left, LeftClick, Holding
<1>5. m1 \in Menus /\ m1[d] = m[d] /\ h1 \in Hands
  BY <1>1 DEF Menus, Holding, Hands
<1>6. After(h1, Left(d)) = h2
  <2>1. Min({m[s], MaxStack - m1[d]}) = m[s]
    BY <1>1, <1>5, MinOfTwo
  <2>2. [m1 EXCEPT ![d] = @ + m[s]] = Moved(m, s, d, m[s])
    <3>1. [m1 EXCEPT ![d] = @ + m[s]]
            = [t \in Slots |-> IF t = d THEN m[d] + m[s] ELSE IF t = s THEN 0 ELSE m[t]]
      BY DEF Menus
    <3>2. Moved(m, s, d, m[s])
            = [t \in Slots |-> IF t = d THEN m[d] + m[s] ELSE IF t = s THEN m[s] - m[s] ELSE m[t]]
      BY DEF Menus, Moved
    <3>3. m[s] - m[s] = 0
      BY <1>1
    <3> QED BY <3>1, <3>2, <3>3
  <2>3. m[s] # 0 /\ m[s] - m[s] = 0
    BY <1>1
  <2>4. After(h1, Left(d)) = LeftClick(m1, m[s], d)
    BY DEF After, Clicked, Left, Holding
  <2> HIDE DEF m1
  <2>5. LeftClick(m1, m[s], d) =
          [menu |-> [m1 EXCEPT ![d] = @ + Min({m[s], MaxStack - m1[d]})],
           cursor |-> m[s] - Min({m[s], MaxStack - m1[d]})]
    BY <2>3 DEF LeftClick
  <2> QED BY <2>1, <2>2, <2>3, <2>4, <2>5 DEF Holding
<1> HIDE DEF h0, h1, h2, m1
<1>7. Leads(h0, <<Left(s)>>, h1) /\ Leads(h1, <<Left(d)>>, h2)
  BY <1>2, <1>3, <1>4, <1>5, <1>6, LeadsOnce
<1>8. <<Left(s)>> \in Seq(Clicks) /\ <<Left(d)>> \in Seq(Clicks)
  BY <1>2
<1>9. PutWhole(s, d) = <<Left(s)>> \o <<Left(d)>>
  BY DEF PutWhole
<1>10. Leads(h0, PutWhole(s, d), h2) /\ PutWhole(s, d) \in Seq(Clicks)
  BY <1>7, <1>8, <1>9, LeadsOn, ConcatProperties
<1> QED BY <1>10 DEF h0, h2

\* Items put down one by one, while the cursor lasts and there is room.
LEMMA PutOnesLeads ==
  ASSUME NEW m \in Menus, NEW d \in Slots, NEW c \in 0 .. MaxStack,
         NEW n \in Nat, n <= c, m[d] + n <= MaxStack
  PROVE  /\ [k \in 1 .. n |-> Right(d)] \in Seq(Clicks)
         /\ Leads(Holding(m, c), [k \in 1 .. n |-> Right(d)],
                  Holding([m EXCEPT ![d] = @ + n], c - n))
<1> DEFINE clicks == [k \in 1 .. n |-> Right(d)]
           at(k) == Holding([m EXCEPT ![d] = m[d] + k], c - k)
           f == [k \in 0 .. n |-> at(k)]
<1>1. MaxStack \in Nat /\ m[d] \in 0 .. MaxStack /\ c \in Nat
  BY TransferPlanAssumption DEF Menus
<1>2. Right(d) \in Clicks
  BY DEF Right, Clicks
<1>3. clicks \in Seq(Clicks) /\ Len(clicks) = n /\ \A k \in 1 .. n : clicks[k] = Right(d)
  BY <1>2
<1>4. ASSUME NEW k \in 0 .. n PROVE at(k) \in Hands
  <2>1. m[d] + k \in 0 .. MaxStack /\ c - k \in 0 .. MaxStack
    BY <1>1
  <2> QED BY <2>1 DEF Holding, Hands, Menus
<1>5. ASSUME NEW k \in 1 .. n PROVE at(k) = After(at(k - 1), Right(d))
  <2> DEFINE a == m[d] + (k - 1)
             m1 == [m EXCEPT ![d] = a]
             b == c - (k - 1)
  <2>1. a \in Nat /\ b \in Nat /\ b # 0 /\ a < MaxStack /\ a + 1 = m[d] + k /\ b - 1 = c - k
    BY <1>1
  <2>2. m1[d] = a /\ [m1 EXCEPT ![d] = m1[d] + 1] = [m EXCEPT ![d] = a + 1]
    BY DEF Menus
  <2>3. at(k - 1) = Holding(m1, b)
    OBVIOUS
  <2>4. at(k) = Holding([m EXCEPT ![d] = a + 1], b - 1)
    BY <2>1
  <2> HIDE DEF a, b, m1, at
  <2>5. Min({1, MaxStack - m1[d]}) = 1
    BY <1>1, <2>1, <2>2, MinOfTwo
  <2>6. After(Holding(m1, b), Right(d)) = RightClick(m1, b, d)
    BY DEF After, Clicked, Right, Holding
  <2>7. RightClick(m1, b, d) =
          [menu |-> [m1 EXCEPT ![d] = m1[d] + Min({1, MaxStack - m1[d]})],
           cursor |-> b - Min({1, MaxStack - m1[d]})]
    BY <2>1 DEF RightClick
  <2> QED BY <2>2, <2>3, <2>4, <2>5, <2>6, <2>7 DEF Holding
<1>6. at(0) = Holding(m, c)
  <2>1. m[d] + 0 = m[d] /\ c - 0 = c
    BY <1>1
  <2>2. [m EXCEPT ![d] = m[d]] = m
    BY DEF Menus
  <2> QED BY <2>1, <2>2
<1>7. at(n) = Holding([m EXCEPT ![d] = @ + n], c - n)
  OBVIOUS
<1>8. f \in [0 .. n -> Hands] /\ \A k \in 0 .. n : f[k] = at(k)
  <2> HIDE DEF at
  <2> QED BY <1>4
<1> HIDE DEF f, at, clicks
<1>9. Traces(f, Holding(m, c), clicks, Holding([m EXCEPT ![d] = @ + n], c - n))
  <2>1. 0 \in 0 .. n /\ n \in 0 .. n /\ \A k \in 1 .. n : k \in 0 .. n /\ k - 1 \in 0 .. n
    OBVIOUS
  <2>2. f[0] = Holding(m, c) /\ f[n] = Holding([m EXCEPT ![d] = @ + n], c - n)
    BY <1>6, <1>7, <1>8, <2>1
  <2>3. ASSUME NEW k \in 1 .. n PROVE f[k] = After(f[k - 1], clicks[k])
    <3>1. f[k] = at(k) /\ f[k - 1] = at(k - 1)
      BY <1>8, <2>1
    <3> QED BY <1>3, <1>5, <3>1
  <2> QED BY <1>3, <2>2, <2>3 DEF Traces
<1>10. Leads(Holding(m, c), clicks, Holding([m EXCEPT ![d] = @ + n], c - n))
  BY <1>3, <1>8, <1>9 DEF Leads
<1> QED BY <1>3, <1>10 DEF clicks

\* Some of a stack.
LEMMA PutSomeLeads ==
  ASSUME NEW m \in Menus, NEW s \in Slots, NEW d \in Slots, s # d,
         NEW n \in Nat, n < m[s], m[d] + n <= MaxStack
  PROVE  /\ PutSome(s, d, n) \in Seq(Clicks)
         /\ Leads(Holding(m, 0), PutSome(s, d, n), Holding(Moved(m, s, d, n), 0))
<1>1. MaxStack \in Nat /\ m[s] \in 0 .. MaxStack /\ m[d] \in 0 .. MaxStack
  BY TransferPlanAssumption DEF Menus
<1>2. Left(s) \in Clicks
  BY DEF Left, Clicks
<1> DEFINE c == m[s]
           m1 == [m EXCEPT ![s] = 0]
           m2 == [m1 EXCEPT ![d] = @ + n]
           ones == [k \in 1 .. n |-> Right(d)]
           h0 == Holding(m, 0)
           h1 == Holding(m1, c)
           h2 == Holding(m2, c - n)
           h3 == Holding(Moved(m, s, d, n), 0)
<1>3. h0 \in Hands
  BY <1>1 DEF Holding, Hands
<1>4. After(h0, Left(s)) = h1
  BY DEF After, Clicked, Left, LeftClick, Holding
<1>5. m1 \in Menus /\ m1[d] = m[d] /\ m1[s] = 0
  BY <1>1 DEF Menus
<1>6. m2 = [t \in Slots |-> IF t = d THEN m[d] + n ELSE IF t = s THEN 0 ELSE m[t]]
  BY DEF Menus
<1>7. ones \in Seq(Clicks) /\ Leads(h1, ones, h2)
  <2>1. c \in 0 .. MaxStack /\ n <= c /\ m1[d] + n <= MaxStack
    BY <1>1, <1>5
  <2> HIDE DEF m1, c
  <2> QED BY <1>5, <2>1, PutOnesLeads
<1>8. h2 \in Hands
  BY <1>7, LeadsTyped
<1>9. After(h2, Left(s)) = h3
  <2>1. m2[s] = 0
    BY <1>6
  <2>2. /\ c - n # 0 /\ Min({c - n, MaxStack - 0}) = c - n
        /\ 0 + (c - n) = c - n /\ (c - n) - (c - n) = 0
    BY <1>1, MinOfTwo
  <2>3. [m2 EXCEPT ![s] = c - n] = Moved(m, s, d, n)
    <3>1. [m2 EXCEPT ![s] = c - n]
            = [t \in Slots |-> IF t = s THEN c - n ELSE IF t = d THEN m[d] + n ELSE m[t]]
      BY <1>6
    <3>2. Moved(m, s, d, n)
            = [t \in Slots |-> IF t = s THEN m[s] - n ELSE IF t = d THEN m[d] + n ELSE m[t]]
      BY DEF Menus, Moved
    <3> QED BY <3>1, <3>2
  <2>4. After(h2, Left(s)) = LeftClick(m2, c - n, s)
    BY DEF After, Clicked, Left, Holding
  <2> HIDE DEF m2, c
  <2>5. LeftClick(m2, c - n, s) =
          [menu |-> [m2 EXCEPT ![s] = m2[s] + Min({c - n, MaxStack - m2[s]})],
           cursor |-> (c - n) - Min({c - n, MaxStack - m2[s]})]
    BY <2>2 DEF LeftClick
  <2> QED BY <2>1, <2>2, <2>3, <2>4, <2>5 DEF Holding
<1> HIDE DEF h0, h1, h2, h3, ones, m1, m2, c
<1>10. Leads(h0, <<Left(s)>>, h1) /\ Leads(h2, <<Left(s)>>, h3)
  BY <1>2, <1>3, <1>4, <1>8, <1>9, LeadsOnce
<1>11. <<Left(s)>> \in Seq(Clicks)
  BY <1>2
<1>12. PutSome(s, d, n) = (<<Left(s)>> \o ones) \o <<Left(s)>>
  BY DEF PutSome, ones
<1>13. Leads(h0, <<Left(s)>> \o ones, h2) /\ <<Left(s)>> \o ones \in Seq(Clicks)
  BY <1>7, <1>10, <1>11, LeadsOn, ConcatProperties
<1>14. Leads(h0, PutSome(s, d, n), h3) /\ PutSome(s, d, n) \in Seq(Clicks)
  BY <1>10, <1>11, <1>12, <1>13, LeadsOn, ConcatProperties
<1> QED BY <1>14 DEF h0, h3

-----------------------------------------------------------------------------
(* What the plan does.                                                      *)

\* The slots of one side are sources, those of the other destinations.
IsSource(dir, s) == (dir = "take") <=> (s <= ChestSlots)
Index(s) == IF s <= ChestSlots THEN s ELSE s - ChestSlots

\* The sources and the destinations of a transfer are different slots, each named once.
LEMMA SlotsOf ==
  ASSUME NEW dir \in Directions
  PROVE  /\ Sources(dir) \in Seq(Slots) /\ DOMAIN Sources(dir) = 1 .. Len(Sources(dir))
         /\ Destinations(dir) \in Seq(Slots)
         /\ DOMAIN Destinations(dir) = 1 .. Len(Destinations(dir))
         /\ Len(Sources(dir)) \in Nat \ {0} /\ Len(Destinations(dir)) \in Nat \ {0}
         /\ \A i \in 1 .. Len(Sources(dir)) :
              /\ Sources(dir)[i] \in Slots
              /\ IsSource(dir, Sources(dir)[i]) /\ Index(Sources(dir)[i]) = i
         /\ \A j \in 1 .. Len(Destinations(dir)) :
              /\ Destinations(dir)[j] \in Slots
              /\ ~IsSource(dir, Destinations(dir)[j]) /\ Index(Destinations(dir)[j]) = j
         /\ \A s \in Slots :
              IF IsSource(dir, s)
                THEN Index(s) \in 1 .. Len(Sources(dir)) /\ Sources(dir)[Index(s)] = s
                ELSE Index(s) \in 1 .. Len(Destinations(dir)) /\ Destinations(dir)[Index(s)] = s
<1>0. ChestSlots \in Nat \ {0} /\ PlayerSlots \in Nat \ {0}
  BY TransferPlanAssumption
<1>1. /\ ChestRange \in Seq(Slots) /\ Len(ChestRange) = ChestSlots
      /\ DOMAIN ChestRange = 1 .. ChestSlots
      /\ \A n \in 1 .. ChestSlots : ChestRange[n] = n
  <2>1. \A n \in 1 .. ChestSlots : n \in Slots
    BY <1>0 DEF Slots
  <2> QED BY <1>0, <2>1 DEF ChestRange
<1>2. /\ PlayerRange \in Seq(Slots) /\ Len(PlayerRange) = PlayerSlots
      /\ DOMAIN PlayerRange = 1 .. PlayerSlots
      /\ \A n \in 1 .. PlayerSlots : PlayerRange[n] = ChestSlots + n
  <2>1. \A n \in 1 .. PlayerSlots : ChestSlots + n \in Slots
    BY <1>0 DEF Slots
  <2> QED BY <1>0, <2>1 DEF PlayerRange
<1>3. \A n \in 1 .. ChestSlots : ChestRange[n] \in Slots /\ n <= ChestSlots /\ Index(n) = n
  BY <1>0, <1>1 DEF Slots, Index
<1>4. \A n \in 1 .. PlayerSlots :
        /\ PlayerRange[n] \in Slots
        /\ ~(ChestSlots + n <= ChestSlots) /\ Index(ChestSlots + n) = n
  BY <1>0, <1>2 DEF Slots, Index
<1>5. \A s \in Slots :
        IF s <= ChestSlots THEN Index(s) \in 1 .. ChestSlots /\ ChestRange[Index(s)] = s
        ELSE Index(s) \in 1 .. PlayerSlots /\ PlayerRange[Index(s)] = s
  <2>1. ASSUME NEW s \in Slots, s <= ChestSlots
        PROVE  Index(s) \in 1 .. ChestSlots /\ ChestRange[Index(s)] = s
    <3>1. s \in 1 .. ChestSlots /\ Index(s) = s
      BY <1>0, <2>1 DEF Slots, Index
    <3> QED BY <1>1, <3>1
  <2>2. ASSUME NEW s \in Slots, ~(s <= ChestSlots)
        PROVE  Index(s) \in 1 .. PlayerSlots /\ PlayerRange[Index(s)] = s
    <3>1. Index(s) \in 1 .. PlayerSlots /\ ChestSlots + Index(s) = s
      BY <1>0, <2>2 DEF Slots, Index
    <3> QED BY <1>2, <3>1
  <2> QED BY <2>1, <2>2
<1>6. CASE dir = "take"
  <2>1. Sources(dir) = ChestRange /\ Destinations(dir) = PlayerRange
    BY <1>6 DEF Sources, Destinations
  <2> HIDE DEF Index
  <2> QED BY <1>0, <1>1, <1>2, <1>3, <1>4, <1>5, <1>6, <2>1 DEF IsSource
<1>7. CASE dir = "store"
  <2>1. Sources(dir) = PlayerRange /\ Destinations(dir) = ChestRange
    BY <1>7 DEF Sources, Destinations
  <2>2. dir # "take"
    BY <1>7
  <2> HIDE DEF Index
  <2> QED BY <1>0, <1>1, <1>2, <1>3, <1>4, <1>5, <2>1, <2>2 DEF IsSource
<1> QED BY <1>6, <1>7 DEF Directions

\* What the stacks of the sources hold and what the destinations have room for.
LEMMA Amounts ==
  ASSUME NEW m \in Menus, NEW dir \in Directions
  PROVE  /\ \A i \in 1 .. Len(Sources(dir)) :
              /\ Stacks(m, dir)[i] = m[Sources(dir)[i]]
              /\ Stacks(m, dir)[i] \in 0 .. MaxStack /\ Stacks(m, dir)[i] \in Nat
         /\ \A j \in 1 .. Len(Destinations(dir)) :
              /\ Rooms(m, dir)[j] = MaxStack - m[Destinations(dir)[j]]
              /\ Rooms(m, dir)[j] \in 0 .. MaxStack /\ Rooms(m, dir)[j] \in Nat
<1>1. MaxStack \in Nat /\ \A s \in Slots : m[s] \in 0 .. MaxStack
  BY TransferPlanAssumption DEF Menus
<1>2. ASSUME NEW i \in 1 .. Len(Sources(dir))
      PROVE  /\ Stacks(m, dir)[i] = m[Sources(dir)[i]]
             /\ Stacks(m, dir)[i] \in 0 .. MaxStack
  <2>1. i \in DOMAIN Sources(dir) /\ Sources(dir)[i] \in Slots
    BY SlotsOf
  <2> QED BY <1>1, <2>1 DEF Stacks
<1>3. ASSUME NEW j \in 1 .. Len(Destinations(dir))
      PROVE  /\ Rooms(m, dir)[j] = MaxStack - m[Destinations(dir)[j]]
             /\ Rooms(m, dir)[j] \in 0 .. MaxStack
  <2>1. j \in DOMAIN Destinations(dir) /\ Destinations(dir)[j] \in Slots
    BY SlotsOf
  <2>2. Rooms(m, dir)[j] = MaxStack - m[Destinations(dir)[j]]
    BY <2>1 DEF Rooms
  <2>3. m[Destinations(dir)[j]] \in 0 .. MaxStack
    BY <1>1, <2>1
  <2> QED BY <1>1, <2>2, <2>3
<1>4. \A x \in 0 .. MaxStack : x \in Nat
  BY <1>1
<1> QED BY <1>2, <1>3, <1>4

\* How much of the i-th amount lies below p, when they are laid end to end.
Taken(amounts, i, p) ==
  IF p <= Upto(amounts, i - 1) THEN 0
  ELSE IF p >= Upto(amounts, i) THEN amounts[i] ELSE p - Upto(amounts, i - 1)

\* From each amount at least nothing and at most the whole is taken.
LEMMA TakenIs ==
  ASSUME NEW n \in Nat, NEW amounts, \A k \in 1 .. n : amounts[k] \in Nat,
         NEW i \in 1 .. n, NEW p \in Nat
  PROVE  /\ Taken(amounts, i, p) \in Nat /\ Taken(amounts, i, p) <= amounts[i]
         /\ Upto(amounts, i - 1) <= p /\ p <= Upto(amounts, i)
              => Taken(amounts, i, p) = p - Upto(amounts, i - 1)
<1>1. i - 1 \in 0 .. n /\ i \in 0 .. n
  OBVIOUS
<1>2. /\ Upto(amounts, i) = Upto(amounts, i - 1) + amounts[i]
      /\ Upto(amounts, i) \in Nat /\ Upto(amounts, i - 1) \in Nat /\ amounts[i] \in Nat
  BY <1>1, UptoSteps
<1> QED BY <1>2 DEF Taken

AllNat(amounts, n) == \A k \in 1 .. n : amounts[k] \in Nat
\* While the total taken stays within one amount, only that amount is drawn on.
LEMMA TakenStep ==
  ASSUME NEW n \in Nat, NEW amounts, AllNat(amounts, n),
         NEW i \in 1 .. n, NEW p \in Nat, NEW q \in Nat,
         Upto(amounts, i - 1) <= p, p <= q, q <= Upto(amounts, i)
  PROVE  /\ Taken(amounts, i, q) = Taken(amounts, i, p) + (q - p)
         /\ \A k \in (1 .. n) \ {i} : Taken(amounts, k, q) = Taken(amounts, k, p)
<1>0. \A k \in 1 .. n : amounts[k] \in Nat
  BY DEF AllNat
<1>1. i - 1 \in 0 .. n /\ i \in 0 .. n
  OBVIOUS
<1>2. /\ Upto(amounts, i) = Upto(amounts, i - 1) + amounts[i]
      /\ Upto(amounts, i) \in Nat /\ Upto(amounts, i - 1) \in Nat /\ amounts[i] \in Nat
  BY <1>0, <1>1, UptoSteps
<1>3. Taken(amounts, i, q) = Taken(amounts, i, p) + (q - p)
  BY <1>2 DEF Taken
<1>4. ASSUME NEW k \in (1 .. n) \ {i} PROVE Taken(amounts, k, q) = Taken(amounts, k, p)
  <2>1. k - 1 \in 0 .. n /\ k \in 0 .. n
    OBVIOUS
  <2>2. /\ Upto(amounts, k) = Upto(amounts, k - 1) + amounts[k]
        /\ Upto(amounts, k) \in Nat /\ Upto(amounts, k - 1) \in Nat /\ amounts[k] \in Nat
    BY <1>0, <2>1, UptoSteps
  <2>3. CASE k < i
    <3>1. i - 1 \in k .. n
      BY <2>3
    <3>2. Upto(amounts, k) <= Upto(amounts, i - 1)
      BY <2>1, <3>1, <1>0, UptoGrows
    <3> QED BY <1>2, <2>2, <3>2 DEF Taken
  <2>4. CASE k > i
    <3>1. k - 1 \in i .. n
      BY <2>4
    <3>2. Upto(amounts, i) <= Upto(amounts, k - 1)
      BY <1>1, <3>1, <1>0, UptoGrows
    <3> QED BY <1>2, <2>2, <3>2 DEF Taken
  <2> QED BY <2>3, <2>4
<1> QED BY <1>3, <1>4

\* The menu when p items have been carried.
MenuAt(m, dir, p) ==
  [s \in Slots |-> IF IsSource(dir, s) THEN m[s] - Taken(Stacks(m, dir), Index(s), p)
                   ELSE m[s] + Taken(Rooms(m, dir), Index(s), p)]

\* The menu after some items have been carried is a menu, with what each slot lost or
\* gained.
LEMMA MenuAtIs ==
  ASSUME NEW m \in Menus, NEW dir \in Directions, NEW p \in Nat
  PROVE  /\ MenuAt(m, dir, p) \in Menus
         /\ \A i \in 1 .. Len(Sources(dir)) :
              MenuAt(m, dir, p)[Sources(dir)[i]]
                = m[Sources(dir)[i]] - Taken(Stacks(m, dir), i, p)
         /\ \A j \in 1 .. Len(Destinations(dir)) :
              MenuAt(m, dir, p)[Destinations(dir)[j]]
                = m[Destinations(dir)[j]] + Taken(Rooms(m, dir), j, p)
<1> DEFINE a == Stacks(m, dir)
           r == Rooms(m, dir)
           after(s) == IF IsSource(dir, s) THEN m[s] - Taken(a, Index(s), p)
                       ELSE m[s] + Taken(r, Index(s), p)
<1>0. MaxStack \in Nat /\ \A s \in Slots : m[s] \in 0 .. MaxStack
  BY TransferPlanAssumption DEF Menus
<1>1. ASSUME NEW i \in 1 .. Len(Sources(dir))
      PROVE  Taken(a, i, p) \in Nat /\ Taken(a, i, p) <= a[i]
  <2>1. Len(Sources(dir)) \in Nat /\ \A k \in 1 .. Len(Sources(dir)) : a[k] \in Nat
    BY SlotsOf, Amounts
  <2> HIDE DEF a
  <2> QED BY <2>1, TakenIs
<1>2. ASSUME NEW j \in 1 .. Len(Destinations(dir))
      PROVE  Taken(r, j, p) \in Nat /\ Taken(r, j, p) <= r[j]
  <2>1. Len(Destinations(dir)) \in Nat /\ \A k \in 1 .. Len(Destinations(dir)) : r[k] \in Nat
    BY SlotsOf, Amounts
  <2> HIDE DEF r
  <2> QED BY <2>1, TakenIs
<1>3. ASSUME NEW s \in Slots PROVE after(s) \in 0 .. MaxStack
  <2>1. CASE IsSource(dir, s)
    <3> DEFINE i == Index(s)
    <3>1. i \in 1 .. Len(Sources(dir)) /\ Sources(dir)[i] = s
      BY <2>1, SlotsOf
    <3> HIDE DEF i
    <3>2. a[i] = m[s]
      BY <3>1, Amounts
    <3>3. Taken(a, i, p) \in Nat /\ Taken(a, i, p) <= m[s]
      BY <1>1, <3>1, <3>2
    <3>4. after(s) = m[s] - Taken(a, i, p)
      BY <2>1 DEF i
    <3> HIDE DEF after, a
    <3> QED BY <1>0, <3>3, <3>4
  <2>2. CASE ~IsSource(dir, s)
    <3> DEFINE j == Index(s)
    <3>1. j \in 1 .. Len(Destinations(dir)) /\ Destinations(dir)[j] = s
      BY <2>2, SlotsOf
    <3> HIDE DEF j
    <3>2. r[j] = MaxStack - m[s]
      BY <3>1, Amounts
    <3>3. Taken(r, j, p) \in Nat /\ Taken(r, j, p) <= MaxStack - m[s]
      BY <1>2, <3>1, <3>2
    <3>4. after(s) = m[s] + Taken(r, j, p)
      BY <2>2 DEF j
    <3> HIDE DEF after, r
    <3> QED BY <1>0, <3>3, <3>4
  <2> QED BY <2>1, <2>2
<1>4. MenuAt(m, dir, p) = [s \in Slots |-> after(s)]
  BY DEF MenuAt
<1>5. \A s \in Slots : MenuAt(m, dir, p)[s] = after(s)
  <2> HIDE DEF after
  <2> QED BY <1>4
<1>6. MenuAt(m, dir, p) \in Menus
  <2> HIDE DEF after
  <2> QED BY <1>3, <1>4 DEF Menus
<1>7. ASSUME NEW i \in 1 .. Len(Sources(dir))
      PROVE  MenuAt(m, dir, p)[Sources(dir)[i]] = m[Sources(dir)[i]] - Taken(a, i, p)
  <2> DEFINE s == Sources(dir)[i]
  <2>1. s \in Slots /\ IsSource(dir, s) /\ Index(s) = i
    BY SlotsOf
  <2> HIDE DEF s, a, r
  <2>2. MenuAt(m, dir, p)[s] = m[s] - Taken(a, i, p)
    BY <1>5, <2>1
  <2> QED BY <2>2 DEF s
<1>8. ASSUME NEW j \in 1 .. Len(Destinations(dir))
      PROVE  MenuAt(m, dir, p)[Destinations(dir)[j]] = m[Destinations(dir)[j]] + Taken(r, j, p)
  <2> DEFINE s == Destinations(dir)[j]
  <2>1. s \in Slots /\ ~IsSource(dir, s) /\ Index(s) = j
    BY SlotsOf
  <2> HIDE DEF s, a, r
  <2>2. MenuAt(m, dir, p)[s] = m[s] + Taken(r, j, p)
    BY <1>5, <2>1
  <2> QED BY <2>2 DEF s
<1> QED BY <1>6, <1>7, <1>8

\* Before anything is carried, the menu is as it was.
LEMMA MenuAtStart ==
  ASSUME NEW m \in Menus, NEW dir \in Directions
  PROVE  MenuAt(m, dir, 0) = m
<1> DEFINE a == Stacks(m, dir)
           r == Rooms(m, dir)
           M == Len(Sources(dir))
           N == Len(Destinations(dir))
<1>0. M \in Nat /\ N \in Nat /\ \A s \in Slots : m[s] \in Nat
  BY SlotsOf, TransferPlanAssumption DEF Menus
<1>1. \A i \in 1 .. M : Upto(a, i - 1) \in Nat
  <2>1. \A k \in 1 .. M : a[k] \in Nat
    BY Amounts
  <2>2. \A k \in 0 .. M : Upto(a, k) \in Nat
    <3> HIDE DEF a, M
    <3> QED BY <1>0, <2>1, UptoSteps
  <2> QED BY <1>0, <2>2
<1>2. \A j \in 1 .. N : Upto(r, j - 1) \in Nat
  <2>1. \A k \in 1 .. N : r[k] \in Nat
    BY Amounts
  <2>2. \A k \in 0 .. N : Upto(r, k) \in Nat
    <3> HIDE DEF r, N
    <3> QED BY <1>0, <2>1, UptoSteps
  <2> QED BY <1>0, <2>2
<1>3. \A i \in 1 .. M : Taken(a, i, 0) = 0
  BY <1>1 DEF Taken
<1>4. \A j \in 1 .. N : Taken(r, j, 0) = 0
  BY <1>2 DEF Taken
<1>5. ASSUME NEW s \in Slots PROVE MenuAt(m, dir, 0)[s] = m[s]
  <2>1. CASE IsSource(dir, s)
    <3>1. Index(s) \in 1 .. M
      BY <2>1, SlotsOf
    <3>2. MenuAt(m, dir, 0)[s] = m[s] - Taken(a, Index(s), 0)
      BY <2>1 DEF MenuAt
    <3> QED BY <1>0, <1>3, <3>1, <3>2
  <2>2. CASE ~IsSource(dir, s)
    <3>1. Index(s) \in 1 .. N
      BY <2>2, SlotsOf
    <3>2. MenuAt(m, dir, 0)[s] = m[s] + Taken(r, Index(s), 0)
      BY <2>2 DEF MenuAt
    <3> QED BY <1>0, <1>4, <3>1, <3>2
  <2> QED BY <2>1, <2>2
<1>6. MenuAt(m, dir, 0) \in [Slots -> 0 .. MaxStack] /\ m \in [Slots -> 0 .. MaxStack]
  BY MenuAtIs DEF Menus
<1> QED BY <1>5, <1>6

\* What lies in the sources when p items have been carried.
LEMMA AvailableAt ==
  ASSUME NEW m \in Menus, NEW dir \in Directions, NEW p \in Nat, p <= Available(m, dir)
  PROVE  Available(MenuAt(m, dir, p), dir) = Available(m, dir) - p
<1> DEFINE a == Stacks(m, dir)
           b == Stacks(MenuAt(m, dir, p), dir)
           M == Len(Sources(dir))
<1>0. M \in Nat /\ \A k \in 1 .. M : a[k] \in Nat /\ b[k] \in Nat
  BY SlotsOf, Amounts, MenuAtIs
<1>1. ASSUME NEW k \in 1 .. M PROVE b[k] = a[k] - Taken(a, k, p)
  <2>1. MenuAt(m, dir, p) \in Menus
    BY MenuAtIs
  <2>2. a[k] = m[Sources(dir)[k]] /\ b[k] = MenuAt(m, dir, p)[Sources(dir)[k]]
    BY <2>1, Amounts
  <2>3. MenuAt(m, dir, p)[Sources(dir)[k]] = m[Sources(dir)[k]] - Taken(a, k, p)
    BY MenuAtIs
  <2> QED BY <2>2, <2>3
<1>2. Available(MenuAt(m, dir, p), dir) = Upto(b, M) /\ Available(m, dir) = Upto(a, M)
  BY DEF Available
<1> HIDE DEF a, b, M
<1> DEFINE Good == {k \in Nat : k <= M =>
                      Upto(b, k) = IF p <= Upto(a, k) THEN Upto(a, k) - p ELSE 0}
<1>3. /\ Upto(a, 0) = 0 /\ Upto(b, 0) = 0
      /\ \A k \in 0 .. M : Upto(a, k) \in Nat /\ Upto(b, k) \in Nat
      /\ \A k \in 1 .. M : /\ Upto(a, k) = Upto(a, k - 1) + a[k]
                           /\ Upto(b, k) = Upto(b, k - 1) + b[k]
  BY <1>0, UptoSteps
<1>4. 0 \in Good
  BY <1>3
<1>5. ASSUME NEW k \in Nat, k \in Good PROVE k + 1 \in Good
  <2> SUFFICES ASSUME k + 1 <= M
      PROVE Upto(b, k + 1) = IF p <= Upto(a, k + 1) THEN Upto(a, k + 1) - p ELSE 0
    OBVIOUS
  <2> DEFINE i == k + 1
  <2>1. i \in 1 .. M /\ i \in 0 .. M /\ k \in 0 .. M /\ i - 1 = k
    BY <1>0
  <2>2. Upto(b, k) = IF p <= Upto(a, k) THEN Upto(a, k) - p ELSE 0
    BY <1>5, <2>1
  <2> HIDE DEF i
  <2>3. /\ Upto(a, i) = Upto(a, k) + a[i] /\ Upto(b, i) = Upto(b, k) + b[i]
        /\ Upto(a, i) \in Nat /\ Upto(a, k) \in Nat /\ a[i] \in Nat
    BY <1>0, <1>3, <2>1
  <2>4. b[i] = a[i] - Taken(a, i, p)
    BY <1>1, <2>1
  <2>5. Taken(a, i, p) = IF p <= Upto(a, k) THEN 0
                         ELSE IF p >= Upto(a, i) THEN a[i] ELSE p - Upto(a, k)
    BY <2>1 DEF Taken
  <2>6. Upto(b, i) = IF p <= Upto(a, i) THEN Upto(a, i) - p ELSE 0
    BY <2>2, <2>3, <2>4, <2>5
  <2> QED BY <2>6 DEF i
<1>6. Nat \subseteq Good
  <2> HIDE DEF Good
  <2> QED BY <1>4, <1>5, Induction
<1>7. Upto(b, M) = Upto(a, M) - p
  BY <1>0, <1>2, <1>6
<1> QED BY <1>2, <1>7

\* The same for the one amount the interval lies in.
LEMMA TakenThere ==
  ASSUME NEW n \in Nat, NEW amounts, AllNat(amounts, n),
         NEW i \in 1 .. n, NEW p \in Nat, NEW q \in Nat,
         Upto(amounts, i - 1) <= p, p <= q, q <= Upto(amounts, i)
  PROVE  /\ Upto(amounts, i - 1) \in Nat
         /\ Upto(amounts, i) = Upto(amounts, i - 1) + amounts[i]
         /\ Taken(amounts, i, p) = p - Upto(amounts, i - 1)
         /\ Taken(amounts, i, q) = q - Upto(amounts, i - 1)
<1>0. \A k \in 1 .. n : amounts[k] \in Nat
  BY DEF AllNat
<1>1. i - 1 \in 0 .. n /\ i \in 0 .. n
  OBVIOUS
<1>2. /\ Upto(amounts, i) = Upto(amounts, i - 1) + amounts[i]
      /\ Upto(amounts, i) \in Nat /\ Upto(amounts, i - 1) \in Nat /\ amounts[i] \in Nat
  BY <1>0, <1>1, UptoSteps
<1> QED BY <1>2 DEF Taken

\* Carrying on where the i-th source and the j-th destination overlap moves from the
\* one to the other.
LEMMA MenuAtStep ==
  ASSUME NEW m \in Menus, NEW dir \in Directions,
         NEW i \in 1 .. Len(Sources(dir)), NEW j \in 1 .. Len(Destinations(dir)),
         NEW p \in Nat, NEW q \in Nat, p <= q,
         Upto(Stacks(m, dir), i - 1) <= p, q <= Upto(Stacks(m, dir), i),
         Upto(Rooms(m, dir), j - 1) <= p, q <= Upto(Rooms(m, dir), j)
  PROVE  LET before == MenuAt(m, dir, p)
             s == Sources(dir)[i]
             d == Destinations(dir)[j]
         IN  /\ s \in Slots /\ d \in Slots /\ s # d
             /\ before[s] = Upto(Stacks(m, dir), i) - p
             /\ before[d] + (q - p) <= MaxStack
             /\ MenuAt(m, dir, q) = Moved(before, s, d, q - p)
<1> DEFINE a == Stacks(m, dir)
           r == Rooms(m, dir)
           M == Len(Sources(dir))
           N == Len(Destinations(dir))
           before == MenuAt(m, dir, p)
           after == MenuAt(m, dir, q)
           s == Sources(dir)[i]
           d == Destinations(dir)[j]
<1>1. /\ M \in Nat /\ N \in Nat /\ MaxStack \in Nat
      /\ s \in Slots /\ IsSource(dir, s) /\ Index(s) = i
      /\ d \in Slots /\ ~IsSource(dir, d) /\ Index(d) = j
  BY SlotsOf, TransferPlanAssumption
<1>2. /\ \A k \in 1 .. M : a[k] \in Nat
      /\ \A k \in 1 .. N : r[k] \in Nat
      /\ a[i] = m[s] /\ r[j] = MaxStack - m[d]
  BY Amounts
<1>3. /\ before \in Menus /\ after \in Menus
      /\ before[s] = m[s] - Taken(a, i, p) /\ after[s] = m[s] - Taken(a, i, q)
      /\ before[d] = m[d] + Taken(r, j, p) /\ after[d] = m[d] + Taken(r, j, q)
  BY MenuAtIs
<1>4. /\ i - 1 \in 0 .. M /\ i \in 0 .. M /\ j - 1 \in 0 .. N /\ j \in 0 .. N
  BY <1>1
<1> HIDE DEF M, N
<1>5. i \in 1 .. M /\ j \in 1 .. N
  BY DEF M, N
<1>6. /\ Upto(a, i - 1) \in Nat /\ Upto(a, i) = Upto(a, i - 1) + a[i]
      /\ Taken(a, i, p) = p - Upto(a, i - 1)
      /\ Taken(a, i, q) = q - Upto(a, i - 1)
  <2>1. Upto(a, i - 1) <= p /\ q <= Upto(a, i)
    OBVIOUS
  <2>2. M \in Nat /\ AllNat(a, M)
    BY <1>1, <1>2 DEF AllNat
  <2> HIDE DEF a, r, s, d, before, after
  <2> QED BY <1>5, <2>1, <2>2, TakenThere
<1>6a. \A k \in (1 .. M) \ {i} : Taken(a, k, q) = Taken(a, k, p)
  <2>1. Upto(a, i - 1) <= p /\ q <= Upto(a, i)
    OBVIOUS
  <2>2. M \in Nat /\ AllNat(a, M)
    BY <1>1, <1>2 DEF AllNat
  <2> HIDE DEF a, r, s, d, before, after
  <2> QED BY <1>5, <2>1, <2>2, TakenStep
<1>7. /\ Upto(r, j - 1) \in Nat /\ Upto(r, j) = Upto(r, j - 1) + r[j]
      /\ Taken(r, j, p) = p - Upto(r, j - 1)
      /\ Taken(r, j, q) = q - Upto(r, j - 1)
  <2>1. Upto(r, j - 1) <= p /\ q <= Upto(r, j)
    OBVIOUS
  <2>2. N \in Nat /\ AllNat(r, N)
    BY <1>1, <1>2 DEF AllNat
  <2> HIDE DEF a, r, s, d, before, after
  <2> QED BY <1>5, <2>1, <2>2, TakenThere
<1>7a. \A k \in (1 .. N) \ {j} : Taken(r, k, q) = Taken(r, k, p)
  <2>1. Upto(r, j - 1) <= p /\ q <= Upto(r, j)
    OBVIOUS
  <2>2. N \in Nat /\ AllNat(r, N)
    BY <1>1, <1>2 DEF AllNat
  <2> HIDE DEF a, r, s, d, before, after
  <2> QED BY <1>5, <2>1, <2>2, TakenStep
<1>8. s # d
  <2> HIDE DEF s, d
  <2> QED BY <1>1
<1>9. q <= Upto(r, j)
  OBVIOUS
<1>10. \A t \in Slots :
         IF IsSource(dir, t)
           THEN /\ Index(t) \in 1 .. M /\ (Index(t) = i => t = s)
                /\ before[t] = m[t] - Taken(a, Index(t), p)
                /\ after[t] = m[t] - Taken(a, Index(t), q)
           ELSE /\ Index(t) \in 1 .. N /\ (Index(t) = j => t = d)
                /\ before[t] = m[t] + Taken(r, Index(t), p)
                /\ after[t] = m[t] + Taken(r, Index(t), q)
  <2>1. ASSUME NEW t \in Slots, IsSource(dir, t)
        PROVE  /\ Index(t) \in 1 .. M /\ (Index(t) = i => t = s)
               /\ before[t] = m[t] - Taken(a, Index(t), p)
               /\ after[t] = m[t] - Taken(a, Index(t), q)
    <3>1. Index(t) \in 1 .. M /\ (Index(t) = i => t = s)
      BY <2>1, SlotsOf DEF M
    <3> QED BY <2>1, <3>1 DEF MenuAt
  <2>2. ASSUME NEW t \in Slots, ~IsSource(dir, t)
        PROVE  /\ Index(t) \in 1 .. N /\ (Index(t) = j => t = d)
               /\ before[t] = m[t] + Taken(r, Index(t), p)
               /\ after[t] = m[t] + Taken(r, Index(t), q)
    <3>1. Index(t) \in 1 .. N /\ (Index(t) = j => t = d)
      BY <2>2, SlotsOf DEF N
    <3> QED BY <2>2, <3>1 DEF MenuAt
  <2> HIDE DEF before, after, s, d, a, r
  <2> QED BY <2>1, <2>2
<1> HIDE DEF a, r, s, d, before, after
<1>11. m[s] \in Nat /\ m[d] \in Nat
  BY <1>1, TransferPlanAssumption DEF Menus
<1>12. before[s] = Upto(a, i) - p /\ after[s] = before[s] - (q - p)
  <2>1. ASSUME NEW x \in Nat, NEW u \in Nat
        PROVE  x - (p - u) = (u + x) - p /\ x - (q - u) = (x - (p - u)) - (q - p)
    OBVIOUS
  <2>2. /\ m[s] - (p - Upto(a, i - 1)) = (Upto(a, i - 1) + m[s]) - p
        /\ m[s] - (q - Upto(a, i - 1)) = (m[s] - (p - Upto(a, i - 1))) - (q - p)
    BY <1>6, <1>11, <2>1
  <2>3. before[s] = m[s] - (p - Upto(a, i - 1)) /\ after[s] = m[s] - (q - Upto(a, i - 1))
    BY <1>3, <1>6
  <2>4. Upto(a, i) = Upto(a, i - 1) + m[s]
    BY <1>2, <1>6
  <2> QED BY <2>2, <2>3, <2>4
<1>13. before[d] + (q - p) <= MaxStack /\ after[d] = before[d] + (q - p)
  <2>1. ASSUME NEW x \in Nat, NEW u \in Nat, q <= u + (MaxStack - x)
        PROVE  /\ (x + (p - u)) + (q - p) <= MaxStack
               /\ x + (q - u) = (x + (p - u)) + (q - p)
    BY <1>1, <2>1
  <2>2. q <= Upto(r, j - 1) + (MaxStack - m[d])
    <3>1. Upto(r, j) = Upto(r, j - 1) + (MaxStack - m[d])
      BY <1>2, <1>7, Zenon
    <3> QED BY <1>9, <3>1, Zenon
  <2>3. /\ before[d] = m[d] + (p - Upto(r, j - 1))
        /\ after[d] = m[d] + (q - Upto(r, j - 1))
    BY <1>3, <1>7, Zenon
  <2>4. /\ (m[d] + (p - Upto(r, j - 1))) + (q - p) <= MaxStack
        /\ m[d] + (q - Upto(r, j - 1)) = (m[d] + (p - Upto(r, j - 1))) + (q - p)
    BY <1>7, <1>11, <2>1, <2>2
  <2> QED BY <2>3, <2>4, Zenon
<1>14. ASSUME NEW t \in Slots \ {s, d} PROVE after[t] = before[t]
  <2>1. CASE IsSource(dir, t)
    BY <1>6a, <1>10, <1>14, <2>1
  <2>2. CASE ~IsSource(dir, t)
    BY <1>7a, <1>10, <1>14, <2>2
  <2> QED BY <2>1, <2>2
<1>15. after = Moved(before, s, d, q - p)
  <2>1. Moved(before, s, d, q - p) =
          [t \in Slots |-> IF t = s THEN before[s] - (q - p)
                           ELSE IF t = d THEN before[d] + (q - p) ELSE before[t]]
    BY <1>1, <1>3, <1>8 DEF Moved, Menus
  <2>2. after = [t \in Slots |-> after[t]]
    BY <1>3 DEF Menus
  <2>3. \A t \in Slots : after[t] = IF t = s THEN before[s] - (q - p)
                                    ELSE IF t = d THEN before[d] + (q - p) ELSE before[t]
    BY <1>8, <1>12, <1>13, <1>14
  <2> QED BY <2>1, <2>2, <2>3
<1>16. /\ s \in Slots /\ d \in Slots /\ s # d
       /\ before[s] = Upto(a, i) - p /\ before[d] + (q - p) <= MaxStack
       /\ after = Moved(before, s, d, q - p)
  BY <1>1, <1>8, <1>12, <1>13, <1>15
<1> QED BY <1>16 DEF a, s, d, before, after

Lesser(x, y) == IF x <= y THEN x ELSE y
Greater(x, y) == IF x <= y THEN y ELSE x

\* The least of three numbers, taken two at a time.
LEMMA MinOfThree ==
  ASSUME NEW x \in Int, NEW y \in Int, NEW z \in Int
  PROVE  Min({x, y, z}) = Lesser(Lesser(z, x), y)
<1> DEFINE l == Lesser(Lesser(z, x), y)
<1>1. l \in {x, y, z} /\ \A w \in {x, y, z} : l <= w
  BY DEF Lesser
<1>2. \A v \in {x, y, z} : (\A w \in {x, y, z} : v <= w) => v = l
  BY DEF Lesser
<1> QED BY <1>1, <1>2 DEF Min

\* The greater of two numbers.
LEMMA MaxOfTwo ==
  ASSUME NEW x \in Int, NEW y \in Int
  PROVE  Max({x, y}) = Greater(x, y)
BY DEF Max, Greater

\* How much has been carried when the loop comes to the i-th source and the j-th
\* destination.
Carried(m, dir, i, j, total) ==
  Lesser(Lesser(total, Upto(Stacks(m, dir), i)),
         Greater(Upto(Stacks(m, dir), i - 1), Upto(Rooms(m, dir), j - 1)))

Overlap(a0, a1, r0, r1, p, q, from, to) ==
  /\ p \in Nat /\ q \in Nat /\ to - from \in Int
  /\ to - from <= 0 => q = p
  /\ to - from > 0 => /\ p = from /\ q = to /\ p <= q
                      /\ a0 <= p /\ q <= a1 /\ r0 <= p /\ q <= r1

\* What a source and a destination share is the overlap of their intervals of the total.
LEMMA Interval ==
  ASSUME NEW a0 \in Nat, NEW a1 \in Nat, NEW r0 \in Nat, NEW r1 \in Nat, NEW t \in Nat,
         a0 <= a1, r0 <= r1,
         NEW p, p = Lesser(Lesser(t, a1), Greater(a0, r0)),
         NEW q, q = Lesser(Lesser(t, a1), Greater(a0, r1)),
         NEW from, from = Greater(a0, r0), NEW to, to = Lesser(Lesser(t, a1), r1)
  PROVE  Overlap(a0, a1, r0, r1, p, q, from, to)
BY DEF Lesser, Greater, Overlap

\* The sums that the loop compares.
LEMMA SumsOf ==
  ASSUME NEW m \in Menus, NEW dir \in Directions,
         NEW i \in 1 .. Len(Sources(dir)), NEW j \in 1 .. Len(Destinations(dir))
  PROVE  /\ Upto(Stacks(m, dir), i - 1) \in Nat /\ Upto(Stacks(m, dir), i) \in Nat
         /\ Upto(Stacks(m, dir), i - 1) <= Upto(Stacks(m, dir), i)
         /\ Upto(Rooms(m, dir), j - 1) \in Nat /\ Upto(Rooms(m, dir), j) \in Nat
         /\ Upto(Rooms(m, dir), j - 1) <= Upto(Rooms(m, dir), j)
<1> DEFINE a == Stacks(m, dir)
           r == Rooms(m, dir)
           M == Len(Sources(dir))
           N == Len(Destinations(dir))
<1>1. /\ M \in Nat /\ N \in Nat
      /\ \A k \in 1 .. M : a[k] \in Nat
      /\ \A k \in 1 .. N : r[k] \in Nat
  BY SlotsOf, Amounts
<1>2. i \in 1 .. M /\ j \in 1 .. N
  OBVIOUS
<1> HIDE DEF a, r, M, N
<1>3. i - 1 \in 0 .. M /\ i \in 0 .. M /\ j - 1 \in 0 .. N /\ j \in 0 .. N
  BY <1>1, <1>2
<1>4. /\ Upto(a, i - 1) \in Nat /\ Upto(a, i) \in Nat /\ Upto(a, i) = Upto(a, i - 1) + a[i]
      /\ a[i] \in Nat
  BY <1>1, <1>2, <1>3, UptoSteps
<1>5. /\ Upto(r, j - 1) \in Nat /\ Upto(r, j) \in Nat /\ Upto(r, j) = Upto(r, j - 1) + r[j]
      /\ r[j] \in Nat
  BY <1>1, <1>2, <1>3, UptoSteps
<1>6. Upto(a, i - 1) <= Upto(a, i) /\ Upto(r, j - 1) <= Upto(r, j)
  <2>1. \A x, y \in Nat : x <= x + y
    OBVIOUS
  <2> QED BY <1>4, <1>5, <2>1
<1> QED BY <1>4, <1>5, <1>6 DEF a, r

\* One turn of the loop, with nothing on the cursor before and after.
LEMMA CarryLeads ==
  ASSUME NEW m \in Menus, NEW dir \in Directions,
         NEW i \in 1 .. Len(Sources(dir)), NEW j \in 1 .. Len(Destinations(dir)),
         NEW total \in Nat
  PROVE  /\ Carry(m, dir, i, j, total) \in Seq(Clicks)
         /\ Leads(Holding(MenuAt(m, dir, Carried(m, dir, i, j, total)), 0),
                  Carry(m, dir, i, j, total),
                  Holding(MenuAt(m, dir, Carried(m, dir, i, j + 1, total)), 0))
<1> DEFINE a0 == Upto(Stacks(m, dir), i - 1)
           a1 == Upto(Stacks(m, dir), i)
           r0 == Upto(Rooms(m, dir), j - 1)
           r1 == Upto(Rooms(m, dir), j)
           from == Greater(a0, r0)
           to == Lesser(Lesser(total, a1), r1)
           p == Carried(m, dir, i, j, total)
           q == Carried(m, dir, i, j + 1, total)
           s == Sources(dir)[i]
           d == Destinations(dir)[j]
           before == MenuAt(m, dir, p)
           clicks == Carry(m, dir, i, j, total)
<1>1. a0 \in Nat /\ a1 \in Nat /\ r0 \in Nat /\ r1 \in Nat /\ a0 <= a1 /\ r0 <= r1
  BY SumsOf
<1>2. (j + 1) - 1 = j
  BY SlotsOf
<1>3. /\ p = Lesser(Lesser(total, a1), Greater(a0, r0))
      /\ q = Lesser(Lesser(total, a1), Greater(a0, r1))
  BY <1>2 DEF Carried
<1>4. From(m, dir, i, j) = from /\ To(m, dir, i, j, total) = to
  <2> HIDE DEF a0, a1, r0, r1
  <2>1. Max({a0, r0}) = from /\ Min({a1, r1, total}) = Lesser(Lesser(total, a1), r1)
    BY <1>1, MaxOfTwo, MinOfThree
  <2> QED BY <2>1 DEF From, To, a0, a1, r0, r1
<1>5. Moving(m, dir, i, j, total) = to - from /\ Remaining(m, dir, i, j) = a1 - from
  BY <1>4 DEF Moving, Remaining
<1> HIDE DEF a0, a1, r0, r1, p, q, from, to
<1>6. /\ p \in Nat /\ q \in Nat /\ to - from \in Int
      /\ to - from <= 0 => q = p
      /\ to - from > 0 => /\ p = from /\ q = to /\ p <= q
                          /\ a0 <= p /\ q <= a1 /\ r0 <= p /\ q <= r1
  <2>1. from = Greater(a0, r0) /\ to = Lesser(Lesser(total, a1), r1)
    BY DEF from, to
  <2>2. total \in Nat
    OBVIOUS
  <2>3. Overlap(a0, a1, r0, r1, p, q, from, to)
    BY <1>1, <1>3, <2>1, <2>2, Interval
  <2> QED BY <2>3 DEF Overlap
<1>7. before \in Menus
  BY <1>6, MenuAtIs
<1>8. clicks = IF to - from <= 0 THEN <<>>
               ELSE IF to - from = a1 - from THEN PutWhole(s, d) ELSE PutSome(s, d, to - from)
  BY <1>5 DEF Carry
<1>9. CASE to - from <= 0
  <2>1. clicks = <<>> /\ q = p
    BY <1>6, <1>8, <1>9
  <2>2. Holding(before, 0) \in Hands
    BY <1>7, TransferPlanAssumption DEF Holding, Hands
  <2>3. Leads(Holding(before, 0), <<>>, Holding(before, 0)) /\ <<>> \in Seq(Clicks)
    BY <2>2, LeadsNowhere
  <2> HIDE DEF clicks
  <2> QED BY <2>1, <2>3 DEF clicks, p, q
<1>10. CASE to - from > 0
  <2>1. /\ p = from /\ q = to /\ p <= q
        /\ a0 <= p /\ q <= a1 /\ r0 <= p /\ q <= r1
    BY <1>6, <1>10
  <2>2. /\ s \in Slots /\ d \in Slots /\ s # d
        /\ before[s] = a1 - p
        /\ before[d] + (q - p) <= MaxStack
        /\ MenuAt(m, dir, q) = Moved(before, s, d, q - p)
    BY <1>6, <2>1, MenuAtStep DEF a0, a1, r0, r1
  <2> HIDE DEF before, s, d, clicks
  <2>3. q - p \in Nat /\ q - p > 0 /\ q - p <= before[s]
    BY <1>1, <1>6, <1>10, <2>1, <2>2
  <2>4. CASE q - p = before[s]
    <3>1. clicks = PutWhole(s, d)
      BY <1>6, <1>8, <1>10, <2>1, <2>2, <2>4
    <3>2. /\ clicks \in Seq(Clicks)
          /\ Leads(Holding(before, 0), clicks, Holding(Moved(before, s, d, before[s]), 0))
      BY <1>7, <2>2, <2>3, <2>4, <3>1, PutWholeLeads
    <3> QED BY <2>2, <2>4, <3>2 DEF before, clicks, p, q
  <2>5. CASE q - p # before[s]
    <3>1. clicks = PutSome(s, d, q - p)
      BY <1>6, <1>8, <1>10, <2>1, <2>2, <2>5
    <3>2. q - p < before[s]
      BY <1>1, <1>6, <2>2, <2>3, <2>5
    <3>3. /\ clicks \in Seq(Clicks)
          /\ Leads(Holding(before, 0), clicks, Holding(Moved(before, s, d, q - p), 0))
      BY <1>7, <2>2, <2>3, <3>1, <3>2, PutSomeLeads
    <3> QED BY <2>2, <3>3 DEF before, clicks, p, q
  <2> QED BY <2>4, <2>5
<1> QED BY <1>6, <1>9, <1>10

\* How much has been carried after the first i sources.
Sofar(m, dir, i, total) == Lesser(total, Upto(Stacks(m, dir), i))
Row(m, dir, i, total) ==
  FlattenSeq([j \in DOMAIN Destinations(dir) |-> Carry(m, dir, i, j, total)])

\* What is taken from one source.
LEMMA RowLeads ==
  ASSUME NEW m \in Menus, NEW dir \in Directions,
         NEW i \in 1 .. Len(Sources(dir)),
         NEW total \in Nat, total <= Capacity(m, dir)
  PROVE  /\ Row(m, dir, i, total) \in Seq(Clicks)
         /\ Leads(Holding(MenuAt(m, dir, Sofar(m, dir, i - 1, total)), 0),
                  Row(m, dir, i, total),
                  Holding(MenuAt(m, dir, Sofar(m, dir, i, total)), 0))
<1> DEFINE N == Len(Destinations(dir))
           C(j) == Carry(m, dir, i, j, total)
           P(j) == Carried(m, dir, i, j, total)
           seqs == [j \in DOMAIN Destinations(dir) |-> C(j)]
           state(p) == Holding(MenuAt(m, dir, p), 0)
           at == [k \in 0 .. N |-> state(P(k + 1))]
<1>1. N \in Nat \ {0} /\ DOMAIN Destinations(dir) = 1 .. N
  BY SlotsOf
<1>2. ASSUME NEW j \in 1 .. N
      PROVE  C(j) \in Seq(Clicks) /\ Leads(state(P(j)), C(j), state(P(j + 1)))
  BY CarryLeads
<1> HIDE DEF N, C, P, state
<1>3. seqs = [j \in 1 .. N |-> C(j)]
  BY <1>1
<1>4. seqs \in Seq(Seq(Clicks)) /\ Len(seqs) = N /\ \A j \in 1 .. N : seqs[j] = C(j)
  BY <1>1, <1>2, <1>3
<1>5. ASSUME NEW j \in 1 .. N PROVE Leads(at[j - 1], seqs[j], at[j])
  <2>1. j - 1 \in 0 .. N /\ j \in 0 .. N /\ (j - 1) + 1 = j
    BY <1>1
  <2>2. at[j - 1] = state(P(j)) /\ at[j] = state(P(j + 1))
    BY <2>1
  <2> HIDE DEF at, seqs
  <2> QED BY <1>2, <1>4, <2>2
<1>6. Leads(at[0], FlattenSeq(seqs), at[N]) /\ FlattenSeq(seqs) \in Seq(Clicks)
  <2>1. N = Len(seqs) /\ N # 0
    BY <1>1, <1>4
  <2> HIDE DEF at, seqs
  <2> QED BY <1>4, <1>5, <2>1, LeadsThrough
<1>7. at[0] = state(P(1)) /\ at[N] = state(P(N + 1))
  <2>1. 0 \in 0 .. N /\ N \in 0 .. N /\ 0 + 1 = 1
    BY <1>1
  <2> QED BY <2>1
<1> DEFINE a0 == Upto(Stacks(m, dir), i - 1)
           a1 == Upto(Stacks(m, dir), i)
<1>8. a0 \in Nat /\ a1 \in Nat /\ a0 <= a1
  <2>1. 1 \in 1 .. Len(Destinations(dir))
    BY <1>1 DEF N
  <2> QED BY <2>1, SumsOf
<1>9. Upto(Rooms(m, dir), 0) = 0 /\ Upto(Rooms(m, dir), N) \in Nat /\ total <= Upto(Rooms(m, dir), N)
  <2>1. \A k \in 1 .. N : Rooms(m, dir)[k] \in Nat
    BY Amounts DEF N
  <2>2. N \in Nat /\ N \in 0 .. N
    BY <1>1
  <2>3. Capacity(m, dir) = Upto(Rooms(m, dir), N)
    BY DEF Capacity, N
  <2> QED BY <2>1, <2>2, <2>3, UptoSteps
<1>10. P(1) = Sofar(m, dir, i - 1, total)
  <2>1. P(1) = Lesser(Lesser(total, a1), Greater(a0, 0))
    <3>1. 1 - 1 = 0
      OBVIOUS
    <3> QED BY <1>9, <3>1 DEF P, Carried
  <2> HIDE DEF a0, a1
  <2>2. Lesser(Lesser(total, a1), Greater(a0, 0)) = Lesser(total, a0)
    BY <1>8 DEF Lesser, Greater
  <2> QED BY <2>1, <2>2 DEF Sofar, a0
<1>11. P(N + 1) = Sofar(m, dir, i, total)
  <2> DEFINE r == Upto(Rooms(m, dir), N)
  <2>1. P(N + 1) = Lesser(Lesser(total, a1), Greater(a0, r))
    <3>1. (N + 1) - 1 = N
      BY <1>1
    <3> QED BY <3>1 DEF P, Carried
  <2>2. r \in Nat /\ total <= r
    BY <1>9
  <2> HIDE DEF a0, a1, r
  <2>3. Lesser(Lesser(total, a1), Greater(a0, r)) = Lesser(total, a1)
    BY <1>8, <2>2 DEF Lesser, Greater
  <2> QED BY <2>1, <2>3 DEF Sofar, a1
<1>12. Row(m, dir, i, total) = FlattenSeq(seqs)
  BY DEF Row, C
<1> HIDE DEF at, seqs
<1>13. /\ Row(m, dir, i, total) \in Seq(Clicks)
       /\ Leads(state(Sofar(m, dir, i - 1, total)), Row(m, dir, i, total),
                state(Sofar(m, dir, i, total)))
  BY <1>6, <1>7, <1>10, <1>11, <1>12
<1> QED BY <1>13 DEF state

\* The amount of a plan.
LEMMA FeasibleIs ==
  ASSUME NEW m \in Menus, NEW dir \in Directions, NEW count \in Nat
  PROVE  /\ Feasible(m, dir, count) \in Nat
         /\ Available(m, dir) \in Nat
         /\ Feasible(m, dir, count) <= Available(m, dir)
         /\ Feasible(m, dir, count) <= Capacity(m, dir)
         /\ PlanError(m, dir, count) = "none" => Feasible(m, dir, count) \in 1 .. count
<1>1. Available(m, dir) \in Nat
  <2> DEFINE a == Stacks(m, dir)
             M == Len(Sources(dir))
  <2>1. M \in Nat /\ M \in 0 .. M /\ \A k \in 1 .. M : a[k] \in Nat
    BY SlotsOf, Amounts
  <2> HIDE DEF a, M
  <2>2. Upto(a, M) \in Nat
    BY <2>1, UptoSteps
  <2> QED BY <2>2 DEF Available, a, M
<1>2. Capacity(m, dir) \in Nat
  <2> DEFINE r == Rooms(m, dir)
             N == Len(Destinations(dir))
  <2>1. N \in Nat /\ N \in 0 .. N /\ \A k \in 1 .. N : r[k] \in Nat
    BY SlotsOf, Amounts
  <2> HIDE DEF r, N
  <2>2. Upto(r, N) \in Nat
    BY <2>1, UptoSteps
  <2> QED BY <2>2 DEF Capacity, r, N
<1> DEFINE x == Available(m, dir)
           y == Capacity(m, dir)
           t == Feasible(m, dir, count)
<1>3. x \in Nat /\ y \in Nat
  BY <1>1, <1>2
<1>4. t = Lesser(Lesser(y, count), x)
  BY <1>3, MinOfThree DEF Feasible
<1>5. PlanError(m, dir, count) = "none" => count # 0 /\ x # 0 /\ y # 0
  BY DEF PlanError
<1> HIDE DEF x, y, t
<1>6. t \in Nat /\ t <= x /\ t <= y /\ (count # 0 /\ x # 0 /\ y # 0 => t \in 1 .. count)
  BY <1>3, <1>4 DEF Lesser
<1> QED BY <1>3, <1>5, <1>6 DEF x, y, t

\* The whole plan, for any menu.
LEMMA PlanLeads ==
  ASSUME NEW m \in Menus, NEW dir \in Directions, NEW count \in Nat
  PROVE  /\ PlanClicks(m, dir, count) \in Seq(Clicks)
         /\ Leads(Holding(m, 0), PlanClicks(m, dir, count),
                  Holding(MenuAt(m, dir, Feasible(m, dir, count)), 0))
<1> DEFINE M == Len(Sources(dir))
           total == Feasible(m, dir, count)
           R(i) == Row(m, dir, i, total)
           P(i) == Sofar(m, dir, i, total)
           seqs == [i \in DOMAIN Sources(dir) |-> R(i)]
           state(p) == Holding(MenuAt(m, dir, p), 0)
           at == [k \in 0 .. M |-> state(P(k))]
<1>1. M \in Nat \ {0} /\ DOMAIN Sources(dir) = 1 .. M
  BY SlotsOf
<1>2. total \in Nat /\ total <= Capacity(m, dir) /\ total <= Available(m, dir)
  BY FeasibleIs
<1>3. PlanClicks(m, dir, count) = FlattenSeq(seqs)
  BY DEF PlanClicks, Row
<1> HIDE DEF total
<1>4. ASSUME NEW i \in 1 .. M
      PROVE  R(i) \in Seq(Clicks) /\ Leads(state(P(i - 1)), R(i), state(P(i)))
  BY <1>2, RowLeads
<1>5. P(0) = 0 /\ P(M) = total
  <2>1. \A k \in 1 .. M : Stacks(m, dir)[k] \in Nat
    BY Amounts
  <2>2. Upto(Stacks(m, dir), 0) = 0
    <3> HIDE DEF M
    <3> QED BY <1>1, <2>1, UptoSteps
  <2>3. Upto(Stacks(m, dir), M) = Available(m, dir) /\ Available(m, dir) \in Nat
    BY FeasibleIs DEF Available
  <2> HIDE DEF M
  <2> QED BY <1>2, <2>2, <2>3 DEF Sofar, Lesser
<1> HIDE DEF M, R, P, state
<1>6. seqs = [i \in 1 .. M |-> R(i)]
  BY <1>1
<1>7. seqs \in Seq(Seq(Clicks)) /\ Len(seqs) = M /\ \A i \in 1 .. M : seqs[i] = R(i)
  BY <1>1, <1>4, <1>6
<1>8. ASSUME NEW i \in 1 .. M PROVE Leads(at[i - 1], seqs[i], at[i])
  <2>1. i - 1 \in 0 .. M /\ i \in 0 .. M
    BY <1>1
  <2>2. at[i - 1] = state(P(i - 1)) /\ at[i] = state(P(i))
    BY <2>1
  <2> HIDE DEF at, seqs
  <2> QED BY <1>4, <1>7, <2>2
<1>9. Leads(at[0], FlattenSeq(seqs), at[M]) /\ FlattenSeq(seqs) \in Seq(Clicks)
  <2>1. M = Len(seqs) /\ M # 0
    BY <1>1, <1>7
  <2> HIDE DEF at, seqs
  <2> QED BY <1>7, <1>8, <2>1, LeadsThrough
<1>10. at[0] = state(0) /\ at[M] = state(total)
  <2>1. 0 \in 0 .. M /\ M \in 0 .. M
    BY <1>1
  <2> QED BY <1>5, <2>1
<1>11. state(0) = Holding(m, 0)
  BY MenuAtStart DEF state
<1> HIDE DEF at, seqs
<1> QED BY <1>3, <1>9, <1>10, <1>11 DEF state, total

-----------------------------------------------------------------------------
(* Types.                                                                   *)

Windows == [id : 0 .. MaxWindows, kind : {"none", "chest", "other"}, revision : 0 .. MaxRevision]
Transfers == [clicks : Seq(Clicks), planned : Nat, baseline : Nat, direction : Directions]

MachineTyped ==
  /\ phase \in Phases /\ owned \in BOOLEAN
  /\ target \in Chests \cup {None}
  /\ window \in 1 .. MaxWindows \cup {None}
  /\ expectedRevision \in 0 .. MaxRevision \cup {None}
  /\ requested \in Counts \cup {0} /\ transferred \in Nat
TransferTyped ==
  transfer \in Transfers /\ plannedFor \in 1 .. MaxWindows \cup {None} /\ undisturbed \in BOOLEAN
OthersTyped ==
  /\ overdue \in BOOLEAN
  /\ nav \in Answers /\ look \in Answers
  /\ presence \in {"joined", "dead", "gone"}
WindowTyped ==
  /\ open \in Windows /\ opened \in 0 .. MaxWindows /\ open.id \in 0 .. opened
  /\ open.kind = "chest" => open.id \in 1 .. MaxWindows
  /\ menu \in Menus /\ cursor \in 0 .. MaxStack /\ asked \in 0 .. MaxAsked

\* The type invariant, with what lies behind its parts: what a click is, and that a
\* chest has a window.
Types == MachineTyped /\ TransferTyped /\ OthersTyped /\ WindowTyped

\* The typed parts are the type invariant.
LEMMA TypesImply == Types => TypeOK
BY DEF Types, TypeOK, MachineTyped, TransferTyped, OthersTyped, WindowTyped, Transfers

\* What the assumptions on the constants say of each.
LEMMA Numbers ==
  /\ MaxStack \in Nat /\ 0 \in 0 .. MaxStack
  /\ MaxWindows \in Nat /\ MaxRevision \in Nat /\ MaxAsked \in Nat
  /\ Counts \subseteq Nat /\ Fillings \subseteq Menus
  /\ Bare \in Menus
<1>1. MaxStack \in Nat
  BY TransferPlanAssumption
<1> QED BY <1>1, ContainerAssumption DEF Bare, Menus

\* The empty transfer is a transfer.
LEMMA NoTransferTyped == NoTransfer \in Transfers
<1>1. <<>> \in Seq(Clicks)
  OBVIOUS
<1> QED BY <1>1 DEF NoTransfer, Transfers, Directions

\* What leaves a part of the state alone.
LEMMA StayTyped ==
  ASSUME Types
  PROVE  /\ UNCHANGED machineVars => MachineTyped'
         /\ UNCHANGED transferVars => TransferTyped'
         /\ UNCHANGED overdue /\ UNCHANGED othersVars => OthersTyped'
         /\ UNCHANGED windowVars => WindowTyped'
<1>1. UNCHANGED machineVars => MachineTyped'
  BY DEF Types, MachineTyped, machineVars
<1>2. UNCHANGED transferVars => TransferTyped'
  BY DEF Types, TransferTyped, transferVars
<1>3. UNCHANGED overdue /\ UNCHANGED othersVars => OthersTyped'
  BY DEF Types, OthersTyped, othersVars
<1>4. UNCHANGED windowVars => WindowTyped'
  BY DEF Types, WindowTyped, windowVars
<1> QED BY <1>1, <1>2, <1>3, <1>4

\* A transfer that ends leaves the empty one.
LEMMA TransferOverTyped == TransferOver => TransferTyped'
BY NoTransferTyped DEF TransferOver, TransferTyped

\* fail leaves a phase, an outcome and no transfer.
LEMMA FailTyped ==
  ASSUME Types, NEW o, Fail(o)
  PROVE  MachineTyped' /\ TransferTyped'
<1>1. TransferTyped'
  BY TransferOverTyped DEF Fail
<1>2. MachineTyped'
  BY DEF Fail, OwnedAfterFailure, Types, MachineTyped, Phases, Terminal
<1> QED BY <1>1, <1>2

\* A setup step leaves a phase.
LEMMA AdvanceTyped ==
  ASSUME Types, NEW p \in Phases, Advance(p)
  PROVE  MachineTyped'
BY DEF Advance, Types, MachineTyped

\* A window that closes leaves the empty window.
LEMMA ClosedTyped ==
  ASSUME Types, WindowCloses
  PROVE  WindowTyped'
<1>1. NoWindow \in Windows /\ NoWindow.id = 0 /\ NoWindow.kind = "none"
  BY Numbers DEF NoWindow, Windows
<1>2. 0 \in 0 .. MaxAsked /\ opened \in 0 .. MaxWindows /\ 0 \in 0 .. opened
  BY Numbers DEF Types, WindowTyped
<1> QED BY <1>1, <1>2, Numbers DEF WindowCloses, WindowTyped

\* The idle service without a window is typed.
LEMMA InitTyped == Init => Types
<1> SUFFICES ASSUME Init PROVE Types
  OBVIOUS
<1>1. MachineTyped
  BY DEF Init, MachineTyped, Phases, Terminal
<1>2. TransferTyped
  BY NoTransferTyped DEF Init, TransferTyped
<1>3. OthersTyped
  BY DEF Init, OthersTyped, Answers
<1>4. WindowTyped
  <2>1. NoWindow \in Windows /\ NoWindow.id = 0 /\ NoWindow.kind = "none"
    BY Numbers DEF NoWindow, Windows
  <2>2. 0 \in 0 .. MaxAsked /\ 0 \in 0 .. MaxWindows /\ 0 \in 0 .. 0
    BY Numbers
  <2> QED BY <2>1, <2>2, Numbers DEF Init, WindowTyped
<1> QED BY <1>1, <1>2, <1>3, <1>4 DEF Types

\* A transfer that begins has clicks on slots and amounts that are numbers.
LEMMA BegunTyped ==
  ASSUME Types, ChestOpen, NEW dir \in Directions, NEW count \in Counts,
         TransferBegun(dir, count)
  PROVE  MachineTyped' /\ TransferTyped' /\ overdue' \in BOOLEAN
<1>1. menu \in Menus /\ open.id \in 1 .. MaxWindows /\ count \in Nat
  BY Numbers DEF Types, WindowTyped, ChestOpen
<1>2. /\ PlanClicks(menu, dir, count) \in Seq(Clicks)
      /\ Feasible(menu, dir, count) \in Nat /\ Available(menu, dir) \in Nat
  BY <1>1, PlanLeads, FeasibleIs
<1>3. transfer' \in Transfers
  BY <1>2 DEF TransferBegun, Transfers
<1>4. undisturbed' \in BOOLEAN /\ plannedFor' \in 1 .. MaxWindows \cup {None}
  BY <1>1 DEF TransferBegun
<1>5. MachineTyped'
  BY DEF TransferBegun, Types, MachineTyped, Phases
<1>6. overdue' \in BOOLEAN
  BY DEF TransferBegun
<1> QED BY <1>3, <1>4, <1>5, <1>6 DEF TransferTyped

\* Every command keeps the types.
LEMMA CommandTyped == Types /\ Command => Types'
<1> SUFFICES ASSUME Types, Command PROVE Types'
  OBVIOUS
<1>1. CASE OpenElsewhere
  BY <1>1, FailTyped, StayTyped DEF OpenElsewhere, Types
<1>2. CASE OpenChest
  <2>1. MachineTyped'
    BY <1>2 DEF OpenChest, Types, MachineTyped, Phases, Preparing
  <2>2. OthersTyped'
    BY <1>2 DEF OpenChest, Types, OthersTyped
  <2> QED BY <1>2, <2>1, <2>2, StayTyped DEF OpenChest, Types
<1>3. CASE Transfer
  <2>1. PICK dir \in Directions, count \in Counts :
          TransferRefused(dir, count) \/ TransferStale(dir, count)
            \/ TransferBegun(dir, count)
    BY <1>3 DEF Transfer
  <2>2. MachineTyped' /\ TransferTyped' /\ overdue' \in BOOLEAN
    <3>1. CASE TransferRefused(dir, count) \/ TransferStale(dir, count)
      <4>1. (\E o : Fail(o)) /\ UNCHANGED overdue
        BY <3>1 DEF TransferRefused, TransferStale
      <4> QED BY <4>1, FailTyped DEF Types, OthersTyped
    <3>2. CASE TransferBegun(dir, count)
      BY <1>3, <3>2, BegunTyped DEF Transfer
    <3> QED BY <2>1, <3>1, <3>2
  <2>3. OthersTyped'
    BY <1>3, <2>2 DEF Transfer, Types, OthersTyped, othersVars
  <2>4. WindowTyped'
    <3>1. asked' \in 0 .. MaxAsked
      BY <1>3, Numbers DEF Transfer, Types, WindowTyped
    <3> QED BY <1>3, <3>1 DEF Transfer, Types, WindowTyped
  <2> QED BY <2>2, <2>3, <2>4 DEF Types
<1>4. CASE Close
  <2>1. MachineTyped'
    BY <1>4 DEF Close, Types, MachineTyped, Phases, Terminal
  <2> QED BY <1>4, <2>1, TransferOverTyped, ClosedTyped, StayTyped DEF Close, Types
<1>5. CASE Cancel
  <2>1. MachineTyped'
    BY <1>5 DEF Cancel, Types, MachineTyped, Phases, Terminal
  <2>2. OthersTyped'
    BY <1>5 DEF Cancel, Types, OthersTyped, Answers
  <2> QED BY <1>5, <2>1, <2>2, TransferOverTyped, ClosedTyped DEF Cancel, Types
<1> QED BY <1>1, <1>2, <1>3, <1>4, <1>5 DEF Command

\* A click changes the menu and the cursor to what the window may show.
LEMMA ClickedTyped ==
  ASSUME Types, TickClick
  PROVE  /\ Head(transfer.clicks) \in Clicks /\ Tail(transfer.clicks) \in Seq(Clicks)
         /\ Holding(menu, cursor) \in Hands
         /\ Holding(menu', cursor') = After(Holding(menu, cursor), Head(transfer.clicks))
         /\ menu' \in Menus /\ cursor' \in 0 .. MaxStack
         /\ transfer' \in Transfers
         /\ transfer'.clicks = Tail(transfer.clicks)
         /\ transfer'.planned = transfer.planned /\ transfer'.baseline = transfer.baseline
         /\ transfer'.direction = transfer.direction
<1> DEFINE clicks == transfer.clicks
           h == Holding(menu, cursor)
           after == After(h, Head(clicks))
<1>1. transfer \in Transfers /\ clicks \in Seq(Clicks) /\ clicks # <<>>
  BY DEF Types, TransferTyped, Transfers, TickClick
<1>2. Head(clicks) \in Clicks /\ Tail(clicks) \in Seq(Clicks)
  BY <1>1, HeadTailProperties
<1>3. h \in Hands
  BY DEF Types, WindowTyped, Holding, Hands
<1>4. after \in Hands
  BY <1>2, <1>3, ClickTyped
<1>5. menu' = after.menu /\ cursor' = after.cursor
  <2>1. h.menu = menu /\ h.cursor = cursor
    BY DEF Holding
  <2> QED BY <2>1 DEF TickClick, After
<1> HIDE DEF after
<1>6. /\ menu' \in Menus /\ cursor' \in 0 .. MaxStack
      /\ Holding(menu', cursor') = after
  BY <1>4, <1>5 DEF Hands, Holding
<1>7. transfer' = [transfer EXCEPT !.clicks = Tail(clicks)]
  BY DEF TickClick
<1>8. /\ transfer' \in Transfers
      /\ transfer'.clicks = Tail(clicks)
      /\ transfer'.planned = transfer.planned /\ transfer'.baseline = transfer.baseline
      /\ transfer'.direction = transfer.direction
  <2> DEFINE t == Tail(clicks)
  <2>1. t \in Seq(Clicks) /\ transfer' = [transfer EXCEPT !.clicks = t]
    BY <1>2, <1>7
  <2> HIDE DEF t
  <2>2. /\ transfer' \in Transfers
        /\ transfer'.clicks = t
        /\ transfer'.planned = transfer.planned /\ transfer'.baseline = transfer.baseline
        /\ transfer'.direction = transfer.direction
    BY <1>1, <2>1 DEF Transfers
  <2> QED BY <2>2 DEF t
<1> QED BY <1>2, <1>3, <1>6, <1>8 DEF after

\* The amount a confirmation reports is a number: a change against the direction counts
\* as 0.
LEMMA ActualIs == Types => Actual \in Nat
<1> SUFFICES ASSUME Types PROVE Actual \in Nat
  OBVIOUS
<1> DEFINE gone == transfer.baseline - Available(menu, transfer.direction)
           most == Max({gone, 0})
<1>1. transfer.baseline \in Nat /\ transfer.planned \in Nat /\ transfer.direction \in Directions
  BY DEF Types, TransferTyped, Transfers
<1>2. menu \in Menus
  BY DEF Types, WindowTyped
<1>3. Available(menu, transfer.direction) \in Nat
  BY <1>1, <1>2, FeasibleIs
<1>4. gone \in Int
  BY <1>1, <1>3
<1> HIDE DEF gone
<1>5. most \in Nat
  BY <1>4, MaxOfTwo DEF Greater
<1> HIDE DEF most
<1>6. Min({most, transfer.planned}) \in Nat
  BY <1>1, <1>5, MinOfTwo
<1> QED BY <1>6 DEF Actual, gone, most

\* Every branch of the tick keeps the types.
LEMMA TickTyped == Types /\ Tick => Types'
<1> SUFFICES ASSUME Types, Tick PROVE Types'
  OBVIOUS
<1>1. CASE TickEnds
  BY <1>1, FailTyped, StayTyped DEF TickEnds, Types
<1>2. CASE TickNavigating
  <2>1. MachineTyped' /\ TransferTyped' /\ look' \in Answers
    <3>1. CASE Advance("Aligning") /\ look' \in Answers /\ UNCHANGED transferVars
      BY <3>1, AdvanceTyped, StayTyped DEF Phases, Preparing
    <3>2. CASE Fail("TargetUnreachable") /\ UNCHANGED look
      BY <3>2, FailTyped DEF Types, OthersTyped
    <3> QED BY <1>2, <3>1, <3>2 DEF TickNavigating
  <2>2. OthersTyped'
    BY <1>2, <2>1 DEF TickNavigating, Types, OthersTyped
  <2> QED BY <1>2, <2>1, <2>2, StayTyped DEF TickNavigating, Types
<1>3. CASE TickAligning
  <2>1. MachineTyped' /\ TransferTyped'
    <3>1. CASE Advance("AwaitingMenu") /\ UNCHANGED transferVars
      BY <3>1, AdvanceTyped, StayTyped DEF Phases, Preparing
    <3>2. CASE \E o : Fail(o)
      BY <3>2, FailTyped
    <3> QED BY <1>3, <3>1, <3>2 DEF TickAligning
  <2> QED BY <1>3, <2>1, StayTyped DEF TickAligning, Types
<1>4. CASE TickAwaitingMenu
  <2>1. MachineTyped' /\ TransferTyped' /\ overdue' \in BOOLEAN
    <3>1. CASE /\ ChestOpen
               /\ phase' = "Open" /\ outcome' = "Opened"
               /\ window' = open.id /\ expectedRevision' = open.revision
               /\ overdue' = FALSE
               /\ UNCHANGED <<owned, target, requested, transferred, transferVars>>
      <4>1. open.id \in 1 .. MaxWindows /\ open.revision \in 0 .. MaxRevision
        BY <3>1 DEF Types, WindowTyped, ChestOpen, Windows
      <4>2. MachineTyped'
        BY <3>1, <4>1 DEF Types, MachineTyped, Phases
      <4> QED BY <3>1, <4>2, StayTyped
    <3>2. CASE Fail("WrongMenu") /\ UNCHANGED overdue
      BY <3>2, FailTyped DEF Types, OthersTyped
    <3> QED BY <1>4, <3>1, <3>2 DEF TickAwaitingMenu
  <2>2. OthersTyped'
    BY <1>4, <2>1 DEF TickAwaitingMenu, Types, OthersTyped, othersVars
  <2> QED BY <1>4, <2>1, <2>2, StayTyped DEF TickAwaitingMenu, Types
<1>5. CASE TickOpen
  BY <1>5, FailTyped, StayTyped DEF TickOpen, Types
<1>6. CASE TickTransferring
  <2>1. CASE TickClickFails
    BY <2>1, FailTyped, StayTyped DEF TickClickFails, Types
  <2>2. CASE TickClick
    <3>1. TransferTyped'
      BY <2>2, ClickedTyped DEF TickClick, Types, TransferTyped
    <3>2. WindowTyped'
      BY <2>2, ClickedTyped DEF TickClick, Types, WindowTyped
    <3> QED BY <2>2, <3>1, <3>2, StayTyped DEF TickClick, Types
  <2>3. CASE TickConfirm
    <3>1. MachineTyped' /\ TransferTyped'
      <4>1. CASE Fail(ConfirmError)
        BY <4>1, FailTyped
      <4>2. CASE /\ phase' = "Open"
                 /\ expectedRevision' = open.revision
                 /\ transferred' = transferred + Actual
                 /\ TransferOver
                 /\ UNCHANGED <<owned, target, window, requested>>
        <5>1. open.revision \in 0 .. MaxRevision /\ transferred + Actual \in Nat
          BY ActualIs DEF Types, WindowTyped, MachineTyped, Windows
        <5>2. MachineTyped'
          BY <4>2, <5>1 DEF Types, MachineTyped, Phases
        <5> QED BY <4>2, <5>2, TransferOverTyped
      <4> QED BY <2>3, <4>1, <4>2 DEF TickConfirm
    <3> QED BY <2>3, <3>1, StayTyped DEF TickConfirm, Types
  <2> QED BY <1>6, <2>1, <2>2, <2>3 DEF TickTransferring
<1> QED BY <1>1, <1>2, <1>3, <1>4, <1>5, <1>6 DEF Tick, TickPhase

\* What the server, other owners and the world do keeps the types.
LEMMA EnvironmentTyped == Types /\ (Environment \/ UNCHANGED vars) => Types'
<1> SUFFICES ASSUME Types, Environment \/ UNCHANGED vars PROVE Types'
  OBVIOUS
<1>0. ASSUME undisturbed' = FALSE, UNCHANGED <<transfer, plannedFor>> PROVE TransferTyped'
  BY <1>0 DEF Types, TransferTyped
<1>1. CASE ServerOpens
  <2>1. PICK kind \in {"chest", "other"} : open' = [id |-> opened + 1, kind |-> kind, revision |-> 0]
    BY <1>1 DEF ServerOpens
  <2>2. /\ opened + 1 \in 1 .. MaxWindows /\ opened' = opened + 1
        /\ opened + 1 \in 0 .. opened + 1 /\ 0 \in 0 .. MaxRevision /\ 0 \in 0 .. MaxAsked
    BY <1>1, Numbers DEF ServerOpens, Types, WindowTyped
  <2>3. /\ open' \in Windows /\ open'.id = opened + 1
    BY <2>1, <2>2 DEF Windows
  <2>4. menu' \in Menus
    BY <1>1, Numbers DEF ServerOpens
  <2>5. WindowTyped'
    <3>1. cursor' = 0 /\ asked' = 0
      BY <1>1 DEF ServerOpens
    <3>2. opened' \in 0 .. MaxWindows
      BY <2>2
    <3> QED BY <2>2, <2>3, <2>4, <3>1, <3>2, Numbers DEF WindowTyped
  <2> QED BY <1>0, <1>1, <2>5, StayTyped DEF ServerOpens, Types
<1>2. CASE ServerCloses
  BY <1>0, <1>2, ClosedTyped, StayTyped DEF ServerCloses, Types
<1>3. CASE ServerAcknowledges
  <2>1. open' \in Windows /\ open'.id = open.id /\ open'.kind = open.kind
    BY <1>3, Numbers DEF ServerAcknowledges, Types, WindowTyped, Windows
  <2>2. WindowTyped'
    BY <1>3, <2>1 DEF ServerAcknowledges, Types, WindowTyped
  <2> QED BY <1>3, <2>2, StayTyped DEF ServerAcknowledges, Types
<1>4. CASE ServerChangesMenu
  <2>1. open' \in Windows /\ open'.id = open.id /\ open'.kind = open.kind
    BY <1>4, Numbers DEF ServerChangesMenu, Types, WindowTyped, Windows
  <2>2. WindowTyped'
    BY <1>4, <2>1, Numbers DEF ServerChangesMenu, Types, WindowTyped
  <2> QED BY <1>0, <1>4, <2>2, StayTyped DEF ServerChangesMenu, Types
<1>5. CASE OthersMove
  <2>1. OthersTyped'
    BY <1>5 DEF OthersMove, Types, OthersTyped
  <2> QED BY <1>5, <2>1, StayTyped DEF OthersMove, Types
<1>6. CASE PresenceChanges
  <2>1. OthersTyped'
    BY <1>6 DEF PresenceChanges, Types, OthersTyped
  <2>2. WindowTyped' /\ TransferTyped'
    BY <1>0, <1>6, ClosedTyped, StayTyped DEF PresenceChanges
  <2> QED BY <1>6, <2>1, <2>2, StayTyped DEF PresenceChanges, Types
<1>7. CASE Expire
  <2>1. OthersTyped'
    BY <1>7 DEF Expire, Types, OthersTyped, othersVars
  <2> QED BY <1>7, <2>1, StayTyped DEF Expire, Types
<1>8. CASE UNCHANGED vars
  BY <1>8, StayTyped DEF vars, Types
<1> QED BY <1>1, <1>2, <1>3, <1>4, <1>5, <1>6, <1>7, <1>8 DEF Environment

\* The type invariant, for any chest, any sizes of chest and inventory, any stacks
\* and any number of windows and transfers.
THEOREM AlwaysTyped == Spec => []TypeOK
<1>1. Types /\ [Next]_vars => Types'
  BY CommandTyped, TickTyped, EnvironmentTyped DEF Next
<1>2. Spec => []Types
  BY InitTyped, <1>1, PTL DEF Spec
<1> QED BY <1>2, TypesImply, PTL

-----------------------------------------------------------------------------
(* Exactness.                                                               *)

\* What the transfer under way comes to, when the rest of its clicks are made and
\* nothing else happens: that is all that is left of the plan once the first click has
\* changed the menu it was made for.
PlanHolds ==
  /\ transfer.planned \in 1 .. requested
  /\ \E m \in Menus :
       /\ transfer.baseline - Available(m, transfer.direction) = transfer.planned
       /\ Leads(Holding(menu, cursor), transfer.clicks, Holding(m, 0))
Exact == phase = "Transferring" /\ undisturbed => PlanHolds

\* A plan without clicks left has moved what was planned.
LEMMA ExactImplies == Types /\ Exact => TransferIsExact
<1> SUFFICES ASSUME Types, Exact,
                    phase = "Transferring", undisturbed, transfer.clicks = <<>>
             PROVE  /\ cursor = 0
                    /\ transfer.baseline - Available(menu, transfer.direction) = transfer.planned
                    /\ transfer.planned \in 1 .. requested
  BY DEF TransferIsExact
<1>1. PlanHolds
  BY DEF Exact
<1>2. PICK m \in Menus :
        /\ transfer.baseline - Available(m, transfer.direction) = transfer.planned
        /\ Leads(Holding(menu, cursor), <<>>, Holding(m, 0))
  BY <1>1 DEF PlanHolds
<1>3. Holding(menu, cursor) \in Hands
  BY DEF Types, WindowTyped, Holding, Hands
<1>4. Holding(m, 0) = Holding(menu, cursor)
  BY <1>2, <1>3, LeadsNowhere
<1>5. Holding(m, 0).menu = m /\ Holding(m, 0).cursor = 0
      /\ Holding(menu, cursor).menu = menu /\ Holding(menu, cursor).cursor = cursor
  BY DEF Holding
<1>6. m = menu /\ cursor = 0
  BY <1>4, <1>5
<1> QED BY <1>1, <1>2, <1>6 DEF PlanHolds

\* A step that touches neither the plan nor the window keeps what the plan leads to.
LEMMA ExactKept ==
  ASSUME Exact, UNCHANGED <<phase, requested, transfer, undisturbed, menu, cursor>>
  PROVE  Exact'
BY DEF Exact, PlanHolds

\* A transfer that ended, or was disturbed, promises nothing.
LEMMA ExactOver ==
  /\ phase' # "Transferring" => Exact'
  /\ undisturbed' = FALSE => Exact'
BY DEF Exact

\* fail ends the transfer.
LEMMA FailExact == ASSUME NEW o, Fail(o) PROVE Exact'
BY ExactOver DEF Fail

\* A plan made with an empty cursor comes to what it is to move.
LEMMA BegunExact ==
  ASSUME Types, NEW dir \in Directions, NEW count \in Counts, TransferBegun(dir, count),
         UNCHANGED <<menu, cursor>>
  PROVE  Exact'
<1> SUFFICES ASSUME undisturbed' PROVE PlanHolds'
  BY DEF Exact
<1>1. cursor = 0
  BY DEF TransferBegun
<1>2. menu \in Menus /\ count \in Nat
  BY Numbers DEF Types, WindowTyped
<1> DEFINE total == Feasible(menu, dir, count)
           clicks == PlanClicks(menu, dir, count)
           m == MenuAt(menu, dir, total)
<1>3. /\ total \in Nat /\ total <= Available(menu, dir) /\ Available(menu, dir) \in Nat
      /\ total \in 1 .. count
  BY <1>2, FeasibleIs DEF TransferBegun
<1>4. Leads(Holding(menu, 0), clicks, Holding(m, 0))
  BY <1>2, PlanLeads
<1>5. m \in Menus
  BY <1>2, <1>3, MenuAtIs
<1>6. Available(m, dir) = Available(menu, dir) - total
  BY <1>2, <1>3, AvailableAt
<1>7. /\ transfer' = [clicks |-> clicks, planned |-> total,
                      baseline |-> Available(menu, dir), direction |-> dir]
      /\ requested' = count
  BY DEF TransferBegun
<1> HIDE DEF total, clicks, m
<1>8. /\ transfer'.clicks = clicks /\ transfer'.planned = total
      /\ transfer'.baseline = Available(menu, dir) /\ transfer'.direction = dir
  BY <1>7
<1>9. Available(menu, dir) - Available(m, dir) = total
  BY <1>3, <1>6
<1>10. menu' = menu /\ cursor' = 0
  BY <1>1
<1>11. transfer'.planned \in 1 .. requested'
  BY <1>3, <1>7, <1>8
<1>12. /\ transfer'.baseline - Available(m, transfer'.direction) = transfer'.planned
       /\ Leads(Holding(menu', cursor'), transfer'.clicks, Holding(m, 0))
  BY <1>4, <1>8, <1>9, <1>10
<1> QED BY <1>5, <1>11, <1>12 DEF PlanHolds

\* A click leaves the rest of the plan to do.
LEMMA ClickExact ==
  ASSUME Types, Exact, TickClick
  PROVE  Exact'
<1> SUFFICES ASSUME phase' = "Transferring", undisturbed' PROVE PlanHolds'
  BY DEF Exact
<1>1. UNCHANGED <<phase, undisturbed, requested>>
  BY DEF TickClick, machineVars
<1>2. PlanHolds
  BY <1>1 DEF Exact
<1>3. PICK m \in Menus :
        /\ transfer.baseline - Available(m, transfer.direction) = transfer.planned
        /\ Leads(Holding(menu, cursor), transfer.clicks, Holding(m, 0))
  BY <1>2 DEF PlanHolds
<1>4. transfer.clicks \in Seq(Clicks) /\ transfer.clicks # <<>>
  BY DEF Types, TransferTyped, Transfers, TickClick
<1>5. Leads(After(Holding(menu, cursor), Head(transfer.clicks)), Tail(transfer.clicks),
            Holding(m, 0))
  BY <1>3, <1>4, LeadsAfterwards
<1>6. Leads(Holding(menu', cursor'), transfer'.clicks, Holding(m, 0))
  BY <1>5, ClickedTyped
<1>7. transfer'.baseline - Available(m, transfer'.direction) = transfer'.planned
  BY <1>3, ClickedTyped
<1>8. transfer'.planned \in 1 .. requested'
  BY <1>1, <1>2, ClickedTyped DEF PlanHolds
<1> QED BY <1>6, <1>7, <1>8 DEF PlanHolds

\* Every command keeps or makes a plan that leads to its amount.
LEMMA CommandExact == Types /\ Exact /\ Command => Exact'
<1> SUFFICES ASSUME Types, Exact, Command PROVE Exact'
  OBVIOUS
<1>1. CASE OpenElsewhere
  BY <1>1, FailExact DEF OpenElsewhere
<1>2. CASE OpenChest
  BY <1>2, ExactOver DEF OpenChest
<1>3. CASE Transfer
  <2>1. PICK dir \in Directions, count \in Counts :
          TransferRefused(dir, count) \/ TransferStale(dir, count) \/ TransferBegun(dir, count)
    BY <1>3 DEF Transfer
  <2>2. UNCHANGED <<menu, cursor>>
    BY <1>3 DEF Transfer
  <2> QED BY <2>1, <2>2, FailExact, BegunExact DEF TransferRefused, TransferStale
<1>4. CASE Close
  BY <1>4, ExactOver DEF Close
<1>5. CASE Cancel
  BY <1>5, ExactOver DEF Cancel
<1> QED BY <1>1, <1>2, <1>3, <1>4, <1>5 DEF Command

\* Every branch of the tick keeps the plan, does its first click, or ends it.
LEMMA TickExact == Types /\ Exact /\ Tick => Exact'
<1> SUFFICES ASSUME Types, Exact, Tick PROVE Exact'
  OBVIOUS
<1>1. CASE TickEnds
  BY <1>1, FailExact DEF TickEnds
<1>2. CASE TickNavigating
  BY <1>2, FailExact, ExactOver DEF TickNavigating, Advance
<1>3. CASE TickAligning
  BY <1>3, FailExact, ExactOver DEF TickAligning, Advance
<1>4. CASE TickAwaitingMenu
  BY <1>4, FailExact, ExactOver DEF TickAwaitingMenu
<1>5. CASE TickOpen
  BY <1>5, FailExact DEF TickOpen
<1>6. CASE TickTransferring
  <2>1. CASE TickClickFails
    BY <2>1, FailExact DEF TickClickFails
  <2>2. CASE TickClick
    BY <2>2, ClickExact
  <2>3. CASE TickConfirm
    BY <2>3, FailExact, ExactOver DEF TickConfirm
  <2> QED BY <1>6, <2>1, <2>2, <2>3 DEF TickTransferring
<1> QED BY <1>1, <1>2, <1>3, <1>4, <1>5, <1>6 DEF Tick, TickPhase

\* Whatever the server changes in the window disturbs the transfer.
LEMMA EnvironmentExact == Exact /\ (Environment \/ UNCHANGED vars) => Exact'
<1> SUFFICES ASSUME Exact, Environment \/ UNCHANGED vars PROVE Exact'
  OBVIOUS
<1> DEFINE Kept == UNCHANGED <<phase, requested, transfer, undisturbed, menu, cursor>>
<1>1. CASE ServerOpens \/ ServerCloses \/ ServerChangesMenu
  BY <1>1, ExactOver DEF ServerOpens, ServerCloses, ServerChangesMenu
<1>2. CASE ServerAcknowledges
  <2>1. Kept
    BY <1>2 DEF ServerAcknowledges, machineVars, transferVars
  <2> QED BY <2>1, ExactKept
<1>3. CASE OthersMove
  <2>1. Kept
    BY <1>3 DEF OthersMove, machineVars, transferVars, windowVars
  <2> QED BY <2>1, ExactKept
<1>4. CASE PresenceChanges
  <2>1. CASE undisturbed' = FALSE
    BY <2>1, ExactOver
  <2>2. CASE UNCHANGED <<windowVars, transferVars>>
    <3>1. Kept
      BY <1>4, <2>2 DEF PresenceChanges, machineVars, transferVars, windowVars
    <3> QED BY <3>1, ExactKept
  <2> QED BY <1>4, <2>1, <2>2 DEF PresenceChanges
<1>5. CASE Expire
  <2>1. Kept
    BY <1>5 DEF Expire, machineVars, transferVars, windowVars
  <2> QED BY <2>1, ExactKept
<1>6. CASE UNCHANGED vars
  <2>1. Kept
    BY <1>6 DEF vars, machineVars, transferVars, windowVars
  <2> QED BY <2>1, ExactKept
<1> QED BY <1>1, <1>2, <1>3, <1>4, <1>5, <1>6 DEF Environment

\* A transfer that starts with an empty cursor and is left alone moves exactly what
\* was planned and leaves nothing on the cursor: plan_transfer's clicks do what they
\* are meant to, for every way the stacks can lie in a chest and an inventory of any
\* size.
THEOREM AlwaysExact == Spec => []TransferIsExact
<1>1. Init => Types /\ Exact
  BY InitTyped DEF Init, Exact
<1>2. (Types /\ Exact) /\ [Next]_vars => (Types /\ Exact)'
  BY CommandTyped, TickTyped, EnvironmentTyped, CommandExact, TickExact, EnvironmentExact
  DEF Next
<1> QED BY <1>1, <1>2, ExactImplies, PTL DEF Spec
===============================================================================
