-------------------------- MODULE ApplicationProofs --------------------------
(***************************************************************************)
(* Who may be under way together, what an emergency stop leaves, and that   *)
(* no gathering is deaf, for any commands, players, lengths of the chat and *)
(* number of failures.                                                      *)
(***************************************************************************)
EXTENDS Application, Recursions, SequenceTheorems

Bots == [on : SUBSET Controllers, walk : {"Still", "Going", "Following"},
         look : {"Free", "Plain", "Precise"}, kept : BOOLEAN]

\* What can be cancelled, and what can be ticked.
Names == Controllers \cup {"reset", "walk", "look", "plainLook"}
Driving == Controllers \cup {"movement", "look"}

-----------------------------------------------------------------------------
(* The effects of the contracts.                                            *)

\* Turning a controller off turns off that one and nothing else.
LEMMA OnOff ==
  ASSUME NEW b \in Bots, NEW c
  PROVE  /\ Off(b, c) \in Bots /\ Off(b, c).on = b.on \ {c} /\ Off(b, c).walk = b.walk
         /\ Off(b, c).look = b.look /\ Off(b, c).kept = b.kept
         /\ c \in Controllers => On(b, c) \in Bots
         /\ On(b, c).on = b.on \cup {c} /\ On(b, c).walk = b.walk
         /\ On(b, c).look = b.look /\ On(b, c).kept = b.kept
BY DEF Off, On, Bots

\* Standing still ends the walk and nothing else.
LEMMA Walks ==
  ASSUME NEW b \in Bots
  PROVE  /\ Still(b) \in Bots /\ Still(b).on = b.on /\ Still(b).walk = "Still"
         /\ Still(b).look = b.look /\ Still(b).kept = b.kept
         /\ Going(b) \in Bots /\ Going(b).on = b.on
BY DEF Still, Going, Bots

\* Ending the look frees the camera and nothing else.
LEMMA Looks ==
  ASSUME NEW b \in Bots
  PROVE  /\ Unlooked(b) \in Bots /\ Unlooked(b).on = b.on /\ Unlooked(b).walk = b.walk
         /\ Unlooked(b).look = "Free" /\ ~Unlooked(b).kept
         /\ LookPlain(b) \in Bots /\ LookPlain(b).on = b.on
         /\ Aimed(b) \in Bots /\ Aimed(b).on = b.on /\ Aimed(b).walk = b.walk
         /\ b.look = "Free" /\ ~b.kept => ~Aimed(b).kept
         /\ Released(b) \in Bots /\ Released(b).on = b.on /\ Released(b).walk = b.walk
         /\ ~b.kept => Released(b).look = "Free"
         /\ ~Released(b).kept
BY DEF Unlooked, LookPlain, Aimed, Released, Bots

\* Halting a controller turns it off and starts no walk.
LEMMA Halts ==
  ASSUME NEW b \in Bots, NEW c
  PROVE  /\ Halted(b, c) \in Bots /\ Halted(b, c).on = b.on \ {c}
         /\ b.walk = "Still" => Halted(b, c).walk = "Still"
         /\ Halted(b, c).look = b.look /\ Halted(b, c).kept = b.kept
<1>1. CASE c \in b.on
  <2>1. Off(b, c) \in Bots
    BY OnOff
  <2> QED BY <1>1, <2>1, OnOff, Walks DEF Halted
<1>2. CASE c \notin b.on
  BY <1>2 DEF Halted
<1> QED BY <1>1, <1>2

\* A cancel turns off what it names and starts nothing.
LEMMA Cancels ==
  ASSUME NEW b \in Bots, NEW c \in Names
  PROVE  /\ CancelOne(b, c) \in Bots
         /\ CancelOne(b, c).on \subseteq b.on \ {c}
         /\ b.walk = "Still" \/ c = "walk" => CancelOne(b, c).walk = "Still"
         /\ (b.look = "Free" /\ ~b.kept) \/ c = "look"
              => CancelOne(b, c).look = "Free" /\ ~CancelOne(b, c).kept
<1> DEFINE d == CancelOne(b, c)
<1>0. b.on \subseteq Controllers
  BY DEF Bots
<1>1. CASE c \in {"trip", "navigation"}
  <2>1. d = Halted(b, c)
    BY <1>1 DEF CancelOne
  <2> QED BY <1>1, <2>1, Halts
<1>2. CASE c \in {"combat", "pvp"}
  <2>1. d = IF c \in b.on THEN Unlooked(Halted(b, c)) ELSE b
    BY <1>2 DEF CancelOne
  <2>2. Halted(b, c) \in Bots /\ Halted(b, c).on = b.on \ {c}
    BY Halts
  <2>3. CASE c \in b.on
    <3>1. d = Unlooked(Halted(b, c))
      BY <2>1, <2>3
    <3>2. b.walk = "Still" => Halted(b, c).walk = "Still"
      BY Halts
    <3> QED BY <1>2, <2>2, <3>1, <3>2, Looks
  <2>4. CASE c \notin b.on
    BY <1>2, <2>1, <2>4
  <2> QED BY <2>3, <2>4
<1>3. CASE c = "interaction"
  <2> DEFINE h == Halted(Halted(b, c), "navigation")
  <2>1. d = IF c \in b.on THEN Released(h) ELSE b
    BY <1>3 DEF CancelOne
  <2>2. Halted(b, c) \in Bots
    BY Halts
  <2>3. /\ h \in Bots /\ h.on \subseteq b.on \ {c} /\ (b.walk = "Still" => h.walk = "Still")
        /\ h.look = b.look /\ h.kept = b.kept
    BY <2>2, Halts
  <2> HIDE DEF h
  <2> QED BY <1>3, <2>1, <2>3, Looks
<1>4. CASE c = "container"
  <2> DEFINE h == Halted(Off(b, c), "navigation")
  <2>1. d = Unlooked(h)
    BY <1>4 DEF CancelOne
  <2>2. Off(b, c) \in Bots
    BY OnOff
  <2>3. h \in Bots /\ h.on \subseteq b.on \ {c} /\ (b.walk = "Still" => h.walk = "Still")
    BY <2>2, OnOff, Halts
  <2> HIDE DEF h
  <2> QED BY <1>4, <2>1, <2>3, Looks
<1>5. CASE c = "clutch"
  <2>1. d = Released(Off(b, c))
    BY <1>5 DEF CancelOne
  <2>2. Off(b, c) \in Bots
    BY OnOff
  <2> QED BY <1>5, <2>1, <2>2, OnOff, Looks
<1>6. CASE c = "reset"
  <2>1. d = Off(b, "clutch")
    BY <1>6 DEF CancelOne
  <2> QED BY <1>0, <1>6, <2>1, OnOff DEF Controllers
<1>7. CASE c = "walk"
  <2>1. d = Still(b)
    BY <1>7 DEF CancelOne
  <2> QED BY <1>0, <1>7, <2>1, Walks DEF Controllers
<1>8. CASE c = "look"
  <2>1. d = Unlooked(b)
    BY <1>8 DEF CancelOne
  <2> QED BY <1>0, <1>8, <2>1, Looks DEF Controllers
<1>9. CASE c = "plainLook"
  <2>1. d = IF b.look = "Plain" THEN Unlooked(b) ELSE b
    BY <1>9 DEF CancelOne
  <2> QED BY <1>0, <1>9, <2>1, Looks DEF Controllers
<1> QED BY <1>1, <1>2, <1>3, <1>4, <1>5, <1>6, <1>7, <1>8, <1>9 DEF Names, Controllers

-----------------------------------------------------------------------------
(* What holds of every step of a list of cancels or of ticks holds of all.  *)

\* The bot while the names of cs are cancelled, one after the other.
Course(b, cs, after) ==
  /\ after[0] = b
  /\ \A n \in 1 .. Len(cs) : after[n] = CancelOne(after[n - 1], cs[n])

\* A list of cancels has a course through the bots after each.
LEMMA CancelRuns ==
  ASSUME NEW b \in Bots, NEW cs \in Seq(Names)
  PROVE  \E after \in [0 .. Len(cs) -> Bots] : Course(b, cs, after) /\ Cancel(b, cs) = after[Len(cs)]
<1> DEFINE N == Len(cs)
           step == [x \in (1 .. N) \X Bots |-> CancelOne(x[2], cs[x[1]])]
           Is(f) == f = [n \in 0 .. N |-> IF n = 0 THEN b ELSE CancelOne(f[n - 1], cs[n])]
           after == CHOOSE f : Is(f)
<1>1. N \in Nat /\ \A n \in 1 .. N : cs[n] \in Names
  BY LenProperties, ElementOfSeq
<1>2. step \in [(1 .. N) \X Bots -> Bots]
  BY <1>1, Cancels
<1>3. PICK f \in [0 .. N -> Bots] : f[0] = b /\ \A n \in 1 .. N : f[n] = step[<<n, f[n - 1]>>]
  <2> HIDE DEF step, N
  <2>1. Unrolls(Bots, b, step, N)
    BY <1>1, <1>2, Unrolling
  <2> QED BY <2>1 DEF Unrolls
<1>4. ASSUME NEW n \in 1 .. N PROVE f[n] = CancelOne(f[n - 1], cs[n])
  <2>1. n - 1 \in 0 .. N
    BY <1>1
  <2>2. <<n, f[n - 1]>> \in (1 .. N) \X Bots
    BY <1>3, <2>1
  <2> QED BY <1>3, <2>2
<1>5. Is(f)
  <2> HIDE DEF N
  <2>1. \A n \in 0 .. N : f[n] = IF n = 0 THEN b ELSE CancelOne(f[n - 1], cs[n])
    BY <1>1, <1>3, <1>4
  <2> QED BY <1>3, <2>1
<1>6. Is(after)
  <2> HIDE DEF Is
  <2> QED BY <1>5
<1>7. Cancel(b, cs) = after[N]
  BY DEF Cancel
<1> HIDE DEF after
<1>8. after = [n \in 0 .. N |-> IF n = 0 THEN b ELSE CancelOne(after[n - 1], cs[n])]
  BY <1>6
<1>9. Course(b, cs, after)
  BY <1>1, <1>8 DEF Course
<1>10. after \in [0 .. N -> Bots]
  <2> HIDE DEF N
  <2> DEFINE Good == {n \in Nat : n <= N => after[n] \in Bots}
  <2>1. 0 \in Good
    BY <1>1, <1>8
  <2>2. ASSUME NEW n \in Nat, n \in Good PROVE n + 1 \in Good
    <3> SUFFICES ASSUME n + 1 <= N PROVE after[n + 1] \in Bots
      OBVIOUS
    <3>1. after[n] \in Bots /\ n + 1 \in 1 .. N /\ n + 1 \in 0 .. N
      BY <1>1, <2>2
    <3>2. after[n + 1] = CancelOne(after[n], cs[n + 1])
      <4>1. (n + 1) - 1 = n /\ n + 1 # 0
        OBVIOUS
      <4>2. after[n + 1] = IF n + 1 = 0 THEN b ELSE CancelOne(after[(n + 1) - 1], cs[n + 1])
        BY <1>8, <3>1
      <4> QED BY <4>1, <4>2
    <3> QED BY <1>1, <3>1, <3>2, Cancels
  <2>3. Nat \subseteq Good
    <3> HIDE DEF Good
    <3> QED BY <2>1, <2>2, Induction
  <2>4. \A n \in 0 .. N : after[n] \in Bots
    BY <1>1, <2>3
  <2>5. DOMAIN after = 0 .. N /\ after = [n \in 0 .. N |-> after[n]]
    BY <1>8
  <2> QED BY <2>4, <2>5
<1> QED BY <1>7, <1>9, <1>10

\* What each cancel of a list keeps, the list keeps.
LEMMA CancelKeeps ==
  ASSUME NEW P, P \subseteq Bots, NEW b \in P, NEW cs \in Seq(Names),
         \A d \in P, n \in 1 .. Len(cs) : CancelOne(d, cs[n]) \in P
  PROVE  Cancel(b, cs) \in P
<1>1. PICK after \in [0 .. Len(cs) -> Bots] : Course(b, cs, after) /\ Cancel(b, cs) = after[Len(cs)]
  BY CancelRuns
<1> DEFINE Good == {n \in Nat : n <= Len(cs) => after[n] \in P}
<1>2. Len(cs) \in Nat
  BY LenProperties
<1>3. 0 \in Good
  BY <1>1 DEF Course
<1>4. ASSUME NEW n \in Nat, n \in Good PROVE n + 1 \in Good
  <2> SUFFICES ASSUME n + 1 <= Len(cs) PROVE after[n + 1] \in P
    OBVIOUS
  <2>1. after[n] \in P /\ n + 1 \in 1 .. Len(cs) /\ (n + 1) - 1 = n
    BY <1>2, <1>4
  <2>2. after[n + 1] = CancelOne(after[n], cs[n + 1])
    BY <1>1, <2>1 DEF Course
  <2> QED BY <2>1, <2>2
<1>5. Nat \subseteq Good
  <2> HIDE DEF Good
  <2> QED BY <1>3, <1>4, Induction
<1> QED BY <1>1, <1>2, <1>5

\* What the cancel of one of cs reaches, and the others leave alone, is so in the end.
LEMMA CancelReaches ==
  ASSUME NEW Q, Q \subseteq Bots, NEW b \in Bots, NEW cs \in Seq(Names), NEW k \in 1 .. Len(cs),
         \A d \in Bots : CancelOne(d, cs[k]) \in Q,
         \A d \in Q, n \in 1 .. Len(cs) : CancelOne(d, cs[n]) \in Q
  PROVE  Cancel(b, cs) \in Q
<1>1. PICK after \in [0 .. Len(cs) -> Bots] : Course(b, cs, after) /\ Cancel(b, cs) = after[Len(cs)]
  BY CancelRuns
<1> DEFINE Good == {n \in Nat : n \in k .. Len(cs) => after[n] \in Q}
<1>2. Len(cs) \in Nat
  BY LenProperties
<1>3. 0 \in Good
  OBVIOUS
<1>4. ASSUME NEW n \in Nat, n \in Good PROVE n + 1 \in Good
  <2> SUFFICES ASSUME n + 1 \in k .. Len(cs) PROVE after[n + 1] \in Q
    OBVIOUS
  <2>1. n + 1 \in 1 .. Len(cs) /\ (n + 1) - 1 = n /\ n \in 0 .. Len(cs)
    BY <1>2
  <2>2. after[n + 1] = CancelOne(after[n], cs[n + 1]) /\ after[n] \in Bots
    BY <1>1, <2>1 DEF Course
  <2>3. CASE n + 1 = k
    BY <2>2, <2>3
  <2>4. CASE n + 1 # k
    <3>1. n \in k .. Len(cs)
      BY <1>2, <2>4
    <3> QED BY <1>4, <2>1, <2>2, <3>1
  <2> QED BY <2>3, <2>4
<1>5. Nat \subseteq Good
  <2> HIDE DEF Good
  <2> QED BY <1>3, <1>4, Induction
<1>6. Len(cs) \in k .. Len(cs)
  BY <1>2
<1> QED BY <1>1, <1>2, <1>5, <1>6

\* A list of cancels starts nothing and turns off all it names.
LEMMA CancelEnds ==
  ASSUME NEW b \in Bots, NEW cs \in Seq(Names)
  PROVE  /\ Cancel(b, cs) \in Bots
         /\ Cancel(b, cs).on \subseteq b.on
         /\ \A n \in 1 .. Len(cs) : cs[n] \notin Cancel(b, cs).on
         /\ b.walk = "Still" \/ (\E n \in 1 .. Len(cs) : cs[n] = "walk")
              => Cancel(b, cs).walk = "Still"
         /\ (b.look = "Free" /\ ~b.kept) \/ (\E n \in 1 .. Len(cs) : cs[n] = "look")
              => Cancel(b, cs).look = "Free" /\ ~Cancel(b, cs).kept
<1> DEFINE Walking == {d \in Bots : d.walk = "Still"}
           Looking == {d \in Bots : d.look = "Free" /\ ~d.kept}
           Fewer == {d \in Bots : d.on \subseteq b.on}
           Lacking(c) == {d \in Bots : c \notin d.on}
<1>0. \A n \in 1 .. Len(cs) : cs[n] \in Names
  BY ElementOfSeq
<1>1. Cancel(b, cs) \in Fewer
  <2>1. \A d \in Fewer, n \in 1 .. Len(cs) : CancelOne(d, cs[n]) \in Fewer
    BY <1>0, Cancels
  <2> QED BY <2>1, CancelKeeps
<1>2. ASSUME NEW n \in 1 .. Len(cs) PROVE Cancel(b, cs) \in Lacking(cs[n])
  <2>1. \A d \in Bots : CancelOne(d, cs[n]) \in Lacking(cs[n])
    BY <1>0, Cancels
  <2>2. \A d \in Lacking(cs[n]), m \in 1 .. Len(cs) : CancelOne(d, cs[m]) \in Lacking(cs[n])
    BY <1>0, Cancels
  <2>3. Lacking(cs[n]) \subseteq Bots
    OBVIOUS
  <2> HIDE DEF Lacking
  <2> QED BY <2>1, <2>2, <2>3, CancelReaches
<1>3. \A d \in Walking, n \in 1 .. Len(cs) : CancelOne(d, cs[n]) \in Walking
  BY <1>0, Cancels
<1>4. \A d \in Looking, n \in 1 .. Len(cs) : CancelOne(d, cs[n]) \in Looking
  BY <1>0, Cancels
<1>5. b.walk = "Still" => Cancel(b, cs) \in Walking
  BY <1>3, CancelKeeps
<1>6. b.look = "Free" /\ ~b.kept => Cancel(b, cs) \in Looking
  BY <1>4, CancelKeeps
<1>7. ASSUME NEW n \in 1 .. Len(cs), cs[n] = "walk" PROVE Cancel(b, cs) \in Walking
  <2>1. \A d \in Bots : CancelOne(d, cs[n]) \in Walking
    BY <1>0, <1>7, Cancels
  <2>2. Walking \subseteq Bots
    OBVIOUS
  <2> HIDE DEF Walking
  <2> QED BY <1>3, <2>1, <2>2, CancelReaches
<1>8. ASSUME NEW n \in 1 .. Len(cs), cs[n] = "look" PROVE Cancel(b, cs) \in Looking
  <2>1. \A d \in Bots : CancelOne(d, cs[n]) \in Looking
    BY <1>0, <1>8, Cancels
  <2>2. Looking \subseteq Bots
    OBVIOUS
  <2> HIDE DEF Looking
  <2> QED BY <1>4, <2>1, <2>2, CancelReaches
<1> QED BY <1>1, <1>2, <1>5, <1>6, <1>7, <1>8

-----------------------------------------------------------------------------
(* Ticks.                                                                   *)

\* A tick of a controller starts nothing but a clutch or a navigation.
LEMMA Ticks ==
  ASSUME NEW b \in Bots, NEW c \in Driving, NEW d \in Tick(b, c)
  PROVE  d \in Bots /\ d.on \subseteq b.on \cup {"clutch", "navigation"}
<1>1. CASE c \notin {"movement", "look", "clutch"} \cup b.on
  BY <1>1 DEF Tick
<1>2. CASE c \in {"movement", "look", "clutch"} \cup b.on
  <2>1. CASE c = "movement"
    BY <1>2, <2>1, Walks DEF Tick
  <2>2. CASE c = "look"
    <3>1. [b EXCEPT !.look = "Free"] \in Bots /\ [b EXCEPT !.look = "Free"].on = b.on
      BY DEF Bots
    <3>2. d = b \/ d = [b EXCEPT !.look = "Free"]
      BY <1>2, <2>2 DEF Tick
    <3> QED BY <3>1, <3>2
  <2>3. CASE c = "clutch"
    <3>1. CASE c \in b.on
      <4>1. d = b \/ d = Released(Off(b, c))
        BY <1>2, <2>3, <3>1 DEF Tick
      <4>2. Off(b, c) \in Bots /\ Off(b, c).on \subseteq b.on
        BY OnOff
      <4> QED BY <4>1, <4>2, Looks
    <3>2. CASE c \notin b.on
      <4> DEFINE freed == Cancel(b, <<"interaction", "combat">>)
      <4>1. d = b \/ d = freed \/ d = Aimed(On(freed, c))
        BY <1>2, <2>3, <3>2 DEF Tick
      <4>2. <<"interaction", "combat">> \in Seq(Names)
        BY DEF Names, Controllers
      <4>3. freed \in Bots /\ freed.on \subseteq b.on
        BY <4>2, CancelEnds
      <4> HIDE DEF freed
      <4>4. On(freed, c) \in Bots /\ On(freed, c).on \subseteq b.on \cup {"clutch"}
        BY <2>3, <4>3, OnOff DEF Controllers
      <4> QED BY <4>1, <4>3, <4>4, Looks
    <3> QED BY <3>1, <3>2
  <2>4. CASE c \in {"trip", "navigation"}
    <3>1. d \in {b, Going(b), Still(Off(b, c)), Off(b, c)}
      BY <1>2, <2>4 DEF Tick
    <3>2. Off(b, c) \in Bots /\ Off(b, c).on \subseteq b.on
      BY OnOff
    <3> QED BY <3>1, <3>2, Walks
  <2>5. CASE c = "interaction"
    <3>1. d \in {b, Going(On(b, "navigation")), Aimed(b), Off(b, c), Released(Off(b, c))}
      BY <1>2, <2>5 DEF Tick
    <3>2. Off(b, c) \in Bots /\ Off(b, c).on \subseteq b.on
      BY OnOff
    <3>3. On(b, "navigation") \in Bots /\ On(b, "navigation").on = b.on \cup {"navigation"}
      BY OnOff DEF Controllers
    <3> QED BY <3>1, <3>2, <3>3, Walks, Looks
  <2>6. CASE c = "combat"
    <3>1. d \in {b, Going(b), LookPlain(Still(b)), Off(b, "combat"), Still(Off(b, "combat"))}
      BY <1>2, <2>6 DEF Tick, Chase, Strike
    <3>2. Off(b, "combat") \in Bots /\ Off(b, "combat").on \subseteq b.on
      BY OnOff
    <3>3. Still(b) \in Bots /\ Still(b).on = b.on
      BY Walks
    <3> QED BY <3>1, <3>2, <3>3, Walks, Looks
  <2>7. CASE c = "pvp"
    <3>1. d \in {b, Going(b), Still(b), LookPlain(b), Aimed(b), Unlooked(Still(Off(b, c)))}
      BY <1>2, <2>7 DEF Tick
    <3>2. Off(b, c) \in Bots /\ Off(b, c).on \subseteq b.on
      BY OnOff
    <3>3. Still(Off(b, c)) \in Bots /\ Still(Off(b, c)).on \subseteq b.on
      BY <3>2, Walks
    <3> QED BY <3>1, <3>3, Walks, Looks
  <2>8. CASE c = "container"
    <3>1. d \in {b, Aimed(b), Off(b, c)}
      BY <1>2, <2>8 DEF Tick
    <3> QED BY <3>1, OnOff, Looks
  <2> QED BY <2>1, <2>2, <2>3, <2>4, <2>5, <2>6, <2>7, <2>8 DEF Driving, Controllers
<1> QED BY <1>1, <1>2

\* What every tick of a list keeps, the list keeps.
LEMMA DriveKeeps ==
  ASSUME NEW P, NEW b \in P, NEW cs, Len(cs) \in Nat,
         \A d \in P, n \in 1 .. Len(cs) : Tick(d, cs[n]) \subseteq P
  PROVE  Drive(b, cs) \subseteq P
<1> DEFINE N == Len(cs)
           S == SUBSET P
           Ticked(D, n) == UNION {Tick(d, cs[n]) : d \in D}
           step == [x \in (1 .. N) \X S |-> Ticked(x[2], x[1])]
           Is(f) == f = [n \in 0 .. N |-> IF n = 0 THEN {b} ELSE Ticked(f[n - 1], n)]
           after == CHOOSE f : Is(f)
<1>1. ASSUME NEW n \in 1 .. N, NEW D \in S PROVE Ticked(D, n) \in S
  OBVIOUS
<1>2. step \in [(1 .. N) \X S -> S] /\ {b} \in S
  BY <1>1
<1>3. PICK f \in [0 .. N -> S] : f[0] = {b} /\ \A n \in 1 .. N : f[n] = step[<<n, f[n - 1]>>]
  <2> HIDE DEF step, N, S
  <2>1. N \in Nat
    BY DEF N
  <2>2. Unrolls(S, {b}, step, N)
    BY <1>2, <2>1, Unrolling
  <2> QED BY <2>2 DEF Unrolls
<1>4. ASSUME NEW n \in 1 .. N PROVE f[n] = Ticked(f[n - 1], n)
  <2>1. n - 1 \in 0 .. N
    OBVIOUS
  <2>2. <<n, f[n - 1]>> \in (1 .. N) \X S
    BY <1>3, <2>1
  <2> HIDE DEF Ticked
  <2> QED BY <1>3, <2>2
<1>5. Is(f)
  <2> HIDE DEF Ticked
  <2>1. \A n \in 0 .. N : f[n] = IF n = 0 THEN {b} ELSE Ticked(f[n - 1], n)
    BY <1>3, <1>4
  <2> QED BY <1>3, <2>1
<1>6. Is(after)
  <2> HIDE DEF Is
  <2> QED BY <1>5
<1>7. Drive(b, cs) = after[N]
  BY DEF Drive
<1> HIDE DEF after
<1>8. /\ after[0] = {b}
      /\ \A n \in 1 .. N : after[n] = Ticked(after[n - 1], n)
  <2> HIDE DEF Ticked
  <2>1. N \in Nat /\ 0 \in 0 .. N /\ \A n \in 1 .. N : n \in 0 .. N /\ n # 0
    OBVIOUS
  <2> HIDE DEF N
  <2>2. after = [n \in 0 .. N |-> IF n = 0 THEN {b} ELSE Ticked(after[n - 1], n)]
    BY <1>6, Zenon
  <2>3. after[0] = {b}
    BY <2>1, <2>2
  <2>4. ASSUME NEW n \in 1 .. N PROVE after[n] = Ticked(after[n - 1], n)
    <3>1. after[n] = IF n = 0 THEN {b} ELSE Ticked(after[n - 1], n)
      BY <2>1, <2>2, Zenon
    <3> QED BY <2>1, <3>1, Zenon
  <2> QED BY <2>3, <2>4
<1> DEFINE Good == {n \in Nat : n <= N => after[n] \in S}
<1>9. 0 \in Good
  BY <1>2, <1>8
<1>10. ASSUME NEW n \in Nat, n \in Good PROVE n + 1 \in Good
  <2> SUFFICES ASSUME n + 1 <= N PROVE after[n + 1] \in S
    OBVIOUS
  <2>1. after[n] \in S /\ n + 1 \in 1 .. N /\ (n + 1) - 1 = n
    BY <1>10
  <2> HIDE DEF S, N, Ticked
  <2>2. after[n + 1] = Ticked(after[n], n + 1)
    BY <1>8, <2>1
  <2> QED BY <1>1, <2>1, <2>2
<1>11. Nat \subseteq Good
  <2> HIDE DEF Good
  <2> QED BY <1>9, <1>10, Induction
<1> QED BY <1>7, <1>11

-----------------------------------------------------------------------------
(* The chat.                                                                *)

\* The first stop is a line of the chat that says stop.
LEMMA FirstStopIs ==
  ASSUME NEW S, chat \in Seq(S)
  PROVE  /\ FirstStop \in 0 .. Len(chat)
         /\ FirstStop # 0 => IsStop(chat[FirstStop])
         /\ \A i \in 1 .. Len(chat) : IsStop(chat[i]) => FirstStop # 0 /\ FirstStop <= i
<1> DEFINE I == {i \in 1 .. Len(chat) : IsStop(chat[i])}
<1>1. FirstStop = IF I # {} THEN CHOOSE x \in I : \A y \in I : x <= y ELSE 0
  BY DEF FirstStop, SelectInSeq, Min
<1>2. I \subseteq Nat
  OBVIOUS
<1>3. CASE I # {}
  <2> DEFINE m == CHOOSE x \in I : \A y \in I : x <= y
  <2>1. m \in I /\ \A y \in I : m <= y
    <3> HIDE DEF I
    <3>1. \E x \in I : \A y \in I : x <= y
      BY <1>2, <1>3, Least
    <3> QED BY <3>1
  <2>2. FirstStop = m
    BY <1>1, <1>3
  <2> HIDE DEF m
  <2> QED BY <2>1, <2>2
<1>4. CASE I = {}
  BY <1>1, <1>4
<1> QED BY <1>3, <1>4

\* Removing a line leaves one line less.
LEMMA Removed ==
  ASSUME NEW S, NEW lines \in Seq(S), NEW i \in 1 .. Len(lines)
  PROVE  RemoveAt(lines, i) \in Seq(S) /\ Len(RemoveAt(lines, i)) = Len(lines) - 1
<1>1. Len(lines) \in Nat
  BY LenProperties
<1> DEFINE before == SubSeq(lines, 1, i - 1)
           behind == SubSeq(lines, i + 1, Len(lines))
<1>2. before \in Seq(S) /\ Len(before) = i - 1
  BY <1>1, SubSeqProperties
<1>3. behind \in Seq(S) /\ Len(behind) = Len(lines) - i
  BY <1>1, SubSeqProperties
<1>4. RemoveAt(lines, i) = before \o behind
  BY DEF RemoveAt
<1> HIDE DEF before, behind
<1>5. before \o behind \in Seq(S) /\ Len(before \o behind) = (i - 1) + (Len(lines) - i)
  <2> DEFINE both == before \o behind
  <2>1. both \in Seq(S) /\ Len(both) = Len(before) + Len(behind)
    BY <1>2, <1>3, ConcatProperties
  <2> HIDE DEF both
  <2>2. both \in Seq(S) /\ Len(both) = (i - 1) + (Len(lines) - i)
    BY <1>2, <1>3, <2>1
  <2> QED BY <2>2 DEF both
<1>6. (i - 1) + (Len(lines) - i) = Len(lines) - 1
  BY <1>1
<1> QED BY <1>4, <1>5, <1>6

\* What Without leaves of one line, and of the lines so far.
Part(line, X) == IF line \in X THEN <<>> ELSE <<line>>
Parts(lines, X, left) ==
  /\ left[0] = <<>>
  /\ \A n \in 1 .. Len(lines) : left[n] = left[n - 1] \o Part(lines[n], X)

PartsLead(S, X, lines) ==
  \E left \in [0 .. Len(lines) -> Seq(S)] :
    Parts(lines, X, left) /\ Without(lines, X) = left[Len(lines)]

Regroup(a, b, c) == (a \o b) \o c = a \o (b \o c)
\* Concatenation is associative.
LEMMA Regroups ==
  ASSUME NEW S, NEW a \in Seq(S), NEW b \in Seq(S), NEW c \in Seq(S)
  PROVE  Regroup(a, b, c)
BY ConcatAssociative DEF Regroup

\* Leaving lines out has a trace, one line at a time.
LEMMA WithoutRuns ==
  ASSUME NEW S, NEW X, NEW lines \in Seq(S)
  PROVE  PartsLead(S, X, lines)
<1> DEFINE N == Len(lines)
           T == Seq(S)
           Kept(n) == IF lines[n] \in X THEN <<>> ELSE <<lines[n]>>
           step == [x \in (1 .. N) \X T |-> x[2] \o Kept(x[1])]
           Is(f) == f = [n \in 0 .. N |-> IF n = 0 THEN <<>> ELSE f[n - 1] \o Kept(n)]
           left == CHOOSE f : Is(f)
<1>0. N \in Nat /\ <<>> \in T
  BY LenProperties
<1>1. ASSUME NEW n \in 1 .. N PROVE Kept(n) \in T
  <2>1. lines[n] \in S
    BY ElementOfSeq
  <2> QED BY <2>1
<1> HIDE DEF Kept
<1>2. step \in [(1 .. N) \X T -> T]
  BY <1>1, ConcatProperties
<1>3. PICK f \in [0 .. N -> T] : f[0] = <<>> /\ \A n \in 1 .. N : f[n] = step[<<n, f[n - 1]>>]
  <2> HIDE DEF step, N, T
  <2>1. Unrolls(T, <<>>, step, N)
    BY <1>0, <1>2, Unrolling
  <2> QED BY <2>1 DEF Unrolls
<1>4. ASSUME NEW n \in 1 .. N PROVE f[n] = f[n - 1] \o Kept(n)
  <2>1. n - 1 \in 0 .. N
    BY <1>0
  <2>2. <<n, f[n - 1]>> \in (1 .. N) \X T
    BY <1>3, <2>1
  <2> QED BY <1>3, <2>2
<1>5. Is(f)
  <2>1. \A n \in 0 .. N : f[n] = IF n = 0 THEN <<>> ELSE f[n - 1] \o Kept(n)
    BY <1>3, <1>4
  <2> QED BY <1>3, <2>1
<1>6. Is(left)
  <2> HIDE DEF Is
  <2> QED BY <1>5
<1>7. Without(lines, X) = left[N]
  BY DEF Without, Kept
<1> HIDE DEF left
<1>8. left = [n \in 0 .. N |-> IF n = 0 THEN <<>> ELSE left[n - 1] \o Kept(n)]
  BY <1>6
<1> HIDE DEF N
<1>9. left[0] = <<>> /\ \A n \in 1 .. N : left[n] = left[n - 1] \o Kept(n)
  <2>1. 0 \in 0 .. N /\ \A n \in 1 .. N : n \in 0 .. N /\ n # 0
    BY <1>0
  <2>2. ASSUME NEW n \in 1 .. N PROVE left[n] = left[n - 1] \o Kept(n)
    <3>1. left[n] = IF n = 0 THEN <<>> ELSE left[n - 1] \o Kept(n)
      BY <1>8, <2>1, Zenon
    <3> QED BY <2>1, <3>1, Zenon
  <2> QED BY <1>8, <2>1, <2>2
<1> DEFINE Good == {n \in Nat : n <= N => left[n] \in T}
<1>10. 0 \in Good
  BY <1>0, <1>9
<1>11. ASSUME NEW n \in Nat, n \in Good PROVE n + 1 \in Good
  <2> SUFFICES ASSUME n + 1 <= N PROVE left[n + 1] \in T
    OBVIOUS
  <2>1. left[n] \in T /\ n + 1 \in 1 .. N /\ (n + 1) - 1 = n
    BY <1>0, <1>11
  <2>2. left[n + 1] = left[n] \o Kept(n + 1)
    BY <1>9, <2>1
  <2> QED BY <1>1, <2>1, <2>2, ConcatProperties
<1>12. Nat \subseteq Good
  <2> HIDE DEF Good
  <2> QED BY <1>10, <1>11, Induction
<1>13. left \in [0 .. N -> T]
  <2>1. \A n \in 0 .. N : left[n] \in T
    BY <1>0, <1>12
  <2>2. left = [n \in 0 .. N |-> left[n]]
    BY <1>8
  <2> QED BY <2>1, <2>2
<1>14. Parts(lines, X, left)
  BY <1>9 DEF Parts, Part, Kept, N
<1> QED BY <1>7, <1>13, <1>14 DEF N, PartsLead

\* What is left is a sequence of lines, no longer than before.
LEMMA WithoutIs ==
  ASSUME NEW S, NEW X, NEW lines \in Seq(S)
  PROVE  Without(lines, X) \in Seq(S) /\ Len(Without(lines, X)) <= Len(lines)
<1> DEFINE N == Len(lines)
           T == Seq(S)
<1>1. PICK left \in [0 .. N -> T] : Parts(lines, X, left) /\ Without(lines, X) = left[N]
  <2>1. PartsLead(S, X, lines)
    BY WithoutRuns
  <2> QED BY <2>1 DEF PartsLead
<1>2. N \in Nat /\ <<>> \in T
  BY LenProperties
<1> DEFINE Kept(n) == Part(lines[n], X)
<1>3. ASSUME NEW n \in 1 .. N PROVE Kept(n) \in T /\ Len(Kept(n)) <= 1 /\ Len(Kept(n)) \in Nat
  <2>1. lines[n] \in S
    BY ElementOfSeq
  <2> QED BY <2>1 DEF Part
<1>4. left[0] = <<>> /\ \A n \in 1 .. N : left[n] = left[n - 1] \o Kept(n)
  BY <1>1 DEF Parts
<1> HIDE DEF Kept, N
<1> DEFINE Good == {n \in Nat : n <= N => Len(left[n]) <= n}
<1>10. 0 \in Good
  <2>1. Len(left[0]) = 0
    BY <1>4
  <2> QED BY <2>1
<1>11. ASSUME NEW n \in Nat, n \in Good PROVE n + 1 \in Good
  <2> SUFFICES ASSUME n + 1 <= N PROVE Len(left[n + 1]) <= n + 1
    OBVIOUS
  <2>1. left[n] \in T /\ Len(left[n]) <= n /\ n + 1 \in 1 .. N /\ (n + 1) - 1 = n
    BY <1>1, <1>2, <1>11
  <2>2. left[n + 1] = left[n] \o Kept(n + 1)
    BY <1>4, <2>1
  <2>3. /\ Kept(n + 1) \in T /\ Len(Kept(n + 1)) <= 1
        /\ Len(left[n]) \in Nat /\ Len(Kept(n + 1)) \in Nat
    BY <1>3, <2>1, LenProperties
  <2>4. Len(left[n + 1]) = Len(left[n]) + Len(Kept(n + 1))
    BY <2>1, <2>2, <2>3, ConcatProperties
  <2>5. ASSUME NEW x \in Nat, NEW y \in Nat, x <= n, y <= 1 PROVE x + y <= n + 1
    BY <2>5
  <2>6. Len(left[n]) + Len(Kept(n + 1)) <= n + 1
    BY <2>1, <2>3, <2>5
  <2> QED BY <2>4, <2>6
<1>12. Nat \subseteq Good
  <2> HIDE DEF Good
  <2> QED BY <1>10, <1>11, Induction
<1> QED BY <1>1, <1>2, <1>12 DEF N

\* Of no lines nothing is left.
LEMMA WithoutNone ==
  ASSUME NEW S, NEW X, NEW none \in Seq(S), Len(none) = 0
  PROVE  Without(none, X) = <<>>
<1>1. PICK left \in [0 .. Len(none) -> Seq(S)] :
        Parts(none, X, left) /\ Without(none, X) = left[Len(none)]
  <2>1. PartsLead(S, X, none)
    BY WithoutRuns
  <2> QED BY <2>1 DEF PartsLead
<1> QED BY <1>1 DEF Parts

\* Of one line that line is left, or nothing.
LEMMA WithoutOne ==
  ASSUME NEW S, NEW X, NEW line \in S
  PROVE  Without(<<>>, X) = <<>> /\ Without(<<line>>, X) = Part(line, X)
<1>1. Without(<<>>, X) = <<>>
  <2>1. <<>> \in Seq({}) /\ Len(<<>>) = 0
    OBVIOUS
  <2> QED BY <2>1, WithoutNone
<1>2. Without(<<line>>, X) = Part(line, X)
  <2> DEFINE one == <<line>>
  <2>1. one \in Seq(S) /\ Len(one) = 1 /\ one[1] = line
    OBVIOUS
  <2> HIDE DEF one
  <2>2. PICK left \in [0 .. Len(one) -> Seq(S)] :
          Parts(one, X, left) /\ Without(one, X) = left[Len(one)]
    <3>1. PartsLead(S, X, one)
      BY <2>1, WithoutRuns
    <3> QED BY <3>1 DEF PartsLead
  <2>3. 1 \in 1 .. 1 /\ 1 - 1 = 0
    OBVIOUS
  <2>4. left[1] = <<>> \o Part(line, X)
    BY <2>1, <2>2, <2>3 DEF Parts
  <2>5. Part(line, X) \in Seq(S)
    BY DEF Part
  <2>6. <<>> \o Part(line, X) = Part(line, X)
    BY <2>5, ConcatEmptySeq
  <2> QED BY <2>1, <2>2, <2>4, <2>6 DEF one
<1> QED BY <1>1, <1>2

\* Leaving lines out goes through concatenation.
LEMMA WithoutConcat ==
  ASSUME NEW S, NEW X, NEW s \in Seq(S), NEW t \in Seq(S)
  PROVE  Without(s \o t, X) = Without(s, X) \o Without(t, X)
<1> DEFINE M == Len(s)
           N == Len(t)
           T == Seq(S)
<1>0. M \in Nat /\ N \in Nat
  BY LenProperties
<1>1. /\ s \o t \in Seq(S) /\ Len(s \o t) = M + N
      /\ \A n \in 1 .. M : (s \o t)[n] = s[n]
      /\ \A n \in 1 .. N : (s \o t)[M + n] = t[n]
  <2>1. /\ s \o t \in Seq(S) /\ Len(s \o t) = M + N
        /\ \A i \in 1 .. M + N : (s \o t)[i] = IF i <= M THEN s[i] ELSE t[i - M]
    BY ConcatProperties
  <2> HIDE DEF M, N
  <2>2. ASSUME NEW n \in 1 .. M PROVE (s \o t)[n] = s[n]
    <3>1. n \in 1 .. M + N /\ n <= M
      BY <1>0
    <3> QED BY <2>1, <3>1
  <2>3. ASSUME NEW n \in 1 .. N PROVE (s \o t)[M + n] = t[n]
    <3>1. M + n \in 1 .. M + N /\ ~(M + n <= M) /\ (M + n) - M = n
      BY <1>0
    <3> QED BY <2>1, <3>1
  <2> QED BY <2>1, <2>2, <2>3
<1>2. PICK f \in [0 .. M -> T] : Parts(s, X, f) /\ Without(s, X) = f[M]
  <2>1. PartsLead(S, X, s)
    BY WithoutRuns
  <2> QED BY <2>1 DEF PartsLead
<1>3. PICK g \in [0 .. N -> T] : Parts(t, X, g) /\ Without(t, X) = g[N]
  <2>1. PartsLead(S, X, t)
    BY WithoutRuns
  <2> QED BY <2>1 DEF PartsLead
<1>4. PICK h \in [0 .. Len(s \o t) -> T] :
        Parts(s \o t, X, h) /\ Without(s \o t, X) = h[Len(s \o t)]
  <2>1. s \o t \in Seq(S)
    BY <1>1
  <2>2. PartsLead(S, X, s \o t)
    BY <2>1, WithoutRuns
  <2> QED BY <2>2 DEF PartsLead
<1>5. /\ f[0] = <<>> /\ \A n \in 1 .. M : f[n] = f[n - 1] \o Part(s[n], X)
      /\ g[0] = <<>> /\ \A n \in 1 .. N : g[n] = g[n - 1] \o Part(t[n], X)
      /\ h[0] = <<>> /\ \A n \in 1 .. M + N : h[n] = h[n - 1] \o Part((s \o t)[n], X)
  BY <1>1, <1>2, <1>3, <1>4 DEF Parts
<1>6. ASSUME NEW n \in 1 .. N PROVE Part(t[n], X) \in T
  <2>1. t[n] \in S
    BY ElementOfSeq
  <2> QED BY <2>1 DEF Part
<1> HIDE DEF M, N, T
<1> DEFINE A == {n \in Nat : n <= M => h[n] = f[n]}
           Same(n) == h[M + n] = f[M] \o g[n]
           B == {n \in Nat : n <= N => Same(n)}
<1>7. h[M] = f[M]
  <2>1. 0 \in A
    BY <1>5
  <2>2. ASSUME NEW n \in Nat, n \in A PROVE n + 1 \in A
    <3> SUFFICES ASSUME n + 1 <= M PROVE h[n + 1] = f[n + 1]
      OBVIOUS
    <3>1. h[n] = f[n] /\ n + 1 \in 1 .. M /\ n + 1 \in 1 .. M + N /\ (n + 1) - 1 = n
      BY <1>0, <2>2
    <3>2. h[n + 1] = h[n] \o Part((s \o t)[n + 1], X) /\ f[n + 1] = f[n] \o Part(s[n + 1], X)
      BY <1>5, <3>1
    <3> QED BY <1>1, <3>1, <3>2
  <2>3. Nat \subseteq A
    <3> HIDE DEF A
    <3> QED BY <2>1, <2>2, Induction
  <2> QED BY <1>0, <2>3
<1>8. f[M] \in T /\ \A n \in 0 .. N : g[n] \in T
  BY <1>0, <1>2, <1>3
<1>9. h[M + N] = f[M] \o g[N]
  <2>1. 0 \in B
    <3>1. f[M] \o <<>> = f[M]
      BY <1>8, ConcatEmptySeq DEF T
    <3>2. M + 0 = M
      BY <1>0
    <3> QED BY <1>5, <1>7, <3>1, <3>2
  <2>2. ASSUME NEW n \in Nat, n \in B PROVE n + 1 \in B
    <3> SUFFICES ASSUME n + 1 <= N PROVE Same(n + 1)
      <4> HIDE DEF Same
      <4> QED OBVIOUS
    <3>1. /\ h[M + n] = f[M] \o g[n] /\ n + 1 \in 1 .. N /\ (n + 1) - 1 = n /\ n \in 0 .. N
          /\ M + (n + 1) \in 1 .. M + N /\ (M + (n + 1)) - 1 = M + n
      BY <1>0, <2>2
    <3>2. /\ h[M + (n + 1)] = h[M + n] \o Part((s \o t)[M + (n + 1)], X)
          /\ g[n + 1] = g[n] \o Part(t[n + 1], X)
      BY <1>5, <3>1
    <3>3. (s \o t)[M + (n + 1)] = t[n + 1]
      BY <1>1, <3>1
    <3>4. (f[M] \o g[n]) \o Part(t[n + 1], X) = f[M] \o (g[n] \o Part(t[n + 1], X))
      <4>1. f[M] \in Seq(S) /\ g[n] \in Seq(S) /\ Part(t[n + 1], X) \in Seq(S)
        BY <1>6, <1>8, <3>1 DEF T
      <4>2. Regroup(f[M], g[n], Part(t[n + 1], X))
        BY <4>1, Regroups
      <4> QED BY <4>2, Zenon DEF Regroup
    <3>5. h[M + (n + 1)] = f[M] \o g[n + 1]
      BY <3>1, <3>2, <3>3, <3>4, Zenon
    <3> QED BY <3>5
  <2>3. Nat \subseteq B
    <3> HIDE DEF B
    <3> QED BY <2>1, <2>2, Induction
  <2> QED BY <1>0, <2>3
<1>10. Without(s \o t, X) = h[M + N]
  BY <1>1, <1>4
<1> QED BY <1>2, <1>3, <1>9, <1>10

\* To leave out some of the lines first makes no difference to leaving out more.
LEMMA WithoutMore ==
  ASSUME NEW S, NEW X, NEW Y, X \subseteq Y, NEW lines \in Seq(S)
  PROVE  Without(Without(lines, X), Y) = Without(lines, Y)
<1> DEFINE N == Len(lines)
           T == Seq(S)
<1>0. N \in Nat
  BY LenProperties
<1>1. PICK f \in [0 .. N -> T] : Parts(lines, X, f) /\ Without(lines, X) = f[N]
  <2>1. PartsLead(S, X, lines)
    BY WithoutRuns
  <2> QED BY <2>1 DEF PartsLead
<1>2. PICK g \in [0 .. N -> T] : Parts(lines, Y, g) /\ Without(lines, Y) = g[N]
  <2>1. PartsLead(S, Y, lines)
    BY WithoutRuns
  <2> QED BY <2>1 DEF PartsLead
<1>3. /\ f[0] = <<>> /\ \A n \in 1 .. N : f[n] = f[n - 1] \o Part(lines[n], X)
      /\ g[0] = <<>> /\ \A n \in 1 .. N : g[n] = g[n - 1] \o Part(lines[n], Y)
  BY <1>1, <1>2 DEF Parts
<1>4. ASSUME NEW n \in 1 .. N
      PROVE  Part(lines[n], X) \in T /\ Without(Part(lines[n], X), Y) = Part(lines[n], Y)
  <2>1. lines[n] \in S
    BY ElementOfSeq
  <2>2. Without(<<>>, Y) = <<>> /\ Without(<<lines[n]>>, Y) = Part(lines[n], Y)
    BY <2>1, WithoutOne
  <2>3. CASE lines[n] \in X
    BY <2>2, <2>3 DEF Part
  <2>4. CASE lines[n] \notin X
    BY <2>1, <2>2, <2>4 DEF Part
  <2> QED BY <2>3, <2>4
<1> HIDE DEF N
<1> DEFINE A == {n \in Nat : n <= N => Without(f[n], Y) = g[n]}
<1>5. 0 \in A
  <2>1. Without(<<>>, Y) = <<>>
    <3>1. CASE \E x : x \in S
      BY <3>1, WithoutOne
    <3>2. CASE ~ \E x : x \in S
      BY WithoutOne
    <3> QED BY <3>1, <3>2
  <2> QED BY <1>3, <2>1
<1>6. ASSUME NEW n \in Nat, n \in A PROVE n + 1 \in A
  <2> SUFFICES ASSUME n + 1 <= N PROVE Without(f[n + 1], Y) = g[n + 1]
    OBVIOUS
  <2>1. Without(f[n], Y) = g[n] /\ n + 1 \in 1 .. N /\ (n + 1) - 1 = n /\ n \in 0 .. N
    BY <1>0, <1>6
  <2>2. /\ f[n + 1] = f[n] \o Part(lines[n + 1], X)
        /\ g[n + 1] = g[n] \o Part(lines[n + 1], Y)
    BY <1>3, <2>1
  <2>3. f[n] \in Seq(S) /\ Part(lines[n + 1], X) \in Seq(S)
    BY <1>1, <1>4, <2>1
  <2> HIDE DEF T
  <2>4. Without(f[n] \o Part(lines[n + 1], X), Y) = Without(f[n], Y) \o Without(Part(lines[n + 1], X), Y)
    BY <2>3, WithoutConcat
  <2> QED BY <1>4, <2>1, <2>2, <2>4
<1>7. Nat \subseteq A
  <2> HIDE DEF A
  <2> QED BY <1>5, <1>6, Induction
<1> QED BY <1>0, <1>1, <1>2, <1>7

\* Nor does it to remove a line that is left out anyway.
LEMMA WithoutRemoved ==
  ASSUME NEW S, NEW X, NEW lines \in Seq(S), NEW i \in 1 .. Len(lines), lines[i] \in X
  PROVE  Without(RemoveAt(lines, i), X) = Without(lines, X)
<1>1. Len(lines) \in Nat /\ lines[i] \in S /\ \A n \in 1 .. Len(lines) : lines[n] \in S
  BY LenProperties, ElementOfSeq
<1> DEFINE before == SubSeq(lines, 1, i - 1)
           behind == SubSeq(lines, i + 1, Len(lines))
           line == <<lines[i]>>
<1>2. /\ before \in Seq(S) /\ Len(before) = i - 1
      /\ \A n \in 1 .. i - 1 : before[n] = lines[n]
  BY <1>1, SubSeqProperties
<1>3. /\ behind \in Seq(S) /\ Len(behind) = Len(lines) - i
      /\ \A n \in 1 .. Len(lines) - i : behind[n] = lines[i + n]
  BY <1>1, SubSeqProperties
<1>4. line \in Seq(S) /\ Len(line) = 1 /\ line[1] = lines[i]
  BY <1>1
<1>5. RemoveAt(lines, i) = before \o behind
  BY DEF RemoveAt
<1>6. Without(line, X) = <<>>
  BY <1>1, WithoutOne DEF Part
<1> HIDE DEF before, behind, line
<1>7. lines = before \o (line \o behind)
  <2> DEFINE rest == line \o behind
  <2>1. /\ rest \in Seq(S) /\ Len(rest) = 1 + (Len(lines) - i)
        /\ \A n \in 1 .. 1 + (Len(lines) - i) :
             rest[n] = IF n <= 1 THEN line[n] ELSE behind[n - 1]
    <3>1. /\ rest \in Seq(S) /\ Len(rest) = Len(line) + Len(behind)
          /\ \A n \in 1 .. Len(line) + Len(behind) :
               rest[n] = IF n <= Len(line) THEN line[n] ELSE behind[n - Len(line)]
      BY <1>3, <1>4, ConcatProperties
    <3> HIDE DEF rest
    <3> QED BY <1>3, <1>4, <3>1
  <2> HIDE DEF rest
  <2>2. /\ before \o rest \in Seq(S) /\ Len(before \o rest) = (i - 1) + (1 + (Len(lines) - i))
        /\ \A n \in 1 .. (i - 1) + (1 + (Len(lines) - i)) :
             (before \o rest)[n] = IF n <= i - 1 THEN before[n] ELSE rest[n - (i - 1)]
    <3> DEFINE all == before \o rest
    <3>1. /\ all \in Seq(S) /\ Len(all) = Len(before) + Len(rest)
          /\ \A n \in 1 .. Len(before) + Len(rest) :
               all[n] = IF n <= Len(before) THEN before[n] ELSE rest[n - Len(before)]
      BY <1>2, <2>1, ConcatProperties
    <3> HIDE DEF all
    <3>2. /\ all \in Seq(S) /\ Len(all) = (i - 1) + (1 + (Len(lines) - i))
          /\ \A n \in 1 .. (i - 1) + (1 + (Len(lines) - i)) :
               all[n] = IF n <= i - 1 THEN before[n] ELSE rest[n - (i - 1)]
      BY <1>2, <2>1, <3>1
    <3> QED BY <3>2 DEF all
  <2>3. (i - 1) + (1 + (Len(lines) - i)) = Len(lines)
    BY <1>1
  <2>4. ASSUME NEW n \in 1 .. Len(lines) PROVE (before \o rest)[n] = lines[n]
    <3>1. CASE n <= i - 1
      BY <1>1, <1>2, <2>2, <2>3, <3>1
    <3>2. CASE n = i
      <4>1. ~(n <= i - 1) /\ n - (i - 1) = 1 /\ 1 \in 1 .. 1 + (Len(lines) - i)
        BY <1>1, <3>2
      <4>2. (before \o rest)[n] = rest[1]
        BY <2>2, <2>3, <4>1
      <4>3. rest[1] = line[1]
        BY <2>1, <4>1
      <4> QED BY <1>4, <3>2, <4>2, <4>3
    <3>3. CASE n > i
      <4> DEFINE m == n - (i - 1)
      <4>1. /\ ~(n <= i - 1) /\ m \in 1 .. 1 + (Len(lines) - i) /\ ~(m <= 1)
            /\ m - 1 \in 1 .. Len(lines) - i /\ i + (m - 1) = n
        BY <1>1, <3>3
      <4>2. (before \o rest)[n] = rest[m]
        BY <2>2, <2>3, <4>1
      <4> HIDE DEF m
      <4>3. rest[m] = behind[m - 1]
        BY <2>1, <4>1
      <4>4. behind[m - 1] = lines[i + (m - 1)]
        BY <1>3, <4>1
      <4>5. lines[i + (m - 1)] = lines[n]
        BY <4>1, Zenon
      <4> QED BY <4>2, <4>3, <4>4, <4>5, Zenon
    <3>4. n <= i - 1 \/ n = i \/ n > i
      BY <1>1
    <3> QED BY <3>1, <3>2, <3>3, <3>4, Zenon
  <2>5. before \o rest = lines
    BY <2>2, <2>3, <2>4, SeqEqual
  <2> QED BY <2>5 DEF rest
<1>8. /\ line \o behind \in Seq(S)
      /\ Without(lines, X) = Without(before, X) \o Without(line \o behind, X)
      /\ Without(line \o behind, X) = Without(line, X) \o Without(behind, X)
  <2>1. line \o behind \in Seq(S)
    BY <1>3, <1>4, ConcatProperties
  <2>2. Without(before \o (line \o behind), X) = Without(before, X) \o Without(line \o behind, X)
    BY <1>2, <2>1, WithoutConcat
  <2>3. Without(line \o behind, X) = Without(line, X) \o Without(behind, X)
    BY <1>3, <1>4, WithoutConcat
  <2> QED BY <1>7, <2>1, <2>2, <2>3
<1>9. Without(behind, X) \in Seq(S)
  BY <1>3, WithoutIs
<1>10. Without(line \o behind, X) = Without(behind, X)
  BY <1>6, <1>8, <1>9, ConcatEmptySeq
<1>11. Without(before \o behind, X) = Without(before, X) \o Without(behind, X)
  BY <1>2, <1>3, WithoutConcat
<1> QED BY <1>5, <1>8, <1>10, <1>11

\* What a wait leaves of the chat is no longer than the chat.
LEMMA HeardIs ==
  ASSUME NEW S, chat \in Seq(S)
  PROVE  Heard \in Seq(S) /\ Len(Heard) <= Len(chat)
<1> DEFINE rest == IF FirstStop = 0 THEN chat ELSE RemoveAt(chat, FirstStop)
<1>1. Len(chat) \in Nat
  BY LenProperties
<1>2. rest \in Seq(S) /\ Len(rest) \in Nat /\ Len(rest) <= Len(chat)
  <2>1. CASE FirstStop = 0
    BY <1>1, <2>1
  <2>2. CASE FirstStop # 0
    <3>1. FirstStop \in 1 .. Len(chat)
      BY <1>1, <2>2, FirstStopIs
    <3> QED BY <1>1, <2>2, <3>1, Removed
  <2> QED BY <2>1, <2>2
<1>3. Heard = Without(rest, Answerable)
  BY DEF Heard
<1> HIDE DEF rest
<1>4. Without(rest, Answerable) \in Seq(S) /\ Len(Without(rest, Answerable)) <= Len(rest) /\ Len(Without(rest, Answerable)) \in Nat
  BY <1>2, WithoutIs, LenProperties
<1> QED BY <1>1, <1>2, <1>3, <1>4

-----------------------------------------------------------------------------
(* The invariant.                                                           *)

USE ApplicationAssumption

Tasks == [command : Commands, awaits : Waits, failures : 0 .. MaxFailures - 1, rounds : Nat]

\* What each command waits for.
WaitsOf(c) ==
  CASE c = "mine" -> {"navigation", "interaction", "collect"}
    [] c = "hunt" -> {"combat"}
    [] c = "drop" -> {"walk", "settle"}
    [] OTHER -> {First(c)}
OwnWait == Waiting => task.awaits \in WaitsOf(task.command)

\* How far the waits begun may be ahead of the failures counted.
Ahead(wait) ==
  CASE wait = "interaction" -> 3
    [] wait \in {"collect", "walk"} -> 1
    [] OTHER -> 2
Counted == Waiting => task.rounds <= 2 * task.failures + Ahead(task.awaits)

\* The bot after an emergency stop.
Quiet == {b \in Bots : /\ b.on \subseteq {"clutch"} /\ b.walk = "Still" /\ ~b.kept
                       /\ b.look # "Free" => "clutch" \in b.on}
Stopped == stopped => ~Waiting /\ bot \in Quiet

Types ==
  /\ at \in {"Loop", "Drive", "Listen", "Ended"}
  /\ draining \in BOOLEAN /\ ready \in BOOLEAN /\ stopped \in BOOLEAN
  /\ IF Waiting THEN task \in Tasks ELSE task = None
  /\ bot \in Bots
  /\ chat \in Seq(Said) /\ Len(chat) <= ChatCapacity
  /\ link \in {"Up", "Down", "Gone"}

Inv == Types /\ FightsAlone /\ OwnWait /\ Counted /\ Stopped

\* The typed parts are the type invariant.
LEMMA TypesAre == Types => TypeOK
BY DEF Types, TypeOK, Tasks, Bots, Said

\* The application that has just started satisfies the invariant.
LEMMA InitInv == Init => Inv
<1> SUFFICES ASSUME Init PROVE Inv
  OBVIOUS
<1>1. ~Waiting
  BY DEF Init, Waiting
<1>2. bot \in Quiet
  BY DEF Init, AtRest, Quiet, Bots
<1>3. chat \in Seq(Said) /\ Len(chat) <= ChatCapacity
  BY DEF Init
<1>4. Types
  BY <1>1, <1>2, <1>3 DEF Init, Quiet, Types
<1>5. FightsAlone
  BY DEF Init, AtRest, FightsAlone
<1> QED BY <1>1, <1>2, <1>4, <1>5 DEF Inv, OwnWait, Counted, Stopped

-----------------------------------------------------------------------------
(* What the lists of the commands cancel.                                   *)

\* What a command cancels are lists of names.
LEMMA ListsAre ==
  ASSUME NEW c \in Commands
  PROVE  UpFront(c) \in Seq(Names) /\ Before(c) \in Seq(Names)
<1>1. UpFront(c) \in Seq(Names)
  <2>1. <<>> \in Seq(Names) /\ <<"trip">> \in Seq(Names) /\ <<"pvp", "trip">> \in Seq(Names)
    BY DEF Names, Controllers
  <2>2. UpFront(c) \in {<<>>, <<"trip">>, <<"pvp", "trip">>}
    BY DEF UpFront
  <2> QED BY <2>1, <2>2
<1>2. Before(c) \in Seq(Names)
  <2>1. /\ GotoCancels \in Seq(Names) /\ GatherCancels \in Seq(Names)
        /\ LookCancels \in Seq(Names) /\ BreakCancels \in Seq(Names)
        /\ PlaceCancels \in Seq(Names) /\ ReconnectCancels \in Seq(Names)
        /\ StopMovementCancels \in Seq(Names)
    BY DEF GotoCancels, GatherCancels, LookCancels, BreakCancels, PlaceCancels, ReconnectCancels,
           StopMovementCancels, Names, Controllers
  <2>2. StopCancels \in Seq(Names)
    BY DEF StopCancels, Names, Controllers
  <2>3. <<"navigation">> \in Seq(Names) /\ <<"look">> \in Seq(Names) /\ <<"interaction">> \in Seq(Names)
    BY DEF Names, Controllers
  <2> QED BY <2>1, <2>2, <2>3 DEF Before
<1> QED BY <1>1, <1>2

\* Before a command that waits no trip goes on, and no fight but its own.
LEMMA UpFrontEnds ==
  ASSUME NEW b \in Bots, NEW c \in Commands, c \notin Queries \cup {"stop"}
  PROVE  LET d == Cancel(Cancel(b, UpFront(c)), Before(c))
         IN  "trip" \notin d.on /\ (c \notin {"kill", "stopMovement"} => "pvp" \notin d.on)
<1> DEFINE u == Cancel(b, UpFront(c))
<1>1. u \in Bots /\ \A n \in 1 .. Len(UpFront(c)) : UpFront(c)[n] \notin u.on
  BY CancelEnds, ListsAre
<1>2. "trip" \notin u.on /\ (c \notin {"kill", "stopMovement"} => "pvp" \notin u.on)
  <2>1. CASE c \in {"kill", "stopMovement"}
    <3>1. UpFront(c) = <<"trip">>
      BY <2>1 DEF UpFront
    <3>2. 1 \in 1 .. Len(UpFront(c)) /\ UpFront(c)[1] = "trip"
      BY <3>1
    <3> QED BY <1>1, <2>1, <3>2
  <2>2. CASE c \notin {"kill", "stopMovement"}
    <3>1. UpFront(c) = <<"pvp", "trip">>
      BY <2>2 DEF UpFront
    <3>2. /\ 1 \in 1 .. Len(UpFront(c)) /\ UpFront(c)[1] = "pvp"
          /\ 2 \in 1 .. Len(UpFront(c)) /\ UpFront(c)[2] = "trip"
      BY <3>1
    <3> QED BY <1>1, <3>2
  <2> QED BY <2>1, <2>2
<1> HIDE DEF u
<1>3. Cancel(u, Before(c)).on \subseteq u.on
  BY <1>1, CancelEnds, ListsAre
<1> QED BY <1>2, <1>3 DEF u

\* A command's cancels start nothing.
LEMMA CancelledIs ==
  ASSUME NEW b \in Bots, NEW c \in Commands
  PROVE  LET d == Cancel(Cancel(b, UpFront(c)), Before(c))
         IN  d \in Bots /\ d.on \subseteq b.on
<1> DEFINE u == Cancel(b, UpFront(c))
<1>1. u \in Bots /\ u.on \subseteq b.on
  BY CancelEnds, ListsAre
<1> HIDE DEF u
<1>2. Cancel(u, Before(c)) \in Bots /\ Cancel(u, Before(c)).on \subseteq u.on
  BY <1>1, CancelEnds, ListsAre
<1> QED BY <1>1, <1>2 DEF u

\* An emergency stop leaves nothing on.
LEMMA StopQuiets ==
  ASSUME NEW b \in Bots
  PROVE  Cancel(Cancel(b, UpFront("stop")), Before("stop")) \in Quiet
<1> DEFINE u == Cancel(b, UpFront("stop"))
           d == Cancel(u, StopCancels)
<1>1. "stop" \in Commands /\ Before("stop") = StopCancels
  BY DEF Commands, Before
<1>2. u \in Bots
  BY <1>1, CancelEnds, ListsAre
<1> HIDE DEF u
<1>3. StopCancels \in Seq(Names)
  BY <1>1, ListsAre
<1>4. /\ Len(StopCancels) = 9 /\ StopCancels[1] = "trip" /\ StopCancels[2] = "navigation"
      /\ StopCancels[3] = "walk" /\ StopCancels[4] = "combat" /\ StopCancels[5] = "pvp"
      /\ StopCancels[6] = "interaction" /\ StopCancels[7] = "container"
      /\ StopCancels[8] = "clutch" /\ StopCancels[9] = "look"
  BY DEF StopCancels
<1>5. /\ d \in Bots /\ \A n \in 1 .. 9 : StopCancels[n] \notin d.on
      /\ (\E n \in 1 .. 9 : StopCancels[n] = "walk") => d.walk = "Still"
      /\ (\E n \in 1 .. 9 : StopCancels[n] = "look") => d.look = "Free" /\ ~d.kept
  <2>1. Len(StopCancels) = 9
    BY <1>4
  <2> HIDE DEF d
  <2>2. /\ d \in Bots /\ \A n \in 1 .. Len(StopCancels) : StopCancels[n] \notin d.on
        /\ (\E n \in 1 .. Len(StopCancels) : StopCancels[n] = "walk") => d.walk = "Still"
        /\ (\E n \in 1 .. Len(StopCancels) : StopCancels[n] = "look") => d.look = "Free" /\ ~d.kept
    BY <1>2, <1>3, CancelEnds DEF d
  <2> QED BY <2>1, <2>2
<1> HIDE DEF d
<1>6. d.walk = "Still" /\ d.look = "Free" /\ ~d.kept
  BY <1>4, <1>5
<1>7. {"trip", "navigation", "interaction", "combat", "pvp", "container", "clutch"} \cap d.on = {}
  BY <1>4, <1>5
<1>8. d.on \subseteq {}
  BY <1>5, <1>7 DEF Bots, Controllers
<1> QED BY <1>1, <1>5, <1>6, <1>8 DEF Quiet, d, u

\* A query cancels nothing.
LEMMA QueriesSpare ==
  ASSUME NEW b \in Bots, NEW c \in Queries
  PROVE  Cancel(Cancel(b, UpFront(c)), Before(c)) = b
<1>1. UpFront(c) = <<>> /\ Before(c) = <<>>
  BY DEF UpFront, Before, Queries
<1>2. Cancel(b, <<>>) = b
  <2>1. <<>> \in Seq(Names) /\ Len(<<>>) = 0
    OBVIOUS
  <2>2. PICK after \in [0 .. 0 -> Bots] : Course(b, <<>>, after) /\ Cancel(b, <<>>) = after[0]
    BY <2>1, CancelRuns
  <2> QED BY <2>2 DEF Course
<1> QED BY <1>1, <1>2

-----------------------------------------------------------------------------
(* Running a command.                                                       *)

\* The first wait of a command is one of its own.
LEMMA FirstIs ==
  ASSUME NEW c \in Commands, First(c) # None
  PROVE  First(c) \in Waits /\ First(c) \in WaitsOf(c) /\ Ahead(First(c)) >= 1
         /\ c \notin Queries \cup {"stop", "stopMovement"}
         /\ (First(c) = "pvp" <=> c = "kill")
BY DEF First, Commands, Queries, Waits, WaitsOf, Ahead

\* Beginning a wait starts what it waits for, or an operation, and nothing else.
LEMMA BegunIs ==
  ASSUME NEW b \in Bots, NEW wait \in Waits
  PROVE  /\ Begun(b, wait) \in Bots
         /\ Begun(b, wait).on \subseteq b.on \cup {wait}
<1>1. CASE wait \in {"walk", "collect"}
  BY <1>1, Walks DEF Begun
<1>2. CASE wait \in {"look", "settle"}
  BY <1>2, Looks DEF Begun
<1>3. CASE wait = "interaction"
  <2>1. CancelOne(b, "interaction") \in Bots /\ CancelOne(b, "interaction").on \subseteq b.on
    BY Cancels DEF Names, Controllers
  <2>2. Begun(b, wait) = On(CancelOne(b, "interaction"), "interaction")
    BY <1>3 DEF Begun, Operating
  <2> QED BY <1>3, <2>1, <2>2, OnOff DEF Controllers
<1>4. CASE wait = "combat"
  <2>1. Still(b) \in Bots /\ Still(b).on = b.on
    BY Walks
  <2>2. Begun(b, wait) = On(Still(b), "combat")
    BY <1>4 DEF Begun, Hunting
  <2> QED BY <1>4, <2>1, <2>2, OnOff DEF Controllers
<1>5. CASE wait \in {"trip", "navigation", "pvp"}
  <2>1. Begun(b, wait) = On(b, wait)
    BY <1>5 DEF Begun
  <2> QED BY <1>5, <2>1, OnOff DEF Controllers
<1> QED BY <1>1, <1>2, <1>3, <1>4, <1>5 DEF Waits

\* A command starts at most an interaction, a container session or a navigation.
LEMMA LaunchedIs ==
  ASSUME NEW b \in Bots, NEW c \in Commands
  PROVE  /\ Launched(b, c) \in Bots
         /\ Launched(b, c).on \subseteq b.on \cup {"interaction", "container", "navigation"}
         /\ c \in Queries \cup {"stop"} => Launched(b, c) = b
<1>1. CASE c = "follow"
  <2>1. Launched(b, c) = [b EXCEPT !.walk = "Following"]
    BY <1>1 DEF Launched
  <2> QED BY <1>1, <2>1 DEF Bots, Queries
<1>2. CASE c = "test"
  <2>1. Launched(b, c) = Begun(b, "interaction")
    BY <1>2 DEF Launched, Begun
  <2>2. "interaction" \in Waits
    BY DEF Waits
  <2> QED BY <1>2, <2>1, <2>2, BegunIs DEF Queries
<1>3. CASE c = "open"
  <2>1. On(b, "container") \in Bots /\ On(b, "container").on = b.on \cup {"container"}
    BY OnOff DEF Controllers
  <2>2. Launched(b, c) = On(On(b, "container"), "navigation")
    BY <1>3 DEF Launched
  <2> QED BY <1>3, <2>1, <2>2, OnOff DEF Controllers, Queries
<1>4. CASE c = "close"
  BY <1>4, OnOff DEF Launched, Queries
<1>5. CASE c \notin {"follow", "test", "open", "close"}
  BY <1>5 DEF Launched
<1> QED BY <1>1, <1>2, <1>3, <1>4, <1>5

\* Closing the session starts nothing, and leaves a quiet bot quiet.
LEMMA ClosedIs ==
  ASSUME NEW b \in Bots
  PROVE  Closed(b) \in Bots /\ Closed(b).on \subseteq b.on /\ (b \in Quiet => Closed(b) \in Quiet)
<1> DEFINE cs == <<"container", "navigation", "look", "reset", "interaction", "combat", "pvp", "walk">>
<1>1. cs \in Seq(Names)
  BY DEF Names, Controllers
<1>2. Len(cs) = 8 /\ cs[3] = "look" /\ cs[8] = "walk"
  OBVIOUS
<1>3. Closed(b) = Cancel(b, cs)
  BY DEF Closed
<1> HIDE DEF cs
<1>4. /\ Cancel(b, cs) \in Bots /\ Cancel(b, cs).on \subseteq b.on
      /\ (\E n \in 1 .. Len(cs) : cs[n] = "walk") => Cancel(b, cs).walk = "Still"
      /\ (\E n \in 1 .. Len(cs) : cs[n] = "look") => Cancel(b, cs).look = "Free" /\ ~Cancel(b, cs).kept
  BY <1>1, CancelEnds
<1>5. 3 \in 1 .. Len(cs) /\ 8 \in 1 .. Len(cs)
  BY <1>2
<1>6. Cancel(b, cs).walk = "Still" /\ Cancel(b, cs).look = "Free" /\ ~Cancel(b, cs).kept
  BY <1>2, <1>4, <1>5
<1> QED BY <1>3, <1>4, <1>6 DEF Quiet

\* Running a command keeps the invariant.
LEMMA ExecuteKeeps ==
  ASSUME Inv, NEW c \in Commands, NEW b \in Bots, b.on \subseteq bot.on, stopped => b = bot,
         NEW lines \in Seq(Said), Len(lines) <= ChatCapacity, Execute(c, b, lines)
  PROVE  Inv'
<1> DEFINE cancelled == Cancel(Cancel(b, UpFront(c)), Before(c))
<1>1. cancelled \in Bots /\ cancelled.on \subseteq b.on
  BY CancelledIs
<1>2. c \notin Queries \cup {"stop"}
        => "trip" \notin cancelled.on /\ (c \notin {"kill", "stopMovement"} => "pvp" \notin cancelled.on)
  BY UpFrontEnds
<1>3. c = "stop" => cancelled \in Quiet
  BY StopQuiets
<1>4. c \in Queries => cancelled = b
  BY QueriesSpare
<1> HIDE DEF cancelled
<1>5. /\ History(c) /\ draining' = draining /\ ready' = ready
      /\ IF c = "reconnect" THEN Reconnects ELSE chat' = lines /\ UNCHANGED link
      /\ \/ /\ c = "quit" /\ Quits
            /\ bot' = IF draining THEN cancelled ELSE Closed(cancelled)
         \/ /\ First(c) # None /\ link = "Up"
            /\ Await(c, First(c), 0, 1)
            /\ bot' = Begun(cancelled, First(c))
         \/ /\ c # "quit" /\ Back
            /\ bot' \in {cancelled} \cup (IF link = "Up" THEN {Launched(cancelled, c)} ELSE {})
  BY DEF Execute, cancelled
<1>6. Types /\ FightsAlone /\ (stopped => bot \in Quiet)
  BY DEF Inv, Stopped
<1>7. chat' \in Seq(Said) /\ Len(chat') <= ChatCapacity /\ link' \in {"Up", "Down", "Gone"}
  <2>1. CASE c = "reconnect"
    <3>1. /\ chat' = chat \/ chat' = <<>>
          /\ link' \in {"Up", "Gone"} \/ link' = link
      BY <1>5, <2>1 DEF Reconnects
    <3>2. ChatCapacity \in Nat /\ Len(<<>>) = 0 /\ <<>> \in Seq(Said)
      OBVIOUS
    <3>3. chat' \in Seq(Said) /\ Len(chat') <= ChatCapacity
      <4>1. CASE chat' = chat
        BY <1>6, <4>1 DEF Types
      <4>2. CASE chat' = <<>>
        <5>1. Len(chat') = 0 /\ chat' \in Seq(Said)
          BY <3>2, <4>2
        <5> QED BY <3>2, <5>1
      <4> QED BY <3>1, <4>1, <4>2
    <3> QED BY <1>6, <3>1, <3>3 DEF Types
  <2>2. CASE c # "reconnect"
    BY <1>5, <1>6, <2>2 DEF Types
  <2> QED BY <2>1, <2>2
<1>8. /\ draining' \in BOOLEAN /\ ready' \in BOOLEAN /\ stopped' \in BOOLEAN
      /\ stopped' => c = "stop" \/ (stopped /\ c \in Queries)
  <2>1. stopped \in BOOLEAN /\ draining' \in BOOLEAN /\ ready' \in BOOLEAN
    BY <1>5, <1>6 DEF Types
  <2>2. CASE c = "stop"
    <3>0. History(c)
      BY <1>5
    <3>1. stopped' = IF c = "stop" THEN TRUE ELSE stopped /\ c \in Queries
      BY <3>0, Zenon DEF History
    <3>2. stopped' = TRUE
      BY <2>2, <3>1, Zenon
    <3> QED BY <2>1, <2>2, <3>2, Zenon
  <2>3. CASE c # "stop"
    <3>1. stopped' = (stopped /\ c \in Queries)
      BY <1>5, <2>3 DEF History
    <3> QED BY <2>1, <3>1, Zenon
  <2> QED BY <2>2, <2>3
<1>9. CASE First(c) # None /\ Await(c, First(c), 0, 1) /\ bot' = Begun(cancelled, First(c))
  <2>1. /\ at' = "Drive"
        /\ task' = [command |-> c, awaits |-> First(c), failures |-> 0, rounds |-> 1]
    BY <1>9 DEF Await
  <2>2. Waiting'
    BY <2>1 DEF Waiting
  <2>3. /\ First(c) \in Waits /\ First(c) \in WaitsOf(c) /\ Ahead(First(c)) >= 1
        /\ c \notin Queries \cup {"stop", "stopMovement"} /\ (First(c) = "pvp" <=> c = "kill")
    BY <1>9, FirstIs
  <2>4. bot' \in Bots /\ bot'.on \subseteq cancelled.on \cup {First(c)}
    BY <1>1, <1>9, <2>3, BegunIs
  <2>5. task' \in Tasks
    BY <2>1, <2>3 DEF Tasks
  <2>6. Types'
    BY <1>7, <1>8, <2>1, <2>2, <2>4, <2>5 DEF Types
  <2>7. FightsAlone'
    BY <1>2, <2>1, <2>3, <2>4 DEF FightsAlone
  <2>8. OwnWait' /\ Counted'
    <3>1. /\ task'.command = c /\ task'.awaits = First(c)
          /\ task'.failures = 0 /\ task'.rounds = 1
      BY <2>1
    <3>2. Ahead(First(c)) \in {1, 2, 3}
      BY DEF Ahead
    <3>3. Counted'
      BY <2>3, <3>1, <3>2 DEF Counted
    <3>4. OwnWait'
      BY <2>3, <3>1 DEF OwnWait
    <3> QED BY <3>3, <3>4
  <2>9. ~stopped'
    BY <1>8, <2>3
  <2> QED BY <2>6, <2>7, <2>8, <2>9 DEF Inv, Stopped
<1>10. ASSUME at' \in {"Loop", "Ended"}, task' = None, bot' \in Bots,
              bot'.on \subseteq cancelled.on \cup {"interaction", "container", "navigation"},
              stopped' => bot' \in Quiet
       PROVE  Inv'
  <2>1. ~Waiting'
    BY <1>10 DEF Waiting
  <2>2. Types'
    BY <1>7, <1>8, <1>10, <2>1 DEF Types
  <2>3. ~({"pvp", "trip"} \subseteq bot'.on)
    BY <1>1, <1>6, <1>10 DEF FightsAlone
  <2>4. FightsAlone'
    BY <2>1, <2>3 DEF FightsAlone
  <2> QED BY <1>10, <2>1, <2>2, <2>4 DEF Inv, OwnWait, Counted, Stopped
<1>11. CASE c = "quit" /\ Quits /\ bot' = IF draining THEN cancelled ELSE Closed(cancelled)
  <2>1. at' \in {"Loop", "Ended"} /\ task' = None
    BY <1>11 DEF Quits
  <2>2. bot' \in Bots /\ bot'.on \subseteq cancelled.on
    BY <1>1, <1>11, ClosedIs
  <2>3. ~stopped'
    BY <1>8, <1>11 DEF Queries
  <2> QED BY <1>10, <2>1, <2>2, <2>3
<1>12. CASE Back /\ bot' \in {cancelled} \cup (IF link = "Up" THEN {Launched(cancelled, c)} ELSE {})
  <2>1. at' = "Loop" /\ task' = None
    BY <1>12 DEF Back
  <2>2. bot' \in Bots /\ bot'.on \subseteq cancelled.on \cup {"interaction", "container", "navigation"}
    BY <1>1, <1>12, LaunchedIs
  <2>3. ASSUME stopped' PROVE bot' \in Quiet
    <3>1. c \in Queries \cup {"stop"}
      BY <1>8, <2>3
    <3>2. bot' = cancelled
      BY <1>1, <1>12, <3>1, LaunchedIs
    <3> QED BY <1>3, <1>4, <1>6, <1>8, <2>3, <3>2
  <2> QED BY <1>10, <2>1, <2>2, <2>3
<1> QED BY <1>5, <1>9, <1>11, <1>12

-----------------------------------------------------------------------------
(* A command that waits.                                                    *)

\* What a gathering goes on to, and how many waits and failures that makes.
LEMMA GoesOn ==
  ASSUME Waiting, task \in Tasks, OwnWait, Counted, NEW wait \in NextWaits(task),
         NEW failures \in Failures(wait), failures < MaxFailures
  PROVE  /\ wait \in Waits \ {"trip", "pvp"} /\ wait \in WaitsOf(task.command)
         /\ task.awaits \notin {"trip", "pvp"}
         /\ failures \in 0 .. MaxFailures - 1
         /\ task.rounds + 1 <= 2 * failures + Ahead(wait)
<1>1. /\ task.failures \in Nat /\ task.rounds \in Nat /\ MaxFailures \in Nat
      /\ task.rounds <= 2 * task.failures + Ahead(task.awaits)
  BY DEF Tasks, Counted
<1>2. \/ task.command = "mine" /\ task.awaits = "navigation" /\ wait \in {"interaction", "navigation"}
      \/ task.command = "mine" /\ task.awaits = "interaction" /\ wait \in {"collect", "navigation"}
      \/ task.command = "mine" /\ task.awaits = "collect" /\ wait = "navigation"
      \/ task.command = "hunt" /\ task.awaits = "combat" /\ wait = "combat"
      \/ task.command = "drop" /\ task.awaits = "walk" /\ wait = "settle"
  <2>1. CASE task.command = "mine"
    BY <2>1 DEF NextWaits, AfterSearch, AfterBreak, OwnWait, WaitsOf
  <2>2. CASE task.command = "hunt"
    BY <2>2 DEF NextWaits, AfterKill, OwnWait, WaitsOf
  <2>3. CASE task.command = "drop"
    BY <2>3 DEF NextWaits, AfterApproach
  <2>4. CASE task.command \notin {"mine", "hunt", "drop"}
    BY <2>4 DEF NextWaits
  <2> QED BY <2>1, <2>2, <2>3, <2>4
<1>3. /\ failures \in {task.failures, task.failures + 1, 0}
      /\ failures = 0 => task.failures = 0 \/ task.rounds = 0
      /\ task.awaits \in {"interaction", "combat", wait} /\ wait # "collect"
           => failures = task.failures + 1 \/ (failures = 0 /\ task.rounds = 0)
      /\ wait = "collect" => failures = 0 /\ task.rounds = 0
  BY <1>1, <1>2 DEF Failures
<1>4. failures \in 0 .. MaxFailures - 1
  BY <1>1, <1>3
<1>5. task.rounds + 1 <= 2 * failures + Ahead(wait)
  <2>1. CASE task.awaits = "navigation" /\ wait = "interaction"
    <3>1. failures = task.failures
      BY <2>1 DEF Failures
    <3>2. Ahead(task.awaits) = 2 /\ Ahead(wait) = 3
      BY <2>1 DEF Ahead
    <3> QED BY <1>1, <3>1, <3>2
  <2>2. CASE task.awaits = "navigation" /\ wait = "navigation"
    <3>1. Ahead(wait) = 2 /\ Ahead(task.awaits) = 2
      BY <2>2 DEF Ahead
    <3>2. failures = task.failures + 1 \/ (failures = 0 /\ task.rounds = 0)
      BY <1>3, <2>2
    <3> QED BY <1>1, <3>1, <3>2
  <2>3. CASE task.awaits = "interaction" /\ wait = "navigation"
    <3>1. Ahead(wait) = 2 /\ Ahead(task.awaits) = 3
      BY <2>3 DEF Ahead
    <3>2. failures = task.failures + 1 \/ (failures = 0 /\ task.rounds = 0)
      BY <1>3, <2>3
    <3> QED BY <1>1, <3>1, <3>2
  <2>4. CASE wait = "collect"
    <3>1. Ahead(wait) = 1
      BY <2>4 DEF Ahead
    <3> QED BY <1>3, <2>4, <3>1
  <2>5. CASE task.awaits = "collect" /\ wait = "navigation"
    <3>1. failures = task.failures
      BY <2>5 DEF Failures
    <3>2. Ahead(wait) = 2 /\ Ahead(task.awaits) = 1
      BY <2>5 DEF Ahead
    <3> QED BY <1>1, <3>1, <3>2
  <2>6. CASE task.awaits = "combat" /\ wait = "combat"
    <3>1. Ahead(wait) = 2 /\ Ahead(task.awaits) = 2
      BY <2>6 DEF Ahead
    <3>2. failures = task.failures + 1 \/ (failures = 0 /\ task.rounds = 0)
      BY <1>3, <2>6
    <3> QED BY <1>1, <3>1, <3>2
  <2>7. CASE task.awaits = "walk" /\ wait = "settle"
    <3>1. failures = task.failures
      BY <2>7 DEF Failures
    <3>2. Ahead(wait) = 2 /\ Ahead(task.awaits) = 1
      BY <2>7 DEF Ahead
    <3> QED BY <1>1, <3>1, <3>2
  <2> QED BY <1>2, <2>1, <2>2, <2>3, <2>4, <2>5, <2>6, <2>7
<1>6. /\ wait \in Waits \ {"trip", "pvp"} /\ wait \in WaitsOf(task.command)
      /\ task.awaits \notin {"trip", "pvp"}
  BY <1>2 DEF Waits, WaitsOf
<1> QED BY <1>4, <1>5, <1>6

\* Nothing of what a wait goes by starts a trip or a fight.
LEMMA EndOfWaitKeeps ==
  ASSUME Inv, Waiting, NEW b \in Bots, b.on \subseteq bot.on \cup {"clutch", "navigation"},
         EndOfWait(b), UNCHANGED <<draining, chat, link, ready, stopped>>
  PROVE  Inv'
<1>1. Types /\ FightsAlone /\ OwnWait /\ Counted /\ ~stopped /\ task \in Tasks
  BY DEF Inv, Stopped, Types
<1>2. ~stopped'
  BY <1>1
<1>3. CASE Back /\ bot' \in {b, GivenUp(b, task)}
  <2>1. at' = "Loop" /\ task' = None /\ ~Waiting'
    BY <1>3 DEF Back, Waiting
  <2>2. GivenUp(b, task) \in Bots /\ GivenUp(b, task).on \subseteq b.on
    BY Cancels DEF GivenUp, Names, Controllers
  <2>3. bot' \in Bots /\ bot'.on \subseteq bot.on \cup {"clutch", "navigation"}
    BY <1>3, <2>2
  <2>4. Types'
    BY <1>1, <2>1, <2>3 DEF Types
  <2>5. FightsAlone'
    BY <1>1, <2>1, <2>3 DEF FightsAlone
  <2> QED BY <1>2, <2>1, <2>4, <2>5 DEF Inv, OwnWait, Counted, Stopped
<1>4. ASSUME NEW wait \in NextWaits(task), NEW failures \in Failures(wait), failures < MaxFailures,
             Await(task.command, wait, failures, task.rounds + 1), bot' = Begun(b, wait)
      PROVE  Inv'
  <2>1. /\ wait \in Waits \ {"trip", "pvp"} /\ wait \in WaitsOf(task.command)
        /\ task.awaits \notin {"trip", "pvp"}
        /\ failures \in 0 .. MaxFailures - 1
        /\ task.rounds + 1 <= 2 * failures + Ahead(wait)
    BY <1>1, <1>4, GoesOn
  <2>2. /\ at' = "Drive" /\ Waiting'
        /\ task' = [command |-> task.command, awaits |-> wait, failures |-> failures,
                    rounds |-> task.rounds + 1]
    BY <1>4 DEF Await, Waiting
  <2>3. /\ task'.command = task.command /\ task'.awaits = wait
        /\ task'.failures = failures /\ task'.rounds = task.rounds + 1
    BY <2>2
  <2>4. task' \in Tasks
    BY <1>1, <2>1, <2>2 DEF Tasks
  <2>5. bot' \in Bots /\ bot'.on \subseteq bot.on \cup {"clutch", "navigation", wait}
    BY <1>4, <2>1, BegunIs
  <2>6. Types'
    BY <1>1, <2>2, <2>4, <2>5 DEF Types
  <2>7. "trip" \notin bot'.on /\ "pvp" \notin bot'.on
    BY <1>1, <2>1, <2>5 DEF FightsAlone
  <2>8. FightsAlone'
    BY <2>7 DEF FightsAlone
  <2>9. OwnWait'
    BY <2>1, <2>3 DEF OwnWait
  <2>10. Counted'
    BY <2>1, <2>3 DEF Counted
  <2> QED BY <1>2, <2>6, <2>8, <2>9, <2>10 DEF Inv, Stopped
<1> QED BY <1>3, <1>4 DEF EndOfWait

-----------------------------------------------------------------------------
(* Every step keeps the invariant.                                          *)

\* What drives a wait, and the lists of the loop's ticks.
LEMMA DriversAre ==
  ASSUME NEW wait \in Waits
  PROVE  Drivers[wait] \in Seq(Driving)
<1>1. /\ AwaitMovement \in Seq(Driving) /\ AwaitNavigation \in Seq(Driving)
      /\ AwaitBlockNavigation \in Seq(Driving) /\ AwaitLook \in Seq(Driving)
      /\ AwaitInteraction \in Seq(Driving) /\ AwaitCombat \in Seq(Driving)
      /\ AwaitKill \in Seq(Driving) /\ CollectDrop \in Seq(Driving)
      /\ LookBriefly \in Seq(Driving)
  BY DEF AwaitMovement, AwaitNavigation, AwaitBlockNavigation, AwaitLook, AwaitInteraction,
         AwaitCombat, AwaitKill, CollectDrop, LookBriefly, Driving, Controllers
<1> QED BY <1>1 DEF Drivers, Waits

\* However the controllers are driven, they turn on nothing but a clutch and the
\* walk of an operation.
LEMMA DrivesAre ==
  ASSUME NEW b \in Bots, NEW cs \in Seq(Driving), NEW d \in Drive(b, cs)
  PROVE  d \in Bots /\ d.on \subseteq b.on \cup {"clutch", "navigation"}
<1> DEFINE P == {x \in Bots : x.on \subseteq b.on \cup {"clutch", "navigation"}}
<1>1. b \in P /\ Len(cs) \in Nat /\ \A n \in 1 .. Len(cs) : cs[n] \in Driving
  BY LenProperties, ElementOfSeq
<1>2. ASSUME NEW x \in P, NEW n \in 1 .. Len(cs) PROVE Tick(x, cs[n]) \subseteq P
  BY <1>1, Ticks
<1>3. Drive(b, cs) \subseteq P
  <2> HIDE DEF P
  <2> QED BY <1>1, <1>2, DriveKeeps
<1> QED BY <1>3

\* A tick starts nothing in a bot at rest, but for a clutch that catches a fall.
LEMMA QuietTicks ==
  ASSUME NEW b \in Quiet, NEW c \in Driving
  PROVE  Tick(b, c) \subseteq Quiet
<1> SUFFICES ASSUME NEW d \in Tick(b, c) PROVE d \in Quiet
  OBVIOUS
<1>1. /\ b \in Bots /\ b.on \subseteq {"clutch"} /\ b.walk = "Still" /\ ~b.kept
      /\ b.look # "Free" => "clutch" \in b.on
  BY DEF Quiet
<1>2. CASE c = "look"
  <2>1. d = b \/ d = [b EXCEPT !.look = "Free"]
    BY <1>2 DEF Tick
  <2>2. [b EXCEPT !.look = "Free"] \in Quiet
    BY <1>1 DEF Bots, Quiet
  <2> QED BY <2>1, <2>2
<1>3. CASE c = "clutch" /\ c \in b.on
  <2>1. d = b \/ d = Released(Off(b, c))
    BY <1>3 DEF Tick
  <2>2. /\ Off(b, c) \in Bots /\ Off(b, c).on \subseteq b.on /\ Off(b, c).walk = b.walk
        /\ Off(b, c).kept = b.kept
    BY OnOff, <1>1
  <2>3. /\ Released(Off(b, c)) \in Bots /\ Released(Off(b, c)).on \subseteq b.on
        /\ Released(Off(b, c)).walk = "Still" /\ ~Released(Off(b, c)).kept
        /\ Released(Off(b, c)).look = "Free"
    BY <1>1, <2>2, Looks
  <2> QED BY <1>1, <2>1, <2>3 DEF Quiet
<1>4. CASE c = "clutch" /\ c \notin b.on
  <2> DEFINE freed == Cancel(b, <<"interaction", "combat">>)
  <2>1. d = b \/ d = freed \/ d = Aimed(On(freed, c))
    BY <1>4 DEF Tick
  <2>2. <<"interaction", "combat">> \in Seq(Names)
    BY DEF Names, Controllers
  <2>3. b.on = {} /\ b.look = "Free"
    BY <1>1, <1>4
  <2>4. /\ freed \in Bots /\ freed.on \subseteq {} /\ freed.walk = "Still"
        /\ freed.look = "Free" /\ ~freed.kept
    BY <1>1, <2>2, <2>3, CancelEnds
  <2> HIDE DEF freed
  <2>5. /\ On(freed, c) \in Bots /\ On(freed, c).on = {"clutch"} /\ On(freed, c).walk = "Still"
        /\ On(freed, c).look = "Free" /\ ~On(freed, c).kept
    BY <1>4, <2>4, OnOff DEF Controllers
  <2>6. freed \in Quiet /\ Aimed(On(freed, c)) \in Quiet
    BY <2>4, <2>5, Looks DEF Quiet
  <2> QED BY <2>1, <2>6
<1>5. CASE c \notin {"look", "clutch"}
  <2>1. d = b
    <3>1. CASE c = "movement"
      BY <1>1, <3>1 DEF Tick
    <3>2. CASE c # "movement"
      BY <1>1, <1>5, <3>2 DEF Tick
    <3> QED BY <3>1, <3>2
  <2> QED BY <2>1
<1> QED BY <1>2, <1>3, <1>4, <1>5

\* No tick disturbs a quiet bot.
LEMMA QuietDrives ==
  ASSUME NEW b \in Quiet, NEW cs \in Seq(Driving)
  PROVE  Drive(b, cs) \subseteq Quiet
<1>1. Len(cs) \in Nat /\ \A n \in 1 .. Len(cs) : cs[n] \in Driving
  BY LenProperties, ElementOfSeq
<1>2. \A x \in Quiet, n \in 1 .. Len(cs) : Tick(x, cs[n]) \subseteq Quiet
  BY <1>1, QuietTicks
<1> QED BY <1>1, <1>2, DriveKeeps

\* A step that leaves the task alone, starts no trip and no fight, and lets a
\* stopped bot rest.
LEMMA KeptBesides ==
  ASSUME Inv, UNCHANGED <<at, task, stopped>>, draining' \in BOOLEAN, ready' \in BOOLEAN,
         bot' \in Bots, bot'.on \subseteq bot.on \cup {"clutch", "navigation"},
         stopped => bot' \in Quiet,
         chat' \in Seq(Said), Len(chat') <= ChatCapacity, link' \in {"Up", "Down", "Gone"}
  PROVE  Inv'
<1>1. Types /\ FightsAlone /\ OwnWait /\ Counted /\ Stopped
  BY DEF Inv
<1>2. Waiting' <=> Waiting
  BY DEF Waiting
<1>3. Types'
  BY <1>1, <1>2 DEF Types
<1>4. FightsAlone'
  BY <1>1, <1>2 DEF FightsAlone
<1>5. OwnWait' /\ Counted'
  BY <1>1, <1>2 DEF OwnWait, Counted
<1>6. Stopped'
  BY <1>1, <1>2 DEF Stopped
<1> QED BY <1>3, <1>4, <1>5, <1>6 DEF Inv

\* Ending the program, or the loop, with no more than the bot already does.
LEMMA EndKeeps ==
  ASSUME Inv, ~Waiting, at' = "Ended", bot' = Closed(bot),
         UNCHANGED <<draining, task, chat, link, ready, stopped>>
  PROVE  Inv'
<1>1. Types /\ FightsAlone /\ Stopped
  BY DEF Inv
<1>2. ~Waiting'
  BY DEF Waiting
<1>3. bot' \in Bots /\ bot'.on \subseteq bot.on /\ (bot \in Quiet => bot' \in Quiet)
  BY <1>1, ClosedIs DEF Types
<1>4. Types'
  BY <1>1, <1>2, <1>3 DEF Types
<1>5. FightsAlone' /\ Stopped'
  BY <1>1, <1>2, <1>3 DEF FightsAlone, Stopped
<1> QED BY <1>2, <1>4, <1>5 DEF Inv, OwnWait, Counted

\* A stop is among the first lines' places, and what it leaves fits again.
LEMMA InterruptKeeps ==
  ASSUME Inv, Waiting, NEW c \in Commands, NEW lines \in Seq(Said), Len(lines) <= ChatCapacity,
         Interrupt(c, lines)
  PROVE  Inv'
<1> DEFINE b == IF task.command = "hunt" THEN CancelOne(bot, "combat") ELSE bot
<1>1. bot \in Bots /\ ~stopped
  BY DEF Inv, Types, Stopped
<1>2. b \in Bots /\ b.on \subseteq bot.on
  BY <1>1, Cancels DEF Names, Controllers
<1>3. Execute(c, b, lines)
  BY DEF Interrupt
<1> HIDE DEF b
<1> QED BY <1>1, <1>2, <1>3, ExecuteKeeps

\* The chat, and what a wait leaves of it, are queues within capacity.
LEMMA ChatIs ==
  ASSUME Types
  PROVE  /\ chat \in Seq(Said) /\ Len(chat) \in Nat /\ Len(chat) <= ChatCapacity
         /\ Heard \in Seq(Said) /\ Len(Heard) <= ChatCapacity
         /\ FirstStop # 0 => /\ RemoveAt(chat, FirstStop) \in Seq(Said)
                             /\ Len(RemoveAt(chat, FirstStop)) <= ChatCapacity
         /\ chat # <<>> => /\ Head(chat) \in Said /\ Tail(chat) \in Seq(Said)
                           /\ Len(Tail(chat)) <= ChatCapacity
<1>1. chat \in Seq(Said) /\ Len(chat) \in Nat /\ Len(chat) <= ChatCapacity /\ ChatCapacity \in Nat
  BY LenProperties DEF Types
<1>2. Heard \in Seq(Said) /\ Len(Heard) \in Nat /\ Len(Heard) <= Len(chat)
  BY <1>1, HeardIs, LenProperties
<1>3. ASSUME FirstStop # 0
      PROVE  /\ RemoveAt(chat, FirstStop) \in Seq(Said)
             /\ Len(RemoveAt(chat, FirstStop)) <= ChatCapacity
  <2>1. FirstStop \in 1 .. Len(chat)
    BY <1>1, <1>3, FirstStopIs
  <2>2. /\ RemoveAt(chat, FirstStop) \in Seq(Said)
        /\ Len(RemoveAt(chat, FirstStop)) = Len(chat) - 1
    BY <1>1, <2>1, Removed
  <2> QED BY <1>1, <2>2
<1>4. ASSUME chat # <<>>
      PROVE  /\ Head(chat) \in Said /\ Tail(chat) \in Seq(Said)
             /\ Len(Tail(chat)) <= ChatCapacity
  <2>1. /\ Head(chat) \in Said /\ Tail(chat) \in Seq(Said)
        /\ Len(Tail(chat)) = Len(chat) - 1
    BY <1>1, <1>4, HeadTailProperties
  <2> QED BY <1>1, <2>1
<1> QED BY <1>1, <1>2, <1>3, <1>4

\* A line more never makes the queue longer than it may be.
LEMMA QueuedIs ==
  ASSUME Types, NEW line \in Said
  PROVE  Queued(line) \in Seq(Said) /\ Len(Queued(line)) <= ChatCapacity
<1> DEFINE longer == Append(chat, line)
<1>1. chat \in Seq(Said) /\ Len(chat) \in Nat /\ Len(chat) <= ChatCapacity /\ ChatCapacity \in Nat
  BY ChatIs
<1>2. longer \in Seq(Said) /\ Len(longer) = Len(chat) + 1
  BY <1>1, AppendProperties
<1>3. Queued(line) = IF Len(longer) > ChatCapacity THEN Tail(longer) ELSE longer
  BY DEF Queued
<1> HIDE DEF longer
<1>4. CASE Len(longer) > ChatCapacity
  <2>1. longer # <<>>
    BY <1>1, <1>2
  <2>2. Tail(longer) \in Seq(Said) /\ Len(Tail(longer)) = Len(longer) - 1
    BY <1>2, <2>1, HeadTailProperties
  <2> QED BY <1>1, <1>2, <1>3, <1>4, <2>2
<1>5. CASE ~(Len(longer) > ChatCapacity)
  BY <1>1, <1>2, <1>3, <1>5
<1> QED BY <1>4, <1>5

\* Every step keeps the invariant.
LEMMA NextInv ==
  ASSUME Inv, [Next]_vars
  PROVE  Inv'
<1>0. /\ Types /\ FightsAlone /\ OwnWait /\ Counted /\ Stopped
      /\ bot \in Bots /\ (stopped => bot \in Quiet)
      /\ draining \in BOOLEAN /\ ready \in BOOLEAN /\ link \in {"Up", "Down", "Gone"}
  BY DEF Inv, Types, Stopped
<1> DEFINE Spared == UNCHANGED <<draining, chat, link, ready, stopped>>
<1>1. CASE DriveWait
  <2>1. PICK b \in Drive(bot, Drivers[task.awaits]) :
          \/ Finished(b, task.awaits) /\ EndOfWait(b)
          \/ ~Finished(b, task.awaits) /\ at' = "Listen" /\ bot' = b /\ UNCHANGED task
    BY <1>1 DEF DriveWait
  <2>2. Waiting /\ Spared /\ task \in Tasks /\ task.awaits \in Waits /\ ~stopped
    BY <1>0, <1>1 DEF DriveWait, Waiting, Types, Tasks, Stopped
  <2>3. b \in Bots /\ b.on \subseteq bot.on \cup {"clutch", "navigation"}
    BY <1>0, <2>2, DriversAre, DrivesAre
  <2>4. CASE EndOfWait(b)
    BY <2>2, <2>3, <2>4, EndOfWaitKeeps
  <2>5. CASE at' = "Listen" /\ bot' = b /\ UNCHANGED task
    <3>1. Waiting' /\ ~stopped'
      BY <2>2, <2>5 DEF Waiting
    <3>2. Types'
      BY <1>0, <2>2, <2>3, <2>5, <3>1 DEF Types
    <3>3. FightsAlone'
      BY <1>0, <2>2, <2>3, <2>5, <3>1 DEF FightsAlone
    <3>4. OwnWait' /\ Counted'
      BY <1>0, <2>2, <2>5 DEF OwnWait, Counted
    <3> QED BY <3>1, <3>2, <3>3, <3>4 DEF Inv, Stopped
  <2> QED BY <2>1, <2>4, <2>5
<1>2. CASE CutWait
  <2>1. Waiting /\ Spared
    BY <1>2 DEF CutWait, Waiting
  <2>2. Still(bot) \in Bots /\ Still(bot).on = bot.on
    BY <1>0, Walks
  <2>3. PICK b \in {bot, Still(bot)} : EndOfWait(b)
    BY <1>2 DEF CutWait
  <2> QED BY <1>0, <2>1, <2>2, <2>3, EndOfWaitKeeps
<1>3. CASE StopFromChat
  <2>1. Waiting /\ FirstStop # 0 /\ Interrupt("stop", RemoveAt(chat, FirstStop))
    BY <1>3 DEF StopFromChat, Waiting
  <2>2. "stop" \in Commands
    BY DEF Commands
  <2> QED BY <1>0, <2>1, <2>2, ChatIs, InterruptKeeps
<1>4. CASE Sleep
  <2>1. /\ Waiting /\ Waiting' /\ at' = "Drive" /\ chat' = Heard
        /\ task' = [task EXCEPT !.rounds = 0]
        /\ UNCHANGED <<draining, bot, link, ready, stopped>>
    BY <1>4 DEF Sleep, Waiting
  <2>2. task \in Tasks
    BY <1>0, <2>1 DEF Types
  <2>3. /\ task' \in Tasks /\ task'.command = task.command /\ task'.awaits = task.awaits
        /\ task'.failures = task.failures /\ task'.rounds = 0
    BY <2>1, <2>2 DEF Tasks
  <2>4. Types'
    BY <1>0, <2>1, <2>3, ChatIs DEF Types
  <2>5. FightsAlone' /\ OwnWait'
    BY <1>0, <2>1, <2>3 DEF FightsAlone, OwnWait
  <2>6. Counted'
    <3>1. Ahead(task.awaits) \in {1, 2, 3} /\ task.failures \in Nat
      BY <2>2 DEF Ahead, Tasks
    <3>2. 0 <= 2 * task.failures + Ahead(task.awaits)
      BY <3>1
    <3> QED BY <2>3, <3>2 DEF Counted
  <2>7. Stopped'
    BY <1>0, <2>1 DEF Stopped
  <2> QED BY <2>4, <2>5, <2>6, <2>7 DEF Inv
<1>5. ASSUME NEW c \in Typed, ConsoleInterrupts(c) PROVE Inv'
  <2>1. Waiting /\ Interrupt(c, Heard) /\ c \in Commands
    BY <1>5 DEF ConsoleInterrupts, Waiting
  <2> QED BY <1>0, <2>1, ChatIs, InterruptKeeps
<1>6. CASE CleanUp
  <2> DEFINE cs == <<"interaction", "combat", "pvp", "trip", "navigation", "look", "reset", "walk">>
  <2>1. /\ bot' = Cancel(bot, cs) /\ ready' = FALSE
        /\ UNCHANGED <<at, draining, task, chat, link, stopped>>
    BY <1>6 DEF CleanUp
  <2>2. /\ cs \in Seq(Names) /\ Len(cs) = 8 /\ cs[6] = "look" /\ cs[8] = "walk"
    BY DEF Names, Controllers
  <2> HIDE DEF cs
  <2>3. /\ Cancel(bot, cs) \in Bots /\ Cancel(bot, cs).on \subseteq bot.on
        /\ (\E n \in 1 .. Len(cs) : cs[n] = "walk") => Cancel(bot, cs).walk = "Still"
        /\ (\E n \in 1 .. Len(cs) : cs[n] = "look")
             => Cancel(bot, cs).look = "Free" /\ ~Cancel(bot, cs).kept
    BY <1>0, <2>2, CancelEnds
  <2>4. 6 \in 1 .. Len(cs) /\ 8 \in 1 .. Len(cs)
    BY <2>2
  <2>5. bot'.walk = "Still" /\ bot'.look = "Free" /\ ~bot'.kept
    BY <2>1, <2>2, <2>3, <2>4
  <2>6. bot' \in Bots /\ bot'.on \subseteq bot.on /\ (stopped => bot' \in Quiet)
    BY <1>0, <2>1, <2>3, <2>5 DEF Quiet
  <2> QED BY <1>0, <2>1, <2>6, ChatIs, KeptBesides
<1>7. CASE StartDrain
  <2>1. /\ ready' = TRUE /\ draining' = TRUE /\ UNCHANGED <<at, task, bot, chat, link, stopped>>
    BY <1>7 DEF StartDrain
  <2> QED BY <1>0, <2>1, ChatIs, KeptBesides
<1>8. CASE Dropped
  <2>1. /\ chat # <<>> /\ chat' = Tail(chat)
        /\ UNCHANGED <<at, draining, task, bot, link, ready, stopped>>
    BY <1>8 DEF Dropped
  <2> QED BY <1>0, <2>1, ChatIs, KeptBesides
<1>9. CASE DrainCommand
  <2>1. chat # <<>> /\ Execute(Head(chat).says, bot, Tail(chat))
    BY <1>9 DEF DrainCommand
  <2>2. Head(chat).says \in Commands
    BY <1>0, <2>1, ChatIs DEF Said
  <2> QED BY <1>0, <2>1, <2>2, ChatIs, ExecuteKeeps
<1>10. ASSUME NEW cs \in Seq(Driving), bot' \in Drive(bot, cs), draining' \in BOOLEAN,
              UNCHANGED <<at, task, chat, link, ready, stopped>>
       PROVE  Inv'
  <2>1. bot' \in Bots /\ bot'.on \subseteq bot.on \cup {"clutch", "navigation"}
    BY <1>0, <1>10, DrivesAre
  <2>2. stopped => bot' \in Quiet
    BY <1>0, <1>10, QuietDrives
  <2> QED BY <1>0, <1>10, <2>1, <2>2, ChatIs, KeptBesides
<1>11. CASE MovementTick
  <2>1. <<"trip", "movement">> \in Seq(Driving)
    BY DEF Driving, Controllers
  <2> QED BY <1>10, <1>11, <2>1 DEF MovementTick
<1>12. CASE LookTick
  <2>1. /\ bot' \in Tick(bot, "look")
        /\ UNCHANGED <<at, draining, task, chat, link, ready, stopped>>
    BY <1>12 DEF LookTick
  <2>2. bot' \in Bots /\ bot'.on \subseteq bot.on \cup {"clutch", "navigation"}
    BY <1>0, <2>1, Ticks DEF Driving
  <2>3. stopped => bot' \in Quiet
    BY <1>0, <2>1, QuietTicks DEF Driving
  <2> QED BY <1>0, <2>1, <2>2, <2>3, ChatIs, KeptBesides
<1>13. CASE InteractionTick
  <2>1. <<"navigation", "interaction", "combat", "pvp", "container", "clutch">> \in Seq(Driving)
    BY DEF Driving, Controllers
  <2> QED BY <1>0, <1>10, <1>13, <2>1 DEF InteractionTick
<1>14. ASSUME NEW c \in Typed, ConsoleInput(c) PROVE Inv'
  <2>1. Execute(c, bot, chat) /\ c \in Commands
    BY <1>14 DEF ConsoleInput
  <2> QED BY <1>0, <2>1, ChatIs, ExecuteKeeps
<1>15. CASE ShutDown
  <2>1. /\ ~Waiting /\ at' = "Ended" /\ bot' = Closed(bot)
        /\ UNCHANGED <<draining, task, chat, link, ready, stopped>>
    BY <1>15 DEF ShutDown, Waiting
  <2> QED BY <2>1, EndKeeps
<1>16. ASSUME NEW line \in Lines, Say(line) PROVE Inv'
  <2>1. /\ chat' = Queued(line) /\ UNCHANGED <<at, draining, task, bot, link, ready, stopped>>
        /\ line \in Said
    BY <1>16 DEF Say, Said
  <2> QED BY <1>0, <2>1, QueuedIs, KeptBesides
<1>17. CASE Disconnect
  <2>1. /\ link' = "Down" /\ chat' = <<>>
        /\ UNCHANGED <<at, draining, task, bot, ready, stopped>>
    BY <1>17 DEF Disconnect
  <2>2. chat' \in Seq(Said) /\ Len(chat') <= ChatCapacity
    <3>1. Len(chat') = 0 /\ chat' \in Seq(Said) /\ ChatCapacity \in Nat
      BY <2>1
    <3> QED BY <3>1
  <2> QED BY <1>0, <2>1, <2>2, KeptBesides
<1>18. CASE Retried
  <2>1. /\ link' \in {"Up", "Gone"} /\ UNCHANGED <<at, draining, task, bot, chat, ready, stopped>>
    BY <1>18 DEF Retried
  <2> QED BY <1>0, <2>1, ChatIs, KeptBesides
<1>19. CASE UNCHANGED vars
  BY <1>0, <1>19, ChatIs, KeptBesides DEF vars
<1> QED BY <1>1, <1>2, <1>3, <1>4, <1>5, <1>6, <1>7, <1>8, <1>9, <1>11, <1>12, <1>13, <1>14, <1>15,
           <1>16, <1>17, <1>18, <1>19 DEF Next, DrainDenied, DrainOverLimit

-----------------------------------------------------------------------------
(* The theorems.                                                            *)

\* The invariant always holds.
LEMMA InvHolds == Spec => []Inv
<1>1. Inv /\ [Next]_vars => Inv'
  BY NextInv
<1> QED BY InitInv, <1>1, PTL DEF Spec

\* The variables have their types: a command that waits has a wait, its failures are
\* below the limit at which a gathering gives up (app.rs:3816-3834), and the chat
\* never holds more than its capacity.
THEOREM TypesHold == Spec => []TypeOK
<1>1. Inv => TypeOK
  BY TypesAre DEF Inv
<1> QED BY InvHolds, <1>1, PTL

\* A fight and a trip go on after their command (app.rs:1001-1060), but neither is
\* ever left beside a wait for something else, nor beside the other.
THEOREM FightAlone == Spec => []FightsAlone
<1>1. Inv => FightsAlone
  BY DEF Inv
<1> QED BY InvHolds, <1>1, PTL

\* After an emergency stop, and until the next action command, nothing runs, walks or
\* holds the camera but a clutch that catches a fall (control/stop.rs:11-16).
THEOREM QuietAfterAStop == Spec => []QuietAfterStop
<1>1. Inv => QuietAfterStop
  BY DEF Inv, Stopped, Quiet, QuietAfterStop
<1> QED BY InvHolds, <1>1, PTL

\* However its parts fail, a gathering looks at the chat and the console again after
\* at most two waits for each failure it may have, and one (app.rs:3816-3834).
THEOREM NeverIsDeaf == Spec => []NeverDeaf
<1>1. ASSUME Inv, Waiting PROVE task.rounds <= 2 * MaxFailures + 1
  <2>1. /\ task \in Tasks /\ task.rounds <= 2 * task.failures + Ahead(task.awaits)
    BY <1>1 DEF Inv, Types, Counted
  <2>2. /\ task.rounds \in Nat /\ task.failures \in Nat /\ task.failures <= MaxFailures - 1
        /\ MaxFailures \in Nat
    BY <2>1 DEF Tasks
  <2>3. Ahead(task.awaits) \in {1, 2, 3}
    BY DEF Ahead
  <2>4. 2 * task.failures + Ahead(task.awaits) <= 2 * MaxFailures + 1
    BY <2>2, <2>3
  <2>5. 2 * task.failures + Ahead(task.awaits) \in Nat
    BY <2>2, <2>3
  <2> QED BY <2>1, <2>2, <2>4, <2>5
<1>2. Inv => NeverDeaf
  BY <1>1 DEF NeverDeaf
<1> QED BY InvHolds, <1>2, PTL

\* A wait that looks at the chat runs the first stop in it, if its player may, before
\* anything that was queued earlier (app.rs:624-631).
THEOREM StopAlwaysOvertakes == Spec => StopOvertakes
<1>1. ASSUME Inv, [Next]_vars, at = "Listen", StopNext, at' # at PROVE stopped'
  <2>1. Waiting /\ chat \in Seq(Said)
    BY <1>1 DEF Inv, Types, Waiting
  <2>2. PICK i \in DOMAIN chat : /\ IsStop(chat[i]) /\ chat[i].by \in Allowed
                                /\ \A j \in 1 .. i - 1 : ~IsStop(chat[j])
    BY <1>1 DEF StopNext
  <2>3. i \in 1 .. Len(chat) /\ Len(chat) \in Nat
    BY <2>1, <2>2, LenProperties
  <2>4. FirstStop = i
    <3>1. FirstStop \in 1 .. i /\ IsStop(chat[FirstStop])
      BY <2>1, <2>2, <2>3, FirstStopIs
    <3>2. FirstStop \notin 1 .. i - 1
      BY <2>2, <3>1
    <3> QED BY <2>3, <3>1, <3>2
  <2>5. ~Unstopped
    BY <2>2, <2>3, <2>4 DEF Unstopped
  <2>6. ~Sleep /\ ~(\E c \in Typed : ConsoleInterrupts(c))
    BY <2>5 DEF Sleep, ConsoleInterrupts
  <2>7. CASE StopFromChat
    <3>1. History("stop")
      BY <2>7 DEF StopFromChat, Interrupt, Execute
    <3>2. stopped' = IF "stop" = "stop" THEN TRUE ELSE stopped /\ "stop" \in Queries
      BY <3>1, Zenon DEF History
    <3> QED BY <3>2, Zenon
  <2>8. CASE ~StopFromChat
    <3>1. ~(\/ DriveWait \/ CutWait \/ CleanUp \/ StartDrain \/ DrainDenied \/ DrainOverLimit
            \/ DrainCommand \/ MovementTick \/ LookTick \/ InteractionTick
            \/ (\E c \in Typed : ConsoleInput(c)) \/ ShutDown)
      BY <1>1 DEF DriveWait, CutWait, CleanUp, StartDrain, DrainDenied, DrainOverLimit, Dropped,
                  DrainCommand, MovementTick, LookTick, InteractionTick, ConsoleInput, ShutDown
    <3>2. (\E line \in Lines : Say(line)) \/ Disconnect \/ Retried \/ UNCHANGED vars
      BY <1>1, <2>6, <2>8, <3>1 DEF Next
    <3> QED BY <1>1, <3>2 DEF Say, Disconnect, Retried, vars
  <2> QED BY <2>7, <2>8
<1>2. Inv /\ [Next]_vars => [at = "Listen" /\ StopNext /\ at' # at => stopped']_vars
  BY <1>1
<1> QED BY InvHolds, <1>2, PTL DEF Spec, StopOvertakes

\* What is looked up in the chat while a command waits, asks for no action.
LEMMA ActionsHeard ==
  ASSUME Types
  PROVE  /\ Actions(Heard) = Actions(chat)
         /\ FirstStop # 0 => Actions(RemoveAt(chat, FirstStop)) = Actions(chat)
<1> DEFINE X == {line \in Said : line.says \in Queries \cup {"stop"}}
           rest == IF FirstStop = 0 THEN chat ELSE RemoveAt(chat, FirstStop)
<1>1. \A lines : Actions(lines) = Without(lines, X)
  BY DEF Actions
<1>2. chat \in Seq(Said) /\ (FirstStop # 0 => RemoveAt(chat, FirstStop) \in Seq(Said))
  BY ChatIs
<1>3. ASSUME FirstStop # 0 PROVE Without(RemoveAt(chat, FirstStop), X) = Without(chat, X)
  <2>1. FirstStop \in 1 .. Len(chat) /\ IsStop(chat[FirstStop])
    BY <1>2, <1>3, FirstStopIs
  <2>2. chat[FirstStop] \in X
    BY <1>2, <2>1, ElementOfSeq DEF IsStop
  <2> HIDE DEF X
  <2> QED BY <1>2, <2>1, <2>2, WithoutRemoved
<1>4. rest \in Seq(Said) /\ Heard = Without(rest, Answerable)
  BY <1>2 DEF Heard
<1>5. Answerable \subseteq X
  BY DEF Answerable
<1>6. Without(rest, X) = Without(chat, X)
  <2>1. CASE FirstStop = 0
    BY <2>1
  <2>2. CASE FirstStop # 0
    BY <1>3, <2>2
  <2> QED BY <2>1, <2>2
<1> HIDE DEF X, rest
<1>7. Without(Without(rest, Answerable), X) = Without(rest, X)
  BY <1>4, <1>5, WithoutMore
<1> QED BY <1>1, <1>3, <1>4, <1>6, <1>7

\* While a command waits, the lines that ask for action stay in the queue, in their
\* order, unless the oldest is pushed out of a full one or the command that interrupts
\* connects anew (app.rs:544-572).
THEOREM ActionsWait == Spec => ActionsWaitTheirTurn
<1> DEFINE Stays == \/ Actions(chat') = Actions(chat)
                    \/ Len(chat') = ChatCapacity /\ Len(chat) = ChatCapacity
                    \/ chat' = <<>> /\ stopped' = stopped /\ ~Waiting'
<1>1. ASSUME Inv, [Next]_vars, Waiting, link' = "Up", link = "Up", Len(chat') <= Len(chat)
      PROVE  Stays
  <2>1. /\ Types /\ ~stopped /\ stopped \in BOOLEAN
        /\ chat \in Seq(Said) /\ Len(chat) \in Nat /\ Len(chat) <= ChatCapacity
        /\ ChatCapacity \in Nat
    BY <1>1, ChatIs DEF Inv, Stopped, Types
  <2>2. CASE chat' = chat
    BY <2>2
  <2>3. CASE StopFromChat
    <3>1. FirstStop # 0 /\ Interrupt("stop", RemoveAt(chat, FirstStop))
      BY <2>3 DEF StopFromChat
    <3>2. chat' = RemoveAt(chat, FirstStop)
      BY <3>1 DEF Interrupt, Execute
    <3> QED BY <2>1, <3>1, <3>2, ActionsHeard
  <2>4. CASE Sleep
    <3>1. chat' = Heard
      BY <2>4 DEF Sleep
    <3> QED BY <2>1, <3>1, ActionsHeard
  <2>5. ASSUME NEW c \in Typed, ConsoleInterrupts(c) PROVE Stays
    <3> DEFINE b == IF task.command = "hunt" THEN CancelOne(bot, "combat") ELSE bot
    <3>1. Execute(c, b, Heard)
      BY <2>5 DEF ConsoleInterrupts, Interrupt
    <3> HIDE DEF b
    <3>2. CASE c # "reconnect"
      <4>1. chat' = Heard
        BY <3>1, <3>2 DEF Execute
      <4> QED BY <2>1, <4>1, ActionsHeard
    <3>3. CASE c = "reconnect"
      <4>1. History(c) /\ Reconnects /\ First(c) = None
        BY <3>1, <3>3 DEF Execute, First
      <4>2. chat' = <<>>
        BY <1>1, <4>1 DEF Reconnects
      <4>3. stopped' = IF c = "stop" THEN TRUE ELSE stopped /\ c \in Queries
        BY <4>1, Zenon DEF History
      <4>4. c # "stop"
        BY <3>3
      <4>5. stopped' = (stopped /\ c \in Queries)
        BY <4>3, <4>4, Zenon
      <4>6. stopped' = stopped
        BY <2>1, <4>5, Zenon
      <4>7. at' = "Loop"
        BY <3>1, <3>3, <4>1 DEF Execute, Back
      <4>8. ~Waiting'
        BY <4>7 DEF Waiting
      <4> QED BY <4>2, <4>6, <4>8
    <3> QED BY <3>2, <3>3
  <2>6. ASSUME NEW line \in Lines, Say(line) PROVE Stays
    <3> DEFINE longer == Append(chat, line)
    <3>1. chat' = IF Len(longer) > ChatCapacity THEN Tail(longer) ELSE longer
      BY <2>6 DEF Say, Queued
    <3>2. longer \in Seq(Said) /\ Len(longer) = Len(chat) + 1
      BY <2>1, AppendProperties
    <3> HIDE DEF longer
    <3>3. Len(longer) > ChatCapacity /\ chat' = Tail(longer)
      <4>1. chat' # longer
        BY <1>1, <2>1, <3>2
      <4> QED BY <3>1, <4>1
    <3>4. Len(Tail(longer)) = Len(longer) - 1
      <4>1. longer # <<>>
        BY <2>1, <3>2
      <4> QED BY <3>2, <4>1, HeadTailProperties
    <3>5. Len(chat') = ChatCapacity /\ Len(chat) = ChatCapacity
      BY <2>1, <3>2, <3>3, <3>4
    <3> QED BY <3>5
  <2>7. ~(\/ CleanUp \/ StartDrain \/ DrainDenied \/ DrainOverLimit \/ DrainCommand
          \/ MovementTick \/ LookTick \/ InteractionTick
          \/ (\E c \in Typed : ConsoleInput(c)) \/ ShutDown)
    BY <1>1 DEF Waiting, CleanUp, StartDrain, DrainDenied, DrainOverLimit, Dropped, DrainCommand,
                MovementTick, LookTick, InteractionTick, ConsoleInput, ShutDown
  <2>8. DriveWait \/ CutWait \/ Retried \/ UNCHANGED vars => chat' = chat
    BY DEF DriveWait, CutWait, Retried, vars
  <2>9. ~Disconnect
    BY <1>1 DEF Disconnect
  <2> HIDE DEF Stays
  <2> QED BY <1>1, <2>2, <2>3, <2>4, <2>5, <2>6, <2>7, <2>8, <2>9 DEF Next
<1>2. Inv /\ [Next]_vars
        => [Waiting /\ link' = "Up" /\ link = "Up" /\ Len(chat') <= Len(chat)
             => \/ Actions(chat') = Actions(chat)
                \/ Len(chat') = ChatCapacity /\ Len(chat) = ChatCapacity
                \/ chat' = <<>> /\ stopped' = stopped /\ ~Waiting']_vars
  BY <1>1
<1> QED BY InvHolds, <1>2, PTL DEF Spec, ActionsWaitTheirTurn

=============================================================================
