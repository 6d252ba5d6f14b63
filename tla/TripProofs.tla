------------------------------ MODULE TripProofs ------------------------------
(* Proofs about a long trip, for a line of any length, any segment length and *)
(* radii, and any number of faults, replans and trips.                        *)
EXTENDS Trip, SequenceTheorems, TLAPS

USE TripAssumption, MovementAssumption DEF Places

-----------------------------------------------------------------------------
(* The line.                                                                *)

\* Cutting a line into pieces of length d stays on the line.
LEMMA Cut ==
  ASSUME NEW a \in Nat, NEW d \in Nat \ {0}, NEW k \in 1 .. (a \div d)
  PROVE  k * d \in Nat /\ k * d <= a
<1>1. a \div d \in Nat /\ (a \div d) * d <= a
  OBVIOUS
<1>2. k * d <= (a \div d) * d
  BY <1>1
<1> QED BY <1>1, <1>2

\* The gap between two places is a natural, no longer than the line.
LEMMA GapIs ==
  ASSUME NEW a \in Places, NEW b \in Places
  PROVE  Gap(a, b) \in Nat /\ Gap(a, b) <= LineEnd
BY DEF Gap

\* A route is planned along the line.
LEMMA WaypointsAre ==
  ASSUME NEW from \in Places, NEW to \in Places
  PROVE  Waypoints(from, to) \in Seq(Places)
<1> DEFINE n == Gap(from, to) \div SegmentLength
           sign == IF from < to THEN 1 ELSE -1
           cut == [k \in 1 .. n |-> from + sign * k * SegmentLength]
           kept == IF n > 0 /\ 2 * Gap(cut[n], to) < SegmentLength THEN n - 1 ELSE n
<1>1. SegmentLength \in Nat \ {0} /\ Gap(from, to) \in Nat
  BY GapIs
<1>2. n \in Nat
  BY <1>1
<1>3. ASSUME NEW k \in 1 .. n PROVE cut[k] \in Places
  <2>1. k * SegmentLength \in Nat /\ k * SegmentLength <= Gap(from, to)
    BY <1>1, Cut
  <2>2. CASE from < to
    BY <2>1, <2>2 DEF Gap
  <2>3. CASE ~(from < to)
    <3>1. sign * k * SegmentLength = -(k * SegmentLength)
      BY <1>1, <2>3
    <3>2. Gap(from, to) = from - to
      BY <2>3 DEF Gap
    <3>3. ASSUME NEW x \in Nat, x <= from - to PROVE from - x \in Places
      BY <3>3
    <3>4. from - k * SegmentLength \in Places
      BY <2>1, <3>2, <3>3
    <3>5. cut[k] = from + sign * k * SegmentLength
      OBVIOUS
    <3>6. \A x \in Int : from + (-x) = from - x
      OBVIOUS
    <3> HIDE DEF cut, sign, n
    <3> QED BY <2>1, <3>1, <3>4, <3>5, <3>6
  <2> QED BY <2>2, <2>3
<1>4. kept \in 0 .. n
  BY <1>2
<1> HIDE DEF n, kept, cut
<1>5. SubSeq(cut, 1, kept) \in Seq(Places)
  BY <1>2, <1>3, <1>4, SubSeqProperties
<1>6. Waypoints(from, to) = Append(SubSeq(cut, 1, kept), to)
  BY DEF Waypoints, n, kept, cut
<1> QED BY <1>5, <1>6, AppendProperties

\* What is left of a sequence, and a sequence with one element before it.
LEMMA RestOf ==
  ASSUME NEW S, NEW s \in Seq(S), NEW m \in Nat, m <= Len(s)
  PROVE  LET r == SubSeq(s, m + 1, Len(s))
         IN  /\ r \in Seq(S) /\ Len(r) = Len(s) - m
             /\ \A i \in 1 .. Len(r) : r[i] = s[m + i]
<1> DEFINE a == m + 1
           n == Len(s)
           r == SubSeq(s, a, n)
<1>1. a \in Int /\ a = m + 1 /\ n \in Nat /\ a <= n + 1 /\ m \in Nat
  BY LenProperties
<1>2. \A i \in a .. n : s[i] \in S
  BY <1>1, ElementOfSeq
<1> HIDE DEF a, n, r
<1>3. /\ r \in Seq(S) /\ Len(r) = (IF a <= n THEN n - a + 1 ELSE 0)
      /\ \A i \in 1 .. n - a + 1 : r[i] = s[a + i - 1]
  BY <1>1, <1>2, SubSeqProperties DEF r
<1>4. Len(r) = n - m
  BY <1>1, <1>3
<1>5. ASSUME NEW i \in 1 .. Len(r) PROVE r[i] = s[m + i]
  <2>1. i \in 1 .. n - a + 1 /\ a + i - 1 = m + i
    BY <1>1, <1>4
  <2> QED BY <1>3, <2>1
<1> QED BY <1>3, <1>4, <1>5 DEF a, n, r

\* An element put before a sequence moves the others up by one.
LEMMA AfterOne ==
  ASSUME NEW S, NEW e \in S, NEW s \in Seq(S)
  PROVE  LET r == <<e>> \o s
         IN  /\ r \in Seq(S) /\ Len(r) = Len(s) + 1
             /\ \A i \in 1 .. Len(s) : r[i + 1] = s[i]
<1> DEFINE one == <<e>>
           r == one \o s
<1>1. one \in Seq(S) /\ Len(one) = 1
  OBVIOUS
<1> HIDE DEF one, r
<1>2. /\ r \in Seq(S) /\ Len(r) = 1 + Len(s)
      /\ \A i \in 1 .. 1 + Len(s) : r[i] = IF i <= 1 THEN one[i] ELSE s[i - 1]
  <2>1. /\ r \in Seq(S) /\ Len(r) = Len(one) + Len(s)
        /\ \A i \in 1 .. Len(one) + Len(s) :
             r[i] = IF i <= Len(one) THEN one[i] ELSE s[i - Len(one)]
    BY <1>1, ConcatProperties, Zenon DEF r
  <2> QED BY <1>1, <2>1, Zenon
<1>3. Len(s) \in Nat
  BY LenProperties
<1>4. ASSUME NEW i \in 1 .. Len(s) PROVE r[i + 1] = s[i]
  <2>1. i + 1 \in 1 .. 1 + Len(s) /\ ~(i + 1 <= 1) /\ (i + 1) - 1 = i
    BY <1>3
  <2> QED BY <1>2, <2>1
<1> QED BY <1>2, <1>3, <1>4 DEF r, one

-----------------------------------------------------------------------------
(* Segments and plans.                                                      *)

\* A segment with a route has its two waypoints.
RoutedSegments == {s \in Segments : Calculated(s) => s.waypoints # <<>>}
Plans == Seq(RoutedSegments)

\* A new segment is a routed segment without a route.
LEMMA SegmentIs ==
  ASSUME NEW from \in Places, NEW to \in Places
  PROVE  Segment(from, to) \in RoutedSegments /\ ~Calculated(Segment(from, to))
BY DEF Segment, RoutedSegments, Segments, Calculated

\* The segment of a route that was walked is a routed segment.
LEMMA WalkedIs == Walked \in RoutedSegments
<1>1. 0 \in Places
  OBVIOUS
<1>2. Segment(0, 0) \in Segments
  BY <1>1 DEF Segment, Segments
<1>3. Walked \in Segments /\ ~Calculated(Walked)
  BY <1>2 DEF Walked, Segments, Calculated
<1> QED BY <1>3 DEF RoutedSegments

\* An invalidated segment is not calculated.
LEMMA InvalidIs ==
  ASSUME NEW s \in RoutedSegments
  PROVE  Invalid(s) \in RoutedSegments /\ ~Calculated(Invalid(s))
BY DEF Invalid, RoutedSegments, Segments, Calculated

\* A calculated segment has waypoints that are places.
LEMMA RouteOf ==
  ASSUME NEW s \in RoutedSegments, Calculated(s)
  PROVE  /\ s.waypoints \in Places \X Places
         /\ Len(s.waypoints) = 2
         /\ s.waypoints[1] \in Places /\ s.waypoints[2] \in Places
<1>1. s.waypoints \in Places \X Places
  BY DEF RoutedSegments, Segments
<1>2. PICK a \in Places, b \in Places : s.waypoints = <<a, b>>
  BY <1>1
<1> QED BY <1>1, <1>2

\* Waypoints on the line make a plan.
LEMMA PlanFromIs ==
  ASSUME NEW from \in Places, NEW waypoints \in Seq(Places)
  PROVE  PlanFrom(from, waypoints) \in Plans
<1> DEFINE e(i) == Segment(IF i = 1 THEN from ELSE waypoints[i - 1], waypoints[i])
<1>1. Len(waypoints) \in Nat
  BY LenProperties
<1>2. ASSUME NEW i \in 1 .. Len(waypoints) PROVE e(i) \in RoutedSegments
  <2>1. waypoints[i] \in Places
    BY ElementOfSeq
  <2>2. ASSUME i # 1 PROVE waypoints[i - 1] \in Places
    <3>1. i - 1 \in 1 .. Len(waypoints)
      BY <1>1, <2>2
    <3> QED BY <3>1, ElementOfSeq
  <2> QED BY <2>1, <2>2, SegmentIs
<1>3. PlanFrom(from, waypoints) = [i \in 1 .. Len(waypoints) |-> e(i)]
  BY DEF PlanFrom
<1> HIDE DEF e
<1> QED BY <1>1, <1>2, <1>3, IsASeq DEF Plans

-----------------------------------------------------------------------------
(* The inner state.                                                         *)

Answer == [outcome : {"Complete", "Partial", "Unreachable"}, last : Places]
Searches == [index : Nat \ {0}, from : Places, to : Places, result : Answer \cup {None}]
Failures == {"NoRoute", "NoWorldData", "Movement", "Stuck"}

Trips ==
  [state : NavigationStates, destination : Places \cup {None}, plan : Plans, current : Nat,
   search : Searches \cup {None}, failed : 0 .. MaxReplans + 1, waypoint : 1 .. 2,
   submitted : BOOLEAN, failure : Failures \cup {None}]

Shape(t) == t \in Trips /\ t.current <= Len(t.plan)

\* Who is under way knows where to, and has replans left.
UnderWay(t) == t.destination \in Places /\ t.failed <= MaxReplans

\* While a segment is followed it has its route, and a search can only be for the
\* segment after it, which has none yet.
Follower(t) ==
  /\ ~Finished(t) => Calculated(Current(t))
  /\ t.submitted => ~Finished(t)
  /\ t.search # None => /\ t.search.index = t.current + 2
                        /\ t.search.index <= Len(t.plan)
                        /\ ~Calculated(t.plan[t.search.index])

Sound(t) ==
  /\ Shape(t)
  /\ t.state \in ActiveStates => UnderWay(t)
  /\ t.state \notin ActiveStates => t.search = None
  /\ t.state = "FollowingSegment" => Follower(t)

USE DEF NavigationStates, ActiveStates

\* What the shape of a trip says of its fields.
LEMMA ShapeFacts ==
  ASSUME NEW t, Shape(t)
  PROVE  /\ t.plan \in Plans /\ t.current \in Nat /\ Len(t.plan) \in Nat
         /\ DOMAIN t.plan = 1 .. Len(t.plan)
         /\ \A i \in 1 .. Len(t.plan) : t.plan[i] \in RoutedSegments
         /\ CurrentNumber(t) \in 0 .. Len(t.plan)
         /\ ~Finished(t) => /\ t.current + 1 \in 1 .. Len(t.plan)
                            /\ CurrentNumber(t) = t.current + 1
                            /\ Current(t) \in RoutedSegments
         /\ Finished(t) => t.current = Len(t.plan) /\ CurrentNumber(t) = Len(t.plan)
<1>1. t.plan \in Plans /\ t.current \in Nat /\ t.current <= Len(t.plan)
  BY DEF Shape, Trips
<1>2. Len(t.plan) \in Nat /\ DOMAIN t.plan = 1 .. Len(t.plan)
  BY <1>1, LenProperties DEF Plans
<1>3. \A i \in 1 .. Len(t.plan) : t.plan[i] \in RoutedSegments
  BY <1>1, ElementOfSeq DEF Plans
<1>4. CASE Finished(t)
  <2>1. t.current = Len(t.plan) /\ CurrentNumber(t) = Len(t.plan)
    BY <1>1, <1>2, <1>4 DEF CurrentNumber, Finished
  <2> QED BY <1>1, <1>2, <1>3, <1>4, <2>1
<1>5. CASE ~Finished(t)
  <2>1. t.current + 1 \in 1 .. Len(t.plan) /\ CurrentNumber(t) = t.current + 1
    BY <1>1, <1>2, <1>5 DEF CurrentNumber, Finished
  <2>2. Current(t) \in RoutedSegments
    BY <1>3, <2>1 DEF Current
  <2>3. CurrentNumber(t) \in 0 .. Len(t.plan)
    BY <1>2, <2>1
  <2> QED BY <1>1, <1>2, <1>3, <1>5, <2>1, <2>2, <2>3
<1> QED BY <1>4, <1>5

\* A new follower has submitted nothing.
LEMMA NewFollowerIs ==
  ASSUME NEW t \in Trips
  PROVE  /\ NewFollower(t) \in Trips
         /\ NewFollower(t).submitted = FALSE
         /\ NewFollower(t).state = t.state /\ NewFollower(t).plan = t.plan
         /\ NewFollower(t).current = t.current /\ NewFollower(t).search = t.search
         /\ NewFollower(t).failed = t.failed
         /\ NewFollower(t).destination = t.destination
<1> DEFINE one == [t EXCEPT !.waypoint = 1]
           both == [one EXCEPT !.submitted = FALSE]
<1>1. one \in Trips
  BY DEF Trips
<1>2. both \in Trips
  BY <1>1 DEF Trips
<1>3. NewFollower(t) = both
  BY DEF NewFollower
<1>4. both.submitted = FALSE
  BY DEF Trips
<1>5. /\ both.state = t.state /\ both.plan = t.plan
      /\ both.current = t.current /\ both.search = t.search
      /\ both.failed = t.failed /\ both.destination = t.destination
  OBVIOUS
<1> QED BY <1>2, <1>3, <1>4, <1>5

\* Recalculating begins without a walk submitted.
LEMMA EnterRecalculatingIs ==
  ASSUME NEW t \in Trips
  PROVE  /\ EnterRecalculating(t) \in Trips
         /\ EnterRecalculating(t).submitted = FALSE
         /\ EnterRecalculating(t).state = "Recalculating"
         /\ EnterRecalculating(t).plan = t.plan
         /\ EnterRecalculating(t).current = t.current
         /\ EnterRecalculating(t).search = t.search
         /\ EnterRecalculating(t).failed = t.failed
         /\ EnterRecalculating(t).destination = t.destination
<1> DEFINE r == [t EXCEPT !.state = "Recalculating"]
<1>1. r \in Trips /\ r.state = "Recalculating"
  BY DEF Trips
<1>2. /\ r.plan = t.plan /\ r.current = t.current /\ r.search = t.search
      /\ r.failed = t.failed /\ r.destination = t.destination
  OBVIOUS
<1>3. EnterRecalculating(t) = NewFollower(r)
  BY DEF EnterRecalculating
<1> HIDE DEF r
<1>4. /\ NewFollower(r) \in Trips /\ NewFollower(r).submitted = FALSE
      /\ NewFollower(r).state = r.state /\ NewFollower(r).plan = r.plan
      /\ NewFollower(r).current = r.current /\ NewFollower(r).search = r.search
      /\ NewFollower(r).failed = r.failed /\ NewFollower(r).destination = r.destination
  BY <1>1, NewFollowerIs
<1> QED BY <1>1, <1>2, <1>3, <1>4

\* A failed trip is sound.
LEMMA FailIs ==
  ASSUME NEW t, Shape(t), NEW why \in Failures
  PROVE  Sound(Fail(t, why)) /\ Fail(t, why).state = "Failed"
BY DEF Fail, Sound, Shape, Trips

\* A plan rebuilt from here keeps the cursor within it.
LEMMA RebuildIs ==
  ASSUME NEW t, Shape(t), UnderWay(t), bot \in Places
  PROVE  Sound(Rebuild(t)) /\ Rebuild(t).state = "Recalculating"
<1> DEFINE walked == IF t.plan = <<>> THEN 0 ELSE CurrentNumber(t) - 1
           tail == PlanFrom(bot, Waypoints(bot, t.destination))
           plan == SubSeq(t.plan, 1, walked) \o tail
           r == ReplaceTail(t, walked, bot, Waypoints(bot, t.destination))
<1>1. tail \in Plans
  BY WaypointsAre, PlanFromIs DEF UnderWay
<1>2. walked \in Int /\ walked <= Len(t.plan)
  BY ShapeFacts
<1>3. SubSeq(t.plan, 1, walked) \in Plans
  <2>1. \A i \in 1 .. walked : t.plan[i] \in RoutedSegments
    BY <1>2, ShapeFacts
  <2> HIDE DEF walked
  <2> QED BY <1>2, <2>1, SubSeqProperties DEF Plans
<1>4. plan \in Plans
  <2> HIDE DEF walked, tail
  <2> QED BY <1>1, <1>3, ConcatProperties DEF Plans
<1>5. Len(plan) \in Nat
  <2> HIDE DEF plan
  <2> QED BY <1>4, LenProperties DEF Plans
<1> HIDE DEF walked, plan
<1> DEFINE current == IF t.current <= Len(plan) THEN t.current ELSE Len(plan)
           half == [t EXCEPT !.plan = plan]
<1>6. r = [half EXCEPT !.current = current]
  BY DEF ReplaceTail, plan
<1>7. current \in Nat /\ current <= Len(plan)
  BY <1>5 DEF Shape, Trips
<1>8. half \in Trips /\ half.plan = plan
  BY <1>4 DEF Shape, Trips
<1>9. half.failed = t.failed /\ half.destination = t.destination
  OBVIOUS
<1>10. r \in Trips /\ r.current = current
  BY <1>6, <1>7, <1>8 DEF Trips
<1>11. r.plan = plan /\ r.failed = t.failed /\ r.destination = t.destination
  BY <1>6, <1>8, <1>9
<1>12. Rebuild(t) = EnterRecalculating(r)
  BY DEF Rebuild, walked
<1> HIDE DEF r, current
<1> QED BY <1>7, <1>10, <1>11, <1>12, EnterRecalculatingIs DEF Sound, Shape, UnderWay

-----------------------------------------------------------------------------
(* The search.                                                              *)

\* What the helpers leave behind when they are called with no segment followed:
\* a segment is followed afterwards only from its beginning.
Afresh(t) ==
  /\ Sound(t)
  /\ t.state \in {"Planning", "Recalculating", "FollowingSegment", "Failed"}
  /\ t.state = "FollowingSegment" => ~t.submitted

\* The places a search answers with are on the line.
LEMMA AnswersAre ==
  ASSUME NEW q \in Searches PROVE Answers(q) \subseteq Answer
<1> DEFINE toward == IF q.from < q.to THEN q.to - SegmentRadius ELSE q.to + SegmentRadius
           reached == IF Gap(q.from, q.to) <= SegmentRadius THEN q.from ELSE toward
<1>1. q.from \in Places /\ q.to \in Places
  BY DEF Searches
<1>2. reached \in Places
  BY <1>1 DEF Gap
<1> HIDE DEF reached
<1> SUFFICES ASSUME NEW a \in Answers(q) PROVE a \in Answer
  OBVIOUS
<1>3. \/ a = [outcome |-> "Complete", last |-> reached]
      \/ a = [outcome |-> "Unreachable", last |-> q.from]
      \/ \E p \in Places : a = [outcome |-> "Partial", last |-> p]
  BY DEF Answers, reached
<1> QED BY <1>1, <1>2, <1>3 DEF Answer

\* A segment to which an answer is applied is calculated.
LEMMA ApplyPathIs ==
  ASSUME NEW segment \in RoutedSegments, NEW q \in Searches, q.result \in Answer
  PROVE  /\ ApplyPath(segment, q) \in RoutedSegments
         /\ Calculated(ApplyPath(segment, q))
<1> DEFINE r == ApplyPath(segment, q)
<1>1. q.from \in Places /\ q.result.last \in Places
  BY DEF Searches, Answer
<1> DEFINE ways == <<q.from, q.result.last>>
           partial == q.result.outcome # "Complete"
           a == [segment EXCEPT !.waypoints = ways]
           b == [a EXCEPT !.end = q.result.last]
           c == [b EXCEPT !.partial = partial]
           d == [c EXCEPT !.state = "Calculated"]
<1>2. ways \in Places \X Places /\ ways # <<>> /\ partial \in BOOLEAN
  BY <1>1
<1>3. r = d
  BY DEF ApplyPath
<1> HIDE DEF ways, partial
<1>4. a \in Segments /\ a.waypoints = ways
  BY <1>2 DEF RoutedSegments, Segments
<1>5. b \in Segments /\ b.waypoints = ways
  BY <1>1, <1>4 DEF Segments
<1>6. c \in Segments /\ c.waypoints = ways
  BY <1>2, <1>5 DEF Segments
<1>7. d \in Segments /\ d.waypoints = ways /\ d.state = "Calculated"
  BY <1>6 DEF Segments
<1> QED BY <1>2, <1>3, <1>7 DEF RoutedSegments, Calculated

\* A tick that adopts an answer leaves the trip afresh.
LEMMA ApplyFinishedIs ==
  ASSUME NEW t, Shape(t), UnderWay(t), bot \in Places, Answered(t),
         t.state \in {"Planning", "Recalculating"}
  PROVE  Afresh(ApplyFinished(t))
<1> DEFINE search == t.search
           idle == [t EXCEPT !.search = None]
           worse == [idle EXCEPT !.failed = t.failed + 1]
           segment == ApplyPath(t.plan[search.index], search)
           plan == [t.plan EXCEPT ![search.index] = segment]
           applied == [idle EXCEPT !.plan[search.index] = ApplyPath(@, search), !.failed = 0]
           followed == NewFollower([applied EXCEPT !.state = "FollowingSegment"])
<1>1. search \in Searches /\ search.result \in Answer /\ search.index \in Nat
  BY DEF Answered, Shape, Trips, Searches
<1>2. /\ idle \in Trips /\ Shape(idle) /\ UnderWay(idle) /\ idle.search = None
      /\ idle.state = t.state
  BY DEF Shape, Trips, UnderWay
<1>3. Afresh(idle)
  BY <1>2 DEF Afresh, Sound
<1>4. CASE ~Usable(search)
  <2>0. t.failed + 1 \in 0 .. MaxReplans + 1
    BY DEF Shape, Trips, UnderWay
  <2>1. worse \in Trips /\ worse.plan = idle.plan /\ worse.current = idle.current
    BY <1>2, <2>0 DEF Trips
  <2>2. Shape(worse)
    BY <1>2, <2>1 DEF Shape
  <2>3. CASE t.failed >= MaxReplans
    <3>0. ~(t.failed < MaxReplans)
      BY <2>3 DEF Shape, Trips
    <3>1. ApplyFinished(t) = Fail(worse, "NoRoute")
      BY <1>4, <2>3, <3>0, Zenon DEF ApplyFinished
    <3> HIDE DEF worse
    <3> QED BY <2>2, <3>1, FailIs DEF Afresh, Failures
  <2>4. CASE ~(t.failed >= MaxReplans)
    <3>1. t.failed < MaxReplans /\ t.failed \in Nat
      BY <2>4 DEF Shape, Trips
    <3>2. ApplyFinished(t) = Rebuild(worse)
      BY <1>4, <2>4, <3>1, Zenon DEF ApplyFinished
    <3>3. UnderWay(worse)
      BY <1>2, <3>1 DEF UnderWay, Trips
    <3> HIDE DEF worse
    <3> QED BY <2>2, <3>2, <3>3, RebuildIs DEF Afresh
  <2> QED BY <2>3, <2>4
<1>5. CASE Usable(search) /\ search.index \notin DOMAIN t.plan
  <2>1. ApplyFinished(t) = idle
    BY <1>5 DEF ApplyFinished
  <2> QED BY <1>3, <2>1
<1>6. CASE Usable(search) /\ search.index \in DOMAIN t.plan
  <2>1. search.index \in 1 .. Len(t.plan) /\ t.plan[search.index] \in RoutedSegments
    BY <1>6, ShapeFacts
  <2>2. segment \in RoutedSegments /\ Calculated(segment)
    BY <1>1, <2>1, ApplyPathIs
  <2> HIDE DEF segment
  <2>3. plan \in Plans /\ Len(plan) = Len(t.plan) /\ plan[search.index] = segment
    BY <2>1, <2>2, ExceptSeq DEF Plans, Shape, Trips
  <2> DEFINE half == [idle EXCEPT !.plan = plan]
  <2>4. applied = [half EXCEPT !.failed = 0]
    BY DEF segment
  <2> HIDE DEF plan, applied
  <2>5. half \in Trips /\ half.plan = plan
    BY <1>2, <2>3 DEF Trips
  <2>6. applied \in Trips /\ applied.failed = 0 /\ applied.plan = plan
    <3>1. 0 \in 0 .. MaxReplans + 1
      OBVIOUS
    <3> HIDE DEF half
    <3> QED BY <2>4, <2>5, <3>1 DEF Trips
  <2>7. /\ applied.current = t.current /\ applied.state = t.state /\ applied.search = None
        /\ applied.destination = t.destination
    BY <1>2, <2>4
  <2>8. Shape(applied) /\ UnderWay(applied)
    BY <2>3, <2>6, <2>7 DEF Shape, UnderWay
  <2>9. CASE CurrentNumber(t) = search.index
    <3> DEFINE entering == [applied EXCEPT !.state = "FollowingSegment"]
    <3>1. /\ entering \in Trips /\ entering.state = "FollowingSegment"
          /\ entering.plan = plan /\ entering.current = t.current
          /\ entering.search = None /\ entering.failed = applied.failed
          /\ entering.destination = t.destination
      BY <2>6, <2>7 DEF Trips
    <3>2. followed = NewFollower(entering)
      OBVIOUS
    <3> HIDE DEF entering, followed
    <3>3. /\ followed \in Trips /\ ~followed.submitted /\ followed.state = "FollowingSegment"
          /\ followed.plan = plan /\ followed.current = t.current
          /\ followed.search = None /\ followed.failed = 0
          /\ followed.destination = t.destination
      BY <2>6, <3>1, <3>2, NewFollowerIs
    <3>4. Shape(followed) /\ UnderWay(followed)
      BY <2>3, <3>3 DEF Shape, UnderWay
    <3>5. ~Finished(followed) => Calculated(Current(followed))
      <4>1. ~Finished(followed) => ~Finished(t)
        BY <2>3, <3>3 DEF Finished
      <4>2. ~Finished(t) => t.current + 1 = search.index
        BY <2>9, ShapeFacts
      <4> QED BY <2>2, <2>3, <3>3, <4>1, <4>2 DEF Current
    <3>6. Sound(followed)
      BY <3>3, <3>4, <3>5 DEF Sound, Follower
    <3>7. ApplyFinished(t) = followed
      BY <1>6, <2>9 DEF ApplyFinished, applied, followed, entering
    <3> QED BY <3>3, <3>6, <3>7 DEF Afresh
  <2>10. CASE CurrentNumber(t) # search.index
    <3>1. ApplyFinished(t) = applied
      BY <1>6, <2>10 DEF ApplyFinished, applied
    <3> QED BY <2>7, <2>8, <3>1 DEF Afresh, Sound
  <2> QED BY <2>9, <2>10
<1> QED BY <1>4, <1>5, <1>6

\* A segment that is asked for is one of the plan.
LEMMA AskIs ==
  ASSUME NEW t, Shape(t), bot \in Places, NEW prefetch \in BOOLEAN,
         SearchTarget(t, prefetch) # 0
  PROVE  /\ SearchTarget(t, prefetch) \in 1 .. Len(t.plan)
         /\ ~Calculated(t.plan[SearchTarget(t, prefetch)])
         /\ Ask(t, SearchTarget(t, prefetch), prefetch) \in Searches
         /\ Ask(t, SearchTarget(t, prefetch), prefetch).index = SearchTarget(t, prefetch)
         /\ Ask(t, SearchTarget(t, prefetch), prefetch).result = None
<1> DEFINE index == SearchTarget(t, prefetch)
<1>1. index \in DOMAIN t.plan /\ ~Calculated(t.plan[index])
  BY DEF SearchTarget
<1>2. index \in 1 .. Len(t.plan) /\ t.plan[index] \in RoutedSegments
  BY <1>1, ShapeFacts
<1>3. t.plan[index].start \in Places /\ t.plan[index].end \in Places
  BY <1>2 DEF RoutedSegments, Segments
<1>4. index \in Nat \ {0}
  BY <1>2, ShapeFacts
<1> HIDE DEF index
<1> QED BY <1>1, <1>2, <1>3, <1>4 DEF Ask, Searches, index

\* Driving the planner leaves the trip afresh.
LEMMA DriveIs ==
  ASSUME NEW t, Shape(t), UnderWay(t), bot \in Places,
         t.state \in {"Planning", "Recalculating"}, NEW sample \in Samples
  PROVE  Afresh(Drive(t, FALSE, sample))
<1> DEFINE index == SearchTarget(t, FALSE)
           ask == Ask(t, index, FALSE)
           started == [t EXCEPT !.search = ask]
           worse == [t EXCEPT !.failed = t.failed + 1]
<1>1. CASE Answered(t)
  BY <1>1, ApplyFinishedIs DEF Drive
<1>2. Afresh(t)
  BY DEF Afresh, Sound
<1>3. CASE ~Answered(t) /\ (t.search # None \/ index = 0)
  <2>1. Drive(t, FALSE, sample) = t
    BY <1>3 DEF Drive
  <2> QED BY <1>2, <2>1
<1>4. CASE ~Answered(t) /\ ~(t.search # None \/ index = 0)
  <2>1. CASE sample = "terrain"
    <3>1. Drive(t, FALSE, sample) = started
      BY <1>4, <2>1 DEF Drive
    <3>2. ask \in Searches
      BY <1>4, AskIs
    <3> HIDE DEF ask
    <3>3. /\ started \in Trips /\ started.plan = t.plan /\ started.current = t.current
          /\ started.state = t.state /\ started.destination = t.destination
          /\ started.failed = t.failed
      BY <3>2 DEF Shape, Trips
    <3> HIDE DEF started
    <3> QED BY <3>1, <3>3 DEF Afresh, Sound, Shape, UnderWay
  <2>2. CASE sample = "nothing"
    <3>0. t.failed + 1 \in 0 .. MaxReplans + 1
      <4>1. t.failed \in 0 .. MaxReplans + 1 /\ t.failed <= MaxReplans
        BY DEF Shape, Trips, UnderWay
      <4> QED BY <4>1
    <3>1. /\ worse \in Trips /\ worse.plan = t.plan /\ worse.current = t.current
          /\ worse.state = t.state /\ worse.destination = t.destination
          /\ worse.failed = t.failed + 1 /\ worse.search = t.search
      BY <3>0 DEF Shape, Trips
    <3>2. Shape(worse)
      BY <3>1 DEF Shape
    <3>3. Drive(t, FALSE, sample)
            = IF t.failed >= MaxReplans THEN Fail(worse, "NoWorldData") ELSE worse
      BY <1>4, <2>2 DEF Drive
    <3> HIDE DEF worse
    <3>4. CASE t.failed >= MaxReplans
      BY <3>2, <3>3, <3>4, FailIs DEF Afresh, Failures
    <3>5. CASE ~(t.failed >= MaxReplans)
      <4>1. UnderWay(worse)
        BY <3>1, <3>5 DEF UnderWay, Shape, Trips
      <4> QED BY <3>1, <3>2, <3>3, <3>5, <4>1 DEF Afresh, Sound
    <3> QED BY <3>4, <3>5
  <2>3. CASE sample = "error"
    <3>1. Drive(t, FALSE, sample) = Fail(t, "Movement")
      BY <1>4, <2>3 DEF Drive
    <3> QED BY <3>1, FailIs DEF Afresh, Failures
  <2> QED BY <2>1, <2>2, <2>3 DEF Samples
<1> QED BY <1>1, <1>3, <1>4

\* A prefetch asks for the segment after the one that is followed, or nothing.
LEMMA PrefetchedIs ==
  ASSUME NEW t, Sound(t), t.state = "FollowingSegment", ~Finished(t), bot \in Places,
         NEW sample \in Samples
  PROVE  /\ Sound(Prefetched(t, sample))
         /\ Prefetched(t, sample).state = "FollowingSegment"
         /\ Prefetched(t, sample).plan = t.plan
         /\ Prefetched(t, sample).current = t.current
         /\ Prefetched(t, sample).waypoint = t.waypoint
         /\ Prefetched(t, sample).submitted = t.submitted
<1> DEFINE index == SearchTarget(t, TRUE)
           ask == Ask(t, index, TRUE)
           started == [t EXCEPT !.search = ask]
<1>1. CASE Prefetched(t, sample) = t
  BY <1>1
<1>2. CASE Prefetched(t, sample) # t
  <2>1. t.search = None /\ index # 0 /\ Prefetched(t, sample) = Drive(t, TRUE, sample)
    BY <1>2 DEF Prefetched
  <2>2. Drive(t, TRUE, sample) = started
    <3>1. ~Answered(t)
      BY <2>1 DEF Answered
    <3>2. index # 0 /\ t.search = None
      BY <2>1
    <3>3. sample = "terrain"
      <4>1. ASSUME sample = "nothing" PROVE FALSE
        <5>1. Drive(t, TRUE, sample) = t
          BY <3>1, <3>2, <4>1, Zenon DEF Drive
        <5> QED BY <1>2, <2>1, <5>1
      <4>2. ASSUME sample = "error" PROVE FALSE
        <5>1. Drive(t, TRUE, sample) = t
          BY <3>1, <3>2, <4>2, Zenon DEF Drive
        <5> QED BY <1>2, <2>1, <5>1
      <4> QED BY <4>1, <4>2 DEF Samples
    <3> QED BY <3>1, <3>2, <3>3, Zenon DEF Drive
  <2>3. Shape(t) /\ UnderWay(t) /\ Follower(t)
    BY DEF Sound
  <2>4. /\ index \in 1 .. Len(t.plan) /\ ~Calculated(t.plan[index])
        /\ ask \in Searches /\ ask.index = index
    BY <2>1, <2>3, AskIs
  <2>5. index = t.current + 2
    <3>1. CurrentNumber(t) = t.current + 1 /\ t.current \in Nat
      BY <2>3, ShapeFacts
    <3> QED BY <2>1, <3>1 DEF SearchTarget
  <2> HIDE DEF ask, index
  <2>6. /\ started \in Trips /\ started.plan = t.plan /\ started.current = t.current
        /\ started.state = t.state /\ started.destination = t.destination
        /\ started.failed = t.failed /\ started.search = ask
        /\ started.waypoint = t.waypoint /\ started.submitted = t.submitted
    BY <2>3, <2>4 DEF Shape, Trips
  <2> HIDE DEF started
  <2>7. Shape(started) /\ UnderWay(started)
    BY <2>3, <2>6 DEF Shape, UnderWay
  <2>8. Follower(started)
    <3>1. Finished(started) = Finished(t) /\ Current(started) = Current(t)
      BY <2>6 DEF Finished, Current
    <3>2. started.search.index <= Len(started.plan)
      BY <2>3, <2>4, <2>6, ShapeFacts
    <3> QED BY <2>3, <2>4, <2>5, <2>6, <3>1, <3>2 DEF Follower
  <2> QED BY <2>1, <2>2, <2>6, <2>7, <2>8 DEF Sound
<1> QED BY <1>1, <1>2

-----------------------------------------------------------------------------
(* The plan under way.                                                      *)

\* The completed segments are cut off, and the search is for the same segment.
LEMMA AdvancedIs ==
  ASSUME NEW t, Sound(t), t.state = "FollowingSegment", ~Finished(t)
  PROVE  LET a == Advanced(t)
         IN  /\ Shape(a) /\ UnderWay(a) /\ a.state = "FollowingSegment"
             /\ a.search # None => ~Finished(a) /\ ~Calculated(Current(a))
<1> DEFINE cut == t.current
           rest == SubSeq(t.plan, cut + 2, Len(t.plan))
           plan == <<Walked>> \o rest
           search == IF t.search = None THEN None ELSE [t.search EXCEPT !.index = @ - cut]
           one == [t EXCEPT !.plan = plan]
           two == [one EXCEPT !.current = 1]
           a == [two EXCEPT !.search = search]
<1>1. Shape(t) /\ UnderWay(t) /\ Follower(t)
  BY DEF Sound
<1>2. /\ cut \in Nat /\ Len(t.plan) \in Nat /\ cut + 1 <= Len(t.plan)
      /\ t.plan \in Plans /\ \A i \in 1 .. Len(t.plan) : t.plan[i] \in RoutedSegments
      /\ t.search \in Searches \cup {None}
  <2>1. cut \in Nat /\ Len(t.plan) \in Nat /\ cut + 1 \in 1 .. Len(t.plan)
    BY <1>1, ShapeFacts
  <2>2. t.plan \in Plans /\ \A i \in 1 .. Len(t.plan) : t.plan[i] \in RoutedSegments
    BY <1>1, ShapeFacts
  <2>3. t.search \in Searches \cup {None}
    BY <1>1 DEF Shape, Trips
  <2>4. cut + 1 <= Len(t.plan)
    BY <2>1
  <2> HIDE DEF cut
  <2> QED BY <2>1, <2>2, <2>3, <2>4
<1>3. /\ rest \in Plans /\ Len(rest) = Len(t.plan) - cut - 1
      /\ \A i \in 1 .. Len(rest) : rest[i] = t.plan[cut + 1 + i]
  <2> DEFINE m == cut + 1
             p == t.plan
             r == SubSeq(p, m + 1, Len(p))
  <2>1. m \in Nat /\ m <= Len(p) /\ p \in Seq(RoutedSegments)
    BY <1>2 DEF Plans
  <2>2. m + 1 = cut + 2 /\ Len(p) - m = Len(p) - cut - 1
    <3>1. cut \in Nat /\ Len(p) \in Nat
      BY <1>2
    <3> HIDE DEF cut, p
    <3> QED BY <3>1
  <2>3. r = rest
    BY <2>2
  <2> HIDE DEF m, p
  <2>4. /\ r \in Seq(RoutedSegments) /\ Len(r) = Len(p) - m
        /\ \A i \in 1 .. Len(r) : r[i] = p[m + i]
    BY <2>1, RestOf
  <2> HIDE DEF r, rest
  <2> QED BY <2>2, <2>3, <2>4 DEF Plans, p, m
<1>4. /\ plan \in Plans /\ Len(plan) = Len(t.plan) - cut
      /\ \A i \in 1 .. Len(rest) : plan[i + 1] = t.plan[cut + 1 + i]
  <2> HIDE DEF rest
  <2>1. /\ plan \in Seq(RoutedSegments) /\ Len(plan) = Len(rest) + 1
        /\ \A i \in 1 .. Len(rest) : plan[i + 1] = rest[i]
    BY <1>3, WalkedIs, AfterOne DEF Plans
  <2> HIDE DEF plan, cut
  <2>2. Len(rest) + 1 = Len(t.plan) - cut
    BY <1>2, <1>3
  <2> QED BY <1>3, <2>1, <2>2 DEF Plans
<1>5. search \in Searches \cup {None} /\ (search # None => t.search # None)
  <2>1. CASE t.search # None
    <3>1. t.search \in Searches /\ t.search.index = cut + 2
      BY <1>1, <1>2, <2>1 DEF Follower
    <3>2. t.search.index - cut = 2
      BY <1>2, <3>1
    <3> QED BY <2>1, <3>1, <3>2 DEF Searches
  <2> QED BY <2>1
<1>6. Advanced(t) = a
  BY DEF Advanced
<1> HIDE DEF plan, search, rest, cut
<1>7. one \in Trips /\ one.plan = plan
  BY <1>1, <1>4 DEF Shape, Trips
<1>8. two \in Trips /\ two.plan = plan /\ two.current = 1
  BY <1>7 DEF Trips
<1>9. a \in Trips /\ a.search = search
  BY <1>5, <1>8 DEF Trips
<1>10. /\ a.plan = plan /\ a.current = 1 /\ a.state = t.state
       /\ a.destination = t.destination /\ a.failed = t.failed
  BY <1>8
<1> HIDE DEF one, two, a
<1>11. Shape(a) /\ UnderWay(a)
  BY <1>1, <1>2, <1>4, <1>9, <1>10 DEF Shape, UnderWay
<1>12. ASSUME a.search # None PROVE ~Finished(a) /\ ~Calculated(Current(a))
  <2>1. /\ t.search # None /\ cut + 2 <= Len(t.plan) /\ ~Calculated(t.plan[cut + 2])
    BY <1>1, <1>5, <1>9, <1>12 DEF Follower, cut
  <2>2. 1 \in 1 .. Len(rest)
    <3>1. cut \in Nat /\ Len(t.plan) \in Nat /\ Len(rest) = Len(t.plan) - cut - 1
      BY <1>2, <1>3
    <3> QED BY <2>1, <3>1
  <2>3. plan[2] = t.plan[cut + 2]
    <3>1. plan[1 + 1] = t.plan[cut + 1 + 1]
      BY <1>4, <2>2
    <3>2. 1 + 1 = 2 /\ cut + 1 + 1 = cut + 2
      BY <1>2
    <3> QED BY <3>1, <3>2
  <2> QED BY <1>2, <1>4, <1>10, <2>1, <2>3 DEF Finished, Current
<1> QED BY <1>6, <1>10, <1>11, <1>12

\* Segments keep their place when some of them lose their route.
Thinned(t, u) ==
  /\ u.plan \in Plans /\ Len(u.plan) = Len(t.plan)
  /\ \A i \in 1 .. Len(t.plan) : u.plan[i] = t.plan[i] \/ ~Calculated(u.plan[i])
  /\ u = [t EXCEPT !.plan = u.plan]

\* A trip whose plan lost routes keeps its shape.
LEMMA ThinnedIs ==
  ASSUME NEW t, Shape(t), NEW u, Thinned(t, u)
  PROVE  /\ Shape(u) /\ u.state = t.state /\ u.current = t.current /\ u.search = t.search
         /\ u.failed = t.failed /\ u.destination = t.destination
         /\ u.waypoint = t.waypoint /\ u.submitted = t.submitted
<1> DEFINE p == u.plan
<1>0. u = [t EXCEPT !.plan = p] /\ p \in Plans
  BY DEF Thinned
<1>1. u \in Trips
  BY DEF Thinned, Shape, Trips
<1>2. /\ u.state = t.state /\ u.current = t.current /\ u.search = t.search
      /\ u.failed = t.failed /\ u.destination = t.destination
      /\ u.waypoint = t.waypoint /\ u.submitted = t.submitted
  <2> HIDE DEF p
  <2> QED BY <1>0
<1> QED BY <1>1, <1>2 DEF Thinned, Shape

\* Invalidations only take routes away.
LEMMA InvalidationsAre ==
  ASSUME NEW t, Shape(t), NEW place \in Places, NEW radius \in Nat
  PROVE  Thinned(t, InvalidateNear(t, place, radius)) /\ Thinned(t, InvalidateFromCurrent(t))
<1>1. /\ DOMAIN t.plan = 1 .. Len(t.plan) /\ Len(t.plan) \in Nat
      /\ \A i \in 1 .. Len(t.plan) : t.plan[i] \in RoutedSegments
  BY ShapeFacts
<1> DEFINE near(i) == IF i > t.current /\ PassesNear(t.plan[i], place, radius)
                        THEN Invalid(t.plan[i]) ELSE t.plan[i]
           ahead(i) == IF i > t.current THEN Invalid(t.plan[i]) ELSE t.plan[i]
           n == [i \in 1 .. Len(t.plan) |-> near(i)]
           a == [i \in 1 .. Len(t.plan) |-> ahead(i)]
<1>2. \A i \in 1 .. Len(t.plan) :
        /\ near(i) \in RoutedSegments /\ ahead(i) \in RoutedSegments
        /\ near(i) = t.plan[i] \/ ~Calculated(near(i))
        /\ ahead(i) = t.plan[i] \/ ~Calculated(ahead(i))
  BY <1>1, InvalidIs
<1>3. InvalidateNear(t, place, radius) = [t EXCEPT !.plan = n]
  BY <1>1 DEF InvalidateNear
<1>4. InvalidateFromCurrent(t) = [t EXCEPT !.plan = a]
  BY <1>1 DEF InvalidateFromCurrent
<1> HIDE DEF near, ahead
<1>5. n \in Plans /\ a \in Plans
  BY <1>1, <1>2, IsASeq DEF Plans
<1>6. Len(n) = Len(t.plan) /\ Len(a) = Len(t.plan)
  BY <1>1
<1>7. \A i \in 1 .. Len(t.plan) : n[i] = near(i) /\ a[i] = ahead(i)
  OBVIOUS
<1> HIDE DEF n, a
<1>8. [t EXCEPT !.plan = n].plan = n /\ [t EXCEPT !.plan = a].plan = a
  BY DEF Shape, Trips
<1>9. ASSUME NEW i \in 1 .. Len(t.plan)
      PROVE  /\ n[i] = t.plan[i] \/ ~Calculated(n[i])
             /\ a[i] = t.plan[i] \/ ~Calculated(a[i])
  BY <1>2, <1>7
<1> QED BY <1>3, <1>4, <1>5, <1>6, <1>8, <1>9 DEF Thinned

\* Taking the route of a segment that is followed, or of all that follow it, and
\* asking for another one.
LEMMA RestartIs ==
  ASSUME NEW t, Shape(t), UnderWay(t), bot \in Places, NEW sample \in Samples
  PROVE  Afresh(Drive(EnterRecalculating(t), FALSE, sample))
<1> DEFINE r == EnterRecalculating(t)
<1>1. Shape(r) /\ UnderWay(r) /\ r.state = "Recalculating"
  BY EnterRecalculatingIs DEF Shape, UnderWay
<1> HIDE DEF r
<1> QED BY <1>1, DriveIs DEF r

\* The segment under the cursor is entered, and keeps its route.
LEMMA EnteredIs ==
  ASSUME Sound(trip), trip.state = "FollowingSegment", ~Finished(trip)
  PROVE  /\ Sound(Entered) /\ Entered.state = "FollowingSegment"
         /\ Shape(Entered) /\ UnderWay(Entered) /\ ~Finished(Entered)
         /\ Entered.current = trip.current /\ Len(Entered.plan) = Len(trip.plan)
         /\ Entered.waypoint = trip.waypoint /\ Entered.submitted = trip.submitted
         /\ Current(Entered).waypoints = Current(trip).waypoints
<1> DEFINE n == trip.current + 1
           segment == [trip.plan[n] EXCEPT !.state = "Active"]
           plan == [trip.plan EXCEPT ![n] = segment]
           e == [trip EXCEPT !.plan = plan]
<1>1. Shape(trip) /\ UnderWay(trip) /\ Follower(trip)
  BY DEF Sound
<1>2. n \in 1 .. Len(trip.plan) /\ trip.plan[n] \in RoutedSegments /\ Calculated(trip.plan[n])
  BY <1>1, ShapeFacts DEF Follower, Current
<1>3. CASE Entered = trip
  BY <1>1, <1>3
<1>4. CASE Entered # trip
  <2>1. Entered = e
    BY <1>4 DEF Entered
  <2>2. /\ segment \in Segments /\ segment.waypoints = trip.plan[n].waypoints
        /\ segment.state = "Active"
    BY <1>2 DEF RoutedSegments, Segments
  <2>3. segment \in RoutedSegments /\ Calculated(segment)
    BY <1>2, <2>2 DEF RoutedSegments, Calculated
  <2> HIDE DEF segment
  <2>4. /\ plan \in Plans /\ Len(plan) = Len(trip.plan)
        /\ \A j \in 1 .. Len(trip.plan) : plan[j] = IF j = n THEN segment ELSE trip.plan[j]
    BY <1>1, <1>2, <2>3, ExceptSeq DEF Plans, Shape, Trips
  <2> HIDE DEF plan
  <2>5. e \in Trips /\ e.plan = plan
    BY <1>1, <2>4 DEF Shape, Trips
  <2>6. /\ e.state = trip.state /\ e.current = trip.current /\ e.search = trip.search
        /\ e.failed = trip.failed /\ e.destination = trip.destination
        /\ e.waypoint = trip.waypoint /\ e.submitted = trip.submitted
    OBVIOUS
  <2> HIDE DEF e
  <2>7. Shape(e) /\ UnderWay(e) /\ ~Finished(e)
    BY <1>1, <2>4, <2>5, <2>6 DEF Shape, UnderWay, Finished
  <2>8. Current(e) = segment
    BY <1>2, <2>4, <2>5, <2>6 DEF Current
  <2>9. Follower(e)
    <3>1. e.search # None => /\ e.search.index = e.current + 2
                             /\ e.search.index \in 1 .. Len(e.plan) /\ e.search.index # n
                             /\ ~Calculated(trip.plan[e.search.index])
      <4>1. trip.search # None => trip.search.index \in Nat \ {0}
        BY <1>1 DEF Shape, Trips, Searches
      <4>2. trip.current \in Nat
        BY <1>1, ShapeFacts
      <4> SUFFICES ASSUME trip.search # None
                   PROVE  /\ e.search.index = e.current + 2
                          /\ e.search.index \in 1 .. Len(e.plan) /\ e.search.index # n
                          /\ ~Calculated(trip.plan[e.search.index])
        BY <2>6
      <4>3. /\ trip.search.index = trip.current + 2 /\ trip.search.index <= Len(trip.plan)
            /\ ~Calculated(trip.plan[trip.search.index])
        BY <1>1 DEF Follower
      <4>4. Len(trip.plan) \in Nat
        BY <1>1, ShapeFacts
      <4>5. trip.search.index \in 1 .. Len(trip.plan)
        BY <4>2, <4>3, <4>4
      <4>6. trip.search.index # n
        BY <1>2, <4>3
      <4> QED BY <2>4, <2>5, <2>6, <4>3, <4>5, <4>6
    <3> QED BY <1>1, <2>3, <2>4, <2>5, <2>6, <2>7, <2>8, <3>1 DEF Follower
  <2> QED BY <2>1, <2>2, <2>5, <2>4, <2>6, <2>7, <2>8, <2>9 DEF Sound, Current
<1> QED BY <1>3, <1>4

-----------------------------------------------------------------------------
(* The invariant.                                                           *)

\* A goal submitted for the segment is still the goal of the movement service,
\* which follows no player meanwhile.
Aimed(t, destination, doing) ==
  t.state = "FollowingSegment" /\ t.submitted =>
    /\ ~Finished(t)
    /\ destination = Current(t).waypoints[t.waypoint]
    /\ doing # "FollowingPlayer"

Inv == MovementTypeOK /\ Sound(trip) /\ Aimed(trip, goal, status)

\* Only a step that stops the movement lands a trip.
Lands == Active /\ trip'.state \in {"Arrived", "Cancelled"} => Stop

\* No trip is a trip with an empty plan.
LEMMA NoTripIs == NoTrip \in Trips /\ <<>> \in Plans /\ Len(<<>>) = 0
<1>1. <<>> \in Plans /\ Len(<<>>) = 0
  BY DEF Plans
<1> QED BY <1>1 DEF NoTrip, Trips

\* The initial state satisfies the invariant.
LEMMA InitHolds == Init => Inv
<1> SUFFICES ASSUME Init PROVE Inv
  OBVIOUS
<1>1. <<>> \in Plans /\ Len(<<>>) = 0
  BY NoTripIs
<1>2. NoTrip \in Trips
  BY NoTripIs
<1>3. Sound(trip)
  BY <1>1, <1>2 DEF Init, NoTrip, Sound, Shape
<1> QED BY <1>3 DEF Init, MovementInit, Inv, MovementTypeOK, Statuses, Aimed, NoTrip

\* A trip that starts, rests or is planned anew has submitted no goal.
LEMMA AfreshKeeps ==
  ASSUME Inv, MovementTypeOK', Afresh(trip')
  PROVE  Inv' /\ Lands
BY DEF Inv, Afresh, Aimed, Lands

\* A step beside the movement service keeps its types.
LEMMA StillTypes ==
  ASSUME Inv, UNCHANGED movementVars
  PROVE  MovementTypeOK' /\ bot \in Places /\ Sound(trip) /\ Shape(trip)
BY DEF Inv, movementVars, MovementTypeOK, Sound

\* An active trip is under way, sound and in shape.
LEMMA ActiveIs ==
  ASSUME Inv, Active
  PROVE  UnderWay(trip) /\ bot \in Places /\ Sound(trip) /\ Shape(trip)
BY DEF Inv, Active, Sound, MovementTypeOK

\* Starting a trip keeps the invariant.
LEMMA StartKeeps ==
  ASSUME Inv, NEW p \in Destinations, Start(p)
  PROVE  Inv' /\ Lands
<1> DEFINE planning == [NoTrip EXCEPT !.state = "Planning"]
           started == [planning EXCEPT !.destination = p]
<1>1. NoTrip \in Trips /\ <<>> \in Plans /\ Len(<<>>) = 0 /\ p \in Places
  BY NoTripIs
<1>2. planning \in Trips /\ planning.state = "Planning"
  BY <1>1 DEF Trips
<1>3. planning.plan = <<>> /\ planning.current = 0 /\ planning.failed = 0
  BY DEF NoTrip
<1>4. trip' = started
  BY DEF Start
<1> HIDE DEF planning
<1>5. started \in Trips /\ started.destination = p
  BY <1>1, <1>2 DEF Trips
<1>6. /\ started.plan = <<>> /\ started.current = 0 /\ started.failed = 0
      /\ started.state = "Planning"
  BY <1>2, <1>3
<1> HIDE DEF started
<1>7. Afresh(trip')
  BY <1>1, <1>4, <1>5, <1>6 DEF Afresh, Sound, Shape, UnderWay
<1>8. MovementTypeOK'
  BY StillTypes DEF Start
<1> QED BY <1>7, <1>8, AfreshKeeps

\* The stop of the service keeps its types.
LEMMA StopTypes ==
  ASSUME Inv, Stop, UNCHANGED <<bot, online>>
  PROVE  MovementTypeOK'
BY DEF Inv, MovementTypeOK, Statuses, Stop

\* Cancelling keeps the invariant and stands still.
LEMMA CancelKeeps ==
  ASSUME Inv, Cancel
  PROVE  Inv' /\ Lands
<1> DEFINE one == [trip EXCEPT !.state = "Cancelled"]
           two == [one EXCEPT !.failure = None]
           three == [two EXCEPT !.plan = <<>>]
           four == [three EXCEPT !.current = 0]
           five == [four EXCEPT !.search = None]
<1>1. <<>> \in Plans /\ Len(<<>>) = 0
  BY DEF Plans
<1>2. one \in Trips /\ one.state = "Cancelled"
  BY DEF Inv, Sound, Shape, Trips
<1>3. two \in Trips /\ two.state = "Cancelled"
  BY <1>2 DEF Trips
<1>4. three \in Trips /\ three.state = "Cancelled" /\ three.plan = <<>>
  BY <1>1, <1>3 DEF Trips
<1>5. four \in Trips /\ four.state = "Cancelled" /\ four.plan = <<>> /\ four.current = 0
  BY <1>4 DEF Trips
<1>6. /\ five \in Trips /\ five.state = "Cancelled" /\ five.plan = <<>>
      /\ five.current = 0 /\ five.search = None
  BY <1>5 DEF Trips
<1>7. trip' = NewFollower(five)
  BY DEF Cancel
<1> HIDE DEF five
<1>8. /\ trip' \in Trips /\ trip'.state = "Cancelled" /\ trip'.plan = <<>>
      /\ trip'.current = 0 /\ trip'.search = None
  BY <1>6, <1>7, NewFollowerIs
<1>9. Sound(trip')
  BY <1>1, <1>8 DEF Sound, Shape
<1>10. MovementTypeOK'
  BY StopTypes DEF Cancel
<1> QED BY <1>8, <1>9, <1>10 DEF Inv, Aimed, Lands, Cancel

\* Arriving keeps the invariant and stands still.
LEMMA CheckArrivalKeeps ==
  ASSUME Inv, CheckArrival
  PROVE  Inv' /\ Lands
<1> DEFINE one == [trip EXCEPT !.state = "Arrived"]
           two == [one EXCEPT !.search = None]
<1>1. one \in Trips /\ one.state = "Arrived"
  BY DEF Inv, Sound, Shape, Trips
<1>2. two \in Trips /\ two.state = "Arrived" /\ two.search = None
  BY <1>1 DEF Trips
<1>3. two.plan = trip.plan /\ two.current = trip.current
  OBVIOUS
<1>4. trip' = two
  BY DEF CheckArrival
<1> HIDE DEF two
<1>5. Sound(trip')
  BY <1>2, <1>3, <1>4 DEF Inv, Sound, Shape
<1>6. MovementTypeOK'
  BY StopTypes DEF CheckArrival
<1> QED BY <1>2, <1>4, <1>5, <1>6 DEF Inv, Aimed, Lands, CheckArrival

\* A change of the world keeps the invariant.
LEMMA WorldChangeKeeps ==
  ASSUME Inv, NEW p \in Spots, WorldChange(p)
  PROVE  Inv' /\ Lands
<1> DEFINE t == InvalidateNear(trip, p, 1)
<1>1. /\ MovementTypeOK' /\ UnderWay(trip) /\ Sound(trip) /\ Shape(trip)
      /\ UNCHANGED <<goal, status>> /\ trip.state \in ActiveStates
  BY StillTypes, ActiveIs DEF WorldChange, movementVars, Active
<1>2. Thinned(trip, t)
  BY <1>1, InvalidationsAre
<1>3. trip' = IF t.state = "FollowingSegment" /\ ~Finished(t) /\ ~Calculated(Current(t))
                THEN EnterRecalculating(t) ELSE t
  BY DEF WorldChange
<1> HIDE DEF t
<1>4. /\ Shape(t) /\ UnderWay(t) /\ t.state = trip.state /\ t.current = trip.current
      /\ t.search = trip.search /\ t.waypoint = trip.waypoint /\ t.submitted = trip.submitted
      /\ Len(t.plan) = Len(trip.plan)
  BY <1>1, <1>2, ThinnedIs DEF UnderWay, Thinned
<1>5. CASE t.state = "FollowingSegment" /\ ~Finished(t) /\ ~Calculated(Current(t))
  <2>1. Afresh(trip')
    BY <1>3, <1>4, <1>5, EnterRecalculatingIs DEF Afresh, Sound, Shape, UnderWay
  <2> QED BY <1>1, <2>1, AfreshKeeps
<1>6. CASE ~(t.state = "FollowingSegment" /\ ~Finished(t) /\ ~Calculated(Current(t)))
  <2>1. trip' = t
    BY <1>3, <1>6
  <2>2. Finished(t) = Finished(trip)
    BY <1>4 DEF Finished
  <2>3. CASE t.state = "FollowingSegment"
    <3>1. Follower(trip)
      BY <1>1, <1>4, <2>3 DEF Sound
    <3>2. Follower(t)
      <4>1. trip.search # None => /\ t.search.index \in 1 .. Len(trip.plan)
                                  /\ ~Calculated(t.plan[t.search.index])
        <5>1. trip.search # None => trip.search.index \in Nat \ {0}
          BY <1>1 DEF Shape, Trips, Searches
        <5>2. trip.search # None => trip.search.index \in 1 .. Len(trip.plan)
          BY <1>1, <3>1, <5>1, ShapeFacts DEF Follower
        <5> QED BY <1>2, <1>4, <3>1, <5>2 DEF Follower, Thinned
      <4> QED BY <1>4, <1>6, <2>2, <2>3, <3>1, <4>1 DEF Follower
    <3>3. ~Finished(t) => Current(t) = Current(trip)
      <4>1. ~Finished(t) => t.current + 1 \in 1 .. Len(trip.plan)
        BY <1>4, ShapeFacts
      <4> QED BY <1>2, <1>4, <1>6, <2>3, <4>1 DEF Thinned, Current
    <3>4. Sound(t) /\ Aimed(t, goal, status)
      BY <1>4, <2>2, <2>3, <3>2, <3>3 DEF Sound, Aimed, Inv
    <3> QED BY <1>1, <2>1, <2>3, <3>4 DEF Inv, Lands
  <2>4. CASE t.state # "FollowingSegment"
    <3>1. Sound(t) /\ Aimed(t, goal, status)
      BY <1>1, <1>4, <2>4 DEF Sound, Aimed
    <3> QED BY <1>1, <1>4, <2>1, <3>1 DEF Inv, Lands
  <2> QED BY <2>3, <2>4
<1> QED BY <1>5, <1>6

\* What happens to the search alone leaves the rest of the trip as it is.
LEMMA SearchAloneKeeps ==
  ASSUME Inv, NEW q \in Searches \cup {None}, UNCHANGED movementVars,
         trip' = [trip EXCEPT !.search = q],
         q # None => trip.search # None /\ q.index = trip.search.index
  PROVE  Inv' /\ Lands
<1>1. MovementTypeOK' /\ Sound(trip) /\ Shape(trip) /\ UNCHANGED <<goal, status>>
  BY StillTypes DEF movementVars
<1> DEFINE t == [trip EXCEPT !.search = q]
<1>2. t \in Trips /\ t.search = q
  BY <1>1 DEF Shape, Trips
<1>3. /\ t.plan = trip.plan /\ t.current = trip.current /\ t.state = trip.state
      /\ t.destination = trip.destination /\ t.failed = trip.failed
      /\ t.waypoint = trip.waypoint /\ t.submitted = trip.submitted
  OBVIOUS
<1>4. trip' = t
  OBVIOUS
<1> HIDE DEF t
<1>5. Finished(t) = Finished(trip) /\ Current(t) = Current(trip)
  BY <1>3 DEF Finished, Current
<1>6. Shape(t) /\ (UnderWay(trip) => UnderWay(t))
  BY <1>1, <1>2, <1>3 DEF Shape, UnderWay
<1>7. Follower(trip) => Follower(t)
  BY <1>2, <1>3, <1>5 DEF Follower
<1>8. Sound(t)
  BY <1>1, <1>2, <1>3, <1>6, <1>7 DEF Sound
<1>9. Aimed(t, goal, status)
  BY <1>3, <1>5 DEF Aimed, Inv
<1> QED BY <1>1, <1>3, <1>4, <1>8, <1>9 DEF Inv, Lands, Active

\* A search that finishes keeps the invariant.
LEMMA SearchFinishesKeeps ==
  ASSUME Inv, SearchFinishes
  PROVE  Inv' /\ Lands
<1>1. PICK answer \in Answers(trip.search) : SearchAnswers(answer)
  BY DEF SearchFinishes
<1> DEFINE q == [trip.search EXCEPT !.result = answer]
<1>2. trip.search \in Searches /\ trip.search # None
  BY StillTypes, <1>1 DEF SearchAnswers, Shape, Trips
<1>3. answer \in Answer
  BY <1>1, <1>2, AnswersAre
<1>4. q \in Searches /\ q.index = trip.search.index
  BY <1>2, <1>3 DEF Searches
<1>5. trip' = [trip EXCEPT !.search = q] /\ UNCHANGED movementVars
  BY <1>1 DEF SearchAnswers
<1> HIDE DEF q
<1> QED BY <1>2, <1>4, <1>5, SearchAloneKeeps

\* A search that panics keeps the invariant.
LEMMA SearchPanicsKeeps ==
  ASSUME Inv, SearchPanics
  PROVE  Inv' /\ Lands
BY SearchAloneKeeps DEF SearchPanics

-----------------------------------------------------------------------------
(* The ticks.                                                               *)

\* A tick in Planning keeps the invariant.
LEMMA TickPlanningKeeps ==
  ASSUME Inv, NEW sample \in Samples, TickPlanning(sample)
  PROVE  Inv' /\ Lands
<1> DEFINE plan == PlanFrom(bot, Waypoints(bot, trip.destination))
           fresh == [trip EXCEPT !.plan = plan]
           planned == IF trip.plan = <<>> THEN fresh ELSE trip
<1>1. MovementTypeOK' /\ UnderWay(trip) /\ bot \in Places /\ Shape(trip)
  BY StillTypes, ActiveIs DEF TickPlanning, Ticks
<1>2. plan \in Plans
  BY <1>1, WaypointsAre, PlanFromIs DEF UnderWay
<1>3. trip' = Drive(planned, FALSE, sample) /\ trip.state = "Planning"
  BY DEF TickPlanning
<1>4. trip.plan = <<>> => trip.current = 0
  BY <1>1 DEF Shape, Trips
<1> HIDE DEF plan
<1>5. fresh \in Trips /\ fresh.plan = plan
  BY <1>1, <1>2 DEF Shape, Trips
<1>6. /\ fresh.state = trip.state /\ fresh.current = trip.current
      /\ fresh.failed = trip.failed /\ fresh.destination = trip.destination
  OBVIOUS
<1>7. Len(plan) \in Nat
  BY <1>2, LenProperties DEF Plans
<1> HIDE DEF fresh
<1>8. Shape(planned) /\ UnderWay(planned) /\ planned.state = "Planning"
  BY <1>1, <1>3, <1>4, <1>5, <1>6, <1>7 DEF Shape, UnderWay
<1> HIDE DEF planned
<1> QED BY <1>1, <1>3, <1>8, DriveIs, AfreshKeeps

\* A tick in Recalculating keeps the invariant.
LEMMA TickRecalculatingKeeps ==
  ASSUME Inv, NEW sample \in Samples, TickRecalculating(sample)
  PROVE  Inv' /\ Lands
<1> DEFINE t == Drive(trip, FALSE, sample)
           entering == [t EXCEPT !.state = "FollowingSegment"]
<1>1. MovementTypeOK' /\ UnderWay(trip) /\ bot \in Places /\ Shape(trip)
  BY StillTypes, ActiveIs DEF TickRecalculating, Ticks
<1>2. Afresh(t)
  BY <1>1, DriveIs DEF TickRecalculating
<1>3. trip' = IF t.search # None \/ t.state # "Recalculating" THEN t
              ELSE IF Finished(t) THEN Rebuild(t)
              ELSE IF Calculated(Current(t)) THEN NewFollower(entering) ELSE t
  BY DEF TickRecalculating
<1> HIDE DEF t
<1>4. trip' \in {t, Rebuild(t), NewFollower(entering)}
  BY <1>3
<1>5. CASE trip' = t
  BY <1>1, <1>2, <1>5, AfreshKeeps
<1>6. CASE trip' # t
  <2>1. t.search = None /\ t.state = "Recalculating"
    BY <1>3, <1>6
  <2>2. Shape(t) /\ UnderWay(t)
    BY <1>2, <2>1 DEF Afresh, Sound
  <2>3. CASE trip' = Rebuild(t)
    <3>1. Afresh(trip')
      BY <1>1, <2>2, <2>3, RebuildIs DEF Afresh
    <3> QED BY <1>1, <3>1, AfreshKeeps
  <2>4. CASE trip' # Rebuild(t)
    <3>1. ~Finished(t) /\ Calculated(Current(t)) /\ trip' = NewFollower(entering)
      BY <1>3, <1>6, <2>4
    <3>2. entering \in Trips /\ entering.state = "FollowingSegment"
      BY <2>2 DEF Shape, Trips
    <3>3. /\ entering.plan = t.plan /\ entering.current = t.current
          /\ entering.search = t.search /\ entering.failed = t.failed
          /\ entering.destination = t.destination
      OBVIOUS
    <3> HIDE DEF entering
    <3>4. /\ trip' \in Trips /\ trip'.state = "FollowingSegment" /\ ~trip'.submitted
          /\ trip'.plan = t.plan /\ trip'.current = t.current
          /\ trip'.search = None /\ trip'.failed = t.failed
          /\ trip'.destination = t.destination
      BY <2>1, <3>1, <3>2, <3>3, NewFollowerIs
    <3>5. Calculated(Current(trip'))
      BY <3>1, <3>4 DEF Current
    <3>6. Afresh(trip')
      BY <2>2, <3>4, <3>5 DEF Afresh, Sound, Shape, UnderWay, Follower
    <3> QED BY <1>1, <3>6, AfreshKeeps
  <2> QED BY <2>3, <2>4
<1> QED BY <1>5, <1>6

\* A tick with every segment walked extends the plan and keeps the invariant.
LEMMA FollowNothingKeeps ==
  ASSUME Inv, FollowNothing
  PROVE  Inv' /\ Lands
<1>1. MovementTypeOK' /\ UnderWay(trip) /\ bot \in Places /\ Shape(trip)
  BY StillTypes, ActiveIs DEF FollowNothing, Follows, Ticks
<1>2. Afresh(trip')
  BY <1>1, RebuildIs DEF FollowNothing, Afresh
<1> QED BY <1>1, <1>2, AfreshKeeps

\* A tick on a segment has a sound trip and waypoints to go to.
LEMMA OnSegmentIs ==
  ASSUME Inv, OnSegment
  PROVE  /\ bot \in Places /\ Sound(trip) /\ trip.state = "FollowingSegment"
         /\ ~Finished(trip) /\ Current(trip).waypoints \in Places \X Places
         /\ Len(Current(trip).waypoints) = 2 /\ trip.waypoint \in 1 .. 2
         /\ Current(trip).waypoints[1] \in Places /\ Current(trip).waypoints[2] \in Places
<1>1. /\ bot \in Places /\ Sound(trip) /\ Shape(trip) /\ trip.state = "FollowingSegment"
      /\ ~Finished(trip)
  BY ActiveIs DEF OnSegment, Follows, Ticks
<1>2. Calculated(Current(trip)) /\ Current(trip) \in RoutedSegments
  BY <1>1, ShapeFacts DEF Sound, Follower
<1>3. trip.waypoint \in 1 .. 2
  BY <1>1 DEF Shape, Trips
<1> QED BY <1>1, <1>2, <1>3, RouteOf

\* A tick off the route keeps the invariant.
LEMMA FollowOffRouteKeeps ==
  ASSUME Inv, NEW sample \in Samples, FollowOffRoute(sample)
  PROVE  Inv' /\ Lands
<1> DEFINE t == InvalidateFromCurrent(Entered)
<1>1. MovementTypeOK' /\ bot \in Places /\ 0 \in Places
  BY StillTypes DEF FollowOffRoute
<1>2. Shape(Entered) /\ UnderWay(Entered)
  BY OnSegmentIs, EnteredIs DEF FollowOffRoute
<1>3. Shape(t) /\ UnderWay(t)
  <2>1. Thinned(Entered, t)
    BY <1>1, <1>2, InvalidationsAre
  <2> HIDE DEF t
  <2> QED BY <1>2, <2>1, ThinnedIs DEF UnderWay
<1>4. trip' = Drive(EnterRecalculating(t), FALSE, sample)
  BY DEF FollowOffRoute
<1> HIDE DEF t
<1> QED BY <1>1, <1>3, <1>4, RestartIs, AfreshKeeps

\* A tick before a blocked route keeps the invariant.
LEMMA FollowBlockedKeeps ==
  ASSUME Inv, NEW sample \in Samples, FollowBlocked(sample)
  PROVE  Inv' /\ Lands
<1> DEFINE e == Entered
           n == trip.current + 1
           plan == [e.plan EXCEPT ![n] = Invalid(e.plan[n])]
           t == [e EXCEPT !.plan = plan]
<1>1. MovementTypeOK' /\ bot \in Places
  BY StillTypes DEF FollowBlocked
<1>2. /\ Shape(e) /\ UnderWay(e) /\ ~Finished(e) /\ e.current = trip.current
  BY OnSegmentIs, EnteredIs DEF FollowBlocked, Walks
<1>3. trip' = Drive(EnterRecalculating(t), FALSE, sample)
  BY DEF FollowBlocked
<1> HIDE DEF e
<1>4. n \in 1 .. Len(e.plan) /\ e.plan[n] \in RoutedSegments /\ e.plan \in Seq(RoutedSegments)
  BY <1>2, ShapeFacts DEF Plans
<1>5. Invalid(e.plan[n]) \in RoutedSegments
  BY <1>4, InvalidIs
<1>6. plan \in Plans /\ Len(plan) = Len(e.plan)
  BY <1>4, <1>5, ExceptSeq DEF Plans
<1> HIDE DEF plan, n
<1>7. t \in Trips /\ t.plan = plan
  BY <1>2, <1>6 DEF Shape, Trips
<1>8. t.current = e.current /\ t.failed = e.failed /\ t.destination = e.destination
  OBVIOUS
<1> HIDE DEF t
<1>9. Shape(t) /\ UnderWay(t)
  BY <1>2, <1>6, <1>7, <1>8 DEF Shape, UnderWay
<1> QED BY <1>1, <1>3, <1>9, RestartIs, AfreshKeeps

\* A tick after a failed walk keeps the invariant.
LEMMA FollowMovementFailedKeeps ==
  ASSUME Inv, FollowMovementFailed
  PROVE  Inv' /\ Lands
<1>1. MovementTypeOK'
  BY StillTypes DEF FollowMovementFailed
<1>2. Shape(Entered)
  BY OnSegmentIs, EnteredIs DEF FollowMovementFailed, Walks
<1>3. trip' = Fail(Entered, "Movement")
  BY DEF FollowMovementFailed
<1>4. Afresh(trip')
  BY <1>2, <1>3, FailIs DEF Afresh, Failures
<1> QED BY <1>1, <1>4, AfreshKeeps

\* Whatever a tick does to the movement, the follower it leaves behind keeps the
\* goal it has submitted.
LEMMA WalkingKeeps ==
  ASSUME Inv, MovementTypeOK', bot \in Places, NEW sample \in Samples,
         NEW t, Sound(t), t.state = "FollowingSegment", ~Finished(t),
         Aimed(t, goal', status'), Walking(t, sample)
  PROVE  Inv' /\ Lands
<1> DEFINE p == Prefetched(t, sample)
<1>1. /\ Sound(p) /\ p.state = "FollowingSegment" /\ p.plan = t.plan
      /\ p.current = t.current /\ p.waypoint = t.waypoint /\ p.submitted = t.submitted
  BY PrefetchedIs
<1>2. trip' = p \/ trip' = Fail(p, "Stuck")
  BY DEF Walking
<1> HIDE DEF p
<1>3. CASE trip' = p
  <2>1. Finished(p) = Finished(t) /\ Current(p) = Current(t)
    BY <1>1 DEF Finished, Current
  <2>2. Aimed(p, goal', status')
    BY <1>1, <2>1 DEF Aimed
  <2> QED BY <1>1, <1>3, <2>2 DEF Inv, Lands
<1>4. CASE trip' = Fail(p, "Stuck")
  <2>1. Shape(p)
    BY <1>1 DEF Sound
  <2>2. Afresh(trip')
    BY <1>4, <2>1, FailIs DEF Afresh, Failures
  <2> QED BY <2>2, AfreshKeeps
<1> QED BY <1>2, <1>3, <1>4

Moved(t, w, s) == [t EXCEPT !.waypoint = w, !.submitted = s]

\* A follower with another waypoint or submission is as sound.
LEMMA FollowerMoves ==
  ASSUME NEW t, Sound(t), t.state = "FollowingSegment", ~Finished(t),
         NEW w \in 1 .. 2, NEW s \in BOOLEAN
  PROVE  /\ Sound(Moved(t, w, s)) /\ Moved(t, w, s).state = "FollowingSegment"
         /\ ~Finished(Moved(t, w, s)) /\ Current(Moved(t, w, s)) = Current(t)
         /\ Moved(t, w, s).waypoint = w /\ Moved(t, w, s).submitted = s
<1> DEFINE u == Moved(t, w, s)
           one == [t EXCEPT !.waypoint = w]
           both == [one EXCEPT !.submitted = s]
<1>1. one \in Trips /\ one.waypoint = w
  BY DEF Sound, Shape, Trips
<1>2. both \in Trips /\ both.waypoint = w /\ both.submitted = s
  BY <1>1 DEF Trips
<1>3. /\ both.plan = t.plan /\ both.current = t.current /\ both.state = t.state
      /\ both.search = t.search /\ both.failed = t.failed
      /\ both.destination = t.destination
  OBVIOUS
<1>4. u = both
  BY DEF Moved
<1> HIDE DEF both, u
<1>5. Finished(u) = Finished(t) /\ Current(u) = Current(t)
  BY <1>3, <1>4 DEF Finished, Current
<1>6. Shape(u) /\ UnderWay(u) /\ Follower(u)
  BY <1>2, <1>3, <1>4, <1>5 DEF Sound, Shape, UnderWay, Follower
<1>7. Sound(u)
  BY <1>3, <1>4, <1>6 DEF Sound
<1> QED BY <1>2, <1>3, <1>4, <1>5, <1>7 DEF u

\* Going to the next waypoint keeps the invariant.
LEMMA FollowNextWaypointKeeps ==
  ASSUME Inv, NEW sample \in Samples, FollowNextWaypoint(sample)
  PROVE  Inv' /\ Lands
<1> DEFINE w == trip.waypoint + 1
           t == [Entered EXCEPT !.waypoint = w, !.submitted = FALSE]
<1>1. MovementTypeOK' /\ bot \in Places
  BY StillTypes DEF FollowNextWaypoint
<1>2. OnSegment
  BY DEF FollowNextWaypoint, Walks
<1>3. Sound(Entered) /\ Entered.state = "FollowingSegment" /\ ~Finished(Entered)
  BY <1>2, OnSegmentIs, EnteredIs
<1>4. w \in 1 .. 2
  <2>1. Len(Current(trip).waypoints) = 2 /\ trip.waypoint \in 1 .. 2
    BY <1>2, OnSegmentIs
  <2>2. trip.waypoint < Len(Current(trip).waypoints)
    BY DEF FollowNextWaypoint
  <2> QED BY <2>1, <2>2
<1>5. Walking(t, sample)
  BY DEF FollowNextWaypoint
<1>6. t = Moved(Entered, w, FALSE) /\ FALSE \in BOOLEAN
  BY DEF Moved
<1> HIDE DEF w, t
<1>7. Sound(t) /\ t.state = "FollowingSegment" /\ ~Finished(t) /\ t.submitted = FALSE
  BY <1>3, <1>4, <1>6, FollowerMoves, Zenon
<1>8. Aimed(t, goal', status')
  BY <1>7 DEF Aimed
<1> QED BY <1>1, <1>5, <1>7, <1>8, WalkingKeeps

\* Submitting the walk keeps the invariant: the service walks where the trip aims.
LEMMA FollowSubmitKeeps ==
  ASSUME Inv, NEW sample \in Samples, FollowSubmit(sample)
  PROVE  Inv' /\ Lands
<1> DEFINE t == [Entered EXCEPT !.submitted = TRUE]
<1>1. OnSegment /\ Goto(Aim) /\ UNCHANGED <<bot, online>>
  BY DEF FollowSubmit, Walks
<1>2. Aim \in Places
  BY <1>1, OnSegmentIs DEF Aim
<1>3. MovementTypeOK' /\ bot \in Places /\ goal' = Aim /\ status' # "FollowingPlayer"
  <2>1. MovementTypeOK
    BY DEF Inv
  <2> QED BY <1>1, <1>2, <2>1 DEF MovementTypeOK, Statuses, Goto
<1>4. /\ Sound(Entered) /\ Entered.state = "FollowingSegment" /\ ~Finished(Entered)
      /\ Entered.waypoint = trip.waypoint /\ trip.waypoint \in 1 .. 2
      /\ Current(Entered).waypoints = Current(trip).waypoints
  BY <1>1, OnSegmentIs, EnteredIs
<1>5. Walking(t, sample)
  BY DEF FollowSubmit
<1>6. /\ Sound(t) /\ t.state = "FollowingSegment" /\ ~Finished(t)
      /\ Current(t) = Current(Entered) /\ t.waypoint = trip.waypoint
  <2> DEFINE e == Entered
             w == trip.waypoint
  <2>1. /\ e \in Trips /\ e.waypoint = w /\ Sound(e) /\ e.state = "FollowingSegment"
        /\ ~Finished(e) /\ w \in 1 .. 2 /\ TRUE \in BOOLEAN
    BY <1>4 DEF Sound, Shape
  <2>2. t = Moved(e, w, TRUE)
    <3> HIDE DEF e
    <3>1. [e EXCEPT !.waypoint = w] = e
      BY <2>1 DEF Trips
    <3>2. [e EXCEPT !.waypoint = w, !.submitted = TRUE]
            = [[e EXCEPT !.waypoint = w] EXCEPT !.submitted = TRUE]
      OBVIOUS
    <3> QED BY <3>1, <3>2 DEF e, Moved
  <2> HIDE DEF e, w, t
  <2>3. /\ Sound(t) /\ t.state = "FollowingSegment" /\ ~Finished(t)
        /\ Current(t) = Current(e) /\ t.waypoint = w
    BY <2>1, <2>2, FollowerMoves, Zenon
  <2> QED BY <2>3 DEF e, w
<1> HIDE DEF t
<1>7. Aimed(t, goal', status')
  BY <1>3, <1>4, <1>6 DEF Aimed, Aim
<1> QED BY <1>3, <1>5, <1>6, <1>7, WalkingKeeps

\* A tick of the walk keeps the invariant.
LEMMA FollowWalkKeeps ==
  ASSUME Inv, NEW sample \in Samples, FollowWalk(sample)
  PROVE  Inv' /\ Lands
<1>1. MovementTypeOK' /\ bot \in Places /\ UNCHANGED <<goal, status>>
  BY StillTypes DEF FollowWalk, movementVars
<1>2. OnSegment /\ Walking(Entered, sample)
  BY DEF FollowWalk, Walks
<1>3. /\ Sound(Entered) /\ Entered.state = "FollowingSegment" /\ ~Finished(Entered)
      /\ Entered.waypoint = trip.waypoint /\ Entered.submitted = trip.submitted
      /\ Current(Entered).waypoints = Current(trip).waypoints
      /\ trip.state = "FollowingSegment"
  BY <1>2, OnSegmentIs, EnteredIs
<1>4. Aimed(Entered, goal', status')
  BY <1>1, <1>3 DEF Inv, Aimed
<1> QED BY <1>1, <1>2, <1>3, <1>4, WalkingKeeps

\* Completing a segment keeps the invariant.
LEMMA CompleteSegmentKeeps ==
  ASSUME Inv, NEW sample \in Samples, CompleteSegment(sample)
  PROVE  Inv' /\ Lands
<1> DEFINE e == [Entered EXCEPT !.failed = 0]
           a == Advanced(e)
           t == NewFollower(a)
           over == Current(trip).partial \/ Finished(t)
<1>1. MovementTypeOK' /\ bot \in Places
  BY StillTypes DEF CompleteSegment
<1>2. /\ Sound(Entered) /\ Entered.state = "FollowingSegment" /\ ~Finished(Entered)
  BY OnSegmentIs, EnteredIs DEF CompleteSegment, Walks
<1>3. trip' = CASE over -> Rebuild(t)
                [] ~over /\ ~Calculated(Current(t)) -> Drive(EnterRecalculating(t), FALSE, sample)
                [] OTHER -> t
  BY DEF CompleteSegment
<1>4. Sound(e) /\ e.state = "FollowingSegment" /\ ~Finished(e)
  <2> DEFINE n == Entered
             u == [n EXCEPT !.failed = 0]
  <2>0. 0 \in 0 .. MaxReplans + 1 /\ 0 <= MaxReplans
    OBVIOUS
  <2>1. Sound(n) /\ n.state = "FollowingSegment" /\ ~Finished(n)
    BY <1>2
  <2> HIDE DEF n
  <2>2. u \in Trips /\ u.failed = 0
    BY <2>0, <2>1 DEF Sound, Shape, Trips
  <2>3. /\ u.plan = n.plan /\ u.current = n.current /\ u.state = n.state
        /\ u.search = n.search /\ u.destination = n.destination
        /\ u.submitted = n.submitted
    OBVIOUS
  <2> HIDE DEF u
  <2>4. Finished(u) = Finished(n) /\ Current(u) = Current(n)
    BY <2>3 DEF Finished, Current
  <2>5. Shape(u) /\ UnderWay(u) /\ Follower(u)
    BY <2>0, <2>1, <2>2, <2>3, <2>4 DEF Sound, Shape, UnderWay, Follower
  <2> QED BY <2>1, <2>3, <2>4, <2>5 DEF Sound, n, u
<1> HIDE DEF e
<1>5. /\ Shape(a) /\ UnderWay(a) /\ a.state = "FollowingSegment"
      /\ a.search # None => ~Finished(a) /\ ~Calculated(Current(a))
  BY <1>4, AdvancedIs
<1> HIDE DEF a
<1>6. /\ t \in Trips /\ t.state = "FollowingSegment" /\ ~t.submitted /\ t.plan = a.plan
      /\ t.current = a.current /\ t.search = a.search /\ t.failed = a.failed
      /\ t.destination = a.destination
  BY <1>5, NewFollowerIs DEF Shape
<1> HIDE DEF t
<1>7. Shape(t) /\ UnderWay(t) /\ Finished(t) = Finished(a) /\ Current(t) = Current(a)
  BY <1>5, <1>6 DEF Shape, UnderWay, Finished, Current
<1> HIDE DEF over
<1>8. CASE over
  <2>1. Afresh(trip')
    BY <1>1, <1>3, <1>7, <1>8, RebuildIs DEF Afresh
  <2> QED BY <1>1, <2>1, AfreshKeeps
<1>9. CASE ~over /\ ~Calculated(Current(t))
  <2>1. trip' = Drive(EnterRecalculating(t), FALSE, sample)
    BY <1>3, <1>9
  <2> QED BY <1>1, <1>7, <2>1, RestartIs, AfreshKeeps
<1>10. CASE ~over /\ Calculated(Current(t))
  <2>1. trip' = t
    BY <1>3, <1>10
  <2>2. t.search = None
    BY <1>5, <1>6, <1>7, <1>10
  <2>3. Afresh(t)
    BY <1>6, <1>7, <1>10, <2>2 DEF Afresh, Sound, Follower
  <2> QED BY <1>1, <2>1, <2>3, AfreshKeeps
<1> QED BY <1>8, <1>9, <1>10

-----------------------------------------------------------------------------
(* What else moves the bot.                                                 *)

\* A step beside the trip that leaves its goal alone keeps the invariant.
LEMMA AlongsideKeeps ==
  ASSUME Inv, UNCHANGED trip, MovementTypeOK',
         trip.state = "FollowingSegment" => /\ goal' = goal \/ status = "FollowingPlayer"
                                            /\ status' = "FollowingPlayer" => status' = status
  PROVE  Inv' /\ Lands
BY DEF Inv, Aimed, Lands, Active

\* A tick of the movement service keeps the invariant.
LEMMA MovementTickKeeps ==
  ASSUME Inv, MovementTick
  PROVE  Inv' /\ Lands
<1>1. UNCHANGED trip
  BY DEF MovementTick, tripVars
<1>2. CASE TickGoto
  <2>1. MovementTypeOK' /\ goal' = goal /\ status' # "FollowingPlayer"
    BY <1>2 DEF TickGoto, Inv, MovementTypeOK, Statuses
  <2> QED BY <1>1, <2>1, AlongsideKeeps
<1>3. ASSUME NEW p \in Spots \cup {None}, TickFollow(p) PROVE Inv' /\ Lands
  <2>1. MovementTypeOK' /\ status = "FollowingPlayer"
    BY <1>3 DEF TickFollow, Inv, MovementTypeOK, Statuses
  <2> QED BY <1>1, <2>1, AlongsideKeeps
<1> QED BY <1>2, <1>3 DEF MovementTick

\* What the client, the connection and the operator do keeps the invariant.
LEMMA OutsideKeeps ==
  ASSUME Inv,
         \/ ClientWalks \/ ConnectionLost \/ ConnectionBack
         \/ \E p \in Spots : FollowPlayer(p) \/ Displaced(p)
  PROVE  Inv' /\ Lands
<1>1. CASE ClientWalks
  <2>1. UNCHANGED <<trip, goal, status>> /\ Walk
    BY <1>1 DEF ClientWalks, tripVars, Walk
  <2>2. MovementTypeOK'
    BY <2>1 DEF Walk, Inv, MovementTypeOK
  <2> QED BY <2>1, <2>2, AlongsideKeeps
<1>2. CASE ConnectionLost
  <2>1. UNCHANGED <<trip, goal, status>> /\ MovementTypeOK'
    BY <1>2 DEF ConnectionLost, Disconnect, Inv, MovementTypeOK
  <2> QED BY <2>1, AlongsideKeeps
<1>3. CASE ConnectionBack
  <2>1. UNCHANGED <<trip, goal, status>> /\ MovementTypeOK'
    BY <1>3 DEF ConnectionBack, Reconnect, tripVars, Inv, MovementTypeOK
  <2> QED BY <2>1, AlongsideKeeps
<1>4. ASSUME NEW p \in Spots, FollowPlayer(p) PROVE Inv' /\ Lands
  <2>1. UNCHANGED trip /\ trip.state = "Idle" /\ MovementTypeOK'
    BY <1>4 DEF FollowPlayer, Follow, tripVars, Inv, MovementTypeOK, Statuses
  <2> QED BY <2>1, AlongsideKeeps
<1>5. ASSUME NEW p \in Spots, Displaced(p) PROVE Inv' /\ Lands
  <2>1. UNCHANGED <<trip, goal, status>> /\ MovementTypeOK'
    BY <1>5 DEF Displaced, Inv, MovementTypeOK
  <2> QED BY <2>1, AlongsideKeeps
<1> QED BY <1>1, <1>2, <1>3, <1>4, <1>5

-----------------------------------------------------------------------------
(* The theorems.                                                            *)

\* Every step keeps the invariant, and the trip that it ends stands still.
LEMMA NextKeeps == ASSUME Inv, [Next]_vars PROVE Inv' /\ Lands
<1>1. CASE UNCHANGED vars
  BY <1>1 DEF vars, tripVars, movementVars, Inv, MovementTypeOK, Aimed, Lands, Active
<1>2. CASE \E p \in Destinations : Start(p)
  BY <1>2, StartKeeps
<1>3. CASE \E p \in Spots : WorldChange(p)
  BY <1>3, WorldChangeKeeps
<1>4. CASE Cancel
  BY <1>4, CancelKeeps
<1>5. CASE SearchFinishes \/ SearchPanics
  BY <1>5, SearchFinishesKeeps, SearchPanicsKeeps
<1>6. CASE CheckArrival \/ FollowNothing \/ FollowMovementFailed
  BY <1>6, CheckArrivalKeeps, FollowNothingKeeps, FollowMovementFailedKeeps
<1>7. ASSUME NEW sample \in Samples, Tick(sample) PROVE Inv' /\ Lands
  BY <1>7, TickPlanningKeeps, TickRecalculatingKeeps, FollowOffRouteKeeps, FollowBlockedKeeps,
     FollowNextWaypointKeeps, FollowSubmitKeeps, FollowWalkKeeps, CompleteSegmentKeeps DEF Tick
<1>8. CASE MovementTick
  BY <1>8, MovementTickKeeps
<1>9. CASE \/ ClientWalks \/ ConnectionLost \/ ConnectionBack
           \/ \E p \in Spots : FollowPlayer(p) \/ Displaced(p)
  BY <1>9, OutsideKeeps
<1> QED BY <1>1, <1>2, <1>3, <1>4, <1>5, <1>6, <1>7, <1>8, <1>9 DEF Next, PathfindingTick

\* The invariant always holds.
LEMMA InvIsInvariant == Spec => []Inv
<1>1. Inv /\ [Next]_vars => Inv'
  BY NextKeeps
<1> QED BY InitHolds, <1>1, PTL DEF Spec

\* The snapshot, the plan, the search and the follower of a trip keep their
\* shapes whatever goes wrong, and the cursor never leaves the plan.
THEOREM TypesHold == Spec => []TypeOK
<1>1. Inv => TypeOK
  <2> SUFFICES ASSUME Inv PROVE TypeOK
    OBVIOUS
  <2>1. Shape(trip) /\ MovementTypeOK
    BY DEF Inv, Sound
  <2>2. trip.current \in 0 .. Len(trip.plan)
    BY <2>1, ShapeFacts DEF Shape
  <2>3. \A i \in DOMAIN trip.plan : trip.plan[i] \in Segments
    BY <2>1, ShapeFacts DEF RoutedSegments
  <2> QED BY <2>1, <2>2, <2>3 DEF TypeOK, Shape, Trips, Searches
<1> QED BY <1>1, InvIsInvariant, PTL

\* Every way out of the active states, a failure among them, gives up the search
\* that was running.
THEOREM EndsWithoutSearch == Spec => []NoSearchAfterwards
<1>1. Inv => NoSearchAfterwards
  BY DEF Inv, Sound, NoSearchAfterwards, Active
<1> QED BY <1>1, InvIsInvariant, PTL

\* A segment is followed only along its own route, and the movement service goes
\* where the follower believes it has sent it, across replans, invalidated
\* segments and a cursor that moves on.
THEOREM RouteIsFollowed == Spec => []FollowsItsRoute
<1>1. Inv => FollowsItsRoute
  BY DEF Inv, Sound, Follower, Aimed, FollowsItsRoute, Aim
<1> QED BY <1>1, InvIsInvariant, PTL

\* Whatever state a trip was in when it arrived or was cancelled, the bot has been
\* told to stop by then.
THEOREM StandsStill == Spec => EndsStandingStill
<1>1. Inv /\ [Next]_vars =>
        [Active /\ trip'.state \in {"Arrived", "Cancelled"} =>
           route' = None /\ status' \notin {"MovingToPosition", "FollowingPlayer"}]_vars
  <2> SUFFICES ASSUME Inv, [Next]_vars, Active, trip'.state \in {"Arrived", "Cancelled"}
               PROVE  route' = None /\ status' \notin {"MovingToPosition", "FollowingPlayer"}
    OBVIOUS
  <2>1. Stop
    BY NextKeeps DEF Lands
  <2> QED BY <2>1 DEF Stop
<1> QED BY <1>1, InvIsInvariant, PTL DEF Spec, EndsStandingStill
=============================================================================
