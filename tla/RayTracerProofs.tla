--------------------------- MODULE RayTracerProofs --------------------------
(***************************************************************************)
(* Proofs about RayTracer, for every number of rays, every pair of bounds  *)
(* and every number of runs.                                               *)
(***************************************************************************)
EXTENDS RayTracer, TLAPS

(* The flat array of child rays has a slot for each child of each ray ...  *)
LEMMA IndexInRange == \A i, m \in Rays : Index(i, m) \in ChildSlots
<1>1. SUFFICES ASSUME NEW i \in Rays, NEW m \in Rays
               PROVE  Index(i, m) \in ChildSlots
  OBVIOUS
<1>2. (N - 1 - i) * N >= 0
  BY NAssumption DEF Rays
<1>3. i * N + m <= N * N - 1
  BY <1>2, NAssumption DEF Rays
<1> QED BY <1>3, NAssumption DEF Rays, Index, ChildSlots

(* ... and no two of them share one.                                       *)
LEMMA IndexInjective ==
  \A i, j, m, n \in Rays : Index(i, m) = Index(j, n) => i = j /\ m = n
<1>1. SUFFICES ASSUME NEW i \in Rays, NEW j \in Rays, NEW m \in Rays, NEW n \in Rays,
                      i * N + m = j * N + n
               PROVE  i = j
  BY NAssumption DEF Index, Rays
<1>2. CASE i < j
  <2>1. (j - i - 1) * N >= 0
    BY <1>2, NAssumption DEF Rays
  <2> QED BY <1>1, <2>1, NAssumption DEF Rays
<1>3. CASE j < i
  <2>1. (i - j - 1) * N >= 0
    BY <1>3, NAssumption DEF Rays
  <2> QED BY <1>1, <2>1, NAssumption DEF Rays
<1> QED BY <1>2, <1>3, NAssumption DEF Rays

(* How the loop counters move.                                             *)
LEMMA NextRayMoves ==
  ASSUME ray \in Rays, NextRay
  PROVE  /\ ray' \in Rays
         /\ \/ pc' = "ray" /\ ray' = ray + 1
            \/ pc' = "collect" /\ ray = N - 1
BY NAssumption DEF NextRay, Rays

LEMMA NextChildMoves ==
  ASSUME ray \in Rays, child \in Rays, NextChild
  PROVE  /\ ray' \in Rays /\ child' \in Rays
         /\ \/ pc' = pc /\ ray' = ray /\ child' = child + 1
            \/ pc' = "ray" /\ ray' = ray + 1 /\ child = N - 1
            \/ pc' = "collect" /\ ray = N - 1 /\ child = N - 1
BY NextRayMoves, NAssumption DEF NextChild, Rays

(* Recording a point keeps a path, and a walk, well typed.                 *)
LEMMA RecordTypes ==
  ASSUME run \in Nat
  PROVE  /\ Empty \in Path /\ Started \in Walk
         /\ \A p \in Path : /\ WithRx(p) \in Path
                            /\ \A k \in Kinds : WithPoint(p, k) \in Path
         /\ \A w \in Walk, e \in Ends :
              /\ Ended(w, e) \in Walk
              /\ \A k \in Kinds : Step(w, k, e) \in Walk
<1>1. Empty \in Path /\ Started \in Walk
  BY DEF Empty, Started, Path, Walk, Ends
<1>2. \A k \in Kinds : Mark(k) \in Tag
  BY DEF Mark, Tag
<1>3. \A s \in Seq(Tag), k \in Kinds : Append(s, Mark(k)) \in Seq(Tag)
  BY <1>2
<1>4. ASSUME NEW p \in Path
      PROVE  /\ WithRx(p) \in Path
             /\ \A k \in Kinds : WithPoint(p, k) \in Path
  BY <1>3 DEF Path, WithRx, WithPoint, Kinds
<1>5. ASSUME NEW w \in Walk, NEW e \in Ends
      PROVE  /\ Ended(w, e) \in Walk
             /\ \A k \in Kinds : Step(w, k, e) \in Walk
  BY <1>3 DEF Walk, Ended, Step
<1> QED BY <1>1, <1>4, <1>5

LEMMA ReportTypes ==
  ASSUME TypeOK, NEW i \in Rays, NEW e \in ReportOf(i)
  PROVE  e.ray = i /\ e.path \in Seq(Tag)
<1>1. points[i].point \in Seq(Tag)
  BY DEF TypeOK, Path
<1>2. \A m \in Rays : diffractionPoints[Index(i, m)].point \in Seq(Tag)
  BY IndexInRange DEF TypeOK, Path
<1>3. CASE points[i].isFind
  BY <1>1, <1>3 DEF ReportOf
<1>4. CASE ~points[i].isFind
  <2>1. e \in PathsViaChildren(i)
    BY <1>4 DEF ReportOf
  <2>2. PICK m \in Rays :
          e = [ray |-> i, child |-> m,
               path |-> points[i].point \o diffractionPoints[Index(i, m)].point]
    BY <2>1 DEF PathsViaChildren, Found
  <2> QED BY <2>2, <1>1, <1>2
<1> QED BY <1>3, <1>4

-----------------------------------------------------------------------------

(* The type invariant: the counters of the three nested loops stay within  *)
(* the arrays they index, whatever the rays meet.                          *)
THEOREM TypeCorrect == Spec => []TypeOK
<1>1. Init => TypeOK
  <2> SUFFICES ASSUME Init PROVE TypeOK
    OBVIOUS
  <2>1. run \in Nat
    BY DEF Init
  <2>2. Empty \in Path /\ Started \in Walk
    BY <2>1, RecordTypes
  <2>3. points \in [Rays -> Path] /\ walk \in [Rays -> Walk]
    BY <2>2 DEF Init
  <2>4. /\ diffractionPoints \in [ChildSlots -> Path]
        /\ childWalk \in [ChildSlots -> Walk]
    BY <2>2 DEF Init
  <2>5. ray \in Rays /\ child \in Rays
    BY NAssumption DEF Init, Rays
  <2> QED BY <2>1, <2>3, <2>4, <2>5 DEF Init, TypeOK
<1>2. TypeOK /\ [Next]_vars => TypeOK'
  <2> SUFFICES ASSUME TypeOK, [Next]_vars PROVE TypeOK'
    OBVIOUS
  <2> USE DEF TypeOK
  <2>0. CASE UNCHANGED vars
    BY <2>0 DEF vars, store, history
  <2>1. CASE UpdateTx
    BY <2>1 DEF UpdateTx, store, history
  <2>2. CASE BeginRun
    BY <2>2, RecordTypes, NAssumption DEF BeginRun, store, Rays
  <2>3. CASE Reach
    BY <2>3, RecordTypes, NextRayMoves DEF Reach, Kinds, Ends
  <2>4. CASE Reflect
    BY <2>4, RecordTypes DEF Reflect, Kinds, Ends
  <2>5. CASE ExceedReflect
    BY <2>5, RecordTypes, NextRayMoves DEF ExceedReflect, Kinds, Ends
  <2>6. CASE Corner
    BY <2>6, RecordTypes, NAssumption DEF Corner, Kinds, Ends, Rays
  <2>7. CASE ExceedCorner
    BY <2>7, RecordTypes, NextRayMoves DEF ExceedCorner, Kinds, Ends
  <2>8. CASE Inside
    BY <2>8, RecordTypes, NextRayMoves DEF Inside, Ends
  <2>9. CASE Leave
    BY <2>9, RecordTypes, NextRayMoves DEF Leave, store, Ends
  <2>10. Current \in ChildSlots
    BY IndexInRange DEF Current
  <2>11. CASE ChildReach
    BY <2>11, <2>10, RecordTypes, NextChildMoves DEF ChildReach, OnChild, Kinds, Ends
  <2>12. CASE ChildReflect
    BY <2>12, <2>10, RecordTypes DEF ChildReflect, Kinds, Ends
  <2>13. CASE ChildExceed
    BY <2>13, <2>10, RecordTypes, NextChildMoves DEF ChildExceed, OnChild, Kinds, Ends
  <2>14. CASE ChildInside
    BY <2>14, <2>10, RecordTypes, NextChildMoves DEF ChildInside, OnChild, Ends
  <2>15. CASE ChildLeave
    BY <2>15, <2>10, RecordTypes, NextChildMoves DEF ChildLeave, OnChild, store, Ends
  <2>16. CASE Overrun
    BY <2>16 DEF Overrun, store, history
  <2>17. CASE Collect
    <3>1. \A e \in getResult' : e.ray \in Rays /\ e.path \in Seq(Tag)
      BY <2>17, ReportTypes DEF Collect
    <3> QED BY <2>17, <3>1 DEF Collect, store, history
  <2> QED
    BY <2>0, <2>1, <2>2, <2>3, <2>4, <2>5, <2>6, <2>7, <2>8, <2>9, <2>11,
       <2>12, <2>13, <2>14, <2>15, <2>16, <2>17
       DEF Next, TraceStep, RayStep, ChildStep
<1> QED BY <1>1, <1>2, PTL DEF Spec

-----------------------------------------------------------------------------

(* Recording the receiver makes a path hold it, recording another point    *)
(* changes nothing about that, and an emptied path does not hold it.       *)
LEMMA HoldsRxFacts ==
  ASSUME run \in Nat, NEW p \in Path
  PROVE  /\ HoldsRx(WithRx(p)) /\ WithRx(p).isFind
         /\ ~HoldsRx(Empty) /\ ~Empty.isFind
         /\ \A k \in {"reflection", "corner"} :
              /\ WithPoint(p, k).isFind = p.isFind
              /\ HoldsRx(WithPoint(p, k)) <=> HoldsRx(p)
<1>1. p.point \in Seq(Tag) /\ p = [point |-> p.point, isFind |-> p.isFind]
  BY DEF Path
<1>2. HoldsRx(WithRx(p)) /\ WithRx(p).isFind
  <2>1. /\ WithRx(p).point = Append(p.point, Mark("rx"))
        /\ WithRx(p).isFind
    BY DEF WithRx
  <2>2. /\ Len(p.point) + 1 \in 1 .. Len(WithRx(p).point)
        /\ WithRx(p).point[Len(p.point) + 1] = Mark("rx")
    BY <1>1, <2>1
  <2> QED BY <2>1, <2>2 DEF HoldsRx, Mark
<1>3. ~HoldsRx(Empty) /\ ~Empty.isFind
  BY DEF HoldsRx, Empty
<1>4. ASSUME NEW k \in {"reflection", "corner"}
      PROVE  /\ WithPoint(p, k).isFind = p.isFind
             /\ HoldsRx(WithPoint(p, k)) <=> HoldsRx(p)
  <2>1. /\ WithPoint(p, k).point = Append(p.point, Mark(k))
        /\ WithPoint(p, k).isFind = p.isFind
    BY <1>1 DEF WithPoint
  <2>2. Mark(k).kind # "rx"
    BY DEF Mark
  <2>3. /\ Len(WithPoint(p, k).point) = Len(p.point) + 1
        /\ WithPoint(p, k).point[Len(p.point) + 1] = Mark(k)
        /\ \A n \in 1 .. Len(p.point) : WithPoint(p, k).point[n] = p.point[n]
    BY <1>1, <2>1
  <2>4. Len(p.point) \in Nat
    BY <1>1
  <2> QED BY <2>1, <2>2, <2>3, <2>4 DEF HoldsRx
<1> QED BY <1>2, <1>3, <1>4

(* isFind and the receiver's point go together, over any number of runs.   *)
THEOREM FoundCorrect == Spec => []FoundIffRx
<1>1. Init => FoundIffRx
  <2>1. ~HoldsRx(Empty) /\ ~Empty.isFind
    BY DEF HoldsRx, Empty
  <2> QED BY <2>1 DEF Init, FoundIffRx
<1>2. TypeOK /\ FoundIffRx /\ [Next]_vars => FoundIffRx'
  <2> SUFFICES ASSUME TypeOK, FoundIffRx, [Next]_vars PROVE FoundIffRx'
    OBVIOUS
  <2>1. run \in Nat /\ ray \in Rays /\ Current \in ChildSlots
    BY IndexInRange DEF TypeOK, Current
  <2>2. points \in [Rays -> Path] /\ diffractionPoints \in [ChildSlots -> Path]
    BY DEF TypeOK
  <2>3. points[ray] \in Path /\ diffractionPoints[Current] \in Path
    BY <2>1, <2>2
  <2>4. CASE UNCHANGED <<points, diffractionPoints>>
    BY <2>4 DEF FoundIffRx, HoldsRx
  (* One path becomes another: it is enough that the new one agrees.       *)
  <2>5. ASSUME NEW p, p.isFind <=> HoldsRx(p),
               \/ points' = [points EXCEPT ![ray] = p]
                  /\ UNCHANGED diffractionPoints
               \/ diffractionPoints' = [diffractionPoints EXCEPT ![Current] = p]
                  /\ UNCHANGED points
        PROVE  FoundIffRx'
    <3>1. /\ \A i \in Rays : points'[i] = points[i] \/ points'[i] = p
          /\ \A k \in ChildSlots : \/ diffractionPoints'[k] = diffractionPoints[k]
                                  \/ diffractionPoints'[k] = p
      BY <2>1, <2>2, <2>5
    <3>2. \A i \in Rays : points'[i].isFind <=> HoldsRx(points'[i])
      BY <3>1, <2>5 DEF FoundIffRx
    <3>3. \A k \in ChildSlots :
            diffractionPoints'[k].isFind <=> HoldsRx(diffractionPoints'[k])
      BY <3>1, <2>5 DEF FoundIffRx
    <3> QED BY <3>2, <3>3 DEF FoundIffRx, HoldsRx
  <2>6. Reach \/ ChildReach => FoundIffRx'
    BY <2>1, <2>3, <2>5, HoldsRxFacts DEF Reach, ChildReach
  <2>7. Reflect \/ Corner \/ ChildReflect => FoundIffRx'
    <3>1. ASSUME NEW p \in Path, p.isFind <=> HoldsRx(p),
                 NEW k \in {"reflection", "corner"}
          PROVE  WithPoint(p, k).isFind <=> HoldsRx(WithPoint(p, k))
      BY <3>1, <2>1, HoldsRxFacts
    <3> QED BY <2>1, <2>3, <2>5, <3>1
            DEF Reflect, Corner, ChildReflect, FoundIffRx
  <2>8. ExceedReflect \/ ExceedCorner \/ Inside \/ ChildExceed \/ ChildInside
          => FoundIffRx'
    BY <2>1, <2>3, <2>5, HoldsRxFacts
       DEF ExceedReflect, ExceedCorner, Inside, ChildExceed, ChildInside
  <2>9. UpdateTx \/ BeginRun \/ Leave \/ ChildLeave \/ Overrun \/ Collect
        \/ UNCHANGED vars => FoundIffRx'
    BY <2>4 DEF UpdateTx, BeginRun, Leave, ChildLeave, Overrun, Collect, vars, store
  <2> QED BY <2>6, <2>7, <2>8, <2>9 DEF Next, TraceStep, RayStep, ChildStep
<1> QED BY <1>1, <1>2, TypeCorrect, PTL DEF Spec

-----------------------------------------------------------------------------

(* Tracing a ray leaves the other rays' paths and children alone.          *)
THEOREM RaysAreIndependent == Spec => RaysIndependent
<1> DEFINE Others ==
      \A i \in Rays : pc \in {"ray", "child"} /\ i # ray =>
        /\ points'[i] = points[i]
        /\ \A m \in Rays :
             diffractionPoints'[Index(i, m)] = diffractionPoints[Index(i, m)]
<1>1. TypeOK /\ [Next]_vars => Others
  <2> SUFFICES ASSUME TypeOK, [Next]_vars, NEW i \in Rays,
                      pc \in {"ray", "child"}, i # ray
               PROVE  /\ points'[i] = points[i]
                      /\ \A m \in Rays : diffractionPoints'[Index(i, m)]
                                         = diffractionPoints[Index(i, m)]
    OBVIOUS
  <2>1. \A m \in Rays : Index(i, m) # Current
    BY IndexInjective DEF TypeOK, Current
  <2>2. /\ points \in [Rays -> Path] /\ diffractionPoints \in [ChildSlots -> Path]
        /\ \A m \in Rays : Index(i, m) \in ChildSlots
    BY IndexInRange DEF TypeOK
  <2>3. ~UpdateTx /\ ~BeginRun /\ ~Collect
    BY DEF UpdateTx, BeginRun, Collect
  <2>4. RayStep => UNCHANGED diffractionPoints /\ points'[i] = points[i]
    BY <2>2 DEF RayStep, Reach, Reflect, ExceedReflect, Corner, ExceedCorner,
                Inside, Leave, store
  <2>5. ChildStep => UNCHANGED points
                     /\ \A m \in Rays : diffractionPoints'[Index(i, m)]
                                        = diffractionPoints[Index(i, m)]
    BY <2>1, <2>2 DEF ChildStep, ChildReach, ChildReflect, ChildExceed,
                      ChildInside, ChildLeave, store
  <2>6. Overrun \/ UNCHANGED vars => UNCHANGED <<points, diffractionPoints>>
    BY DEF Overrun, vars, store
  <2> QED BY <2>3, <2>4, <2>5, <2>6 DEF Next, TraceStep
<1>2. Others => [Others]_vars
  OBVIOUS
<1> QED BY <1>1, TypeCorrect, PTL DEF Spec, RaysIndependent

-----------------------------------------------------------------------------

(* Lengths after recording a point.                                        *)
LEMMA RecordLengths ==
  ASSUME run \in Nat, NEW p \in Path
  PROVE  /\ Len(WithRx(p).point) = Len(p.point) + 1
         /\ \A k \in Kinds : Len(WithPoint(p, k).point) = Len(p.point) + 1
         /\ Len(Empty.point) = 0
         /\ Len(p.point) \in Nat
BY DEF Path, WithRx, WithPoint, Empty

(* What the bounds on N come to over repeated runs.  The reach branch      *)
(* checks no bound, but it ends the ray, so a run adds at most one point   *)
(* beyond what a bounded path could hold.                                  *)
THEOREM BudgetKept == Spec => []WithinBudget
<1>1. Init => WithinBudget
  <2> SUFFICES ASSUME Init PROVE WithinBudget
    OBVIOUS
  <2>1. /\ \A i \in Rays : Len(points[i].point) = 0
        /\ \A k \in ChildSlots : Len(diffractionPoints[k].point) = 0
    BY DEF Init, Empty
  <2> QED BY <2>1, IndexInRange, BoundAssumption
          DEF Init, WithinBudget, RayAhead, ChildAhead
<1>2. TypeOK /\ WithinBudget /\ [Next]_vars => WithinBudget'
  <2> SUFFICES ASSUME TypeOK, WithinBudget, [Next]_vars PROVE WithinBudget'
    OBVIOUS
  <2>1. run \in Nat /\ ray \in Rays /\ child \in Rays /\ Current \in ChildSlots
    BY IndexInRange DEF TypeOK, Current
  <2>2. points \in [Rays -> Path] /\ diffractionPoints \in [ChildSlots -> Path]
    BY DEF TypeOK
  <2>3. points[ray] \in Path /\ diffractionPoints[Current] \in Path
    BY <2>1, <2>2
  <2>4. \A i \in Rays : Len(points[i].point) \in Nat
    BY <2>2 DEF Path
  <2>5. \A i, m \in Rays : Len(diffractionPoints[Index(i, m)].point) \in Nat
    BY <2>2, IndexInRange DEF Path
  <2>6. \A i, m \in Rays : Index(i, m) = Current => i = ray /\ m = child
    BY <2>1, IndexInjective DEF Current
  <2> USE <2>1, <2>4, <2>5, NAssumption, BoundAssumption
  <2>7. CASE UNCHANGED vars
    BY <2>7 DEF vars, store, history, WithinBudget, RayAhead, ChildAhead
  <2>8. CASE UpdateTx
    BY <2>8 DEF UpdateTx, store, history, WithinBudget, RayAhead, ChildAhead
  <2>9. CASE BeginRun
    <3>1. /\ \A i \in Rays : Len(points[i].point) <= MaxReflect + run
          /\ \A i, m \in Rays :
               Len(diffractionPoints[Index(i, m)].point) <= MaxAfterDiffraction + run
      BY <2>9 DEF BeginRun, WithinBudget, RayAhead, ChildAhead
    <3>2. /\ pc' = "ray" /\ run' = run + 1 /\ ray' = 0
          /\ points' = points /\ diffractionPoints' = diffractionPoints
      BY <2>9 DEF BeginRun, store
    <3>3. \A i \in Rays : i >= 0
      BY DEF Rays
    <3> QED BY <3>1, <3>2, <3>3 DEF WithinBudget, RayAhead, ChildAhead
  <2>10. CASE RayStep
    <3>1. run' = run /\ run >= 1 /\ diffractionPoints' = diffractionPoints /\ pc = "ray"
      BY <2>10 DEF RayStep, Reach, Reflect, ExceedReflect, Corner, ExceedCorner,
                   Inside, Leave, OnRay, store, WithinBudget
    (* The ray either is finished, or met a wall or a corner below its bound. *)
    <3>2. \/ NextRay /\ Len(points'[ray].point) <= Len(points[ray].point) + 1
          \/ /\ pc' = "ray" /\ ray' = ray
             /\ Len(points'[ray].point) <= MaxReflect
          \/ /\ pc' = "child" /\ ray' = ray /\ child' = 0
             /\ Len(points'[ray].point) <= MaxReflect
      BY <2>10, <2>2, <2>3, RecordLengths
         DEF RayStep, Reach, Reflect, ExceedReflect, Corner, ExceedCorner, Inside,
             Leave, OnRay, store, Kinds
    <3>3. \A i \in Rays : i # ray => points'[i] = points[i]
      BY <2>10, <2>2 DEF RayStep, Reach, Reflect, ExceedReflect, Corner,
                         ExceedCorner, Inside, Leave, store
    <3>4. Len(points'[ray].point) \in Nat
      BY <2>10, <2>2, <2>3, RecordLengths
         DEF RayStep, Reach, Reflect, ExceedReflect, Corner, ExceedCorner, Inside,
             Leave, store, Kinds
    <3>5. /\ \A i \in Rays :
               /\ Len(points[i].point) <= MaxReflect + run
               /\ i >= ray => Len(points[i].point) < MaxReflect + run
          /\ \A i, m \in Rays :
               LET n == Len(diffractionPoints[Index(i, m)].point) IN
               /\ n <= MaxAfterDiffraction + run
               /\ i >= ray => n < MaxAfterDiffraction + run
      BY <3>1 DEF WithinBudget, RayAhead, ChildAhead
    <3>6. \A i \in Rays : i \in Int /\ i >= 0 /\ i <= N - 1
      BY DEF Rays
    <3>7. CASE NextRay /\ Len(points'[ray].point) <= Len(points[ray].point) + 1
      <4>1. \A i \in Rays : RayAhead(i)' => i > ray
        BY <3>6, <3>7, NextRayMoves DEF RayAhead
      <4>2. \A i, m \in Rays : ChildAhead(i, m)' => i > ray
        BY <3>6, <3>7, NextRayMoves DEF ChildAhead
      <4>3. ASSUME NEW i \in Rays
            PROVE  /\ Len(points'[i].point) <= MaxReflect + run
                   /\ RayAhead(i)' => Len(points'[i].point) < MaxReflect + run
        <5>1. CASE i = ray
          BY <3>1, <3>4, <3>5, <3>6, <3>7, <4>1, <5>1
        <5>2. CASE i # ray
          BY <3>1, <3>3, <3>5, <3>6, <3>7, <4>1, <5>2
        <5> QED BY <5>1, <5>2
      <4>4. \A i, m \in Rays :
              LET n == Len(diffractionPoints'[Index(i, m)].point) IN
              /\ n <= MaxAfterDiffraction + run
              /\ ChildAhead(i, m)' => n < MaxAfterDiffraction + run
        BY <3>1, <3>5, <3>6, <4>2
      <4> QED BY <3>1, <4>3, <4>4 DEF WithinBudget
    <3>8. CASE /\ pc' = "ray" /\ ray' = ray
               /\ Len(points'[ray].point) <= MaxReflect
      <4>1. ASSUME NEW i \in Rays
            PROVE  /\ Len(points'[i].point) <= MaxReflect + run
                   /\ RayAhead(i)' => Len(points'[i].point) < MaxReflect + run
        <5>1. CASE i = ray
          BY <3>1, <3>4, <3>5, <3>6, <3>8, <5>1 DEF RayAhead
        <5>2. CASE i # ray
          BY <3>1, <3>3, <3>5, <3>6, <3>8, <5>2 DEF RayAhead
        <5> QED BY <5>1, <5>2
      <4>2. \A i, m \in Rays :
              LET n == Len(diffractionPoints'[Index(i, m)].point) IN
              /\ n <= MaxAfterDiffraction + run
              /\ ChildAhead(i, m)' => n < MaxAfterDiffraction + run
        BY <3>1, <3>5, <3>6, <3>8 DEF ChildAhead
      <4> QED BY <3>1, <4>1, <4>2 DEF WithinBudget
    <3>9. CASE /\ pc' = "child" /\ ray' = ray /\ child' = 0
               /\ Len(points'[ray].point) <= MaxReflect
      <4>1. \A i \in Rays :
              /\ Len(points'[i].point) <= MaxReflect + run
              /\ RayAhead(i)' => Len(points'[i].point) < MaxReflect + run
        BY <3>1, <3>3, <3>4, <3>5, <3>6, <3>9 DEF RayAhead
      <4>2. \A i, m \in Rays :
              LET n == Len(diffractionPoints'[Index(i, m)].point) IN
              /\ n <= MaxAfterDiffraction + run
              /\ ChildAhead(i, m)' => n < MaxAfterDiffraction + run
        BY <3>1, <3>5, <3>6, <3>9 DEF ChildAhead
      <4> QED BY <3>1, <4>1, <4>2 DEF WithinBudget
    <3> QED BY <3>2, <3>7, <3>8, <3>9
  <2>11. CASE ChildStep
    <3>1. run' = run /\ run >= 1 /\ points' = points /\ pc = "child"
      BY <2>11 DEF ChildStep, ChildReach, ChildReflect, ChildExceed, ChildInside,
                   ChildLeave, OnChild, store, WithinBudget
    <3>2. /\ Len(diffractionPoints'[Current].point) \in Nat
          /\ \/ /\ NextChild
                /\ Len(diffractionPoints'[Current].point)
                     <= Len(diffractionPoints[Current].point) + 1
             \/ /\ UNCHANGED <<pc, ray, child>>
                /\ Len(diffractionPoints'[Current].point) <= MaxAfterDiffraction
      BY <2>11, <2>2, <2>3, RecordLengths
         DEF ChildStep, ChildReach, ChildReflect, ChildExceed, ChildInside,
             ChildLeave, store, Kinds
    <3>3. \A i, m \in Rays : i # ray \/ m # child =>
            diffractionPoints'[Index(i, m)] = diffractionPoints[Index(i, m)]
      BY <2>11, <2>2, <2>6, IndexInRange
         DEF ChildStep, ChildReach, ChildReflect, ChildExceed, ChildInside,
             ChildLeave, store
    <3>4. /\ \A i \in Rays :
               /\ Len(points[i].point) <= MaxReflect + run
               /\ i >= ray => Len(points[i].point) < MaxReflect + run
          /\ \A i, m \in Rays :
               LET n == Len(diffractionPoints[Index(i, m)].point) IN
               /\ n <= MaxAfterDiffraction + run
               /\ i > ray \/ (i = ray /\ m >= child) => n < MaxAfterDiffraction + run
      BY <3>1 DEF WithinBudget, RayAhead, ChildAhead
    <3>5. \A i \in Rays : i \in Int /\ i >= 0 /\ i <= N - 1
      BY DEF Rays
    <3>6. CASE /\ NextChild
               /\ Len(diffractionPoints'[Current].point)
                     <= Len(diffractionPoints[Current].point) + 1
      <4>1. \A i \in Rays : RayAhead(i)' => i >= ray
        BY <3>1, <3>5, <3>6, NextChildMoves DEF RayAhead
      <4>2. \A i, m \in Rays :
              ChildAhead(i, m)' => i > ray \/ (i = ray /\ m > child)
        BY <3>1, <3>5, <3>6, NextChildMoves DEF ChildAhead
      <4>3. \A i \in Rays :
              /\ Len(points'[i].point) <= MaxReflect + run
              /\ RayAhead(i)' => Len(points'[i].point) < MaxReflect + run
        BY <3>1, <3>4, <3>5, <4>1
      <4>4. ASSUME NEW i \in Rays, NEW m \in Rays
            PROVE  LET n == Len(diffractionPoints'[Index(i, m)].point) IN
                   /\ n <= MaxAfterDiffraction + run
                   /\ ChildAhead(i, m)' => n < MaxAfterDiffraction + run
        <5>1. CASE i = ray /\ m = child
          BY <3>1, <3>2, <3>4, <3>5, <3>6, <4>2, <5>1 DEF Current
        <5>2. CASE i # ray \/ m # child
          BY <3>1, <3>3, <3>4, <3>5, <4>2, <5>2
        <5> QED BY <5>1, <5>2
      <4> QED BY <3>1, <4>3, <4>4 DEF WithinBudget
    <3>7. CASE /\ UNCHANGED <<pc, ray, child>>
               /\ Len(diffractionPoints'[Current].point) <= MaxAfterDiffraction
      <4>1. \A i \in Rays :
              /\ Len(points'[i].point) <= MaxReflect + run
              /\ RayAhead(i)' => Len(points'[i].point) < MaxReflect + run
        BY <3>1, <3>4, <3>5, <3>7 DEF RayAhead
      <4>2. ASSUME NEW i \in Rays, NEW m \in Rays
            PROVE  LET n == Len(diffractionPoints'[Index(i, m)].point) IN
                   /\ n <= MaxAfterDiffraction + run
                   /\ ChildAhead(i, m)' => n < MaxAfterDiffraction + run
        <5>1. CASE i = ray /\ m = child
          BY <3>1, <3>2, <3>5, <3>7, <5>1 DEF ChildAhead, Current
        <5>2. CASE i # ray \/ m # child
          BY <3>1, <3>3, <3>4, <3>5, <3>7, <5>2 DEF ChildAhead
        <5> QED BY <5>1, <5>2
      <4> QED BY <3>1, <4>1, <4>2 DEF WithinBudget
    <3> QED BY <3>2, <3>6, <3>7
  <2>12. CASE Overrun \/ Collect
    BY <2>12 DEF Overrun, OnRay, OnChild, Collect, store, history, WithinBudget,
                RayAhead, ChildAhead, Rays
  <2> QED BY <2>7, <2>8, <2>9, <2>10, <2>11, <2>12 DEF Next, TraceStep
<1> QED BY <1>1, <1>2, TypeCorrect, PTL DEF Spec

(* The server's arrays of 30 points outlast 30 - 5 runs, whatever the rays *)
(* meet: only a later call of runVPL can write behind them.                *)
THEOREM NoOverrunInFirstRuns == Spec => []NoEarlyOverrun
<1>1. Init => NoEarlyOverrun
  BY DEF Init, NoEarlyOverrun
<1>2. TypeOK /\ WithinBudget /\ NoEarlyOverrun /\ [Next]_vars => NoEarlyOverrun'
  <2> SUFFICES ASSUME TypeOK, WithinBudget, NoEarlyOverrun, [Next]_vars
               PROVE  NoEarlyOverrun'
    OBVIOUS
  <2>1. CASE Overrun
    <3>1. run \in Nat /\ ray \in Rays /\ child \in Rays
      BY DEF TypeOK
    <3>2. CASE OnRay /\ ~HasRoom(points[ray])
      <4>1. points[ray].point \in Seq(Tag)
        BY <3>1 DEF TypeOK, Path
      <4>2. Len(points[ray].point) >= Slots
        BY <4>1, <3>2, BoundAssumption DEF HasRoom
      <4>3. Len(points[ray].point) < MaxReflect + run
        BY <3>1, <3>2, NAssumption
           DEF WithinBudget, RayAhead, OnRay, Rays
      <4> QED BY <4>1, <4>2, <4>3, <3>1, <2>1, BoundAssumption
              DEF Overrun, history, NoEarlyOverrun
    <3>3. CASE OnChild /\ ~HasRoom(diffractionPoints[Current])
      <4>1. diffractionPoints[Current].point \in Seq(Tag)
        BY <3>1, IndexInRange DEF TypeOK, Path, Current
      <4>2. Len(diffractionPoints[Current].point) >= Slots
        BY <4>1, <3>3, BoundAssumption DEF HasRoom
      <4>3. Len(diffractionPoints[Current].point) < MaxAfterDiffraction + run
        <5>1. ChildAhead(ray, child)
          BY <3>1, <3>3, NAssumption DEF ChildAhead, OnChild, Rays
        <5> QED BY <3>1, <5>1 DEF WithinBudget, Current
      <4> QED BY <4>1, <4>2, <4>3, <3>1, <2>1, BoundAssumption
              DEF Overrun, history, NoEarlyOverrun
    <3> QED BY <2>1, <3>2, <3>3 DEF Overrun
  <2>2. CASE UNCHANGED vars \/ UpdateTx
    BY <2>2 DEF vars, history, UpdateTx, NoEarlyOverrun
  <2>3. CASE BeginRun \/ Collect
    BY <2>3 DEF BeginRun, Collect, NoEarlyOverrun
  <2>4. CASE RayStep
    <3>1. pc' \in {"ray", "child", "collect"}
      BY <2>4 DEF RayStep, Reach, Reflect, ExceedReflect, Corner, ExceedCorner,
                  Inside, Leave, NextRay, OnRay
    <3> QED BY <3>1 DEF NoEarlyOverrun
  <2>5. CASE ChildStep
    <3>1. pc' \in {"ray", "child", "collect"}
      BY <2>5 DEF ChildStep, ChildReach, ChildReflect, ChildExceed, ChildInside,
                  ChildLeave, NextChild, NextRay, OnChild
    <3> QED BY <3>1 DEF NoEarlyOverrun
  <2> QED BY <2>1, <2>2, <2>3, <2>4, <2>5 DEF Next, TraceStep
<1> QED BY <1>1, <1>2, TypeCorrect, BudgetKept, PTL DEF Spec

-----------------------------------------------------------------------------

(* Only the break after a corner loses a buffer, and it ends the ray.      *)
THEOREM LeakBounded == Spec => []LeakBound
<1>1. Init => LeakSoFar
  BY NAssumption DEF Init, LeakSoFar
<1>2. TypeOK /\ LeakSoFar /\ [Next]_vars => LeakSoFar'
  <2> SUFFICES ASSUME TypeOK, LeakSoFar, [Next]_vars PROVE LeakSoFar'
    OBVIOUS
  <2>1. /\ run \in Nat /\ leaked \in Nat /\ ray \in Nat /\ ray <= N - 1
        /\ N \in Nat /\ run * N \in Nat /\ (run - 1) * N = run * N - N
    BY NAssumption DEF TypeOK, Rays
  <2>2. leaked <= run * N
    BY <2>1 DEF LeakSoFar
  <2>3. CASE UNCHANGED vars \/ UpdateTx \/ Collect
    BY <2>3 DEF vars, store, history, UpdateTx, Collect, LeakSoFar
  <2>4. CASE BeginRun
    <3>1. /\ leaked' = leaked /\ run' = run + 1 /\ pc' = "ray" /\ ray' = 0
      BY <2>4 DEF BeginRun, store
    <3>2. (run' - 1) * N + ray' = run * N
      BY <3>1, <2>1
    <3> QED BY <3>1, <3>2, <2>2 DEF LeakSoFar
  <2>5. CASE RayStep
    <3>1. leaked <= run * N - N + ray
      BY <2>5, <2>1 DEF LeakSoFar, RayStep, Reach, Reflect, ExceedReflect, Corner,
                        ExceedCorner, Inside, Leave, OnRay
    <3>2. /\ run' = run
          /\ \/ NextRay /\ leaked' \in {leaked, leaked + 1}
             \/ ray' = ray /\ pc' \in {"ray", "child"} /\ leaked' = leaked
      BY <2>5 DEF RayStep, Reach, Reflect, ExceedReflect, Corner, ExceedCorner,
                  Inside, Leave, OnRay, store
    <3>3. (run' - 1) * N + ray' = run * N - N + ray'
      BY <3>2, <2>1
    <3> QED BY <3>1, <3>2, <3>3, <2>1, NextRayMoves DEF LeakSoFar, TypeOK
  <2>6. CASE ChildStep
    <3>1. leaked <= run * N - N + ray
      BY <2>6, <2>1 DEF LeakSoFar, ChildStep, ChildReach, ChildReflect, ChildExceed,
                        ChildInside, ChildLeave, OnChild
    <3>2. /\ run' = run /\ leaked' = leaked
          /\ NextChild \/ UNCHANGED <<pc, ray>>
      BY <2>6 DEF ChildStep, ChildReach, ChildReflect, ChildExceed, ChildInside,
                  ChildLeave, store
    <3>3. ray' \in Nat
      BY <3>2, <2>1, NextChildMoves DEF TypeOK, Rays
    <3>4. (run' - 1) * N + ray' = run * N - N + ray'
      BY <3>2, <3>3, <2>1
    <3>5. CASE NextChild
      BY <3>1, <3>2, <3>4, <3>5, <2>1, NextChildMoves DEF LeakSoFar, TypeOK
    <3>6. CASE UNCHANGED <<pc, ray>>
      BY <3>2, <3>6 DEF LeakSoFar
    <3> QED BY <3>2, <3>5, <3>6
  <2>7. CASE Overrun
    BY <2>7, <2>2 DEF Overrun, store, history, LeakSoFar
  <2> QED BY <2>3, <2>4, <2>5, <2>6, <2>7 DEF Next, TraceStep
<1>3. TypeOK /\ LeakSoFar => LeakBound
  <2> SUFFICES ASSUME TypeOK, LeakSoFar PROVE LeakBound
    OBVIOUS
  <2>1. /\ run \in Nat /\ leaked \in Nat /\ ray \in Nat /\ ray <= N - 1
        /\ N \in Nat /\ run * N \in Nat /\ (run - 1) * N = run * N - N
    BY NAssumption DEF TypeOK, Rays
  <2> QED BY <2>1 DEF LeakSoFar, LeakBound
<1> QED BY <1>1, <1>2, <1>3, TypeCorrect, PTL DEF Spec

-----------------------------------------------------------------------------

(* A path and a walk that agree still do after the same event.             *)
LEMMA AgreesSteps ==
  ASSUME run \in Nat, NEW p \in Path, NEW w \in Walk,
         Agrees(p, w), w.end = "walking"
  PROVE  /\ Agrees(WithRx(p), Step(w, "rx", "reached"))
         /\ \A k \in Kinds, e \in {"walking", "diffracted"} :
              Agrees(WithPoint(p, k), Step(w, k, e))
         /\ Agrees(p, Ended(w, "left"))
<1>1. p = [point |-> w.trail, isFind |-> FALSE]
  BY DEF Agrees
<1>2. WithRx(p) = [point |-> Append(w.trail, Mark("rx")), isFind |-> TRUE]
  BY <1>1 DEF WithRx
<1>3. ASSUME NEW k \in Kinds
      PROVE  WithPoint(p, k) = [point |-> Append(w.trail, Mark(k)), isFind |-> FALSE]
  <2>1. WithPoint(p, k) \in Path
    BY RecordTypes
  <2>2. /\ WithPoint(p, k).point = Append(p.point, Mark(k))
        /\ WithPoint(p, k).isFind = p.isFind
    BY DEF WithPoint, Path
  <2>3. p.point = w.trail /\ p.isFind = FALSE
    BY <1>1
  <2> QED BY <2>1, <2>2, <2>3 DEF Path
<1>4. \A k \in Kinds, e \in Ends : /\ Step(w, k, e).trail = Append(w.trail, Mark(k))
                                   /\ Step(w, k, e).end = e
  BY DEF Step
<1>5. Ended(w, "left").trail = w.trail /\ Ended(w, "left").end = "left"
  BY DEF Ended, Walk
<1>6. Agrees(WithRx(p), Step(w, "rx", "reached"))
  BY <1>2, <1>4 DEF Agrees, Kinds, Ends
<1>7. ASSUME NEW k \in Kinds, NEW e \in {"walking", "diffracted"}
      PROVE  Agrees(WithPoint(p, k), Step(w, k, e))
  <2>1. e \in Ends /\ e # "dropped" /\ e # "reached"
    BY DEF Ends
  <2>2. Step(w, k, e).end = e /\ Step(w, k, e).trail = Append(w.trail, Mark(k))
    BY <1>4, <2>1
  <2>3. Agrees(WithPoint(p, k), Step(w, k, e))
          <=> WithPoint(p, k) = [point |-> Step(w, k, e).trail, isFind |-> FALSE]
    BY <2>1, <2>2 DEF Agrees
  <2> QED BY <1>3, <2>2, <2>3
<1>8. Agrees(p, Ended(w, "left"))
  BY <1>1, <1>5 DEF Agrees
<1> QED BY <1>6, <1>7, <1>8

LEMMA AgreesDropped ==
  ASSUME NEW w \in Walk, NEW k \in Kinds
  PROVE  /\ Agrees(Empty, Step(w, k, "dropped"))
         /\ Agrees(Empty, Ended(w, "dropped"))
         /\ Agrees(Empty, Started)
BY DEF Agrees, Step, Ended, Started, Empty, Walk

(* The end of the walk that a step on the current ray leaves.              *)
LEMMA RayStepWalks ==
  ASSUME TypeOK, RayStep
  PROVE  /\ pc = "ray"
         /\ UNCHANGED <<diffractionPoints, childWalk, dirty, run>>
         /\ \A i \in Rays : i # ray => points'[i] = points[i] /\ walk'[i] = walk[i]
         /\ \/ NextRay /\ walk'[ray].end \in {"reached", "left", "dropped"}
            \/ UNCHANGED <<pc, ray, child>> /\ walk'[ray].end = "walking"
            \/ /\ pc' = "child" /\ ray' = ray /\ child' = 0
               /\ walk'[ray].end = "diffracted" /\ walk'[ray].trail # <<>>
<1>1. /\ ray \in Rays /\ points \in [Rays -> Path] /\ walk \in [Rays -> Walk]
      /\ walk[ray].trail \in Seq(Tag)
  BY DEF TypeOK, Walk
<1>2. /\ pc = "ray"
      /\ UNCHANGED <<diffractionPoints, childWalk, dirty, run>>
      /\ \A i \in Rays : i # ray => points'[i] = points[i] /\ walk'[i] = walk[i]
  BY <1>1 DEF RayStep, Reach, Reflect, ExceedReflect, Corner, ExceedCorner,
              Inside, Leave, OnRay, store
<1>3. Append(walk[ray].trail, Mark("corner")) # <<>>
  BY <1>1
<1>4. \A k, e : Step(walk[ray], k, e).end = e
  BY DEF Step
<1>5. \A e : Ended(walk[ray], e).end = e
  BY <1>1 DEF Ended, Walk
<1>6. CASE Reach \/ ExceedReflect \/ ExceedCorner
  <2>1. NextRay /\ walk'[ray].end \in {"reached", "dropped"}
    BY <1>1, <1>4, <1>6 DEF Reach, ExceedReflect, ExceedCorner
  <2> QED BY <1>2, <2>1
<1>7. CASE Inside \/ Leave
  <2>1. NextRay /\ walk'[ray].end \in {"left", "dropped"}
    BY <1>1, <1>5, <1>7 DEF Inside, Leave
  <2> QED BY <1>2, <2>1
<1>8. CASE Reflect
  <2>1. UNCHANGED <<pc, ray, child>> /\ walk'[ray].end = "walking"
    BY <1>1, <1>4, <1>8 DEF Reflect
  <2> QED BY <1>2, <2>1
<1>9. CASE Corner
  <2>1. /\ pc' = "child" /\ ray' = ray /\ child' = 0
        /\ walk'[ray].end = "diffracted"
        /\ walk'[ray].trail = Append(walk[ray].trail, Mark("corner"))
    BY <1>1, <1>4, <1>9 DEF Corner, Step
  <2> QED BY <1>2, <1>3, <2>1
<1> QED BY <1>6, <1>7, <1>8, <1>9 DEF RayStep

LEMMA RayStepAgrees ==
  ASSUME TypeOK, Agreement, RayStep, ray \notin dirty
  PROVE  Agrees(points'[ray], walk'[ray])
<1>1. /\ ray \in Rays /\ run \in Nat
      /\ points \in [Rays -> Path] /\ walk \in [Rays -> Walk]
      /\ points[ray] \in Path /\ walk[ray] \in Walk
  BY DEF TypeOK
<1>2. Agrees(points[ray], walk[ray]) /\ walk[ray].end = "walking"
  BY <1>1, RayStepWalks DEF Agreement
<1>3. CASE Reach \/ Reflect \/ Corner
  BY <1>1, <1>2, <1>3, AgreesSteps DEF Reach, Reflect, Corner, Kinds
<1>4. CASE ExceedReflect \/ ExceedCorner \/ Inside
  BY <1>1, <1>4, AgreesDropped DEF ExceedReflect, ExceedCorner, Inside, Kinds
<1>5. CASE Leave
  BY <1>1, <1>2, <1>5, AgreesSteps DEF Leave, store
<1> QED BY <1>3, <1>4, <1>5 DEF RayStep

LEMMA ChildStepWalks ==
  ASSUME TypeOK, ChildStep
  PROVE  /\ pc = "child"
         /\ UNCHANGED <<points, walk, dirty, run>>
         /\ \A i, m \in Rays : i # ray \/ m # child =>
              /\ diffractionPoints'[Index(i, m)] = diffractionPoints[Index(i, m)]
              /\ childWalk'[Index(i, m)] = childWalk[Index(i, m)]
         /\ \/ NextChild
            \/ /\ UNCHANGED <<pc, ray, child>>
               /\ childWalk'[Current].end = "walking"
<1>1. /\ ray \in Rays /\ child \in Rays /\ Current \in ChildSlots
      /\ diffractionPoints \in [ChildSlots -> Path]
      /\ childWalk \in [ChildSlots -> Walk]
  BY IndexInRange DEF TypeOK, Current
<1>2. \A i, m \in Rays : Index(i, m) \in ChildSlots
                         /\ (i # ray \/ m # child => Index(i, m) # Current)
  BY <1>1, IndexInRange, IndexInjective DEF Current
<1>3. pc = "child" /\ UNCHANGED <<points, walk, dirty, run>>
  BY DEF ChildStep, ChildReach, ChildReflect, ChildExceed, ChildInside,
         ChildLeave, OnChild, store
<1>4. \A k \in ChildSlots : k # Current =>
        /\ diffractionPoints'[k] = diffractionPoints[k]
        /\ childWalk'[k] = childWalk[k]
  BY <1>1 DEF ChildStep, ChildReach, ChildReflect, ChildExceed, ChildInside,
              ChildLeave, store
<1>5. \/ NextChild
      \/ UNCHANGED <<pc, ray, child>> /\ childWalk'[Current].end = "walking"
  BY <1>1 DEF ChildStep, ChildReach, ChildReflect, ChildExceed, ChildInside,
              ChildLeave, Step
<1> QED BY <1>2, <1>3, <1>4, <1>5

LEMMA ChildStepAgrees ==
  ASSUME TypeOK, Agreement, ChildStep, ray \notin dirty
  PROVE  Agrees(diffractionPoints'[Current], childWalk'[Current])
<1>1. /\ ray \in Rays /\ child \in Rays /\ Current \in ChildSlots /\ run \in Nat
      /\ diffractionPoints \in [ChildSlots -> Path]
      /\ childWalk \in [ChildSlots -> Walk]
      /\ diffractionPoints[Current] \in Path /\ childWalk[Current] \in Walk
  BY IndexInRange DEF TypeOK, Current
<1>2. /\ Agrees(diffractionPoints[Current], childWalk[Current])
      /\ childWalk[Current].end = "walking"
  BY <1>1, ChildStepWalks, NAssumption DEF Agreement, Current, Rays
<1>3. CASE ChildReach \/ ChildReflect
  BY <1>1, <1>2, <1>3, AgreesSteps DEF ChildReach, ChildReflect, Kinds
<1>4. CASE ChildExceed \/ ChildInside
  BY <1>1, <1>4, AgreesDropped DEF ChildExceed, ChildInside, Kinds
<1>5. CASE ChildLeave
  BY <1>1, <1>2, <1>5, AgreesSteps DEF ChildLeave, store
<1> QED BY <1>3, <1>4, <1>5 DEF ChildStep

(* The arrays of a ray that was clean when the run began follow its walk.  *)
THEOREM AgreementKept == Spec => []Agreement
<1>1. Init => Agreement
  <2> SUFFICES ASSUME Init PROVE Agreement
    OBVIOUS
  <2>1. Agrees(Empty, Started) /\ Started.end = "walking"
    BY DEF Agrees, Empty, Started
  <2> QED BY <2>1, IndexInRange DEF Init, Agreement
<1>2. TypeOK /\ Agreement /\ [Next]_vars => Agreement'
  <2> SUFFICES ASSUME TypeOK, Agreement, [Next]_vars PROVE Agreement'
    OBVIOUS
  <2>1. CASE UNCHANGED vars \/ UpdateTx
    BY <2>1 DEF vars, store, history, UpdateTx, Agreement, Agrees
  <2>2. CASE Overrun \/ Collect
    <3>1. UNCHANGED <<points, diffractionPoints, walk, childWalk, dirty>>
          /\ pc' \notin {"ray", "child"}
      BY <2>2 DEF Overrun, Collect, store, history
    <3> QED BY <3>1 DEF Agreement, Agrees
  <2>3. CASE BeginRun
    <3>1. /\ pc' = "ray" /\ ray' = 0
          /\ UNCHANGED <<points, diffractionPoints>>
          /\ walk' = [i \in Rays |-> Started]
          /\ childWalk' = [k \in ChildSlots |-> Started]
          /\ \A i \in Rays \ dirty' : Clean(i)
      BY <2>3 DEF BeginRun, store
    <3>2. Agrees(Empty, Started) /\ Started.end = "walking"
      BY DEF Agrees, Empty, Started
    <3>3. /\ \A i \in Rays : walk'[i] = Started
          /\ \A i, m \in Rays : childWalk'[Index(i, m)] = Started
      BY <3>1, IndexInRange
    <3>4. 0 \in Rays
      BY NAssumption DEF Rays
    <3>5. \A i \in Rays \ dirty' :
            /\ Agrees(points'[i], walk'[i])
            /\ \A m \in Rays :
                 Agrees(diffractionPoints'[Index(i, m)], childWalk'[Index(i, m)])
      BY <3>1, <3>2, <3>3 DEF Clean
    <3> QED BY <3>1, <3>2, <3>3, <3>4, <3>5 DEF Agreement, Agrees
  <2>4. CASE RayStep
    <3>1. ray \in Rays /\ \A i \in Rays : i \in Int
      BY DEF TypeOK, Rays
    <3>2. /\ pc = "ray"
          /\ UNCHANGED <<diffractionPoints, childWalk, dirty, run>>
          /\ \A i \in Rays : i # ray => points'[i] = points[i] /\ walk'[i] = walk[i]
      BY <2>4, RayStepWalks
    <3>3. \A m \in Rays : childWalk[Index(ray, m)] = Started
      BY <3>1, <3>2 DEF Agreement
    <3>4. ASSUME NEW i \in Rays \ dirty'
          PROVE  /\ Agrees(points'[i], walk'[i])
                 /\ \A m \in Rays : Agrees(diffractionPoints'[Index(i, m)],
                                           childWalk'[Index(i, m)])
      BY <2>4, <3>2, RayStepAgrees DEF Agreement
    <3>5. CASE NextRay /\ walk'[ray].end \in {"reached", "left", "dropped"}
      <4>1. ray' \in Rays /\ ((pc' = "ray" /\ ray' = ray + 1) \/ pc' = "collect")
        BY <3>1, <3>5, NextRayMoves
      <4> QED BY <3>1, <3>2, <3>3, <3>4, <3>5, <4>1 DEF Agreement, Agrees
    <3>6. CASE UNCHANGED <<pc, ray, child>> /\ walk'[ray].end = "walking"
      BY <3>1, <3>2, <3>3, <3>4, <3>6 DEF Agreement, Agrees
    <3>7. CASE /\ pc' = "child" /\ ray' = ray /\ child' = 0
               /\ walk'[ray].end = "diffracted" /\ walk'[ray].trail # <<>>
      <4>1. Started.end = "walking"
        BY DEF Started
      <4> QED BY <3>1, <3>2, <3>3, <3>4, <3>7, <4>1 DEF Agreement, Agrees
    <3> QED BY <2>4, <3>5, <3>6, <3>7, RayStepWalks
  <2>5. CASE ChildStep
    <3>1. ray \in Rays /\ child \in Rays /\ \A i \in Rays : i \in Int
      BY DEF TypeOK, Rays
    <3>2. /\ pc = "child" /\ UNCHANGED <<points, walk, dirty, run>>
          /\ \A i, m \in Rays : i # ray \/ m # child =>
               /\ diffractionPoints'[Index(i, m)] = diffractionPoints[Index(i, m)]
               /\ childWalk'[Index(i, m)] = childWalk[Index(i, m)]
      BY <2>5, ChildStepWalks
    <3>3. walk[ray].end = "diffracted"
      BY <3>2 DEF Agreement
    <3>4. ASSUME NEW i \in Rays \ dirty', NEW m \in Rays
          PROVE  Agrees(diffractionPoints'[Index(i, m)], childWalk'[Index(i, m)])
      <4>1. CASE i = ray /\ m = child
        BY <2>5, <3>2, <4>1, ChildStepAgrees DEF Current
      <4>2. CASE i # ray \/ m # child
        BY <3>2, <4>2 DEF Agreement
      <4> QED BY <4>1, <4>2
    <3>5. \A i \in Rays \ dirty' : Agrees(points'[i], walk'[i])
      BY <3>2 DEF Agreement
    <3>6. \A i \in Rays : IF walk'[i].end = "diffracted"
                          THEN walk'[i].trail # <<>>
                          ELSE \A m \in Rays : childWalk'[Index(i, m)] = Started
      BY <3>2, <3>3 DEF Agreement
    <3>7. CASE NextChild
      <4>1. /\ ray' \in Rays
            /\ \/ pc' = "child" /\ ray' = ray /\ child' = child + 1
               \/ pc' = "ray" /\ ray' = ray + 1
               \/ pc' = "collect"
        BY <3>1, <3>2, <3>7, NextChildMoves
      <4>2. pc' = "child" => \A m \in Rays : m >= child' =>
              childWalk'[Index(ray', m)].end = "walking"
        BY <3>1, <3>2, <4>1 DEF Agreement
      <4> QED BY <3>1, <3>2, <3>3, <3>4, <3>5, <3>6, <4>1, <4>2
              DEF Agreement, Agrees
    <3>8. CASE UNCHANGED <<pc, ray, child>> /\ childWalk'[Current].end = "walking"
      <4>1. \A m \in Rays : m >= child' => childWalk'[Index(ray', m)].end = "walking"
        BY <3>1, <3>2, <3>8 DEF Agreement, Current
      <4> QED BY <3>1, <3>2, <3>3, <3>4, <3>5, <3>6, <3>8, <4>1
              DEF Agreement, Agrees
    <3> QED BY <2>5, <3>7, <3>8, ChildStepWalks
  <2> QED BY <2>1, <2>2, <2>3, <2>4, <2>5 DEF Next, TraceStep
<1> QED BY <1>1, <1>2, TypeCorrect, PTL DEF Spec

(* What a clean ray's arrays report is what the ray and its children did.  *)
LEMMA ReportIsExpected ==
  ASSUME TypeOK, Agreement, NEW i \in Rays \ dirty
  PROVE  ReportOf(i) = ExpectedOf(i)
<1>1. /\ Agrees(points[i], walk[i])
      /\ \A m \in Rays :
           Agrees(diffractionPoints[Index(i, m)], childWalk[Index(i, m)])
      /\ walk[i].end = "diffracted" => walk[i].trail # <<>>
      /\ walk[i].end # "diffracted" =>
           \A m \in Rays : childWalk[Index(i, m)] = Started
  BY DEF Agreement
<1>2. \A m \in Rays :
        /\ diffractionPoints[Index(i, m)].isFind
             <=> childWalk[Index(i, m)].end = "reached"
        /\ childWalk[Index(i, m)].end = "reached" =>
             diffractionPoints[Index(i, m)].point = childWalk[Index(i, m)].trail
  <2> TAKE m \in Rays
  <2> DEFINE p == diffractionPoints[Index(i, m)]
             w == childWalk[Index(i, m)]
  <2>1. Agrees(p, w)
    BY <1>1
  <2> HIDE DEF p, w
  <2>2. (p.isFind <=> w.end = "reached") /\ (w.end = "reached" => p.point = w.trail)
    <3>1. CASE w.end = "dropped"
      BY <2>1, <3>1 DEF Agrees, Empty
    <3>2. CASE w.end # "dropped"
      BY <2>1, <3>2 DEF Agrees
    <3> QED BY <3>1, <3>2
  <2> QED BY <2>2 DEF p, w
<1>3. CASE walk[i].end = "reached"
  <2>1. points[i].isFind /\ points[i].point = walk[i].trail
    BY <1>1, <1>3 DEF Agrees
  <2> QED BY <1>3, <2>1 DEF ReportOf, ExpectedOf
<1>4. CASE walk[i].end = "diffracted"
  <2>1. ~points[i].isFind /\ points[i].point = walk[i].trail /\ points[i].point # <<>>
    BY <1>1, <1>4 DEF Agrees
  <2>2. Found(i) = {m \in Rays : /\ walk[i].end = "diffracted"
                                 /\ childWalk[Index(i, m)].end = "reached"}
    BY <1>2, <1>4 DEF Found
  <2>3. ReportOf(i) = PathsViaChildren(i)
    BY <2>1 DEF ReportOf
  <2>4. PathsViaChildren(i) =
          {[ray |-> i, child |-> m,
            path |-> walk[i].trail \o childWalk[Index(i, m)].trail] : m \in Found(i)}
    BY <1>2, <2>1 DEF PathsViaChildren, Found
  <2>5. ExpectedOf(i) =
          {[ray |-> i, child |-> m,
            path |-> walk[i].trail \o childWalk[Index(i, m)].trail] : m \in Found(i)}
    BY <1>4, <2>2 DEF ExpectedOf
  <2> QED BY <2>3, <2>4, <2>5
<1>5. CASE walk[i].end \notin {"reached", "diffracted"}
  <2>1. ~points[i].isFind
    BY <1>1, <1>5 DEF Agrees, Empty
  <2>2. Found(i) = {}
    BY <1>1, <1>2, <1>5 DEF Found, Started
  <2>3. ReportOf(i) = {}
    BY <2>1, <2>2 DEF ReportOf, PathsViaChildren
  <2>4. ExpectedOf(i) = {}
    BY <1>5 DEF ExpectedOf
  <2> QED BY <2>3, <2>4
<1> QED BY <1>3, <1>4, <1>5

(* The result of a run is exact for every ray it began with empty arrays.  *)
THEOREM ResultExact == Spec => []ExactWhenClean
<1>1. Init => ExactWhenClean
  BY DEF Init, ExactWhenClean
<1>2. TypeOK /\ Agreement /\ ExactWhenClean /\ [Next]_vars => ExactWhenClean'
  <2> SUFFICES ASSUME TypeOK, Agreement, ExactWhenClean, [Next]_vars
               PROVE  ExactWhenClean'
    OBVIOUS
  <2>1. CASE UNCHANGED vars \/ UpdateTx
    <3>1. UNCHANGED <<pc, run, dirty, getResult, walk, childWalk>>
      BY <2>1 DEF vars, history, UpdateTx
    <3>2. \A i \in Rays : ExpectedOf(i)' = ExpectedOf(i)
      BY <3>1 DEF ExpectedOf
    <3> QED BY <3>1, <3>2 DEF ExactWhenClean
  <2>2. CASE Collect
    <3>1. /\ getResult' = UNION {ReportOf(i) : i \in Rays}
          /\ UNCHANGED <<walk, childWalk, dirty, run>>
      BY <2>2 DEF Collect, history
    <3>2. ASSUME NEW i \in Rays \ dirty
          PROVE  {e \in getResult' : e.ray = i} = ExpectedOf(i)
      <4>1. \A j \in Rays : \A e \in ReportOf(j) : e.ray = j
        BY ReportTypes
      <4>2. {e \in getResult' : e.ray = i} = ReportOf(i)
        BY <3>1, <4>1
      <4> QED BY <4>2, ReportIsExpected
    <3>3. \A i \in Rays : ExpectedOf(i)' = ExpectedOf(i)
      BY <3>1 DEF ExpectedOf
    <3> QED BY <3>1, <3>2, <3>3 DEF ExactWhenClean
  <2>3. CASE BeginRun \/ Overrun
    BY <2>3 DEF BeginRun, Overrun, ExactWhenClean
  <2>4. CASE RayStep
    <3>1. pc' # "idle"
      BY <2>4, RayStepWalks DEF NextRay
    <3> QED BY <3>1 DEF ExactWhenClean
  <2>5. CASE ChildStep
    <3>1. pc' # "idle"
      BY <2>5, ChildStepWalks DEF NextChild, NextRay
    <3> QED BY <3>1 DEF ExactWhenClean
  <2> QED BY <2>1, <2>2, <2>3, <2>4, <2>5 DEF Next, TraceStep
<1> QED BY <1>1, <1>2, TypeCorrect, AgreementKept, PTL DEF Spec

-----------------------------------------------------------------------------
(* The first run.  Nothing was recorded before it, so every ray is clean,  *)
(* and a trail is what PathReport lets it be: some reflections, then the   *)
(* point that ended it, all of this run.                                   *)
Bounces(n, r) == [j \in 1 .. n |-> [kind |-> "reflection", run |-> r]]
Shaped(w, max, r) ==
  /\ w.end = "walking" => \E n \in 0 .. max : w.trail = Bounces(n, r)
  /\ w.end = "reached" => \E n \in 0 .. max : w.trail = Abs!Leg(n, "rx", r)
  /\ w.end = "diffracted" =>
       \E n \in 0 .. max - 1 : w.trail = Abs!Leg(n, "corner", r)
FirstRun ==
  /\ run <= 1 /\ dirty = {}
  /\ run = 0 => pc = "idle" /\ \A i \in Rays : Clean(i)
  /\ \A i \in Rays : Shaped(walk[i], MaxReflect, run)
  /\ \A i, m \in Rays : Shaped(childWalk[Index(i, m)], MaxAfterDiffraction, run)

(* Adding a point to n reflections.                                        *)
LEMMA LegFacts ==
  ASSUME run \in Nat, NEW n \in Nat
  PROVE  /\ Bounces(0, run) = <<>>
         /\ Len(Bounces(n, run)) = n
         /\ Append(Bounces(n, run), Mark("reflection")) = Bounces(n + 1, run)
         /\ \A k : Append(Bounces(n, run), Mark(k)) = Abs!Leg(n, k, run)
<1>1. Bounces(n, run) \in Seq(Tag) /\ Len(Bounces(n, run)) = n
  BY DEF Bounces, Mark, Tag, Kinds
<1>2. Bounces(0, run) = <<>>
  BY DEF Bounces
<1>3. Append(Bounces(n, run), Mark("reflection")) = Bounces(n + 1, run)
  BY DEF Bounces, Mark
<1>4. ASSUME NEW k
      PROVE  Append(Bounces(n, run), Mark(k)) = Abs!Leg(n, k, run)
  <2> DEFINE s == Append(Bounces(n, run), Mark(k))
             t == Abs!Leg(n, k, run)
  <2>1. \A j \in 1 .. n + 1 : s[j] = IF j <= n THEN Bounces(n, run)[j] ELSE Mark(k)
    BY DEF Bounces
  <2>2. \A j \in 1 .. n + 1 : s[j] = t[j]
    BY <2>1 DEF Bounces, Mark, Abs!Leg
  <2>3. s = [j \in 1 .. n + 1 |-> s[j]] /\ t = [j \in 1 .. n + 1 |-> t[j]]
    BY DEF Bounces, Abs!Leg
  <2> QED BY <2>2, <2>3
<1> QED BY <1>1, <1>2, <1>3, <1>4

(* A trail keeps its shape as long as the bound on N is tested.            *)
LEMMA ShapeSteps ==
  ASSUME run \in Nat, NEW max \in Nat, NEW w \in Walk,
         w.end = "walking", Shaped(w, max, run)
  PROVE  /\ Shaped(Step(w, "rx", "reached"), max, run)
         /\ Len(w.trail) < max => /\ Shaped(Step(w, "reflection", "walking"), max, run)
                                  /\ Shaped(Step(w, "corner", "diffracted"), max, run)
         /\ \A k : Shaped(Step(w, k, "dropped"), max, run)
         /\ Shaped(Ended(w, "left"), max, run) /\ Shaped(Ended(w, "dropped"), max, run)
<1>1. PICK n \in 0 .. max : w.trail = Bounces(n, run)
  BY DEF Shaped
<1>2. /\ n \in Nat /\ Len(w.trail) = n
      /\ Append(w.trail, Mark("reflection")) = Bounces(n + 1, run)
      /\ \A k : Append(w.trail, Mark(k)) = Abs!Leg(n, k, run)
  <2>1. n \in Nat
    OBVIOUS
  <2> HIDE DEF Shaped, Bounces
  <2> QED BY <1>1, <2>1, LegFacts, Zenon
<1>3. \A k, e : Step(w, k, e).end = e /\ Step(w, k, e).trail = Append(w.trail, Mark(k))
  BY DEF Step
<1>4. \A e : Ended(w, e).end = e
  BY DEF Ended, Walk
<1>5. Shaped(Step(w, "rx", "reached"), max, run)
  <2> DEFINE v == Step(w, "rx", "reached")
  <2>1. v.end = "reached" /\ v.trail = Abs!Leg(n, "rx", run)
    BY <1>2, <1>3, Zenon
  <2> HIDE DEF v
  <2>2. Shaped(v, max, run)
    BY <1>1, <2>1 DEF Shaped
  <2> QED BY <2>2 DEF v
<1>6. ASSUME Len(w.trail) < max
      PROVE  Shaped(Step(w, "reflection", "walking"), max, run)
  <2> DEFINE v == Step(w, "reflection", "walking")
  <2>1. n + 1 \in 0 .. max
    BY <1>2, <1>6
  <2>2. v.end = "walking" /\ v.trail = Bounces(n + 1, run)
    BY <1>2, <1>3, Zenon
  <2> HIDE DEF v
  <2>3. Shaped(v, max, run)
    BY <2>1, <2>2 DEF Shaped
  <2> QED BY <2>3 DEF v
<1>7. ASSUME Len(w.trail) < max
      PROVE  Shaped(Step(w, "corner", "diffracted"), max, run)
  <2> DEFINE v == Step(w, "corner", "diffracted")
  <2>1. n \in 0 .. max - 1
    BY <1>2, <1>7
  <2>2. v.end = "diffracted" /\ v.trail = Abs!Leg(n, "corner", run)
    BY <1>2, <1>3, Zenon
  <2> HIDE DEF v
  <2>3. Shaped(v, max, run)
    BY <2>1, <2>2 DEF Shaped
  <2> QED BY <2>3 DEF v
<1>8. \A k : Shaped(Step(w, k, "dropped"), max, run)
  BY <1>3 DEF Shaped
<1>9. Shaped(Ended(w, "left"), max, run) /\ Shaped(Ended(w, "dropped"), max, run)
  BY <1>4 DEF Shaped
<1> QED BY <1>5, <1>6, <1>7, <1>8, <1>9

LEMMA RayStepShapes ==
  ASSUME TypeOK, Agreement, FirstRun, RayStep
  PROVE  Shaped(walk'[ray], MaxReflect, run)
<1>1. /\ ray \in Rays /\ run \in Nat /\ walk \in [Rays -> Walk] /\ walk[ray] \in Walk
      /\ points \in [Rays -> Path] /\ MaxReflect \in Nat
  BY BoundAssumption DEF TypeOK
<1>2. walk[ray].end = "walking" /\ Agrees(points[ray], walk[ray])
  BY <1>1, RayStepWalks DEF Agreement, FirstRun
<1>3. points[ray].point = walk[ray].trail
  BY <1>2 DEF Agrees
<1>4. Shaped(walk[ray], MaxReflect, run)
  BY <1>1 DEF FirstRun
<1>5. CASE Reach \/ ExceedReflect \/ ExceedCorner
  BY <1>1, <1>2, <1>4, <1>5, ShapeSteps DEF Reach, ExceedReflect, ExceedCorner
<1>6. CASE Reflect \/ Corner
  BY <1>1, <1>2, <1>3, <1>4, <1>6, ShapeSteps DEF Reflect, Corner
<1>7. CASE Inside \/ Leave
  BY <1>1, <1>2, <1>4, <1>7, ShapeSteps DEF Inside, Leave
<1> QED BY <1>5, <1>6, <1>7 DEF RayStep

LEMMA ChildStepShapes ==
  ASSUME TypeOK, Agreement, FirstRun, ChildStep
  PROVE  Shaped(childWalk'[Current], MaxAfterDiffraction, run)
<1>1. /\ ray \in Rays /\ child \in Rays /\ Current \in ChildSlots /\ run \in Nat
      /\ childWalk \in [ChildSlots -> Walk] /\ childWalk[Current] \in Walk
      /\ diffractionPoints \in [ChildSlots -> Path] /\ MaxAfterDiffraction \in Nat
  BY IndexInRange, BoundAssumption DEF TypeOK, Current
<1>2. /\ childWalk[Current].end = "walking"
      /\ Agrees(diffractionPoints[Current], childWalk[Current])
  BY <1>1, ChildStepWalks, NAssumption DEF Agreement, FirstRun, Current, Rays
<1>3. diffractionPoints[Current].point = childWalk[Current].trail
  BY <1>2 DEF Agrees
<1>4. Shaped(childWalk[Current], MaxAfterDiffraction, run)
  BY <1>1 DEF FirstRun, Current
<1>5. CASE ChildReach \/ ChildExceed
  BY <1>1, <1>2, <1>4, <1>5, ShapeSteps DEF ChildReach, ChildExceed
<1>6. CASE ChildReflect
  BY <1>1, <1>2, <1>3, <1>4, <1>6, ShapeSteps DEF ChildReflect
<1>7. CASE ChildInside \/ ChildLeave
  BY <1>1, <1>2, <1>4, <1>7, ShapeSteps DEF ChildInside, ChildLeave
<1> QED BY <1>5, <1>6, <1>7 DEF ChildStep

(* In its first run the engine works on empty arrays, and its trails are   *)
(* PathReport's: as many reflections as the bounds on N let through, and   *)
(* one corner or the receiver as the last point.                           *)
LEMMA FirstRunShapes == ASSUME MaxRuns = 1 PROVE Spec => []FirstRun
<1>1. Init => FirstRun
  <2> SUFFICES ASSUME Init PROVE FirstRun
    OBVIOUS
  <2>1. Shaped(Started, MaxReflect, run) /\ Shaped(Started, MaxAfterDiffraction, run)
    <3>1. Bounces(0, run) = <<>> /\ Started.trail = <<>> /\ Started.end = "walking"
      BY DEF Bounces, Started
    <3> QED BY <3>1, BoundAssumption DEF Shaped
  <2> QED BY <2>1, IndexInRange DEF Init, FirstRun, Clean
<1>2. TypeOK /\ Agreement /\ FirstRun /\ [Next]_vars => FirstRun'
  <2> SUFFICES ASSUME TypeOK, Agreement, FirstRun, [Next]_vars PROVE FirstRun'
    OBVIOUS
  <2>1. CASE UNCHANGED vars \/ UpdateTx \/ Overrun \/ Collect
    <3>1. /\ UNCHANGED <<points, diffractionPoints, run, walk, childWalk, dirty>>
          /\ run = 0 => pc' = pc
      BY <2>1 DEF vars, store, history, UpdateTx, Overrun, Collect, FirstRun,
                  OnRay, OnChild
    <3> QED BY <3>1 DEF FirstRun, Clean
  <2>2. CASE BeginRun
    <3>1. /\ run = 0 /\ run' = 1
          /\ walk' = [i \in Rays |-> Started]
          /\ childWalk' = [k \in ChildSlots |-> Started]
          /\ dirty' = {i \in Rays : ~Clean(i)}
      BY <2>2 DEF BeginRun, TypeOK
    <3>2. dirty' = {}
      BY <3>1 DEF FirstRun
    <3>3. \A r : Shaped(Started, MaxReflect, r) /\ Shaped(Started, MaxAfterDiffraction, r)
      <4>1. \A r : Bounces(0, r) = <<>> /\ Started.trail = <<>> /\ Started.end = "walking"
        BY DEF Bounces, Started
      <4> QED BY <4>1, BoundAssumption DEF Shaped
    <3>4. /\ \A i \in Rays : walk'[i] = Started
          /\ \A i, m \in Rays : childWalk'[Index(i, m)] = Started
      BY <3>1, IndexInRange
    <3> QED BY <3>1, <3>2, <3>3, <3>4 DEF FirstRun
  <2>3. CASE RayStep
    <3>1. /\ pc = "ray" /\ UNCHANGED <<childWalk, dirty, run>>
          /\ \A i \in Rays : i # ray => walk'[i] = walk[i]
          /\ Shaped(walk'[ray], MaxReflect, run)
      BY <2>3, RayStepWalks, RayStepShapes
    <3>2. run # 0
      BY <3>1 DEF FirstRun
    <3>3. \A i \in Rays : Shaped(walk'[i], MaxReflect, run)
      BY <3>1 DEF FirstRun
    <3> QED BY <3>1, <3>2, <3>3 DEF FirstRun
  <2>4. CASE ChildStep
    <3>1. /\ pc = "child" /\ UNCHANGED <<walk, dirty, run>>
          /\ \A i, m \in Rays : i # ray \/ m # child =>
               childWalk'[Index(i, m)] = childWalk[Index(i, m)]
          /\ Shaped(childWalk'[Current], MaxAfterDiffraction, run)
      BY <2>4, ChildStepWalks, ChildStepShapes
    <3>2. run # 0
      BY <3>1 DEF FirstRun
    <3>3. \A i, m \in Rays : Shaped(childWalk'[Index(i, m)], MaxAfterDiffraction, run)
      BY <3>1 DEF FirstRun, Current
    <3> QED BY <3>1, <3>2, <3>3 DEF FirstRun
  <2> QED BY <2>1, <2>2, <2>3, <2>4 DEF Next, TraceStep
<1> QED BY <1>1, <1>2, TypeCorrect, AgreementKept, PTL DEF Spec

(* The paths of the children, one by one.                                  *)
LEMMA DiffractedIn ==
  ASSUME NEW i, NEW b, NEW r, NEW m \in Abs!Rays, NEW n \in 0 .. MaxAfterDiffraction
  PROVE  [ray |-> i, child |-> m,
          path |-> Abs!Leg(b, "corner", r) \o Abs!Leg(n, "rx", r)]
            \in Abs!DiffractedPaths(i, b, r)
<1> DEFINE L(k) == Abs!Leg(b, "corner", r) \o Abs!Leg(k, "rx", r)
<1>1. Abs!DiffractedPaths(i, b, r) =
        {[ray |-> i, child |-> c, path |-> L(k)] :
           c \in Abs!Rays, k \in 0 .. MaxAfterDiffraction}
  BY DEF Abs!DiffractedPaths
<1> HIDE DEF L
<1>2. [ray |-> i, child |-> m, path |-> L(n)] \in Abs!DiffractedPaths(i, b, r)
  BY <1>1
<1> QED BY <1>2 DEF L

(* What a ray and its children took to the receiver is one of the outcomes *)
(* PathReport allows.                                                      *)
LEMMA ExpectedIsOutcome ==
  ASSUME TypeOK, FirstRun, NEW i \in Rays
  PROVE  Abs!IsOutcome(ExpectedOf(i), i, run)
<1>1. CASE walk[i].end = "reached"
  <2>1. PICK n \in 0 .. MaxReflect : walk[i].trail = Abs!Leg(n, "rx", run)
    BY <1>1 DEF FirstRun, Shaped
  <2> DEFINE e == [ray |-> i, child |-> Direct, path |-> walk[i].trail]
  <2>2. ExpectedOf(i) = {e}
    BY <1>1 DEF ExpectedOf
  <2>3. e \in Abs!DirectPaths(i, run)
    BY <2>1 DEF Abs!DirectPaths, Abs!Direct, Direct
  <2> QED BY <2>2, <2>3 DEF Abs!IsOutcome
<1>2. CASE walk[i].end = "diffracted"
  <2>1. PICK b \in 0 .. MaxReflect - 1 : walk[i].trail = Abs!Leg(b, "corner", run)
    BY <1>2 DEF FirstRun, Shaped
  <2> DEFINE Reached == {m \in Rays : childWalk[Index(i, m)].end = "reached"}
             P(m) == [ray |-> i, child |-> m,
                      path |-> walk[i].trail \o childWalk[Index(i, m)].trail]
  <2>2. ExpectedOf(i) = {P(m) : m \in Reached}
    BY <1>2 DEF ExpectedOf
  <2>3. ASSUME NEW m \in Reached
        PROVE  P(m) \in Abs!DiffractedPaths(i, b, run)
    <3>1. PICK n \in 0 .. MaxAfterDiffraction :
            childWalk[Index(i, m)].trail = Abs!Leg(n, "rx", run)
      BY <2>3 DEF FirstRun, Shaped
    <3>2. P(m) = [ray |-> i, child |-> m,
                  path |-> Abs!Leg(b, "corner", run) \o Abs!Leg(n, "rx", run)]
      BY <2>1, <3>1
    <3>3. m \in Abs!Rays
      BY DEF Rays, Abs!Rays
    <3> QED BY <3>2, <3>3, DiffractedIn
  <2>4. ASSUME NEW e \in ExpectedOf(i), NEW f \in ExpectedOf(i), e.child = f.child
        PROVE  e = f
    <3>1. \A m : P(m).child = m
      OBVIOUS
    <3> HIDE DEF P
    <3> QED BY <2>2, <2>4, <3>1
  <2>5. ExpectedOf(i) \subseteq Abs!DiffractedPaths(i, b, run)
    BY <2>2, <2>3
  <2> QED BY <2>4, <2>5 DEF Abs!IsOutcome
<1>3. CASE walk[i].end \notin {"reached", "diffracted"}
  BY <1>3 DEF ExpectedOf, Abs!IsOutcome
<1> QED BY <1>1, <1>2, <1>3

(* The same of every ray at once, always.                                  *)
Outcomes == \A i \in Rays : Abs!IsOutcome(ExpectedOf(i), i, run)
LEMMA OutcomesAllowed == ASSUME MaxRuns = 1 PROVE Spec => []Outcomes
<1>1. TypeOK /\ FirstRun => Outcomes
  BY ExpectedIsOutcome DEF Outcomes
<1> QED BY <1>1, TypeCorrect, FirstRunShapes, PTL

(* It depends on nothing but the walks of the ray and its children.        *)
LEMMA ExpectedStays ==
  ASSUME NEW i \in Rays, walk'[i] = walk[i],
         \A m \in Rays : childWalk'[Index(i, m)] = childWalk[Index(i, m)]
  PROVE  ExpectedOf(i)' = ExpectedOf(i)
BY DEF ExpectedOf

(* In its first run the engine implements PathReport: the end of a ray's   *)
(* loop body is one Trace, the end of the run is Report, and every other   *)
(* step changes nothing of what the rays passed so far have found.         *)
Phase   == IF pc = "idle" THEN "idle" ELSE "tracing"
Traced  == IF run = 0 THEN {} ELSE {i \in Rays : Passed(i)}
Outcome == [i \in Rays |-> IF run > 0 /\ Passed(i) THEN ExpectedOf(i) ELSE {}]

(* The end of the loop body of ray i.                                      *)
LEMMA PassingTraces ==
  ASSUME TypeOK, FirstRun, Outcomes', pc \in {"ray", "child"}, NextRay,
         UNCHANGED <<run, getResult>>, NEW i \in Rays, i = ray,
         \A j \in Rays : j # i => ExpectedOf(j)' = ExpectedOf(j)
  PROVE  Abs!Trace(i)
<1>1. /\ run \in Nat /\ run > 0 /\ pc' \in {"ray", "collect"}
      /\ Phase = "tracing" /\ Phase' = "tracing"
      /\ \A j \in Rays : /\ Passed(j) <=> j < i
                         /\ Passed(j)' <=> j <= i
  BY NextRayMoves DEF TypeOK, FirstRun, Phase, Passed, Rays
<1>2. Traced' = Traced \cup {i} /\ i \notin Traced
  BY <1>1 DEF Traced, Rays
<1>3. Outcome'[i] = ExpectedOf(i)'
  BY <1>1 DEF Outcome, Rays
<1>4. ASSUME NEW j \in Rays, j # i
      PROVE  Outcome'[j] = Outcome[j]
  <2>1. Passed(j)' <=> Passed(j)
    BY <1>1, <1>4 DEF Rays
  <2>2. ExpectedOf(j)' = ExpectedOf(j) /\ run' = run
    BY <1>4
  <2> QED BY <2>1, <2>2 DEF Outcome
<1>5. Outcome' = [Outcome EXCEPT ![i] = Outcome'[i]]
  BY <1>1, <1>4 DEF Outcome
<1>6. Abs!IsOutcome(Outcome'[i], i, run)
  BY <1>1, <1>3 DEF Outcomes
<1> QED BY <1>1, <1>2, <1>5, <1>6 DEF Abs!Trace, Phase, Traced, Outcome, Rays, Abs!Rays

(* A step that finishes no ray.                                            *)
LEMMA StayingStutters ==
  ASSUME UNCHANGED <<run, getResult>>, Phase' = Phase,
         run > 0 => \A j \in Rays : /\ Passed(j)' <=> Passed(j)
                                    /\ Passed(j) => ExpectedOf(j)' = ExpectedOf(j),
         run \in Nat
  PROVE  UNCHANGED Abs!vars
<1>1. Traced' = Traced
  BY DEF Traced
<1>2. ASSUME NEW j \in Rays
      PROVE  Outcome'[j] = Outcome[j]
  BY <1>2 DEF Outcome
<1>3. Outcome' = Outcome
  BY <1>2 DEF Outcome
<1> QED BY <1>1, <1>3 DEF Abs!vars, Phase, Traced, Outcome

(* Whatever the geometry is, the first run returns what its rays found.    *)
THEOREM FirstRunIsPathReport ==
  ASSUME MaxRuns = 1 PROVE Spec => FirstRunImplementsPathReport
<1>1. Init => Abs!Init
  <2> SUFFICES ASSUME Init PROVE Abs!Init
    OBVIOUS
  <2>1. run = 0 /\ pc = "idle" /\ getResult = {}
    BY DEF Init
  <2>2. Phase = "idle" /\ Traced = {} /\ Outcome = [i \in Rays |-> {}]
    BY <2>1 DEF Phase, Traced, Outcome
  <2> QED BY <2>1, <2>2 DEF Abs!Init, Phase, Traced, Outcome, Rays, Abs!Rays
<1>2. TypeOK /\ Agreement /\ FirstRun /\ Outcomes' /\ NoEarlyOverrun' /\ [Next]_vars
        => [Abs!Next]_(Abs!vars)
  <2> SUFFICES ASSUME TypeOK, Agreement, FirstRun, Outcomes', NoEarlyOverrun',
                      [Next]_vars
               PROVE  Abs!Next \/ UNCHANGED Abs!vars
    OBVIOUS
  <2>1. run \in Nat /\ ray \in Rays /\ \A j \in Rays : j \in Int
    BY DEF TypeOK, Rays
  <2>2. CASE UNCHANGED vars \/ UpdateTx
    <3>1. UNCHANGED <<pc, ray, run, getResult, walk, childWalk>>
      BY <2>2 DEF vars, history, UpdateTx
    <3>2. \A j \in Rays : /\ Passed(j)' <=> Passed(j)
                          /\ ExpectedOf(j)' = ExpectedOf(j)
      BY <3>1, ExpectedStays DEF Passed
    <3>3. Phase' = Phase
      BY <3>1 DEF Phase
    <3> QED BY <2>1, <3>1, <3>2, <3>3, StayingStutters
  <2>3. CASE BeginRun
    <3>1. /\ pc = "idle" /\ pc' = "ray" /\ ray' = 0 /\ run' = run + 1
          /\ getResult' = {}
      BY <2>3 DEF BeginRun
    <3>2. \A j \in Rays : ~Passed(j)'
      BY <3>1 DEF Passed, Rays
    <3>3. Traced' = {} /\ Phase = "idle" /\ Phase' = "tracing"
      BY <3>1, <3>2 DEF Traced, Phase
    <3>4. Outcome' = [j \in Rays |-> {}]
      BY <3>2 DEF Outcome
    <3>5. Abs!Begin
      BY <3>1, <3>3, <3>4 DEF Abs!Begin, Phase, Traced, Outcome, Rays, Abs!Rays
    <3> QED BY <3>5 DEF Abs!Next
  <2>4. CASE RayStep
    <3>1. /\ pc = "ray" /\ UNCHANGED <<childWalk, run>>
          /\ \A j \in Rays : j # ray => walk'[j] = walk[j]
      BY <2>4, RayStepWalks
    <3>2. UNCHANGED getResult
      BY <2>4 DEF RayStep, Reach, Reflect, ExceedReflect, Corner, ExceedCorner,
                  Inside, Leave
    <3>3. \A j \in Rays : j # ray => ExpectedOf(j)' = ExpectedOf(j)
      BY <3>1, ExpectedStays
    <3>4. CASE NextRay
      <4>1. PICK i \in Rays : i = ray
        BY <2>1
      <4>2. Abs!Trace(i)
        BY <3>1, <3>2, <3>3, <3>4, <4>1, PassingTraces
      <4> QED BY <4>2 DEF Abs!Next, Rays, Abs!Rays
    <3>5. CASE ray' = ray /\ pc' \in {"ray", "child"}
      <4>1. \A j \in Rays : /\ Passed(j)' <=> Passed(j)
                            /\ Passed(j) => ExpectedOf(j)' = ExpectedOf(j)
        BY <2>1, <3>1, <3>3, <3>5 DEF Passed
      <4>2. Phase' = Phase
        BY <3>1, <3>5 DEF Phase
      <4> QED BY <2>1, <3>1, <3>2, <4>1, <4>2, StayingStutters
    <3> QED BY <2>4, <3>1, <3>4, <3>5, RayStepWalks
  <2>5. CASE ChildStep
    <3>1. /\ pc = "child" /\ UNCHANGED <<walk, run>>
          /\ \A j, m \in Rays : j # ray =>
               childWalk'[Index(j, m)] = childWalk[Index(j, m)]
      BY <2>5, ChildStepWalks
    <3>2. UNCHANGED getResult
      BY <2>5 DEF ChildStep, ChildReach, ChildReflect, ChildExceed, ChildInside,
                  ChildLeave
    <3>3. \A j \in Rays : j # ray => ExpectedOf(j)' = ExpectedOf(j)
      BY <3>1, ExpectedStays
    <3>4. CASE NextRay
      <4>1. PICK i \in Rays : i = ray
        BY <2>1
      <4>2. Abs!Trace(i)
        BY <3>1, <3>2, <3>3, <3>4, <4>1, PassingTraces
      <4> QED BY <4>2 DEF Abs!Next, Rays, Abs!Rays
    <3>5. CASE UNCHANGED <<ray, pc>>
      <4>1. \A j \in Rays : /\ Passed(j)' <=> Passed(j)
                            /\ Passed(j) => ExpectedOf(j)' = ExpectedOf(j)
        BY <2>1, <3>1, <3>3, <3>5 DEF Passed
      <4>2. Phase' = Phase
        BY <3>5 DEF Phase
      <4> QED BY <2>1, <3>1, <3>2, <4>1, <4>2, StayingStutters
    <3> QED BY <2>5, <3>4, <3>5, ChildStepWalks DEF NextChild
  <2>6. CASE Overrun
    <3>1. pc' = "undefined" /\ run' = run /\ run <= 1
      BY <2>6 DEF Overrun, history, FirstRun
    <3> QED BY <2>1, <3>1, BoundAssumption DEF NoEarlyOverrun
  <2>7. CASE Collect
    <3>1. /\ pc = "collect" /\ pc' = "idle" /\ run > 0
          /\ UNCHANGED <<run, ray, walk, childWalk>>
          /\ getResult' = UNION {ReportOf(i) : i \in Rays}
      BY <2>1, <2>7 DEF Collect, history, FirstRun
    <3>2. \A j \in Rays : /\ Passed(j) /\ Passed(j)'
                          /\ ExpectedOf(j)' = ExpectedOf(j)
      BY <3>1, ExpectedStays DEF Passed
    <3>3. /\ Phase = "tracing" /\ Phase' = "idle"
          /\ Traced = Rays /\ Traced' = Rays
      BY <3>1, <3>2 DEF Phase, Traced
    <3>4. /\ \A j \in Rays : Outcome[j] = ExpectedOf(j) /\ Outcome'[j] = ExpectedOf(j)
          /\ Outcome' = Outcome
      BY <3>1, <3>2 DEF Outcome
    <3>5. \A j \in Rays : ReportOf(j) = Outcome[j]
      BY <3>4, ReportIsExpected DEF FirstRun
    <3>6. getResult' = UNION {Outcome[j] : j \in Rays}
      BY <3>1, <3>5
    <3>7. Abs!Report
      BY <3>1, <3>3, <3>4, <3>6 DEF Abs!Report, Phase, Traced, Outcome, Rays, Abs!Rays
    <3> QED BY <3>7 DEF Abs!Next
  <2> QED BY <2>2, <2>3, <2>4, <2>5, <2>6, <2>7 DEF Next, TraceStep
<1> QED BY <1>1, <1>2, TypeCorrect, AgreementKept, FirstRunShapes, OutcomesAllowed,
           NoOverrunInFirstRuns, PTL DEF Spec, FirstRunImplementsPathReport, Abs!Spec
-----------------------------------------------------------------------------
(* A ray that began this run with empty arrays is found exactly when it    *)
(* has reached the receiver in it.                                         *)
CleanFoundReached ==
  \A i \in Rays \ dirty : points[i].isFind <=> walk[i].end = "reached"

(* What MyRayTracingCPUcpp.cpp:596 and :713 say is true of every ray whose *)
(* arrays were empty when the run began, in whatever run: of such a ray    *)
(* isFind says that it has reached the receiver in this run ...            *)
THEOREM CleanRaysFoundReached == Spec => []CleanFoundReached
<1>1. TypeOK /\ Agreement => CleanFoundReached
  <2> SUFFICES ASSUME TypeOK, Agreement, NEW i \in Rays \ dirty
               PROVE  points[i].isFind <=> walk[i].end = "reached"
    BY DEF CleanFoundReached
  <2>1. Agrees(points[i], walk[i]) /\ walk[i].end \in Ends
    BY DEF Agreement, TypeOK, Walk
  <2> QED BY <2>1 DEF Agrees, Empty, Ends
<1> QED BY <1>1, TypeCorrect, AgreementKept, PTL

(* ... and it is emptied only when it was reflected more than              *)
(* MAX_REFLECTION_TIMES times in this run.                                 *)
THEOREM CleanRaysDroppedWhenExceeded ==
  Spec => [][ExceedReflect /\ ray \notin dirty => Len(walk'[ray].trail) > MaxReflect]_vars
<1>1. ASSUME TypeOK, Agreement, ExceedReflect, ray \notin dirty
      PROVE  Len(walk'[ray].trail) > MaxReflect
  <2>1. pc = "ray" /\ ray \in Rays \ dirty /\ Len(points[ray].point) >= MaxReflect
    BY <1>1 DEF ExceedReflect, OnRay, TypeOK
  <2>2. walk[ray].end = "walking" /\ Agrees(points[ray], walk[ray])
    BY <1>1, <2>1 DEF Agreement
  <2>3. points[ray].point = walk[ray].trail
    BY <2>2 DEF Agrees
  <2>4. walk \in [Rays -> Walk] /\ walk[ray].trail \in Seq(Tag) /\ run \in Nat
    BY <1>1, <2>1 DEF TypeOK, Walk
  <2>5. walk'[ray].trail = Append(walk[ray].trail, Mark("reflection"))
    BY <1>1, <2>1, <2>4 DEF ExceedReflect, Step
  <2>6. Mark("reflection") \in Tag
    BY <2>4 DEF Mark, Tag, Kinds
  <2>7. Len(walk'[ray].trail) = Len(walk[ray].trail) + 1
    BY <2>4, <2>5, <2>6
  <2> QED BY <2>1, <2>3, <2>4, <2>7, BoundAssumption
<1> QED BY <1>1, TypeCorrect, AgreementKept, PTL

-----------------------------------------------------------------------------
(* How long a run can take, whatever the rays meet and whatever earlier    *)
(* runs have left in the arrays: a child takes ChildSteps at most, and a   *)
(* ray RaySteps, its children included.                                    *)
ChildSteps == MaxAfterDiffraction + 1
RaySteps   == MaxReflect + 1 + N * ChildSteps

Room(p, bound) == IF Len(p.point) < bound THEN bound - Len(p.point) ELSE 0

StepsLeft ==
  CASE pc = "ray"     -> (N - 1 - ray) * RaySteps + N * ChildSteps
                           + Room(points[ray], MaxReflect) + 2
    [] pc = "child"   -> (N - 1 - ray) * RaySteps + (N - 1 - child) * ChildSteps
                           + Room(diffractionPoints[Current], MaxAfterDiffraction) + 2
    [] pc = "collect" -> 1
    [] OTHER          -> 0

LEMMA StepsTypes ==
  /\ ChildSteps \in Nat \ {0} /\ RaySteps \in Nat \ {0} /\ N * ChildSteps \in Nat
  /\ RaySteps = MaxReflect + 1 + N * ChildSteps
  /\ \A i \in Rays : (N - 1 - i) * RaySteps \in Nat /\ (N - 1 - i) * ChildSteps \in Nat
  /\ \A i \in Rays : /\ (N - 1 - (i + 1)) * RaySteps = (N - 1 - i) * RaySteps - RaySteps
                     /\ (N - 1 - (i + 1)) * ChildSteps = (N - 1 - i) * ChildSteps - ChildSteps
  /\ N * RaySteps = (N - 1) * RaySteps + RaySteps
  /\ N * ChildSteps = (N - 1) * ChildSteps + ChildSteps
<1>1. ChildSteps \in Nat \ {0}
  BY BoundAssumption DEF ChildSteps
<1>2. ASSUME NEW a \in Nat, NEW b \in Nat PROVE a * b \in Nat
  OBVIOUS
<1>3. N * ChildSteps \in Nat
  BY <1>1, <1>2, NAssumption
<1>4. RaySteps \in Nat \ {0} /\ RaySteps = MaxReflect + 1 + N * ChildSteps
  BY <1>3, BoundAssumption DEF RaySteps
<1>5. ASSUME NEW i \in Rays
      PROVE  N - 1 - i \in Nat /\ N - 1 - (i + 1) = (N - 1 - i) - 1
  BY NAssumption DEF Rays
<1>6. ASSUME NEW a \in Int, NEW b \in Int PROVE (a - 1) * b = a * b - b
  OBVIOUS
<1>7. ASSUME NEW i \in Rays
      PROVE  /\ (N - 1 - i) * RaySteps \in Nat /\ (N - 1 - i) * ChildSteps \in Nat
             /\ (N - 1 - (i + 1)) * RaySteps = (N - 1 - i) * RaySteps - RaySteps
             /\ (N - 1 - (i + 1)) * ChildSteps = (N - 1 - i) * ChildSteps - ChildSteps
  <2> DEFINE a == N - 1 - i
  <2>1. a \in Nat /\ N - 1 - (i + 1) = a - 1
    BY <1>5
  <2> HIDE DEF a
  <2>2. /\ a * RaySteps \in Nat /\ a * ChildSteps \in Nat
        /\ (a - 1) * RaySteps = a * RaySteps - RaySteps
        /\ (a - 1) * ChildSteps = a * ChildSteps - ChildSteps
    BY <1>1, <1>2, <1>4, <1>6, <2>1
  <2> QED BY <2>1, <2>2 DEF a
<1>8. N * RaySteps = (N - 1) * RaySteps + RaySteps
  BY <1>4, <1>6, NAssumption
<1>9. N * ChildSteps = (N - 1) * ChildSteps + ChildSteps
  BY <1>1, <1>6, NAssumption
<1> QED BY <1>1, <1>3, <1>4, <1>7, <1>8, <1>9

(* A ray that the loop begins has the steps of one ray and of those after  *)
(* it, whatever is recorded for it.                                        *)
LEMMA StepsAtRay ==
  ASSUME TypeOK', pc' = "ray" \/ pc' = "collect"
  PROVE  /\ StepsLeft' \in Nat
         /\ pc' = "ray" => StepsLeft' <= (N - 1 - ray') * RaySteps + RaySteps + 1
         /\ pc' = "collect" => StepsLeft' = 1
<1>1. CASE pc' = "ray"
  <2> DEFINE R == Room(points'[ray'], MaxReflect)
  <2>1. StepsLeft' = (N - 1 - ray') * RaySteps + N * ChildSteps + R + 2
    BY <1>1 DEF StepsLeft, Room
  <2>2. Len(points'[ray'].point) \in Nat /\ ray' \in Rays
    BY DEF TypeOK, Path
  <2>3. R \in Nat /\ R <= MaxReflect
    BY <2>2, BoundAssumption DEF Room
  <2> DEFINE A == (N - 1 - ray') * RaySteps
  <2>4. /\ A \in Nat /\ N * ChildSteps \in Nat /\ MaxReflect \in Nat
        /\ RaySteps = MaxReflect + 1 + N * ChildSteps
    BY <2>2, StepsTypes, BoundAssumption
  <2> HIDE DEF R, A
  <2>5. StepsLeft' = A + N * ChildSteps + R + 2
    BY <2>1 DEF A
  <2>6. StepsLeft' \in Nat /\ StepsLeft' <= A + RaySteps + 1
    BY <2>3, <2>4, <2>5
  <2> QED BY <1>1, <2>6 DEF A
<1>2. CASE pc' = "collect"
  BY <1>2 DEF StepsLeft
<1> QED BY <1>1, <1>2

(* What a step of the ray, and of a child, leaves to be done.              *)
LEMMA RayStepCounts ==
  ASSUME TypeOK, TypeOK', RayStep
  PROVE  StepsLeft' \in Nat /\ StepsLeft' < StepsLeft
<1> DEFINE R == Room(points[ray], MaxReflect)
           A == (N - 1 - ray) * RaySteps
<1>0. pc = "ray" /\ ray \in Rays
  BY DEF RayStep, Reach, Reflect, ExceedReflect, Corner, ExceedCorner, Inside, Leave, OnRay, TypeOK
<1>1. Len(points[ray].point) \in Nat /\ MaxReflect \in Nat /\ MaxAfterDiffraction \in Nat
  BY <1>0, BoundAssumption DEF TypeOK, Path
<1>2. /\ R \in Nat
      /\ Len(points[ray].point) < MaxReflect => R = MaxReflect - Len(points[ray].point)
  <2> DEFINE n == Len(points[ray].point)
  <2>1. R = IF n < MaxReflect THEN MaxReflect - n ELSE 0
    BY DEF Room
  <2>2. n \in Nat /\ MaxReflect \in Nat
    BY <1>1
  <2> HIDE DEF n, R
  <2>3. R \in Nat
    BY <2>1, <2>2
  <2>4. n < MaxReflect => R = MaxReflect - n
    BY <2>1, <2>2
  <2> QED BY <2>3, <2>4 DEF n, R
<1>3. A \in Nat /\ N * ChildSteps \in Nat
  BY <1>0, StepsTypes
<1>4. StepsLeft = A + N * ChildSteps + R + 2
  BY <1>0 DEF StepsLeft
<1>5. CASE NextRay
  <2>1. /\ pc' = "ray" /\ ray' = ray + 1
        \/ pc' = "collect"
    BY <1>0, <1>5, NextRayMoves
  <2>2. CASE pc' = "collect"
    <3>1. StepsLeft' = 1
      BY <2>2, StepsAtRay
    <3> HIDE DEF A, R
    <3> QED BY <1>2, <1>3, <1>4, <3>1
  <2>3. CASE pc' = "ray" /\ ray' = ray + 1
    <3>1. StepsLeft' \in Nat /\ StepsLeft' <= (N - 1 - (ray + 1)) * RaySteps + RaySteps + 1
      BY <2>3, StepsAtRay
    <3>2. (N - 1 - (ray + 1)) * RaySteps = A - RaySteps /\ RaySteps \in Nat
      BY <1>0, StepsTypes
    <3> HIDE DEF A, R
    <3> QED BY <1>2, <1>3, <1>4, <3>1, <3>2
  <2> QED BY <2>1, <2>2, <2>3
<1>6. CASE Reflect
  <2>1. /\ pc' = "ray" /\ ray' = ray /\ Len(points[ray].point) < MaxReflect
        /\ points'[ray].point = Append(points[ray].point, Mark("reflection"))
    BY <1>0, <1>6 DEF Reflect, WithPoint, TypeOK, Path
  <2>2. Len(points'[ray].point) = Len(points[ray].point) + 1
    <3>1. points[ray].point \in Seq(Tag) /\ Mark("reflection") \in Tag
      BY <1>0 DEF TypeOK, Path, Mark, Tag, Kinds
    <3> QED BY <2>1, <3>1
  <2>3. Room(points'[ray], MaxReflect) = R - 1
    BY <1>1, <2>1, <2>2 DEF Room
  <2>4. StepsLeft' = A + N * ChildSteps + Room(points'[ray], MaxReflect) + 2
    BY <2>1 DEF StepsLeft, Room
  <2>5. R >= 1
    BY <1>1, <1>2, <2>1
  <2> HIDE DEF A, R
  <2> QED BY <1>2, <1>3, <1>4, <2>3, <2>4, <2>5
<1>7. CASE Corner
  <2> DEFINE Q == Room(diffractionPoints'[Index(ray, 0)], MaxAfterDiffraction)
             B == (N - 1) * ChildSteps
  <2>1. /\ pc' = "child" /\ ray' = ray /\ child' = 0 /\ Len(points[ray].point) < MaxReflect
    BY <1>7 DEF Corner
  <2>2. StepsLeft' = A + B + Q + 2
    <3>1. N - 1 - 0 = N - 1
      BY NAssumption
    <3> QED BY <2>1, <3>1 DEF StepsLeft, Room, Current, Index
  <2>3. Index(ray, 0) \in ChildSlots
    BY <1>0, IndexInRange, NAssumption DEF Rays
  <2>4. Len(diffractionPoints'[Index(ray, 0)].point) \in Nat
    BY <2>3 DEF TypeOK, Path
  <2>5. Q \in Nat /\ Q <= MaxAfterDiffraction
    BY <1>1, <2>4 DEF Room
  <2>6. N * ChildSteps = B + ChildSteps
    BY StepsTypes
  <2>7. B \in Nat
    <3>1. 0 \in Rays /\ N - 1 - 0 = N - 1
      BY NAssumption DEF Rays
    <3> QED BY <3>1, StepsTypes
  <2>8. R >= 1 /\ ChildSteps = MaxAfterDiffraction + 1
    BY <1>1, <1>2, <2>1 DEF ChildSteps
  <2> HIDE DEF A, B, R, Q
  <2> QED BY <1>1, <1>2, <1>3, <1>4, <2>2, <2>5, <2>6, <2>7, <2>8
<1> QED BY <1>5, <1>6, <1>7 DEF RayStep, Reach, ExceedReflect, ExceedCorner, Inside, Leave

LEMMA ChildStepCounts ==
  ASSUME TypeOK, TypeOK', ChildStep
  PROVE  StepsLeft' \in Nat /\ StepsLeft' < StepsLeft
<1> DEFINE Q == Room(diffractionPoints[Current], MaxAfterDiffraction)
           A == (N - 1 - ray) * RaySteps
           B == (N - 1 - child) * ChildSteps
<1>0. pc = "child" /\ ray \in Rays /\ child \in Rays
  BY DEF ChildStep, ChildReach, ChildReflect, ChildExceed, ChildInside, ChildLeave, OnChild, TypeOK
<1>1. /\ Current \in ChildSlots /\ diffractionPoints[Current].point \in Seq(Tag)
      /\ Len(diffractionPoints[Current].point) \in Nat /\ MaxAfterDiffraction \in Nat
  <2>1. Current \in ChildSlots
    BY <1>0, IndexInRange DEF Current
  <2>2. diffractionPoints[Current].point \in Seq(Tag)
    BY <2>1 DEF TypeOK, Path
  <2> QED BY <2>1, <2>2, BoundAssumption
<1>2. Q \in Nat
  BY <1>1 DEF Room
<1>3. A \in Nat /\ B \in Nat /\ ChildSteps = MaxAfterDiffraction + 1 /\ RaySteps \in Nat
  BY <1>0, StepsTypes DEF ChildSteps
<1>4. StepsLeft = A + B + Q + 2
  BY <1>0 DEF StepsLeft
<1>5. CASE NextChild
  <2>1. \/ pc' = pc /\ ray' = ray /\ child' = child + 1
        \/ pc' = "ray" /\ ray' = ray + 1
        \/ pc' = "collect"
    BY <1>0, <1>5, NextChildMoves
  <2>2. CASE pc' = "collect"
    <3>1. StepsLeft' = 1
      BY <2>2, StepsAtRay
    <3> HIDE DEF A, B, Q
    <3> QED BY <1>2, <1>3, <1>4, <3>1
  <2>3. CASE pc' = "ray" /\ ray' = ray + 1
    <3>1. StepsLeft' \in Nat /\ StepsLeft' <= (N - 1 - (ray + 1)) * RaySteps + RaySteps + 1
      BY <2>3, StepsAtRay
    <3>2. (N - 1 - (ray + 1)) * RaySteps = A - RaySteps
      BY <1>0, StepsTypes
    <3> HIDE DEF A, B, Q
    <3> QED BY <1>2, <1>3, <1>4, <3>1, <3>2
  <2>4. CASE pc' = pc /\ ray' = ray /\ child' = child + 1
    <3> DEFINE P == Room(diffractionPoints'[Index(ray, child + 1)], MaxAfterDiffraction)
    <3>1. StepsLeft' = A + (N - 1 - (child + 1)) * ChildSteps + P + 2
      BY <1>0, <2>4 DEF StepsLeft, Room, Current, Index
    <3>2. Len(diffractionPoints'[Index(ray, child + 1)].point) \in Nat
      BY <2>4, IndexInRange DEF TypeOK, Path
    <3>3. P \in Nat /\ P <= MaxAfterDiffraction
      BY <1>1, <3>2 DEF Room
    <3>4. (N - 1 - (child + 1)) * ChildSteps = B - ChildSteps
      BY <1>0, StepsTypes
    <3>5. (N - 1 - (child + 1)) * ChildSteps \in Nat
      BY <2>4, StepsTypes DEF TypeOK
    <3> HIDE DEF A, B, Q, P
    <3> QED BY <1>1, <1>2, <1>3, <1>4, <3>1, <3>3, <3>4, <3>5
  <2> QED BY <2>1, <2>2, <2>3, <2>4
<1>6. CASE ChildReflect
  <2>1. /\ pc' = "child" /\ ray' = ray /\ child' = child
        /\ Len(diffractionPoints[Current].point) < MaxAfterDiffraction
        /\ diffractionPoints'[Current].point =
             Append(diffractionPoints[Current].point, Mark("reflection"))
    BY <1>0, <1>1, <1>6 DEF ChildReflect, WithPoint, TypeOK, Path
  <2>2. Len(diffractionPoints'[Current].point) = Len(diffractionPoints[Current].point) + 1
    BY <1>1, <2>1 DEF TypeOK, Mark, Tag, Kinds
  <2>3. Room(diffractionPoints'[Current], MaxAfterDiffraction) = Q - 1 /\ Q >= 1
    BY <1>1, <2>1, <2>2 DEF Room
  <2>4. StepsLeft' = A + B + Room(diffractionPoints'[Current], MaxAfterDiffraction) + 2
    BY <2>1 DEF StepsLeft, Room, Current, Index
  <2> HIDE DEF A, B, Q
  <2> QED BY <1>2, <1>3, <1>4, <2>3, <2>4
<1> QED BY <1>5, <1>6 DEF ChildStep, ChildReach, ChildExceed, ChildInside, ChildLeave

(* The bounds on N stop a ray that is reflected for ever: a run takes at   *)
(* most N * RaySteps + 1 steps, each of which leaves fewer to be taken,    *)
(* in any run and whatever the arrays held when it began.                  *)
THEOREM RunsAreBounded ==
  Spec => [][/\ BeginRun  => StepsLeft' \in 0 .. N * RaySteps + 1
             /\ TraceStep => StepsLeft' \in Nat /\ StepsLeft' < StepsLeft]_vars
<1>1. ASSUME TypeOK, TypeOK', BeginRun PROVE StepsLeft' \in 0 .. N * RaySteps + 1
  <2>1. pc' = "ray" /\ ray' = 0
    BY <1>1 DEF BeginRun
  <2>2. StepsLeft' \in Nat /\ StepsLeft' <= (N - 1 - 0) * RaySteps + RaySteps + 1
    BY <1>1, <2>1, StepsAtRay
  <2>3. N - 1 - 0 = N - 1 /\ N * RaySteps = (N - 1) * RaySteps + RaySteps
    BY StepsTypes, NAssumption
  <2> QED BY <2>2, <2>3
<1>2. ASSUME TypeOK, Overrun \/ Collect PROVE StepsLeft' \in Nat /\ StepsLeft' < StepsLeft
  <2>1. StepsLeft' = 0
    BY <1>2 DEF Overrun, Collect, StepsLeft
  <2>2. pc \in {"ray", "child", "collect"}
    BY <1>2 DEF Overrun, Collect, OnRay, OnChild
  <2>3. /\ Len(points[ray].point) \in Nat /\ Len(diffractionPoints[Current].point) \in Nat
        /\ ray \in Rays /\ child \in Rays
    BY <1>2, IndexInRange DEF TypeOK, Path, Current
  <2>4. Room(points[ray], MaxReflect) \in Nat /\ Room(diffractionPoints[Current], MaxAfterDiffraction) \in Nat
    BY <2>3, BoundAssumption DEF Room
  <2>5. StepsLeft > 0
    <3> DEFINE A == (N - 1 - ray) * RaySteps
               B == (N - 1 - child) * ChildSteps
               C == N * ChildSteps
               R == Room(points[ray], MaxReflect)
               Q == Room(diffractionPoints[Current], MaxAfterDiffraction)
    <3>1. A \in Nat /\ B \in Nat /\ C \in Nat /\ R \in Nat /\ Q \in Nat
      BY <2>3, <2>4, StepsTypes
    <3>2. StepsLeft \in {A + C + R + 2, A + B + Q + 2, 1}
      BY <2>2 DEF StepsLeft
    <3> HIDE DEF A, B, C, R, Q
    <3> QED BY <3>1, <3>2
  <2> QED BY <2>1, <2>5
<1>3. ASSUME TypeOK, TypeOK', [Next]_vars
      PROVE  /\ BeginRun  => StepsLeft' \in 0 .. N * RaySteps + 1
             /\ TraceStep => StepsLeft' \in Nat /\ StepsLeft' < StepsLeft
  BY <1>1, <1>2, <1>3, RayStepCounts, ChildStepCounts DEF TraceStep
<1> QED BY <1>3, TypeCorrect, PTL DEF Spec
=============================================================================
