----------------------------- MODULE RayTracer ------------------------------
(***************************************************************************)
(* The ray-tracing engine the server runs: class RayTracingCPU of          *)
(* Demo1/MyRayTracingCPUcpp.cpp on top of Demo1/RayTracing.h.              *)
(*                                                                         *)
(* One call of initCUDAInput traces N rays from the transmitter, one after *)
(* the other.  What a ray meets is geometry, abstracted here to the five   *)
(* things judgeIsTouchedCPU can do with it: it reaches the receiver, is    *)
(* reflected by a wall, hits the end point of a wall (diffraction: N child *)
(* rays start there), hits a wall from inside, or leaves the grid.  What   *)
(* the engine RECORDS about it is modelled in full: the arrays points and  *)
(* diffractionPoints, which init() clears once and no run clears again,    *)
(* the bounds on N, the flags isFind, the buffer of child rays, and how    *)
(* the result is put together from the arrays.                             *)
(***************************************************************************)
EXTENDS Integers, Sequences

CONSTANTS
  N,                   \* number of rays (setN; the server uses 900)
  MaxReflect,          \* MAX_REFLECTION_TIMES
  MaxAfterDiffraction, \* MAX_REFLECTION_TIMES_AFTER_DIFFRACTION
  Slots,               \* capacity of Points.point (30)
  MaxRuns              \* bound of the model: number of calls of initCUDAInput

ASSUME NAssumption    == N \in Nat \ {0}
ASSUME RunsAssumption == MaxRuns \in Nat
ASSUME BoundAssumption ==
  /\ MaxReflect \in Nat \ {0} /\ MaxAfterDiffraction \in Nat /\ Slots \in Nat
  /\ MaxAfterDiffraction <= MaxReflect
  /\ MaxReflect + 1 < Slots

VARIABLES
  txUpdateFlag,        \* RayTracing.txUpdateFlag: the start vectors exist
  points,              \* what is recorded for the N rays
  diffractionPoints,   \* what is recorded for their N*N child rays
  pc,                  \* where the run is
  ray,                 \* i of judgeIsTouchedCPU
  child,               \* i of judegTouchedDiffractionCPU
  getResult,           \* the paths the last finished run returned
  leaked               \* child-ray buffers malloc'ed and never freed

(* History variables: the runs so far, what the rays of the current run    *)
(* really did, and the rays whose arrays were not empty when it began.     *)
VARIABLES run, walk, childWalk, dirty

store   == <<points, diffractionPoints, leaked>>
history == <<run, walk, childWalk, dirty>>
vars    == <<txUpdateFlag, store, pc, ray, child, getResult, history>>

Rays       == 0 .. N - 1
ChildSlots == 0 .. N * N - 1

(* Where ray i keeps its m-th child ray: the children of all rays share    *)
(* one flat array, at currentPointsIndex*N + i.  (A definition named       *)
(* ..._Mutant is a plausible mistake in the one after it; it is no part of *)
(* the specification and serves to show that a property can fail.)         *)
Index_Mutant(i, m) == i + m
Index(i, m)        == i * N + m

Kinds == {"reflection", "corner", "rx"}
Tag   == [kind : Kinds, run : Nat]
Path  == [point : Seq(Tag), isFind : BOOLEAN]
Ends  == {"walking", "reached", "diffracted", "left", "dropped"}
Walk  == [trail : Seq(Tag), end : Ends]

Empty   == [point |-> <<>>, isFind |-> FALSE]
Started == [trail |-> <<>>, end |-> "walking"]

(* A recorded point: its role, and the run that recorded it.               *)
Mark(k) == [kind |-> k, run |-> run]

HasRoom(p) == Len(p.point) < Slots

(* Writing a point into a path; the receiver's sets isFind as well.        *)
WithPoint(p, k) == [p EXCEPT !.point = Append(@, Mark(k))]
WithRx_Mutant(p) == [p EXCEPT !.point = Append(@, Mark("rx"))]
WithRx(p)       == [point |-> Append(p.point, Mark("rx")), isFind |-> TRUE]
Step(w, k, e)   == [trail |-> Append(w.trail, Mark(k)), end |-> e]
Ended(w, e)     == [w EXCEPT !.end = e]

Clean(i) ==
  points[i] = Empty /\ \A m \in Rays : diffractionPoints[Index(i, m)] = Empty

-----------------------------------------------------------------------------
(* The end of a ray's loop body, and the end of a child's.                 *)
NextRay_Mutant ==
  IF ray = N THEN ray' = 0 /\ pc' = "collect" ELSE ray' = ray + 1 /\ pc' = "ray"

NextRay ==
  IF ray = N - 1 THEN ray' = 0       /\ pc' = "collect"
                 ELSE ray' = ray + 1 /\ pc' = "ray"

NextChild ==
  IF child = N - 1 THEN child' = 0 /\ NextRay
                   ELSE child' = child + 1 /\ UNCHANGED <<ray, pc>>

(* RayTracingCPU::updateTx: the first call allocates the start vectors.    *)
(* Transmitter, receiver and walls may change between two runs, so a ray   *)
(* may meet other things in each run; nothing relates one walk to another. *)
UpdateTx ==
  /\ pc = "idle" /\ txUpdateFlag' = TRUE
  /\ UNCHANGED <<store, pc, ray, child, getResult, history>>

(* initCUDAInput is entered; the facade calls it only when isReady().      *)
(* The arrays are not touched.                                             *)
BeginRun ==
  /\ pc = "idle" /\ txUpdateFlag /\ run < MaxRuns
  /\ run' = run + 1
  /\ pc' = "ray" /\ ray' = 0 /\ child' = 0
  /\ getResult' = {}
  /\ walk' = [i \in Rays |-> Started]
  /\ childWalk' = [k \in ChildSlots |-> Started]
  /\ dirty' = {i \in Rays : ~Clean(i)}
  /\ UNCHANGED <<txUpdateFlag, store>>

-----------------------------------------------------------------------------
(* judgeIsTouchedCPU, ray i.                                               *)

OnRay == pc = "ray"

(* The receiver is nearer than any wall of the cell: the point is recorded *)
(* whatever the number of points already there.                            *)
Reach ==
  /\ OnRay /\ HasRoom(points[ray])
  /\ points' = [points EXCEPT ![ray] = WithRx(@)]
  /\ walk' = [walk EXCEPT ![ray] = Step(@, "rx", "reached")]
  /\ NextRay
  /\ UNCHANGED <<txUpdateFlag, diffractionPoints, leaked, child, getResult,
                 run, childWalk, dirty>>

(* A wall reflects the ray, and it goes on from there ...                  *)
Reflect_Mutant ==
  /\ OnRay /\ HasRoom(points[ray])
  /\ points' = [points EXCEPT ![ray] = WithPoint(@, "reflection")]
  /\ walk' = [walk EXCEPT ![ray] = Step(@, "reflection", "walking")]
  /\ UNCHANGED <<txUpdateFlag, diffractionPoints, leaked, pc, ray, child,
                 getResult, run, childWalk, dirty>>

Reflect ==
  /\ OnRay /\ HasRoom(points[ray])
  /\ Len(points[ray].point) < MaxReflect
  /\ points' = [points EXCEPT ![ray] = WithPoint(@, "reflection")]
  /\ walk' = [walk EXCEPT ![ray] = Step(@, "reflection", "walking")]
  /\ UNCHANGED <<txUpdateFlag, diffractionPoints, leaked, pc, ray, child,
                 getResult, run, childWalk, dirty>>

(* ... unless that makes more than MAX_REFLECTION_TIMES points.            *)
ExceedReflect_Mutant ==
  /\ OnRay /\ HasRoom(points[ray])
  /\ Len(points[ray].point) >= MaxReflect
  /\ points' = [points EXCEPT ![ray] = Empty]
  /\ walk' = [walk EXCEPT ![ray] = Started]
  /\ UNCHANGED <<txUpdateFlag, diffractionPoints, leaked, pc, ray, child,
                 getResult, run, childWalk, dirty>>

ExceedReflect ==
  /\ OnRay /\ HasRoom(points[ray])
  /\ Len(points[ray].point) >= MaxReflect
  /\ points' = [points EXCEPT ![ray] = Empty]
  /\ walk' = [walk EXCEPT ![ray] = Step(@, "reflection", "dropped")]
  /\ NextRay
  /\ UNCHANGED <<txUpdateFlag, diffractionPoints, leaked, child, getResult,
                 run, childWalk, dirty>>

(* The end point of a wall: a buffer of N child rays is allocated, the     *)
(* corner is recorded and the children are traced, now ...                 *)
Corner ==
  /\ OnRay /\ HasRoom(points[ray])
  /\ Len(points[ray].point) < MaxReflect
  /\ points' = [points EXCEPT ![ray] = WithPoint(@, "corner")]
  /\ walk' = [walk EXCEPT ![ray] = Step(@, "corner", "diffracted")]
  /\ pc' = "child" /\ child' = 0
  /\ UNCHANGED <<txUpdateFlag, diffractionPoints, leaked, ray, getResult,
                 run, childWalk, dirty>>

(* ... or the ray is dropped, and the buffer stays allocated.              *)
ExceedCorner_Mutant ==
  /\ OnRay /\ HasRoom(points[ray])
  /\ Len(points[ray].point) >= MaxReflect
  /\ points' = [points EXCEPT ![ray] = Empty]
  /\ leaked' = leaked + 1
  /\ UNCHANGED <<txUpdateFlag, diffractionPoints, pc, ray, child, getResult,
                 history>>

ExceedCorner ==
  /\ OnRay /\ HasRoom(points[ray])
  /\ Len(points[ray].point) >= MaxReflect
  /\ points' = [points EXCEPT ![ray] = Empty]
  /\ walk' = [walk EXCEPT ![ray] = Step(@, "corner", "dropped")]
  /\ leaked' = leaked + 1
  /\ NextRay
  /\ UNCHANGED <<txUpdateFlag, diffractionPoints, child, getResult,
                 run, childWalk, dirty>>

(* The ray hits a wall from the inner side.                                *)
Inside ==
  /\ OnRay
  /\ points' = [points EXCEPT ![ray] = Empty]
  /\ walk' = [walk EXCEPT ![ray] = Ended(@, "dropped")]
  /\ NextRay
  /\ UNCHANGED <<txUpdateFlag, diffractionPoints, leaked, child, getResult,
                 run, childWalk, dirty>>

(* The ray leaves the grid: what is recorded for it stays.                 *)
Leave ==
  /\ OnRay
  /\ walk' = [walk EXCEPT ![ray] = Ended(@, "left")]
  /\ NextRay
  /\ UNCHANGED <<txUpdateFlag, store, child, getResult, run, childWalk, dirty>>

-----------------------------------------------------------------------------
(* judegTouchedDiffractionCPU, child ray of ray.                           *)

OnChild == pc = "child"
Current == Index(ray, child)

ChildReach ==
  /\ OnChild /\ HasRoom(diffractionPoints[Current])
  /\ diffractionPoints' = [diffractionPoints EXCEPT ![Current] = WithRx(@)]
  /\ childWalk' = [childWalk EXCEPT ![Current] = Step(@, "rx", "reached")]
  /\ NextChild
  /\ UNCHANGED <<txUpdateFlag, points, leaked, getResult, run, walk, dirty>>

ChildReflect ==
  /\ OnChild /\ HasRoom(diffractionPoints[Current])
  /\ Len(diffractionPoints[Current].point) < MaxAfterDiffraction
  /\ diffractionPoints' =
       [diffractionPoints EXCEPT ![Current] = WithPoint(@, "reflection")]
  /\ childWalk' = [childWalk EXCEPT ![Current] = Step(@, "reflection", "walking")]
  /\ UNCHANGED <<txUpdateFlag, points, leaked, pc, ray, child, getResult,
                 run, walk, dirty>>

ChildExceed ==
  /\ OnChild /\ HasRoom(diffractionPoints[Current])
  /\ Len(diffractionPoints[Current].point) >= MaxAfterDiffraction
  /\ diffractionPoints' = [diffractionPoints EXCEPT ![Current] = Empty]
  /\ childWalk' = [childWalk EXCEPT ![Current] = Step(@, "reflection", "dropped")]
  /\ NextChild
  /\ UNCHANGED <<txUpdateFlag, points, leaked, getResult, run, walk, dirty>>

ChildInside ==
  /\ OnChild
  /\ diffractionPoints' = [diffractionPoints EXCEPT ![Current] = Empty]
  /\ childWalk' = [childWalk EXCEPT ![Current] = Ended(@, "dropped")]
  /\ NextChild
  /\ UNCHANGED <<txUpdateFlag, points, leaked, getResult, run, walk, dirty>>

ChildLeave ==
  /\ OnChild
  /\ childWalk' = [childWalk EXCEPT ![Current] = Ended(@, "left")]
  /\ NextChild
  /\ UNCHANGED <<txUpdateFlag, store, getResult, run, walk, dirty>>

-----------------------------------------------------------------------------
(* A point is due to be recorded in a path that already fills its array:   *)
(* the write lands behind point[Slots-1] and what follows is undefined.    *)
Overrun ==
  /\ \/ OnRay   /\ ~HasRoom(points[ray])
     \/ OnChild /\ ~HasRoom(diffractionPoints[Current])
  /\ pc' = "undefined"
  /\ UNCHANGED <<txUpdateFlag, store, ray, child, getResult, history>>

(* What initCUDAInput returns: a found ray gives its own path; a ray that  *)
(* is not found but holds points gives one path per found child.  The      *)
(* vector it returns is a set here, of paths labelled with their ray and   *)
(* child: the order, by ray and then by child, is left out.                *)
Direct == -1
Found(i) == {m \in Rays : diffractionPoints[Index(i, m)].isFind}

PathsViaChildren_Mutant(i) ==
  {[ray |-> i, child |-> m, path |-> diffractionPoints[Index(i, m)].point] :
     m \in Found(i)}

PathsViaChildren(i) ==
  {[ray |-> i, child |-> m,
    path |-> points[i].point \o diffractionPoints[Index(i, m)].point] :
     m \in Found(i)}

ReportOf(i) ==
  IF points[i].isFind
  THEN {[ray |-> i, child |-> Direct, path |-> points[i].point]}
  ELSE IF points[i].point # <<>> THEN PathsViaChildren(i) ELSE {}

Collect ==
  /\ pc = "collect"
  /\ getResult' = UNION {ReportOf(i) : i \in Rays}
  /\ pc' = "idle"
  /\ UNCHANGED <<txUpdateFlag, store, ray, child, history>>

-----------------------------------------------------------------------------
(* RayTracingCPU::init: the only place that clears the arrays.             *)
Init ==
  /\ txUpdateFlag = FALSE
  /\ points = [i \in Rays |-> Empty]
  /\ diffractionPoints = [k \in ChildSlots |-> Empty]
  /\ pc = "idle" /\ ray = 0 /\ child = 0
  /\ getResult = {} /\ leaked = 0
  /\ run = 0 /\ dirty = {}
  /\ walk = [i \in Rays |-> Started]
  /\ childWalk = [k \in ChildSlots |-> Started]

RayStep ==
  \/ Reach \/ Reflect \/ ExceedReflect \/ Corner \/ ExceedCorner
  \/ Inside \/ Leave
ChildStep ==
  \/ ChildReach \/ ChildReflect \/ ChildExceed \/ ChildInside \/ ChildLeave
TraceStep == RayStep \/ ChildStep \/ Overrun \/ Collect

Next == UpdateTx \/ BeginRun \/ TraceStep

(* The trace is a loop in one function of the server's only thread: once   *)
(* entered it runs on by itself.                                           *)
Spec     == Init /\ [][Next]_vars
FairSpec == Spec /\ WF_vars(TraceStep)

-----------------------------------------------------------------------------
(* Properties.                                                             *)

TypeOK ==
  /\ txUpdateFlag \in BOOLEAN
  /\ points \in [Rays -> Path]
  /\ diffractionPoints \in [ChildSlots -> Path]
  /\ pc \in {"idle", "ray", "child", "collect", "undefined"}
  /\ ray \in Rays /\ child \in Rays
  /\ \A e \in getResult : e.ray \in Rays /\ e.path \in Seq(Tag)
  /\ leaked \in Nat /\ run \in Nat
  /\ walk \in [Rays -> Walk] /\ childWalk \in [ChildSlots -> Walk]
  /\ dirty \in SUBSET Rays

(* A path is flagged as found exactly when the receiver is among the       *)
(* points recorded for it, over any number of runs: isFind is set with the *)
(* receiver's point and cleared only together with the whole path.         *)
HoldsRx(p)  == \E n \in 1 .. Len(p.point) : p.point[n].kind = "rx"
FoundIffRx ==
  /\ \A i \in Rays : points[i].isFind <=> HoldsRx(points[i])
  /\ \A k \in ChildSlots :
       diffractionPoints[k].isFind <=> HoldsRx(diffractionPoints[k])

(* What a walk that really happened amounts to: the paths that the rays    *)
(* and children of this run took to the receiver.                          *)
ExpectedOf(i) ==
  {[ray |-> i, child |-> Direct, path |-> walk[i].trail] :
     n \in {n \in {0} : walk[i].end = "reached"}} \cup
  {[ray |-> i, child |-> m,
    path |-> walk[i].trail \o childWalk[Index(i, m)].trail] :
     m \in {m \in Rays : /\ walk[i].end = "diffracted"
                         /\ childWalk[Index(i, m)].end = "reached"}}

(* When a run is over, the paths returned for a ray whose arrays were      *)
(* empty when it began are exactly the ones the ray and its children took  *)
(* in that run: none is missing, none is invented, none is another ray's.  *)
ExactWhenClean ==
  pc = "idle" /\ run > 0 =>
    \A i \in Rays \ dirty : {e \in getResult : e.ray = i} = ExpectedOf(i)

(* Why: the arrays of such a ray say what the ray has done so far, and     *)
(* nothing is recorded for the children of a ray that met no corner.       *)
Agrees(p, w) ==
  CASE w.end = "dropped" -> p = Empty
    [] w.end = "reached" -> p = [point |-> w.trail, isFind |-> TRUE]
    [] OTHER             -> p = [point |-> w.trail, isFind |-> FALSE]
Agreement ==
  /\ \A i \in Rays \ dirty :
       /\ Agrees(points[i], walk[i])
       /\ \A m \in Rays :
            Agrees(diffractionPoints[Index(i, m)], childWalk[Index(i, m)])
  /\ \A i \in Rays :
       IF walk[i].end = "diffracted"
       THEN walk[i].trail # <<>>
       ELSE \A m \in Rays : childWalk[Index(i, m)] = Started
  /\ pc = "ray" => walk[ray].end = "walking"
  /\ pc = "child" => /\ walk[ray].end = "diffracted"
                     /\ \A m \in Rays :
                          m >= child => childWalk[Index(ray, m)].end = "walking"
  /\ pc \in {"ray", "child"} =>
       \A i \in Rays : i > ray => walk[i].end = "walking"

(* The engine is memory safe for its first Slots - MaxReflect runs: no     *)
(* path outgrows its array before, although nothing ever empties a found   *)
(* path and the reach branch checks no bound.                              *)
NoEarlyOverrun == pc = "undefined" => run > Slots - MaxReflect

(* Why: a run adds at most one point to what a path may hold.  Each path   *)
(* has at most its bound plus one point per run, and one less while its    *)
(* ray is still to be finished in this run.                                *)
RayAhead(i)      == pc \in {"ray", "child"} /\ i >= ray
ChildAhead(i, m) == \/ pc = "ray" /\ i >= ray
                    \/ pc = "child" /\ (i > ray \/ (i = ray /\ m >= child))
WithinBudget ==
  /\ pc # "idle" => run >= 1
  /\ \A i \in Rays :
       /\ Len(points[i].point) <= MaxReflect + run
       /\ RayAhead(i) => Len(points[i].point) < MaxReflect + run
  /\ \A i, m \in Rays :
       LET n == Len(diffractionPoints[Index(i, m)].point) IN
       /\ n <= MaxAfterDiffraction + run
       /\ ChildAhead(i, m) => n < MaxAfterDiffraction + run

(* A run loses at most one child-ray buffer per ray: each is malloc'ed for *)
(* a corner, and only a ray dropped at one forgets to free it.             *)
LeakBound == leaked <= run * N

(* Why: only the rays the run has passed can have lost one in it.          *)
LeakSoFar ==
  leaked <= IF pc \in {"ray", "child"} THEN (run - 1) * N + ray ELSE run * N

(* Tracing one ray, its children included, writes nothing that belongs to  *)
(* another ray, so the order in which rays are traced cannot matter (the   *)
(* CUDA version of this code traces them all at once).                     *)
RaysIndependent ==
  [][\A i \in Rays : pc \in {"ray", "child"} /\ i # ray =>
       /\ points'[i] = points[i]
       /\ \A m \in Rays :
            diffractionPoints'[Index(i, m)] = diffractionPoints[Index(i, m)]]_vars

(* Every run ends: the bounds on N stop a ray that is reflected for ever.  *)
RunEnds == pc \in {"ray", "child", "collect"} ~> pc \in {"idle", "undefined"}

(* The engine's first run keeps the promise of PathReport.  A ray counts   *)
(* as traced once the loop has passed it.                                  *)
Passed(i) == pc \in {"ray", "child"} => i < ray
Abs == INSTANCE PathReport WITH
  phase   <- IF pc = "idle" THEN "idle" ELSE "tracing",
  traced  <- IF run = 0 THEN {} ELSE {i \in Rays : Passed(i)},
  outcome <- [i \in Rays |-> IF run > 0 /\ Passed(i) THEN ExpectedOf(i) ELSE {}],
  report  <- getResult
FirstRunImplementsPathReport == Abs!Spec

(* MyRayTracingCPUcpp.cpp:596 says of a ray that is flagged as found that  *)
(* it intersects the target: of the rays of a finished run, the ones with  *)
(* isFind set are those that reached the receiver in it.                   *)
FoundRaysReached ==
  pc = "idle" /\ run > 0 =>
    \A i \in Rays : points[i].isFind => walk[i].end = "reached"

(* MyRayTracingCPUcpp.cpp:713 says that a ray is emptied there because it  *)
(* exceeded the maximum number of reflections.                             *)
DroppedOnlyWhenExceeded ==
  [][\A i \in Rays : ExceedReflect /\ i = ray =>
       Len(walk'[i].trail) > MaxReflect]_vars
=============================================================================
