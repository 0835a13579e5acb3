----------------------------- MODULE PathReport -----------------------------
(***************************************************************************)
(* What a run of the ray tracer promises, whatever traces the rays and in  *)
(* whatever order.  Each of the N rays of a run is traced once and ends    *)
(* with its own set of paths; the run returns them all, and nothing else.  *)
(* A path is told by the marks of its points, and a mark names the run     *)
(* that found the point, so a path made of an earlier run's points is not  *)
(* a path of this one.                                                     *)
(***************************************************************************)
EXTENDS Integers, Sequences, SequencesExt

CONSTANTS N, MaxReflect, MaxAfterDiffraction

VARIABLES
  phase,    \* "idle" or "tracing"
  run,      \* number of the current or last run
  traced,   \* the rays traced so far in the run
  outcome,  \* outcome[i]: the paths found for ray i
  report    \* the paths the last run returned

vars == <<phase, run, traced, outcome, report>>

Rays   == 0 .. N - 1
Direct == -1

(* n reflections, then a last point of kind k, all of run r.               *)
Leg(n, k, r) ==
  [j \in 1 .. n + 1 |-> [kind |-> IF j <= n THEN "reflection" ELSE k, run |-> r]]

(* The ray bounces at most MaxReflect times and reaches the receiver.      *)
DirectPaths(i, r) ==
  {[ray |-> i, child |-> Direct, path |-> Leg(n, "rx", r)] : n \in 0 .. MaxReflect}

(* The ray ends at a corner as one of at most MaxReflect points; children  *)
(* of that one corner reach the receiver, each along one path.             *)
DiffractedPaths(i, b, r) ==
  {[ray |-> i, child |-> m, path |-> Leg(b, "corner", r) \o Leg(n, "rx", r)] :
     m \in Rays, n \in 0 .. MaxAfterDiffraction}

IsOutcome(S, i, r) ==
  \/ S = {}
  \/ \E e \in DirectPaths(i, r) : S = {e}
  \/ \E b \in 0 .. MaxReflect - 1 :
       /\ S \subseteq DiffractedPaths(i, b, r)
       /\ \A e, f \in S : e.child = f.child => e = f

Init ==
  /\ phase = "idle" /\ run = 0 /\ report = {}
  /\ traced = {} /\ outcome = [i \in Rays |-> {}]

Begin ==
  /\ phase = "idle" /\ phase' = "tracing"
  /\ run' = run + 1 /\ report' = {}
  /\ traced' = {} /\ outcome' = [i \in Rays |-> {}]

(* Only ray i's outcome changes; what it is, is up to the geometry.        *)
Trace(i) ==
  /\ phase = "tracing" /\ i \notin traced
  /\ traced' = traced \cup {i}
  /\ IsOutcome(outcome'[i], i, run)
  /\ outcome' = [outcome EXCEPT ![i] = outcome'[i]]
  /\ UNCHANGED <<phase, run, report>>

Report ==
  /\ phase = "tracing" /\ traced = Rays
  /\ report' = UNION {outcome[i] : i \in Rays}
  /\ phase' = "idle"
  /\ UNCHANGED <<run, traced, outcome>>

Next == Begin \/ (\E i \in Rays : Trace(i)) \/ Report

Spec == Init /\ [][Next]_vars
=============================================================================
