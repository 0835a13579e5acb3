--------------------------- MODULE MapPageProofs ----------------------------
(***************************************************************************)
(* The composed page implements both of its parts, so that what is proved  *)
(* of each part alone holds of them in one window.                         *)
(***************************************************************************)
EXTENDS MapPage, MapLoaderProofs

Clicks == INSTANCE VehiclePlacementProofs WITH Boxes <- Box \cup {NoBox}

(* A step of the page is a step of the loads or leaves them alone.         *)
THEOREM PageIsLoader == PageSpec => Spec
<1>1. PageInit => Init
  BY DEF PageInit
<1>2. [PageNext]_pageVars => [Next]_vars
  BY DEF PageNext, pageVars
<1> QED BY <1>1, <1>2, PTL DEF PageSpec, Spec

(* For a placement the loads are its environment.                          *)
THEOREM PageIsPlacement == PageSpec => Placement!Spec
<1>1. PageInit => Placement!Init
  BY DEF PageInit
<1>2. [PageNext]_pageVars => [Placement!Next]_(Placement!vars)
  BY DEF PageNext, pageVars, Placement!Next
<1> QED BY <1>1, <1>2, PTL DEF PageSpec, Placement!Spec

(* The map of a load that ran alone is sent whole, whatever is placed.     *)
THEOREM PageSendsWholeMaps == PageSpec => []WholeMapSent
  BY PageIsLoader, WholeMapAlways, PTL

(* The page, once nothing is loading, agrees with itself and the server.   *)
THEOREM SettledPages == PageSpec => []SettledPage
  BY PageIsLoader, PageSettles, PTL

(* Roads use the box of their buildings, whatever is placed meanwhile.     *)
THEOREM PageRoadsFit == PageSpec => RoadsFit
  BY PageIsLoader, RoadsFitAlways, PTL

(* The placements VehiclePlacementProofs is about are those of the page.   *)
LEMMA SamePlacements == Placement!Spec => Clicks!Spec
<1> USE DEF Placement!None, Clicks!None, Placement!Scene, Clicks!Scene,
            Placement!Geo, Clicks!Geo, Placement!EmptyDTO, Clicks!EmptyDTO,
            Placement!NoAnswer, Clicks!NoAnswer, Placement!NotPosted, Clicks!NotPosted,
            Placement!Static, Clicks!Static, Placement!Counted, Clicks!Counted,
            Placement!Forget, Clicks!Forget, Placement!StopListen, Clicks!StopListen
<1>1. Placement!Init => Clicks!Init
  BY DEF Placement!Init, Clicks!Init
<1>2. \A t \in VehicleTypes, m \in {"static", "dynamic"} :
        Placement!SetVehicle(t, m) => Clicks!SetVehicle(t, m)
  BY DEF Placement!SetVehicle, Clicks!SetVehicle
<1>3. \A t \in TxTypes : Placement!SetTx(t) => Clicks!SetTx(t)
  BY DEF Placement!SetTx, Clicks!SetTx
<1>4. Placement!Cancel => Clicks!Cancel
  BY DEF Placement!Cancel, Clicks!Cancel
<1>5. Placement!Place => Clicks!Place
  BY DEF Placement!Place, Clicks!Place, Placement!Finish, Clicks!Finish
<1>6. Placement!FirstPoint => Clicks!FirstPoint
  BY DEF Placement!FirstPoint, Clicks!FirstPoint
<1>7. Placement!SecondPoint => Clicks!SecondPoint
  BY DEF Placement!SecondPoint, Clicks!SecondPoint, Placement!Finish, Clicks!Finish
<1>8. Placement!Environment => Clicks!Environment
  BY DEF Placement!Environment, Clicks!Environment, Placement!view, Clicks!view,
         Placement!globals, Clicks!globals
<1>9. UNCHANGED Placement!vars => UNCHANGED Clicks!vars
  BY DEF Placement!vars, Clicks!vars, Placement!view, Clicks!view,
         Placement!globals, Clicks!globals, Placement!history, Clicks!history
<1>10. Placement!Next => Clicks!Next
  BY <1>2, <1>3, <1>4, <1>5, <1>6, <1>7, <1>8
  DEF Placement!Next, Clicks!Next, Placement!Step, Clicks!Step
<1>11. [Placement!Next]_(Placement!vars) => [Clicks!Next]_(Clicks!vars)
  BY <1>9, <1>10
<1> QED BY <1>1, <1>11, PTL DEF Placement!Spec, Clicks!Spec

(* The variables of both parts hold values of their kind.                  *)
THEOREM PageTypes == PageSpec => []PageTypeOK
<1>1. TypeOK /\ Clicks!TypeOK => PageTypeOK
  BY DEF PageTypeOK, Placement!TypeOK, Clicks!TypeOK, Placement!Types, Clicks!Types,
         Placement!Modes, Clicks!Modes, Placement!Locations, Clicks!Locations,
         Placement!DTO, Clicks!DTO, Placement!None, Clicks!None,
         Placement!Scene, Clicks!Scene, Placement!Geo, Clicks!Geo
<1>2. Clicks!Spec => []Clicks!TypeOK
  BY Clicks!TypeCorrect
<1> QED BY <1>1, <1>2, PageIsLoader, TypeCorrect, PageIsPlacement, SamePlacements, PTL

(* A vehicle message is what the user asked for last, whichever maps are   *)
(* loaded between the clicks.                                              *)
THEOREM PagePlacesAsAsked == PageSpec => []VehicleAsAsked
<1>1. Clicks!VehicleAsAsked => VehicleAsAsked
  BY DEF VehicleAsAsked, Placement!VehicleAsAsked, Clicks!VehicleAsAsked,
         Placement!None, Clicks!None, Placement!Scene, Clicks!Scene,
         Placement!Geo, Clicks!Geo
<1>2. Clicks!Spec => []Clicks!VehicleAsAsked
  BY Clicks!MessageAsAsked
<1> QED BY <1>1, <1>2, PageIsPlacement, SamePlacements, PTL

(* Both points of a moving vehicle are on one map unless a load changed it *)
(* between the clicks.                                                     *)
THEOREM PagePointsOnOneMap == PageSpec => []OneFrame
<1>1. Clicks!OneFrame => OneFrame
  BY DEF OneFrame, Placement!OneFrame, Clicks!OneFrame
<1>2. Clicks!Spec => []Clicks!OneFrame
  BY Clicks!PointsOnOneMap
<1> QED BY <1>1, <1>2, PageIsPlacement, SamePlacements, PTL
=============================================================================
