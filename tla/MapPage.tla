------------------------------ MODULE MapPage -------------------------------
(***************************************************************************)
(* The browser page: the loads of MapLoader and the placements of          *)
(* VehiclePlacement in one window.  They share the socket and the bounding *)
(* box, which a load may change between the clicks of a placement.  Each   *)
(* handler of the page runs to its end before another starts.              *)
(***************************************************************************)
EXTENDS MapLoader

CONSTANTS TxTypes, VehicleTypes, NoType, MaxChoices

VARIABLES listening, enabled, rollOver, vehicleType, dynamicMod, count,
          startPoint, vehicleDTO, posted, asked, interrupted,
          threw, steady, choices

Placement == INSTANCE VehiclePlacement WITH Boxes <- Box \cup {NoBox}

pageVars == <<vars, Placement!vars>>

PageInit == Init /\ Placement!Init

PageNext ==
  \/ Next /\ Placement!Environment
  \/ Placement!Step /\ UNCHANGED vars

PageSpec == PageInit /\ [][PageNext]_pageVars

-----------------------------------------------------------------------------
(* The variables of both parts hold values of their kind.                  *)
PageTypeOK == TypeOK /\ Placement!TypeOK

(* Placements keep what they promise while maps come and go under them     *)
(* (stated in VehiclePlacement, about webgl.js:76-136 and 214-280).        *)
VehicleAsAsked == Placement!VehicleAsAsked
OneFrame       == Placement!OneFrame
=============================================================================
