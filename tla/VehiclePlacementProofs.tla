----------------------- MODULE VehiclePlacementProofs -----------------------
(***************************************************************************)
(* Proofs about VehiclePlacement: for any bounding boxes, types and number *)
(* of uses of the menu, a placement leaves nothing behind and its message  *)
(* is what the user asked for.                                             *)
(***************************************************************************)
EXTENDS VehiclePlacement, TLAPS

(* However a placement ended, none of it is left for the next one: neither *)
(* mode, count, start point nor parts of a message, nor its marker in the  *)
(* scene, and the camera is free again exactly then.                       *)
IdleIsClean ==
  /\ enabled = ~listening
  /\ ~listening => /\ dynamicMod = "undefined" /\ count = 0 /\ startPoint = None
                   /\ vehicleDTO = EmptyDTO /\ ~rollOver

(* A dynamic placement that counts a click has the start point the next    *)
(* click will use: startPoint.longitude is never read of undefined.        *)
StartPointThere ==
  listening /\ dynamicMod = "dynamic" /\ count > 0 => startPoint # None

(* What the user asked for is in the message from the start; only setTx    *)
(* makes the mode the clicks are taken for another than the one asked for. *)
Follows ==
  listening => /\ vehicleDTO.vehicleType = asked.type
               /\ vehicleDTO.dynamic = asked.mode
               /\ asked.mode \in {"static", "dynamic"}
               /\ dynamicMod = "dynamic" <=> asked.mode = "dynamic" \/ interrupted

(* The locations: a second one only after a message that could not be      *)
(* sent; a first one on the map as soon as a dynamic placement counts.     *)
Points ==
  /\ ~threw => vehicleDTO.location2 = None
  /\ dynamicMod = "dynamic" /\ count > 0 =>
       /\ \E b \in Boxes : vehicleDTO.location1 = Geo(b)
       /\ steady => vehicleDTO.location1 = Geo(box)

(* The types, in three parts.                                              *)
Flags ==
  /\ sock \in {"connecting", "open", "closed"} /\ box \in Boxes
  /\ listening \in BOOLEAN /\ enabled \in BOOLEAN /\ rollOver \in BOOLEAN
  /\ interrupted \in BOOLEAN /\ threw \in BOOLEAN /\ steady \in BOOLEAN
Bounds == count \in 0 .. 2 /\ choices \in Nat
Contents ==
  /\ vehicleType \in Types /\ dynamicMod \in Modes
  /\ startPoint \in Locations /\ vehicleDTO \in DTO
  /\ asked \in [type : Types, mode : Modes]
  /\ posted \in [dto : DTO, asked : [type : Types, mode : Modes],
                 clean : BOOLEAN, steady : BOOLEAN]

IInv == Flags /\ Bounds /\ Contents /\ IdleIsClean /\ StartPointThere /\ Follows /\ Points
          /\ VehicleAsAsked /\ OneFrame

-----------------------------------------------------------------------------
(* No message was sent in a step: nothing to show about it.                *)
LEMMA NotPostedFits ==
  ASSUME posted' = NotPosted
  PROVE  VehicleAsAsked' /\ OneFrame'
  BY DEF NotPosted, EmptyDTO, VehicleAsAsked, OneFrame

LEMMA TypesExist ==
  /\ NoType \in Types /\ None \in Locations /\ Scene \in Locations
  /\ \A b \in Boxes : Geo(b) \in Locations
  /\ EmptyDTO \in DTO /\ NoAnswer \in [type : Types, mode : Modes]
  /\ NotPosted \in [dto : DTO, asked : [type : Types, mode : Modes],
                    clean : BOOLEAN, steady : BOOLEAN]
<1>1. NoType \in Types /\ None \in Locations /\ Scene \in Locations
      /\ \A b \in Boxes : Geo(b) \in Locations
  BY DEF Types, Locations
<1>2. EmptyDTO \in DTO /\ NoAnswer \in [type : Types, mode : Modes]
  BY <1>1 DEF EmptyDTO, DTO, Modes, NoAnswer
<1> QED BY <1>1, <1>2 DEF NotPosted

LEMMA InitIInv == Init => IInv
<1> SUFFICES ASSUME Init PROVE IInv
  OBVIOUS
<1> USE DEF Init
<1>1. Flags
  BY DEF Flags
<1>9. Bounds
  BY DEF Bounds
<1>4. Contents
  BY TypesExist DEF Contents, Modes
<1>2. IdleIsClean /\ StartPointThere /\ Follows /\ Points
  BY DEF IdleIsClean, StartPointThere, Follows, Points, EmptyDTO
<1>3. VehicleAsAsked /\ OneFrame
  BY DEF NotPosted, EmptyDTO, VehicleAsAsked, OneFrame
<1> QED BY <1>1, <1>2, <1>3, <1>4, <1>9 DEF IInv

-----------------------------------------------------------------------------
(* stopListen resets everything but the marker and the message sent.       *)
LEMMA StopListenInv ==
  ASSUME IInv, StopListen, rollOver' = FALSE, sock' = sock, box' = box,
         choices' = choices,
         posted' \in [dto : DTO, asked : [type : Types, mode : Modes],
                      clean : BOOLEAN, steady : BOOLEAN],
         VehicleAsAsked', OneFrame'
  PROVE  IInv'
<1>1. Flags'
  BY DEF IInv, Flags, StopListen, Forget
<1>9. Bounds'
  BY DEF IInv, Bounds, StopListen, Forget
<1>4. Contents'
  BY TypesExist DEF Contents, StopListen, Forget, Modes
<1>2. IdleIsClean' /\ StartPointThere' /\ Follows'
  BY DEF StopListen, IdleIsClean, StartPointThere, Follows
<1>3. Points'
  BY DEF StopListen, Points, EmptyDTO
<1> QED BY <1>1, <1>2, <1>3, <1>4, <1>9 DEF IInv

LEMMA MenuInv ==
  ASSUME IInv,
         \/ \E t \in VehicleTypes, m \in {"static", "dynamic"} : SetVehicle(t, m)
         \/ \E t \in TxTypes : SetTx(t)
  PROVE  IInv'
<1> USE DEF IInv
<1>1. ASSUME NEW t \in VehicleTypes, NEW m \in {"static", "dynamic"}, SetVehicle(t, m)
      PROVE  IInv'
  <2>1. t \in Types /\ m \in Modes
    BY DEF Types, Modes
  <2>2. vehicleDTO' \in DTO /\ vehicleDTO'.vehicleType = t /\ vehicleDTO'.dynamic = m
        /\ vehicleDTO'.location2 = vehicleDTO.location2
    BY <1>1, <2>1 DEF SetVehicle, DTO, Contents
  <2>3. Flags'
    BY <1>1 DEF SetVehicle, Flags
  <2>9. Bounds'
    <3>1. choices' = choices + 1 /\ choices < MaxChoices /\ count' \in {0, count}
      BY <1>1 DEF SetVehicle
    <3> QED BY <3>1 DEF Bounds
  <2>5. Contents'
    BY <1>1, <2>1, <2>2, TypesExist DEF SetVehicle, Contents
  <2>4. StartPointThere' /\ Points'
    <3>1. count' = 0 /\ threw' = threw
      BY <1>1 DEF SetVehicle
    <3> QED BY <2>2, <3>1 DEF StartPointThere, Points
  <2>7. IdleIsClean'
    BY <1>1 DEF SetVehicle, IdleIsClean
  <2>6. Follows'
    <3>1. interrupted' = FALSE /\ dynamicMod' = m
          /\ asked' = [type |-> t, mode |-> m]
      BY <1>1 DEF SetVehicle
    <3>2. asked'.type = t /\ asked'.mode = m
      BY <3>1
    <3> QED BY <2>2, <3>1, <3>2, Zenon DEF Follows
  <2> QED BY <1>1, <2>3, <2>4, <2>5, <2>6, <2>7, <2>9, NotPostedFits DEF SetVehicle
<1>2. ASSUME NEW t \in TxTypes, SetTx(t)
      PROVE  IInv'
  <2>1. t \in Types /\ "static" \in Modes
    BY DEF Types, Modes
  <2>2. /\ vehicleDTO' \in DTO /\ vehicleDTO'.vehicleType = t
        /\ vehicleDTO'.dynamic = "static"
        /\ vehicleDTO'.location1 = vehicleDTO.location1
        /\ vehicleDTO'.location2 = vehicleDTO.location2
    BY <1>2, <2>1 DEF SetTx, DTO, Contents
  <2>3. Flags'
    BY <1>2 DEF SetTx, Flags
  <2>9. Bounds'
    <3>1. choices' = choices + 1 /\ choices < MaxChoices /\ count' \in {0, count}
      BY <1>2 DEF SetTx
    <3> QED BY <3>1 DEF Bounds
  <2>5. Contents'
    BY <1>2, <2>1, <2>2, TypesExist DEF SetTx, Contents
  <2>4. IdleIsClean' /\ StartPointThere' /\ Follows' /\ Points'
    BY <1>2, <2>2 DEF SetTx, IdleIsClean, StartPointThere, Follows, Points
  <2> QED BY <1>2, <2>3, <2>4, <2>5, <2>9, NotPostedFits DEF SetTx
<1> QED BY <1>1, <1>2

(* Sending dto.  What the message must be is shown for each click below.   *)
Fit(dto) ==
  /\ dto \in DTO
  /\ dto.vehicleType = asked.type /\ dto.dynamic = asked.mode
  /\ ~interrupted /\ ~threw =>
       /\ dto.dynamic = "static"  => dto.location1 = Scene /\ dto.location2 = None
       /\ dto.dynamic = "dynamic" => \E b, c \in Boxes : /\ dto.location1 = Geo(b)
                                                         /\ dto.location2 = Geo(c)
  /\ dto.dynamic = "dynamic" /\ steady => dto.location1 = dto.location2

LEMMA FinishInv ==
  ASSUME IInv, listening, NEW dto, Finish(dto), Fit(dto),
         dto.location1 = vehicleDTO.location1 \/ dynamicMod # "dynamic",
         dynamicMod = "dynamic" => count > 0,
         rollOver' = FALSE, sock' = sock, box' = box, choices' = choices
  PROVE  IInv'
<1>1. CASE sock = "connecting"
  <2>1. /\ count' \in {1, 2} /\ vehicleDTO' = dto /\ threw' = TRUE /\ posted' = NotPosted
        /\ UNCHANGED <<vehicleType, dynamicMod, startPoint, enabled, listening, asked,
                       interrupted, steady>>
    BY <1>1 DEF Finish, Counted
  <2>2. Flags'
    BY <2>1 DEF IInv, Flags
  <2>9. Bounds'
    BY <2>1 DEF IInv, Bounds
  <2>6. Contents'
    BY <2>1, TypesExist DEF IInv, Contents, Fit
  <2>3. IdleIsClean' /\ StartPointThere'
    BY <2>1 DEF IInv, IdleIsClean, StartPointThere, Flags, Contents
  <2>4. Follows'
    BY <2>1 DEF IInv, Follows, Fit
  <2>5. Points'
    BY <2>1 DEF IInv, Points
  <2> QED BY <2>1, <2>2, <2>3, <2>4, <2>5, <2>6, <2>9, NotPostedFits DEF IInv
<1>2. CASE sock = "closed"
  BY <1>2, NotPostedFits, TypesExist, StopListenInv DEF Finish
<1>3. CASE sock = "open"
  <2>1. StopListen /\ posted' = [dto |-> dto, asked |-> asked, steady |-> steady,
                                 clean |-> ~interrupted /\ ~threw]
    BY <1>3 DEF Finish
  <2>2. (~interrupted /\ ~threw) \in BOOLEAN
    OBVIOUS
  <2>3. posted' \in [dto : DTO, asked : [type : Types, mode : Modes],
                     clean : BOOLEAN, steady : BOOLEAN]
    BY <2>1, <2>2 DEF IInv, Flags, Contents, Fit
  <2>4. VehicleAsAsked' /\ OneFrame'
    BY <2>1 DEF Fit, VehicleAsAsked, OneFrame
  <2> QED BY <2>1, <2>3, <2>4, StopListenInv
<1> QED BY <1>1, <1>2, <1>3 DEF IInv, Flags, Contents

LEMMA PlaceInv ==
  ASSUME IInv, Place
  PROVE  IInv'
<1> DEFINE dto == [vehicleDTO EXCEPT !.location1 = Scene]
<1>1. listening /\ Finish(dto) /\ rollOver' = FALSE /\ UNCHANGED <<sock, box, choices>>
      /\ dynamicMod # "dynamic"
  BY DEF Place, Static
<1>2. /\ dto \in DTO /\ dto.location1 = Scene
      /\ dto.location2 = vehicleDTO.location2
      /\ dto.vehicleType = vehicleDTO.vehicleType /\ dto.dynamic = vehicleDTO.dynamic
  BY TypesExist DEF IInv, Flags, Contents, DTO
<1> HIDE DEF dto
<1>3. Fit(dto)
  BY <1>1, <1>2 DEF Fit, IInv, Follows, Points
<1> QED BY <1>1, <1>3, FinishInv

LEMMA FirstPointInv ==
  ASSUME IInv, FirstPoint
  PROVE  IInv'
<1>1. /\ vehicleDTO' \in DTO /\ vehicleDTO'.location1 = Geo(box)
      /\ vehicleDTO'.location2 = vehicleDTO.location2
      /\ vehicleDTO'.vehicleType = vehicleDTO.vehicleType
      /\ vehicleDTO'.dynamic = vehicleDTO.dynamic
  BY TypesExist DEF FirstPoint, IInv, Flags, Contents, DTO
<1>2. Flags'
  BY DEF FirstPoint, IInv, Flags
<1>9. Bounds'
  BY DEF FirstPoint, IInv, Bounds
<1>6. Contents'
  BY <1>1, TypesExist DEF FirstPoint, IInv, Flags, Contents
<1>3. Geo(box) # None
  BY DEF Geo, None
<1>4. IdleIsClean' /\ StartPointThere'
  BY <1>3 DEF FirstPoint, IInv, IdleIsClean, StartPointThere
<1>5. Follows' /\ Points'
  BY <1>1 DEF FirstPoint, IInv, Flags, Contents, Follows, Points
<1> QED BY <1>2, <1>4, <1>5, <1>6, <1>9, NotPostedFits DEF IInv, FirstPoint

LEMMA SecondPointInv ==
  ASSUME IInv, SecondPoint
  PROVE  IInv'
<1> DEFINE dto == [vehicleDTO EXCEPT !.location2 = Geo(box)]
<1>1. /\ listening /\ Finish(dto) /\ rollOver' = FALSE /\ UNCHANGED <<sock, box, choices>>
      /\ dynamicMod = "dynamic" /\ count > 0
  BY DEF SecondPoint, Static, Counted, IInv, Bounds, Contents, Modes
<1>2. /\ dto \in DTO /\ dto.location2 = Geo(box) /\ box \in Boxes
      /\ dto.location1 = vehicleDTO.location1
      /\ dto.vehicleType = vehicleDTO.vehicleType /\ dto.dynamic = vehicleDTO.dynamic
  BY TypesExist DEF IInv, Flags, Contents, DTO
<1> HIDE DEF dto
<1>3. Fit(dto)
  BY <1>1, <1>2 DEF Fit, IInv, Follows, Points
<1> QED BY <1>1, <1>2, <1>3, FinishInv

(* The socket and the box may change at any time.                          *)
LEMMA EnvironmentInv ==
  ASSUME IInv, Environment
  PROVE  IInv'
<1> USE DEF Environment, view, globals
<1>1. Flags' /\ Bounds' /\ Contents'
  BY TypesExist DEF IInv, Flags, Bounds, Contents
<1>2. IdleIsClean' /\ StartPointThere' /\ Follows' /\ Points'
  BY DEF IInv, Flags, Contents, IdleIsClean, StartPointThere, Follows, Points
<1> QED BY <1>1, <1>2, NotPostedFits DEF IInv

LEMMA NextIInv == IInv /\ [Next]_vars => IInv'
<1> SUFFICES ASSUME IInv, [Next]_vars PROVE IInv'
  OBVIOUS
<1>1. CASE Cancel
  <2>1. posted' = NotPosted /\ StopListen /\ rollOver' = FALSE
        /\ UNCHANGED <<sock, box, choices>>
    BY <1>1 DEF Cancel
  <2> QED BY <2>1, TypesExist, NotPostedFits, StopListenInv
<1>2. CASE UNCHANGED vars
  BY <1>2 DEF IInv, vars, view, globals, history, Flags, Bounds, Contents, IdleIsClean, StartPointThere,
              Follows, Points, VehicleAsAsked, OneFrame
<1> QED BY <1>1, <1>2, MenuInv, PlaceInv, FirstPointInv, SecondPointInv, EnvironmentInv
        DEF Next, Step

LEMMA Invariance == Spec => []IInv
  BY InitIInv, NextIInv, PTL DEF Spec

-----------------------------------------------------------------------------
(* The variables hold values of their kind, for any boxes and types.       *)
THEOREM TypeCorrect == Spec => []TypeOK
<1>1. IInv => TypeOK
  BY DEF IInv, Flags, Bounds, Contents, TypeOK
<1> QED BY <1>1, Invariance, PTL

(* A placement that ended has left nothing for the next.                   *)
THEOREM NothingLeftBehind == Spec => []IdleIsClean
<1>1. IInv => IdleIsClean
  BY DEF IInv
<1> QED BY <1>1, Invariance, PTL

(* The second click finds the start point of the first.                    *)
THEOREM SecondClickHasStart == Spec => []StartPointThere
<1>1. IInv => StartPointThere
  BY DEF IInv
<1> QED BY <1>1, Invariance, PTL

(* A message is what the user asked for last.                              *)
THEOREM MessageAsAsked == Spec => []VehicleAsAsked
<1>1. IInv => VehicleAsAsked
  BY DEF IInv
<1> QED BY <1>1, Invariance, PTL

(* Both points of a moving vehicle are on one map unless it was changed.   *)
THEOREM PointsOnOneMap == Spec => []OneFrame
<1>1. IInv => OneFrame
  BY DEF IInv
<1> QED BY <1>1, Invariance, PTL
=============================================================================
