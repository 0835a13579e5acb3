-------------------------- MODULE VehiclePlacement --------------------------
(***************************************************************************)
(* Placing transmitters, receivers and vehicles with the mouse             *)
(* (Demo1/etc/docroot/localjs/webgl.js).  A menu entry starts a placement: *)
(* listeners are added, the camera is locked and a marker follows the      *)
(* mouse.  A click on the plane ends it with a "vehicle" message; a moving *)
(* ("dynamic") vehicle takes two clicks.  The right button gives it up.    *)
(* The menu can be used again at any time, also during a placement.        *)
(*                                                                         *)
(* The placement lives in globals that setVehicle, setTx and the mouse     *)
(* handlers share.  Positions are abstracted to the coordinates they are   *)
(* in: of the scene, or longitude and latitude by the bounding box in      *)
(* force at the click.  Left out: the models that load3DS and loadFbx put  *)
(* into the scene later, and speed, outline and distance in the message.   *)
(***************************************************************************)
EXTENDS Naturals

CONSTANTS
  TxTypes,        \* what setTx is called with: tx, rx
  VehicleTypes,   \* the types of the vehicle form: tx, rx, other
  NoType,         \* undefined
  Boxes,          \* the bounding boxes the page can have
  MaxChoices      \* bound of the model: uses of the menu

(* Globals of the page that others set: the socket and the bounding box.   *)
VARIABLES sock, box

VARIABLES
  listening,     \* the mouse listeners are attached
  enabled,       \* orbitControls.enabled
  rollOver,      \* rollOverMesh, the marker, is in the scene
  vehicleType, dynamicMod, count, startPoint, vehicleDTO,
  posted         \* the message the last step sent, if it sent one

(* History of a placement, forgotten when it ends: what the user asked for *)
(* last, and whether he did so by setTx in the middle of a dynamic         *)
(* placement; whether a message could not be sent; whether the box is      *)
(* still the one of the last first click.                                  *)
VARIABLES asked, interrupted, threw, steady

VARIABLE choices   \* how often the menu was used

globals == <<vehicleType, dynamicMod, count, startPoint, vehicleDTO>>
view    == <<listening, enabled, rollOver>>
history == <<asked, interrupted, threw, steady>>
vars    == <<sock, box, view, globals, posted, history, choices>>

Modes     == {"undefined", "static", "dynamic"}
Types     == TxTypes \cup VehicleTypes \cup {NoType}
None      == <<"none">>
Scene     == <<"scene">>
Geo(b)    == <<"map", b>>
Locations == {None, Scene} \cup {Geo(b) : b \in Boxes}
DTO       == [vehicleType : Types, dynamic : Modes,
              location1 : Locations, location2 : Locations]
EmptyDTO  == [vehicleType |-> NoType, dynamic |-> "undefined",
              location1 |-> None, location2 |-> None]
NoAnswer  == [type |-> NoType, mode |-> "undefined"]
NotPosted == [dto |-> EmptyDTO, asked |-> NoAnswer, clean |-> FALSE,
              steady |-> FALSE]

Init ==
  /\ sock = "connecting" /\ box \in Boxes
  /\ listening = FALSE /\ enabled = TRUE /\ rollOver = FALSE
  /\ vehicleType = NoType /\ dynamicMod = "undefined" /\ count = 0
  /\ startPoint = None /\ vehicleDTO = EmptyDTO /\ posted = NotPosted
  /\ asked = NoAnswer /\ interrupted = FALSE
  /\ threw = FALSE /\ steady = FALSE /\ choices = 0

-----------------------------------------------------------------------------
(* The menu.  Both entries leave parts of the globals as they find them:   *)
(* setVehicle the start point and the locations of the message, setTx the  *)
(* mode and the count as well.                                             *)
SetVehicle(t, m) ==
  /\ choices < MaxChoices /\ choices' = choices + 1
  /\ vehicleType' = t /\ dynamicMod' = m /\ count' = 0
  /\ vehicleDTO' = [vehicleDTO EXCEPT !.vehicleType = t, !.dynamic = m]
  /\ listening' = TRUE /\ enabled' = FALSE /\ rollOver' = TRUE
  /\ asked' = [type |-> t, mode |-> m] /\ interrupted' = FALSE
  /\ posted' = NotPosted
  /\ UNCHANGED <<sock, box, startPoint, threw, steady>>

SetTx(t) ==
  /\ choices < MaxChoices /\ choices' = choices + 1
  /\ vehicleType' = t
  /\ vehicleDTO' = [vehicleDTO EXCEPT !.vehicleType = t, !.dynamic = "static"]
  /\ listening' = TRUE /\ enabled' = FALSE /\ rollOver' = TRUE
  /\ asked' = [type |-> t, mode |-> "static"]
  /\ interrupted' = (listening /\ dynamicMod = "dynamic")
  /\ posted' = NotPosted
  /\ UNCHANGED <<sock, box, dynamicMod, count, startPoint, threw, steady>>

-----------------------------------------------------------------------------
(* The mouse.                                                              *)
Forget == /\ asked' = NoAnswer /\ interrupted' = FALSE
          /\ threw' = FALSE /\ steady' = FALSE

StopListen_Mutant ==
  /\ vehicleType' = NoType /\ count' = 0
  /\ startPoint' = None /\ vehicleDTO' = EmptyDTO
  /\ enabled' = TRUE /\ listening' = FALSE
  /\ Forget
  /\ UNCHANGED dynamicMod

StopListen ==
  /\ vehicleType' = NoType /\ dynamicMod' = "undefined" /\ count' = 0
  /\ startPoint' = None /\ vehicleDTO' = EmptyDTO
  /\ enabled' = TRUE /\ listening' = FALSE
  /\ Forget

(* The right button.                                                       *)
Cancel ==
  /\ listening
  /\ rollOver' = FALSE
  /\ StopListen /\ posted' = NotPosted
  /\ UNCHANGED <<sock, box, choices>>

(* 2 stands for every count above 1: the code tells 1 from the others.     *)
Counted == IF count = 0 THEN 1 ELSE 2

(* Send the message dto, then stopListen.  While the socket is connecting, *)
(* send throws and the placement goes on; once it is closing or closed the *)
(* message is dropped without a word.                                      *)
Finish(dto) ==
  IF sock = "connecting"
  THEN /\ count' = Counted /\ vehicleDTO' = dto /\ threw' = TRUE
       /\ posted' = NotPosted
       /\ UNCHANGED <<vehicleType, dynamicMod, startPoint, enabled, listening,
                      asked, interrupted, steady>>
  ELSE /\ posted' = IF sock = "closed" THEN NotPosted
                    ELSE [dto |-> dto, asked |-> asked, steady |-> steady,
                          clean |-> ~interrupted /\ ~threw]
       /\ StopListen

Static == dynamicMod \in {"undefined", "static"}

(* A click on the plane.                                                   *)
Place ==
  /\ listening /\ Static
  /\ rollOver' = FALSE
  /\ Finish([vehicleDTO EXCEPT !.location1 = Scene])
  /\ UNCHANGED <<sock, box, choices>>

FirstPoint_Mutant ==
  /\ listening /\ ~Static /\ Counted = 1
  /\ rollOver' = FALSE /\ count' = 1
  /\ startPoint' = Geo(box)
  /\ vehicleDTO' = [vehicleDTO EXCEPT !.location1 = IF @ = None THEN Geo(box) ELSE @]
  /\ steady' = TRUE /\ posted' = NotPosted
  /\ UNCHANGED <<sock, box, listening, enabled, vehicleType, dynamicMod, asked,
                 interrupted, threw, choices>>

FirstPoint ==
  /\ listening /\ ~Static /\ Counted = 1
  /\ rollOver' = FALSE /\ count' = 1
  /\ startPoint' = Geo(box)
  /\ vehicleDTO' = [vehicleDTO EXCEPT !.location1 = Geo(box)]
  /\ steady' = TRUE /\ posted' = NotPosted
  /\ UNCHANGED <<sock, box, listening, enabled, vehicleType, dynamicMod, asked,
                 interrupted, threw, choices>>

SecondPoint ==
  /\ listening /\ ~Static /\ Counted = 2
  /\ rollOver' = FALSE
  /\ Finish([vehicleDTO EXCEPT !.location2 = Geo(box)])
  /\ UNCHANGED <<sock, box, choices>>

Step ==
  \/ \E t \in VehicleTypes, m \in {"static", "dynamic"} : SetVehicle(t, m)
  \/ \E t \in TxTypes : SetTx(t)
  \/ Cancel \/ Place \/ FirstPoint \/ SecondPoint

(* Others open and close the socket and change the box.                    *)
Environment ==
  /\ sock' \in {"connecting", "open", "closed"} /\ box' \in Boxes
  /\ steady' = (steady /\ box' = box) /\ posted' = NotPosted
  /\ UNCHANGED <<view, globals, asked, interrupted, threw, choices>>

Next == Step \/ Environment
Spec == Init /\ [][Next]_vars

-----------------------------------------------------------------------------
(* The variables hold values of their kind.                                *)
TypeOK ==
  /\ sock \in {"connecting", "open", "closed"} /\ box \in Boxes
  /\ listening \in BOOLEAN /\ enabled \in BOOLEAN /\ rollOver \in BOOLEAN
  /\ vehicleType \in Types /\ dynamicMod \in Modes /\ count \in 0 .. 2
  /\ startPoint \in Locations /\ vehicleDTO \in DTO
  /\ asked \in [type : Types, mode : Modes]
  /\ interrupted \in BOOLEAN /\ threw \in BOOLEAN /\ steady \in BOOLEAN
  /\ choices \in Nat
  /\ posted \in [dto : DTO, asked : [type : Types, mode : Modes],
                 clean : BOOLEAN, steady : BOOLEAN]

(* A vehicle message is what the user asked for last: his type and mode,   *)
(* one position in the scene or two on the map, and no position of an      *)
(* earlier or abandoned placement.  Two cases are excluded.  After setTx   *)
(* in the middle of a dynamic placement the next click is taken for a      *)
(* point of the abandoned vehicle: setTx leaves dynamicMod and count as    *)
(* they are (webgl.js:345).  After a message that could not be sent, its   *)
(* second location stays in vehicleDTO for the next (webgl.js:269-274).    *)
VehicleAsAsked ==
  LET d == posted.dto
  IN  posted.clean =>
        /\ d.vehicleType = posted.asked.type /\ d.dynamic = posted.asked.mode
        /\ d.dynamic = "static"  => d.location1 = Scene /\ d.location2 = None
        /\ d.dynamic = "dynamic" => \E b, c \in Boxes : /\ d.location1 = Geo(b)
                                                        /\ d.location2 = Geo(c)

(* The two points of a moving vehicle are on one map unless the map was    *)
(* changed between the clicks, however often placements were started anew. *)
OneFrame ==
  posted.dto.dynamic = "dynamic" /\ posted.steady
    => posted.dto.location1 = posted.dto.location2
=============================================================================
