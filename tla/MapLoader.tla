----------------------------- MODULE MapLoader ------------------------------
(***************************************************************************)
(* The maps of the browser page (Demo1/etc/docroot/localjs/readfile.js and *)
(* the drawing in webgl.js).  A load reads one or two shapefiles, record   *)
(* by record, in promise chains that all push onto the same global arrays  *)
(* and set the same global bounding box; when a chain has read its file it *)
(* draws the array, and a chain of buildings sends the map to the server.  *)
(*                                                                         *)
(* Chains interleave where they wait for the network, between two records. *)
(* What a chain does after its last record (box, drawing, message) happens *)
(* in one go, without any other code of the page in between.               *)
(*                                                                         *)
(* A drawing is named by the load that made it, a bounding box by the load *)
(* and the file it was read from.  "building" and "road" are the files of  *)
(* a load and what belongs to them: the arrays features and roads, the     *)
(* meshes in builidings and roadLines, the layers of the gui.              *)
(***************************************************************************)
EXTENDS Naturals

CONSTANTS
  Maps, NoMap,     \* the maps that can be opened; no label is set yet
  Records,         \* bound of the model: records in a file
  MaxLoads         \* bound of the model: loads the user starts

ASSUME LoaderAssumption ==
  Records \in Nat \ {0} /\ MaxLoads \in Nat /\ NoMap \notin Maps

Files   == {"building", "road"}
LoadIds == 1 .. MaxLoads
Nobody  == 0
Box     == LoadIds \X Files
NoBox   == <<>>

VARIABLES
  sock,        \* websocket.readyState; closing and closed both drop messages
  label,       \* the map marked as active on the page
  collected,   \* features and roads: the records pushed so far
  box,         \* xmin, ymin, xmax, ymax
  scale,       \* dividend: the box it was computed from
  current,     \* the drawing that builidings and roadLines hold
  shown,       \* the drawings in the scene
  controls,    \* the layer controls of the gui, beside "plane"
  heard        \* the drawing the server was sent last

(* Each load the user has started, and how far its chains are.             *)
VARIABLES last, kind, mapOf, phase, read

(* History: what each chain drew, with the box and scale it used; which    *)
(* loads ran without any other load running meanwhile.                     *)
VARIABLES picture, alone

chains == <<last, kind, mapOf, phase, read, alone>>
vars == <<sock, label, collected, box, scale, current, shown, controls, heard,
          picture, chains>>

Kinds  == {"none", "default", "file", "roadFile"}
Phases == {"idle", "reading", "drawn", "failed"}
Record  == LoadIds \X (1 .. Records)
Nothing == [recs |-> {}, box |-> NoBox, scale |-> NoBox]

Init ==
  /\ sock = "connecting" /\ label = NoMap
  /\ collected = [f \in Files |-> {}]
  /\ box = NoBox /\ scale = NoBox
  /\ current = [f \in Files |-> Nobody] /\ shown = [f \in Files |-> {}]
  /\ controls = [f \in Files |-> 0] /\ heard = Nobody
  /\ last = 0 /\ kind = [l \in LoadIds |-> "none"]
  /\ mapOf = [l \in LoadIds |-> NoMap]
  /\ phase = [f \in Files |-> [l \in LoadIds |-> "idle"]]
  /\ read = [f \in Files |-> [l \in LoadIds |-> 0]]
  /\ picture = [f \in Files |-> [l \in LoadIds |-> Nothing]]
  /\ alone = [l \in LoadIds |-> TRUE]

-----------------------------------------------------------------------------
(* The connection, as the browser reports it.  Nothing opens it again.     *)
SockOpen ==
  /\ sock = "connecting" /\ sock' = "open"
  /\ UNCHANGED <<label, collected, box, scale, current, shown, controls, heard,
                 picture, chains>>

SockClose ==
  /\ sock # "closed" /\ sock' = "closed"
  /\ UNCHANGED <<label, collected, box, scale, current, shown, controls, heard,
                 picture, chains>>

-----------------------------------------------------------------------------
(* Starting a load.                                                        *)
Running(l) == \E f \in Files : phase[f][l] = "reading"

(* shapefile.open: from here on the chains of load l go on by themselves.  *)
Open(k, m, files) ==
  /\ last < MaxLoads
  /\ last' = last + 1
  /\ kind' = [kind EXCEPT ![last + 1] = k]
  /\ mapOf' = [mapOf EXCEPT ![last + 1] = m]
  /\ phase' = [f \in Files |->
       IF f \in files THEN [phase[f] EXCEPT ![last + 1] = "reading"] ELSE phase[f]]
  /\ alone' = [l \in LoadIds |->
       IF l = last + 1 THEN \A k2 \in LoadIds : ~Running(k2)
                       ELSE alone[l] /\ ~Running(l)]
  /\ UNCHANGED read

(* remove(builidings), remove(roadLines): out of the scene; the arrays     *)
(* themselves stay as they are.                                            *)
Hidden(f) == shown[f] \ {current[f]}

(* childElementCount > 1: there is a control beside "plane".               *)
SomethingDrawn == \E f \in Files : controls[f] > 0

ClearPage_Mutant ==
  IF SomethingDrawn
  THEN /\ shown' = [f \in Files |-> Hidden(f)]
       /\ controls' = [f \in Files |-> 0]
       /\ collected' = [collected EXCEPT !["road"] = {}]
  ELSE UNCHANGED <<shown, controls, collected>>

ClearPage ==
  IF SomethingDrawn
  THEN /\ shown' = [f \in Files |-> Hidden(f)]
       /\ controls' = [f \in Files |-> 0]
       /\ collected' = [f \in Files |-> {}]
  ELSE UNCHANGED <<shown, controls, collected>>

ParseDefaultfile(m) ==
  /\ label' = m
  /\ ClearPage
  /\ Open("default", m, Files)
  /\ UNCHANGED <<sock, box, scale, current, heard, picture>>

(* The user opens files of his own.  Only the buildings are hidden; the    *)
(* arrays go on growing.                                                   *)
ParseFile ==
  /\ shown' = [shown EXCEPT !["building"] = Hidden("building")]
  /\ Open("file", NoMap, {"building"})
  /\ UNCHANGED <<sock, label, collected, box, scale, current, controls, heard,
                 picture>>

ParseRoadFile ==
  /\ Open("roadFile", NoMap, {"road"})
  /\ UNCHANGED <<sock, label, collected, box, scale, current, shown, controls,
                 heard, picture>>

-----------------------------------------------------------------------------
(* A chain of load l on file f.                                            *)
Read_Mutant(f, l) ==
  /\ phase[f][l] = "reading" /\ read[f][l] <= Records
  /\ read' = [read EXCEPT ![f][l] = @ + 1]
  /\ collected' = [collected EXCEPT ![f] = @ \cup {<<l, read[f][l] + 1>>}]
  /\ UNCHANGED <<sock, label, box, scale, current, shown, controls, heard, picture,
                 last, kind, mapOf, phase, alone>>

Read(f, l) ==
  /\ phase[f][l] = "reading" /\ read[f][l] < Records
  /\ read' = [read EXCEPT ![f][l] = @ + 1]
  /\ collected' = [collected EXCEPT ![f] = @ \cup {<<l, read[f][l] + 1>>}]
  /\ UNCHANGED <<sock, label, box, scale, current, shown, controls, heard, picture,
                 last, kind, mapOf, phase, alone>>

(* The file is missing, the connection breaks or a record is malformed:    *)
(* the chain ends in its catch.  What it pushed stays.                     *)
Fail(f, l) ==
  /\ phase[f][l] = "reading"
  /\ phase' = [phase EXCEPT ![f][l] = "failed"]
  /\ UNCHANGED <<sock, label, collected, box, scale, current, shown, controls, heard,
                 picture, last, kind, mapOf, read, alone>>

(* The chain has read its file and draws the array, all of it, with the    *)
(* box and scale it finds then.  What the array of meshes held before is   *)
(* forgotten, in the scene or not.                                         *)
Draw(f, l) ==
  /\ phase[f][l] = "reading" /\ read[f][l] = Records
  /\ phase' = [phase EXCEPT ![f][l] = "drawn"]
  /\ picture' = [picture EXCEPT ![f][l] =
       [recs |-> collected[f], box |-> box', scale |-> scale']]
  /\ current' = [current EXCEPT ![f] = l]
  /\ shown' = [shown EXCEPT ![f] = @ \cup {l}]
  /\ controls' = [controls EXCEPT ![f] = @ + 1]
  /\ UNCHANGED <<sock, label, collected, last, kind, mapOf, read, alone>>

(* drawSenario and the box before it.  parseFile leaves dividend alone.    *)
(* While the socket is connecting, send throws after the map was drawn;    *)
(* the chain ends there anyway.                                            *)
DrawBuildings_Mutant(l) ==
  /\ box' = IF box = NoBox THEN <<l, "building">> ELSE box
  /\ scale' = IF kind[l] = "default" THEN <<l, "building">> ELSE scale
  /\ Draw("building", l)
  /\ heard' = IF sock = "open" THEN l ELSE heard

DrawBuildings(l) ==
  /\ box' = <<l, "building">>
  /\ scale' = IF kind[l] = "default" THEN <<l, "building">> ELSE scale
  /\ Draw("building", l)
  /\ heard' = IF sock = "open" THEN l ELSE heard

(* drawRoad: the box of the road file counts only when there is none.      *)
DrawRoads_Mutant(l) ==
  /\ box' = <<l, "road">>
  /\ scale' = IF kind[l] = "default" THEN <<l, "road">> ELSE scale
  /\ Draw("road", l)
  /\ UNCHANGED heard

DrawRoads(l) ==
  /\ box' = IF box = NoBox THEN <<l, "road">> ELSE box
  /\ scale' = IF box = NoBox /\ kind[l] = "default" THEN <<l, "road">> ELSE scale
  /\ Draw("road", l)
  /\ UNCHANGED heard

Next ==
  \/ SockOpen \/ SockClose
  \/ \E m \in Maps : ParseDefaultfile(m)
  \/ ParseFile \/ ParseRoadFile
  \/ \E l \in LoadIds : \/ \E f \in Files : Read(f, l) \/ Fail(f, l)
                        \/ DrawBuildings(l) \/ DrawRoads(l)

Spec == Init /\ [][Next]_vars

-----------------------------------------------------------------------------
(* The variables hold values of their kind.                                *)
TypeOK ==
  /\ sock \in {"connecting", "open", "closed"} /\ label \in Maps \cup {NoMap}
  /\ collected \in [Files -> SUBSET Record]
  /\ box \in Box \cup {NoBox} /\ scale \in Box \cup {NoBox}
  /\ current \in [Files -> LoadIds \cup {Nobody}]
  /\ shown \in [Files -> SUBSET LoadIds]
  /\ controls \in [Files -> Nat] /\ heard \in LoadIds \cup {Nobody}
  /\ last \in 0 .. MaxLoads /\ kind \in [LoadIds -> Kinds]
  /\ mapOf \in [LoadIds -> Maps \cup {NoMap}]
  /\ phase \in [Files -> [LoadIds -> Phases]]
  /\ read \in [Files -> [LoadIds -> 0 .. Records]]
  /\ picture \in [Files -> [LoadIds ->
       [recs : SUBSET Record, box : Box \cup {NoBox}, scale : Box \cup {NoBox}]]]
  /\ alone \in [LoadIds -> BOOLEAN]

Started == 1 .. last
Drawn(f, l) == phase[f][l] = "drawn"
NeverOverlapped == \A l \in Started : alone[l]

(* A load of buildings that failed left its records behind unless its      *)
(* roads were drawn: then the next load finds something drawn and clears.  *)
NothingLeft(l) ==
  \A k \in 1 .. l - 1 : phase["building"][k] = "failed" => Drawn("road", k)

(* The map of a load that ran alone is drawn, and sent to the server,      *)
(* whole and with no building of another map, however many loads, files of *)
(* the user and failures came before: the global array is cleared in time. *)
(* It is so only for loads that run alone: two chains that overlap push    *)
(* onto one array (readfile.js:209-219).                                   *)
WholeMapSent ==
  \A l \in Started :
    kind[l] = "default" /\ alone[l] /\ NothingLeft(l) /\ Drawn("building", l)
      => picture["building"][l].recs = {l} \X (1 .. Records)

(* When nothing is being loaded, and the last load ran alone and drew its  *)
(* buildings, page and server agree: the map the page calls active is the  *)
(* one in the box and the scale, the server was sent no other, and if no   *)
(* two loads ever overlapped it is the only one in the scene, with one     *)
(* control.  (The server was sent none if the socket was not open by then: *)
(* websocket.js:24 drops the message and nothing sends the map again.)     *)
SettledPage ==
  last > 0 /\ kind[last] = "default" /\ alone[last] /\ Drawn("building", last)
    /\ ~Running(last) =>
    /\ label = mapOf[last] /\ box = <<last, "building">> /\ scale = box
    /\ current["building"] = last /\ controls["building"] = 1
    /\ sock = "open" => heard \in {Nobody, last}
    /\ NeverOverlapped => shown["building"] = {last}

(* Roads of a load that runs alone fit its buildings if these were drawn   *)
(* before: no road file moves the box under a map.  Roads drawn first use  *)
(* the box of an older map, or of the road file.                           *)
RoadsFit ==
  [][\A l \in LoadIds :
       DrawRoads(l) /\ kind[l] = "default" /\ alone[l] /\ Drawn("building", l)
         => picture'["road"][l].box = picture["building"][l].box
            /\ picture'["road"][l].scale = picture["building"][l].scale]_vars
=============================================================================
