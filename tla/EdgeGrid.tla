------------------------------ MODULE EdgeGrid ------------------------------
(***************************************************************************)
(* The wall map: the grid of cells in which the engine looks for walls     *)
(* (struct Grids, RayTracing::clearGrids and updateEdges), how a wall is   *)
(* entered in it (RayTracingCUDA::addEdgeToGrids) and the two messages     *)
(* that replace it (EchoServer::updateMapData and updateScene).            *)
(*                                                                         *)
(* A map is a sequence of walls.  Its polylines do not matter: each pair   *)
(* of neighbouring points is one wall.  One step of the model is one       *)
(* iteration of a loop, so that a wall of several cells is entered, and    *)
(* may be refused, cell by cell.  Coordinates are integers in a unit of    *)
(* the model's choice; LENGTH is the side of a cell in that unit.          *)
(***************************************************************************)
EXTENDS Integers, Sequences

CONSTANTS
  ROW, COL,       \* size of the grid (50 by 50)
  LENGTH,         \* side of a cell
  MAX_EDGE_GRID,  \* walls a cell can hold (100)
  Edges,          \* the walls clients may send
  Junk,           \* contents a cell may have before it is first cleared
  MaxLen, MaxMaps \* bounds of the model: walls of a map, number of maps

Wall  == [x1 : Int, y1 : Int, x2 : Int, y2 : Int]
Places == 0 .. MAX_EDGE_GRID - 1
Cell  == [N : Int, edges : [Places -> Wall], isContains : BOOLEAN]

ASSUME SizeAssumption ==
  /\ ROW \in Nat \ {0} /\ COL \in Nat \ {0} /\ LENGTH \in Nat \ {0}
  /\ MAX_EDGE_GRID \in Nat \ {0}
ASSUME DataAssumption  == Edges \subseteq Wall /\ Junk \subseteq Cell
ASSUME LimitAssumption == MaxLen \in Nat /\ MaxMaps \in Nat

VARIABLES
  grids,       \* dev_grids->grids
  pc,          \* where the handler is: idle, edges, cells, undefined
  done,        \* walls of the message addEdgeToGrids has been called for
  i, j,        \* its loop variables
  flag,        \* its result so far
  updateFlag,  \* updateMapData's
  reply        \* the answer to the last message; "none" so far

(* History: the message last received, how many there were, the walls some *)
(* cell refused since then.                                                *)
VARIABLES kind, map, maps, refused

loop == <<done, i, j, flag, updateFlag>>
msg  == <<kind, map, maps>>
vars == <<grids, pc, loop, reply, msg, refused>>

Cells       == 0 .. ROW * COL - 1
Index(r, c) == r * COL + c
Contents(g) == {g.edges[n] : n \in 0 .. g.N - 1}
Walls(k)    == Contents(grids[k])
InMap       == {map[n] : n \in 1 .. Len(map)}

-----------------------------------------------------------------------------
(* int(v / LENGTH): division that rounds towards zero.  (A definition      *)
(* named ..._Mutant is a plausible mistake in the one after it; it is no   *)
(* part of the specification and serves to show that a property can fail.) *)
CellOf(v) == IF v >= 0 THEN v \div LENGTH ELSE -((-v) \div LENGTH)

Lesser(a, b)  == IF a < b THEN a ELSE b
Greater(a, b) == IF a < b THEN b ELSE a

(* The rows and columns a wall is entered in: those of its bounding box,   *)
(* cut off at the upper end of the grid, and only there.                   *)
MinRow_Mutant(e) == Lesser(CellOf(e.y1), ROW - 1)
MinRow(e) == Lesser(Lesser(CellOf(e.y1), CellOf(e.y2)), ROW - 1)
MinCol(e) == Lesser(Lesser(CellOf(e.x1), CellOf(e.x2)), COL - 1)
MaxRow_Mutant(e) == Greater(CellOf(e.y1), CellOf(e.y2))
MaxRow(e) == Lesser(Greater(CellOf(e.y1), CellOf(e.y2)), ROW - 1)
MaxCol(e) == Lesser(Greater(CellOf(e.x1), CellOf(e.x2)), COL - 1)

Current == map[done + 1]

(* clearGrids                                                              *)
Cleared_Mutant(g) == [g EXCEPT !.N = 0]
Cleared(g) == [N |-> 0, edges |-> g.edges, isContains |-> FALSE]

(* updateEdges, when the cell has room.                                    *)
HasRoom(g) == g.N < MAX_EDGE_GRID
With_Mutant(g, e) ==
  [N |-> g.N + 1, edges |-> [g.edges EXCEPT ![0] = e], isContains |-> TRUE]
With(g, e) ==
  [N |-> g.N + 1, edges |-> [g.edges EXCEPT ![g.N] = e], isContains |-> TRUE]

-----------------------------------------------------------------------------
(* dev_grids is allocated by init() and not cleared.                       *)
Init ==
  /\ grids \in [Cells -> Junk]
  /\ pc = "idle" /\ done = 0 /\ i = 0 /\ j = 0
  /\ flag = TRUE /\ updateFlag = TRUE /\ reply = "none"
  /\ kind = "none" /\ map = <<>> /\ maps = 0 /\ refused = {}

(* A "mapData" or "senario" message: the grid is cleared ...               *)
Receive_Mutant(k, m) ==
  /\ pc = "idle" /\ maps < MaxMaps
  /\ pc' = "edges" /\ done' = 0
  /\ kind' = k /\ map' = m /\ maps' = maps + 1
  /\ reply' = "none" /\ refused' = {}
  /\ UNCHANGED <<grids, i, j, flag, updateFlag>>

Receive(k, m) ==
  /\ pc = "idle" /\ maps < MaxMaps
  /\ grids' = [c \in Cells |-> Cleared(grids[c])]
  /\ pc' = "edges" /\ done' = 0 /\ updateFlag' = TRUE
  /\ kind' = k /\ map' = m /\ maps' = maps + 1
  /\ reply' = "none" /\ refused' = {}
  /\ UNCHANGED <<i, j, flag>>

(* ... addEdgeToGrids is called for each wall of the message ...           *)
OpenEdge ==
  /\ pc = "edges" /\ done < Len(map)
  /\ pc' = "cells" /\ flag' = TRUE
  /\ i' = MinRow(Current) /\ j' = MinCol(Current)
  /\ UNCHANGED <<grids, done, updateFlag, reply, msg, refused>>

(* The next cell of the wall's box, row by row; after the last one the     *)
(* caller takes over the result of that last cell.                         *)
NextCell_Mutant ==
  IF j < MaxCol(Current)
  THEN j' = j + 1 /\ UNCHANGED <<i, pc, done, updateFlag>>
  ELSE IF i < MaxRow(Current)
  THEN /\ i' = i + 1 /\ j' = MinCol(Current)
       /\ UNCHANGED <<pc, done, updateFlag>>
  ELSE /\ pc' = "edges" /\ done' = done + 2
       /\ updateFlag' = IF kind = "mapData" THEN flag' ELSE updateFlag
       /\ UNCHANGED <<i, j>>

NextCell ==
  IF j < MaxCol(Current)
  THEN j' = j + 1 /\ UNCHANGED <<i, pc, done, updateFlag>>
  ELSE IF i < MaxRow(Current)
  THEN /\ i' = i + 1 /\ j' = MinCol(Current)
       /\ UNCHANGED <<pc, done, updateFlag>>
  ELSE /\ pc' = "edges" /\ done' = done + 1
       /\ updateFlag' = IF kind = "mapData" THEN flag' ELSE updateFlag
       /\ UNCHANGED <<i, j>>

(* ... which calls updateEdges for each cell of the box: it enters the     *)
(* wall or refuses it ...                                                  *)
Enter ==
  /\ pc = "cells" /\ Index(i, j) \in Cells
  /\ HasRoom(grids[Index(i, j)])
  /\ grids' = [grids EXCEPT ![Index(i, j)] = With(@, Current)]
  /\ flag' = TRUE
  /\ NextCell
  /\ UNCHANGED <<reply, msg, refused>>

Refuse_Mutant ==
  /\ pc = "cells" /\ Index(i, j) \in Cells
  /\ ~HasRoom(grids[Index(i, j)])
  /\ flag' = FALSE
  /\ refused' = refused \cup {<<Index(i, j), Current>>}
  /\ UNCHANGED <<grids, pc, done, i, j, updateFlag, reply, msg>>

Refuse ==
  /\ pc = "cells" /\ Index(i, j) \in Cells
  /\ ~HasRoom(grids[Index(i, j)])
  /\ flag' = FALSE
  /\ refused' = refused \cup {<<Index(i, j), Current>>}
  /\ NextCell
  /\ UNCHANGED <<grids, reply, msg>>

(* ... or, for a wall that lies below the grid, writes outside the array.  *)
WriteOutside ==
  /\ pc = "cells" /\ Index(i, j) \notin Cells
  /\ pc' = "undefined"
  /\ UNCHANGED <<grids, loop, reply, msg, refused>>

(* All walls are done: updateMapData answers, updateScene does not.        *)
Answer ==
  /\ pc = "edges" /\ done = Len(map) /\ pc' = "idle"
  /\ reply' = IF kind = "senario" THEN reply
              ELSE IF updateFlag THEN "succeed" ELSE "error"
  /\ UNCHANGED <<grids, loop, msg, refused>>

Maps == UNION {[1 .. n -> Edges] : n \in 0 .. MaxLen}

Message == \E k \in {"mapData", "senario"}, m \in Maps : Receive(k, m)
Handle  == OpenEdge \/ Enter \/ Refuse \/ WriteOutside \/ Answer
Next    == Message \/ Handle

(* The handler runs on by itself; no client has to send anything.          *)
Spec     == Init /\ [][Next]_vars
FairSpec == Spec /\ WF_vars(Handle)

-----------------------------------------------------------------------------
(* Properties.                                                             *)

TypeOK ==
  /\ grids \in [Cells -> Cell]
  /\ pc \in {"idle", "edges", "cells", "undefined"}
  /\ done \in 0 .. Len(map) /\ (pc = "cells" => done < Len(map))
  /\ i \in Int /\ j \in Int
  /\ flag \in BOOLEAN /\ updateFlag \in BOOLEAN
  /\ reply \in {"none", "succeed", "error"}
  /\ kind \in {"none", "mapData", "senario"}
  /\ map \in Seq(Edges) /\ maps \in Nat
  /\ refused \subseteq Cells \X Edges

(* No cell outgrows its array of walls, and the engine skips a cell (it    *)
(* looks only where isContains is set) only if there is no wall in it.     *)
CellsWellFormed ==
  maps > 0 => \A k \in Cells :
    /\ grids[k].N \in 0 .. MAX_EDGE_GRID
    /\ grids[k].isContains <=> grids[k].N > 0

(* Once a map was received the engine sees walls of the last one only:     *)
(* nothing is left of the maps before it, nor of the uninitialised grid.   *)
NoOldWalls == maps > 0 => \A k \in Cells : Walls(k) \subseteq InMap

(* What a map message is for: when it has been handled, every wall is in   *)
(* every cell in which the engine looks for a point of it.  (x, y) ranges  *)
(* over the wall's bounding box, which holds all of its points.  Where the *)
(* wall is missing the cell refused it, and it did so because it was full. *)
Entered(e, k) ==
  \/ e \in Walls(k)
  \/ <<k, e>> \in refused /\ grids[k].N = MAX_EDGE_GRID
EnteredAtPoints(e) ==
  \A x \in Lesser(e.x1, e.x2) .. Greater(e.x1, e.x2),
     y \in Lesser(e.y1, e.y2) .. Greater(e.y1, e.y2) :
    CellOf(x) \in 0 .. COL - 1 /\ CellOf(y) \in 0 .. ROW - 1 =>
      Entered(e, Index(CellOf(y), CellOf(x)))
EveryWallEntered == pc = "idle" => \A e \in InMap : EnteredAtPoints(e)

(* Why: wall by wall, and within a wall cell by cell, what the loops have  *)
(* passed is entered; and what is entered stays so.                        *)
Rows(e) == MinRow(e) .. MaxRow(e)
Cols(e) == MinCol(e) .. MaxCol(e)
EnteredAt(e, r, c) == Index(r, c) \in Cells /\ Entered(e, Index(r, c))
EnteredSoFar ==
  /\ pc = "idle" => done = Len(map)
  /\ pc # "idle" => maps > 0
  /\ \A n \in 1 .. done : \A r \in Rows(map[n]), c \in Cols(map[n]) :
       EnteredAt(map[n], r, c)
  /\ pc = "cells" =>
       /\ i \in Rows(Current) /\ j \in Cols(Current)
       /\ \A r \in Rows(Current), c \in Cols(Current) :
            r < i \/ (r = i /\ c < j) => EnteredAt(Current, r, c)

(* A wall no part of which lies a whole cell or more below the grid.  (The *)
(* client scales a map to the grid by the map's own bounding box.)         *)
InRange(e) ==
  e.x1 > -LENGTH /\ e.y1 > -LENGTH /\ e.x2 > -LENGTH /\ e.y2 > -LENGTH

(* Only a wall below the grid makes the server write outside the array.    *)
InsideUnlessBelow == pc = "undefined" => \E e \in InMap : ~InRange(e)

(* A client that is told of an error did send too much for some cell.      *)
FailureMeansRefused == reply = "error" => refused # {}

(* While a map is entered, no wall that is in the grid gets lost again.    *)
WallsStay ==
  [][(pc = "edges" \/ pc = "cells") =>
       \A k \in Cells : Walls(k) \subseteq Walls(k)']_vars

(* Every message is handled to the end.                                    *)
MessageEnds == pc = "edges" ~> pc \in {"idle", "undefined"}

(* echoserver.cpp:228 logs "update map data succeed" when updateFlag is    *)
(* set: then no wall was refused.                                          *)
SuccessMeansStored == reply = "succeed" => refused = {}
=============================================================================
