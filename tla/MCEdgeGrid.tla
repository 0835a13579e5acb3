----------------------------- MODULE MCEdgeGrid -----------------------------
(* A grid of two by two cells of side 2, cells that hold two walls, and    *)
(* walls of every kind: across cells in each direction, on the upper       *)
(* border of the grid, and below the grid by less and more than a cell.    *)
EXTENDS EdgeGrid

MCWall(a, b, c, d) == [x1 |-> a, y1 |-> b, x2 |-> c, y2 |-> d]

Diagonal == MCWall(0, 0, 3, 3)   \* all four cells
Top      == MCWall(4, 3, 1, 4)   \* the upper row, its ends cut off
Column   == MCWall(-1, 3, 1, -1) \* the first column: int(-0.5) is 0
Beside   == MCWall(-2, 3, 0, 2)  \* column -1: the last cell of the row below
Below    == MCWall(1, 1, 1, -2)  \* row -1: before the array

MCEdges == {Diagonal, Top, Column, Beside, Below}

(* What malloc may have returned: zeros, or old data.                      *)
MCJunk ==
  {[N |-> n, edges |-> [s \in Places |-> MCWall(9, 9, 9, 9)], isContains |-> n > 0] :
     n \in {0, 1}}
=============================================================================
