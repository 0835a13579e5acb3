--------------------------- MODULE EdgeGridProofs ---------------------------
(***************************************************************************)
(* Proofs about EdgeGrid, for every size of the grid and of its cells,     *)
(* every set of walls and every content of the uninitialised grid.         *)
(***************************************************************************)
EXTENDS EdgeGrid, SequenceTheorems, TLAPS

(* int(v / LENGTH) is an integer, grows with v, and is negative only for   *)
(* values that lie a whole cell below zero.                                *)
LEMMA CellOfFacts ==
  /\ \A v \in Int : CellOf(v) \in Int
  /\ \A u, v \in Int : u <= v => CellOf(u) <= CellOf(v)
  /\ \A v \in Int : v > -LENGTH => CellOf(v) >= 0
<1>1. \A u \in Nat : u \div LENGTH \in Nat
  BY SizeAssumption
<1>2. \A u \in Nat : /\ LENGTH * (u \div LENGTH) <= u
                     /\ u < LENGTH * (u \div LENGTH) + LENGTH
  BY SizeAssumption
<1>3. ASSUME NEW u \in Nat, NEW v \in Nat, u <= v
      PROVE  u \div LENGTH <= v \div LENGTH
  <2> DEFINE p == u \div LENGTH
             q == v \div LENGTH
  <2>1. p \in Nat /\ q \in Nat
    BY <1>1
  <2>2. LENGTH * p <= u /\ v < LENGTH * q + LENGTH
    BY <1>2
  <2> HIDE DEF p, q
  <2>3. ~(q + 1 <= p)
    <3>1. SUFFICES ASSUME q + 1 <= p PROVE FALSE
      OBVIOUS
    <3>2. LENGTH * (p - q - 1) >= 0
      BY <2>1, <3>1, SizeAssumption
    <3>3. LENGTH * p >= LENGTH * q + LENGTH
      BY <2>1, <3>2, SizeAssumption
    <3> QED BY <1>3, <2>1, <2>2, <3>3, SizeAssumption
  <2> QED BY <2>1, <2>3 DEF p, q
<1>4. ASSUME NEW u \in Nat, u < LENGTH
      PROVE  u \div LENGTH = 0
  BY <1>4, SizeAssumption
<1>5. \A v \in Int : CellOf(v) \in Int
  BY <1>1 DEF CellOf
<1>6. ASSUME NEW u \in Int, NEW v \in Int, u <= v
      PROVE  CellOf(u) <= CellOf(v)
  <2>1. CASE u >= 0
    BY <1>3, <1>6, <2>1 DEF CellOf
  <2>2. CASE u < 0 /\ v >= 0
    BY <1>1, <2>2 DEF CellOf
  <2>3. CASE v < 0
    <3>1. -v \in Nat /\ -u \in Nat /\ -v <= -u
      BY <1>6, <2>3
    <3>2. (-v) \div LENGTH <= (-u) \div LENGTH
      BY <1>3, <3>1
    <3> QED BY <1>1, <1>6, <2>3, <3>1, <3>2 DEF CellOf
  <2> QED BY <2>1, <2>2, <2>3
<1>7. ASSUME NEW v \in Int, v > -LENGTH
      PROVE  CellOf(v) >= 0
  <2>1. CASE v >= 0
    BY <1>1, <2>1 DEF CellOf
  <2>2. CASE v < 0
    BY <1>4, <1>7, <2>2, SizeAssumption DEF CellOf
  <2> QED BY <2>1, <2>2
<1> QED BY <1>5, <1>6, <1>7

(* The box of a wall: it is never empty, and ends within the grid.         *)
LEMMA BoxFacts ==
  ASSUME NEW e \in Wall
  PROVE  /\ MinRow(e) \in Int /\ MaxRow(e) \in Int
         /\ MinCol(e) \in Int /\ MaxCol(e) \in Int
         /\ MinRow(e) <= MaxRow(e) /\ MaxRow(e) <= ROW - 1
         /\ MinCol(e) <= MaxCol(e) /\ MaxCol(e) <= COL - 1
<1>1. /\ CellOf(e.x1) \in Int /\ CellOf(e.x2) \in Int
      /\ CellOf(e.y1) \in Int /\ CellOf(e.y2) \in Int
  BY CellOfFacts DEF Wall
<1> QED
  BY <1>1, SizeAssumption DEF MinRow, MaxRow, MinCol, MaxCol, Lesser, Greater

(* A cell of the grid is a place of the array.                             *)
LEMMA IndexInRange ==
  \A r \in 0 .. ROW - 1, c \in 0 .. COL - 1 : Index(r, c) \in Cells
<1>1. SUFFICES ASSUME NEW r \in 0 .. ROW - 1, NEW c \in 0 .. COL - 1
               PROVE  Index(r, c) \in Cells
  OBVIOUS
<1>2. (ROW - 1 - r) * COL >= 0 /\ r * COL >= 0
  BY SizeAssumption
<1>3. r * COL + c <= ROW * COL - 1
  BY <1>2, SizeAssumption
<1> QED BY <1>2, <1>3, SizeAssumption DEF Index, Cells

-----------------------------------------------------------------------------
(* Clearing a cell and entering a wall keep a cell well typed.             *)
LEMMA CellTypes ==
  \A g \in Cell : Cleared(g) \in Cell /\ \A e \in Wall : With(g, e) \in Cell
<1>1. \A g \in Cell : Cleared(g) \in Cell
  BY DEF Cell, Cleared
<1>2. ASSUME NEW g \in Cell, NEW e \in Wall
      PROVE  With(g, e) \in Cell
  <2>1. [g.edges EXCEPT ![g.N] = e] \in [Places -> Wall]
    BY DEF Cell
  <2>2. g.N + 1 \in Int
    BY DEF Cell
  <2> QED BY <2>1, <2>2 DEF Cell, With
<1> QED BY <1>1, <1>2

LEMMA MapTypes == \A m \in Maps : m \in Seq(Edges)
BY SeqDef, LimitAssumption DEF Maps

(* Where NextCell leads.                                                   *)
LEMMA NextCellMoves ==
  ASSUME TypeOK, pc = "cells", NextCell, flag' \in BOOLEAN
  PROVE  /\ i' \in Int /\ j' \in Int /\ updateFlag' \in BOOLEAN
         /\ \/ pc' = "cells" /\ done' = done
            \/ pc' = "edges" /\ done' = done + 1
<1>1. Current \in Wall
  BY DataAssumption DEF TypeOK, Current
<1> QED BY <1>1, BoxFacts DEF TypeOK, NextCell

(* Type correctness.                                                       *)
THEOREM TypeCorrect == Spec => []TypeOK
<1>1. Init => TypeOK
  BY DataAssumption DEF Init, TypeOK
<1>2. TypeOK /\ [Next]_vars => TypeOK'
  <2> SUFFICES ASSUME TypeOK, [Next]_vars PROVE TypeOK'
    OBVIOUS
  <2> USE DEF TypeOK
  <2>1. CASE UNCHANGED vars
    BY <2>1 DEF vars, loop, msg
  <2>2. CASE Message
    <3>1. PICK k \in {"mapData", "senario"}, m \in Maps : Receive(k, m)
      BY <2>2 DEF Message
    <3>2. m \in Seq(Edges) /\ Len(m) \in Nat
      BY MapTypes
    <3>3. grids' \in [Cells -> Cell]
      BY <3>1, CellTypes DEF Receive
    <3> QED BY <3>1, <3>2, <3>3 DEF Receive
  <2>3. ASSUME pc = "cells"
        PROVE  Current \in Edges /\ Current \in Wall
    BY <2>3, DataAssumption DEF Current
  <2>4. CASE OpenEdge
    <3>1. Current \in Wall
      BY <2>4, DataAssumption DEF OpenEdge, Current
    <3> QED BY <2>4, <3>1, BoxFacts DEF OpenEdge, msg
  <2>5. CASE Enter
    <3>1. grids' \in [Cells -> Cell]
      BY <2>3, <2>5, CellTypes DEF Enter
    <3> QED BY <2>5, <3>1, NextCellMoves DEF Enter, msg
  <2>6. CASE Refuse
    <3>1. /\ refused' \subseteq Cells \X Edges
          /\ flag' = FALSE /\ NextCell /\ pc = "cells"
          /\ UNCHANGED <<grids, reply, kind, map, maps>>
      BY <2>3, <2>6 DEF Refuse, msg
    <3>2. /\ i' \in Int /\ j' \in Int /\ updateFlag' \in BOOLEAN
          /\ \/ pc' = "cells" /\ done' = done
             \/ pc' = "edges" /\ done' = done + 1
      BY <3>1, NextCellMoves
    <3>3. done' \in 0 .. Len(map') /\ (pc' = "cells" => done' < Len(map'))
      BY <3>1, <3>2
    <3>4. pc' \in {"idle", "edges", "cells", "undefined"}
      BY <3>2
    <3> QED BY <3>1, <3>2, <3>3, <3>4
  <2>7. CASE WriteOutside
    BY <2>7 DEF WriteOutside, loop, msg
  <2>8. CASE Answer
    BY <2>8 DEF Answer, loop, msg
  <2> QED BY <2>1, <2>2, <2>4, <2>5, <2>6, <2>7, <2>8 DEF Next, Handle
<1> QED BY <1>1, <1>2, PTL DEF Spec

-----------------------------------------------------------------------------
(* Entering a wall adds it to the walls the engine sees in the cell.       *)
LEMMA WithContents ==
  ASSUME NEW g \in Cell, NEW e \in Wall, g.N \in Places
  PROVE  Contents(With(g, e)) = Contents(g) \cup {e}
<1> DEFINE h == With(g, e)
<1>1. h.N = g.N + 1 /\ h.edges = [g.edges EXCEPT ![g.N] = e]
  BY DEF With
<1>2. g.edges \in [Places -> Wall] /\ g.N \in Nat
  BY DEF Cell, Places
<1>3. h.edges[g.N] = e
  BY <1>1, <1>2
<1>4. ASSUME NEW n \in 0 .. g.N - 1
      PROVE  h.edges[n] = g.edges[n]
  <2>1. n \in Places /\ n # g.N
    BY <1>2, SizeAssumption DEF Places
  <2> QED BY <1>1, <1>2, <2>1
<1>5. 0 .. h.N - 1 = (0 .. g.N - 1) \cup {g.N}
  BY <1>1, <1>2
<1> HIDE DEF h
<1>6. Contents(h) = Contents(g) \cup {e}
  BY <1>3, <1>4, <1>5 DEF Contents
<1> QED BY <1>6 DEF h

(* The cells while a message is handled: what Enter does to them.          *)
CellsOK == /\ CellsWellFormed /\ NoOldWalls
           /\ pc # "idle" => maps > 0

LEMMA EnterEffect ==
  ASSUME TypeOK, CellsOK, Enter
  PROVE  LET k0 == Index(i, j) IN
         /\ k0 \in Cells /\ Current \in InMap /\ maps > 0
         /\ grids[k0].N < MAX_EDGE_GRID
         /\ grids'[k0].N = grids[k0].N + 1 /\ grids'[k0].isContains
         /\ Contents(grids'[k0]) = Walls(k0) \cup {Current}
         /\ \A k \in Cells : k # k0 =>
              grids'[k] = grids[k] /\ Walls(k)' = Walls(k)
<1> DEFINE k0 == Index(i, j)
<1>1. /\ k0 \in Cells /\ pc = "cells" /\ HasRoom(grids[k0])
      /\ grids' = [grids EXCEPT ![k0] = With(@, Current)]
  BY DEF Enter
<1>2. maps > 0 /\ Current \in Wall /\ Current \in InMap
  BY <1>1, DataAssumption DEF CellsOK, TypeOK, Current, InMap
<1>3. grids[k0] \in Cell /\ grids[k0].N \in Places
  BY <1>1, <1>2, SizeAssumption
  DEF TypeOK, CellsOK, CellsWellFormed, HasRoom, Places
<1>4. grids'[k0] = With(grids[k0], Current)
  BY <1>1 DEF TypeOK
<1>5. \A k \in Cells : k # k0 => grids'[k] = grids[k]
  BY <1>1 DEF TypeOK
<1>6. Contents(grids'[k0]) = Walls(k0) \cup {Current}
  BY <1>2, <1>3, <1>4, WithContents DEF Walls
<1>7. grids'[k0].N = grids[k0].N + 1 /\ grids'[k0].isContains
  BY <1>4 DEF With
<1> HIDE DEF k0
<1>8. /\ k0 \in Cells /\ Current \in InMap /\ maps > 0
      /\ grids[k0].N < MAX_EDGE_GRID
      /\ \A k \in Cells : k # k0 => Walls(k)' = Walls(k)
  BY <1>1, <1>2, <1>5 DEF Walls, HasRoom
<1> QED BY <1>5, <1>6, <1>7, <1>8 DEF k0

(* The invariant of the cells is inductive.                                *)
LEMMA CellsInductive == Spec => []CellsOK
<1>1. Init => CellsOK
  BY DEF Init, CellsOK, CellsWellFormed, NoOldWalls
<1>2. TypeOK /\ CellsOK /\ [Next]_vars => CellsOK'
  <2> SUFFICES ASSUME TypeOK, CellsOK, [Next]_vars PROVE CellsOK'
    OBVIOUS
  <2>1. ASSUME UNCHANGED <<grids, map, maps>>, pc = "idle" => pc' = "idle"
        PROVE  CellsOK'
    BY <2>1 DEF CellsOK, CellsWellFormed, NoOldWalls, Walls, InMap
  <2>2. CASE UNCHANGED vars \/ OpenEdge \/ WriteOutside \/ Answer
    BY <2>1, <2>2 DEF vars, msg, OpenEdge, WriteOutside, Answer
  <2>3. CASE Refuse
    BY <2>1, <2>3 DEF msg, Refuse
  <2>4. CASE Message
    <3>1. PICK k \in {"mapData", "senario"}, m \in Maps : Receive(k, m)
      BY <2>4 DEF Message
    <3>2. maps' > 0
      BY <3>1 DEF Receive, TypeOK
    <3>3. \A c \in Cells : grids'[c].N = 0 /\ ~grids'[c].isContains
      BY <3>1 DEF Receive, Cleared
    <3>4. \A c \in Cells : Walls(c)' = {}
      BY <3>3 DEF Walls, Contents
    <3> QED BY <3>2, <3>3, <3>4, SizeAssumption
            DEF CellsOK, CellsWellFormed, NoOldWalls
  <2>5. CASE Enter
    <3>1. UNCHANGED <<map, maps>> /\ InMap' = InMap
      BY <2>5 DEF Enter, msg, InMap
    <3>2. \A k \in Cells : Walls(k)' \subseteq InMap'
      <4> TAKE k \in Cells
      <4>1. Walls(k) \subseteq InMap /\ Current \in InMap
        BY <2>5, EnterEffect DEF CellsOK, NoOldWalls
      <4>2. CASE k = Index(i, j)
        BY <2>5, <3>1, <4>1, <4>2, EnterEffect DEF Walls
      <4>3. CASE k # Index(i, j)
        BY <2>5, <3>1, <4>1, <4>3, EnterEffect
      <4> QED BY <4>2, <4>3
    <3>3. \A k \in Cells :
            /\ grids'[k].N \in 0 .. MAX_EDGE_GRID
            /\ grids'[k].isContains <=> grids'[k].N > 0
      <4> TAKE k \in Cells
      <4>1. grids[k].N \in 0 .. MAX_EDGE_GRID /\ (grids[k].isContains <=> grids[k].N > 0)
        BY <2>5, EnterEffect DEF CellsOK, CellsWellFormed
      <4>2. CASE k = Index(i, j)
        BY <2>5, <4>1, <4>2, EnterEffect, SizeAssumption
      <4>3. CASE k # Index(i, j)
        BY <2>5, <4>1, <4>3, EnterEffect
      <4> QED BY <4>2, <4>3
    <3> QED BY <2>5, <3>1, <3>2, <3>3, EnterEffect DEF CellsOK, CellsWellFormed, NoOldWalls
  <2> QED BY <2>2, <2>3, <2>4, <2>5 DEF Next, Handle
<1> QED BY <1>1, <1>2, TypeCorrect, PTL DEF Spec

(* No cell outgrows its array, and none that has walls is skipped ...      *)
THEOREM CellsCorrect == Spec => []CellsWellFormed
<1>1. CellsOK => CellsWellFormed
  BY DEF CellsOK
<1> QED BY <1>1, CellsInductive, PTL

(* ... and none shows a wall of an earlier map or of the uninitialised     *)
(* grid.                                                                   *)
THEOREM OldWallsGone == Spec => []NoOldWalls
<1>1. CellsOK => NoOldWalls
  BY DEF CellsOK
<1> QED BY <1>1, CellsInductive, PTL

(* What the two steps that deal with a cell do not touch.                  *)
LEMMA RefuseEffect ==
  ASSUME TypeOK, CellsOK, Refuse
  PROVE  /\ UNCHANGED <<grids, map, maps>>
         /\ Index(i, j) \in Cells
         /\ grids[Index(i, j)].N = MAX_EDGE_GRID
         /\ refused' = refused \cup {<<Index(i, j), Current>>}
<1>1. /\ pc = "cells" /\ Index(i, j) \in Cells
      /\ ~(grids[Index(i, j)].N < MAX_EDGE_GRID)
  BY DEF Refuse, HasRoom
<1>2. grids[Index(i, j)].N \in 0 .. MAX_EDGE_GRID
  BY <1>1 DEF CellsOK, CellsWellFormed
<1> QED BY <1>1, <1>2, SizeAssumption DEF Refuse, msg

(* While a map is entered, no wall that is in the grid gets lost again.    *)
THEOREM WallsAreKept == Spec => WallsStay
<1>1. ASSUME TypeOK, CellsOK, [Next]_vars, pc = "edges" \/ pc = "cells",
             NEW k \in Cells
      PROVE  Walls(k) \subseteq Walls(k)'
  <2>1. CASE Enter
    <3>1. CASE k = Index(i, j)
      BY <1>1, <2>1, <3>1, EnterEffect DEF Walls
    <3>2. CASE k # Index(i, j)
      BY <1>1, <2>1, <3>2, EnterEffect
    <3> QED BY <3>1, <3>2
  <2>2. CASE ~Enter
    <3>1. UNCHANGED grids
      BY <1>1, <2>2
      DEF Next, Message, Handle, Receive, OpenEdge, Refuse, WriteOutside, Answer, vars
    <3> QED BY <3>1 DEF Walls
  <2> QED BY <2>1, <2>2
<1>2. TypeOK /\ CellsOK /\ [Next]_vars =>
        ((pc = "edges" \/ pc = "cells") => \A k \in Cells : Walls(k) \subseteq Walls(k)')
  BY <1>1
<1> QED BY <1>2, CellsInductive, TypeCorrect, PTL DEF Spec, WallsStay

-----------------------------------------------------------------------------
(* What is entered stays so, and the cell at hand is entered or refused.   *)
LEMMA StepEnters ==
  ASSUME TypeOK, CellsOK, Enter \/ Refuse
  PROVE  /\ \A e, r, c : EnteredAt(e, r, c) => EnteredAt(e, r, c)'
         /\ \A e, r, c : e = Current /\ r = i /\ c = j => EnteredAt(e, r, c)'
<1>1. ASSUME NEW e, NEW k, k \in Cells, Entered(e, k)
      PROVE  Entered(e, k)'
  <2>1. CASE Enter
    <3>1. UNCHANGED refused
      BY <2>1 DEF Enter
    <3>2. CASE k = Index(i, j)
      BY <1>1, <2>1, <3>1, <3>2, EnterEffect, SizeAssumption DEF Entered, Walls
    <3>3. CASE k # Index(i, j)
      BY <1>1, <2>1, <3>1, <3>3, EnterEffect DEF Entered
    <3> QED BY <3>2, <3>3
  <2>2. CASE Refuse
    BY <1>1, <2>2, RefuseEffect DEF Entered, Walls
  <2> QED BY <2>1, <2>2
<1>2. ASSUME NEW e, NEW k, e = Current, k = Index(i, j)
      PROVE  k \in Cells /\ Entered(e, k)'
  <2>1. CASE Enter
    BY <1>2, <2>1, EnterEffect DEF Entered, Walls
  <2>2. CASE Refuse
    BY <1>2, <2>2, RefuseEffect DEF Entered
  <2> QED BY <2>1, <2>2
<1>3. ASSUME NEW e, NEW r, NEW c, EnteredAt(e, r, c)
      PROVE  EnteredAt(e, r, c)'
  BY <1>1, <1>3 DEF EnteredAt
<1>4. ASSUME NEW e, NEW r, NEW c, e = Current, r = i, c = j
      PROVE  EnteredAt(e, r, c)'
  <2>1. Index(r, c) = Index(i, j)
    BY <1>4
  <2> QED BY <1>2, <1>4, <2>1 DEF EnteredAt
<1> QED BY <1>3, <1>4

(* What the loops have passed is entered.                                  *)
LEMMA EnteredInductive == Spec => []EnteredSoFar
<1>1. Init => EnteredSoFar
  BY DEF Init, EnteredSoFar
<1>2. TypeOK /\ CellsOK /\ EnteredSoFar /\ [Next]_vars => EnteredSoFar'
  <2> SUFFICES ASSUME TypeOK, CellsOK, EnteredSoFar, [Next]_vars
               PROVE  EnteredSoFar'
    OBVIOUS
  <2>1. CASE UNCHANGED vars
    BY <2>1 DEF vars, loop, msg, EnteredSoFar, EnteredAt, Entered, Walls, Current
  <2>2. CASE Message
    <3>1. PICK k \in {"mapData", "senario"}, m \in Maps : Receive(k, m)
      BY <2>2 DEF Message
    <3> QED BY <3>1 DEF Receive, EnteredSoFar, TypeOK
  <2>3. ASSUME UNCHANGED <<grids, refused, map, maps, done>>
        PROVE  \A n \in 1 .. done' : \A r \in Rows(map'[n]), c \in Cols(map'[n]) :
                 EnteredAt(map[n], r, c)'
    BY <2>3 DEF EnteredSoFar, EnteredAt, Entered, Walls
  <2>4. CASE OpenEdge
    <3>1. UNCHANGED <<grids, refused, map, maps, done>> /\ Current' = Current
      BY <2>4 DEF OpenEdge, msg, Current
    <3>2. Current \in Wall
      BY <2>4, DataAssumption DEF OpenEdge, TypeOK, Current
    <3>3. i' = MinRow(Current) /\ j' = MinCol(Current) /\ pc' = "cells" /\ pc = "edges"
      BY <2>4 DEF OpenEdge
    <3>4. i' \in Rows(Current) /\ j' \in Cols(Current)
      BY <3>2, <3>3, BoxFacts DEF Rows, Cols
    <3>5. \A r \in Rows(Current), c \in Cols(Current) : ~(r < i' \/ (r = i' /\ c < j'))
      BY <3>2, <3>3, BoxFacts DEF Rows, Cols
    <3> QED BY <2>3, <3>1, <3>3, <3>4, <3>5 DEF EnteredSoFar
  <2>5. CASE Enter \/ Refuse
    <3>1. /\ pc = "cells" /\ NextCell /\ UNCHANGED <<map, maps>>
          /\ Current \in Wall /\ done \in Nat
      BY <2>5, DataAssumption DEF Enter, Refuse, msg, TypeOK, Current
    <3>2. /\ \A e, r, c : EnteredAt(e, r, c) => EnteredAt(e, r, c)'
          /\ \A e, r, c : e = Current /\ r = i /\ c = j => EnteredAt(e, r, c)'
      BY <2>5, StepEnters
    <3>3. /\ MinRow(Current) \in Int /\ MaxRow(Current) \in Int
          /\ MinCol(Current) \in Int /\ MaxCol(Current) \in Int
          /\ i \in Int /\ j \in Int
          /\ MinRow(Current) <= i /\ i <= MaxRow(Current)
          /\ MinCol(Current) <= j /\ j <= MaxCol(Current)
      BY <3>1, BoxFacts DEF EnteredSoFar, Rows, Cols
    <3>4. ASSUME NEW e, NEW n \in 1 .. done, e = map[n],
                 NEW r \in Rows(e), NEW c \in Cols(e)
          PROVE  EnteredAt(e, r, c)'
      <4>1. EnteredAt(e, r, c)
        BY <3>4 DEF EnteredSoFar
      <4> QED BY <3>2, <4>1
    <3>5. ASSUME NEW e, e = Current, NEW r \in Rows(e), NEW c \in Cols(e),
                 r < i \/ (r = i /\ c <= j)
          PROVE  EnteredAt(e, r, c)'
      <4>1. CASE r < i \/ (r = i /\ c < j)
        <5>1. EnteredAt(e, r, c)
          BY <3>1, <3>5, <4>1 DEF EnteredSoFar
        <5> QED BY <3>2, <5>1
      <4>2. CASE r = i /\ c = j
        BY <3>2, <3>5, <4>2
      <4> QED BY <3>3, <3>5, <4>1, <4>2 DEF Rows, Cols
    <3>6. CASE j < MaxCol(Current)
      <4>1. pc' = "cells" /\ done' = done /\ i' = i /\ j' = j + 1 /\ Current' = Current
        BY <3>1, <3>6 DEF NextCell, Current
      <4>2. i' \in Rows(Current) /\ j' \in Cols(Current)
        BY <3>3, <3>6, <4>1 DEF Rows, Cols
      <4>3. \A e : e = Current => \A r \in Rows(e), c \in Cols(e) :
              r < i' \/ (r = i' /\ c < j') => EnteredAt(e, r, c)'
        BY <3>3, <3>5, <4>1 DEF Rows, Cols
      <4> QED BY <3>1, <3>4, <4>1, <4>2, <4>3 DEF EnteredSoFar
    <3>7. CASE ~(j < MaxCol(Current)) /\ i < MaxRow(Current)
      <4>1. /\ pc' = "cells" /\ done' = done /\ i' = i + 1
            /\ j' = MinCol(Current) /\ Current' = Current
        BY <3>1, <3>7 DEF NextCell, Current
      <4>2. i' \in Rows(Current) /\ j' \in Cols(Current)
        BY <3>3, <3>7, <4>1 DEF Rows, Cols
      <4>3. \A e : e = Current => \A r \in Rows(e), c \in Cols(e) :
              r < i' \/ (r = i' /\ c < j') => EnteredAt(e, r, c)'
        BY <3>3, <3>5, <3>7, <4>1 DEF Rows, Cols
      <4> QED BY <3>1, <3>4, <4>1, <4>2, <4>3 DEF EnteredSoFar
    <3>8. CASE ~(j < MaxCol(Current)) /\ ~(i < MaxRow(Current))
      <4>1. pc' = "edges" /\ done' = done + 1
        BY <3>1, <3>8 DEF NextCell
      <4>2. \A e : e = Current => \A r \in Rows(e), c \in Cols(e) : EnteredAt(e, r, c)'
        BY <3>3, <3>5, <3>8 DEF Rows, Cols
      <4>3. ASSUME NEW e, NEW n \in 1 .. done', e = map[n],
                   NEW r \in Rows(e), NEW c \in Cols(e)
            PROVE  EnteredAt(e, r, c)'
        <5>1. CASE n \in 1 .. done
          BY <3>4, <4>3, <5>1
        <5>2. CASE n = done + 1
          BY <4>2, <4>3, <5>2 DEF Current
        <5> QED BY <3>1, <4>1, <5>1, <5>2
      <4> QED BY <3>1, <4>1, <4>3 DEF EnteredSoFar
    <3> QED BY <3>6, <3>7, <3>8
  <2>6. CASE WriteOutside
    BY <2>3, <2>6 DEF WriteOutside, loop, msg, EnteredSoFar
  <2>7. CASE Answer
    BY <2>3, <2>7 DEF Answer, loop, msg, EnteredSoFar
  <2> QED BY <2>1, <2>2, <2>4, <2>5, <2>6, <2>7 DEF Next, Handle
<1> QED BY <1>1, <1>2, TypeCorrect, CellsInductive, PTL DEF Spec

(* The cell in which the engine looks for a point of a wall is one of the  *)
(* cells the wall is entered in.                                           *)
LEMMA PointInBox ==
  ASSUME NEW e \in Wall,
         NEW x \in Lesser(e.x1, e.x2) .. Greater(e.x1, e.x2),
         NEW y \in Lesser(e.y1, e.y2) .. Greater(e.y1, e.y2),
         CellOf(x) \in 0 .. COL - 1, CellOf(y) \in 0 .. ROW - 1
  PROVE  CellOf(y) \in Rows(e) /\ CellOf(x) \in Cols(e)
<1> USE DEF Lesser, Greater
<1>1. /\ e.x1 \in Int /\ e.x2 \in Int /\ e.y1 \in Int /\ e.y2 \in Int
      /\ x \in Int /\ y \in Int
  BY DEF Wall
<1>2. \/ e.x1 <= x /\ x <= e.x2
      \/ e.x2 <= x /\ x <= e.x1
  BY <1>1
<1>3. \/ e.y1 <= y /\ y <= e.y2
      \/ e.y2 <= y /\ y <= e.y1
  BY <1>1
<1>4. \/ CellOf(e.x1) <= CellOf(x) /\ CellOf(x) <= CellOf(e.x2)
      \/ CellOf(e.x2) <= CellOf(x) /\ CellOf(x) <= CellOf(e.x1)
  BY <1>1, <1>2, CellOfFacts
<1>5. \/ CellOf(e.y1) <= CellOf(y) /\ CellOf(y) <= CellOf(e.y2)
      \/ CellOf(e.y2) <= CellOf(y) /\ CellOf(y) <= CellOf(e.y1)
  BY <1>1, <1>3, CellOfFacts
<1>6. /\ CellOf(e.x1) \in Int /\ CellOf(e.x2) \in Int
      /\ CellOf(e.y1) \in Int /\ CellOf(e.y2) \in Int
  BY <1>1, CellOfFacts
<1>7. CellOf(x) \in Cols(e)
  BY <1>4, <1>6, SizeAssumption DEF Cols, MinCol, MaxCol
<1>8. CellOf(y) \in Rows(e)
  BY <1>5, <1>6, SizeAssumption DEF Rows, MinRow, MaxRow
<1> QED BY <1>7, <1>8

(* When a map has been handled, every wall of it is in every cell where    *)
(* the engine looks for a point of it, or was refused by it for being full.*)
THEOREM WallsAreEntered == Spec => []EveryWallEntered
<1>1. TypeOK /\ EnteredSoFar => EveryWallEntered
  <2> SUFFICES ASSUME TypeOK, EnteredSoFar, pc = "idle",
                      NEW n \in 1 .. Len(map)
               PROVE  EnteredAtPoints(map[n])
    BY DEF EveryWallEntered, InMap
  <2> DEFINE e == map[n]
  <2>1. e \in Wall /\ n \in 1 .. done
    BY DataAssumption DEF TypeOK, EnteredSoFar
  <2>2. \A r \in Rows(e), c \in Cols(e) : Entered(e, Index(r, c))
    BY <2>1 DEF EnteredSoFar, EnteredAt
  <2> HIDE DEF e
  <2>3. EnteredAtPoints(e)
    BY <2>1, <2>2, PointInBox DEF EnteredAtPoints
  <2> QED BY <2>3 DEF e
<1> QED BY <1>1, TypeCorrect, EnteredInductive, PTL

(* Only a wall below the grid makes the server write outside the array.    *)
THEOREM WritesInside == Spec => []InsideUnlessBelow
<1>1. Init => InsideUnlessBelow
  BY DEF Init, InsideUnlessBelow
<1>2. TypeOK /\ EnteredSoFar /\ InsideUnlessBelow /\ [Next]_vars => InsideUnlessBelow'
  <2> SUFFICES ASSUME TypeOK, EnteredSoFar, InsideUnlessBelow, [Next]_vars,
                      pc' = "undefined"
               PROVE  \E e \in InMap' : ~InRange(e)
    BY DEF InsideUnlessBelow
  <2>1. CASE WriteOutside
    <3>1. Current \in InMap /\ Current \in Wall /\ InMap' = InMap
      BY <2>1, DataAssumption DEF WriteOutside, msg, TypeOK, InMap, Current
    <3>2. i \in Rows(Current) /\ j \in Cols(Current) /\ Index(i, j) \notin Cells
      BY <2>1 DEF WriteOutside, EnteredSoFar
    <3>3. ASSUME InRange(Current)
          PROVE  FALSE
      <4>1. /\ CellOf(Current.x1) >= 0 /\ CellOf(Current.x2) >= 0
            /\ CellOf(Current.y1) >= 0 /\ CellOf(Current.y2) >= 0
        BY <3>1, <3>3, CellOfFacts DEF InRange, Wall
      <4>2. /\ CellOf(Current.x1) \in Int /\ CellOf(Current.x2) \in Int
            /\ CellOf(Current.y1) \in Int /\ CellOf(Current.y2) \in Int
        BY <3>1, CellOfFacts DEF Wall
      <4>3. MinRow(Current) >= 0 /\ MinCol(Current) >= 0
        BY <4>1, <4>2, SizeAssumption DEF MinRow, MinCol, Lesser
      <4>4. i \in 0 .. ROW - 1 /\ j \in 0 .. COL - 1
        BY <3>1, <3>2, <4>3, BoxFacts, SizeAssumption DEF Rows, Cols
      <4> QED BY <3>2, <4>4, IndexInRange
    <3> QED BY <3>1, <3>3
  <2>2. CASE UNCHANGED vars
    BY <2>2 DEF vars, msg, InsideUnlessBelow, InMap
  <2>3. CASE Message \/ OpenEdge \/ Answer
    BY <2>3 DEF Message, Receive, OpenEdge, Answer
  <2>4. CASE Enter \/ Refuse
    <3>1. pc = "cells" /\ NextCell
      BY <2>4 DEF Enter, Refuse
    <3> QED BY <3>1 DEF NextCell
  <2> QED BY <2>1, <2>2, <2>3, <2>4 DEF Next, Handle
<1> QED BY <1>1, <1>2, TypeCorrect, EnteredInductive, PTL DEF Spec

(* A client that is told of an error did send too much for some cell.      *)
THEOREM FailureIsReal == Spec => []FailureMeansRefused
<1> DEFINE Inv == /\ FailureMeansRefused
                  /\ ~updateFlag => refused # {}
                  /\ pc = "cells" /\ ~flag => refused # {}
<1>1. Init => Inv
  BY DEF Init, FailureMeansRefused
<1>2. TypeOK /\ Inv /\ [Next]_vars => Inv'
  <2> SUFFICES ASSUME TypeOK, Inv, [Next]_vars PROVE Inv'
    OBVIOUS
  <2> USE DEF FailureMeansRefused
  <2>1. CASE UNCHANGED vars
    BY <2>1 DEF vars, loop
  <2>2. CASE Message
    BY <2>2 DEF Message, Receive
  <2>3. CASE OpenEdge \/ WriteOutside
    BY <2>3 DEF OpenEdge, WriteOutside, loop
  <2>4. CASE Enter
    BY <2>4 DEF Enter, NextCell
  <2>5. CASE Refuse
    <3>1. refused' # {}
      BY <2>5 DEF Refuse
    <3> QED BY <3>1
  <2>6. CASE Answer
    BY <2>6 DEF Answer, loop
  <2> QED BY <2>1, <2>2, <2>3, <2>4, <2>5, <2>6 DEF Next, Handle
<1>3. Inv => FailureMeansRefused
  OBVIOUS
<1> QED BY <1>1, <1>2, <1>3, TypeCorrect, PTL DEF Spec

-----------------------------------------------------------------------------
(* What an answer does tell.  updateMapData keeps the result of the last   *)
(* cell of the last wall (echoserver.cpp:219): "succeed" says that this    *)
(* wall is in that cell, "error" that the cell refused it, and neither     *)
(* says anything of the other walls and cells.                             *)
LastCell(e) == Index(MaxRow(e), MaxCol(e))

AnswerTellsLastCell ==
  reply # "none" =>
    IF map = <<>> THEN reply = "succeed"
    ELSE LET e == map[Len(map)] IN
         IF reply = "succeed" THEN e \in Walls(LastCell(e))
                              ELSE <<LastCell(e), e>> \in refused

(* What the answer will be if the walls so far are all.                    *)
Told(e) == IF updateFlag THEN e \in Walls(LastCell(e))
                         ELSE <<LastCell(e), e>> \in refused
AnswerSoFar ==
  /\ pc # "idle" => kind # "none"
  /\ reply # "none" => pc = "idle" /\ kind = "mapData" /\ (reply = "succeed" <=> updateFlag)
  /\ kind = "mapData" => IF done = 0 THEN updateFlag ELSE Told(map[done])

(* The last cell the loops come to is the last one of the box.             *)
LEMMA LastCellIsLast ==
  ASSUME TypeOK, CellsOK, EnteredSoFar, Enter \/ Refuse
  PROVE  \/ /\ pc' = "cells" /\ done' = done /\ updateFlag' = updateFlag
         \/ /\ pc' = "edges" /\ done' = done + 1
            /\ Index(i, j) = LastCell(Current)
            /\ updateFlag' = IF kind = "mapData" THEN flag' ELSE updateFlag
<1>1. pc = "cells" /\ NextCell /\ Current \in Wall
  BY DataAssumption DEF Enter, Refuse, TypeOK, Current
<1>2. i \in Rows(Current) /\ j \in Cols(Current)
  BY <1>1 DEF EnteredSoFar
<1>3. CASE j < MaxCol(Current)
  BY <1>1, <1>3 DEF NextCell
<1>4. CASE ~(j < MaxCol(Current)) /\ i < MaxRow(Current)
  BY <1>1, <1>4 DEF NextCell
<1>5. CASE ~(j < MaxCol(Current)) /\ ~(i < MaxRow(Current))
  <2>1. i = MaxRow(Current) /\ j = MaxCol(Current)
    BY <1>1, <1>2, <1>5, BoxFacts DEF Rows, Cols
  <2> QED BY <1>1, <1>5, <2>1 DEF NextCell, LastCell
<1> QED BY <1>3, <1>4, <1>5

(* A client is told what the last cell of the last wall said, whatever the *)
(* cells and walls before it did.                                          *)
THEOREM AnswersTellLastCell == Spec => []AnswerTellsLastCell
<1>1. Init => AnswerSoFar
  BY DEF Init, AnswerSoFar
<1>2. TypeOK /\ CellsOK /\ EnteredSoFar /\ AnswerSoFar /\ [Next]_vars => AnswerSoFar'
  <2> SUFFICES ASSUME TypeOK, CellsOK, EnteredSoFar, AnswerSoFar, [Next]_vars
               PROVE  AnswerSoFar'
    OBVIOUS
  <2>1. CASE UNCHANGED vars
    BY <2>1 DEF vars, loop, msg, AnswerSoFar, Told, Walls
  <2>2. CASE Message
    BY <2>2 DEF Message, Receive, AnswerSoFar
  <2>3. CASE OpenEdge \/ WriteOutside
    BY <2>3 DEF OpenEdge, WriteOutside, loop, msg, AnswerSoFar, Told, Walls
  <2>4. CASE Answer
    <3>1. /\ UNCHANGED <<grids, done, updateFlag, kind, map, refused>>
          /\ pc = "edges" /\ pc' = "idle" /\ kind \in {"mapData", "senario"} /\ reply = "none"
          /\ reply' = IF kind = "senario" THEN reply
                      ELSE IF updateFlag THEN "succeed" ELSE "error"
      <4>1. pc = "edges" /\ kind \in {"mapData", "senario"} /\ reply = "none"
        BY <2>4 DEF Answer, AnswerSoFar, TypeOK
      <4>2. reply' = IF kind = "senario" THEN reply
                     ELSE IF updateFlag THEN "succeed" ELSE "error"
        BY <2>4 DEF Answer
      <4> QED BY <2>4, <4>1, <4>2 DEF Answer, loop, msg
    <3> QED BY <3>1 DEF AnswerSoFar, Told, Walls
  <2>5. CASE Enter \/ Refuse
    <3>1. /\ UNCHANGED <<kind, map, maps, reply>> /\ pc = "cells" /\ done \in Nat
          /\ \A k \in Cells : Walls(k) \subseteq Walls(k)'
          /\ refused \subseteq refused'
      <4>1. CASE Enter
        <5>1. ASSUME NEW k \in Cells PROVE Walls(k) \subseteq Walls(k)'
          <6>1. CASE k = Index(i, j)
            BY <4>1, <6>1, EnterEffect DEF Walls
          <6>2. CASE k # Index(i, j)
            BY <4>1, <6>2, EnterEffect
          <6> QED BY <6>1, <6>2
        <5> QED BY <4>1, <5>1 DEF Enter, msg, TypeOK
      <4>2. CASE Refuse
        BY <4>2, RefuseEffect DEF Refuse, msg, TypeOK, Walls
      <4> QED BY <2>5, <4>1, <4>2
    <3>2. reply = "none"
      BY <3>1 DEF AnswerSoFar, TypeOK
    <3>3. CASE pc' = "cells" /\ done' = done /\ updateFlag' = updateFlag
      <4>1. ASSUME NEW n, n = done, kind = "mapData", n # 0
            PROVE  IF updateFlag THEN map[n] \in Walls(LastCell(map[n]))'
                                 ELSE <<LastCell(map[n]), map[n]>> \in refused'
        <5>1. Told(map[done])
          BY <4>1 DEF AnswerSoFar
        <5>2. LastCell(map[n]) \in Cells
          <6>1. n \in 1 .. done /\ map[n] \in Wall
            BY <3>1, <4>1, DataAssumption DEF TypeOK
          <6>2. MaxRow(map[n]) \in Rows(map[n]) /\ MaxCol(map[n]) \in Cols(map[n])
            BY <6>1, BoxFacts DEF Rows, Cols
          <6> QED BY <6>1, <6>2 DEF EnteredSoFar, EnteredAt, LastCell
        <5> QED BY <3>1, <4>1, <5>1, <5>2 DEF Told
      <4> QED BY <3>1, <3>2, <3>3, <4>1 DEF AnswerSoFar, Told
    <3>4. CASE /\ pc' = "edges" /\ done' = done + 1
               /\ Index(i, j) = LastCell(Current)
               /\ updateFlag' = IF kind = "mapData" THEN flag' ELSE updateFlag
      <4>1. CASE Enter
        <5>1. flag' = TRUE /\ Index(i, j) \in Cells
          BY <4>1 DEF Enter
        <5>2. ASSUME NEW k, k = Index(i, j) PROVE Current \in Walls(k)'
          BY <4>1, <5>2, EnterEffect DEF Walls
        <5>3. ASSUME NEW e, e = Current PROVE e \in Walls(LastCell(e))'
          BY <3>4, <5>2, <5>3
        <5>4. map'[done'] = Current /\ done' # 0
          BY <3>1, <3>4 DEF Current
        <5> QED BY <3>1, <3>2, <3>4, <5>1, <5>3, <5>4 DEF AnswerSoFar, Told
      <4>2. CASE Refuse
        <5>1. flag' = FALSE /\ <<LastCell(Current), Current>> \in refused'
          BY <3>4, <4>2 DEF Refuse
        <5>2. map'[done'] = Current /\ done' # 0
          BY <3>1, <3>4 DEF Current
        <5>3. ASSUME NEW e, e = Current PROVE LastCell(e)' = LastCell(Current)
          BY <5>3 DEF LastCell, Index
        <5> QED BY <3>1, <3>2, <3>4, <5>1, <5>2, <5>3 DEF AnswerSoFar, Told
      <4> QED BY <2>5, <4>1, <4>2
    <3> QED BY <2>5, <3>3, <3>4, LastCellIsLast
  <2> QED BY <2>1, <2>2, <2>3, <2>4, <2>5 DEF Next, Handle
<1>3. TypeOK /\ EnteredSoFar /\ AnswerSoFar => AnswerTellsLastCell
  <2> SUFFICES ASSUME TypeOK, EnteredSoFar, AnswerSoFar, reply # "none"
               PROVE  IF map = <<>> THEN reply = "succeed"
                      ELSE LET e == map[Len(map)] IN
                           IF reply = "succeed" THEN e \in Walls(LastCell(e))
                                                ELSE <<LastCell(e), e>> \in refused
    BY DEF AnswerTellsLastCell
  <2>1. kind = "mapData" /\ (reply = "succeed" <=> updateFlag) /\ done = Len(map)
    BY DEF AnswerSoFar, EnteredSoFar
  <2>2. map = <<>> <=> done = 0
    BY <2>1, EmptySeq DEF TypeOK
  <2> QED BY <2>1, <2>2 DEF AnswerSoFar, Told
<1> QED BY <1>1, <1>2, <1>3, TypeCorrect, CellsInductive, EnteredInductive, PTL DEF Spec

-----------------------------------------------------------------------------
(* A wall is entered in no other cell than those of its box, so that the   *)
(* engine does not look for it anywhere else.  (The box of a wall left of  *)
(* the grid has columns below 0: its cells are then those of the rows      *)
(* below, and they are the ones it is in.)                                 *)
InBox(e, k) == \E r \in Rows(e), c \in Cols(e) : k = Index(r, c)
WallsInBox == maps > 0 => \A k \in Cells : \A e \in Walls(k) : InBox(e, k)

(* updateEdges is called for no cell outside the box that addEdgeToGrids   *)
(* computes from the ends of the wall.                                     *)
THEOREM WallsOnlyInBox == Spec => []WallsInBox
<1>1. Init => WallsInBox
  BY DEF Init, WallsInBox
<1>2. TypeOK /\ CellsOK /\ EnteredSoFar /\ WallsInBox /\ [Next]_vars => WallsInBox'
  <2> SUFFICES ASSUME TypeOK, CellsOK, EnteredSoFar, WallsInBox, [Next]_vars
               PROVE  WallsInBox'
    OBVIOUS
  <2>1. ASSUME UNCHANGED <<grids, maps>> PROVE WallsInBox'
    BY <2>1 DEF WallsInBox, Walls
  <2>2. CASE UNCHANGED vars \/ OpenEdge \/ WriteOutside \/ Answer \/ Refuse
    BY <2>1, <2>2 DEF vars, msg, OpenEdge, WriteOutside, Answer, Refuse
  <2>3. CASE Message
    <3>1. \A k \in Cells : Walls(k)' = {}
      BY <2>3 DEF Message, Receive, Cleared, Walls, Contents
    <3> QED BY <3>1 DEF WallsInBox
  <2>4. CASE Enter
    <3>1. UNCHANGED maps /\ i \in Rows(Current) /\ j \in Cols(Current)
      BY <2>4 DEF Enter, msg, EnteredSoFar
    <3>2. InBox(Current, Index(i, j))
      BY <3>1 DEF InBox
    <3>3. ASSUME NEW k \in Cells, NEW e \in Walls(k)', maps > 0 PROVE InBox(e, k)
      <4>1. e \in Walls(k) \/ (e = Current /\ k = Index(i, j))
        BY <2>4, <3>3, EnterEffect DEF Walls
      <4> QED BY <3>2, <3>3, <4>1 DEF WallsInBox
    <3> QED BY <3>1, <3>3 DEF WallsInBox
  <2> QED BY <2>2, <2>3, <2>4 DEF Next, Handle
<1> QED BY <1>1, <1>2, TypeCorrect, CellsInductive, EnteredInductive, PTL DEF Spec

-----------------------------------------------------------------------------
(* Why the loops end: addEdgeToGrids calls updateEdges once for each cell  *)
(* of the wall's box, whatever the cells answer.                           *)
Width(e) == MaxCol(e) - MinCol(e) + 1
BoxSize(e) == (MaxRow(e) - MinRow(e) + 1) * Width(e)
CellsLeft == (MaxRow(Current) - i) * Width(Current) + (MaxCol(Current) - j) + 1

LEMMA BoxCounted ==
  ASSUME NEW e \in Wall, NEW r \in Rows(e), NEW c \in Cols(e)
  PROVE  LET Left(a, b) == (MaxRow(e) - a) * Width(e) + (MaxCol(e) - b) + 1
         IN  /\ Left(r, c) \in Nat \ {0}
             /\ Left(MinRow(e), MinCol(e)) = BoxSize(e)
             /\ Left(r, c + 1) = Left(r, c) - 1
             /\ c = MaxCol(e) => Left(r + 1, MinCol(e)) = Left(r, c) - 1
             /\ Left(r, c) = 1 <=> r = MaxRow(e) /\ c = MaxCol(e)
<1> DEFINE w == Width(e)
           d == MaxRow(e) - r
           p == MaxRow(e) - MinRow(e)
<1>1. /\ MinRow(e) \in Int /\ MaxRow(e) \in Int /\ MinCol(e) \in Int /\ MaxCol(e) \in Int
      /\ MinRow(e) <= r /\ r <= MaxRow(e) /\ MinCol(e) <= c /\ c <= MaxCol(e)
      /\ r \in Int /\ c \in Int
  BY BoxFacts DEF Rows, Cols
<1>2. w \in Nat \ {0} /\ d \in Nat /\ p \in Nat /\ w = MaxCol(e) - MinCol(e) + 1
  BY <1>1 DEF Width
<1>3. MaxRow(e) - (r + 1) = d - 1 /\ MaxRow(e) - MinRow(e) + 1 = p + 1 /\ (d = 0 <=> r = MaxRow(e))
  BY <1>1
<1> HIDE DEF w, d, p
<1>4. d * w \in Nat /\ (d - 1) * w = d * w - w /\ (p + 1) * w = p * w + w /\ p * w \in Nat
  BY <1>2
<1>5. d * w = 0 <=> d = 0
  BY <1>2
<1>6. d * w + (MaxCol(e) - c) + 1 \in Nat \ {0}
  BY <1>1, <1>4
<1>7. p * w + (MaxCol(e) - MinCol(e)) + 1 = (p + 1) * w
  BY <1>1, <1>2, <1>4
<1>8. d * w + (MaxCol(e) - (c + 1)) + 1 = (d * w + (MaxCol(e) - c) + 1) - 1
  BY <1>1, <1>4
<1>9. c = MaxCol(e) =>
        (d - 1) * w + (MaxCol(e) - MinCol(e)) + 1 = (d * w + (MaxCol(e) - c) + 1) - 1
  BY <1>1, <1>2, <1>4
<1>10. d * w + (MaxCol(e) - c) + 1 = 1 <=> d = 0 /\ c = MaxCol(e)
  BY <1>1, <1>4, <1>5
<1> DEFINE Left(a, b) == (MaxRow(e) - a) * w + (MaxCol(e) - b) + 1
<1>11. \A b : /\ Left(r, b) = d * w + (MaxCol(e) - b) + 1
              /\ Left(MinRow(e), b) = p * w + (MaxCol(e) - b) + 1
              /\ Left(r + 1, b) = (d - 1) * w + (MaxCol(e) - b) + 1
  BY <1>3, Zenon DEF d, p
<1>12. BoxSize(e) = (p + 1) * w
  BY <1>3, Zenon DEF BoxSize, w
<1> HIDE DEF Left
<1>13. /\ Left(r, c) \in Nat \ {0}
       /\ Left(MinRow(e), MinCol(e)) = BoxSize(e)
       /\ Left(r, c + 1) = Left(r, c) - 1
       /\ c = MaxCol(e) => Left(r + 1, MinCol(e)) = Left(r, c) - 1
       /\ Left(r, c) = 1 <=> r = MaxRow(e) /\ c = MaxCol(e)
  <2>1. Left(r, c) \in Nat \ {0}
    BY <1>6, <1>11
  <2>2. Left(MinRow(e), MinCol(e)) = BoxSize(e)
    BY <1>7, <1>11, <1>12
  <2>3. Left(r, c + 1) = Left(r, c) - 1
    BY <1>8, <1>11
  <2>4. c = MaxCol(e) => Left(r + 1, MinCol(e)) = Left(r, c) - 1
    BY <1>9, <1>11
  <2>5. Left(r, c) = 1 <=> r = MaxRow(e) /\ c = MaxCol(e)
    BY <1>3, <1>10, <1>11
  <2> QED BY <2>1, <2>2, <2>3, <2>4, <2>5
<1> QED BY <1>13, Zenon DEF Left, w

(* The two loops of addEdgeToGrids call updateEdges once per cell of the   *)
(* box of the wall and then go on to the next wall.                        *)
THEOREM EachCellOnce ==
  Spec => [][/\ OpenEdge => CellsLeft' = BoxSize(Current)
             /\ Enter \/ Refuse =>
                  IF CellsLeft = 1
                  THEN pc' = "edges" /\ done' = done + 1
                  ELSE pc' = "cells" /\ done' = done /\ CellsLeft' = CellsLeft - 1
             /\ pc = "cells" => CellsLeft \in Nat \ {0}]_vars
<1>1. ASSUME TypeOK, EnteredSoFar, pc = "cells"
      PROVE  CellsLeft \in Nat \ {0}
  <2>1. Current \in Wall /\ i \in Rows(Current) /\ j \in Cols(Current)
    BY <1>1, DataAssumption DEF TypeOK, Current, EnteredSoFar
  <2> QED BY <2>1, BoxCounted DEF CellsLeft
<1>2. ASSUME TypeOK, OpenEdge
      PROVE  CellsLeft' = BoxSize(Current)
  <2>1. Current \in Wall /\ i' = MinRow(Current) /\ j' = MinCol(Current)
        /\ UNCHANGED <<map, done>>
    BY <1>2, DataAssumption DEF OpenEdge, msg, TypeOK, Current
  <2>2. ASSUME NEW e \in Wall, e = Current
        PROVE  CellsLeft' = (MaxRow(e) - MinRow(e)) * Width(e) + (MaxCol(e) - MinCol(e)) + 1
    BY <2>1, <2>2 DEF CellsLeft, Current, Width
  <2>3. MinRow(Current) \in Rows(Current) /\ MinCol(Current) \in Cols(Current)
    BY <2>1, BoxFacts DEF Rows, Cols
  <2> QED BY <2>1, <2>2, <2>3, BoxCounted
<1>3. ASSUME TypeOK, EnteredSoFar, Enter \/ Refuse
      PROVE  IF CellsLeft = 1
             THEN pc' = "edges" /\ done' = done + 1
             ELSE pc' = "cells" /\ done' = done /\ CellsLeft' = CellsLeft - 1
  <2>1. pc = "cells" /\ NextCell /\ UNCHANGED map
    BY <1>3 DEF Enter, Refuse, msg
  <2>2. Current \in Wall /\ i \in Rows(Current) /\ j \in Cols(Current)
    BY <1>3, <2>1, DataAssumption DEF TypeOK, Current, EnteredSoFar
  <2> DEFINE Left(a, b) == (MaxRow(Current) - a) * Width(Current) + (MaxCol(Current) - b) + 1
  <2>3. /\ Left(i, j + 1) = Left(i, j) - 1
        /\ j = MaxCol(Current) => Left(i + 1, MinCol(Current)) = Left(i, j) - 1
        /\ Left(i, j) = 1 <=> i = MaxRow(Current) /\ j = MaxCol(Current)
    BY <2>2, BoxCounted
  <2>4. /\ j <= MaxCol(Current) /\ i <= MaxRow(Current)
        /\ MaxCol(Current) \in Int /\ MaxRow(Current) \in Int /\ i \in Int /\ j \in Int
    BY <2>2, BoxFacts DEF Rows, Cols
  <2>5. CellsLeft = Left(i, j)
    BY DEF CellsLeft
  <2>6. done' = done => CellsLeft' = Left(i', j')
    BY <2>1 DEF CellsLeft, Current, Width
  <2> HIDE DEF Left
  <2>7. CASE j < MaxCol(Current)
    BY <2>1, <2>3, <2>4, <2>5, <2>6, <2>7 DEF NextCell
  <2>8. CASE ~(j < MaxCol(Current)) /\ i < MaxRow(Current)
    BY <2>1, <2>3, <2>4, <2>5, <2>6, <2>8 DEF NextCell
  <2>9. CASE ~(j < MaxCol(Current)) /\ ~(i < MaxRow(Current))
    BY <2>1, <2>3, <2>4, <2>5, <2>9 DEF NextCell
  <2> QED BY <2>7, <2>8, <2>9
<1> QED BY <1>1, <1>2, <1>3, TypeCorrect, EnteredInductive, PTL DEF Spec
=============================================================================
