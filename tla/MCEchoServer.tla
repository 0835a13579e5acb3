---------------------------- MODULE MCEchoServer ----------------------------
(* Two clients: a sets up a scene and runs it, b interferes.  The grid has *)
(* one cell and the engine one ray: what their parts do in themselves is   *)
(* checked in their own modules.                                           *)
EXTENDS EchoServer, TLC

CONSTANTS a, b, here, there

MCClients   == {a, b}
MCPositions == {here, there, NotSet}

MCWall == [x1 |-> 0, y1 |-> 0, x2 |-> 1, y2 |-> 1]
MCEdges == {MCWall}
MCJunk == {[N |-> 1, edges |-> [s \in 0 .. MAX_EDGE_GRID - 1 |->
              [x1 |-> 9, y1 |-> 9, x2 |-> 9, y2 |-> 9]], isContains |-> TRUE]}

At(w, p)   == [type |-> "vehicle", who |-> w, at |-> p]
Map(t, w)  == [type |-> t, walls |-> w]
Plain(t)   == [type |-> t]

MCRequests ==
  a :> {At("tx", here), At("rx", here), Plain("runVPL"), Plain("requireMapData")}
  @@
  b :> {At("tx", there), At("tx", NotSet), Map("mapData", <<MCWall>>)}
=============================================================================
