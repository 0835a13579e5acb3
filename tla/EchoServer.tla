----------------------------- MODULE EchoServer -----------------------------
(***************************************************************************)
(* The WebSocket server (Demo1/src/echoserver.cpp) with the facade         *)
(* RayTracingCUDA (Demo1/RayTracingCUDA.h), composed of the wall map       *)
(* (EdgeGrid) and the engine (RayTracer).  All clients share the one       *)
(* facade and engine.                                                      *)
(*                                                                         *)
(* The server runs in one event loop.  A message is taken from a socket    *)
(* and handled to its end; handling a map or a run takes many steps here,  *)
(* during which other clients go on sending, leaving and coming back.  A   *)
(* position is a value; NotSet stands for every position that has -100 as  *)
(* a coordinate, which the code uses for a position that was not set but   *)
(* which a client may send as well.                                        *)
(***************************************************************************)
EXTENDS Integers, Sequences

CONSTANTS
  Clients, Nobody,
  Positions, NotSet,   \* positions of a vehicle
  NoMap,               \* history: no map was handled yet
  Requests,            \* Requests[c]: the messages client c may send
  MaxSend,             \* bound of the model: messages sent in all
  N, MaxReflect, MaxAfterDiffraction, Slots, MaxRuns,         \* of RayTracer
  ROW, COL, LENGTH, MAX_EDGE_GRID, Edges, Junk, MaxLen, MaxMaps \* of EdgeGrid

VARIABLES
  status,      \* of each client's socket: closed, open, closing
  inbox,       \* what the client sent and the server has not handled
  outbox,      \* what the server answered on this connection
  serving,     \* the client whose message is being handled, or Nobody
  Tx, Rx,      \* RayTracingCUDA.Tx_x, Tx_y and Rx_x, Rx_y
  start        \* where the rays of RayTracing.myVector start

(* History: the walls of the last map handled, messages sent so far.       *)
VARIABLES lastMap, sent

VARIABLES txUpdateFlag, points, diffractionPoints, pc, ray, child, getResult,
          leaked, run, walk, childWalk, dirty
VARIABLES grids, gridPc, done, i, j, flag, updateFlag, reply, kind, map, maps,
          refused

Engine == INSTANCE RayTracer
Grid   == INSTANCE EdgeGrid WITH pc <- gridPc

ASSUME ClientAssumption == Nobody \notin Clients /\ NotSet \in Positions
ASSUME RoomAssumption   == MaxSend <= MaxRuns /\ MaxSend <= MaxMaps
ASSUME EngineAssumption ==
  /\ N \in Nat \ {0} /\ MaxRuns \in Nat
  /\ MaxReflect \in Nat \ {0} /\ MaxAfterDiffraction \in Nat /\ Slots \in Nat
  /\ MaxAfterDiffraction <= MaxReflect /\ MaxReflect + 1 < Slots
ASSUME GridAssumption ==
  /\ ROW \in Nat \ {0} /\ COL \in Nat \ {0} /\ LENGTH \in Nat \ {0}
  /\ MAX_EDGE_GRID \in Nat \ {0} /\ MaxLen \in Nat /\ MaxMaps \in Nat
  /\ Edges \subseteq Grid!Wall /\ Junk \subseteq Grid!Cell

sockets == <<status, sent>>
scene   == <<Tx, Rx, start>>
engine  == <<txUpdateFlag, points, diffractionPoints, pc, ray, child, getResult,
             leaked, run, walk, childWalk, dirty>>
grid    == <<grids, gridPc, done, i, j, flag, updateFlag, reply, kind, map, maps,
             refused>>
vars == <<sockets, inbox, outbox, serving, scene, lastMap, engine, grid>>

Vehicle == [type : {"vehicle"}, who : {"tx", "rx", "car"}, at : Positions]
MapData == [type : {"mapData", "senario"}, walls : Seq(Edges)]
Other   == [type : {"runVPL", "runMap", "getMap", "requireMapData",
                    "readCUDAInformation", "unknown"}]
Message == Vehicle \cup MapData \cup Other

ASSUME RequestAssumption ==
  \A c \in Clients : \A m \in Requests[c] :
    m \in Message /\ (m.type \in {"mapData", "senario"} => m.walls \in Grid!Maps)

Log == [type |-> "logOutput"]

Init ==
  /\ status = [c \in Clients |-> "closed"]
  /\ inbox = [c \in Clients |-> <<>>] /\ outbox = [c \in Clients |-> <<>>]
  /\ serving = Nobody
  /\ Tx = NotSet /\ Rx = NotSet /\ start = NotSet
  /\ lastMap = NoMap /\ sent = 0
  /\ Engine!Init /\ Grid!Init

-----------------------------------------------------------------------------
(* The clients.  They act at any time, whatever the server is doing.       *)

(* The page is loaded, or loaded again; onNewConnection adds the socket.   *)
Connect(c) ==
  /\ status[c] = "closed"
  /\ status' = [status EXCEPT ![c] = "open"]
  /\ outbox' = [outbox EXCEPT ![c] = <<>>]
  /\ UNCHANGED <<inbox, sent, serving, scene, lastMap, engine, grid>>

Send(c) ==
  /\ status[c] = "open" /\ sent < MaxSend
  /\ \E m \in Requests[c] : inbox' = [inbox EXCEPT ![c] = Append(@, m)]
  /\ sent' = sent + 1
  /\ UNCHANGED <<status, outbox, serving, scene, lastMap, engine, grid>>

(* The page is closed: what it sent before still arrives.                  *)
Close(c) ==
  /\ status[c] = "open"
  /\ status' = [status EXCEPT ![c] = "closing"]
  /\ UNCHANGED <<inbox, outbox, sent, serving, scene, lastMap, engine, grid>>

(* The connection breaks: only the message being handled was read.         *)
(* (A definition named ..._Mutant is a plausible mistake in the one after  *)
(* it; it is no part of the specification and serves to show that a        *)
(* property can fail.)                                                     *)
Break_Mutant(c) ==
  /\ status[c] = "open"
  /\ status' = [status EXCEPT ![c] = "closing"]
  /\ inbox' = [inbox EXCEPT ![c] = <<>>]
  /\ UNCHANGED <<outbox, sent, serving, scene, lastMap, engine, grid>>

Break(c) ==
  /\ status[c] = "open"
  /\ status' = [status EXCEPT ![c] = "closing"]
  /\ inbox' = [inbox EXCEPT ![c] = IF serving = c THEN <<Head(@)>> ELSE <<>>]
  /\ UNCHANGED <<outbox, sent, serving, scene, lastMap, engine, grid>>

-----------------------------------------------------------------------------
(* The server.                                                             *)

(* The event loop takes up a message only when it has handled the last.    *)
CanServe(c) == serving = Nobody /\ inbox[c] # <<>>
Request(c)  == Head(inbox[c])

(* The handler of c's message returns after sending the answers a.  What   *)
(* is sent to a client that is gone is lost.                               *)
Finish_Mutant(c, a) ==
  /\ inbox' = [inbox EXCEPT ![c] = Tail(@)]
  /\ outbox' = [d \in Clients |->
                  IF status[d] = "open" THEN outbox[d] \o a ELSE outbox[d]]
  /\ serving' = Nobody

Finish(c, a) ==
  /\ inbox' = [inbox EXCEPT ![c] = Tail(@)]
  /\ outbox' = IF status[c] = "open" THEN [outbox EXCEPT ![c] = @ \o a]
                                     ELSE outbox
  /\ serving' = Nobody

(* socketDisconnected                                                      *)
Disconnected(c) ==
  /\ serving = Nobody /\ status[c] = "closing" /\ inbox[c] = <<>>
  /\ status' = [status EXCEPT ![c] = "closed"]
  /\ UNCHANGED <<inbox, outbox, sent, serving, scene, lastMap, engine, grid>>

(* updateVehicle                                                           *)
UpdateTx_Mutant(c) ==
  /\ CanServe(c) /\ Request(c).type = "vehicle" /\ Request(c).who = "tx"
  /\ Tx' = Request(c).at
  /\ start' = IF txUpdateFlag THEN start ELSE Request(c).at
  /\ Engine!UpdateTx
  /\ Finish(c, <<Log>>)
  /\ UNCHANGED <<sockets, Rx, lastMap, grid>>

UpdateTx(c) ==
  /\ CanServe(c) /\ Request(c).type = "vehicle" /\ Request(c).who = "tx"
  /\ Tx' = Request(c).at /\ start' = Request(c).at
  /\ Engine!UpdateTx
  /\ Finish(c, <<Log>>)
  /\ UNCHANGED <<sockets, Rx, lastMap, grid>>

UpdateRx(c) ==
  /\ CanServe(c) /\ Request(c).type = "vehicle" /\ Request(c).who = "rx"
  /\ Rx' = Request(c).at
  /\ Finish(c, <<Log>>)
  /\ UNCHANGED <<sockets, Tx, start, lastMap, engine, grid>>

(* updateMapData and updateScene, step by step in EdgeGrid.                *)
BeginMap_Mutant(c) ==
  /\ inbox[c] # <<>> /\ Request(c).type \in {"mapData", "senario"}
  /\ Grid!Receive(Request(c).type, Request(c).walls)
  /\ serving' = c
  /\ UNCHANGED <<sockets, inbox, outbox, scene, lastMap, engine>>

BeginMap(c) ==
  /\ CanServe(c) /\ Request(c).type \in {"mapData", "senario"}
  /\ Grid!Receive(Request(c).type, Request(c).walls)
  /\ serving' = c
  /\ UNCHANGED <<sockets, inbox, outbox, scene, lastMap, engine>>

MapStep ==
  /\ Grid!OpenEdge \/ Grid!Enter \/ Grid!Refuse \/ Grid!WriteOutside
  /\ UNCHANGED <<sockets, inbox, outbox, serving, scene, lastMap, engine>>

EndMap ==
  /\ Grid!Answer
  /\ Finish(serving,
            IF kind = "mapData"
            THEN <<Log, [type |-> "updateMapData", state |-> updateFlag]>>
            ELSE <<>>)
  /\ lastMap' = map
  /\ UNCHANGED <<sockets, scene, engine>>

(* VPL: without both positions the answer is of type "Rays"; beginCUDA     *)
(* does not run either while the engine is not ready.                      *)
Placed == Tx # NotSet /\ Rx # NotSet

RefuseRun(c) ==
  /\ CanServe(c) /\ Request(c).type = "runVPL"
  /\ ~(Placed /\ txUpdateFlag)
  /\ Finish(c, <<[type |-> IF Placed THEN "output" ELSE "Rays", state |-> 0]>>)
  /\ UNCHANGED <<sockets, scene, lastMap, engine, grid>>

BeginRun(c) ==
  /\ CanServe(c) /\ Request(c).type = "runVPL"
  /\ Placed /\ Engine!BeginRun
  /\ serving' = c
  /\ UNCHANGED <<sockets, inbox, outbox, scene, lastMap, grid>>

TraceStep ==
  /\ Engine!RayStep \/ Engine!ChildStep \/ Engine!Overrun
  /\ UNCHANGED <<sockets, inbox, outbox, serving, scene, lastMap, grid>>

(* An answer to a run is told by the scene it belongs to: the node all its *)
(* paths begin with, where the rays started, the receiver, and the walls   *)
(* the engine saw.                                                         *)
Output ==
  [type |-> "output", state |-> 1, first |-> Tx, from |-> start, to |-> Rx,
   walls |-> UNION {Grid!Walls(k) : k \in Grid!Cells}]

EndRun ==
  /\ Engine!Collect
  /\ Finish(serving, <<Output>>)
  /\ UNCHANGED <<sockets, scene, lastMap, grid>>

(* Messages that leave the state alone.  A vehicle that is neither tx nor  *)
(* rx is acknowledged only; runMap fills a grid of its own, never freed,   *)
(* and does not run; requireMapData reads the array mygrid, into which no  *)
(* wall is ever entered; readCUDAInformation gets one line from the CPU    *)
(* engine and answers only if there are more than five.                    *)
Changing(m) ==
  \/ m.type \in {"mapData", "senario", "runVPL"}
  \/ m.type = "vehicle" /\ m.who \in {"tx", "rx"}
Answer(m) ==
  CASE m.type = "vehicle"        -> <<Log>>
    [] m.type = "runMap"         -> <<[type |-> "output", state |-> 0]>>
    [] m.type = "getMap"         -> <<[type |-> "inputMap"]>>
    [] m.type = "requireMapData" -> <<[type |-> "mapDataGet", data |-> <<>>]>>
    [] OTHER                     -> <<>>

Inform_Mutant(c) ==
  /\ CanServe(c) /\ ~Changing(Request(c)) /\ status[c] = "open"
  /\ Finish(c, Answer(Request(c)))
  /\ UNCHANGED <<sockets, scene, lastMap, engine, grid>>

Inform(c) ==
  /\ CanServe(c) /\ ~Changing(Request(c))
  /\ Finish(c, Answer(Request(c)))
  /\ UNCHANGED <<sockets, scene, lastMap, engine, grid>>

Client(c) == Connect(c) \/ Send(c) \/ Close(c) \/ Break(c)
Serve(c)  == \/ UpdateTx(c) \/ UpdateRx(c)
             \/ BeginMap(c) \/ RefuseRun(c) \/ BeginRun(c) \/ Inform(c)
Work      == MapStep \/ EndMap \/ TraceStep \/ EndRun

Next == Work \/ \E c \in Clients : Client(c) \/ Serve(c) \/ Disconnected(c)

(* A handler runs on by itself.  The event loop polls all sockets in each  *)
(* turn, so a message that can be taken up again and again is taken up.    *)
Spec     == Init /\ [][Next]_vars
FairSpec == Spec /\ WF_vars(Work) /\ \A c \in Clients : SF_vars(Serve(c))

-----------------------------------------------------------------------------
(* Properties.                                                             *)

TypeOK ==
  /\ status \in [Clients -> {"closed", "open", "closing"}]
  /\ \A c \in Clients : /\ inbox[c] \in Seq(Message)
                        /\ status[c] = "closed" => inbox[c] = <<>>
  /\ DOMAIN outbox = Clients
  /\ serving \in Clients \cup {Nobody}
  /\ serving # Nobody <=> pc # "idle" \/ gridPc # "idle"
  /\ pc = "idle" \/ gridPc = "idle"
  /\ serving # Nobody => inbox[serving] # <<>>
  /\ {Tx, Rx, start} \subseteq Positions
  /\ sent \in Nat
  /\ Engine!TypeOK /\ Grid!TypeOK

(* While the engine traces, the scene it traces in does not change, though *)
(* other clients send positions and maps: the rays of one run see one grid *)
(* and one receiver.                                                       *)
OneSceneARun ==
  [][pc # "idle" => UNCHANGED <<scene, grids>>]_vars

(* The engine is entered only with start vectors that were allocated, and  *)
(* they lead from where the answer draws the transmitter.                  *)
RaysStartAtTx == pc # "idle" => txUpdateFlag /\ start = Tx /\ Tx # NotSet

(* To its clients the server is SceneService: messages are handled one at  *)
(* a time, each client's in order, in the common scene, and whoever asked  *)
(* is answered, once.                                                      *)
Service == INSTANCE SceneService WITH tx <- Tx, rx <- Rx, map <- lastMap
ImplementsSceneService == Service!Spec

(* Every message that reached the server is handled, or what the model     *)
(* says about it has ended in an array overrun.                            *)
Undefined == pc = "undefined" \/ gridPc = "undefined"
MessagesHandled ==
  \A c \in Clients : inbox[c] # <<>> ~> inbox[c] = <<>> \/ Undefined

(* MyRayTracingCPUcpp.cpp:770 says of the grid a run works on: if fewer    *)
(* walls are passed in, all the other cells are set to empty.  So a run    *)
(* finds no cell that nothing has set.                                     *)
CellsSetBeforeRun == pc # "idle" => maps > 0
=============================================================================
