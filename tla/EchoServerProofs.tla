-------------------------- MODULE EchoServerProofs --------------------------
(***************************************************************************)
(* Proofs about EchoServer: during a run no client can change the scene,   *)
(* and rays start where the answer draws the transmitter; the server       *)
(* implements its parts, RayTracer and EdgeGrid, so that what is proved of *)
(* them holds in it; and it implements SceneService.                       *)
(***************************************************************************)
EXTENDS EchoServer, SequenceTheorems, TLAPS

(* Why: at most one handler is under way, and if it is a run, both         *)
(* positions were set; the start vectors follow the transmitter.           *)
Handler ==
  /\ serving = Nobody <=> pc = "idle" /\ gridPc = "idle"
  /\ pc = "idle" \/ gridPc = "idle"
Vectors ==
  /\ Tx # NotSet => txUpdateFlag /\ start = Tx
  /\ pc # "idle" => Tx # NotSet /\ Rx # NotSet
IInv == Handler /\ Vectors

(* A step inside a run neither ends it nor touches the start vectors.      *)
LEMMA TraceStepStays ==
  ASSUME TraceStep
  PROVE  /\ pc # "idle" /\ pc' # "idle" /\ gridPc' = gridPc
         /\ serving' = serving /\ txUpdateFlag' = txUpdateFlag
         /\ UNCHANGED scene /\ UNCHANGED grids
<1>1. UNCHANGED <<serving, scene, grid>>
  BY DEF TraceStep
<1>2. CASE Engine!RayStep
  <2> USE <1>2 DEF Engine!NextRay, Engine!OnRay
  <2>1. pc = "ray" /\ txUpdateFlag' = txUpdateFlag
    BY DEF Engine!RayStep, Engine!Reach, Engine!Reflect, Engine!ExceedReflect,
           Engine!Corner, Engine!ExceedCorner, Engine!Inside, Engine!Leave
  <2>2. pc' # "idle"
    BY DEF Engine!RayStep, Engine!Reach, Engine!Reflect, Engine!ExceedReflect,
           Engine!Corner, Engine!ExceedCorner, Engine!Inside, Engine!Leave
  <2> QED BY <1>1, <2>1, <2>2 DEF grid
<1>3. CASE Engine!ChildStep
  <2> USE <1>3 DEF Engine!NextChild, Engine!NextRay, Engine!OnChild
  <2>1. pc = "child" /\ txUpdateFlag' = txUpdateFlag
    BY DEF Engine!ChildStep, Engine!ChildReach, Engine!ChildReflect,
           Engine!ChildExceed, Engine!ChildInside, Engine!ChildLeave
  <2>2. pc' # "idle"
    BY DEF Engine!ChildStep, Engine!ChildReach, Engine!ChildReflect,
           Engine!ChildExceed, Engine!ChildInside, Engine!ChildLeave
  <2> QED BY <1>1, <2>1, <2>2 DEF grid
<1>4. CASE Engine!Overrun
  BY <1>1, <1>4 DEF grid, Engine!Overrun, Engine!OnRay, Engine!OnChild
<1> QED BY <1>2, <1>3, <1>4 DEF TraceStep

(* A step inside a map message does not end it.                            *)
LEMMA MapStepStays ==
  ASSUME MapStep
  PROVE  /\ gridPc # "idle" /\ gridPc' # "idle"
         /\ UNCHANGED <<serving, scene, pc, txUpdateFlag>>
<1>1. UNCHANGED <<serving, scene, pc, txUpdateFlag>>
  BY DEF MapStep, engine
<1>2. gridPc # "idle" /\ gridPc' # "idle"
  BY DEF MapStep, Grid!OpenEdge, Grid!Enter, Grid!Refuse, Grid!WriteOutside,
         Grid!NextCell
<1> QED BY <1>1, <1>2

(* The inductive invariant.                                                *)
THEOREM HandlersExclude == Spec => []IInv
<1>1. Init => IInv
  BY DEF Init, IInv, Handler, Vectors, Engine!Init, Grid!Init
<1>2. IInv /\ [Next]_vars => IInv'
  <2> SUFFICES ASSUME IInv, [Next]_vars PROVE IInv'
    OBVIOUS
  <2> USE DEF IInv, Handler, Vectors
  <2>1. CASE UNCHANGED vars
    BY <2>1 DEF vars, scene, engine, grid
  <2>2. CASE MapStep
    BY <2>2, MapStepStays DEF scene
  <2>3. CASE TraceStep
    BY <2>3, TraceStepStays DEF scene
  <2>4. CASE EndMap
    <3>1. gridPc # "idle" /\ gridPc' = "idle" /\ serving' = Nobody
      BY <2>4 DEF EndMap, Finish, Grid!Answer
    <3>2. UNCHANGED <<scene, pc, txUpdateFlag>>
      BY <2>4 DEF EndMap, engine
    <3> QED BY <3>1, <3>2 DEF scene
  <2>5. CASE EndRun
    <3>1. pc # "idle" /\ pc' = "idle" /\ serving' = Nobody
      BY <2>5 DEF EndRun, Finish, Engine!Collect
    <3>2. UNCHANGED <<scene, gridPc, txUpdateFlag>>
      BY <2>5 DEF EndRun, grid, Engine!Collect
    <3> QED BY <3>1, <3>2 DEF scene
  <2>6. ASSUME NEW c \in Clients, Client(c) \/ Disconnected(c)
        PROVE  IInv'
    <3>1. UNCHANGED <<serving, scene, engine, grid>>
      BY <2>6 DEF Client, Connect, Send, Close, Break, Disconnected
    <3> QED BY <3>1 DEF scene, engine, grid
  <2>7. ASSUME NEW c \in Clients, Serve(c)
        PROVE  IInv'
    <3> USE DEF scene, engine, grid
    <3>1. serving = Nobody /\ c # Nobody
      BY <2>7, ClientAssumption DEF Serve, CanServe, UpdateTx, UpdateRx, BeginMap,
         RefuseRun, BeginRun, Inform
    <3>2. CASE UpdateTx(c)
      BY <3>1, <3>2 DEF UpdateTx, Finish, Engine!UpdateTx
    <3>3. CASE UpdateRx(c)
      BY <3>1, <3>3 DEF UpdateRx, Finish
    <3>4. CASE BeginMap(c)
      BY <3>1, <3>4 DEF BeginMap, Grid!Receive
    <3>5. CASE RefuseRun(c)
      BY <3>1, <3>5 DEF RefuseRun, Finish
    <3>6. CASE BeginRun(c)
      BY <3>1, <3>6 DEF BeginRun, Placed, Engine!BeginRun
    <3>7. CASE Inform(c)
      BY <3>1, <3>7 DEF Inform, Finish
    <3> QED BY <2>7, <3>2, <3>3, <3>4, <3>5, <3>6, <3>7 DEF Serve
  <2> QED BY <2>1, <2>2, <2>3, <2>4, <2>5, <2>6, <2>7 DEF Next, Work
<1> QED BY <1>1, <1>2, PTL DEF Spec

(* A run only begins with allocated start vectors that lead from the       *)
(* transmitter the answer names.                                           *)
THEOREM RunsStartAtTx == Spec => []RaysStartAtTx
<1>1. IInv => RaysStartAtTx
  BY DEF IInv, Vectors, RaysStartAtTx
<1> QED BY <1>1, HandlersExclude, PTL

(* Whatever the clients send, one run sees one scene.                      *)
THEOREM RunsSeeOneScene == Spec => OneSceneARun
<1>1. IInv /\ [Next]_vars => [pc # "idle" => UNCHANGED <<scene, grids>>]_vars
  <2> SUFFICES ASSUME IInv, [Next]_vars, pc # "idle" PROVE UNCHANGED <<scene, grids>>
    OBVIOUS
  <2>1. serving # Nobody /\ gridPc = "idle"
    BY DEF IInv, Handler
  <2>2. CASE UNCHANGED vars
    BY <2>2 DEF vars, grid
  <2>3. CASE MapStep
    BY <2>1, <2>3, MapStepStays
  <2>4. CASE TraceStep
    BY <2>4, TraceStepStays
  <2>5. CASE EndMap
    BY <2>1, <2>5 DEF EndMap, Grid!Answer
  <2>6. CASE EndRun
    BY <2>6 DEF EndRun, grid
  <2>7. ASSUME NEW c \in Clients, Client(c) \/ Disconnected(c)
        PROVE  UNCHANGED <<scene, grids>>
    BY <2>7 DEF Client, Connect, Send, Close, Break, Disconnected, grid
  <2>8. ASSUME NEW c \in Clients, Serve(c)
        PROVE  UNCHANGED <<scene, grids>>
    BY <2>1, <2>8 DEF Serve, CanServe, UpdateTx, UpdateRx, BeginMap, RefuseRun,
       BeginRun, Inform
  <2> QED BY <2>2, <2>3, <2>4, <2>5, <2>6, <2>7, <2>8 DEF Next, Work
<1> QED BY <1>1, HandlersExclude, PTL DEF Spec, OneSceneARun

-----------------------------------------------------------------------------
(* The parts with the theorems about them.                                 *)
EngineThms == INSTANCE RayTracerProofs
GridThms   == INSTANCE EdgeGridProofs WITH pc <- gridPc

(* The engine RayTracerProofs is about is the server's.                    *)
LEMMA SameEngine == Engine!Spec => EngineThms!Spec
<1> USE DEF Engine!Rays, EngineThms!Rays, Engine!ChildSlots, EngineThms!ChildSlots,
            Engine!Index, EngineThms!Index, Engine!Empty, EngineThms!Empty,
            Engine!Started, EngineThms!Started,
            Engine!Mark, EngineThms!Mark, Engine!HasRoom, EngineThms!HasRoom,
            Engine!WithPoint, EngineThms!WithPoint, Engine!WithRx, EngineThms!WithRx,
            Engine!Step, EngineThms!Step, Engine!Ended, EngineThms!Ended,
            Engine!NextRay, EngineThms!NextRay, Engine!NextChild,
            EngineThms!NextChild,
            Engine!OnRay, EngineThms!OnRay, Engine!OnChild, EngineThms!OnChild,
            Engine!Current, EngineThms!Current, Engine!store, EngineThms!store,
            Engine!history, EngineThms!history, Engine!vars, EngineThms!vars
<1>1. Engine!Init => EngineThms!Init
  BY DEF Engine!Init, EngineThms!Init
<1>2. Engine!UpdateTx => EngineThms!UpdateTx
  BY DEF Engine!UpdateTx, EngineThms!UpdateTx
<1>3. Engine!BeginRun => EngineThms!BeginRun
  BY DEF Engine!BeginRun, EngineThms!BeginRun, Engine!Clean, EngineThms!Clean
<1>4. Engine!RayStep => EngineThms!RayStep
  <2>1. Engine!Reach => EngineThms!Reach
    BY DEF Engine!Reach, EngineThms!Reach
  <2>2. Engine!Reflect => EngineThms!Reflect
    BY DEF Engine!Reflect, EngineThms!Reflect
  <2>3. Engine!ExceedReflect => EngineThms!ExceedReflect
    BY DEF Engine!ExceedReflect, EngineThms!ExceedReflect
  <2>4. Engine!Corner => EngineThms!Corner
    BY DEF Engine!Corner, EngineThms!Corner
  <2>5. Engine!ExceedCorner => EngineThms!ExceedCorner
    BY DEF Engine!ExceedCorner, EngineThms!ExceedCorner
  <2>6. Engine!Inside => EngineThms!Inside
    BY DEF Engine!Inside, EngineThms!Inside
  <2>7. Engine!Leave => EngineThms!Leave
    BY DEF Engine!Leave, EngineThms!Leave
  <2> QED BY <2>1, <2>2, <2>3, <2>4, <2>5, <2>6, <2>7, Zenon
             DEF Engine!RayStep, EngineThms!RayStep
<1>5. Engine!ChildStep => EngineThms!ChildStep
  <2>1. Engine!ChildReach => EngineThms!ChildReach
    BY DEF Engine!ChildReach, EngineThms!ChildReach
  <2>2. Engine!ChildReflect => EngineThms!ChildReflect
    BY DEF Engine!ChildReflect, EngineThms!ChildReflect
  <2>3. Engine!ChildExceed => EngineThms!ChildExceed
    BY DEF Engine!ChildExceed, EngineThms!ChildExceed
  <2>4. Engine!ChildInside => EngineThms!ChildInside
    BY DEF Engine!ChildInside, EngineThms!ChildInside
  <2>5. Engine!ChildLeave => EngineThms!ChildLeave
    BY DEF Engine!ChildLeave, EngineThms!ChildLeave
  <2> QED BY <2>1, <2>2, <2>3, <2>4, <2>5, Zenon
             DEF Engine!ChildStep, EngineThms!ChildStep
<1>6. Engine!Overrun => EngineThms!Overrun
  BY DEF Engine!Overrun, EngineThms!Overrun
<1>7. Engine!Collect => EngineThms!Collect
  BY DEF Engine!Collect, EngineThms!Collect, Engine!ReportOf, EngineThms!ReportOf,
         Engine!Direct,
         EngineThms!Direct, Engine!PathsViaChildren, EngineThms!PathsViaChildren,
         Engine!Found, EngineThms!Found
<1>8. [Engine!Next]_(Engine!vars) => [EngineThms!Next]_(EngineThms!vars)
  BY <1>2, <1>3, <1>4, <1>5, <1>6, <1>7
     DEF Engine!Next, EngineThms!Next, Engine!TraceStep, EngineThms!TraceStep
<1> QED BY <1>1, <1>8, PTL DEF Engine!Spec, EngineThms!Spec

(* The grid EdgeGridProofs is about is the server's.                       *)
LEMMA SameGrid == Grid!Spec => GridThms!Spec
<1> USE DEF Grid!Cells, GridThms!Cells, Grid!Index, GridThms!Index, Grid!CellOf,
            GridThms!CellOf,
            Grid!Lesser, GridThms!Lesser, Grid!Greater, GridThms!Greater,
            Grid!MinRow, GridThms!MinRow, Grid!MaxRow, GridThms!MaxRow,
            Grid!MinCol, GridThms!MinCol, Grid!MaxCol, GridThms!MaxCol,
            Grid!Current, GridThms!Current, Grid!Cleared, GridThms!Cleared,
            Grid!HasRoom, GridThms!HasRoom, Grid!With, GridThms!With,
            Grid!NextCell, GridThms!NextCell, Grid!Maps, GridThms!Maps,
            Grid!loop, GridThms!loop, Grid!msg, GridThms!msg, Grid!vars,
            GridThms!vars
<1>1. Grid!Init => GridThms!Init
  BY DEF Grid!Init, GridThms!Init
<1>2. Grid!Message => GridThms!Message
  <2>1. \A k, m : Grid!Receive(k, m) => GridThms!Receive(k, m)
    BY DEF Grid!Receive, GridThms!Receive
  <2> QED BY <2>1, Zenon DEF Grid!Message, GridThms!Message
<1>3. Grid!OpenEdge => GridThms!OpenEdge
  BY DEF Grid!OpenEdge, GridThms!OpenEdge
<1>4. Grid!Enter => GridThms!Enter
  BY DEF Grid!Enter, GridThms!Enter
<1>5. Grid!Refuse => GridThms!Refuse
  BY DEF Grid!Refuse, GridThms!Refuse
<1>6. Grid!WriteOutside => GridThms!WriteOutside
  BY DEF Grid!WriteOutside, GridThms!WriteOutside
<1>7. Grid!Answer => GridThms!Answer
  BY DEF Grid!Answer, GridThms!Answer
<1>8. [Grid!Next]_(Grid!vars) => [GridThms!Next]_(GridThms!vars)
  BY <1>2, <1>3, <1>4, <1>5, <1>6, <1>7, Zenon
     DEF Grid!Next, GridThms!Next, Grid!Handle, GridThms!Handle
<1> QED BY <1>1, <1>8, PTL DEF Grid!Spec, GridThms!Spec

(* A step of the server is a step of the engine or leaves it alone.        *)
THEOREM ServerIsEngine == Spec => Engine!Spec
<1>1. Init => Engine!Init
  BY DEF Init
<1>2. [Next]_vars => [Engine!Next]_(Engine!vars)
  <2> SUFFICES ASSUME [Next]_vars PROVE [Engine!Next]_(Engine!vars)
    OBVIOUS
  <2>1. ASSUME UNCHANGED engine PROVE UNCHANGED Engine!vars
    BY <2>1 DEF engine, Engine!vars, Engine!store, Engine!history
  <2>2. CASE UNCHANGED vars
    BY <2>1, <2>2 DEF vars
  <2>3. CASE MapStep \/ EndMap
    BY <2>1, <2>3 DEF MapStep, EndMap
  <2>4. CASE TraceStep \/ EndRun
    BY <2>4 DEF TraceStep, EndRun, Engine!Next, Engine!TraceStep
  <2>5. ASSUME NEW c \in Clients, Client(c) \/ Disconnected(c)
        PROVE  [Engine!Next]_(Engine!vars)
    BY <2>1, <2>5 DEF Client, Connect, Send, Close, Break, Disconnected
  <2>6. ASSUME NEW c \in Clients, Serve(c)
        PROVE  [Engine!Next]_(Engine!vars)
    BY <2>1, <2>6 DEF Serve, UpdateTx, UpdateRx, BeginMap, RefuseRun, BeginRun,
                      Inform,
                      Engine!Next
  <2> QED BY <2>2, <2>3, <2>4, <2>5, <2>6 DEF Next, Work
<1> QED BY <1>1, <1>2, PTL DEF Spec, Engine!Spec

-----------------------------------------------------------------------------
(* What waits to be handled is what clients may send.  The message at the  *)
(* head is the one that is handled: while its handler runs it stays there, *)
(* whatever its client does.  A client that is gone has nothing waiting.   *)
Sendable == {m \in Message : m.type \in {"mapData",
"senario"} => m.walls \in Grid!Maps}
Queues ==
  /\ inbox \in [Clients -> Seq(Sendable)]
  /\ status \in [Clients -> {"closed", "open", "closing"}]
  /\ \A c \in Clients : status[c] = "closed" => inbox[c] = <<>>
  /\ DOMAIN outbox = Clients /\ \A c \in Clients : \E S : outbox[c] \in Seq(S)
  /\ sent \in Nat
AtHead ==
  /\ serving \in Clients \cup {Nobody}
  /\ serving # Nobody => inbox[serving] # <<>>
  /\ pc # "idle" => Request(serving).type = "runVPL"
  /\ gridPc # "idle" => /\ Request(serving).type \in {"mapData", "senario"}
                        /\ Request(serving).type = kind
                        /\ Request(serving).walls = map
Scenes  == {Tx, Rx, start} \subseteq Positions
SockInv == Queues /\ AtHead /\ Scenes

LEMMA QueueFacts ==
  ASSUME NEW S, NEW s \in Seq(S)
  PROVE  /\ \A x \in S : Append(s, x) \in Seq(S) /\ Append(s, x) # <<>>
                         /\ Len(Append(s, x)) = Len(s) + 1
                         /\ (s # <<>> => Head(Append(s, x)) = Head(s))
         /\ s # <<>> => /\ Tail(s) \in Seq(S) /\ Head(s) \in S
                        /\ <<Head(s)>> \in Seq(S) /\ <<Head(s)>> # <<>>
                        /\ Head(<<Head(s)>>) = Head(s)
         /\ <<>> \in Seq(S)
<1>1. \A x \in S : /\ Append(s, x) \in Seq(S) /\ Append(s, x) # <<>>
                   /\ Len(Append(s, x)) = Len(s) + 1
                   /\ (s # <<>> => Head(Append(s, x)) = Head(s))
  OBVIOUS
<1>2. ASSUME s # <<>>
      PROVE  /\ Tail(s) \in Seq(S) /\ Head(s) \in S
             /\ <<Head(s)>> \in Seq(S) /\ <<Head(s)>> # <<>>
             /\ Head(<<Head(s)>>) = Head(s)
  <2>1. Tail(s) \in Seq(S) /\ Head(s) \in S
    BY <1>2
  <2>2. <<Head(s)>> \in Seq(S) /\ <<Head(s)>> # <<>> /\ Head(<<Head(s)>>) = Head(s)
    BY <2>1
  <2> QED BY <2>1, <2>2
<1> QED BY <1>1, <1>2

LEMMA AnswerFacts ==
  ASSUME NEW S, NEW T, NEW s \in Seq(S), NEW a \in Seq(T)
  PROVE  /\ s \o a \in Seq(S \cup T) /\ Len(s \o a) = Len(s) + Len(a)
         /\ Service!IsPrefix(s, s \o a)
         /\ SubSeq(s \o a, Len(s) + 1, Len(s \o a)) = a
<1>1. s \in Seq(S \cup T) /\ a \in Seq(S \cup T)
  BY SeqMonotonic
<1>2. /\ s \o a \in Seq(S \cup T) /\ Len(s \o a) = Len(s) + Len(a)
      /\ \A k \in 1 .. Len(s) : (s \o a)[k] = s[k]
      /\ \A k \in 1 .. Len(a) : (s \o a)[Len(s) + k] = a[k]
  BY <1>1
<1>3. SubSeq(s, 1, Len(s)) = SubSeq(s \o a, 1, Len(s))
  BY <1>1, <1>2
<1>4. SubSeq(s \o a, Len(s) + 1, Len(s \o a)) = a
  BY <1>1, <1>2
<1> QED BY <1>2, <1>3, <1>4 DEF Service!IsPrefix

(* What an answer does to the sockets.                                     *)
LEMMA FinishInv ==
  ASSUME SockInv, NEW c \in Clients, inbox[c] # <<>>,
         NEW a, NEW T, a \in Seq(T), Finish(c, a), UNCHANGED sockets,
         pc' = "idle", gridPc' = "idle", Scenes'
  PROVE  SockInv'
<1> USE DEF SockInv
<1>1. Sendable' = Sendable
  BY DEF Sendable
<1>2. /\ inbox' \in [Clients -> Seq(Sendable)]
      /\ \A d \in Clients : inbox[d] = <<>> => inbox'[d] = <<>>
  BY QueueFacts DEF Queues, Finish
<1>3. DOMAIN outbox' = Clients /\ \A d \in Clients : \E S : outbox'[d] \in Seq(S)
  <2>1. CASE outbox' = outbox
    BY <2>1 DEF Queues
  <2>2. CASE outbox' = [outbox EXCEPT ![c] = @ \o a]
    <3>1. PICK S : outbox[c] \in Seq(S)
      BY DEF Queues
    <3>2. outbox'[c] \in Seq(S \cup T)
      BY <2>2, <3>1, AnswerFacts DEF Queues
    <3> QED BY <2>2, <3>2 DEF Queues
  <2> QED BY <2>1, <2>2 DEF Finish
<1>4. Queues'
  BY <1>1, <1>2, <1>3 DEF Queues, sockets
<1>5. AtHead'
  BY DEF AtHead, Finish
<1> QED BY <1>4, <1>5

LEMMA SockInitial == Init => SockInv
<1> SUFFICES ASSUME Init PROVE SockInv
  OBVIOUS
<1>1. <<>> \in Seq(Sendable) /\ <<>> \in Seq({})
  OBVIOUS
<1>2. Queues
  BY <1>1 DEF Init, Queues
<1>3. AtHead /\ Scenes
  BY ClientAssumption DEF Init, AtHead, Scenes, Engine!Init, Grid!Init
<1> QED BY <1>2, <1>3 DEF SockInv

LEMMA ClientSteps ==
  ASSUME SockInv, IInv, NEW c \in Clients, Client(c) \/ Disconnected(c)
  PROVE  SockInv'
<1> USE DEF SockInv
<1>1. UNCHANGED <<serving, scene, engine, grid, lastMap>> /\ Sendable' = Sendable
  BY DEF Client, Connect, Send, Close, Break, Disconnected, Sendable
<1>2. Scenes'
  BY <1>1 DEF Scenes, scene
<1>3. CASE Connect(c)
  <2>1. <<>> \in Seq({})
    OBVIOUS
  <2>2. Queues'
    BY <1>1, <1>3, <2>1 DEF Connect, Queues
  <2> QED BY <1>1, <1>2, <1>3, <2>2 DEF Connect, AtHead, Request, engine, grid
<1>4. CASE Send(c)
  <2>1. PICK m \in Sendable : inbox' = [inbox EXCEPT ![c] = Append(@, m)]
    BY <1>4, RequestAssumption DEF Send, Sendable
  <2>2. Queues'
    BY <1>1, <1>4, <2>1, QueueFacts DEF Send, Queues
  <2>3. \A d \in Clients : inbox[d] # <<>> => /\ inbox'[d] # <<>>
                                              /\ Head(inbox'[d]) = Head(inbox[d])
    BY <2>1, QueueFacts DEF Queues
  <2>4. AtHead'
    BY <1>1, <2>3 DEF AtHead, Request, engine, grid, IInv, Handler
  <2> QED BY <1>2, <2>2, <2>4
<1>5. CASE Close(c)
  BY <1>1, <1>2, <1>5 DEF Close, Queues, AtHead, Request, engine, grid
<1>6. CASE Break(c)
  <2>1. Queues'
    BY <1>1, <1>6, QueueFacts, ClientAssumption DEF Break, Queues, AtHead
  <2>2. serving # Nobody => /\ inbox'[serving] # <<>>
                            /\ Head(inbox'[serving]) = Head(inbox[serving])
    BY <1>6, QueueFacts DEF Break, Queues, AtHead
  <2>4. AtHead'
    BY <1>1, <2>2 DEF AtHead, Request, engine, grid, IInv, Handler
  <2> QED BY <1>2, <2>1, <2>4
<1>7. CASE Disconnected(c)
  BY <1>1, <1>2, <1>7 DEF Disconnected, Queues, AtHead, Request, engine, grid
<1> QED BY <1>3, <1>4, <1>5, <1>6, <1>7 DEF Client

LEMMA WorkSteps ==
  ASSUME SockInv, IInv, Work
  PROVE  SockInv'
<1> USE DEF SockInv
<1>1. CASE MapStep
  <2>1. UNCHANGED <<sockets, inbox, outbox, serving, scene, pc, kind, map>>
    BY <1>1 DEF MapStep, engine, Grid!OpenEdge, Grid!Enter, Grid!Refuse,
                Grid!WriteOutside, Grid!msg
  <2>2. gridPc # "idle"
    BY <1>1, MapStepStays
  <2> QED BY <2>1, <2>2 DEF Queues, AtHead, Scenes, sockets, scene, Request, Sendable
<1>2. CASE TraceStep
  <2>1. UNCHANGED <<sockets, inbox, outbox, serving, scene, kind, map, gridPc>>
    BY <1>2 DEF TraceStep, grid
  <2>2. pc # "idle"
    BY <1>2, TraceStepStays
  <2> QED BY <2>1, <2>2 DEF Queues, AtHead, Scenes, sockets, scene, Request, Sendable
<1>3. CASE EndMap
  <2>1. /\ serving \in Clients /\ inbox[serving] # <<>>
        /\ pc' = "idle" /\ gridPc' = "idle"
        /\ Scenes' /\ UNCHANGED sockets
    BY <1>3 DEF EndMap, Grid!Answer, engine, IInv, Handler, AtHead, Scenes, scene
  <2>2. \E T, a : a \in Seq(T) /\ Finish(serving, a)
    <3> DEFINE u == [type |-> "updateMapData", state |-> updateFlag]
    <3>1. <<Log, u>> \in Seq({Log, u}) /\ <<>> \in Seq({})
      OBVIOUS
    <3>2. Finish(serving, <<Log, u>>) \/ Finish(serving, <<>>)
      BY <1>3 DEF EndMap
    <3> QED BY <3>1, <3>2
  <2> QED BY <2>1, <2>2, FinishInv
<1>4. CASE EndRun
  <2>1. /\ serving \in Clients /\ inbox[serving] # <<>>
        /\ pc' = "idle" /\ gridPc' = "idle"
        /\ Scenes' /\ UNCHANGED sockets
    BY <1>4 DEF EndRun, Engine!Collect, grid, IInv, Handler, AtHead, Scenes, scene
  <2>2. <<Output>> \in Seq({Output}) /\ Finish(serving, <<Output>>)
    BY <1>4 DEF EndRun
  <2> QED BY <2>1, <2>2, FinishInv
<1> QED BY <1>1, <1>2, <1>3, <1>4 DEF Work

LEMMA ServeSteps ==
  ASSUME SockInv, IInv, NEW c \in Clients, Serve(c)
  PROVE  SockInv'
<1> USE DEF SockInv, CanServe
<1>1. serving = Nobody /\ inbox[c] # <<>> /\ pc = "idle" /\ gridPc = "idle"
  BY DEF Serve, UpdateTx, UpdateRx, BeginMap, RefuseRun, BeginRun, Inform, IInv,
         Handler
<1>2. Request(c) \in Message
  BY <1>1, QueueFacts DEF Queues, Request, Sendable
<1>3. \A x : <<x>> \in Seq({x})
  OBVIOUS
<1>4. CASE UpdateTx(c)
  <2>1. Request(c).at \in Positions
    BY <1>2, <1>4 DEF UpdateTx, Message, Vehicle, MapData, Other
  <2>2. Scenes' /\ pc' = "idle" /\ gridPc' = "idle" /\ UNCHANGED sockets
    BY <1>1, <1>4, <2>1 DEF UpdateTx, Engine!UpdateTx, grid, Scenes
  <2> QED BY <1>1, <1>3, <1>4, <2>2, FinishInv DEF UpdateTx
<1>5. CASE UpdateRx(c)
  <2>1. Request(c).at \in Positions
    BY <1>2, <1>5 DEF UpdateRx, Message, Vehicle, MapData, Other
  <2>2. Scenes' /\ pc' = "idle" /\ gridPc' = "idle" /\ UNCHANGED sockets
    BY <1>1, <1>5, <2>1 DEF UpdateRx, engine, grid, Scenes
  <2> QED BY <1>1, <1>3, <1>5, <2>2, FinishInv DEF UpdateRx
<1>6. CASE BeginMap(c)
  <2>1. AtHead'
    BY <1>1, <1>6 DEF BeginMap, Grid!Receive, engine, AtHead, Request
  <2> QED BY <1>6, <2>1 DEF BeginMap, Queues, Scenes, sockets, scene, Sendable
<1>7. CASE RefuseRun(c)
  <2>2. Scenes' /\ pc' = "idle" /\ gridPc' = "idle" /\ UNCHANGED sockets
    BY <1>1, <1>7 DEF RefuseRun, engine, grid, Scenes, scene
  <2> QED BY <1>1, <1>3, <1>7, <2>2, FinishInv DEF RefuseRun
<1>8. CASE BeginRun(c)
  <2>1. AtHead'
    BY <1>1, <1>8 DEF BeginRun, Engine!BeginRun, grid, AtHead, Request
  <2> QED BY <1>8, <2>1 DEF BeginRun, Queues, Scenes, sockets, scene, Sendable
<1>9. CASE Inform(c)
  <2>1. Scenes' /\ pc' = "idle" /\ gridPc' = "idle" /\ UNCHANGED sockets
    BY <1>1, <1>9 DEF Inform, engine, grid, Scenes, scene
  <2>2. \E T : Answer(Request(c)) \in Seq(T)
    <3>1. Answer(Request(c)) = <<>> \/ \E x : Answer(Request(c)) = <<x>>
      BY DEF Answer
    <3>2. <<>> \in Seq({})
      OBVIOUS
    <3> QED BY <1>3, <3>1, <3>2
  <2> QED BY <1>1, <1>9, <2>1, <2>2, FinishInv DEF Inform
<1> QED BY <1>4, <1>5, <1>6, <1>7, <1>8, <1>9 DEF Serve

LEMMA SockInvariance == Spec => []SockInv
<1>1. SockInv /\ IInv /\ [Next]_vars => SockInv'
  <2>1. SockInv /\ UNCHANGED vars => SockInv'
    BY DEF SockInv, Queues, AtHead, Scenes, vars, sockets, scene, engine, grid,
           Request,
           Sendable
  <2> QED BY <2>1, ClientSteps, WorkSteps, ServeSteps DEF Next
<1> QED BY SockInitial, <1>1, HandlersExclude, PTL DEF Spec

(* A step of the server is a step of the grid or leaves it alone.          *)
THEOREM ServerIsGrid == Spec => Grid!Spec
<1>1. Init => Grid!Init
  BY DEF Init
<1>2. SockInv /\ [Next]_vars => [Grid!Next]_(Grid!vars)
  <2> SUFFICES ASSUME SockInv, [Next]_vars PROVE [Grid!Next]_(Grid!vars)
    OBVIOUS
  <2>1. ASSUME UNCHANGED grid PROVE UNCHANGED Grid!vars
    BY <2>1 DEF grid, Grid!vars, Grid!loop, Grid!msg
  <2>2. CASE UNCHANGED vars
    BY <2>1, <2>2 DEF vars
  <2>3. CASE MapStep \/ EndMap
    BY <2>3 DEF MapStep, EndMap, Grid!Next, Grid!Handle
  <2>4. CASE TraceStep \/ EndRun
    BY <2>1, <2>4 DEF TraceStep, EndRun
  <2>5. ASSUME NEW c \in Clients, Client(c) \/ Disconnected(c)
        PROVE  [Grid!Next]_(Grid!vars)
    BY <2>1, <2>5 DEF Client, Connect, Send, Close, Break, Disconnected
  <2>6. ASSUME NEW c \in Clients, BeginMap(c)
        PROVE  [Grid!Next]_(Grid!vars)
    <3>1. Request(c) \in Sendable
      BY <2>6, QueueFacts DEF SockInv, Queues, BeginMap, CanServe, Request
    <3>2. Grid!Message
      BY <2>6, <3>1 DEF BeginMap, Sendable, Grid!Message
    <3> QED BY <3>2 DEF Grid!Next
  <2>7. ASSUME NEW c \in Clients, Serve(c)
        PROVE  [Grid!Next]_(Grid!vars)
    BY <2>1, <2>6, <2>7 DEF Serve, UpdateTx, UpdateRx, RefuseRun, BeginRun, Inform
  <2> QED BY <2>2, <2>3, <2>4, <2>5, <2>7 DEF Next, Work
<1> QED BY <1>1, <1>2, SockInvariance, PTL DEF Spec, Grid!Spec

-----------------------------------------------------------------------------
(* What is proved of the parts alone holds of them in the server: a ray    *)
(* with empty arrays is reported exactly, and the engine stays inside its  *)
(* arrays in the first runs, whatever the clients send between the runs.   *)
THEOREM EngineInServer ==
  Spec => [](Engine!TypeOK /\ Engine!ExactWhenClean /\ Engine!NoEarlyOverrun)
<1>1. Spec => /\ []EngineThms!TypeOK /\ []EngineThms!ExactWhenClean
              /\ []EngineThms!NoEarlyOverrun
  <2>1. EngineThms!Spec => []EngineThms!TypeOK
    BY EngineThms!TypeCorrect, EngineAssumption
       DEF EngineThms!NAssumption, EngineThms!RunsAssumption,
           EngineThms!BoundAssumption
  <2>2. EngineThms!Spec => []EngineThms!ExactWhenClean
    BY EngineThms!ResultExact, EngineAssumption
       DEF EngineThms!NAssumption, EngineThms!RunsAssumption,
           EngineThms!BoundAssumption
  <2>3. EngineThms!Spec => []EngineThms!NoEarlyOverrun
    BY EngineThms!NoOverrunInFirstRuns, EngineAssumption
       DEF EngineThms!NAssumption, EngineThms!RunsAssumption,
           EngineThms!BoundAssumption
  <2> QED BY <2>1, <2>2, <2>3, ServerIsEngine, SameEngine, PTL
<1>2. EngineThms!TypeOK => Engine!TypeOK
  BY DEF EngineThms!TypeOK, Engine!TypeOK, EngineThms!Rays, Engine!Rays,
         EngineThms!Path, Engine!Path,
         EngineThms!ChildSlots, Engine!ChildSlots, EngineThms!Tag, Engine!Tag,
         EngineThms!Kinds, Engine!Kinds,
         EngineThms!Walk, Engine!Walk, EngineThms!Ends, Engine!Ends
<1>3. EngineThms!ExactWhenClean => Engine!ExactWhenClean
  BY DEF EngineThms!ExactWhenClean, Engine!ExactWhenClean, EngineThms!Rays,
         Engine!Rays,
         EngineThms!ExpectedOf, Engine!ExpectedOf, EngineThms!Direct, Engine!Direct,
         EngineThms!Index, Engine!Index
<1>4. EngineThms!NoEarlyOverrun => Engine!NoEarlyOverrun
  BY DEF EngineThms!NoEarlyOverrun, Engine!NoEarlyOverrun
<1> QED BY <1>1, <1>2, <1>3, <1>4, PTL

(* The grid is typed in the server, its cells are well formed, it keeps    *)
(* nothing of older maps and loses no wall except to a full cell, whichever*)
(* clients sent the maps and whatever else they asked for in between.      *)
THEOREM GridInServer ==
  Spec => []( /\ Grid!TypeOK /\ Grid!CellsWellFormed
              /\ Grid!NoOldWalls /\ Grid!EveryWallEntered )
<1> USE DEF GridThms!Cells, Grid!Cells, GridThms!Walls, Grid!Walls,
            GridThms!Contents, Grid!Contents,
            GridThms!InMap, Grid!InMap
<1>0. GridThms!SizeAssumption /\ GridThms!DataAssumption /\ GridThms!LimitAssumption
  BY GridAssumption DEF GridThms!SizeAssumption, GridThms!DataAssumption,
                        GridThms!LimitAssumption,
     GridThms!Wall, Grid!Wall, GridThms!Cell, Grid!Cell, GridThms!Places, Grid!Places
<1>1. Spec => /\ []GridThms!TypeOK /\ []GridThms!CellsWellFormed
              /\ []GridThms!NoOldWalls /\ []GridThms!EveryWallEntered
  <2>1. GridThms!Spec => []GridThms!TypeOK
    BY <1>0, GridThms!TypeCorrect
  <2>2. GridThms!Spec => []GridThms!CellsWellFormed
    BY <1>0, GridThms!CellsCorrect
  <2>3. GridThms!Spec => []GridThms!NoOldWalls
    BY <1>0, GridThms!OldWallsGone
  <2>4. GridThms!Spec => []GridThms!EveryWallEntered
    BY <1>0, GridThms!WallsAreEntered
  <2> QED BY <2>1, <2>2, <2>3, <2>4, ServerIsGrid, SameGrid, PTL
<1>2. GridThms!TypeOK => Grid!TypeOK
  BY DEF GridThms!TypeOK, Grid!TypeOK, GridThms!Wall, Grid!Wall, GridThms!Cell,
         Grid!Cell,
         GridThms!Places, Grid!Places
<1>3. GridThms!CellsWellFormed => Grid!CellsWellFormed
  BY DEF GridThms!CellsWellFormed, Grid!CellsWellFormed
<1>4. GridThms!NoOldWalls => Grid!NoOldWalls
  BY DEF GridThms!NoOldWalls, Grid!NoOldWalls
<1>5. GridThms!EveryWallEntered => Grid!EveryWallEntered
  BY DEF GridThms!EveryWallEntered, Grid!EveryWallEntered, GridThms!EnteredAtPoints,
         Grid!EnteredAtPoints, GridThms!Entered, Grid!Entered, GridThms!Index,
         Grid!Index,
         GridThms!CellOf, Grid!CellOf, GridThms!Lesser, Grid!Lesser,
         GridThms!Greater, Grid!Greater
<1> QED BY <1>1, <1>2, <1>3, <1>4, <1>5, PTL

(* The variables of server and parts hold values of their kind.            *)
THEOREM TypeCorrect == Spec => []TypeOK
<1>1. SockInv /\ IInv /\ Engine!TypeOK /\ Grid!TypeOK => TypeOK
  <2> SUFFICES ASSUME SockInv, IInv, Engine!TypeOK, Grid!TypeOK PROVE TypeOK
    OBVIOUS
  <2>1. \A c \in Clients : inbox[c] \in Seq(Message)
    BY SeqMonotonic DEF SockInv, Queues, Sendable
  <2> QED BY <2>1 DEF SockInv, Queues, AtHead, Scenes, IInv, Handler, TypeOK
<1> QED BY <1>1, SockInvariance, HandlersExclude, EngineInServer, GridInServer, PTL

-----------------------------------------------------------------------------
(* The map the clients were told of last is the one in the grid, unless    *)
(* the next is being entered.                                              *)
Seen ==
  /\ gridPc # "idle" => maps > 0
  /\ gridPc = "idle" /\ lastMap # NoMap => maps > 0 /\ lastMap = map

LEMMA SeenInv == Spec => []Seen
<1>1. Init => Seen
  BY DEF Init, Grid!Init, Seen
<1>2. Seen /\ IInv /\ Grid!TypeOK /\ [Next]_vars => Seen'
  <2> SUFFICES ASSUME Seen, IInv, Grid!TypeOK, [Next]_vars PROVE Seen'
    OBVIOUS
  <2> USE DEF Seen
  <2>1. CASE UNCHANGED <<gridPc, maps, map, lastMap>>
    BY <2>1
  <2>2. CASE MapStep
    BY <2>2, MapStepStays
       DEF MapStep, Grid!OpenEdge, Grid!Enter, Grid!Refuse, Grid!WriteOutside,
           Grid!msg
  <2>3. CASE EndMap
    BY <2>3 DEF EndMap, Grid!Answer, Grid!msg
  <2>4. ASSUME NEW c \in Clients, BeginMap(c) PROVE Seen'
    BY <2>4 DEF BeginMap, Grid!Receive, Grid!TypeOK
  <2>5. CASE TraceStep \/ EndRun
    BY <2>1, <2>5 DEF TraceStep, EndRun, grid
  <2>6. ASSUME NEW c \in Clients, Client(c) \/ Disconnected(c) PROVE Seen'
    BY <2>1, <2>6 DEF Client, Connect, Send, Close, Break, Disconnected, grid
  <2>7. ASSUME NEW c \in Clients, Serve(c) PROVE Seen'
    BY <2>1, <2>4, <2>7 DEF Serve, UpdateTx, UpdateRx, RefuseRun, BeginRun,
                            Inform, grid
  <2>8. CASE UNCHANGED vars
    BY <2>1, <2>8 DEF vars, grid
  <2> QED BY <2>2, <2>3, <2>5, <2>6, <2>7, <2>8 DEF Next, Work
<1> QED BY <1>1, <1>2, HandlersExclude, GridInServer, PTL DEF Spec

(* A handler that returns has handled the message at the head as if in one *)
(* step, if what it leaves is the scene the message asks for.              *)
LEMMA FinishHandles ==
  ASSUME SockInv, NEW c \in Clients, inbox[c] # <<>>,
         NEW a, NEW T, a \in Seq(T), Finish(c, a), UNCHANGED status,
         Service!IsAnswer(a, Request(c)),
         Tx' = IF Request(c).type = "vehicle" /\ Request(c).who = "tx"
               THEN Request(c).at ELSE Tx,
         Rx' = IF Request(c).type = "vehicle" /\ Request(c).who = "rx"
               THEN Request(c).at ELSE Rx,
         lastMap' = IF Request(c).type \in {"mapData", "senario"}
                    THEN Request(c).walls ELSE lastMap
  PROVE  Service!Handle(c)
<1>1. CASE status[c] = "open"
  <2>1. PICK S : outbox[c] \in Seq(S)
    BY DEF SockInv, Queues
  <2>2. outbox' = [outbox EXCEPT ![c] = @ \o a] /\ outbox'[c] = outbox[c] \o a
    BY <1>1 DEF Finish, SockInv, Queues
  <2>3. /\ Service!IsPrefix(outbox[c], outbox'[c])
        /\ SubSeq(outbox'[c], Len(outbox[c]) + 1, Len(outbox'[c])) = a
        /\ outbox' = [outbox EXCEPT ![c] = outbox'[c]]
    <3>1. /\ Service!IsPrefix(outbox[c], outbox[c] \o a)
          /\ SubSeq(outbox[c] \o a, Len(outbox[c]) + 1, Len(outbox[c] \o a)) = a
      <4> DEFINE old == outbox[c]
      <4>1. old \in Seq(S) /\ a \in Seq(T)
        BY <2>1
      <4> HIDE DEF old
      <4>2. Service!IsPrefix(old, old \o a)
        BY <4>1, AnswerFacts, Zenon
      <4>3. Len(old \o a) = Len(old) + Len(a)
        BY <4>1
      <4>4. SubSeq(old \o a, Len(old) + 1, Len(old \o a)) = a
        <5>1. old \in Seq(S \cup T) /\ a \in Seq(S \cup T)
          BY <4>1, SeqMonotonic
        <5> QED BY <5>1, <4>3
      <4> QED BY <4>2, <4>4 DEF old
    <3> QED BY <2>2, <3>1
  <2> QED BY <1>1, <2>3 DEF Service!Handle, Finish, Request
<1>2. CASE status[c] # "open"
  BY <1>2 DEF Service!Handle, Finish, Request
<1> QED BY <1>1, <1>2

(* A client's message is appended to its queue, a broken connection cuts   *)
(* the queue off.                                                          *)
LEMMA PrefixFacts ==
  ASSUME NEW S, NEW s \in Seq(S)
  PROVE  /\ \A x \in S : Service!IsPrefix(s, Append(s, x))
         /\ Service!IsPrefix(s, s) /\ Service!IsPrefix(<<>>, s)
         /\ s # <<>> => Service!IsPrefix(<<Head(s)>>, s)
<1>1. ASSUME NEW x \in S PROVE Service!IsPrefix(s, Append(s, x))
  <2>1. Append(s, x) = s \o <<x>> /\ <<x>> \in Seq(S)
    BY AppendIsConcat
  <2>2. Service!IsPrefix(s, s \o <<x>>)
    BY <2>1, AnswerFacts, Zenon
  <2> QED BY <2>1, <2>2
<1>2. Service!IsPrefix(s, s) /\ Service!IsPrefix(<<>>, s)
  BY DEF Service!IsPrefix
<1>3. ASSUME s # <<>> PROVE Service!IsPrefix(<<Head(s)>>, s)
  <2>1. s = <<Head(s)>> \o Tail(s) /\ <<Head(s)>> \in Seq(S) /\ Tail(s) \in Seq(S)
    BY <1>3, HeadTailProperties
  <2>2. Service!IsPrefix(<<Head(s)>>, <<Head(s)>> \o Tail(s))
    BY <2>1, AnswerFacts, Zenon
  <2> QED BY <2>1, <2>2
<1> QED BY <1>1, <1>2, <1>3

LEMMA ClientsOfService ==
  ASSUME SockInv, NEW c \in Clients, Client(c) \/ Disconnected(c)
  PROVE  Service!Next
<1> USE DEF SockInv, Queues, scene
<1>1. CASE Connect(c)
  BY <1>1 DEF Connect, Service!Next, Service!Connect
<1>2. CASE Send(c)
  <2>1. PICK m \in Sendable : inbox' = [inbox EXCEPT ![c] = Append(@, m)]
    BY <1>2, RequestAssumption DEF Send, Sendable
  <2>2. inbox'[c] = Append(inbox[c], m) /\ inbox' = [inbox EXCEPT ![c] = inbox'[c]]
    BY <2>1
  <2>3. Len(inbox'[c]) = Len(inbox[c]) + 1 /\ Service!IsPrefix(inbox[c], inbox'[c])
    <3>1. inbox[c] \in Seq(Sendable)
      OBVIOUS
    <3>2. Service!IsPrefix(inbox[c], Append(inbox[c], m))
      BY <2>1, <3>1, PrefixFacts, Zenon
    <3>3. Len(Append(inbox[c], m)) = Len(inbox[c]) + 1
      BY <3>1
    <3> QED BY <2>2, <3>2, <3>3
  <2> QED BY <1>2, <2>2, <2>3 DEF Send, Service!Next, Service!Send
<1>3. CASE Close(c)
  <2>1. /\ inbox' = [inbox EXCEPT ![c] = inbox'[c]]
        /\ Service!IsPrefix(inbox'[c], inbox[c])
    BY <1>3, PrefixFacts DEF Close
  <2> QED BY <1>3, <2>1 DEF Close, Service!Next, Service!Leave
<1>4. CASE Break(c)
  <2>1. /\ inbox' = [inbox EXCEPT ![c] = inbox'[c]]
        /\ Service!IsPrefix(inbox'[c], inbox[c])
    BY <1>4, PrefixFacts, ClientAssumption DEF Break, AtHead
  <2> QED BY <1>4, <2>1 DEF Break, Service!Next, Service!Leave
<1>5. CASE Disconnected(c)
  BY <1>5 DEF Disconnected, Service!Next, Service!Forget
<1> QED BY <1>1, <1>2, <1>3, <1>4, <1>5 DEF Client

(* A message handled in one step.                                          *)
LEMMA ServesOfService ==
  ASSUME SockInv, IInv, NEW c \in Clients, Serve(c)
  PROVE  Service!Next \/ UNCHANGED Service!vars
<1> USE DEF CanServe
<1>1. inbox[c] # <<>>
  BY DEF Serve, UpdateTx, UpdateRx, BeginMap, RefuseRun, BeginRun, Inform
<1>2. \A x : <<x>> \in Seq({x})
  OBVIOUS
<1>3. CASE UpdateTx(c)
  <2>1. Service!IsAnswer(<<Log>>, Request(c))
    BY <1>3 DEF UpdateTx, Service!IsAnswer, Service!Log, Log
  <2>2. Service!Handle(c)
    BY <1>1, <1>2, <1>3, <2>1, FinishHandles DEF UpdateTx, sockets
  <2> QED BY <2>2 DEF Service!Next
<1>4. CASE UpdateRx(c)
  <2>1. Service!IsAnswer(<<Log>>, Request(c))
    BY <1>4 DEF UpdateRx, Service!IsAnswer, Service!Log, Log
  <2>2. Service!Handle(c)
    BY <1>1, <1>2, <1>4, <2>1, FinishHandles DEF UpdateRx, sockets
  <2> QED BY <2>2 DEF Service!Next
<1>5. CASE BeginMap(c) \/ BeginRun(c)
  BY <1>5 DEF BeginMap, BeginRun, sockets, scene, Service!vars
<1>6. CASE RefuseRun(c)
  <2> DEFINE a == <<[type |-> IF Placed THEN "output" ELSE "Rays", state |-> 0]>>
  <2>1. ~Placed
    BY <1>6 DEF RefuseRun, Placed, IInv, Vectors
  <2>2. a = <<[type |-> "Rays", state |-> 0]>>
    BY <2>1
  <2>3. Service!IsAnswer(a, Request(c))
    BY <1>6, <2>1, <2>2 DEF RefuseRun, Placed, Service!IsAnswer
  <2>4. Finish(c, a)
    BY <1>6 DEF RefuseRun
  <2>5. a \in Seq({[type |-> IF Placed THEN "output" ELSE "Rays", state |-> 0]})
    BY <1>2
  <2>6. UNCHANGED <<status, Tx, Rx, lastMap>> /\ Request(c).type = "runVPL"
    BY <1>6 DEF RefuseRun, sockets, scene
  <2> HIDE DEF a
  <2>7. Service!Handle(c)
    BY <1>1, <2>3, <2>4, <2>5, <2>6, FinishHandles
  <2> QED BY <2>7 DEF Service!Next
<1>7. CASE Inform(c)
  <2>1. Request(c) \in Message
    BY <1>1, QueueFacts DEF SockInv, Queues, Request, Sendable
  <2>2. Service!IsAnswer(Answer(Request(c)), Request(c))
    BY <1>7, <2>1 DEF Inform, Changing, Answer, Service!IsAnswer, Service!Log, Log,
       Service!Empty
  <2>3. \E T : Answer(Request(c)) \in Seq(T)
    <3>1. Answer(Request(c)) = <<>> \/ \E x : Answer(Request(c)) = <<x>>
      BY DEF Answer
    <3>2. <<>> \in Seq({})
      OBVIOUS
    <3> QED BY <1>2, <3>1, <3>2
  <2>4. UNCHANGED <<status, Tx, Rx, lastMap>> /\ Finish(c, Answer(Request(c)))
        /\ ~(Request(c).type = "vehicle" /\ Request(c).who \in {"tx", "rx"})
        /\ Request(c).type \notin {"mapData", "senario"}
    BY <1>7 DEF Inform, Changing, sockets, scene
  <2>5. Service!Handle(c)
    BY <1>1, <2>2, <2>3, <2>4, FinishHandles
  <2> QED BY <2>5 DEF Service!Next
<1> QED BY <1>3, <1>4, <1>5, <1>6, <1>7 DEF Serve

(* A message handled in many steps: the last one is the service's.         *)
LEMMA WorkOfService ==
  ASSUME SockInv, IInv, Seen, Grid!TypeOK, Grid!NoOldWalls, Work
  PROVE  Service!Next \/ UNCHANGED Service!vars
<1>1. CASE MapStep \/ TraceStep
  BY <1>1 DEF MapStep, TraceStep, sockets, scene, Service!vars
<1>2. CASE EndMap
  <2> DEFINE u == [type |-> "updateMapData", state |-> updateFlag]
             a == IF kind = "mapData" THEN <<Log, u>> ELSE <<>>
  <2>1. /\ serving \in Clients /\ inbox[serving] # <<>>
        /\ Request(serving).type \in {"mapData", "senario"}
        /\ Request(serving).type = kind /\ Request(serving).walls = map
    BY <1>2 DEF EndMap, Grid!Answer, IInv, Handler, SockInv, AtHead
  <2>2. Finish(serving, a)
    BY <1>2 DEF EndMap
  <2>3. Service!IsAnswer(a, Request(serving))
    BY <2>1 DEF Service!IsAnswer, Service!Log, Log, Grid!TypeOK
  <2>4. \E T : a \in Seq(T)
    <3>1. <<Log, u>> \in Seq({Log, u}) /\ <<>> \in Seq({})
      OBVIOUS
    <3> QED BY <3>1
  <2>5. UNCHANGED <<status, Tx, Rx>> /\ lastMap' = map
    BY <1>2 DEF EndMap, sockets, scene
  <2> HIDE DEF a
  <2>6. Service!Handle(serving)
    BY <2>1, <2>2, <2>3, <2>4, <2>5, FinishHandles
  <2> QED BY <2>1, <2>6 DEF Service!Next
<1>3. CASE EndRun
  <2>1. /\ serving \in Clients /\ inbox[serving] # <<>>
        /\ Request(serving).type = "runVPL"
        /\ Tx # NotSet /\ Rx # NotSet /\ start = Tx /\ gridPc = "idle"
    BY <1>3 DEF EndRun, Engine!Collect, IInv, Handler, Vectors, SockInv, AtHead
  <2>2. Finish(serving, <<Output>>) /\ <<Output>> \in Seq({Output})
    BY <1>3 DEF EndRun
  <2>3. lastMap # NoMap => Output.walls \subseteq Service!ToSet(lastMap)
    BY <2>1 DEF Output, Seen, Grid!NoOldWalls, Grid!InMap, Service!ToSet, Grid!TypeOK
  <2>4. Service!IsAnswer(<<Output>>, Request(serving))
    BY <2>1, <2>3 DEF Service!IsAnswer, Output
  <2>5. UNCHANGED <<status, Tx, Rx, lastMap>>
    BY <1>3 DEF EndRun, sockets, scene
  <2>6. Service!Handle(serving)
    BY <2>1, <2>2, <2>4, <2>5, FinishHandles
  <2> QED BY <2>1, <2>6 DEF Service!Next
<1> QED BY <1>1, <1>2, <1>3 DEF Work

(* To its clients the server is SceneService.                              *)
THEOREM ServerIsService == Spec => ImplementsSceneService
<1>1. Init => Service!Init
  BY DEF Init, Service!Init
<1>2. SockInv /\ IInv /\ Seen /\ Grid!TypeOK /\ Grid!NoOldWalls /\ [Next]_vars
        => [Service!Next]_(Service!vars)
  <2>1. UNCHANGED vars => UNCHANGED Service!vars
    BY DEF vars, sockets, scene, Service!vars
  <2> QED BY <2>1, ClientsOfService, ServesOfService, WorkOfService DEF Next
<1> QED BY <1>1, <1>2, SockInvariance, HandlersExclude, SeenInv, GridInServer, PTL
        DEF Spec, ImplementsSceneService, Service!Spec
=============================================================================
