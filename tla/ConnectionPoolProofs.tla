------------------------ MODULE ConnectionPoolProofs ------------------------
(***************************************************************************)
(* Proofs about ConnectionPool: for any number of handlers, connections    *)
(* and pieces of requests, a handler is busy for exactly one reason, a     *)
(* request is of one client, every open connection has its own timer, and  *)
(* every accepted one is in the hands of one handler, which waits for no   *)
(* client but that of its own open connection.                             *)
(***************************************************************************)
EXTENDS ConnectionPool, TLAPS

(* A handler that does not exist is as the constructor would leave it; one *)
(* that has stopped, or is past disconnectFromHost, has no connection.     *)
Blank(h) ==
  /\ pc[h] = "none" <=> h \notin pool
  /\ pc[h] = "none" => ~busy[h] /\ h \notin failed /\ request[h] = {}
  /\ ~Runs(h) => pending[h] = <<>> /\ timer[h] = "off"
  /\ pc[h] \in {"none", "stopped", "end"} => sock[h] = NoConn
  /\ sock[h] = NoConn => unsent[h] = "none"
  /\ pc[h] = "stopped" => quitting[h]
  /\ quitting[h] => deleting = h

Reason(h) ==
  /\ busy[h] = (pending[h] # <<>> \/ sock[h] # NoConn \/ h \in failed)
  /\ ~(pending[h] # <<>> /\ sock[h] # NoConn)
  /\ ~(pending[h] # <<>> /\ h \in failed)
  /\ ~(sock[h] # NoConn /\ h \in failed)
  /\ Len(pending[h]) <= 1
  /\ deleting = h /\ ~closing => ~busy[h]

Connected(h) ==
  sock[h] # NoConn => /\ request[h] \subseteq {sock[h]}
                      /\ pc[h] = "loop" => timer[h] = "own"
                      /\ timer[h] # "old"

HandlerInv(h) == Blank(h) /\ (Runs(h) => Reason(h) /\ Connected(h))
IInv == TypeOK /\ \A h \in Handlers : HandlerInv(h)

-----------------------------------------------------------------------------
LEMMA InitIInv == Init => IInv
<1> SUFFICES ASSUME Init PROVE IInv
  OBVIOUS
<1> USE PoolAssumption DEF Init
<1>1. TypeOK
  <2>1. \A S : <<>> \in Seq(S)
    OBVIOUS
  <2>2. pending \in [Handlers -> Seq(Conns)] /\ inbox \in [Conns -> Seq(Pieces)]
    BY <2>1
  <2>3. left \in 0 .. MaxPieces
    OBVIOUS
  <2> QED BY <2>2, <2>3 DEF TypeOK, Whys
<1>2. \A h \in Handlers : HandlerInv(h)
  BY DEF HandlerInv, Blank, Runs
<1> QED BY <1>1, <1>2 DEF IInv

(* Every step keeps the types.                                             *)
LEMMA ClientType ==
  ASSUME TypeOK, NEW c \in Conns,
         Leave(c) \/ (\E p \in Pieces : Send(c, p))
  PROVE  TypeOK'
<1> USE PoolAssumption DEF TypeOK, main, socket, slots
<1>1. CASE Leave(c)
  BY <1>1 DEF Leave
<1>2. ASSUME NEW p \in Pieces, Send(c, p) PROVE TypeOK'
  BY <1>2 DEF Send
<1> QED BY <1>1, <1>2

LEMMA MainType ==
  ASSUME TypeOK, Main
  PROVE  TypeOK'
<1> USE PoolAssumption DEF TypeOK, main, socket, slots, clients
<1>1. ASSUME NEW c \in Conns, NEW h \in Handlers, Assign(c, h) PROVE TypeOK'
  BY <1>1 DEF Assign
<1>2. ASSUME NEW c \in Conns, NEW h \in Handlers, Create(c, h) PROVE TypeOK'
  BY <1>2 DEF Create, MainFree
<1>3. ASSUME NEW c \in Conns, Reject(c) PROVE TypeOK'
  BY <1>3 DEF Reject
<1>4. CASE Cleanup
  BY <1>4 DEF Cleanup, Delete, Idle
<1>5. CASE Deleted
  BY <1>5 DEF Deleted
<1>6. CASE Close
  BY <1>6 DEF Close
<1>7. CASE DeletePool
  BY <1>7 DEF DeletePool, Delete
<1> QED BY <1>1, <1>2, <1>3, <1>4, <1>5, <1>6, <1>7 DEF Main

LEMMA SlotType ==
  ASSUME TypeOK, NEW h \in Handlers, Slot(h)
  PROVE  TypeOK'
<1> USE PoolAssumption DEF TypeOK, main, socket, slots, clients
<1>1. CASE HandleConnection(h)
  BY <1>1 DEF HandleConnection
<1>2. CASE HandleFails(h)
  BY <1>2 DEF HandleFails, Dispose
<1>3. CASE ClientGone(h)
  BY <1>3 DEF ClientGone, Disconnected, Dispose
<1>4. CASE ReadPiece(h)
  <2> DEFINE c == sock[h]
  <2>1. /\ c \in Conns /\ inbox[c] \in Seq(Pieces) /\ inbox[c] # <<>>
        /\ inbox' = [inbox EXCEPT ![c] = Tail(@)]
        /\ request' = [request EXCEPT ![h] = @ \cup {c}]
        /\ UNCHANGED <<main, busy, pending, sock, quitting, conn, left, gone, failed>>
    BY <1>4 DEF ReadPiece
  <2>2. inbox' \in [Conns -> Seq(Pieces)] /\ request' \in [Handlers -> SUBSET Conns]
    BY <2>1
  <2> DEFINE SlotsOK ==
        /\ timer' \in [Handlers -> {"off", "own", "old"}]
        /\ pc' \in [Handlers -> {"none", "loop", "service", "drain", "end", "stopped"}]
        /\ why' \in [Handlers -> Whys]
        /\ unsent' \in [Handlers -> {"none", "some", "much"}]
  <2>3. SlotsOK
    <3>1. CASE /\ timer' \in {timer, [timer EXCEPT ![h] = "own"]}
               /\ UNCHANGED <<slots, unsent>>
      BY <3>1
    <3>2. CASE /\ Enter(h, "drain", "abort") /\ UNCHANGED timer
               /\ unsent' = [unsent EXCEPT ![h] = "some"]
      BY <3>2 DEF Enter, Whys
    <3>3. ASSUME NEW size \in {"some", "much"}, unsent' = [unsent EXCEPT ![h] = size],
                 Enter(h, "service", "request"), timer' = [timer EXCEPT ![h] = "off"]
          PROVE  SlotsOK
      BY <3>3 DEF Enter, Whys
    <3> QED BY <1>4, <3>1, <3>2, <3>3 DEF ReadPiece
  <2>4. below' \in [Handlers -> BOOLEAN]
    <3>1. InTimeout(h) \in BOOLEAN
      BY DEF InTimeout
    <3> QED BY <1>4, <3>1 DEF ReadPiece, Enter
  <2> QED BY <2>1, <2>2, <2>3, <2>4
<1>5. CASE KeepAlive(h)
  BY <1>5 DEF KeepAlive, Return, Whys
<1>6. CASE CloseAfter(h)
  BY <1>6 DEF CloseAfter, Whys
<1>7. CASE ReadTimeout(h)
  BY <1>7 DEF ReadTimeout, Whys
<1>8. CASE Hangup(h)
  <2>1. CASE sock[h] = NoConn
    BY <1>8, <2>1 DEF Hangup
  <2>2. CASE sock[h] # NoConn
    <3>1. sock[h] \in Conns /\ Disconnected(h) /\ pc' = [pc EXCEPT ![h] = "end"]
          /\ UNCHANGED <<main, pending, request, why, below, quitting, left, failed>>
      BY <1>8, <2>2 DEF Hangup
    <3> QED BY <3>1 DEF Disconnected, Dispose
  <2> QED BY <2>1, <2>2
<1>9. CASE EndOfSlot(h)
  BY <1>9 DEF EndOfSlot, Return, Whys
<1>10. CASE Stop(h)
  <2>1. CASE sock[h] = NoConn
    <3>1. /\ pc' = [pc EXCEPT ![h] = "stopped"] /\ timer' = [timer EXCEPT ![h] = "off"]
          /\ pending' = [pending EXCEPT ![h] = <<>>]
          /\ UNCHANGED <<socket, busy, conn, inbox, gone>>
          /\ UNCHANGED <<main, request, why, below, quitting, left, failed>>
      BY <1>10, <2>1 DEF Stop
    <3> QED BY <3>1
  <2>2. CASE sock[h] # NoConn
    <3>1. /\ sock[h] \in Conns /\ Disconnected(h)
          /\ pc' = [pc EXCEPT ![h] = "stopped"] /\ pending' = [pending EXCEPT ![h] = <<>>]
          /\ UNCHANGED <<main, request, why, below, quitting, left, failed>>
      BY <1>10, <2>2 DEF Stop
    <3> QED BY <3>1 DEF Disconnected, Dispose
  <2> QED BY <2>1, <2>2
<1> QED BY <1>1, <1>2, <1>3, <1>4, <1>5, <1>6, <1>7, <1>8, <1>9, <1>10 DEF Slot

LEMMA WrittenType ==
  ASSUME TypeOK, NEW h \in Handlers, Written(h)
  PROVE  TypeOK'
<1> QED BY DEF Written, TypeOK, main, slots, clients

LEMMA NextType ==
  ASSUME TypeOK, [Next]_vars
  PROVE  TypeOK'
<1>1. CASE UNCHANGED vars
  BY <1>1 DEF TypeOK, vars, main, socket, slots, clients
<1> QED BY <1>1, ClientType, MainType, SlotType, WrittenType DEF Next

-----------------------------------------------------------------------------
(* What a client does is no business of a handler's.                       *)
LEMMA ClientInv ==
  ASSUME IInv, NEW c \in Conns, Leave(c) \/ (\E p \in Pieces : Send(c, p)),
         NEW h \in Handlers
  PROVE  HandlerInv(h)'
<1>1. UNCHANGED <<main, busy, pending, socket, timer, request, slots, quitting, failed>>
  BY DEF Leave, Send
<1> QED BY <1>1 DEF IInv, main, socket, slots, HandlerInv, Blank, Runs, Reason,
                    Connected

LEMMA GivenReason ==
  ASSUME NEW g, busy'[g] = TRUE, pending'[g] # <<>>, Len(pending'[g]) = 1,
         sock'[g] = NoConn, g \notin failed', deleting' # g
  PROVE  Reason(g)'
<1>1. busy'[g] = (pending'[g] # <<>> \/ sock'[g] # NoConn \/ g \in failed')
  BY Zenon
<1>2. Len(pending'[g]) <= 1
  OBVIOUS
<1> QED BY <1>1, <1>2, Zenon DEF Reason

(* The main thread gives connections to idle handlers only, and waits for  *)
(* none that it can still give one to.                                     *)
LEMMA MainInv ==
  ASSUME IInv, Main, NEW h \in Handlers
  PROVE  HandlerInv(h)'
<1> USE PoolAssumption DEF IInv, TypeOK, main, socket, slots, HandlerInv, Blank, Runs,
                           Reason, Connected
<1>1. ASSUME NEW c \in Conns, NEW g \in Handlers, Assign(c, g) PROVE HandlerInv(h)'
  <2>1. pc[g] \notin {"none", "stopped"} /\ ~busy[g] /\ pending[g] = <<>>
    BY <1>1 DEF Assign, Idle, MainFree
  <2>2. CASE h = g
    <3>1. pending'[g] # <<>> /\ Len(pending'[g]) = 1
      BY <1>1, <2>1 DEF Assign
    <3>2. busy'[g] = TRUE /\ sock[g] = NoConn /\ g \notin failed
      BY <1>1, <2>1 DEF Assign
    <3>3. pc' = pc /\ deleting # g /\ UNCHANGED <<main, quitting, failed, socket, timer>>
      BY <1>1 DEF Assign, MainFree
    <3>4. Reason(g)'
      BY <3>1, <3>2, <3>3, GivenReason
    <3>5. Blank(g)'
      BY <2>1, <3>2, <3>3
    <3>6. Connected(g)'
      BY <3>2, <3>3
    <3> QED BY <2>2, <3>4, <3>5, <3>6
  <2>3. CASE h # g
    BY <1>1, <2>3 DEF Assign
  <2> QED BY <2>2, <2>3
<1>2. ASSUME NEW c \in Conns, NEW g \in Handlers, Create(c, g) PROVE HandlerInv(h)'
  <2>1. Len(<<c>>) = 1 /\ <<c>> # <<>>
    OBVIOUS
  <2>2. CASE h = g
    <3>1. pending'[g] # <<>> /\ Len(pending'[g]) = 1
      BY <1>2, <2>1 DEF Create
    <3>2. busy'[g] = TRUE /\ pc'[g] = "loop" /\ g \in pool'
      BY <1>2 DEF Create
    <3>3. sock[g] = NoConn /\ g \notin failed /\ ~quitting[g] /\ deleting # g
      BY <1>2 DEF Create, MainFree
    <3>4. deleting' # g /\ UNCHANGED <<quitting, failed, socket, timer>>
      BY <1>2, <3>3 DEF Create
    <3>5. Reason(g)'
      BY <3>1, <3>2, <3>3, <3>4, GivenReason
    <3> QED BY <2>2, <3>2, <3>3, <3>4, <3>5
  <2>3. CASE h # g
    BY <1>2, <2>3 DEF Create
  <2> QED BY <2>2, <2>3
<1>3. ASSUME NEW c \in Conns, Reject(c) PROVE HandlerInv(h)'
  BY <1>3 DEF Reject
<1>4. CASE Cleanup
  <2> PICK g \in Idle : Delete(g)
    BY <1>4 DEF Cleanup
  <2>1. g \in Handlers /\ MainFree /\ busy[g] = FALSE /\ UNCHANGED closing
    BY <1>4 DEF Cleanup, Idle
  <2>2. CASE h = g
    BY <2>1, <2>2 DEF Delete, MainFree
  <2>3. CASE h # g
    BY <2>1, <2>3 DEF Delete, MainFree
  <2> QED BY <2>2, <2>3
<1>5. CASE Deleted
  <2>1. CASE h = deleting
    BY <1>5, <2>1 DEF Deleted
  <2>2. CASE h # deleting
    BY <1>5, <2>2 DEF Deleted
  <2> QED BY <2>1, <2>2
<1>6. CASE Close
  BY <1>6 DEF Close
<1>7. CASE DeletePool
  <2> PICK g \in pool : Delete(g)
    BY <1>7 DEF DeletePool
  <2>1. g \in Handlers /\ MainFree /\ closing /\ UNCHANGED closing
    BY <1>7 DEF DeletePool
  <2>2. CASE h = g
    BY <2>1, <2>2 DEF Delete, MainFree
  <2>3. CASE h # g
    BY <2>1, <2>3 DEF Delete, MainFree
  <2> QED BY <2>2, <2>3
<1> QED BY <1>1, <1>2, <1>3, <1>4, <1>5, <1>6, <1>7 DEF Main

(* A slot concerns its own handler.                                        *)
LEMMA SlotOwn ==
  ASSUME TypeOK, NEW g \in Handlers, Slot(g), NEW h \in Handlers, h # g
  PROVE  /\ busy'[h] = busy[h] /\ pending'[h] = pending[h]
         /\ sock'[h] = sock[h] /\ unsent'[h] = unsent[h]
         /\ timer'[h] = timer[h] /\ request'[h] = request[h] /\ pc'[h] = pc[h]
         /\ quitting'[h] = quitting[h] /\ (h \in failed') = (h \in failed)
         /\ UNCHANGED main
<1> USE DEF TypeOK, main, socket, slots
<1>1. CASE HandleConnection(g)
  BY <1>1 DEF HandleConnection
<1>2. CASE HandleFails(g)
  BY <1>2 DEF HandleFails
<1>3. CASE ClientGone(g)
  BY <1>3 DEF ClientGone, Disconnected
<1>4. CASE ReadPiece(g)
  BY <1>4 DEF ReadPiece, Enter
<1>5. CASE KeepAlive(g)
  BY <1>5 DEF KeepAlive, Return
<1>6. CASE CloseAfter(g)
  BY <1>6 DEF CloseAfter
<1>7. CASE ReadTimeout(g)
  BY <1>7 DEF ReadTimeout
<1>8. CASE Hangup(g)
  BY <1>8 DEF Hangup, Disconnected
<1>9. CASE EndOfSlot(g)
  BY <1>9 DEF EndOfSlot, Return
<1>10. CASE Stop(g)
  BY <1>10 DEF Stop, Disconnected
<1> QED BY <1>1, <1>2, <1>3, <1>4, <1>5, <1>6, <1>7, <1>8, <1>9, <1>10 DEF Slot

LEMMA SlotInv ==
  ASSUME IInv, NEW g \in Handlers, Slot(g), NEW h \in Handlers
  PROVE  HandlerInv(h)'
<1> USE PoolAssumption DEF IInv, TypeOK, main, socket, slots, HandlerInv, Blank, Runs,
                           Reason, Connected
<1>1. CASE h # g
  <2>1. Blank(h)' /\ (Runs(h)' = Runs(h))
    BY <1>1, SlotOwn
  <2>2. Reason(h) => Reason(h)'
    BY <1>1, SlotOwn
  <2>3. Connected(h) => Connected(h)'
    <3>1. /\ sock'[h] = sock[h] /\ request'[h] = request[h]
          /\ timer'[h] = timer[h] /\ pc'[h] = pc[h]
      BY <1>1, SlotOwn
    <3> QED BY <3>1, Zenon
  <2> QED BY <2>1, <2>2, <2>3
<1>2. CASE h = g
  <2> USE <1>2
  <2>1. CASE HandleConnection(g)
    <3>1. pending[g] \in Seq(Conns) /\ pending[g] # <<>> /\ Len(pending[g]) <= 1
      BY <2>1 DEF HandleConnection
    <3>2. Head(pending[g]) \in Conns /\ Tail(pending[g]) = <<>> /\ Len(Tail(pending[g])) <= 1
      BY <3>1
    <3>3. Blank(g)' /\ Connected(g)'
      BY <2>1, <3>2 DEF HandleConnection
    <3>4. Reason(g)'
      BY <2>1, <3>2 DEF HandleConnection
    <3> QED BY <3>3, <3>4
  <2>2. CASE HandleFails(g)
    <3>1. pending[g] \in Seq(Conns) /\ pending[g] # <<>> /\ Len(pending[g]) <= 1
      BY <2>2 DEF HandleFails
    <3>2. Tail(pending[g]) = <<>> /\ Len(Tail(pending[g])) <= 1
      BY <3>1
    <3> QED BY <2>2, <3>2 DEF HandleFails
  <2>3. CASE ClientGone(g)
    BY <2>3 DEF ClientGone, Disconnected
  <2>4. CASE ReadPiece(g)
    BY <2>4 DEF ReadPiece, Enter, CanRead, InTimeout
  <2>5. CASE KeepAlive(g)
    BY <2>5 DEF KeepAlive, Return
  <2>6. CASE CloseAfter(g)
    BY <2>6 DEF CloseAfter
  <2>7. CASE ReadTimeout(g)
    BY <2>7 DEF ReadTimeout
  <2>8. CASE Hangup(g)
    <3>1. CASE sock[g] = NoConn
      BY <2>8, <3>1 DEF Hangup
    <3>2. CASE sock[g] # NoConn
      <4>1. /\ sock'[g] = NoConn /\ unsent'[g] = "none"
            /\ busy'[g] = FALSE /\ pc'[g] = "end"
            /\ UNCHANGED <<main, pending, quitting, failed>>
        BY <2>8, <3>2 DEF Hangup, Disconnected
      <4>2. Reason(g) /\ pending[g] = <<>> /\ g \notin failed
        BY <2>8, <3>2 DEF Hangup
      <4>3. Reason(g)'
        BY <4>1, <4>2
      <4> QED BY <2>8, <4>1, <4>3 DEF Hangup
    <3> QED BY <3>1, <3>2
  <2>9. CASE EndOfSlot(g)
    BY <2>9 DEF EndOfSlot, Return
  <2>10. CASE Stop(g)
    <3>1. /\ pc'[g] = "stopped" /\ pending'[g] = <<>> /\ timer'[g] = "off"
          /\ sock'[g] = NoConn /\ unsent'[g] = "none"
          /\ quitting[g] /\ UNCHANGED <<pool, deleting, quitting>>
      BY <2>10 DEF Stop, Disconnected
    <3> QED BY <2>10, <3>1 DEF Stop
  <2> QED BY <2>1, <2>2, <2>3, <2>4, <2>5, <2>6, <2>7, <2>8, <2>9, <2>10 DEF Slot
<1> QED BY <1>1, <1>2

(* Nor does it matter to a handler how much of an answer was taken.        *)
LEMMA WrittenInv ==
  ASSUME IInv, NEW g \in Handlers, Written(g), NEW h \in Handlers
  PROVE  HandlerInv(h)'
<1>1. UNCHANGED <<main, busy, pending, sock, timer, request, slots, quitting, failed>>
  BY DEF Written
<1>2. sock'[h] = NoConn => unsent'[h] = "none"
  BY DEF Written, IInv, TypeOK, HandlerInv, Blank
<1> QED BY <1>1, <1>2 DEF IInv, main, slots, HandlerInv, Blank, Runs, Reason, Connected

LEMMA NextIInv == IInv /\ [Next]_vars => IInv'
<1> SUFFICES ASSUME IInv, [Next]_vars PROVE IInv'
  OBVIOUS
<1>1. TypeOK'
  BY NextType DEF IInv
<1>2. ASSUME NEW h \in Handlers PROVE HandlerInv(h)'
  <2>1. CASE UNCHANGED vars
    BY <2>1 DEF IInv, vars, main, socket, slots, HandlerInv, Blank, Runs, Reason,
                Connected
  <2> QED BY <2>1, ClientInv, MainInv, SlotInv, WrittenInv DEF Next
<1> QED BY <1>1, <1>2 DEF IInv

LEMMA Invariance == Spec => []IInv
  BY InitIInv, NextIInv, PTL DEF Spec

-----------------------------------------------------------------------------
(* Types hold for any number of handlers and connections.                  *)
THEOREM TypeCorrect == Spec => []TypeOK
<1>1. IInv => TypeOK
  BY DEF IInv
<1> QED BY <1>1, Invariance, PTL

(* A handler is busy for exactly one reason, so that the assertion in      *)
(* handleConnection holds and cleanup removes no handler in use.           *)
THEOREM BusyForAReason == Spec => []BusyHasReason
<1>1. IInv => BusyHasReason
  BY DEF IInv, TypeOK, HandlerInv, Reason, BusyHasReason
<1> QED BY <1>1, Invariance, PTL

(* No client's request begins with what another client sent.               *)
THEOREM RequestsNotMixed == Spec => []OwnRequest
<1>1. IInv => OwnRequest
  BY DEF IInv, TypeOK, HandlerInv, Connected, OwnRequest
<1> QED BY <1>1, Invariance, PTL

(* Every connection a handler waits on has a running timer of its own.     *)
THEOREM EveryConnectionTimed == Spec => []TimerRuns
<1>1. IInv => TimerRuns
  BY DEF IInv, TypeOK, HandlerInv, Connected, TimerRuns
<1> QED BY <1>1, Invariance, PTL

-----------------------------------------------------------------------------
(* The connection at the head of a handler's queue; there is no other one. *)
Queued(h) == IF pending[h] = <<>> THEN NoConn ELSE Head(pending[h])

(* A connection waits in one queue or is open in one socket, and what is   *)
(* in a queue waits and what has a socket is open.  Only when the server   *)
(* is closed may one wait that is in no queue any more.                    *)
ConnInv(c) ==
  /\ conn[c] = "waiting" => closing \/ \E h \in Handlers : Queued(h) = c
  /\ \A h \in Handlers : Queued(h) = c => conn[c] = "waiting"
  /\ conn[c] = "open" <=> \E h \in Handlers : sock[h] = c
  /\ \A g, h \in Handlers : Queued(g) = c /\ Queued(h) = c => g = h
  /\ \A g, h \in Handlers : sock[g] = c /\ sock[h] = c => g = h

Owned == \A c \in Conns : ConnInv(c)

(* A queue of no connection, and one of one.                               *)
LEMMA QueueOfOne ==
  ASSUME IInv, NEW h \in Handlers
  PROVE  /\ pending[h] = <<>> \/ \E c \in Conns : pending[h] = <<c>>
         /\ Queued(h) = NoConn <=> pending[h] = <<>>
         /\ pending[h] # <<>> => Queued(h) \in Conns /\ pending[h] = <<Queued(h)>>
<1>1. pending[h] \in Seq(Conns) /\ Len(pending[h]) <= 1
  <2>1. Len(<<>>) <= 1
    OBVIOUS
  <2> QED BY <2>1 DEF IInv, TypeOK, HandlerInv, Blank, Reason
<1>2. ASSUME pending[h] # <<>>
      PROVE  pending[h] = <<Head(pending[h])>> /\ Head(pending[h]) \in Conns
  BY <1>1, <1>2
<1> QED BY <1>2, PoolAssumption DEF Queued

(* Steps that neither take a connection nor give one away.                 *)
LEMMA OwnedStays ==
  ASSUME Owned, UNCHANGED <<pending, sock, conn>>, closing => closing'
  PROVE  Owned'
<1> QED BY DEF Owned, ConnInv, Queued

(* A new connection goes into the empty queue of a handler.                *)
LEMMA OwnedGiven ==
  ASSUME IInv, Owned, NEW c \in Conns, NEW g \in Handlers,
         conn[c] = "new", pending[g] = <<>>,
         pending' = [pending EXCEPT ![g] = <<c>>],
         conn' = [conn EXCEPT ![c] = "waiting"], UNCHANGED <<sock, closing>>
  PROVE  Owned'
<1>1. \A h \in Handlers : Queued(h)' = IF h = g THEN c ELSE Queued(h)
  <2>1. <<c>> # <<>> /\ Head(<<c>>) = c
    OBVIOUS
  <2> QED BY <2>1 DEF IInv, TypeOK, Queued
<1>2. Queued(g) = NoConn
  BY DEF Queued
<1>3. conn \in [Conns -> {"new", "waiting", "open", "closed", "rejected", "lost"}]
  BY DEF IInv, TypeOK
<1> SUFFICES ASSUME NEW d \in Conns PROVE ConnInv(d)'
  BY DEF Owned
<1>4. ConnInv(d) /\ ConnInv(c)
  BY DEF Owned
<1> QED BY <1>1, <1>2, <1>3, <1>4, PoolAssumption DEF ConnInv

(* The connection in the queue of a handler leaves it, for the socket or   *)
(* for nowhere.                                                            *)
LEMMA OwnedTaken ==
  ASSUME IInv, Owned, NEW g \in Handlers, pending[g] # <<>>,
         pending' = [pending EXCEPT ![g] = Tail(@)], UNCHANGED closing,
         \/ /\ sock[g] = NoConn /\ sock' = [sock EXCEPT ![g] = Head(pending[g])]
            /\ conn' = [conn EXCEPT ![Head(pending[g])] = "open"]
         \/ UNCHANGED sock /\ conn' = [conn EXCEPT ![Head(pending[g])] = "lost"]
  PROVE  Owned'
<1> DEFINE c == Queued(g)
<1>1. c \in Conns /\ pending[g] = <<c>>
  BY QueueOfOne
<1>2. Head(pending[g]) = c /\ Tail(pending[g]) = <<>>
  BY <1>1
<1>3. \A h \in Handlers : Queued(h)' = IF h = g THEN NoConn ELSE Queued(h)
  BY <1>2 DEF IInv, TypeOK, Queued
<1>4. /\ conn \in [Conns -> {"new", "waiting", "open", "closed", "rejected", "lost"}]
      /\ sock \in [Handlers -> Conns \cup {NoConn}]
  BY DEF IInv, TypeOK
<1> SUFFICES ASSUME NEW d \in Conns PROVE ConnInv(d)'
  BY DEF Owned
<1>5. ConnInv(d) /\ ConnInv(c)
  BY <1>1 DEF Owned
<1>6. conn[c] = "waiting"
  BY <1>1, <1>5 DEF ConnInv
<1> HIDE DEF c
<1>7. CASE /\ sock[g] = NoConn /\ sock' = [sock EXCEPT ![g] = c]
           /\ conn' = [conn EXCEPT ![c] = "open"]
  BY <1>1, <1>3, <1>4, <1>5, <1>6, <1>7, PoolAssumption DEF ConnInv, c
<1>8. CASE UNCHANGED sock /\ conn' = [conn EXCEPT ![c] = "lost"]
  BY <1>1, <1>3, <1>4, <1>5, <1>6, <1>8, PoolAssumption DEF ConnInv, c
<1> QED BY <1>2, <1>7, <1>8

(* A socket is closed.                                                     *)
LEMMA OwnedClosed ==
  ASSUME IInv, Owned, NEW g \in Handlers, sock[g] # NoConn,
         UNCHANGED <<pending, closing>>,
         sock' = [sock EXCEPT ![g] = NoConn],
         conn' = [conn EXCEPT ![sock[g]] = "closed"]
  PROVE  Owned'
<1>1. \A h \in Handlers : Queued(h)' = Queued(h)
  BY DEF Queued
<1>2. /\ conn \in [Conns -> {"new", "waiting", "open", "closed", "rejected", "lost"}]
      /\ sock \in [Handlers -> Conns \cup {NoConn}]
  BY DEF IInv, TypeOK
<1> SUFFICES ASSUME NEW d \in Conns PROVE ConnInv(d)'
  BY DEF Owned
<1>3. ConnInv(d)
  BY DEF Owned
<1> QED BY <1>1, <1>2, <1>3, PoolAssumption DEF ConnInv

(* A thread ends: its socket is closed, and what its queue still holds is  *)
(* forgotten, which is possible only when the server is closed.            *)
LEMMA OwnedStopped ==
  ASSUME IInv, Owned, NEW g \in Handlers, Stop(g)
  PROVE  Owned'
<1>1. \A h \in Handlers : Queued(h)' = IF h = g THEN NoConn ELSE Queued(h)
  BY DEF IInv, TypeOK, Stop, Queued
<1>2. /\ conn \in [Conns -> {"new", "waiting", "open", "closed", "rejected", "lost"}]
      /\ sock \in [Handlers -> Conns \cup {NoConn}]
  BY DEF IInv, TypeOK
<1>3. closing' = closing /\ (Queued(g) # NoConn => closing)
  <2>1. deleting = g /\ Reason(g)
    BY DEF Stop, IInv, HandlerInv, Blank, Runs
  <2>2. Queued(g) # NoConn => busy[g]
    BY <2>1 DEF Reason, Queued
  <2> QED BY <2>1, <2>2 DEF Reason, Stop, main
<1>4. sock' = [sock EXCEPT ![g] = NoConn]
  BY <1>2 DEF Stop, Disconnected, socket
<1>5. \A d \in Conns : conn'[d] = IF d = sock[g] THEN "closed" ELSE conn[d]
  BY <1>2, PoolAssumption DEF Stop, Disconnected
<1> SUFFICES ASSUME NEW d \in Conns PROVE ConnInv(d)'
  BY DEF Owned
<1>6. ConnInv(d)
  BY DEF Owned
<1>7. Queued(g) = NoConn \/ sock[g] = NoConn
  BY QueueOfOne DEF Stop, Runs, IInv, HandlerInv, Reason
<1> QED BY <1>1, <1>2, <1>3, <1>4, <1>5, <1>6, <1>7, PoolAssumption DEF ConnInv

LEMMA NextOwned == IInv /\ Owned /\ [Next]_vars => Owned'
<1> SUFFICES ASSUME IInv, Owned, [Next]_vars PROVE Owned'
  OBVIOUS
<1> USE DEF main, socket, slots, clients
<1>1. CASE UNCHANGED vars
  BY <1>1, OwnedStays DEF vars
<1>2. ASSUME NEW c \in Conns, Leave(c) \/ (\E p \in Pieces : Send(c, p)) PROVE Owned'
  BY <1>2, OwnedStays DEF Leave, Send
<1>3. ASSUME NEW c \in Conns, NEW g \in Handlers, Assign(c, g) PROVE Owned'
  <2>1. g \in pool /\ ~busy[g]
    BY <1>3 DEF Assign, Idle
  <2>2. pending[g] = <<>>
    BY <2>1 DEF IInv, HandlerInv, Blank, Reason, TypeOK
  <2>3. Append(pending[g], c) = <<c>>
    BY <2>2
  <2> QED BY <1>3, <2>2, <2>3, OwnedGiven DEF Assign, IInv, TypeOK
<1>4. ASSUME NEW c \in Conns, NEW g \in Handlers, Create(c, g) PROVE Owned'
  <2>1. pending[g] = <<>>
    BY <1>4 DEF Create, IInv, HandlerInv, Blank, Runs
  <2> QED BY <1>4, <2>1, OwnedGiven DEF Create
<1>5. ASSUME NEW c \in Conns, Reject(c) PROVE Owned'
  <2>1. \A h \in Handlers : Queued(h)' = Queued(h)
    BY <1>5 DEF Reject, Queued
  <2>2. ASSUME NEW d \in Conns PROVE ConnInv(d)'
    <3>1. ConnInv(d) /\ conn[c] = "new"
      BY <1>5 DEF Owned, Reject
    <3>2. conn'[d] = IF d = c THEN "rejected" ELSE conn[d]
      BY <1>5 DEF Reject, IInv, TypeOK
    <3> QED BY <1>5, <2>1, <3>1, <3>2 DEF ConnInv, Reject
  <2> QED BY <2>2 DEF Owned
<1>6. CASE Cleanup \/ Deleted \/ Close \/ DeletePool
  BY <1>6, OwnedStays DEF Cleanup, Deleted, Close, DeletePool, Delete
<1>7. ASSUME NEW g \in Handlers, HandleConnection(g) PROVE Owned'
  <2>1. sock[g] = NoConn
    BY <1>7 DEF HandleConnection, IInv, HandlerInv, Runs, Reason
  <2> QED BY <1>7, <2>1, OwnedTaken DEF HandleConnection
<1>8. ASSUME NEW g \in Handlers, HandleFails(g) PROVE Owned'
  BY <1>8, OwnedTaken DEF HandleFails
<1>9. ASSUME NEW g \in Handlers, ClientGone(g) PROVE Owned'
  BY <1>9, OwnedClosed DEF ClientGone, Disconnected
<1>10. ASSUME NEW g \in Handlers, ReadPiece(g) PROVE Owned'
  BY <1>10, OwnedStays DEF ReadPiece
<1>11. ASSUME NEW g \in Handlers,
              KeepAlive(g) \/ CloseAfter(g) \/ ReadTimeout(g) \/ EndOfSlot(g)
       PROVE  Owned'
  BY <1>11, OwnedStays DEF KeepAlive, CloseAfter, ReadTimeout, EndOfSlot
<1>12. ASSUME NEW g \in Handlers, Hangup(g) PROVE Owned'
  <2>1. CASE sock[g] = NoConn
    BY <1>12, <2>1, OwnedStays DEF Hangup
  <2>2. CASE sock[g] # NoConn
    BY <1>12, <2>2, OwnedClosed DEF Hangup, Disconnected
  <2> QED BY <2>1, <2>2
<1>13. ASSUME NEW g \in Handlers, Stop(g) PROVE Owned'
  BY <1>13, OwnedStopped
<1>14. ASSUME NEW g \in Handlers, Written(g) PROVE Owned'
  BY <1>14, OwnedStays DEF Written
<1> QED BY <1>1, <1>2, <1>3, <1>4, <1>5, <1>6, <1>7, <1>8, <1>9, <1>10, <1>11, <1>12,
           <1>13, <1>14 DEF Next, Main, Slot

LEMMA OwnedInvariance == Spec => [](IInv /\ Owned)
<1>1. Init => Owned
  BY PoolAssumption DEF Init, Owned, ConnInv, Queued
<1> QED BY <1>1, InitIInv, NextIInv, NextOwned, PTL DEF Spec

(* Until the server is closed every connection that was accepted and not   *)
(* ended is in the hands of one running handler, and of no second one; an  *)
(* open one is so even then.                                               *)
THEOREM EveryConnectionHeld == Spec => []HeldByOne
<1>1. IInv /\ Owned => HeldByOne
  <2> SUFFICES ASSUME IInv, Owned, NEW c \in Conns
               PROVE  /\ conn[c] = "open" => \E h \in pool : Runs(h) /\ sock[h] = c
                      /\ conn[c] = "waiting" =>
                           closing \/ \E h \in pool : Runs(h) /\ c \in Held(h)
                      /\ \A h \in Handlers : c \in Held(h) => conn[c] \in {"waiting", "open"}
                      /\ \A g, h \in Handlers : c \in Held(g) /\ c \in Held(h) => g = h
    BY DEF HeldByOne
  <2>1. ASSUME NEW h \in Handlers PROVE c \in Held(h) <=> Queued(h) = c \/ sock[h] = c
    <3>1. CASE pending[h] = <<>>
      BY <3>1, PoolAssumption DEF Held, Queued
    <3>2. CASE pending[h] # <<>>
      <4>1. PICK d \in Conns : pending[h] = <<d>> /\ Queued(h) = d
        BY <3>2, QueueOfOne
      <4>2. {pending[h][i] : i \in DOMAIN pending[h]} = {d}
        BY <4>1
      <4> QED BY <4>1, <4>2, PoolAssumption DEF Held
    <3> QED BY <3>1, <3>2
  <2>2. ASSUME NEW h \in Handlers, Queued(h) = c \/ sock[h] = c PROVE h \in pool /\ Runs(h)
    <3>1. pending[h] # <<>> \/ sock[h] # NoConn
      BY <2>2, PoolAssumption DEF Queued
    <3> QED BY <3>1 DEF IInv, HandlerInv, Blank, Runs
  <2>3. ConnInv(c)
    BY DEF Owned
  <2> QED BY <2>1, <2>2, <2>3 DEF ConnInv
<1> QED BY <1>1, OwnedInvariance, PTL

-----------------------------------------------------------------------------
(* The guards of a slot of a handler other than ClientGone and ReadPiece:  *)
(* one of these can be taken if no client does anything any more.          *)
Ready(h) ==
  \/ pc[h] = "loop" /\ (pending[h] # <<>> \/ timer[h] # "off" \/ quitting[h])
  \/ pc[h] \in {"service", "drain"} /\ ~AwaitsClient(h)
  \/ pc[h] = "end"

(* The main thread waits for threads only that it has told to end.         *)
WaitsForQuitting == deleting # NoHandler => deleting \in Handlers /\ quitting[deleting]

LEMMA NextWaits == IInv /\ WaitsForQuitting /\ [Next]_vars => WaitsForQuitting'
<1> SUFFICES ASSUME IInv, WaitsForQuitting, [Next]_vars PROVE WaitsForQuitting'
  OBVIOUS
<1> USE PoolAssumption DEF WaitsForQuitting, IInv, TypeOK, main, socket, slots, clients
<1>1. CASE UNCHANGED vars
  BY <1>1 DEF vars
<1>2. ASSUME NEW c \in Conns, Leave(c) \/ (\E p \in Pieces : Send(c, p))
      PROVE  WaitsForQuitting'
  BY <1>2 DEF Leave, Send
<1>3. ASSUME NEW c \in Conns, NEW g \in Handlers, Assign(c, g) \/ Create(c, g)
      PROVE  WaitsForQuitting'
  BY <1>3 DEF Assign, Create
<1>4. ASSUME NEW c \in Conns, Reject(c) PROVE WaitsForQuitting'
  BY <1>4 DEF Reject
<1>5. CASE Cleanup \/ DeletePool
  BY <1>5 DEF Cleanup, DeletePool, Delete, Idle
<1>6. CASE Deleted \/ Close
  BY <1>6 DEF Deleted, Close
<1>7. ASSUME NEW g \in Handlers, Slot(g) PROVE WaitsForQuitting'
  BY <1>7 DEF Slot, HandleConnection, HandleFails, ClientGone, ReadPiece, KeepAlive,
              CloseAfter, ReadTimeout, Hangup, EndOfSlot, Stop
<1>8. ASSUME NEW g \in Handlers, Written(g) PROVE WaitsForQuitting'
  BY <1>8 DEF Written
<1> QED BY <1>1, <1>2, <1>3, <1>4, <1>5, <1>6, <1>7, <1>8 DEF Next, Main

(* The only thing that can hold up a handler is the client of its own open *)
(* connection, which neither reads nor leaves while bytes are to be        *)
(* written for it: a silent client does not, since the timer runs.  So a   *)
(* connection in a queue waits for no other client, nor does the main      *)
(* thread in the destructors of cleanup; in those of close() it may.       *)
NobodyStuck ==
  /\ \A c \in Conns : conn[c] = "open" =>
       \E h \in pool : sock[h] = c /\ (Ready(h) \/ AwaitsClient(h))
  /\ \A c \in Conns : conn[c] = "waiting" =>
       closing \/ \E h \in pool : c \in Held(h) /\ Ready(h)
  /\ deleting # NoHandler =>
       \/ pc[deleting] = "stopped"
       \/ Ready(deleting)
       \/ closing /\ AwaitsClient(deleting) /\ sock[deleting] \in Conns

(* No connection, no cleanup and no close() ever waits for anything but a  *)
(* slot that can run, or the client above.  This is what ConnectionsEnd    *)
(* and ShutdownEnds need besides fairness, and Readers or their premise.   *)
THEOREM NoConnectionStuck == Spec => []NobodyStuck
<1>1. Init => WaitsForQuitting
  BY DEF Init, WaitsForQuitting
<1>2. ASSUME IInv, Owned, HeldByOne, WaitsForQuitting PROVE NobodyStuck
  <2>1. ASSUME NEW h \in Handlers, Runs(h), Held(h) # {}
        PROVE  Ready(h) \/ (sock[h] \in Conns /\ AwaitsClient(h))
    <3>1. pc[h] \in {"loop", "service", "drain", "end"}
      BY <1>2, <2>1 DEF IInv, TypeOK, Runs
    <3>2. pending[h] # <<>> \/ sock[h] # NoConn
      BY <2>1 DEF Held
    <3>3. pc[h] = "loop" /\ sock[h] # NoConn => timer[h] = "own"
      BY <1>2, <2>1 DEF IInv, HandlerInv, Connected
    <3>4. AwaitsClient(h) => sock[h] \in Conns
      BY <1>2, <2>1 DEF IInv, TypeOK, HandlerInv, Blank, AwaitsClient
    <3> QED BY <3>1, <3>2, <3>3, <3>4 DEF Ready
  <2>2. ASSUME NEW c \in Conns, conn[c] = "open"
        PROVE  \E h \in pool : sock[h] = c /\ (Ready(h) \/ AwaitsClient(h))
    <3>1. PICK h \in pool : Runs(h) /\ sock[h] = c
      BY <1>2, <2>2 DEF HeldByOne
    <3>2. h \in Handlers /\ c \in Held(h)
      BY <1>2, <3>1, PoolAssumption DEF IInv, TypeOK, Held
    <3> QED BY <2>1, <3>1, <3>2
  <2>3. ASSUME NEW c \in Conns, conn[c] = "waiting", ~closing
        PROVE  \E h \in pool : c \in Held(h) /\ Ready(h)
    <3>1. PICK h \in pool : Runs(h) /\ c \in Held(h)
      BY <1>2, <2>3 DEF HeldByOne
    <3>2. h \in Handlers /\ sock[h] # c
      BY <1>2, <2>3, <3>1 DEF IInv, TypeOK, HeldByOne, Owned, ConnInv
    <3>3. pending[h] # <<>>
      BY <3>1, <3>2 DEF Held
    <3>4. sock[h] = NoConn
      BY <1>2, <3>1, <3>2, <3>3 DEF IInv, HandlerInv, Reason
    <3> QED BY <2>1, <3>1, <3>2, <3>4, PoolAssumption
  <2>4. ASSUME deleting # NoHandler
        PROVE  \/ pc[deleting] = "stopped"
               \/ Ready(deleting)
               \/ closing /\ AwaitsClient(deleting) /\ sock[deleting] \in Conns
    <3>1. deleting \in pool /\ deleting \in Handlers /\ quitting[deleting]
      BY <1>2, <2>4 DEF IInv, TypeOK, WaitsForQuitting
    <3>2. pc[deleting] # "none"
      BY <1>2, <3>1 DEF IInv, HandlerInv, Blank
    <3>3. AwaitsClient(deleting) => sock[deleting] \in Conns
      BY <1>2, <3>1 DEF IInv, TypeOK, HandlerInv, Blank, AwaitsClient
    <3>4. Runs(deleting) /\ sock[deleting] # NoConn => closing
      BY <1>2, <3>1 DEF IInv, HandlerInv, Reason
    <3> QED BY <1>2, <3>1, <3>2, <3>3, <3>4, PoolAssumption
            DEF IInv, TypeOK, Ready, Runs
  <2> QED BY <2>2, <2>3, <2>4 DEF NobodyStuck
<1>3. IInv /\ Owned /\ HeldByOne /\ WaitsForQuitting => NobodyStuck
  BY <1>2
<1> QED BY <1>1, <1>3, InitIInv, NextIInv, NextWaits, OwnedInvariance,
           EveryConnectionHeld, PTL DEF Spec
=============================================================================
