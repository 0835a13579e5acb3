--------------------------- MODULE ConnectionPool ---------------------------
(***************************************************************************)
(* The connections of the HTTP server (QtWebApp/httpserver/httplistener,   *)
(* httpconnectionhandlerpool, httpconnectionhandler).  The main thread     *)
(* accepts connections, hands each to an idle handler of the pool or to a  *)
(* new one, and now and then removes an idle handler.  Each handler is a   *)
(* thread with an event loop of its own, one socket, one timer and one     *)
(* request under construction; it serves one connection after the other.   *)
(*                                                                         *)
(* The threads share nothing but busy, which has no lock: the main thread  *)
(* reads and sets it, the handler clears it in the middle of whatever slot *)
(* the socket finds its client gone in.  The steps of a handler are cut    *)
(* where another thread can see the difference and where Qt can call       *)
(* disconnected() or read() from inside another slot: in the controllers   *)
(* and in waitForBytesWritten.                                             *)
(*                                                                         *)
(* The data of a client is abstracted to pieces: some of a request, the    *)
(* rest of one, or a piece that makes the request too large.  The data for *)
(* a client is abstracted to how much of it is still to be written: a      *)
(* client need not read, and then a handler may wait for it for ever.      *)
(***************************************************************************)
EXTENDS Naturals, FiniteSets, Sequences

CONSTANTS
  Handlers, NoHandler,   \* the threads the pool can ever hold
  Conns, NoConn,         \* the connections clients open
  Readers,               \* those whose clients read what they are sent; of
                         \* the others nothing is assumed
  MaxThreads, MinThreads,
  MaxPieces              \* bound of the model: pieces all clients send

ASSUME PoolAssumption ==
  /\ IsFiniteSet(Handlers) /\ NoHandler \notin Handlers
  /\ NoConn \notin Conns /\ Readers \subseteq Conns
  /\ MaxThreads \in Nat /\ MinThreads \in Nat /\ MaxPieces \in Nat

(* The main thread: the listener and the pool.                             *)
VARIABLES
  pool,       \* the handlers that exist
  deleting,   \* the handler whose destructor the main thread waits in
  closing     \* HttpListener::close was called

(* The handlers.                                                           *)
VARIABLES
  busy,       \* read and written by both threads
  pending,    \* calls of handleConnection in the queue of the event loop
  sock,       \* the connection the socket is open for
  unsent,     \* bytesToWrite of the socket: none, some, or so much that a
              \* controller waits before it writes more
  timer,      \* readTimer: off, or started for this connection or an older
  request,    \* currentRequest: the connections its data came from
  pc,         \* the place in its slots, and why it is in one of them
  why,
  below,      \* read() was called from inside readTimeout()
  quitting    \* quit() was called

(* The clients.                                                            *)
VARIABLES conn, inbox, left, gone

VARIABLE failed   \* history: handlers that could not open their socket

main    == <<pool, deleting, closing>>
socket  == <<sock, unsent>>
slots   == <<pc, why, below>>
clients == <<conn, inbox, left, gone>>
vars == <<main, busy, pending, socket, timer, request, slots, quitting, clients,
          failed>>

Pieces == {"part", "rest", "big"}
Whys   == {"timeout", "abort", "request"}

Init ==
  /\ pool = {} /\ deleting = NoHandler /\ closing = FALSE
  /\ busy = [h \in Handlers |-> FALSE] /\ pending = [h \in Handlers |-> <<>>]
  /\ sock = [h \in Handlers |-> NoConn] /\ unsent = [h \in Handlers |-> "none"]
  /\ timer = [h \in Handlers |-> "off"]
  /\ request = [h \in Handlers |-> {}]
  /\ pc = [h \in Handlers |-> "none"] /\ why = [h \in Handlers |-> "timeout"]
  /\ below = [h \in Handlers |-> FALSE]
  /\ quitting = [h \in Handlers |-> FALSE]
  /\ conn = [c \in Conns |-> "new"] /\ inbox = [c \in Conns |-> <<>>]
  /\ left = MaxPieces /\ gone = {}
  /\ failed = {}

-----------------------------------------------------------------------------
(* The clients: they connect (Accept), send, and leave.                    *)
Send(c, p) ==
  /\ conn[c] \in {"waiting", "open"} /\ c \notin gone /\ left > 0
  /\ left' = left - 1
  /\ inbox' = [inbox EXCEPT ![c] = Append(@, p)]
  /\ UNCHANGED <<main, busy, pending, socket, timer, request, slots, quitting, conn,
                 gone, failed>>

Leave(c) ==
  /\ conn[c] \in {"waiting", "open"} /\ c \notin gone
  /\ gone' = gone \cup {c}
  /\ UNCHANGED <<main, busy, pending, socket, timer, request, slots, quitting, conn,
                 inbox, left, failed>>

-----------------------------------------------------------------------------
(* The main thread.  While it waits in a destructor it does nothing else.  *)
MainFree == deleting = NoHandler
Idle == {h \in pool : ~busy[h]}

(* incomingConnection with an idle handler.  busy is only ever cleared by  *)
(* others, so that looking at the handlers one by one finds what looking   *)
(* at all of them at once finds; which idle one is first is left open.     *)
Assign_Mutant(c, h) ==
  /\ MainFree /\ ~closing /\ conn[c] = "new" /\ h \in Idle
  /\ pending' = [pending EXCEPT ![h] = Append(@, c)]
  /\ conn' = [conn EXCEPT ![c] = "waiting"]
  /\ UNCHANGED <<main, socket, timer, request, slots, quitting, inbox, left, gone,
                 failed, busy>>

Assign(c, h) ==
  /\ MainFree /\ ~closing /\ conn[c] = "new" /\ h \in Idle
  /\ busy' = [busy EXCEPT ![h] = TRUE]
  /\ pending' = [pending EXCEPT ![h] = Append(@, c)]
  /\ conn' = [conn EXCEPT ![c] = "waiting"]
  /\ UNCHANGED <<main, socket, timer, request, slots, quitting, inbox, left, gone,
                 failed>>

(* All handlers are busy: a new one, whose thread starts at once.          *)
Create(c, h) ==
  /\ MainFree /\ ~closing /\ conn[c] = "new" /\ Idle = {}
  /\ Cardinality(pool) < MaxThreads /\ h \in Handlers \ pool
  /\ pool' = pool \cup {h}
  /\ busy' = [busy EXCEPT ![h] = TRUE]
  /\ pending' = [pending EXCEPT ![h] = <<c>>]
  /\ pc' = [pc EXCEPT ![h] = "loop"]
  /\ conn' = [conn EXCEPT ![c] = "waiting"]
  /\ UNCHANGED <<deleting, closing, socket, timer, request, why, below, quitting, inbox,
                 left, gone, failed>>

(* ... or, when there are too many, the answer 503.                        *)
Reject(c) ==
  /\ MainFree /\ ~closing /\ conn[c] = "new" /\ Idle = {}
  /\ Cardinality(pool) >= MaxThreads
  /\ conn' = [conn EXCEPT ![c] = "rejected"]
  /\ UNCHANGED <<main, busy, pending, socket, timer, request, slots, quitting, inbox,
                 left, gone, failed>>

Delete_Mutant(h) ==
  /\ deleting' = h
  /\ UNCHANGED <<pool, busy, pending, socket, timer, request, slots, clients, failed,
                 quitting>>

Delete_Mutant2(h) ==
  /\ deleting' = h /\ pool' = pool \ {h}
  /\ quitting' = [quitting EXCEPT ![h] = TRUE]
  /\ UNCHANGED <<busy, pending, socket, timer, request, slots, clients, failed>>

(* delete handler, up to wait().                                           *)
Delete(h) ==
  /\ deleting' = h
  /\ quitting' = [quitting EXCEPT ![h] = TRUE]
  /\ UNCHANGED <<pool, busy, pending, socket, timer, request, slots, clients, failed>>

(* The timer of the pool.                                                  *)
Cleanup ==
  /\ MainFree /\ ~closing /\ Cardinality(Idle) > MinThreads
  /\ \E h \in Idle : Delete(h)
  /\ UNCHANGED closing

Deleted_Mutant ==
  /\ deleting \in Handlers
  /\ pool' = pool \ {deleting} /\ deleting' = NoHandler
  /\ pc' = [pc EXCEPT ![deleting] = "none"]
  /\ busy' = [busy EXCEPT ![deleting] = FALSE]
  /\ request' = [request EXCEPT ![deleting] = {}]
  /\ quitting' = [quitting EXCEPT ![deleting] = FALSE]
  /\ failed' = failed \ {deleting}
  /\ UNCHANGED <<closing, pending, socket, timer, why, below, clients>>

(* The thread has ended, wait() returns, and the handler is no more.       *)
Deleted ==
  /\ deleting \in Handlers /\ pc[deleting] = "stopped"
  /\ pool' = pool \ {deleting} /\ deleting' = NoHandler
  /\ pc' = [pc EXCEPT ![deleting] = "none"]
  /\ busy' = [busy EXCEPT ![deleting] = FALSE]
  /\ request' = [request EXCEPT ![deleting] = {}]
  /\ quitting' = [quitting EXCEPT ![deleting] = FALSE]
  /\ failed' = failed \ {deleting}
  /\ UNCHANGED <<closing, pending, socket, timer, why, below, clients>>

(* HttpListener::close deletes the pool, and it one handler after another. *)
Close ==
  /\ MainFree /\ ~closing /\ closing' = TRUE
  /\ UNCHANGED <<pool, deleting, busy, pending, socket, timer, request, slots,
                 quitting, clients, failed>>

DeletePool ==
  /\ MainFree /\ closing
  /\ \E h \in pool : Delete(h)
  /\ UNCHANGED closing

-----------------------------------------------------------------------------
(* The slots of a handler.                                                 *)

(* What a client has sent and nobody read is gone with its connection.     *)
Dispose(cs) ==
  /\ inbox' = [c \in Conns |-> IF c \in cs THEN <<>> ELSE inbox[c]]
  /\ gone' = gone \ cs

HandleConnection_Mutant(h) ==
  /\ pc[h] = "loop" /\ pending[h] # <<>>
  /\ busy' = [busy EXCEPT ![h] = TRUE]
  /\ pending' = [pending EXCEPT ![h] = Tail(@)]
  /\ sock' = [sock EXCEPT ![h] = Head(pending[h])]
  /\ unsent' = [unsent EXCEPT ![h] = "none"]
  /\ timer' = [timer EXCEPT ![h] = "own"]
  /\ conn' = [conn EXCEPT ![Head(pending[h])] = "open"]
  /\ UNCHANGED <<main, slots, quitting, inbox, left, gone, failed, request>>

(* A request the last client left unfinished is thrown away here.          *)
HandleConnection(h) ==
  /\ pc[h] = "loop" /\ pending[h] # <<>>
  /\ busy' = [busy EXCEPT ![h] = TRUE]
  /\ pending' = [pending EXCEPT ![h] = Tail(@)]
  /\ sock' = [sock EXCEPT ![h] = Head(pending[h])]
  /\ unsent' = [unsent EXCEPT ![h] = "none"]
  /\ timer' = [timer EXCEPT ![h] = "own"]
  /\ request' = [request EXCEPT ![h] = {}]
  /\ conn' = [conn EXCEPT ![Head(pending[h])] = "open"]
  /\ UNCHANGED <<main, slots, quitting, inbox, left, gone, failed>>

(* setSocketDescriptor fails: the slot returns, and busy is set.  Nobody   *)
(* has the descriptor any more, and nobody has closed it.                  *)
HandleFails(h) ==
  /\ pc[h] = "loop" /\ pending[h] # <<>>
  /\ busy' = [busy EXCEPT ![h] = TRUE]
  /\ pending' = [pending EXCEPT ![h] = Tail(@)]
  /\ conn' = [conn EXCEPT ![Head(pending[h])] = "lost"]
  /\ Dispose({Head(pending[h])})
  /\ failed' = failed \cup {h}
  /\ UNCHANGED <<main, socket, timer, request, slots, quitting, left>>

(* disconnected(): the socket is closed, with what it had still to write,  *)
(* the timer stopped, busy cleared.  The request stays.                    *)
Disconnected(h) ==
  /\ sock' = [sock EXCEPT ![h] = NoConn]
  /\ unsent' = [unsent EXCEPT ![h] = "none"]
  /\ timer' = [timer EXCEPT ![h] = "off"]
  /\ busy' = [busy EXCEPT ![h] = FALSE]
  /\ conn' = [conn EXCEPT ![sock[h]] = "closed"]
  /\ Dispose({sock[h]})

(* The socket finds that the client has left: in the event loop, or while  *)
(* a slot writes or waits for its bytes to be written, which goes on then. *)
ClientGone(h) ==
  /\ sock[h] # NoConn /\ sock[h] \in gone /\ pc[h] \in {"loop", "service", "drain"}
  /\ Disconnected(h)
  /\ UNCHANGED <<main, pending, request, slots, quitting, left, failed>>

(* The client, or the network before it, takes what was written.  This is  *)
(* up to the client: it may stop reading and yet stay connected.           *)
Written(h) ==
  /\ sock[h] \notin gone \cup {NoConn} /\ unsent[h] # "none"
  /\ pc[h] \in {"loop", "service", "drain"}
  /\ unsent' = [unsent EXCEPT ![h] = IF @ = "much" THEN "some" ELSE "none"]
  /\ UNCHANGED <<main, busy, pending, sock, timer, request, slots, quitting, clients,
                 failed>>

(* The loops that wait for bytes to be written have no other end: that of  *)
(* writeToSocket, and those before disconnectFromHost.                     *)
AwaitsClient(h) ==
  \/ pc[h] = "service" /\ unsent[h] = "much"
  \/ pc[h] = "drain" /\ unsent[h] # "none"

(* read() is called by the event loop, and also by waitForBytesWritten in  *)
(* readTimeout(), but never from inside read().                            *)
InTimeout(h) == pc[h] = "drain" /\ why[h] = "timeout"
CanRead(h)   == pc[h] = "loop" \/ InTimeout(h)

Enter(h, place, reason) ==
  /\ pc' = [pc EXCEPT ![h] = place] /\ why' = [why EXCEPT ![h] = reason]
  /\ below' = [below EXCEPT ![h] = InTimeout(h)]

(* One round of its loops.  A piece of a request restarts the timer or     *)
(* not; a complete request stops it and is served, with an answer of any   *)
(* size; one that is too large is answered 413.                            *)
ReadPiece(h) ==
  /\ CanRead(h) /\ sock[h] # NoConn /\ inbox[sock[h]] # <<>>
  /\ LET c == sock[h]
         p == Head(inbox[c])
     IN  /\ inbox' = [inbox EXCEPT ![c] = Tail(@)]
         /\ request' = [request EXCEPT ![h] = @ \cup {c}]
         /\ \/ /\ p = "part"
               /\ timer' \in {timer, [timer EXCEPT ![h] = "own"]}
               /\ UNCHANGED <<slots, unsent>>
            \/ /\ p = "big"
               /\ Enter(h, "drain", "abort") /\ UNCHANGED timer
               /\ unsent' = [unsent EXCEPT ![h] = "some"]
            \/ /\ p = "rest"
               /\ Enter(h, "service", "request")
               /\ timer' = [timer EXCEPT ![h] = "off"]
               /\ \E size \in {"some", "much"} :
                    unsent' = [unsent EXCEPT ![h] = size]
  /\ UNCHANGED <<main, busy, pending, sock, quitting, conn, left, gone, failed>>

(* Where read() returns to.                                                *)
Return(h) ==
  /\ pc' = [pc EXCEPT ![h] = IF below[h] THEN "drain" ELSE "loop"]
  /\ why' = [why EXCEPT ![h] = "timeout"]
  /\ below' = [below EXCEPT ![h] = FALSE]

(* service() has answered the request and the connection is kept: the      *)
(* timer is started, even if the client has gone meanwhile.                *)
KeepAlive_Mutant(h) ==
  /\ pc[h] = "service" /\ ~AwaitsClient(h)
  /\ request' = [request EXCEPT ![h] = {}]
  /\ Return(h)
  /\ UNCHANGED <<main, busy, pending, socket, quitting, clients, failed, timer>>

KeepAlive(h) ==
  /\ pc[h] = "service" /\ ~AwaitsClient(h)
  /\ timer' = [timer EXCEPT ![h] = IF sock[h] = NoConn THEN "old" ELSE "own"]
  /\ request' = [request EXCEPT ![h] = {}]
  /\ Return(h)
  /\ UNCHANGED <<main, busy, pending, socket, quitting, clients, failed>>

(* ... or it must be closed, as the request or the response says.          *)
CloseAfter(h) ==
  /\ pc[h] = "service" /\ ~AwaitsClient(h)
  /\ pc' = [pc EXCEPT ![h] = "drain"]
  /\ UNCHANGED <<main, busy, pending, socket, timer, request, why, below, quitting,
                 clients, failed>>

ReadTimeout_Mutant(h) ==
  /\ pc[h] = "loop" /\ timer[h] # "off"
  /\ timer' = [timer EXCEPT ![h] = "off"]
  /\ pc' = [pc EXCEPT ![h] = "end"] /\ why' = [why EXCEPT ![h] = "timeout"]
  /\ UNCHANGED <<main, busy, pending, socket, request, below, quitting, clients,
                 failed>>

(* readTimeout(), up to its wait.                                          *)
ReadTimeout(h) ==
  /\ pc[h] = "loop" /\ timer[h] # "off"
  /\ timer' = [timer EXCEPT ![h] = "off"]
  /\ pc' = [pc EXCEPT ![h] = "drain"] /\ why' = [why EXCEPT ![h] = "timeout"]
  /\ UNCHANGED <<main, busy, pending, socket, request, below, quitting, clients,
                 failed>>

(* All bytes are written: disconnectFromHost, which calls disconnected().  *)
Hangup(h) ==
  /\ pc[h] = "drain" /\ ~AwaitsClient(h)
  /\ pc' = [pc EXCEPT ![h] = "end"]
  /\ IF sock[h] # NoConn THEN Disconnected(h)
                         ELSE UNCHANGED <<socket, timer, busy, conn, inbox, gone>>
  /\ UNCHANGED <<main, pending, request, why, below, quitting, left, failed>>

(* The request is deleted and the slot returns.                            *)
EndOfSlot(h) ==
  /\ pc[h] = "end"
  /\ request' = [request EXCEPT ![h] = {}]
  /\ IF why[h] = "timeout"
     THEN pc' = [pc EXCEPT ![h] = "loop"] /\ UNCHANGED <<why, below>>
     ELSE Return(h)
  /\ UNCHANGED <<main, busy, pending, socket, timer, quitting, clients, failed>>

(* exec() has returned: the rest of run().  What is still in the queue is  *)
(* never called: its connection is neither opened nor closed, and waits.   *)
Stop(h) ==
  /\ pc[h] = "loop" /\ quitting[h]
  /\ pc' = [pc EXCEPT ![h] = "stopped"]
  /\ pending' = [pending EXCEPT ![h] = <<>>]
  /\ IF sock[h] # NoConn
     THEN Disconnected(h)
     ELSE /\ timer' = [timer EXCEPT ![h] = "off"]
          /\ UNCHANGED <<socket, busy, conn, inbox, gone>>
  /\ UNCHANGED <<main, request, why, below, quitting, left, failed>>

Slot(h) ==
  \/ HandleConnection(h) \/ HandleFails(h) \/ ClientGone(h) \/ ReadPiece(h)
  \/ KeepAlive(h) \/ CloseAfter(h) \/ ReadTimeout(h) \/ Hangup(h) \/ EndOfSlot(h)
  \/ Stop(h)

Main ==
  \/ \E c \in Conns : \/ \E h \in Handlers : Assign(c, h) \/ Create(c, h)
                      \/ Reject(c)
  \/ Cleanup \/ Deleted \/ Close \/ DeletePool

Next ==
  \/ Main
  \/ \E c \in Conns : Leave(c) \/ \E p \in Pieces : Send(c, p)
  \/ \E h \in Handlers : Slot(h) \/ Written(h)

(* The threads are scheduled fairly: a handler that can run a slot does,   *)
(* the destructors go on.  For controllers this says that they return when *)
(* their answer is written, for ReadTimeout that timers fire.  Whether     *)
(* what was written is ever taken is for the client to say; Readers do.    *)
Fairness ==
  /\ \A h \in Handlers : WF_vars(Slot(h))
  /\ \A h \in Handlers : WF_vars(sock[h] \in Readers /\ Written(h))
  /\ WF_vars(Deleted) /\ WF_vars(DeletePool)

Spec == Init /\ [][Next]_vars /\ Fairness

-----------------------------------------------------------------------------
(* The variables hold values of their kind.                                *)
TypeOK ==
  /\ pool \subseteq Handlers /\ deleting \in pool \cup {NoHandler}
  /\ closing \in BOOLEAN
  /\ busy \in [Handlers -> BOOLEAN] /\ pending \in [Handlers -> Seq(Conns)]
  /\ sock \in [Handlers -> Conns \cup {NoConn}]
  /\ unsent \in [Handlers -> {"none", "some", "much"}]
  /\ timer \in [Handlers -> {"off", "own", "old"}]
  /\ request \in [Handlers -> SUBSET Conns]
  /\ pc \in [Handlers -> {"none", "loop", "service", "drain", "end", "stopped"}]
  /\ why \in [Handlers -> Whys] /\ below \in [Handlers -> BOOLEAN]
  /\ quitting \in [Handlers -> BOOLEAN]
  /\ conn \in [Conns -> {"new", "waiting", "open", "closed", "rejected", "lost"}]
  /\ inbox \in [Conns -> Seq(Pieces)] /\ left \in 0 .. MaxPieces
  /\ gone \subseteq Conns /\ failed \subseteq Handlers

Runs(h) == pc[h] \notin {"none", "stopped"}

(* A handler is busy for exactly one reason: a connection waits in its     *)
(* queue, or its socket is open, or its socket could not be opened.  So    *)
(* the assertion of handleConnection holds (the socket is closed when the  *)
(* call arrives), two connections never meet in one handler, although busy *)
(* is cleared inside any slot, a connection is turned away only while all  *)
(* handlers have one or failed, and cleanup removes no handler in use.     *)
BusyHasReason ==
  \A h \in pool : Runs(h) =>
    LET waits  == pending[h] # <<>>
        open   == sock[h] # NoConn
        broken == h \in failed
    IN  /\ busy[h] = (waits \/ open \/ broken)
        /\ ~(waits /\ open) /\ ~(waits /\ broken) /\ ~(open /\ broken)
        /\ Len(pending[h]) <= 1
        /\ deleting = h /\ ~closing => ~busy[h]

(* A request holds data of the client that is connected only: what a       *)
(* client left unfinished never becomes the beginning of the next one's    *)
(* request, though disconnected() leaves it there.                         *)
OwnRequest ==
  \A h \in pool : Runs(h) /\ sock[h] # NoConn => request[h] \subseteq {sock[h]}

(* As long as a handler waits in its event loop for an open connection,    *)
(* its timer runs and was started for that connection: no connection is    *)
(* kept for ever by a silent client, none is closed by the timer of an     *)
(* older one.  An old timer runs at most while no connection is open.      *)
TimerRuns ==
  \A h \in pool : Runs(h) /\ sock[h] # NoConn =>
    /\ pc[h] = "loop" => timer[h] = "own"
    /\ timer[h] # "old"

(* As long as the server is not closed every accepted connection is in the *)
(* hands of one running handler, in its queue or as its socket, until the  *)
(* socket was closed or could not be opened: none falls between the queue  *)
(* and the socket, between disconnected() and the next call, or with a     *)
(* handler that cleanup deletes.  No open one falls with the handlers that *)
(* close() deletes, but those in their queues do, although                 *)
(* httplistener.h:67 says that it "waits until all pending requests are    *)
(* processed".  No handler has a connection that is over or another's.     *)
Held(h) == {pending[h][i] : i \in DOMAIN pending[h]} \cup ({sock[h]} \ {NoConn})

HeldByOne ==
  \A c \in Conns :
    /\ conn[c] = "open" => \E h \in pool : Runs(h) /\ sock[h] = c
    /\ conn[c] = "waiting" => closing \/ \E h \in pool : Runs(h) /\ c \in Held(h)
    /\ \A h \in Handlers : c \in Held(h) => conn[c] \in {"waiting", "open"}
    /\ \A g, h \in Handlers : c \in Held(g) /\ c \in Held(h) => g = h

(* Every accepted connection is closed in the end, unless its socket could *)
(* not be opened, it still waits in a queue when the server is closed, or  *)
(* it is open and its client stays and does not read what it is sent.  A   *)
(* client that reads may be silent, and one that does not may leave; then  *)
(* whatever the clients of other connections do, and however requests,     *)
(* leaving, timers and the end of the server interleave, the connection    *)
(* ends.  (Clients send at most MaxPieces: a connection with requests      *)
(* without end is rightly kept.)                                           *)
ConnectionsEnd ==
  \A c \in Conns :
    conn[c] \in {"waiting", "open"} ~>
      \/ conn[c] \in {"closed", "lost"}
      \/ conn[c] = "waiting" /\ closing
      \/ conn[c] = "open" /\ c \notin gone \cup Readers

(* HttpListener::close returns, in whatever slots it meets the handlers,   *)
(* unless a client keeps one in a loop that waits for bytes to be written, *)
(* by neither reading nor leaving, for ever.                               *)
ShutdownEnds ==
  (\A h \in Handlers : []<>~AwaitsClient(h)) => (closing ~> pool = {})
=============================================================================
