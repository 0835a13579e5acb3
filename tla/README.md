# RayTracingCUDA: models, checks and proofs

Paths are relative to `src/raytracing3.0/`. Short names used below:
`CPU` = `Demo1/MyRayTracingCPUcpp.cpp`, `FAC` = `Demo1/RayTracingCUDA.h`,
`ECHO` = `Demo1/src/echoserver.cpp`, `RTC` = `Demo1/RayTracing.cpp`,
`PT` = `Demo1/MyCUDARayTracing.h`, `READ` = `Demo1/etc/docroot/localjs/readfile.js`,
`WGL` = `Demo1/etc/docroot/localjs/webgl.js`, `WS` = `Demo1/etc/docroot/localjs/websocket.js`,
`POOL`, `HAND` = `httpconnectionhandlerpool.cpp`, `httpconnectionhandler.cpp` in
`QtWebApp/httpserver`.

## The system

A server computes the radio paths between a transmitter (Tx) and a receiver (Rx)
in a 2-D map of walls by tracing rays, and a browser draws them.

| part | state it keeps | operations | interacts with |
|---|---|---|---|
| ray tracing engine (`CPU`, `Demo1/RayTracing.h`, `PT`) | start vectors, `points` (one record of up to 30 points and a flag `isFind` per ray), `diffractionPoints` (one per ray and child), three ready flags | `init`, `updateTx`, `updateRx`, `initCUDAInput` | called by the facade; reads the wall grid |
| wall grid (`RTC`, `PT`) | 50 x 50 cells, each up to 100 walls, a count and `isContains` | `clearGrids`, `updateEdges` | filled through the facade, read by the engine |
| facade (`FAC`) | positions of Tx and Rx (-100: not set), the engine | `addEdgeToGrids`, `clear`, `updateTx`, `updateRx`, `beginCUDA`, `getMapDataJSON` | called by the WebSocket server |
| WebSocket server (`ECHO`) | the clients, the facade, the last scene | one handler per message type: `vehicle`, `senario`, `mapData`, `runVPL`, `getMap`, `runMap`, `requireMapData`, `readCUDAInformation` | the browsers; one engine for all of them |
| CUDA engine (`Demo1/MyRayTracingCUDA.cu`) | device copies of the same arrays | the same operations, a thread per ray | compiled in, not used (FAC:56) |
| browser page: map loader (`READ`, drawing in `WGL`) | arrays of records and meshes, bounding box, scale, layer controls, all global | three kinds of loads, each one or two promise chains | draws into the scene, sends maps to the WebSocket server |
| browser page: placements (`WGL`) | mouse listeners, mode, click count, start point, message under construction, all global | menu entries, mouse move, click, right button | uses the box of the map loader, sends vehicles to the WebSocket server |
| browser page: messages (`WS`) | one socket, never opened again | send, receive | WebSocket server |
| HTTP listener, pool and handlers (`QtWebApp/httpserver`) | a pool of threads, each with a socket, a timer, a request and the flag `busy` | accept, assign, read, serve, time out, clean up, close | the main thread and the handlers share `busy`; handlers serve the page |
| HTTP sessions (`QtWebApp/httpserver`) | sessions with reference counts, the store | find, create, copy, remove, expire | shared by the handlers and the main thread |
| HTTP static files | file cache | read, expire | shared by the handlers |
| templates, logging, service wrapper (`QtWebApp/*`) | template cache, ring of messages per thread, log file | load, log, rotate | HTTP server |

All WebSocket messages are handled in the one event loop of the server, each to its
end, so the engine is never entered twice at once. The HTTP side is the part with
threads. The page is single-threaded, but its promise chains interleave wherever they wait
for the network.

### What is hard here, and what correctness means

* **Runs on old arrays.** `init()` clears `points` and `diffractionPoints` once.
  `initCUDAInput` no longer does (CPU:787-802 is commented out), so each run starts on
  whatever the runs before it recorded. The result of a run is nevertheless put
  together from these arrays. Correct: a run reports exactly the paths its rays took;
  a flag and the points it stands for agree; nothing is written outside an array.
* **Rays share memory.** The children of all rays share one flat array; the CUDA engine
  relies on rays being independent. Correct: no ray writes what belongs to another.
* **Endless rays.** The loop of a ray is `while(true)`. Correct: every run ends.
* **Partial failures of a map update.** A wall covers many cells, a full cell refuses it,
  and the result is handed up through three loops. Correct: after an update every wall
  is wherever the engine looks for it, nothing of an older map is left, and the client
  is told the truth.
* **Boundaries of the grid.** Coordinates are cut off at one end only and rounded
  towards zero.
* **Overlapping loads.** Chains of several loads push onto the same arrays and set the same
  box (READ:209-297), and a chain that fails leaves its records there. Correct: a map is
  drawn and sent whole and alone, roads lie on their buildings, and in the end page and
  server agree.
* **A placement that does not end as planned.** The menu can be used in the middle of one,
  the map can change between two clicks, and sending can throw or lose the message.
  Correct: a vehicle message is what the user asked for, and nothing is left for the next.
* **Slots within slots.** Qt calls `disconnected()` and `read()` from inside
  `waitForBytesWritten` (HAND:140, 189, 227, 272), so a slot goes on after the connection, the
  timer or the request it works on has gone. Correct: a handler has one connection at a
  time, and neither request, timer nor flag of an older one.
* **A flag without a lock.** `busy` is read and set by the main thread and cleared by the
  handler. Correct: no handler in use is given a connection or removed.
* **Handlers wait for clients** in loops that nothing but the client ends (HAND:140, 189, 272):
  one that stays and does not read may hold up its handler for ever. Correct: it holds up no
  other connection.
* **The main thread waits for handlers** (HAND:44, in `cleanup` and `close`). Correct: each of
  them ends unless such a client holds it up, which cannot happen in `cleanup`; and no
  connection goes down with a handler.
* **Sessions of several threads.** Reference counts that are changed under a read lock, and
  sessions that are looked at again after an unlock.

PROJECT.json lists every one of these at its line, with the properties that cover it
or the reason why none does.

## The modules

| module | models | rests on |
|---|---|---|
| `PathReport` | abstract specification: what a run promises to its caller, whatever traces the rays and in whatever order | - |
| `RayTracer` | the CPU engine: `init`, `updateTx`, `initCUDAInput`, `judgeIsTouchedCPU`, `judegTouchedDiffractionCPU` | instantiates `PathReport` |
| `RayTracerProofs` | theorems about `RayTracer` | extends it |
| `EdgeGrid` | the wall grid and its rebuilding: `clearGrids`, `updateEdges`, `addEdgeToGrids`, `updateMapData`, `updateScene` | - |
| `MCEdgeGrid` | values of its constants for TLC | extends it |
| `EdgeGridProofs` | theorems about `EdgeGrid` | extends it |
| `SceneService` | abstract specification: what the server promises its clients together | - |
| `EchoServer` | the WebSocket server, the facade, and several clients | composes `EdgeGrid` and `RayTracer`; instantiates `SceneService` |
| `MCEchoServer` | two clients and their messages for TLC | extends it |
| `EchoServerProofs` | theorems about `EchoServer`: it implements both parts, so that what is proved of them holds in it, and it implements `SceneService` | extends it, instantiates `RayTracerProofs` and `EdgeGridProofs` |
| `SessionStore` | the sessions of the HTTP server: reference counts, the store, its timer, and the threads that use them | - |
| `SessionStoreProofs` | theorems about `SessionStore` | extends it |
| `ConnectionPool` | listener, pool and handlers of the HTTP server: two kinds of threads, `busy`, timers, nested slots, cleanup and shutdown | - |
| `ConnectionPoolProofs` | theorems about `ConnectionPool` | extends it |
| `MapLoader` | the loads of maps in the page: promise chains over global arrays, drawing, messages | - |
| `MapLoaderProofs` | theorems about `MapLoader` | extends it |
| `VehiclePlacement` | placing vehicles with the mouse, in an environment that opens and closes the socket and changes the box | - |
| `VehiclePlacementProofs` | theorems about `VehiclePlacement` | extends it |
| `MapPage` | the page: loads and placements together | composes `MapLoader` and `VehiclePlacement` |
| `MapPageProofs` | the composed page implements both parts, and so has their properties | extends `MapPage` and `MapLoaderProofs`, instantiates `VehiclePlacementProofs` |

In every module a definition whose name ends in `_Mutant` is a plausible mistake in
the definition after it. It is not part of the specification; it is there to show
that a property fails when the code is wrong in that way.

### RayTracer

One step is one *event* of a ray: the ray's walk from cell to cell up to the next thing
the loop body does with it. The geometry decides which event it is and is abstracted to a
free choice among the branches of the loop body: `Reach` (CPU:594-602), `Reflect` and
`ExceedReflect` (657-731), `Corner` and `ExceedCorner` (605-656), `Inside` (674-686, the
wall is hit from behind), `Leave` (446-453). A corner starts the loop over the child
rays; its events are the actions `Child...`. `Collect` is the end of `initCUDAInput`.

| model | code |
|---|---|
| `points[i]`, `diffractionPoints[k]` | the same arrays; `.point` is the array up to `.N`, `.isFind` the flag |
| a point | its role (reflection, corner, receiver) and the run that recorded it; coordinates are left out |
| `pc`, `ray`, `child` | which loop is running, `i` of each loop |
| `pc = "undefined"` | a point was written behind `point[29]`; the model says nothing of what follows |
| `getResult` | the vector that was returned, each path with its ray and child, as a set |
| `leaked` | buffers of child rays that were malloc'ed and not freed |
| `run`, `walk`, `childWalk`, `dirty` | history: what really happened in this run, and which rays began it with something in their arrays |

Free choice means more behaviours than any map produces. The safety properties are
therefore shown for all maps, and also for maps and positions that change between runs.

### EdgeGrid

One step is one iteration of a loop: a message clears the grid (`Receive`), each wall is
opened (`OpenEdge`), each cell of its bounding box takes or refuses it (`Enter`,
`Refuse`), and the message is answered (`Answer`). A wall below the grid makes the index
negative (`WriteOutside`; `pc = "undefined"`). Columns below the grid do not: they end up
in the last column of the row below, as in the code. Coordinates are integers in any
unit, with `LENGTH` units to a cell, so positions inside a cell exist. The normal vector
of a wall is left out. `refused` and `map`, `kind`, `maps` are history.

### EchoServer

Clients connect, send, close or lose their connection at any time. The server takes up the
first message of some client when it has handled the last one (`Serve`), and handles it in
one step (`UpdateTx`, `UpdateRx`, `RefuseRun`, `Inform`) or in many: a map message is
`BeginMap`, the steps of `EdgeGrid` and `EndMap`; a run is `BeginRun`, the steps of
`RayTracer` and `EndRun`. The message stays at the head of `inbox` until it is handled. An
answer to a run is told by the scene it was computed in. `NotSet` stands for all positions
with a coordinate -100: the code cannot tell these from none. `start` is where the start
vectors of the engine lead from; `Tx`, `Rx` are the facade's. `lastMap` and `sent` are
history. Left out: the contents of the constant answers, `sceneDate` (never read), the
grid `runMap` fills, loses and does not use, and the page's reactions to the answers (it has
none for the type "Rays").

`SceneService` says what the clients together can rely on: each message is handled as if in
one step, in its sender's order, in the one scene all messages before it have left; only the
sender is answered. It promises no session: a client's run may well use another client's
transmitter or map.

### SessionStore

A step is what a thread does under one lock. A handler thread enters with a request (`Request`: the cookie names a session of the
past or present, or none) and goes through `getSession`, the return of the session, and the
end of its variables; it may call `removeSession` before. The main thread runs the timer's
loop. Both run the destructor of `HttpSession` at the end of a scope, and when an entry
leaves the map.

| model | code |
|---|---|
| `data[i]`, `refCount[i]`, `lastAccess[i]` | the `HttpSessionData` of session `i`: not yet made, there, or deleted |
| `handles` | the `HttpSession` objects that point to data and whose destructor has not counted down, named by the variable they are in |
| `sessions`, `mutex` | the keys of the map; who has the store's mutex |
| `readers[i]` | the destructors that hold the read lock of the data; the other uses of that lock are single steps |
| `drop[t]` | the destructor thread `t` is in: what it has loaded from `refCount`, and what comes next |
| `undefined` | a thread went on with deleted data; the model says nothing of what follows |

`refCount=--dataPtr->refCount` (httpsession.cpp:80) under a shared lock is a data race. The
outcomes a build can produce are a load, a store, and either the stored value in a register
or a second load. `lastAccess` is raced for too, but is a word that is read and written at
once. The copy `getSession` returns is not elided: it returns one of two variables. Which of
the expired sessions the timer takes first is left open. A new session takes any id not used
before; there are as many ids as requests, so they do not run out. `answered` and
`answeredAtLock` are history. Left out: the key/value pairs of a session, and `operator=`,
which nothing calls (its `refCount--` would never see 0).

### ConnectionPool

The threads of the HTTP server: the main thread accepts a connection (`Assign` to an idle
handler, `Create` a handler, or `Reject`), removes idle handlers (`Cleanup`) and closes the
server (`Close`, `DeletePool`); it waits in the destructor of a handler (`deleting`) until the
thread has ended (`Deleted`). Each handler runs its slots one at a time. Slots are cut where
Qt can call another slot inside them: while a controller writes (`pc = "service"`) and in
`waitForBytesWritten` (`pc = "drain"`).

| model | code |
|---|---|
| `pool`, `busy[h]` | the handlers of the pool, and `HttpConnectionHandler::busy` |
| `pending[h]` | calls of `handleConnection` in the queue of the thread's event loop |
| `sock[h]` | the connection the handler's socket is open for |
| `unsent[h]` | `bytesToWrite()` of the socket: none, some, or so much that a controller waits in `writeToSocket` (httpresponse.cpp:82) |
| `timer[h]` | `readTimer`: off, or started for this connection or for an older one |
| `request[h]` | `currentRequest`, as the set of connections its data came from |
| `pc[h]`, `why[h]` | the place in a slot; which slot it is in |
| `below[h]` | `read()` was called from inside `readTimeout()` |
| `quitting[h]` | `quit()` was called; the event loop ends after the present slot |
| `conn`, `inbox`, `gone` | the clients' connections, what they sent and nobody read, and who has left. `"lost"`: the socket could not be opened. A connection that waits in a queue when the thread ends stays `"waiting"`: nobody opens or closes it |
| `failed` | history: handlers whose socket could not be opened |

Left out: SSL and what the answer 503 says; which idle handler is first in the list is left
open. What a client sends is a piece that completes a request or not, or that makes it too
large; whether a connection is kept after the answer is left open. An answer is short, or longer than
the buffer a controller may fill. `Written` is the client's doing: while it does not read, a slot that
waits for bytes to be written (`AwaitsClient`) stays where it is. `Readers` are the clients of which
`ConnectionsEnd` assumes that they read; of the others nothing is assumed. A timer that runs may fire
at any time. Whether a piece restarts the timer is left open:
`read()` restarts it for pieces of a body only (HAND:176-182). The timer therefore bounds the
silence of a client, while its comment speaks of a "complete request"
(httpconnectionhandler.h:46).

### MapLoader

A load is started by `ParseDefaultfile` (a map of the page: buildings and roads),
`ParseFile` or `ParseRoadFile` (the user's files). Its chains then go on by themselves: `Read`
one record, `Fail`, or, after the last record, `DrawBuildings` or `DrawRoads`. What comes after
the last record (box, scale, drawing, message) is one step. In the code its parts are `.then`s of
one chain; only the microtasks of another chain can run in between, that is only if two loads
overlap, which the properties exclude. `parseFile` sends a second message, of type `senario`, after
its `mapData` (READ:163-167); both carry the same map, and `heard` stands for the two.

| model | code |
|---|---|
| `collected` | the arrays `features` and `roads`, as the records pushed and the loads they came from |
| `box`, `scale` | `xmin`...`ymax`, and `dividend`, as the load and file they were computed from |
| `current`, `shown` | the arrays `builidings` and `roadLines`; what is in the scene |
| `controls` | the layer controls of the gui, by which `parseDefaultfile` decides whether to clear (READ:191) |
| `sock`, `heard` | the socket, and the map the server was sent last |
| `label` | the map marked as active |
| `picture`, `alone` | history: what each chain drew and with which box; which loads ran without another |

Left out: how the user's files become buffers, coordinates, materials and fonts. The control
"ray", which `drawPath` would add, is left out because nothing calls `drawPath`.

### VehiclePlacement

`SetVehicle` and `SetTx` are the menu entries; `Place` is the click of a placement with one
point, `FirstPoint` and `SecondPoint` those of a moving vehicle; `Cancel` is the right button.
A position is told by the coordinates it is in: the scene's, or those of the bounding box in
force at the click. `Environment` stands for everybody who opens or closes the socket or changes
the box. Sending has its three outcomes: sent; dropped without a word; or an exception, after
which `stopListen` is not reached and the placement goes on with half of its message.
`asked`, `interrupted`, `threw` and `steady` are history.

### MapPage

The two parts of the page share `sock` and `box`. A step is a step of the loads, which is
`Environment` to a placement, or a step of a placement, which leaves the loads alone.
`MapPageProofs` shows that the page implements both.

## The runs

| run | question | bounds | why enough |
|---|---|---|---|
| `first_run` | Does a run on fresh arrays report exactly the rays' paths (by its abstract specification), independently, and end? | 2 rays with 2 children each, 2 reflections (1 after a corner), 4 points, 1 run | two rays and two children are what interference needs; each bound is passed by one |
| `repeated_runs` | What survives runs on the arrays of earlier runs? | 2 rays, 1 reflection (0 after a corner), 3 points, 3 runs | the third run is the first that can overrun an array of 3 |
| `found_rays_reached` | Is a ray with `isFind` one that reached the receiver (CPU:596)? No. | 1 ray, 2 runs | second run suffices |
| `dropped_only_when_exceeded` | Is a ray dropped for too many reflections only after too many (CPU:713)? No. | 1 ray, 2 runs | second run suffices |
| `maps` | Does a map message leave the grid as the engine needs it? | 2 x 2 cells of side 2, 2 walls per cell, 5 walls of all kinds, 2 maps of up to 3 walls | cells fill up with the third wall; the second map meets the first one's leftovers; walls on the border and below the grid by less and more than a cell |
| `success_means_stored` | Does "update map data succeed" (ECHO:228) mean that it did? No. | as above, 1 map | - |
| `clients` | Is the server `SceneService` to its clients, and is every message handled? | 2 clients, 7 kinds of messages, 4 messages in all, 1 ray, 1 cell | a scene and a run take three messages of one client; the fourth comes between, before or during the run; the parts are checked in their own runs |
| `cells_set_before_run` | Is the grid set before a run reads it (CPU:770)? No. | as above | - |
| `sessions` | Do the counts of sessions hold against racing threads, and the timer against sessions in use? | 2 handler threads and the timer, 2 requests, 1 timer event, a session expires when older than 0, the clock goes to 1 | with the timer three destructors meet on one session; one session used twice, or two; it expires before, between or after the requests |
| `locked_data_alive` | Is data there while its lock is held (httpsession.h:19)? No. | as above | - |
| `http_connections` | Does a handler serve one connection at a time, is every accepted connection in the hands of one handler, does each end, and does `close()` return, whatever the clients do? | 2 handlers of which cleanup keeps 1, 3 connections, the clients of 2 read what they are sent, 1 piece of a request | the second handler is what cleanup removes; the third connection is the first to wait for one or to be turned away, and every handler can be used twice. The client that need not read can hold up either handler, before or during `close()`, while the others go on. One piece makes a request that is unfinished, complete or too large |
| `map_loads` | Are maps drawn and sent whole and vehicles as asked for, in one page? | 1 map, 1 record in a file, 2 loads, 2 uses of the menu | two loads overlap or leave things to each other; two uses of the menu interrupt a placement or follow it. With 3 loads `MapLoader` alone also holds |

`MaxSend`, `MaxRuns`, `MaxLen`, `MaxMaps`, `MaxRequests`, `MaxEvents`, `MaxNow`, `MaxPieces`,
`Records`, `MaxLoads` and `MaxChoices` are bounds of the models, not of the code. Deadlock is
checked in `first_run` (`UpdateTx` is always possible when the engine is idle). In the
others the model stops at its bound, when the server is closed, or in `"undefined"`.

**Fairness.** `FairSpec` assumes weak fairness of the steps inside a handler only
(`TraceStep`, `Handle`, `Work`): a handler is straight code in a single thread, with nothing to
wait for, and runs on once entered. Nothing is assumed about clients: no message has to
come. The server's event loop polls every socket in each turn, so `EchoServer` assumes strong
fairness of serving each client: the action is disabled whenever another client is served,
and enabled again and again. `RunEnds` does not hold because of fairness alone: each event of
a ray must bring it nearer to a bound. That the walk between two events is finite is not shown.

`ConnectionPool` assumes weak fairness of each handler's slots together and of the
destructors (`Deleted`, `DeletePool`): threads are scheduled, controllers return once they have
written their answer, and a timer that runs fires. A slot that waits for its client is not enabled,
and a client need not read: fairness of `Written` is assumed for `Readers` only. `ConnectionsEnd`
therefore says nothing of the open connection of a client that stays and does not read, and
`ShutdownEnds` has a premise: no client keeps a handler waiting for ever. Without it `close()` may
hang. Nobody has to connect, send, leave, clean up or close. `ConnectionsEnd` holds because
the model's clients stop sending (`MaxPieces`): a client that goes on for ever keeps its
connection.

No liveness is stated of the page: a fetch has no timeout, so a load need not end.

**What the failing runs say.** (1) After a first run, a ray that found the receiver keeps
its flag and its points, and every later run reports that path again even if Tx, Rx or the
map have changed and the ray went somewhere else. (2) The points of earlier runs count
against `MAX_REFLECTION_TIMES`, so a later run drops rays early. (3) `updateFlag` and
`flag` are overwritten by each later wall and cell; only the last cell of the last wall
decides what the client is told. (4) A client that places Tx and Rx and asks for a run before
anyone has sent a map makes the engine read a grid that malloc left as it was. (5) The
destructor of a session counts down under a read lock. Of two at once, one may delete the
data, lock included, while the other still holds the lock; or a count is lost and the data
is never deleted.

**What holds.** A ray with empty arrays is reported exactly, in any run
(`ExactWhenClean`). The engine stays inside its arrays for the first
`Slots - MaxReflect` runs (30 - `MAX_REFLECTION_TIMES` in the code), and a path grows by at
most one point per run. A map update removes all trace of older maps, loses no wall except
to a full cell, and an error that is reported is real. However the destructors of a session
race, data is never deleted while a handle on it is left: an update that is lost can only
leave the count too high. No session that was used in time when the timer event began is
removed, and threads never wait for each other in a circle (`NoDeadlock` asks that some
thread is `Ready`: the guards of its next step hold; it needs no fairness). A handler is busy for exactly one reason, though its
flag has no lock; what a client left unfinished in it never becomes the beginning of the next
one's request, and each connection it waits on has a timer of its own running. Until
the server is closed every accepted connection is in the queue or the socket of exactly one handler
(`HeldByOne`): none is forgotten between the two, by `disconnected()` or by the destructor `cleanup`
calls. A client that neither reads nor leaves may hold up the handler of its own connection for
ever, and so `close()`, but no other connection and not `cleanup` (`NoConnectionStuck`). A handler whose
socket could not be opened stays busy for good (HAND:101): `BusyHasReason` names that as one of
the reasons.

The map of a load that ran alone is drawn and sent whole, whatever loads and failures came
before, and then label, box, scale, scene and server agree. Vehicle messages are what was asked
for last, and the points of a moving vehicle are on one map unless it was changed between the
clicks.

**What `close()` drops.** httplistener.h:67 says of `close()` that it "waits until all pending
requests are processed". It calls `quit()` for each handler (HAND:43), whose event loop ends after
the present slot. A connection still in its queue is never opened, though its client may have sent a
request, and its descriptor is not closed either. In the model `Stop` empties the queue and leaves
the connection `"waiting"`; this is why `HeldByOne` and `ConnectionsEnd` except connections that wait
when the server is closed.

**What the page's properties exclude**, because the code does not have it. Two loads that
overlap can mix their maps: both push onto one array, and the later one sends both. A load of
buildings that failed leaves its records to the next unless its roads were drawn. `setTx` in
the middle of the placement of a moving vehicle sends the transmitter as a point of that vehicle
(WGL:345). After a message that could not be sent, half of it is left in the next (WGL:269-274).
A map drawn while the socket is not open is never sent again. And the message of a moving vehicle
has no field `data`, in which the server looks for it (WGL:272, `ECHO`:274): the model has
positions, not envelopes, so no property speaks of it.

## The proofs

The proofs hold for all values of the constants that satisfy the named assumptions:
for `RayTracer`, at least one ray, `MaxAfterDiffraction <= MaxReflect` and an array with
room for `MaxReflect` points and two more (the code: 900 rays, array of 30); for
`EdgeGrid`, a grid of at least one cell of positive side and capacity, `Edges` any set of
walls with integer coordinates and `Junk` any contents a cell may have; for `EchoServer`, these
and any clients with any messages whose maps have at most `MaxLen` walls of `Edges`; for
`SessionStore`, any threads, bounds and ids, of which there are at least as many as requests (the code
draws a new UUID for each session); for `ConnectionPool`, finitely many handlers, any connections and
limits; for `MapLoader`, any maps, loads and at least one record in a file; for
`VehiclePlacement`, any boxes and types and no bound on the uses of the menu.

| theorem | property | argument |
|---|---|---|
| `RayTracerProofs!TypeCorrect` | `TypeOK` | inductive; `IndexInRange` keeps `i*N + m` inside the array |
| `FoundCorrect` | `FoundIffRx` | inductive with the type invariant |
| `RaysAreIndependent` | `RaysIndependent` | `Index` is injective: rows of length N do not overlap |
| `BudgetKept`, `NoOverrunInFirstRuns` | `WithinBudget`, `NoEarlyOverrun` | `NoEarlyOverrun` is not inductive; `WithinBudget` is: a path has at most its bound plus one point per run, and one less while its ray is still ahead in this run |
| `LeakBounded` | `LeakBound` | strengthened to `LeakSoFar`, which counts the rays the run has passed |
| `AgreementKept`, `ResultExact` | `ExactWhenClean` | `Agreement`: for each ray that began clean, the arrays say what ray and children have done so far; the children of a ray that met no corner have not started |
| `CleanRaysFoundReached`, `CleanRaysDroppedWhenExceeded` | - | what is true of the statements of the two failing runs: they hold, in every run, of the rays whose arrays were empty when it began. From `Agreement`: the points of such a ray are its trail in this run |
| `RunsAreBounded` | - | the safety half of `RunEnds`: `StepsLeft` adds up the rays ahead and the room each bound on N leaves to ray and child; each step of a run lowers it, and a run begins with at most `N * RaySteps + 1` |
| `FirstRunIsPathReport` | `FirstRunImplementsPathReport` | for `MaxRuns = 1`. `FirstRun`: nothing was recorded before, so every ray is clean, and a trail has as many reflections as the bounds on N let through. The end of a ray's loop body is `Trace`, and what it found is one of the outcomes `PathReport` allows; all other steps leave the outcomes of the rays passed alone |
| `EdgeGridProofs!TypeCorrect`, `CellsCorrect` | `TypeOK`, `CellsWellFormed` | inductive |
| `OldWallsGone`, `WallsAreKept` | `NoOldWalls`, `WallsStay` | what `Enter` does to the contents of a cell (`EnterEffect`) |
| `WallsAreEntered` | `EveryWallEntered` | `EnteredSoFar`: the loops have entered the wall in every cell they have passed; `PointInBox`: the cell of any point of the wall is in the box the loops run over, by monotony of rounding towards zero |
| `WritesInside` | `InsideUnlessBelow` | `IndexInRange`, for walls not below the grid |
| `FailureIsReal` | `FailureMeansRefused` | the flags are false only after a refusal in this message |
| `AnswersTellLastCell` | - | what is true of `SuccessMeansStored`: the answer is about the last cell of the last wall. `AnswerSoFar`: between two walls the flag is that of the last cell of the wall before (`LastCellIsLast`) |
| `WallsOnlyInBox`, `EachCellOnce` | - | the counterpart of `EveryWallEntered`: no cell outside the box gets the wall, and `updateEdges` is called once per cell of it. `CellsLeft` counts the cells ahead in the rectangle (`BoxCounted`): the safety half of `MessageEnds` |
| `HandlersExclude`, `RunsStartAtTx`, `RunsSeeOneScene` | `RaysStartAtTx`, `OneSceneARun` | inductive `IInv`: one handler at a time, a run only with both positions set, `start = Tx` once set; the lemmas say that steps inside a handler do not end it |
| `ServerIsEngine`, `ServerIsGrid` | - | every step of the server is a step, or no step, of each part; `SockInv`: while a handler is under way its message is still at the head of the queue, and every queued map is one the grid takes |
| `EngineInServer`, `GridInServer`, `EchoServerProofs!TypeCorrect` | -, -, `TypeOK` | from the two before and the theorems about the parts |
| `ServerIsService` | `ImplementsSceneService` | the last step of a handler is `Handle` of `SceneService`, the steps before it are stutters; `Seen`: what a map handler has read so far is its own message, so that the scene it leaves is the one `Handle` names |
| `SessionStoreProofs!TypeCorrect`, `CountsCover`, `HandlesStayAlive` | `TypeOK`, `CountCovers`, `HandlesAlive` | `Heap`: what a destructor has loaded covers the handles as long as it holds the read lock, for nobody counts up meanwhile (`Counted`), and whoever is about to delete knows that no handle is left (`Last`); `Control`: every variable in scope and every entry of the map has its handle, and no two destructors run on one |
| `ActiveSessionsKept` | `ActiveSessionKept` | `Fresh`: `lastAccess` is when the session was last handed out, and only grows |
| `NoThreadStuck` | `NoDeadlock` | a running destructor waits for nothing, and only running destructors hold the locks of sessions (`Reading`), so that no lock is taken when none runs; whoever has the mutex is in the code that gives it back (`Owner`) and can go on there; if nobody has it, anybody can go on. An id is left for every request still under way (`Births`) |
| `ConnectionPoolProofs!TypeCorrect`, `BusyForAReason`, `RequestsNotMixed`, `EveryConnectionTimed` | `TypeOK`, `BusyHasReason`, `OwnRequest`, `TimerRuns` | `HandlerInv`, one handler at a time: a slot of one handler leaves all others alone (`SlotOwn`). Neither property is inductive: that the request and the timer are the connection's own depends on where in its slots a handler can be when `busy` is cleared, and that on `busy` having a reason |
| `EveryConnectionHeld` | `HeldByOne` | `Owned`: a connection that heads a queue waits, one that waits heads one queue unless the server is closed, and one is open exactly when one socket has it. A thread that ends with a connection in its queue was told to by `close()`: in `cleanup` its handler is not busy (`OwnedStopped`); with `HandlerInv` a queue has one entry at most (`QueueOfOne`), so that the head is all of it |
| `NoConnectionStuck` | - | the safety half of `ConnectionsEnd` and `ShutdownEnds`: the handler of an open connection has a slot it can run (by `TimerRuns` at least the timer) or waits for the client of this very connection; the handler of one in a queue, and the one `cleanup` waits for, have no socket open, so that nothing is unsent and they wait for no client; the main thread waits in destructors only for threads it told to end (`WaitsForQuitting`), and only in `close()` for one that a client holds up |
| `MapLoaderProofs!TypeCorrect`, `WholeMapAlways`, `PageSettles`, `RoadsFitAlways` | `TypeOK`, `WholeMapSent`, `SettledPage`, `RoadsFit` | what a load that runs alone finds depends on everything before it. `Shape`: loads that overlap are not alone, and records in the arrays belong to loads that put them there. `Page`: the box is the last default load's as long as no other was drawn, and it has one control. `Scene` and `Whole`: whenever something was drawn and not cleared there is a control to show it, so that the next load clears the arrays |
| `VehiclePlacementProofs!TypeCorrect`, `NothingLeftBehind`, `SecondClickHasStart`, `MessageAsAsked`, `PointsOnOneMap` | `TypeOK`, -, -, `VehicleAsAsked`, `OneFrame` | `IdleIsClean`: a placement that has ended left nothing; `Follows`: the mode the clicks are taken for is the one asked for unless `setTx` interrupted; `Points`: where the locations of an unfinished message come from |
| `MapPageProofs!PageIsLoader`, `PageIsPlacement` | - | every step of the page is a step, or no step, of each part |
| `PageTypes`, `PageSendsWholeMaps`, `SettledPages`, `PageRoadsFit`, `PagePlacesAsAsked`, `PagePointsOnOneMap` | `PageTypeOK`, `WholeMapSent`, `SettledPage`, `RoadsFit`, `VehicleAsAsked`, `OneFrame` | from the two before and the theorems about the parts |

Only model-checked: the liveness properties `RunEnds`, `MessageEnds`, `MessagesHandled`,
`ConnectionsEnd` and `ShutdownEnds`: reasoning with fairness, and ENABLED, are out of the prover's
reach. What they rest on besides fairness is proved where it is not plain: that a run and the loops
of a map message come to an end (`RunsAreBounded`, `EachCellOnce`), and that whoever is waited for can
go on, or waits for one client that neither reads nor leaves (`NoConnectionStuck`). `NoDeadlock` and `NoConnectionStuck` name the guards of a step (`Ready`)
instead of ENABLED. No module declares a RECURSIVE operator, and no proof
uses induction over data. The statements of the failing runs are false and so not proved; what is true
of three of them is (`CleanRaysFoundReached`, `CleanRaysDroppedWhenExceeded`, `AnswersTellLastCell`).

## Not modelled, and why

* **The geometry of the walk** (`CPU`: the step from cell to cell, the intersection test).
  It is floating-point arithmetic, out of reach of both tools; an integer version would be
  another algorithm. Its outcomes are the events of `RayTracer`. The lines CPU:542, 579, 640
  and 900 are listed as hazards without a property.
* **The CUDA engine**: compiled in and not used (FAC:56). What a thread per ray needs of the
  common structure is `RaysIndependent`.
* **The file cache and the template cache**: one function each, reading and filling a `QCache`
  under a mutex. The one use after the unlock (templatecache.cpp:26) is listed as a hazard; what
  goes wrong there is the eviction policy of `QCache` and freed memory.
* **Parsing of requests, formatting of responses, cookies, templates**: `ConnectionPool` uses
  what the outcome lets a handler do.
* **Controllers, logging, service wrapper, start-up**: demonstrations, output, or code that no
  part of the program depends on.
* **Drawing** (`webgl.js` beside loads and placements, `echart.js`), reading the user's files into
  buffers, and the models of vehicles that are added to the scene when they have been loaded.
* **Third-party assets**: three.js, jQuery, Bootstrap and their plugins are nearly all (about 97
  of 100) of the lines of JavaScript in the repository. They are not this program.
