---------------------------- MODULE SessionStore ----------------------------
(***************************************************************************)
(* The sessions of the HTTP server (QtWebApp/httpserver/httpsession.cpp    *)
(* and httpsessionstore.cpp).  An HttpSession is a handle on data that all *)
(* handles of a session share and count; the store keeps one handle per    *)
(* session.  Handler threads get, use and remove sessions; the timer of    *)
(* the main thread removes the expired ones.                               *)
(*                                                                         *)
(* A step is what a thread does under one lock.  The destructor counts     *)
(* down under the read lock, which other readers may hold too; so each of  *)
(* its accesses to refCount is a step.  No compiler has to leave out the   *)
(* copy that getSession returns, and most do not.  The contents of a       *)
(* session are left out, and operator=, which nothing here calls.          *)
(***************************************************************************)
EXTENDS Integers, FiniteSets

CONSTANTS
  Threads,            \* the handler threads
  Timer, Store,       \* the main thread; the owner of the handles in the map
  Ids, NoId,          \* session ids; the empty id
  NoHandle, Nobody,   \* no handle is being destroyed; the mutex is free
  expirationTime,
  MaxRequests, MaxEvents, MaxNow  \* bounds of the model

ASSUME OwnersAssumption == Timer \notin Threads /\ Store \notin Threads \cup {Timer}
ASSUME IdsAssumption    == NoId \notin Ids
ASSUME NobodyAssumption == Nobody \notin Threads \cup {Timer}
ASSUME BoundsAssumption == /\ expirationTime \in Nat /\ MaxNow \in Nat
                           /\ MaxRequests \in Nat /\ MaxEvents \in Nat
(* The bounds leave an id for every request.                               *)
ASSUME FreshIdsAssumption ==
  \A S \in SUBSET Ids : IsFiniteSet(S) /\ Cardinality(S) < MaxRequests => S # Ids

All    == Threads \cup {Timer}
Owners == All \cup {Store}
Names  == {"entry", "session", "result", "param"}   \* the variable it is in
Handle == [owner : Owners, name : Names, id : Ids]

Local(t, name, i) == [owner |-> t, name |-> name, id |-> i]
Entry(i) == Local(Store, "entry", i)

ASSUME HandleAssumption == NoHandle \notin Handle

VARIABLES
  data,        \* of each session: unborn, alive, deleted
  refCount, lastAccess,
  readers,     \* the destructors that hold the read lock of the data
  handles,     \* the HttpSession objects that count
  sessions,    \* the keys of the map
  mutex,       \* of the store
  now,
  pc,          \* of each thread
  id,          \* the session the thread is dealing with
  create,      \* allowCreate
  drop,        \* the destructor the thread is in
  timerNow, todo,       \* `now` and what is left of the loop in sessionTimerEvent
  requests, events,     \* bounds
  undefined    \* a thread has used deleted data: nothing is said of the rest

(* History: when getSession was last done with a session, and what that    *)
(* was when the running timer event took the mutex.                        *)
VARIABLES answered, answeredAtLock

count == <<data, refCount, handles>>
timer == <<timerNow, todo, answeredAtLock, events>>
vars  == <<count, readers, lastAccess, sessions, mutex, now, pc, id, create, drop, timer,
           requests, undefined, answered>>

NoDrop == [phase |-> "none", handle |-> NoHandle, count |-> 0]

Init == /\ data = [i \in Ids |-> "unborn"]
        /\ refCount = [i \in Ids |-> 0] /\ lastAccess = [i \in Ids |-> 0]
        /\ readers = [i \in Ids |-> {}]
        /\ handles = {} /\ sessions = {}
        /\ mutex = Nobody
        /\ now = 0
        /\ pc = [t \in All |-> "idle"]
        /\ id = [t \in All |-> NoId]
        /\ create = [t \in Threads |-> FALSE]
        /\ drop = [t \in All |-> NoDrop]
        /\ timerNow = 0 /\ todo = {}
        /\ requests = 0 /\ events = 0
        /\ undefined = FALSE
        /\ answered = [i \in Ids |-> 0] /\ answeredAtLock = [i \in Ids |-> 0]

-----------------------------------------------------------------------------
(* HttpSession: copies and destructors.                                    *)

(* Thread t is at l, with no destructor running.                           *)
At(t, l) == pc[t] = l /\ drop[t].phase = "none"
Goto(t, l) == pc' = [pc EXCEPT ![t] = l]

CanWrite_Mutant(i) == TRUE   \* counts up under the read lock
CanWrite(i) == readers[i] = {}

(* The copy constructor.                                                   *)
Copy(h) == /\ CanWrite(h.id)
           /\ handles' = handles \cup {h}
           /\ refCount' = [refCount EXCEPT ![h.id] = @ + 1]
           /\ UNCHANGED <<data, readers>>

(* The destructor of h: it takes the read lock, and then come the accesses *)
(* of refCount = --dataPtr->refCount.  The first is the load.              *)
Destroy(t, h) == /\ readers' = [readers EXCEPT ![h.id] = @ \cup {t}]
                 /\ drop' = [drop EXCEPT ![t] =
                       [phase |-> "store", handle |-> h, count |-> refCount[h.id]]]
                 /\ UNCHANGED count

(* The end of the scope of a local variable.                               *)
EndScope(t, from, name, to) ==
  /\ At(t, from)
  /\ Destroy(t, Local(t, name, id[t]))
  /\ id' = [id EXCEPT ![t] = IF to = "idle" THEN NoId ELSE @]
  /\ Goto(t, to)
  /\ UNCHANGED <<lastAccess, sessions, mutex, now, create, timer, requests, undefined,
                 answered>>

Dying(t) == drop[t].handle
Data(t)  == Dying(t).id
OutsideDestructor == <<lastAccess, sessions, mutex, now, pc, id, create, timer,
                       requests, answered>>

(* The build may keep the result in a register or read it back.            *)
StoreCount(t) ==
  /\ drop[t].phase = "store"
  /\ refCount' = [refCount EXCEPT ![Data(t)] = drop[t].count - 1]
  /\ handles' = handles \ {Dying(t)}
  /\ \E next \in {"reload", "unlock"} :
       drop' = [drop EXCEPT ![t].phase = next, ![t].count = @ - 1]
  /\ UNCHANGED <<data, readers, undefined, OutsideDestructor>>

Reload(t) ==
  /\ drop[t].phase = "reload" /\ data[Data(t)] = "alive"
  /\ drop' = [drop EXCEPT ![t].phase = "unlock", ![t].count = refCount[Data(t)]]
  /\ UNCHANGED <<count, readers, undefined, OutsideDestructor>>

IsLast_Mutant(n) == n <= 1   \* compares what it was before
IsLast(n) == n = 0

Unlock(t) ==
  /\ drop[t].phase = "unlock" /\ data[Data(t)] = "alive"
  /\ readers' = [readers EXCEPT ![Data(t)] = @ \ {t}]
  /\ drop' = [drop EXCEPT ![t] = IF IsLast(@.count) THEN [@ EXCEPT !.phase = "delete"] ELSE NoDrop]
  /\ UNCHANGED <<count, undefined, OutsideDestructor>>

Delete(t) ==
  /\ drop[t].phase = "delete" /\ data[Data(t)] = "alive"
  /\ data' = [data EXCEPT ![Data(t)] = "deleted"]
  /\ drop' = [drop EXCEPT ![t] = NoDrop]
  /\ UNCHANGED <<refCount, readers, handles, undefined, OutsideDestructor>>

(* The data went away under the destructor.                                *)
TouchDeleted(t) ==
  /\ drop[t].phase \in {"reload", "unlock", "delete"} /\ data[Data(t)] = "deleted"
  /\ undefined' = TRUE
  /\ UNCHANGED <<count, readers, drop, OutsideDestructor>>

Destructor(t) == \/ StoreCount(t) \/ Reload(t) \/ Unlock(t) \/ Delete(t)
                 \/ TouchDeleted(t)

-----------------------------------------------------------------------------
(* HttpSessionStore, from a handler thread.                                *)

InHandler == <<lastAccess, sessions, now, timer, undefined>>

(* A request whose cookie names a session of the past or present or none,  *)
(* or a call of getSession by id.                                          *)
Request(t) ==
  /\ At(t, "idle") /\ requests < MaxRequests
  /\ requests' = requests + 1
  /\ \E c \in {i \in Ids : data[i] # "unborn"} \cup {NoId} :
       id' = [id EXCEPT ![t] = c]
  /\ \/ \E a \in BOOLEAN : /\ create' = [create EXCEPT ![t] = a]
                           /\ Goto(t, "getSessionId")
     \/ /\ create' = [create EXCEPT ![t] = FALSE]
        /\ Goto(t, "getSession")
  /\ UNCHANGED <<count, readers, mutex, drop, answered, InHandler>>

GetSessionId(t) ==
  /\ At(t, "getSessionId") /\ mutex = Nobody
  /\ id' = [id EXCEPT ![t] = IF @ \in sessions THEN @ ELSE NoId]
  /\ Goto(t, "getSession")
  /\ UNCHANGED <<count, readers, mutex, create, drop, requests, answered, InHandler>>

LockStore(t) ==
  /\ At(t, "getSession") /\ mutex = Nobody
  /\ mutex' = t
  /\ Goto(t, "locked")
  /\ UNCHANGED <<count, readers, id, create, drop, requests, answered, InHandler>>

Find(t) ==
  /\ At(t, "locked") /\ id[t] \in sessions
  /\ Copy(Local(t, "session", id[t]))
  /\ mutex' = Nobody
  /\ Goto(t, "found")
  /\ UNCHANGED <<id, create, drop, requests, answered, InHandler>>

Prolonged_Mutant(i) == lastAccess
Prolonged(i) == [lastAccess EXCEPT ![i] = now]

(* The session was handed out with the mutex already released.             *)
SetLastAccess(t) ==
  /\ At(t, "found")
  /\ lastAccess' = Prolonged(id[t])
  /\ answered' = [answered EXCEPT ![id[t]] = now]
  /\ Goto(t, "return")
  /\ UNCHANGED <<count, readers, sessions, mutex, now, id, create, drop, timer,
                 requests, undefined>>

Unborn == {i \in Ids : data[i] = "unborn"}

InitialCount_Mutant == 1   \* forgets the copy in the map
InitialCount == 2

(* A new id; one handle in `session`, one in the map.                      *)
Create(t) ==
  /\ At(t, "locked") /\ id[t] \notin sessions /\ create[t]
  /\ Unborn # {}
  /\ LET i == CHOOSE u \in Unborn : TRUE IN
       /\ data' = [data EXCEPT ![i] = "alive"]
       /\ refCount' = [refCount EXCEPT ![i] = InitialCount]
       /\ handles' = handles \cup {Local(t, "session", i), Entry(i)}
       /\ lastAccess' = [lastAccess EXCEPT ![i] = now]
       /\ answered' = [answered EXCEPT ![i] = now]
       /\ sessions' = sessions \cup {i}
       /\ id' = [id EXCEPT ![t] = i]
  /\ mutex' = Nobody
  /\ Goto(t, "return")
  /\ UNCHANGED <<readers, now, create, drop, timer, requests, undefined>>

(* Keeps the mutex.                                                        *)
NotFound_Mutant(t) ==
  /\ At(t, "locked") /\ id[t] \notin sessions /\ ~create[t]
  /\ id' = [id EXCEPT ![t] = NoId]
  /\ Goto(t, "idle")
  /\ UNCHANGED <<count, readers, create, drop, requests, answered, InHandler, mutex>>

NotFound(t) ==
  /\ At(t, "locked") /\ id[t] \notin sessions /\ ~create[t]
  /\ mutex' = Nobody
  /\ id' = [id EXCEPT ![t] = NoId]
  /\ Goto(t, "idle")
  /\ UNCHANGED <<count, readers, create, drop, requests, answered, InHandler>>

(* return session: a copy, and the end of `session`.                       *)
Return(t) ==
  /\ At(t, "return")
  /\ Copy(Local(t, "result", id[t]))
  /\ Goto(t, "returned")
  /\ UNCHANGED <<mutex, id, create, drop, requests, answered, InHandler>>

(* removeSession(session): the argument is a copy.                         *)
CallRemove(t) ==
  /\ At(t, "using")
  /\ Copy(Local(t, "param", id[t]))
  /\ Goto(t, "removeSession")
  /\ UNCHANGED <<mutex, id, create, drop, requests, answered, InHandler>>

RemoveEntry(t) ==
  /\ At(t, "removeSession") /\ mutex = Nobody
  /\ mutex' = t
  /\ sessions' = sessions \ {id[t]}
  /\ IF id[t] \in sessions THEN Destroy(t, Entry(id[t]))
                           ELSE UNCHANGED <<count, readers, drop>>
  /\ Goto(t, "unlock")
  /\ UNCHANGED <<lastAccess, now, id, create, timer, requests, undefined, answered>>

UnlockStore(t) ==
  /\ At(t, "unlock")
  /\ mutex' = Nobody
  /\ Goto(t, "unlocked")
  /\ UNCHANGED <<count, readers, id, create, drop, requests, answered, InHandler>>

Handler(t) == \/ GetSessionId(t) \/ LockStore(t)
              \/ Find(t) \/ SetLastAccess(t) \/ Create(t) \/ NotFound(t)
              \/ Return(t) \/ EndScope(t, "returned", "session", "using")
              \/ CallRemove(t) \/ RemoveEntry(t) \/ UnlockStore(t)
              \/ EndScope(t, "unlocked", "param", "removed")
              \/ \E l \in {"using", "removed"} : EndScope(t, l, "result", "idle")

-----------------------------------------------------------------------------
(* sessionTimerEvent, in the main thread.                                  *)

InTimer == <<lastAccess, now, create, requests, undefined, answered>>

TimerEvent ==
  /\ At(Timer, "idle") /\ mutex = Nobody /\ events < MaxEvents
  /\ mutex' = Timer
  /\ events' = events + 1
  /\ timerNow' = now /\ todo' = sessions /\ answeredAtLock' = answered
  /\ Goto(Timer, "loop")
  /\ UNCHANGED <<count, readers, sessions, id, drop, InTimer>>

NextSession ==
  /\ At(Timer, "loop")
  /\ \E i \in todo : /\ Copy(Local(Timer, "session", i))
                     /\ id' = [id EXCEPT ![Timer] = i]
                     /\ todo' = todo \ {i}
  /\ Goto(Timer, "expired?")
  /\ UNCHANGED <<sessions, mutex, drop, timerNow, answeredAtLock, events, InTimer>>

Expired(i) == timerNow - lastAccess[i] > expirationTime

Check ==
  /\ At(Timer, "expired?")
  /\ Goto(Timer, IF Expired(id[Timer]) THEN "erase" ELSE "next")
  /\ UNCHANGED <<count, readers, sessions, mutex, id, drop, timer, InTimer>>

(* The session may have been used since it was found to be expired.        *)
Erase ==
  /\ At(Timer, "erase")
  /\ sessions' = sessions \ {id[Timer]}
  /\ Destroy(Timer, Entry(id[Timer]))
  /\ Goto(Timer, "next")
  /\ UNCHANGED <<mutex, id, timer, InTimer>>

EndTimerEvent ==
  /\ At(Timer, "loop") /\ todo = {}
  /\ mutex' = Nobody
  /\ id' = [id EXCEPT ![Timer] = NoId]
  /\ timerNow' = 0 /\ answeredAtLock' = [i \in Ids |-> 0]
  /\ Goto(Timer, "idle")
  /\ UNCHANGED <<count, readers, sessions, drop, todo, events, InTimer>>

TimerStep == \/ NextSession \/ Check \/ Erase
             \/ EndScope(Timer, "next", "session", "loop") \/ EndTimerEvent

Advance == /\ now < MaxNow
           /\ now' = now + 1
           /\ UNCHANGED <<count, readers, lastAccess, sessions, mutex, pc, id, create, drop,
                          timer, requests, undefined, answered>>

Working(t) == Destructor(t) \/ (t \in Threads /\ Handler(t)) \/ (t = Timer /\ TimerStep)

Next == /\ ~undefined
        /\ \/ \E t \in Threads : Request(t)
           \/ \E t \in All : Working(t)
           \/ TimerEvent
           \/ Advance

Spec == Init /\ [][Next]_vars
-----------------------------------------------------------------------------
Phases == {"none", "store", "reload", "unlock", "delete"}
Places == {"idle", "getSessionId", "getSession", "locked", "found", "return", "returned",
           "using", "removeSession", "unlock", "unlocked", "removed",
           "loop", "expired?", "erase", "next"}

(* The variables have their types; no reference count is negative.         *)
TypeOK ==
  /\ data \in [Ids -> {"unborn", "alive", "deleted"}]
  /\ refCount \in [Ids -> Nat] /\ lastAccess \in [Ids -> Nat]
  /\ readers \in [Ids -> SUBSET All]
  /\ handles \subseteq Handle /\ sessions \subseteq Ids
  /\ mutex \in All \cup {Nobody} /\ now \in Nat
  /\ pc \in [All -> Places] /\ id \in [All -> Ids \cup {NoId}]
  /\ create \in [Threads -> BOOLEAN]
  /\ drop \in [All -> [phase : Phases, handle : Handle \cup {NoHandle}, count : Int]]
  /\ timerNow \in Nat /\ todo \subseteq Ids
  /\ requests \in Nat /\ events \in Nat /\ undefined \in BOOLEAN
  /\ answered \in [Ids -> Nat] /\ answeredAtLock \in [Ids -> Nat]

HandlesOn(i) == {h \in handles : h.id = i}

(* The count of a session is never below its handles, although             *)
(* destructors may run into each other and lose an update                  *)
(* (httpsession.cpp:80): a lost update can only leave it too high.         *)
CountCovers == \A i \in Ids : data[i] = "alive" => refCount[i] >= Cardinality(HandlesOn(i))

(* So no data is deleted while a handle on it is left, in a thread or in   *)
(* the map of the store.                                                   *)
HandlesAlive ==
  /\ \A h \in handles : data[h.id] = "alive"
  /\ \A i \in sessions : Entry(i) \in handles

(* A session that a request had used within expirationTime when the timer  *)
(* event began is not removed by that event (httpsessionstore.cpp:68, and  *)
(* releasenotes.txt:132), whatever requests are on their way.              *)
ActiveSessionKept ==
  pc[Timer] = "erase" => timerNow - answeredAtLock[id[Timer]] > expirationTime

(* Thread t need not wait: the guards of Working(t), the mutex and the     *)
(* locks of the sessions among them.                                       *)
Ready(t) ==
  \/ drop[t].phase # "none"
  \/ /\ t \in Threads
     /\ \/ pc[t] \in {"found", "returned", "using", "unlock", "unlocked", "removed"}
        \/ pc[t] \in {"getSessionId", "getSession", "removeSession"} /\ mutex = Nobody
        \/ pc[t] = "locked" /\ IF id[t] \in sessions THEN CanWrite(id[t])
                                                     ELSE create[t] => Unborn # {}
        \/ pc[t] = "return" /\ CanWrite(id[t])
  \/ /\ t = Timer
     /\ \/ pc[t] \in {"expired?", "erase", "next"}
        \/ pc[t] = "loop" /\ (todo = {} \/ \E i \in todo : CanWrite(i))

(* As long as a thread is at work, one can go on: no return path keeps the *)
(* mutex, and the mutex and the locks of the sessions are never waited for *)
(* in a circle, although a copy is made, and a handle in the map destroyed,*)
(* with the mutex held (httpsessionstore.cpp:58, 109, 114, 125).           *)
NoDeadlock ==
  (~undefined /\ \E t \in All : ~At(t, "idle")) => \E t \in All : Ready(t)

(* "This class is thread safe" (httpsession.h:19): the data of a session   *)
(* is there as long as a thread holds its lock.                            *)
LockedDataAlive == \A i \in Ids : readers[i] # {} => data[i] = "alive"
=============================================================================
