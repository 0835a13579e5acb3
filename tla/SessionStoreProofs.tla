------------------------- MODULE SessionStoreProofs -------------------------
(***************************************************************************)
(* Proofs about SessionStore: for any number of threads, sessions and      *)
(* requests, no count falls below the handles it counts, no data goes away *)
(* under a handle, no session in use expires, and there is always a thread *)
(* that need not wait.                                                     *)
(***************************************************************************)
EXTENDS SessionStore, FiniteSetTheorems, TLAPS

(* The handles of a session are finitely many. *)
Fin == IsFiniteSet(handles)

Alive == \A h \in handles : data[h.id] = "alive"

(* What a destructor has loaded still covers the handles, its own among    *)
(* them: while it holds the read lock nobody counts up.                    *)
Counted == \A t \in All : drop[t].phase = "store" =>
             /\ Dying(t) \in handles
             /\ t \in readers[Data(t)]
             /\ drop[t].count >= Cardinality(HandlesOn(Data(t)))

(* Whoever is about to delete the data knows that no handle is left.       *)
Last == \A t \in All : drop[t].phase \in {"reload", "unlock", "delete"} =>
          /\ Dying(t) \in Handle /\ data[Data(t)] # "unborn"
          /\ (drop[t].phase = "delete" \/ (drop[t].phase = "unlock" /\ drop[t].count = 0))
               => HandlesOn(Data(t)) = {}

Heap == Fin /\ CountCovers /\ Alive /\ Counted /\ Last

HeapType == /\ data \in [Ids -> {"unborn", "alive", "deleted"}]
            /\ refCount \in [Ids -> Nat]
            /\ readers \in [Ids -> SUBSET All]
            /\ handles \subseteq Handle
            /\ drop \in [All -> [phase : Phases, handle : Handle \cup {NoHandle}, count : Int]]

-----------------------------------------------------------------------------
On(S, i) == {h \in S : h.id = i}

(* Adding one handle to a finite set of them adds at most one to a count.  *)
LEMMA CardinalityOfMore ==
  ASSUME NEW S, IsFiniteSet(S), NEW h, NEW i
  PROVE  LET A == On(S, i)
             B == On(S \cup {h}, i)
         IN  /\ IsFiniteSet(S \cup {h})
             /\ Cardinality(A) \in Nat /\ Cardinality(B) \in Nat
             /\ h.id # i => B = A
             /\ Cardinality(B) <= Cardinality(A) + 1
<1> DEFINE A == On(S, i)
           B == On(S \cup {h}, i)
<1>1. IsFiniteSet(S \cup {h})
  BY FS_AddElement
<1>2. IsFiniteSet(A) /\ IsFiniteSet(B)
  BY <1>1, FS_Subset DEF On
<1>3. h.id # i => B = A
  BY DEF On
<1>4. h.id = i => B = A \cup {h}
  BY DEF On
<1> HIDE DEF A, B
<1>5. Cardinality(A) \in Nat /\ Cardinality(B) \in Nat
  BY <1>2, FS_CardinalityType
<1>6. Cardinality(A \cup {h}) = IF h \in A THEN Cardinality(A) ELSE Cardinality(A) + 1
  BY <1>2, FS_AddElement
<1>7. Cardinality(B) <= Cardinality(A) + 1
  BY <1>3, <1>4, <1>5, <1>6
<1> QED BY <1>1, <1>3, <1>5, <1>7 DEF A, B

(* Taking one out takes one from the count of its session and nothing from *)
(* the others.                                                             *)
LEMMA CardinalityOfLess ==
  ASSUME NEW S, IsFiniteSet(S), NEW h \in S, NEW i
  PROVE  LET A == On(S, i)
             B == On(S \ {h}, i)
         IN  /\ IsFiniteSet(S \ {h})
             /\ Cardinality(A) \in Nat /\ Cardinality(B) \in Nat
             /\ Cardinality(B) <= Cardinality(A)
             /\ h.id = i => Cardinality(B) = Cardinality(A) - 1
             /\ Cardinality(B) = 0 => B = {}
             /\ h.id # i => B = A
             /\ B \subseteq A
<1> DEFINE A == On(S, i)
           B == On(S \ {h}, i)
<1>1. IsFiniteSet(S \ {h}) /\ IsFiniteSet(A) /\ IsFiniteSet(B)
  BY FS_Subset DEF On
<1>2. (h.id # i => B = A) /\ B \subseteq A
  BY DEF On
<1>3. h.id = i => B = A \ {h} /\ h \in A
  BY DEF On
<1> HIDE DEF A, B
<1>4. Cardinality(A) \in Nat /\ Cardinality(B) \in Nat
  BY <1>1, FS_CardinalityType
<1>5. Cardinality(B) = 0 => B = {}
  BY <1>1, FS_EmptySet
<1>6. h \in A => Cardinality(A \ {h}) = Cardinality(A) - 1
  BY <1>1, FS_RemoveElement
<1>7. /\ Cardinality(B) <= Cardinality(A)
      /\ h.id = i => Cardinality(B) = Cardinality(A) - 1
  BY <1>2, <1>3, <1>4, <1>6
<1> QED BY <1>1, <1>2, <1>4, <1>5, <1>7 DEF A, B
-----------------------------------------------------------------------------
(* A copy is made of a handle that counts, while no destructor runs.       *)
LEMMA CopyKeepsHeap ==
  ASSUME HeapType, Heap, NEW h \in Handle, Copy(h), HandlesOn(h.id) # {}, UNCHANGED drop
  PROVE  Heap'
<1> DEFINE More(i) == On(handles \cup {h}, i)
<1>0. h.id \in Ids /\ data[h.id] = "alive" /\ readers[h.id] = {}
  BY DEF HeapType, Heap, Alive, Copy, CanWrite, HandlesOn, Handle
<1>1. handles' = handles \cup {h} /\ data' = data /\ readers' = readers /\ drop' = drop
      /\ refCount' = [refCount EXCEPT ![h.id] = @ + 1]
  BY DEF Copy
<1>2. ASSUME NEW i
      PROVE  /\ IsFiniteSet(handles \cup {h})
             /\ Cardinality(HandlesOn(i)) \in Nat /\ Cardinality(More(i)) \in Nat
             /\ h.id # i => More(i) = HandlesOn(i)
             /\ Cardinality(More(i)) <= Cardinality(HandlesOn(i)) + 1
  <2>1. IsFiniteSet(handles) /\ HandlesOn(i) = On(handles, i)
    BY DEF HandlesOn, On, Heap, Fin
  <2> QED BY <2>1, CardinalityOfMore
<1>more. /\ \A i : HandlesOn(i)' = More(i)
         /\ \A u : HandlesOn(Data(u))' = More(Data(u))
  BY <1>1 DEF HandlesOn, Data, Dying, On
<1> HIDE DEF More
<1>3. Fin'
  BY <1>1, <1>2 DEF Fin
<1>4. CountCovers'
  <2> SUFFICES ASSUME NEW i \in Ids, data'[i] = "alive"
               PROVE  refCount'[i] >= Cardinality(More(i))
    BY <1>more DEF CountCovers
  <2>1. refCount[i] >= Cardinality(HandlesOn(i)) /\ refCount[i] \in Nat
    BY <1>1 DEF Heap, CountCovers, HeapType
  <2>2. CASE i = h.id
    <3>1. refCount'[i] = refCount[i] + 1
      BY <1>0, <1>1, <2>2 DEF HeapType
    <3> QED BY <1>2, <2>1, <3>1
  <2>3. CASE i # h.id
    <3>1. refCount'[i] = refCount[i]
      BY <1>0, <1>1, <2>3 DEF HeapType
    <3> QED BY <1>2, <2>1, <2>3, <3>1
  <2> QED BY <2>2, <2>3
<1>5. Alive'
  BY <1>0, <1>1 DEF Alive, Heap
<1>6. Counted'
  <2> SUFFICES ASSUME NEW t \in All, drop[t].phase = "store"
               PROVE  /\ Dying(t) \in handles' /\ t \in readers[Data(t)]
                      /\ drop[t].count >= Cardinality(More(Data(t)))
    BY <1>1, <1>more DEF Counted, Dying, Data
  <2>1. /\ Dying(t) \in handles /\ t \in readers[Data(t)]
        /\ drop[t].count >= Cardinality(HandlesOn(Data(t)))
    BY DEF Heap, Counted
  <2>2. Data(t) # h.id
    BY <1>0, <2>1
  <2> QED BY <1>1, <1>2, <2>1, <2>2
<1>7. Last'
  <2> SUFFICES ASSUME NEW t \in All, drop[t].phase \in {"reload", "unlock", "delete"}
               PROVE  /\ Dying(t) \in Handle /\ data[Data(t)] # "unborn"
                      /\ (drop[t].phase = "delete" \/ (drop[t].phase = "unlock" /\ drop[t].count = 0))
                           => More(Data(t)) = {}
    BY <1>1, <1>more DEF Last, Dying, Data
  <2> QED BY <1>2 DEF Heap, Last
<1> QED BY <1>3, <1>4, <1>5, <1>6, <1>7 DEF Heap

(* A destructor starts on a handle that counts.                            *)
LEMMA DestroyKeepsHeap ==
  ASSUME HeapType, Heap, NEW t \in All, drop[t].phase = "none", NEW h \in handles,
         Destroy(t, h)
  PROVE  Heap'
<1>1. /\ handles' = handles /\ data' = data /\ refCount' = refCount
      /\ readers' = [readers EXCEPT ![h.id] = @ \cup {t}]
      /\ drop' = [drop EXCEPT ![t] =
                    [phase |-> "store", handle |-> h, count |-> refCount[h.id]]]
  BY DEF Destroy, count
<1>2. h.id \in Ids /\ data[h.id] = "alive"
  BY DEF HeapType, Heap, Alive, Handle
<1>3. refCount[h.id] >= Cardinality(HandlesOn(h.id))
  BY <1>2 DEF Heap, CountCovers
<1>4. Fin' /\ CountCovers' /\ Alive'
  BY <1>1 DEF Heap, Fin, CountCovers, Alive, HandlesOn
<1>5. Counted'
  <2> SUFFICES ASSUME NEW u \in All, drop'[u].phase = "store"
               PROVE  /\ drop'[u].handle \in handles
                      /\ u \in readers'[drop'[u].handle.id]
                      /\ drop'[u].count >= Cardinality(HandlesOn(drop'[u].handle.id))
    BY <1>1 DEF Counted, Dying, Data, HandlesOn
  <2>1. CASE u = t
    <3>1. drop'[t] = [phase |-> "store", handle |-> h, count |-> refCount[h.id]]
      BY <1>1 DEF HeapType
    <3>2. t \in readers'[h.id]
      BY <1>1, <1>2 DEF HeapType
    <3> QED BY <1>3, <2>1, <3>1, <3>2
  <2>2. CASE u # t
    <3>1. drop'[u] = drop[u]
      BY <1>1, <2>2 DEF HeapType
    <3>2. /\ drop[u].handle \in handles /\ u \in readers[drop[u].handle.id]
          /\ drop[u].count >= Cardinality(HandlesOn(drop[u].handle.id))
      BY <3>1 DEF Heap, Counted, Dying, Data
    <3>3. drop[u].handle.id \in Ids
      BY <3>2 DEF HeapType, Handle
    <3>4. u \in readers'[drop[u].handle.id]
      BY <1>1, <3>2, <3>3 DEF HeapType
    <3> QED BY <3>1, <3>2, <3>4
  <2> QED BY <2>1, <2>2
<1>6. Last'
  <2> SUFFICES ASSUME NEW u \in All, drop'[u].phase \in {"reload", "unlock", "delete"}
               PROVE  drop'[u] = drop[u]
    BY <1>1 DEF Last, Heap, Dying, Data, HandlesOn
  <2> QED BY <1>1 DEF HeapType
<1> QED BY <1>4, <1>5, <1>6 DEF Heap

(* The count that is stored may lose another's update but covers what is   *)
(* left.                                                                   *)
LEMMA StoreKeepsHeap ==
  ASSUME HeapType, Heap, NEW t \in All, StoreCount(t),
         \A u \in All : u # t /\ drop[u].phase = "store" => Dying(u) # Dying(t)
  PROVE  Heap' /\ refCount' \in [Ids -> Nat]
<1> DEFINE h == Dying(t)
           Left(i) == On(handles \ {h}, i)
<1>1. /\ handles' = handles \ {h} /\ data' = data /\ readers' = readers
      /\ refCount' = [refCount EXCEPT ![h.id] = drop[t].count - 1]
      /\ drop[t].phase = "store"
  BY DEF StoreCount, Data
<1>2. h \in handles /\ drop[t].count >= Cardinality(HandlesOn(h.id))
  BY <1>1 DEF Heap, Counted, Data
<1>3. h.id \in Ids /\ drop[t].count \in Int
  BY <1>2 DEF HeapType, Handle
<1>4. PICK next \in {"reload", "unlock"} :
        drop' = [drop EXCEPT ![t].phase = next, ![t].count = @ - 1]
  BY DEF StoreCount
<1>5. /\ drop'[t].handle = h /\ drop'[t].phase = next /\ drop'[t].count = drop[t].count - 1
      /\ \A u \in All : u # t => drop'[u] = drop[u]
  BY <1>4 DEF HeapType, Dying
<1> HIDE DEF h
<1>6. ASSUME NEW i
      PROVE  /\ IsFiniteSet(handles \ {h})
             /\ Cardinality(HandlesOn(i)) \in Nat /\ Cardinality(Left(i)) \in Nat
             /\ Cardinality(Left(i)) <= Cardinality(HandlesOn(i))
             /\ h.id = i => Cardinality(Left(i)) = Cardinality(HandlesOn(i)) - 1
             /\ Cardinality(Left(i)) = 0 => Left(i) = {}
             /\ h.id # i => Left(i) = HandlesOn(i)
             /\ Left(i) \subseteq HandlesOn(i)
  <2>1. IsFiniteSet(handles) /\ HandlesOn(i) = On(handles, i)
    BY DEF HandlesOn, On, Heap, Fin
  <2> DEFINE A == On(handles, i)
             B == On(handles \ {h}, i)
  <2>2. /\ IsFiniteSet(handles \ {h})
        /\ Cardinality(A) \in Nat /\ Cardinality(B) \in Nat
        /\ Cardinality(B) <= Cardinality(A)
        /\ h.id = i => Cardinality(B) = Cardinality(A) - 1
        /\ Cardinality(B) = 0 => B = {}
        /\ h.id # i => B = A
        /\ B \subseteq A
    BY <1>2, <2>1, CardinalityOfLess
  <2> QED BY <2>1, <2>2
<1>left. /\ \A i : HandlesOn(i)' = Left(i)
         /\ \A u : HandlesOn(Data(u))' = Left(drop'[u].handle.id)
  BY <1>1 DEF HandlesOn, Data, Dying, On, h
<1> HIDE DEF Left
<1>7. drop[t].count - 1 \in Nat /\ drop[t].count - 1 >= Cardinality(Left(h.id))
  BY <1>2, <1>3, <1>6
<1>8. refCount' \in [Ids -> Nat]
  BY <1>1, <1>7 DEF HeapType
<1>9. Fin' /\ Alive'
  BY <1>1, <1>6 DEF Fin, Alive, Heap
<1>10. CountCovers'
  <2> SUFFICES ASSUME NEW i \in Ids, data[i] = "alive"
               PROVE  refCount'[i] >= Cardinality(Left(i))
    BY <1>1, <1>left DEF CountCovers
  <2>1. CASE i = h.id
    BY <1>1, <1>3, <1>7, <2>1 DEF HeapType
  <2>2. CASE i # h.id
    <3>1. refCount'[i] = refCount[i] /\ refCount[i] >= Cardinality(HandlesOn(i))
      BY <1>1, <2>2 DEF HeapType, Heap, CountCovers
    <3> QED BY <1>6, <2>2, <3>1
  <2> QED BY <2>1, <2>2
<1>11. Counted'
  <2> SUFFICES ASSUME NEW u \in All, drop'[u].phase = "store"
               PROVE  /\ drop'[u].handle \in handles' /\ u \in readers[drop'[u].handle.id]
                      /\ drop'[u].count >= Cardinality(Left(drop'[u].handle.id))
    BY <1>1, <1>left DEF Counted, Dying, Data
  <2>1. u # t /\ drop'[u] = drop[u]
    BY <1>5
  <2>2. /\ drop[u].handle \in handles /\ u \in readers[drop[u].handle.id]
        /\ drop[u].count >= Cardinality(HandlesOn(drop[u].handle.id))
    BY <2>1 DEF Heap, Counted, Dying, Data
  <2>3. drop[u].handle # h /\ drop[u].count \in Int
    BY <2>1 DEF HeapType, Dying, h
  <2> QED BY <1>1, <1>6, <2>1, <2>2, <2>3
<1>12. Last'
  <2> SUFFICES ASSUME NEW u \in All, drop'[u].phase \in {"reload", "unlock", "delete"}
               PROVE  /\ drop'[u].handle \in Handle /\ data[drop'[u].handle.id] # "unborn"
                      /\ (\/ drop'[u].phase = "delete"
                          \/ drop'[u].phase = "unlock" /\ drop'[u].count = 0)
                           => Left(drop'[u].handle.id) = {}
    BY <1>1, <1>left DEF Last, Dying, Data
  <2>1. CASE u = t
    <3>1. h \in Handle /\ data[h.id] # "unborn"
      BY <1>2 DEF HeapType, Heap, Alive
    <3>2. drop[t].count - 1 = 0 => Left(h.id) = {}
      BY <1>6, <1>7
    <3> QED BY <1>4, <1>5, <2>1, <3>1, <3>2
  <2>2. CASE u # t
    <3>1. drop'[u] = drop[u]
      BY <1>5, <2>2
    <3>2. Left(drop[u].handle.id) \subseteq HandlesOn(drop[u].handle.id)
      BY <1>6
    <3> QED BY <3>1, <3>2 DEF Heap, Last, Dying, Data
  <2> QED BY <2>1, <2>2
<1> QED BY <1>8, <1>9, <1>10, <1>11, <1>12 DEF Heap
(* A destructor goes on without touching a count.                          *)
LEMMA StepKeepsHeap ==
  ASSUME HeapType, Heap, NEW t \in All, Reload(t) \/ Unlock(t) \/ Delete(t)
  PROVE  Heap'
<1>1. handles' = handles /\ refCount' = refCount /\ (data' = data \/ Delete(t))
  BY DEF Reload, Unlock, Delete, count
<1>2. drop[t].phase \in {"reload", "unlock", "delete"}
  BY DEF Reload, Unlock, Delete
<1>3. /\ Dying(t) \in Handle /\ Data(t) \in Ids
      /\ Delete(t) => HandlesOn(Data(t)) = {}
  BY <1>2 DEF Heap, Last, Handle, Data, Delete
<1>4. \A u \in All : u # t => drop'[u] = drop[u]
  BY DEF Reload, Unlock, Delete, HeapType
<1>readers. \A i \in Ids, u \in All : u # t /\ u \in readers[i] => u \in readers'[i]
  BY <1>3 DEF Reload, Unlock, Delete, HeapType
<1>5. drop'[t].phase # "store"
  <2>1. CASE Reload(t)
    BY <2>1 DEF Reload, HeapType
  <2>2. CASE Unlock(t)
    BY <1>2, <2>2 DEF Unlock, HeapType, NoDrop, IsLast
  <2>3. CASE Delete(t)
    BY <2>3 DEF Delete, HeapType, NoDrop
  <2> QED BY <2>1, <2>2, <2>3
<1>6. \A h \in handles : data'[h.id] = data[h.id]
  <2>1. CASE Delete(t)
    <3>1. \A h \in handles : h.id # Data(t)
      BY <1>3, <2>1 DEF HandlesOn
    <3> QED BY <2>1, <3>1 DEF Delete, HeapType
  <2>2. CASE ~Delete(t)
    BY <1>1, <2>2
  <2> QED BY <2>1, <2>2
<1>7. Fin' /\ Alive'
  BY <1>1, <1>6 DEF Heap, Fin, Alive
<1>8. \A i \in Ids : data'[i] = data[i] \/ (data[i] = "alive" /\ data'[i] = "deleted")
  BY <1>1 DEF Delete, HeapType
<1>9. CountCovers'
  BY <1>1, <1>8 DEF Heap, CountCovers, HandlesOn
<1>10. Counted'
  <2> SUFFICES ASSUME NEW u \in All, drop'[u].phase = "store"
               PROVE  /\ drop'[u].handle \in handles /\ u \in readers'[drop'[u].handle.id]
                      /\ drop'[u].count >= Cardinality(HandlesOn(drop'[u].handle.id))
    BY <1>1 DEF Counted, Dying, Data, HandlesOn
  <2>1. u # t /\ drop'[u] = drop[u]
    BY <1>4, <1>5
  <2>2. /\ drop[u].handle \in handles /\ u \in readers[drop[u].handle.id]
        /\ drop[u].count >= Cardinality(HandlesOn(drop[u].handle.id))
    BY <2>1 DEF Heap, Counted, Dying, Data
  <2>3. drop[u].handle.id \in Ids
    BY <2>2 DEF HeapType, Handle
  <2> QED BY <1>readers, <2>1, <2>2, <2>3
<1>11. Last'
  <2> SUFFICES ASSUME NEW u \in All, drop'[u].phase \in {"reload", "unlock", "delete"}
               PROVE  /\ drop'[u].handle \in Handle /\ data'[drop'[u].handle.id] # "unborn"
                      /\ (\/ drop'[u].phase = "delete"
                          \/ drop'[u].phase = "unlock" /\ drop'[u].count = 0)
                           => HandlesOn(drop'[u].handle.id) = {}
    BY <1>1 DEF Last, Dying, Data, HandlesOn
  <2>1. CASE u # t
    <3>1. /\ drop[u].handle \in Handle /\ data[drop[u].handle.id] # "unborn"
          /\ (\/ drop[u].phase = "delete"
              \/ drop[u].phase = "unlock" /\ drop[u].count = 0)
               => HandlesOn(drop[u].handle.id) = {}
      BY <1>4, <2>1 DEF Heap, Last, Dying, Data
    <3>2. drop[u].handle.id \in Ids
      BY <3>1 DEF Handle
    <3> QED BY <1>4, <1>8, <2>1, <3>1, <3>2
  <2>2. CASE u = t
    <3>1. ~Delete(t) /\ data' = data
      BY <1>1, <2>2 DEF Delete, HeapType, NoDrop
    <3>2. CASE Reload(t)
      <4>1. /\ drop'[t].handle = Dying(t) /\ drop'[t].phase = "unlock"
            /\ drop'[t].count = refCount[Data(t)] /\ data[Data(t)] = "alive"
        BY <3>2 DEF Reload, HeapType, Dying
      <4>2. refCount[Data(t)] = 0 => Cardinality(HandlesOn(Data(t))) = 0
        <5>1. refCount[Data(t)] >= Cardinality(HandlesOn(Data(t)))
          BY <1>3, <4>1 DEF Heap, CountCovers
        <5>2. IsFiniteSet(HandlesOn(Data(t)))
          BY FS_Subset DEF HandlesOn, Heap, Fin
        <5>3. Cardinality(HandlesOn(Data(t))) \in Nat
          BY <5>2, FS_CardinalityType
        <5> QED BY <1>3, <5>1, <5>3 DEF HeapType
      <4>3. refCount[Data(t)] = 0 => HandlesOn(Data(t)) = {}
        <5>1. IsFiniteSet(HandlesOn(Data(t)))
          BY FS_Subset DEF HandlesOn, Heap, Fin
        <5> QED BY <4>2, <5>1, FS_EmptySet
      <4> QED BY <1>3, <2>2, <3>1, <4>1, <4>3 DEF Data
    <3>3. CASE Unlock(t)
      <4>1. /\ drop'[t].handle = Dying(t) /\ drop'[t].phase = "delete"
            /\ drop[t].count = 0 /\ drop[t].phase = "unlock"
        BY <2>2, <3>3 DEF Unlock, HeapType, Dying, NoDrop, IsLast
      <4>2. HandlesOn(Data(t)) = {} /\ data[Data(t)] # "unborn"
        BY <4>1 DEF Heap, Last
      <4> QED BY <1>3, <2>2, <3>1, <4>1, <4>2 DEF Data
    <3> QED BY <3>1, <3>2, <3>3
  <2> QED BY <2>1, <2>2
<1> QED BY <1>7, <1>9, <1>10, <1>11 DEF Heap

(* A new session has the two handles it starts with.                       *)
LEMMA CreateKeepsHeap ==
  ASSUME HeapType, Heap, NEW t \in Threads, Create(t)
  PROVE  Heap'
<1> DEFINE i == CHOOSE u \in Unborn : TRUE
           a == Local(t, "session", i)
           b == Entry(i)
           One(k) == On(handles \cup {a}, k)
           Two(k) == On((handles \cup {a}) \cup {b}, k)
<1>1. /\ data' = [data EXCEPT ![i] = "alive"]
      /\ refCount' = [refCount EXCEPT ![i] = 2]
      /\ handles' = (handles \cup {a}) \cup {b}
      /\ readers' = readers /\ drop' = drop
  BY DEF Create, InitialCount
<1>2. i \in Ids /\ data[i] = "unborn"
  BY DEF Create, Unborn
<1>3. a.id = i /\ b.id = i
  BY DEF Local, Entry
<1> HIDE DEF i, a, b
<1>4. ASSUME NEW k
      PROVE  /\ IsFiniteSet((handles \cup {a}) \cup {b})
             /\ Cardinality(Two(k)) \in Nat
             /\ Cardinality(Two(k)) <= Cardinality(HandlesOn(k)) + 2
             /\ Cardinality(HandlesOn(k)) \in Nat
             /\ k # i => Two(k) = HandlesOn(k)
  <2>1. IsFiniteSet(handles) /\ HandlesOn(k) = On(handles, k)
    BY DEF HandlesOn, On, Heap, Fin
  <2>2. /\ IsFiniteSet(handles \cup {a})
        /\ Cardinality(One(k)) \in Nat /\ Cardinality(HandlesOn(k)) \in Nat
        /\ a.id # k => One(k) = HandlesOn(k)
        /\ Cardinality(One(k)) <= Cardinality(HandlesOn(k)) + 1
    BY <2>1, CardinalityOfMore
  <2> HIDE DEF One
  <2>3. /\ IsFiniteSet((handles \cup {a}) \cup {b})
        /\ Cardinality(Two(k)) \in Nat
        /\ b.id # k => Two(k) = One(k)
        /\ Cardinality(Two(k)) <= Cardinality(One(k)) + 1
    BY <2>2, CardinalityOfMore DEF One
  <2> HIDE DEF Two
  <2> QED BY <1>3, <2>2, <2>3
<1>two. /\ \A k : HandlesOn(k)' = Two(k)
        /\ \A u : HandlesOn(Data(u))' = Two(Data(u))
  BY <1>1 DEF HandlesOn, Data, Dying, On
<1> HIDE DEF Two
<1>5. \A h \in handles : h.id \in Ids /\ h.id # i
  BY <1>2 DEF HeapType, Heap, Alive, Handle
<1>6. Cardinality(HandlesOn(i)) = 0
  <2>1. HandlesOn(i) = {}
    BY <1>5 DEF HandlesOn
  <2> QED BY <2>1, FS_EmptySet
<1>7. Fin' /\ Alive'
  <2>1. Fin'
    BY <1>1, <1>4 DEF Fin
  <2>2. Alive'
    BY <1>1, <1>2, <1>3, <1>5 DEF Alive, Heap, HeapType
  <2> QED BY <2>1, <2>2
<1>8. CountCovers'
  <2> SUFFICES ASSUME NEW k \in Ids, data'[k] = "alive"
               PROVE  refCount'[k] >= Cardinality(Two(k))
    BY <1>two DEF CountCovers
  <2>1. CASE k = i
    BY <1>1, <1>2, <1>4, <1>6, <2>1 DEF HeapType
  <2>2. CASE k # i
    BY <1>1, <1>4, <2>2 DEF HeapType, Heap, CountCovers
  <2> QED BY <2>1, <2>2
<1>9. Counted'
  <2> SUFFICES ASSUME NEW u \in All, drop[u].phase = "store"
               PROVE  /\ Dying(u) \in handles' /\ u \in readers[Data(u)]
                      /\ drop[u].count >= Cardinality(Two(Data(u)))
    BY <1>1, <1>two DEF Counted, Dying, Data
  <2>1. /\ Dying(u) \in handles /\ u \in readers[Data(u)]
        /\ drop[u].count >= Cardinality(HandlesOn(Data(u)))
    BY DEF Heap, Counted
  <2> QED BY <1>1, <1>4, <1>5, <2>1 DEF Data
<1>10. Last'
  <2> SUFFICES ASSUME NEW u \in All, drop[u].phase \in {"reload", "unlock", "delete"}
               PROVE  /\ Dying(u) \in Handle /\ data'[Data(u)] # "unborn"
                      /\ (drop[u].phase = "delete" \/ (drop[u].phase = "unlock" /\ drop[u].count = 0))
                           => Two(Data(u)) = {}
    BY <1>1, <1>two DEF Last, Dying, Data
  <2>1. /\ Dying(u) \in Handle /\ data[Data(u)] # "unborn"
        /\ (drop[u].phase = "delete" \/ (drop[u].phase = "unlock" /\ drop[u].count = 0))
                           => HandlesOn(Data(u)) = {}
    BY DEF Heap, Last
  <2>2. Data(u) # i /\ Data(u) \in Ids
    BY <1>2, <2>1 DEF Data, Handle
  <2> QED BY <1>1, <1>4, <2>1, <2>2 DEF HeapType
<1> QED BY <1>7, <1>8, <1>9, <1>10 DEF Heap

LEMMA FrameKeepsHeap ==
  ASSUME Heap, UNCHANGED <<count, readers, drop>>
  PROVE  Heap'
BY DEF Heap, Fin, CountCovers, Alive, Counted, Last, HandlesOn, Dying, Data, count
-----------------------------------------------------------------------------
(* Who is in a part of the store's code that has the mutex, has it.        *)
Mutual == \A t \in All :
  pc[t] \in {"locked", "unlock", "loop", "expired?", "erase", "next"} => mutex = t

(* The variables in scope count, and the map's entries.                    *)
Holding ==
  /\ \A t \in All :
       /\ pc[t] \in {"found", "return", "returned", "expired?", "erase", "next"} =>
            Local(t, "session", id[t]) \in handles
       /\ pc[t] \in {"returned", "using", "removeSession", "unlock", "unlocked", "removed"} =>
            Local(t, "result", id[t]) \in handles
       /\ pc[t] \in {"removeSession", "unlock", "unlocked"} =>
            Local(t, "param", id[t]) \in handles
  /\ \A i \in sessions : Entry(i) \in handles

(* A handle that is going is its thread's own and out of scope, or an      *)
(* entry that has left the map and whose thread has the mutex.             *)
Going == \A t \in All : drop[t].phase = "store" =>
  \/ Dying(t).owner = Store /\ mutex = t /\ Data(t) \notin sessions
  \/ /\ Dying(t).owner = t
     /\ \/ pc[t] \in {"using", "loop"} /\ Dying(t).name = "session"
        \/ pc[t] = "removed" /\ Dying(t).name = "param"
        \/ pc[t] = "idle"

(* The timer's loop runs over sessions that are in the map.                *)
Looping ==
  /\ pc[Timer] \in {"loop", "expired?", "erase", "next"} => todo \subseteq sessions
  /\ pc[Timer] \in {"expired?", "erase"} => id[Timer] \in sessions \ todo

Control == Mutual /\ Holding /\ Going /\ Looping

IInv == TypeOK /\ Heap /\ Control

(* No two destructors run on one handle.                                   *)
LEMMA NoDoubleDestructor ==
  ASSUME IInv, NEW t \in All, NEW u \in All, u # t,
         drop[t].phase = "store", drop[u].phase = "store"
  PROVE  Dying(u) # Dying(t)
<1>1. Store \notin All /\ Dying(t).owner \in {t, Store} /\ Dying(u).owner \in {u, Store}
  BY OwnersAssumption DEF IInv, Control, Going, All
<1>2. ~(Dying(t).owner = Store /\ Dying(u).owner = Store)
  BY <1>1 DEF IInv, Control, Going
<1> QED BY <1>1, <1>2

LEMMA TypeGivesHeapType == TypeOK => HeapType
BY DEF TypeOK, HeapType

(* Which steps change the heap, and how.                                   *)
LEMMA HeapKept ==
  ASSUME IInv, [Next]_vars
  PROVE  Heap'
<1> USE TypeGivesHeapType DEF IInv
<1>1. ASSUME NEW t \in All, Destructor(t) PROVE Heap'
  <2>1. CASE StoreCount(t)
    <3>1. drop[t].phase = "store"
      BY <2>1 DEF StoreCount
    <3> QED BY <2>1, <3>1, NoDoubleDestructor, StoreKeepsHeap
  <2>2. CASE Reload(t) \/ Unlock(t) \/ Delete(t)
    BY <2>2, StepKeepsHeap
  <2>3. CASE TouchDeleted(t)
    BY <2>3, FrameKeepsHeap DEF TouchDeleted
  <2> QED BY <1>1, <2>1, <2>2, <2>3 DEF Destructor
<1>2. ASSUME NEW t \in All, NEW from, NEW name, NEW to, EndScope(t, from, name, to),
             Local(t, name, id[t]) \in handles
      PROVE  Heap'
  BY <1>2, DestroyKeepsHeap DEF EndScope, At
<1>3. ASSUME NEW t \in All, NEW h \in Handle, NEW g \in handles, g.id = h.id,
             Copy(h), UNCHANGED drop
      PROVE  Heap'
  <2>1. HandlesOn(h.id) # {}
    BY <1>3 DEF HandlesOn
  <2> QED BY <1>3, <2>1, CopyKeepsHeap
<1>4. ASSUME NEW t \in Threads, Handler(t) PROVE Heap'
  <2>0. t \in All /\ t \in Owners
    BY DEF All, Owners
  <2>1. CASE Find(t)
    <3>1. Entry(id[t]) \in handles /\ id[t] \in Ids
      BY <2>1 DEF Find, Control, Holding, TypeOK
    <3>2. Local(t, "session", id[t]) \in Handle
      BY <2>0, <3>1 DEF Local, Handle, Names
    <3> QED BY <2>0, <2>1, <3>1, <3>2, <1>3 DEF Find, Local, Entry
  <2>2. CASE Return(t)
    <3>1. Local(t, "session", id[t]) \in handles
      BY <2>0, <2>2 DEF Return, At, Control, Holding
    <3>2. id[t] \in Ids
      BY <3>1 DEF TypeOK, Handle, Local
    <3>3. Local(t, "result", id[t]) \in Handle
      BY <2>0, <3>2 DEF Local, Handle, Names
    <3> QED BY <2>0, <2>2, <3>1, <3>3, <1>3 DEF Return, Local
  <2>3. CASE CallRemove(t)
    <3>1. Local(t, "result", id[t]) \in handles
      BY <2>0, <2>3 DEF CallRemove, At, Control, Holding
    <3>2. id[t] \in Ids
      BY <3>1 DEF TypeOK, Handle, Local
    <3>3. Local(t, "param", id[t]) \in Handle
      BY <2>0, <3>2 DEF Local, Handle, Names
    <3> QED BY <2>0, <2>3, <3>1, <3>3, <1>3 DEF CallRemove, Local
  <2>4. CASE RemoveEntry(t)
    <3>1. CASE id[t] \in sessions
      <4>1. Entry(id[t]) \in handles
        BY <3>1 DEF Control, Holding
      <4> QED BY <2>0, <2>4, <3>1, <4>1, DestroyKeepsHeap DEF RemoveEntry, At
    <3>2. CASE id[t] \notin sessions
      BY <2>4, <3>2, FrameKeepsHeap DEF RemoveEntry
    <3> QED BY <3>1, <3>2
  <2>5. CASE Create(t)
    BY <2>5, CreateKeepsHeap
  <2>6. CASE EndScope(t, "returned", "session", "using")
    BY <2>0, <2>6, <1>2 DEF EndScope, At, Control, Holding
  <2>7. CASE EndScope(t, "unlocked", "param", "removed")
    BY <2>0, <2>7, <1>2 DEF EndScope, At, Control, Holding
  <2>8. CASE \E l \in {"using", "removed"} : EndScope(t, l, "result", "idle")
    BY <2>0, <2>8, <1>2 DEF EndScope, At, Control, Holding
  <2>9. CASE GetSessionId(t) \/ LockStore(t) \/ SetLastAccess(t) \/ NotFound(t) \/ UnlockStore(t)
    BY <2>9, FrameKeepsHeap DEF GetSessionId, LockStore, SetLastAccess, NotFound, UnlockStore
  <2> QED BY <1>4, <2>1, <2>2, <2>3, <2>4, <2>5, <2>6, <2>7, <2>8, <2>9 DEF Handler
<1>5. ASSUME TimerStep PROVE Heap'
  <2>0. Timer \in All /\ Timer \in Owners
    BY DEF All, Owners
  <2>1. CASE NextSession
    <3>1. PICK i \in todo : Copy(Local(Timer, "session", i))
      BY <2>1 DEF NextSession
    <3>2. i \in Ids /\ Entry(i) \in handles
      BY <2>0, <2>1 DEF NextSession, At, Control, Looping, Holding, TypeOK
    <3>3. Local(Timer, "session", i) \in Handle
      BY <2>0, <3>2 DEF Local, Handle, Names
    <3> QED BY <2>0, <2>1, <3>1, <3>2, <3>3, <1>3 DEF NextSession, Local, Entry
  <2>2. CASE Erase
    <3>1. Entry(id[Timer]) \in handles
      BY <2>2 DEF Erase, At, Control, Looping, Holding
    <3> QED BY <2>0, <2>2, <3>1, DestroyKeepsHeap DEF Erase, At
  <2>3. CASE EndScope(Timer, "next", "session", "loop")
    BY <2>0, <2>3, <1>2 DEF EndScope, At, Control, Holding
  <2>4. CASE Check \/ EndTimerEvent
    BY <2>4, FrameKeepsHeap DEF Check, EndTimerEvent
  <2> QED BY <1>5, <2>1, <2>2, <2>3, <2>4 DEF TimerStep
<1>6. CASE (\E t \in Threads : Request(t)) \/ TimerEvent \/ Advance
  BY <1>6, FrameKeepsHeap DEF Request, TimerEvent, Advance
<1>7. CASE UNCHANGED vars
  BY <1>7, FrameKeepsHeap DEF vars
<1> QED BY <1>1, <1>4, <1>5, <1>6, <1>7 DEF Next, Working
(* Every step keeps the types; that the stored count is not negative rests *)
(* on Heap.                                                                *)
LEMMA TypeKept ==
  ASSUME IInv, [Next]_vars
  PROVE  TypeOK'
<1> USE DEF IInv
<1> USE DEF TypeOK, count, timer
<1>0. \A t \in All, i \in Ids : Local(t, "session", i) \in Handle /\ Local(t, "result", i) \in Handle
        /\ Local(t, "param", i) \in Handle /\ Entry(i) \in Handle
  BY DEF Handle, Local, Entry, Owners, Names, All
<1>1. ASSUME NEW t \in All, Destructor(t) PROVE TypeOK'
  <2> USE DEF OutsideDestructor
  <2>0. NoDrop \in [phase : Phases, handle : Handle \cup {NoHandle}, count : Int]
    BY DEF NoDrop, Phases
  <2>1. CASE StoreCount(t)
    <3>1. drop[t].phase = "store"
      BY <2>1 DEF StoreCount
    <3>2. refCount' \in [Ids -> Nat]
      BY <2>1, <3>1, NoDoubleDestructor, StoreKeepsHeap, TypeGivesHeapType
    <3>3. drop' \in [All -> [phase : Phases, handle : Handle \cup {NoHandle}, count : Int]]
      BY <2>1 DEF StoreCount, Phases
    <3> QED BY <2>1, <3>2, <3>3 DEF StoreCount
  <2>2. CASE Reload(t)
    <3>1. Data(t) \in Ids
      BY <2>2 DEF Reload, Heap, Last, Handle, Data
    <3>2. refCount[Data(t)] \in Int
      BY <3>1
    <3> QED BY <2>2, <3>2 DEF Reload, Phases
  <2>3. CASE Unlock(t)
    BY <2>3, <2>0 DEF Unlock, Phases
  <2>4. CASE Delete(t)
    BY <2>4, <2>0 DEF Delete
  <2>5. CASE TouchDeleted(t)
    BY <2>5 DEF TouchDeleted
  <2> QED BY <1>1, <2>1, <2>2, <2>3, <2>4, <2>5 DEF Destructor
<1>2. ASSUME NEW t \in All, NEW h \in handles, Destroy(t, h)
      PROVE  /\ readers' \in [Ids -> SUBSET All] /\ UNCHANGED count
             /\ drop' \in [All -> [phase : Phases, handle : Handle \cup {NoHandle}, count : Int]]
  BY <1>2 DEF Destroy, Handle, Phases
<1>3. ASSUME NEW h \in Handle, Copy(h)
      PROVE  /\ refCount' \in [Ids -> Nat] /\ handles' \subseteq Handle
             /\ UNCHANGED <<data, readers>>
  BY <1>3 DEF Copy, Handle
<1>4. ASSUME NEW t \in All, NEW from, NEW name, NEW to \in Places, EndScope(t, from, name, to),
             Local(t, name, id[t]) \in handles
      PROVE  TypeOK'
  BY <1>2, <1>4 DEF EndScope, Goto
<1>5. ASSUME NEW t \in Threads, Handler(t) PROVE TypeOK'
  <2> USE DEF InHandler, Goto, Places
  <2>0. t \in All
    BY DEF All
  <2>1. CASE Find(t)
    BY <1>0, <1>3, <2>0, <2>1 DEF Find
  <2>2. CASE Return(t)
    <3>1. id[t] \in Ids
      BY <2>0, <2>2 DEF Return, At, Control, Holding, Handle, Local
    <3> QED BY <1>0, <1>3, <2>0, <2>2, <3>1 DEF Return
  <2>3. CASE CallRemove(t)
    <3>1. id[t] \in Ids
      BY <2>0, <2>3 DEF CallRemove, At, Control, Holding, Handle, Local
    <3> QED BY <1>0, <1>3, <2>0, <2>3, <3>1 DEF CallRemove
  <2>4. CASE RemoveEntry(t)
    <3>1. /\ readers' \in [Ids -> SUBSET All] /\ UNCHANGED count
          /\ drop' \in [All -> [phase : Phases, handle : Handle \cup {NoHandle}, count : Int]]
      BY <1>2, <2>0, <2>4 DEF RemoveEntry, Control, Holding
    <3> QED BY <2>0, <2>4, <3>1 DEF RemoveEntry
  <2>5. CASE Create(t)
    <3> DEFINE i == CHOOSE u \in Unborn : TRUE
    <3>1. i \in Ids
      BY <2>5 DEF Create, Unborn
    <3> HIDE DEF i
    <3> QED BY <1>0, <2>0, <2>5, <3>1 DEF Create, InitialCount, i
  <2>6. CASE EndScope(t, "returned", "session", "using")
    BY <2>0, <2>6, <1>4 DEF EndScope, At, Control, Holding
  <2>7. CASE EndScope(t, "unlocked", "param", "removed")
    BY <2>0, <2>7, <1>4 DEF EndScope, At, Control, Holding
  <2>8. CASE \E l \in {"using", "removed"} : EndScope(t, l, "result", "idle")
    BY <2>0, <2>8, <1>4 DEF EndScope, At, Control, Holding
  <2>9. CASE GetSessionId(t) \/ LockStore(t) \/ NotFound(t) \/ UnlockStore(t)
    BY <2>0, <2>9 DEF GetSessionId, LockStore, NotFound, UnlockStore
  <2>10. CASE SetLastAccess(t)
    BY <2>0, <2>10 DEF SetLastAccess, Prolonged
  <2> QED BY <1>5, <2>1, <2>2, <2>3, <2>4, <2>5, <2>6, <2>7, <2>8, <2>9, <2>10 DEF Handler
<1>6. ASSUME TimerStep PROVE TypeOK'
  <2> USE DEF InTimer, Goto, Places
  <2>0. Timer \in All
    BY DEF All
  <2>1. CASE NextSession
    <3>1. PICK i \in todo : Copy(Local(Timer, "session", i)) /\ id' = [id EXCEPT ![Timer] = i]
                              /\ todo' = todo \ {i}
      BY <2>1 DEF NextSession
    <3> QED BY <1>0, <1>3, <2>0, <2>1, <3>1 DEF NextSession
  <2>2. CASE Erase
    <3>1. Entry(id[Timer]) \in handles
      BY <2>2 DEF Erase, At, Control, Looping, Holding
    <3> QED BY <1>2, <2>0, <2>2, <3>1 DEF Erase
  <2>3. CASE EndScope(Timer, "next", "session", "loop")
    BY <2>0, <2>3, <1>4 DEF EndScope, At, Control, Holding
  <2>4. CASE Check
    BY <2>4 DEF Check
  <2>5. CASE EndTimerEvent
    BY <2>5 DEF EndTimerEvent
  <2> QED BY <1>6, <2>1, <2>2, <2>3, <2>4, <2>5 DEF TimerStep
<1>7. ASSUME NEW t \in Threads, Request(t) PROVE TypeOK'
  <2>0. t \in All
    BY DEF All
  <2>1. id' \in [All -> Ids \cup {NoId}]
    BY <1>7, <2>0 DEF Request
  <2>2. \/ \E a \in BOOLEAN : create' = [create EXCEPT ![t] = a]
        \/ create' = [create EXCEPT ![t] = FALSE]
    BY <1>7 DEF Request
  <2>3. create' \in [Threads -> BOOLEAN]
    BY <2>2
  <2>4. \E l \in Places : pc' = [pc EXCEPT ![t] = l]
    BY <1>7 DEF Request, Goto, Places
  <2>5. pc' \in [All -> Places]
    BY <2>0, <2>4
  <2> QED BY <1>7, <2>1, <2>3, <2>5 DEF Request, InHandler
<1>8. CASE TimerEvent
  BY <1>8 DEF TimerEvent, InTimer, Goto, Places, All
<1>9. CASE Advance
  BY <1>9 DEF Advance
<1>10. CASE UNCHANGED vars
  BY <1>10 DEF vars
<1> QED BY <1>1, <1>5, <1>6, <1>7, <1>8, <1>9, <1>10 DEF Next, Working
(* A thread's step changes neither the place nor the variables of another, *)
(* and what counts for it.                                                 *)
LEMMA ControlKept ==
  ASSUME IInv, [Next]_vars
  PROVE  Control'
<1> USE DEF IInv, Control
<1>t. /\ pc \in [All -> Places] /\ id \in [All -> Ids \cup {NoId}]
      /\ drop \in [All -> [phase : Phases, handle : Handle \cup {NoHandle}, count : Int]]
      /\ sessions \subseteq Ids /\ handles \subseteq Handle
  BY DEF TypeOK
<1>o. Store \notin All /\ Timer \in All /\ Timer \notin Threads /\ Nobody \notin All
      /\ Threads \subseteq All
  BY OwnersAssumption, NobodyAssumption DEF All
<1>1. ASSUME NEW t \in All, Destructor(t) PROVE Control'
  <2>1. UNCHANGED <<pc, id, mutex, sessions, todo>>
    BY <1>1 DEF Destructor, StoreCount, Reload, Unlock, Delete, TouchDeleted, OutsideDestructor, timer
  <2>2. \A u \in All : u # t => drop'[u] = drop[u]
    BY <1>1, <1>t DEF Destructor, StoreCount, Reload, Unlock, Delete, TouchDeleted
  <2>3. drop'[t].phase # "store"
    BY <1>1, <1>t DEF Destructor, StoreCount, Reload, Unlock, Delete, TouchDeleted, NoDrop
  <2>4. Mutual' /\ Looping' /\ Going'
    BY <2>1, <2>2, <2>3 DEF Mutual, Looping, Going, Dying, Data
  <2>5. Holding'
    <3>1. CASE StoreCount(t)
      <4>1. handles' = handles \ {Dying(t)} /\ drop[t].phase = "store"
        BY <3>1 DEF StoreCount
      <4>2. \/ Dying(t).owner = Store /\ Data(t) \notin sessions
            \/ /\ Dying(t).owner = t
               /\ \/ pc[t] \in {"using", "loop"} /\ Dying(t).name = "session"
                  \/ pc[t] = "removed" /\ Dying(t).name = "param"
                  \/ pc[t] = "idle"
        BY <4>1 DEF Going
      <4>3. \A i \in sessions : Entry(i) # Dying(t)
        BY <4>2, <1>o DEF Entry, Local, Data
      <4>4. \A u \in All : \A name, i : u # t => Local(u, name, i) # Dying(t)
        BY <4>2, <1>o DEF Local
      <4>5. \A i : /\ Local(t, "session", i) = Dying(t) => pc[t] \in {"using", "loop", "idle"}
                   /\ Local(t, "result", i) = Dying(t) => pc[t] = "idle"
                   /\ Local(t, "param", i) = Dying(t) => pc[t] \in {"removed", "idle"}
        <5> SUFFICES ASSUME NEW i, NEW name \in {"session", "result", "param"},
                            Local(t, name, i) = Dying(t)
                     PROVE  \/ pc[t] = "idle"
                            \/ pc[t] \in {"using", "loop"} /\ name = "session"
                            \/ pc[t] = "removed" /\ name = "param"
          OBVIOUS
        <5>1. Dying(t).owner = t /\ Dying(t).name = name
          BY DEF Local
        <5> QED BY <4>2, <5>1, <1>o
      <4> QED BY <2>1, <4>1, <4>3, <4>4, <4>5 DEF Holding
    <3>2. CASE ~StoreCount(t)
      <4>1. handles' = handles
        BY <1>1, <3>2 DEF Destructor, Reload, Unlock, Delete, TouchDeleted, count
      <4> QED BY <2>1, <4>1 DEF Holding
    <3> QED BY <3>1, <3>2
  <2> QED BY <2>4, <2>5
(* The steps of a thread that only move it on, with a handle more at most. *)
<1>2. ASSUME NEW t \in Threads, Handler(t) PROVE Control'
  <2>0. t \in All /\ t # Timer
    BY <1>o
  <2>1. CASE Find(t)
    <3>1. /\ pc' = [pc EXCEPT ![t] = "found"] /\ pc[t] = "locked" /\ mutex' = Nobody
          /\ handles' = handles \cup {Local(t, "session", id[t])}
          /\ UNCHANGED <<id, drop, sessions, todo>> /\ drop[t].phase = "none"
      BY <2>1 DEF Find, At, Goto, Copy, InHandler, timer
    <3>2. Mutual'
      BY <1>t, <1>o, <2>0, <3>1 DEF Mutual
    <3>3. Holding'
      BY <1>t, <2>0, <3>1 DEF Holding
    <3>4. Going'
      BY <1>t, <1>o, <2>0, <3>1 DEF Going, Mutual, Dying, Data
    <3>5. Looping'
      BY <1>t, <2>0, <3>1 DEF Looping
    <3> QED BY <3>2, <3>3, <3>4, <3>5
  <2>2. CASE Create(t)
    <3> DEFINE i == CHOOSE u \in Unborn : TRUE
    <3>1. /\ pc' = [pc EXCEPT ![t] = "return"] /\ pc[t] = "locked" /\ mutex' = Nobody
          /\ handles' = handles \cup {Local(t, "session", i), Entry(i)}
          /\ id' = [id EXCEPT ![t] = i] /\ sessions' = sessions \cup {i}
          /\ UNCHANGED <<drop, todo>> /\ drop[t].phase = "none"
          /\ i \in Ids /\ data[i] = "unborn"
      BY <2>2 DEF Create, At, Goto, timer, Unborn
    <3> HIDE DEF i
    <3>2. Mutual'
      BY <1>t, <1>o, <2>0, <3>1 DEF Mutual
    <3>3. Holding'
      BY <1>t, <2>0, <3>1 DEF Holding
    <3>4. \A u \in All : drop[u].phase = "store" => Data(u) # i
      BY <3>1 DEF Heap, Counted, Alive, Data
    <3>5. Going'
      BY <1>t, <1>o, <2>0, <3>1, <3>4 DEF Going, Mutual, Dying, Data
    <3>6. Looping'
      BY <1>t, <2>0, <3>1 DEF Looping
    <3> QED BY <3>2, <3>3, <3>5, <3>6
  <2>3. CASE Return(t)
    <3>1. /\ pc' = [pc EXCEPT ![t] = "returned"] /\ pc[t] = "return"
          /\ handles' = handles \cup {Local(t, "result", id[t])}
          /\ UNCHANGED <<id, drop, sessions, todo, mutex>> /\ drop[t].phase = "none"
      BY <2>3 DEF Return, At, Goto, Copy, InHandler, timer
    <3>2. Mutual' /\ Looping'
      BY <1>t, <2>0, <3>1 DEF Mutual, Looping
    <3>3. Holding'
      BY <1>t, <2>0, <3>1 DEF Holding
    <3>4. Going'
      BY <1>t, <2>0, <3>1 DEF Going, Dying, Data
    <3> QED BY <3>2, <3>3, <3>4
  <2>4. CASE CallRemove(t)
    <3>1. /\ pc' = [pc EXCEPT ![t] = "removeSession"] /\ pc[t] = "using"
          /\ handles' = handles \cup {Local(t, "param", id[t])}
          /\ UNCHANGED <<id, drop, sessions, todo, mutex>> /\ drop[t].phase = "none"
      BY <2>4 DEF CallRemove, At, Goto, Copy, InHandler, timer
    <3>2. Mutual' /\ Looping'
      BY <1>t, <2>0, <3>1 DEF Mutual, Looping
    <3>3. Holding'
      BY <1>t, <2>0, <3>1 DEF Holding
    <3>4. Going'
      BY <1>t, <2>0, <3>1 DEF Going, Dying, Data
    <3> QED BY <3>2, <3>3, <3>4
  <2>5. CASE RemoveEntry(t)
    <3>1. /\ pc' = [pc EXCEPT ![t] = "unlock"] /\ pc[t] = "removeSession"
          /\ mutex = Nobody /\ mutex' = t /\ sessions' = sessions \ {id[t]}
          /\ UNCHANGED <<id, todo, handles>> /\ drop[t].phase = "none"
          /\ \A u \in All : u # t => drop'[u] = drop[u]
          /\ drop'[t].phase = "store" => drop'[t].handle = Entry(id[t])
      BY <1>t, <2>0, <2>5 DEF RemoveEntry, At, Goto, Destroy, count, timer
    <3>2. Mutual'
      BY <1>t, <1>o, <2>0, <3>1 DEF Mutual
    <3>3. Holding'
      BY <1>t, <2>0, <3>1 DEF Holding
    <3>4. Going'
      BY <1>t, <1>o, <2>0, <3>1 DEF Going, Dying, Data, Entry, Local
    <3>5. Looping'
      BY <1>t, <1>o, <2>0, <3>1 DEF Looping, Mutual
    <3> QED BY <3>2, <3>3, <3>4, <3>5
  <2>6. ASSUME NEW from, NEW name, NEW to, EndScope(t, from, name, to),
               <<from, name, to>> \in {<<"returned", "session", "using">>,
                  <<"unlocked", "param", "removed">>, <<"using", "result", "idle">>,
                  <<"removed", "result", "idle">>}
        PROVE  Control'
    <3>1. /\ pc' = [pc EXCEPT ![t] = to] /\ pc[t] = from
          /\ id' = [id EXCEPT ![t] = IF to = "idle" THEN NoId ELSE @]
          /\ UNCHANGED <<todo, handles, mutex, sessions>> /\ drop[t].phase = "none"
          /\ \A u \in All : u # t => drop'[u] = drop[u]
          /\ drop'[t].handle = Local(t, name, id[t])
      BY <1>t, <2>0, <2>6 DEF EndScope, At, Goto, Destroy, count, timer
    <3>2. Mutual' /\ Looping'
      BY <1>t, <2>0, <2>6, <3>1 DEF Mutual, Looping
    <3>3. Holding'
      BY <1>t, <2>0, <2>6, <3>1 DEF Holding
    <3>4. Going'
      BY <1>t, <2>0, <2>6, <3>1 DEF Going, Dying, Data, Local
    <3> QED BY <3>2, <3>3, <3>4
  <2>7. CASE GetSessionId(t)
    <3>1. /\ pc' = [pc EXCEPT ![t] = "getSession"] /\ pc[t] = "getSessionId"
          /\ \A u \in All : u # t => id'[u] = id[u]
          /\ UNCHANGED <<drop, sessions, handles, todo, mutex>> /\ drop[t].phase = "none"
      BY <1>t, <2>7 DEF GetSessionId, At, Goto, InHandler, timer, count
    <3>2. Mutual' /\ Looping'
      BY <1>t, <1>o, <2>0, <3>1 DEF Mutual, Looping
    <3>3. Holding'
      BY <1>t, <1>o, <2>0, <3>1 DEF Holding
    <3>4. Going'
      BY <1>t, <1>o, <2>0, <3>1 DEF Going, Dying, Data
    <3> QED BY <3>2, <3>3, <3>4
  <2>8. CASE LockStore(t)
    <3>1. /\ pc' = [pc EXCEPT ![t] = "locked"] /\ pc[t] = "getSession"
          /\ mutex = Nobody /\ mutex' = t
          /\ UNCHANGED <<drop, sessions, handles, todo, id>> /\ drop[t].phase = "none"
      BY <1>t, <2>8 DEF LockStore, At, Goto, InHandler, timer, count
    <3> QED BY <1>t, <1>o, <2>0, <3>1 DEF Mutual, Looping, Holding, Going, Dying, Data
  <2>9. CASE SetLastAccess(t)
    <3>1. /\ pc' = [pc EXCEPT ![t] = "return"] /\ pc[t] = "found"
          /\ UNCHANGED <<drop, sessions, handles, todo, id, mutex>> /\ drop[t].phase = "none"
      BY <1>t, <2>9 DEF SetLastAccess, At, Goto, timer, count
    <3> QED BY <1>t, <2>0, <3>1 DEF Mutual, Looping, Holding, Going, Dying, Data
  <2>10. CASE NotFound(t) \/ UnlockStore(t)
    <3>1. /\ \/ pc' = [pc EXCEPT ![t] = "idle"] /\ pc[t] = "locked"
             \/ pc' = [pc EXCEPT ![t] = "unlocked"] /\ pc[t] = "unlock" /\ id' = id
          /\ \A u \in All : u # t => id'[u] = id[u]
          /\ mutex' = Nobody
          /\ UNCHANGED <<drop, sessions, handles, todo>> /\ drop[t].phase = "none"
      BY <1>t, <2>10 DEF NotFound, UnlockStore, At, Goto, InHandler, timer, count
    <3>2. Mutual' /\ Looping'
      BY <1>t, <1>o, <2>0, <3>1 DEF Mutual, Looping
    <3>3. Holding'
      BY <1>t, <2>0, <3>1 DEF Holding
    <3>4. Going'
      BY <1>t, <1>o, <2>0, <3>1 DEF Going, Mutual, Dying, Data
    <3> QED BY <3>2, <3>3, <3>4
  <2> QED BY <1>2, <2>1, <2>2, <2>3, <2>4, <2>5, <2>6, <2>7, <2>8, <2>9, <2>10 DEF Handler
<1>3. ASSUME TimerStep PROVE Control'
  <2>1. CASE NextSession
    <3>1. PICK i \in todo :
             /\ handles' = handles \cup {Local(Timer, "session", i)}
             /\ id' = [id EXCEPT ![Timer] = i] /\ todo' = todo \ {i}
      BY <2>1 DEF NextSession, Copy
    <3>2. /\ pc' = [pc EXCEPT ![Timer] = "expired?"] /\ pc[Timer] = "loop"
          /\ UNCHANGED <<drop, sessions, mutex>> /\ drop[Timer].phase = "none"
      BY <2>1 DEF NextSession, At, Goto
    <3>3. Mutual' /\ Looping'
      BY <1>t, <1>o, <3>1, <3>2 DEF Mutual, Looping
    <3>4. Holding'
      BY <1>t, <1>o, <3>1, <3>2 DEF Holding
    <3>5. Going'
      BY <1>t, <1>o, <3>1, <3>2 DEF Going, Dying, Data
    <3> QED BY <3>3, <3>4, <3>5
  <2>2. CASE Check
    <3>1. /\ \/ pc' = [pc EXCEPT ![Timer] = "erase"]
             \/ pc' = [pc EXCEPT ![Timer] = "next"]
          /\ pc[Timer] = "expired?"
          /\ UNCHANGED <<drop, sessions, mutex, id, handles, todo>> /\ drop[Timer].phase = "none"
      BY <2>2 DEF Check, At, Goto, count, timer
    <3>2. Mutual' /\ Looping'
      BY <1>t, <1>o, <3>1 DEF Mutual, Looping
    <3>3. Holding'
      BY <1>t, <1>o, <3>1 DEF Holding
    <3>4. Going'
      BY <1>t, <1>o, <3>1 DEF Going, Dying, Data
    <3> QED BY <3>2, <3>3, <3>4
  <2>3. CASE Erase
    <3>1. /\ pc' = [pc EXCEPT ![Timer] = "next"] /\ pc[Timer] = "erase"
          /\ sessions' = sessions \ {id[Timer]}
          /\ UNCHANGED <<mutex, id, handles, todo>> /\ drop[Timer].phase = "none"
          /\ \A u \in All : u # Timer => drop'[u] = drop[u]
          /\ drop'[Timer].handle = Entry(id[Timer])
      BY <1>t, <1>o, <2>3 DEF Erase, At, Goto, Destroy, count, timer
    <3>2. Mutual' /\ Looping'
      BY <1>t, <1>o, <3>1 DEF Mutual, Looping
    <3>3. Holding'
      BY <1>t, <1>o, <3>1 DEF Holding
    <3>4. Going'
      BY <1>t, <1>o, <3>1 DEF Going, Mutual, Dying, Data, Entry, Local
    <3> QED BY <3>2, <3>3, <3>4
  <2>4. CASE EndScope(Timer, "next", "session", "loop")
    <3>1. /\ pc' = [pc EXCEPT ![Timer] = "loop"] /\ pc[Timer] = "next"
          /\ UNCHANGED <<mutex, handles, todo, sessions>> /\ drop[Timer].phase = "none"
          /\ \A u \in All : u # Timer => drop'[u] = drop[u] /\ id'[u] = id[u]
          /\ drop'[Timer].handle = Local(Timer, "session", id[Timer])
      BY <1>t, <1>o, <2>4 DEF EndScope, At, Goto, Destroy, count, timer
    <3>2. Mutual' /\ Looping'
      BY <1>t, <1>o, <3>1 DEF Mutual, Looping
    <3>3. Holding'
      BY <1>t, <1>o, <3>1 DEF Holding
    <3>4. Going'
      BY <1>t, <1>o, <3>1 DEF Going, Dying, Data, Local
    <3> QED BY <3>2, <3>3, <3>4
  <2>5. CASE EndTimerEvent
    <3>1. /\ pc' = [pc EXCEPT ![Timer] = "idle"] /\ pc[Timer] = "loop" /\ mutex' = Nobody
          /\ UNCHANGED <<handles, todo, sessions, drop>> /\ drop[Timer].phase = "none"
          /\ \A u \in All : u # Timer => id'[u] = id[u]
      BY <1>t, <1>o, <2>5 DEF EndTimerEvent, At, Goto, count
    <3>2. Mutual' /\ Looping'
      BY <1>t, <1>o, <3>1 DEF Mutual, Looping
    <3>3. Holding'
      BY <1>t, <1>o, <3>1 DEF Holding
    <3>4. Going'
      BY <1>t, <1>o, <3>1 DEF Going, Mutual, Dying, Data
    <3> QED BY <3>2, <3>3, <3>4
  <2> QED BY <1>3, <2>1, <2>2, <2>3, <2>4, <2>5 DEF TimerStep
<1>4. ASSUME NEW t \in Threads, Request(t) PROVE Control'
  <2>1. /\ pc' = [pc EXCEPT ![t] = "getSessionId"] \/ pc' = [pc EXCEPT ![t] = "getSession"]
        /\ pc[t] = "idle"
        /\ \A u \in All : u # t => id'[u] = id[u]
        /\ UNCHANGED <<drop, sessions, handles, todo, mutex>> /\ drop[t].phase = "none"
    BY <1>t, <1>4 DEF Request, At, Goto, InHandler, timer, count
  <2>2. Mutual' /\ Looping'
    BY <1>t, <1>o, <2>1 DEF Mutual, Looping
  <2>3. Holding'
    BY <1>t, <1>o, <2>1 DEF Holding
  <2>4. Going'
    BY <1>t, <1>o, <2>1 DEF Going, Dying, Data
  <2> QED BY <2>2, <2>3, <2>4
<1>5. CASE TimerEvent
  <2>1. /\ pc' = [pc EXCEPT ![Timer] = "loop"] /\ pc[Timer] = "idle" /\ mutex = Nobody
        /\ mutex' = Timer /\ todo' = sessions
        /\ UNCHANGED <<drop, sessions, handles, id>> /\ drop[Timer].phase = "none"
    BY <1>5 DEF TimerEvent, At, Goto, count
  <2>2. Mutual' /\ Looping'
    BY <1>t, <1>o, <2>1 DEF Mutual, Looping
  <2>3. Holding'
    BY <1>t, <1>o, <2>1 DEF Holding
  <2>4. Going'
    BY <1>t, <1>o, <2>1 DEF Going, Dying, Data
  <2> QED BY <2>2, <2>3, <2>4
<1>6. CASE Advance \/ UNCHANGED vars
  <2>1. UNCHANGED <<pc, id, drop, sessions, handles, todo, mutex>>
    BY <1>6 DEF Advance, vars, count, timer
  <2> QED BY <2>1 DEF Mutual, Looping, Holding, Going, Dying, Data
<1> QED BY <1>1, <1>2, <1>3, <1>4, <1>5, <1>6 DEF Next, Working

-----------------------------------------------------------------------------
(* What is known of times: lastAccess is when getSession was last done     *)
(* with a session, and only grows.                                         *)
Fresh == /\ lastAccess = answered
         /\ \A i \in Ids : answered[i] <= now /\ answeredAtLock[i] <= answered[i]

LEMMA FreshKept ==
  ASSUME IInv, Fresh, ActiveSessionKept, [Next]_vars
  PROVE  Fresh' /\ ActiveSessionKept'
<1> USE DEF IInv
<1>t. /\ lastAccess \in [Ids -> Nat] /\ answered \in [Ids -> Nat]
      /\ answeredAtLock \in [Ids -> Nat] /\ now \in Nat /\ timerNow \in Nat
      /\ pc \in [All -> Places] /\ id \in [All -> Ids \cup {NoId}]
  BY DEF TypeOK
<1>o. Timer \in All /\ Timer \notin Threads /\ expirationTime \in Nat
  BY OwnersAssumption, BoundsAssumption DEF All
<1>i. pc[Timer] \in {"expired?", "erase"} => id[Timer] \in Ids
  BY DEF Control, Looping, TypeOK
<1>c. pc[Timer] = "erase" => timerNow - answeredAtLock[id[Timer]] > expirationTime
  BY DEF ActiveSessionKept
(* A request leaves the timer where it is.                                 *)
<1>1. ASSUME NEW t \in Threads, Request(t) \/ Handler(t) PROVE Fresh' /\ ActiveSessionKept'
  <2>1. /\ pc'[Timer] = pc[Timer] /\ id'[Timer] = id[Timer]
        /\ UNCHANGED <<timerNow, answeredAtLock, now>>
    BY <1>t, <1>o, <1>1 DEF Request, Handler, GetSessionId, LockStore, Find, SetLastAccess,
       Create, NotFound, Return, CallRemove, RemoveEntry, UnlockStore, EndScope, Goto,
       InHandler, timer
  <2>2. ActiveSessionKept'
    BY <2>1, <1>c DEF ActiveSessionKept
  <2>3. Fresh'
    <3>1. CASE SetLastAccess(t) \/ Create(t)
      <4>1. PICK i \in Ids : /\ lastAccess' = [lastAccess EXCEPT ![i] = now]
                             /\ answered' = [answered EXCEPT ![i] = now]
        <5>1. CASE SetLastAccess(t)
          <6>1. Local(t, "session", id[t]) \in Handle
            BY <5>1 DEF SetLastAccess, At, Control, Holding, TypeOK, All
          <6>2. id[t] \in Ids
            BY <6>1 DEF Local, Handle
          <6> QED BY <5>1, <6>2 DEF SetLastAccess, Prolonged
        <5>2. CASE Create(t)
          <6> QED BY <5>2 DEF Create, Unborn
        <5> QED BY <3>1, <5>1, <5>2
      <4> QED BY <4>1, <2>1, <1>t DEF Fresh
    <3>2. CASE ~(SetLastAccess(t) \/ Create(t))
      <4>1. UNCHANGED <<lastAccess, answered>>
        BY <1>1, <3>2 DEF Request, Handler, GetSessionId, LockStore, Find, NotFound, Return,
           CallRemove, RemoveEntry, UnlockStore, EndScope, InHandler
      <4> QED BY <4>1, <2>1 DEF Fresh
    <3> QED BY <3>1, <3>2
  <2> QED BY <2>2, <2>3
<1>2. ASSUME NEW t \in All, Destructor(t) PROVE Fresh' /\ ActiveSessionKept'
  BY <1>2, <1>c DEF Destructor, StoreCount, Reload, Unlock, Delete, TouchDeleted,
     OutsideDestructor, timer, Fresh, ActiveSessionKept
<1>3. ASSUME TimerStep PROVE Fresh' /\ ActiveSessionKept'
  <2>1. CASE Check
    <3>1. /\ pc'[Timer] = "erase" => Expired(id[Timer]) /\ pc[Timer] = "expired?"
          /\ UNCHANGED <<timerNow, answeredAtLock, now, id, lastAccess, answered>>
      BY <2>1, <1>t, <1>o DEF Check, At, Goto, InTimer, timer
    <3>2. Fresh'
      BY <3>1 DEF Fresh
    <3>3. ASSUME Expired(id[Timer]), pc[Timer] = "expired?"
          PROVE  timerNow - answeredAtLock[id[Timer]] > expirationTime
      BY <3>3, <1>i, <1>t, <1>o DEF Fresh, Expired
    <3> QED BY <3>1, <3>2, <3>3 DEF ActiveSessionKept
  <2>2. CASE EndTimerEvent
    <3>1. pc'[Timer] = "idle"
      BY <2>2, <1>t, <1>o DEF EndTimerEvent, Goto
    <3>2. Fresh'
      BY <2>2, <1>t DEF EndTimerEvent, InTimer, Fresh
    <3> QED BY <3>1, <3>2 DEF ActiveSessionKept
  <2>3. CASE NextSession \/ Erase \/ EndScope(Timer, "next", "session", "loop")
    <3>1. /\ pc'[Timer] # "erase"
          /\ UNCHANGED <<answeredAtLock, now, lastAccess, answered>>
      BY <2>3, <1>t, <1>o DEF NextSession, Erase, EndScope, Goto, InTimer, timer
    <3> QED BY <3>1 DEF Fresh, ActiveSessionKept
  <2> QED BY <1>3, <2>1, <2>2, <2>3 DEF TimerStep
<1>4. ASSUME TimerEvent PROVE Fresh' /\ ActiveSessionKept'
  <2>1. pc'[Timer] = "loop" /\ answeredAtLock' = answered
        /\ UNCHANGED <<now, lastAccess, answered>>
    BY <1>4, <1>t, <1>o DEF TimerEvent, Goto, InTimer
  <2> QED BY <2>1, <1>t DEF Fresh, ActiveSessionKept
<1>5. ASSUME Advance PROVE Fresh' /\ ActiveSessionKept'
  <2>1. now' = now + 1 /\ UNCHANGED <<lastAccess, answered, timer, pc, id>>
    BY <1>5 DEF Advance
  <2> QED BY <2>1, <1>t, <1>c DEF Fresh, ActiveSessionKept, timer
<1>6. CASE UNCHANGED vars
  BY <1>6, <1>c DEF vars, timer, Fresh, ActiveSessionKept
<1> QED BY <1>1, <1>2, <1>3, <1>4, <1>5, <1>6 DEF Next, Working
-----------------------------------------------------------------------------
LEMMA InitHolds == Init => IInv /\ Fresh /\ ActiveSessionKept
<1> SUFFICES ASSUME Init PROVE IInv /\ Fresh /\ ActiveSessionKept
  OBVIOUS
<1>1. TypeOK
  <2>1. NoDrop \in [phase : Phases, handle : Handle \cup {NoHandle}, count : Int]
    BY DEF NoDrop, Phases
  <2> QED BY <2>1, OwnersAssumption DEF Init, TypeOK, Places, All
<1>2. Heap
  BY FS_EmptySet DEF Init, Heap, Fin, CountCovers, Alive, Counted, Last, NoDrop
<1>3. Control
  BY OwnersAssumption DEF Init, Control, Mutual, Holding, Going, Looping, NoDrop, All
<1>4. Fresh /\ ActiveSessionKept
  BY DEF Init, Fresh, ActiveSessionKept, All
<1> QED BY <1>1, <1>2, <1>3, <1>4 DEF IInv

LEMMA Inductive == Spec => [](IInv /\ Fresh /\ ActiveSessionKept)
<1>1. IInv /\ Fresh /\ ActiveSessionKept /\ [Next]_vars
        => (IInv /\ Fresh /\ ActiveSessionKept)'
  BY TypeKept, HeapKept, ControlKept, FreshKept DEF IInv
<1> QED BY <1>1, InitHolds, PTL DEF Spec

(* The variables keep their types.                                         *)
THEOREM TypeCorrect == Spec => []TypeOK
BY Inductive, PTL DEF IInv

(* Destructors race on the count of a session (httpsession.cpp:80), but it *)
(* never falls below the handles on it that are left.                      *)
THEOREM CountsCover == Spec => []CountCovers
BY Inductive, PTL DEF IInv, Heap

(* No data is deleted (httpsession.cpp:88) while a handle on it is left.   *)
THEOREM HandlesStayAlive == Spec => []HandlesAlive
<1>1. IInv => HandlesAlive
  BY DEF IInv, Heap, Alive, Control, Holding, HandlesAlive
<1> QED BY <1>1, Inductive, PTL

(* The timer never removes a session that was used within expirationTime   *)
(* when the event began (httpsessionstore.cpp:100).                        *)
THEOREM ActiveSessionsKept == Spec => []ActiveSessionKept
BY Inductive, PTL
-----------------------------------------------------------------------------
(* Why no thread waits for ever: where a thread can be, ...                *)
Placed ==
  /\ \A t \in Threads : pc[t] \notin {"loop", "expired?", "erase", "next"}
  /\ pc[Timer] \in {"idle", "loop", "expired?", "erase", "next"}

(* ... that whoever has the mutex is where it will give it back, ...       *)
Owner == mutex # Nobody =>
  pc[mutex] \in {"locked", "unlock", "loop", "expired?", "erase", "next"}

(* ... that only a running destructor holds the lock of a session, ...     *)
Reading == \A i \in Ids : \A t \in readers[i] :
  drop[t].phase \in {"store", "reload", "unlock"} /\ Data(t) = i

(* ... and that an id is left for every request that may create a session. *)
Born == {i \in Ids : data[i] # "unborn"}
Asking == {t \in Threads : /\ pc[t] \in {"getSessionId", "getSession", "locked"}
                           /\ create[t]}
Births == /\ IsFiniteSet(Born) /\ IsFiniteSet(Asking)
          /\ Cardinality(Born) + Cardinality(Asking) <= requests
          /\ requests <= MaxRequests

(* A thread takes the mutex before it is in the code that has it, and      *)
(* gives it back when it leaves that code, on every return path.           *)
LEMMA OwnerKept ==
  ASSUME TypeOK, Control, Placed, Owner, [Next]_vars
  PROVE  Placed' /\ Owner'
<1>t. pc \in [All -> Places] /\ mutex \in All \cup {Nobody}
  BY DEF TypeOK
<1>o. Timer \in All /\ Timer \notin Threads /\ Nobody \notin All /\ Threads \subseteq All
  BY OwnersAssumption, NobodyAssumption DEF All
<1>1. ASSUME NEW t \in Threads, Request(t) PROVE Placed' /\ Owner'
  <2>1. /\ \E l \in {"getSessionId", "getSession"} : pc' = [pc EXCEPT ![t] = l]
        /\ pc[t] = "idle" /\ mutex' = mutex
    BY <1>1 DEF Request, At, Goto
  <2> QED BY <1>t, <1>o, <2>1 DEF Placed, Owner
<1>2. ASSUME NEW t \in All, Destructor(t) PROVE Placed' /\ Owner'
  <2>1. UNCHANGED <<pc, mutex>>
    BY <1>2 DEF Destructor, StoreCount, Reload, Unlock, Delete, TouchDeleted, OutsideDestructor
  <2> QED BY <2>1 DEF Placed, Owner
<1>3. ASSUME NEW t \in Threads, Handler(t) PROVE Placed' /\ Owner'
  <2>0. t \in All /\ t # Timer
    BY <1>o
  <2>1. ASSUME NEW l, pc' = [pc EXCEPT ![t] = l], mutex' = mutex,
               pc[t] \notin {"locked", "unlock", "loop", "expired?", "erase", "next"},
               l \notin {"loop", "expired?", "erase", "next"}
        PROVE  Placed' /\ Owner'
    BY <1>t, <1>o, <2>0, <2>1 DEF Placed, Owner
  <2>2. ASSUME NEW l, pc' = [pc EXCEPT ![t] = l], mutex' = Nobody,
               l \notin {"loop", "expired?", "erase", "next"}
        PROVE  Placed' /\ Owner'
    BY <1>t, <1>o, <2>0, <2>2 DEF Placed, Owner
  <2>3. ASSUME NEW l \in {"locked", "unlock"}, pc' = [pc EXCEPT ![t] = l], mutex' = t
        PROVE  Placed' /\ Owner'
    BY <1>t, <1>o, <2>0, <2>3 DEF Placed, Owner
  <2>4. CASE Find(t) \/ Create(t) \/ NotFound(t) \/ UnlockStore(t)
    BY <2>2, <2>4 DEF Find, Create, NotFound, UnlockStore, Goto
  <2>5. CASE LockStore(t) \/ RemoveEntry(t)
    BY <2>3, <2>5 DEF LockStore, RemoveEntry, Goto
  <2>6. CASE GetSessionId(t) \/ SetLastAccess(t) \/ Return(t) \/ CallRemove(t)
    BY <2>1, <2>6 DEF GetSessionId, SetLastAccess, Return, CallRemove, At, Goto
  <2>7. CASE EndScope(t, "returned", "session", "using")
    BY <2>1, <2>7 DEF EndScope, At, Goto
  <2>8. CASE EndScope(t, "unlocked", "param", "removed")
    BY <2>1, <2>8 DEF EndScope, At, Goto
  <2>9. CASE \E l \in {"using", "removed"} : EndScope(t, l, "result", "idle")
    BY <2>1, <2>9 DEF EndScope, At, Goto
  <2> QED BY <1>3, <2>4, <2>5, <2>6, <2>7, <2>8, <2>9 DEF Handler
<1>4. ASSUME TimerStep PROVE Placed' /\ Owner'
  <2>1. ASSUME NEW l \in {"loop", "expired?", "erase", "next"},
               pc' = [pc EXCEPT ![Timer] = l], mutex' = mutex
        PROVE  Placed' /\ Owner'
    BY <1>t, <1>o, <2>1 DEF Placed, Owner
  <2>2. CASE NextSession \/ Check \/ Erase
    BY <2>1, <2>2 DEF NextSession, Check, Erase, Goto
  <2>3. CASE EndScope(Timer, "next", "session", "loop")
    BY <2>1, <2>3 DEF EndScope, Goto
  <2>4. CASE EndTimerEvent
    <3>1. pc' = [pc EXCEPT ![Timer] = "idle"] /\ mutex' = Nobody
      BY <2>4 DEF EndTimerEvent, Goto
    <3> QED BY <1>t, <1>o, <3>1 DEF Placed, Owner
  <2> QED BY <1>4, <2>2, <2>3, <2>4 DEF TimerStep
<1>5. CASE TimerEvent
  <2>1. pc' = [pc EXCEPT ![Timer] = "loop"] /\ mutex' = Timer
    BY <1>5 DEF TimerEvent, Goto
  <2> QED BY <1>t, <1>o, <2>1 DEF Placed, Owner
<1>6. CASE Advance \/ UNCHANGED vars
  BY <1>6 DEF Advance, vars, Placed, Owner
<1> QED BY <1>1, <1>2, <1>3, <1>4, <1>5, <1>6 DEF Next, Working

(* A destructor takes the lock of its session and gives it back before it  *)
(* deletes the data.                                                       *)
LEMMA ReadingKept ==
  ASSUME TypeOK, Heap, Control, Reading, [Next]_vars
  PROVE  Reading'
<1>t. /\ drop \in [All -> [phase : Phases, handle : Handle \cup {NoHandle}, count : Int]]
      /\ readers \in [Ids -> SUBSET All]
  BY DEF TypeOK
<1>o. Timer \in All /\ Threads \subseteq All
  BY DEF All
<1>1. ASSUME NEW t \in All, NEW h \in Handle, Destroy(t, h), drop[t].phase = "none"
      PROVE  Reading'
  <2>1. /\ readers' = [readers EXCEPT ![h.id] = @ \cup {t}]
        /\ drop' = [drop EXCEPT ![t] =
                      [phase |-> "store", handle |-> h, count |-> refCount[h.id]]]
    BY <1>1 DEF Destroy
  <2>2. SUFFICES ASSUME NEW i \in Ids, NEW u \in readers'[i]
                 PROVE  drop'[u].phase \in {"store", "reload", "unlock"} /\ drop'[u].handle.id = i
    BY DEF Reading, Data, Dying
  <2>3. u \in readers[i] => u # t /\ u \in All
    BY <1>1, <1>t DEF Reading
  <2>4. CASE u \in readers[i]
    BY <1>t, <2>1, <2>3, <2>4 DEF Reading, Data, Dying
  <2>5. CASE u \notin readers[i]
    BY <1>t, <2>1, <2>5 DEF Handle
  <2> QED BY <2>4, <2>5
<1>2. ASSUME NEW t \in All, NEW from, NEW name, NEW to, EndScope(t, from, name, to),
             Local(t, name, id[t]) \in handles
      PROVE  Reading'
  BY <1>1, <1>2 DEF EndScope, At, TypeOK
<1>3. ASSUME UNCHANGED <<readers, drop>> PROVE Reading'
  BY <1>3 DEF Reading, Data, Dying
<1>4. ASSUME NEW t \in All, Destructor(t) PROVE Reading'
  <2>1. CASE StoreCount(t) \/ Reload(t)
    <3>1. /\ drop'[t].phase \in {"reload", "unlock"} /\ drop'[t].handle = drop[t].handle
          /\ \A u \in All : u # t => drop'[u] = drop[u]
          /\ readers' = readers
      BY <1>t, <2>1 DEF StoreCount, Reload
    <3> QED BY <1>t, <3>1 DEF Reading, Data, Dying
  <2>2. CASE Unlock(t)
    <3>1. /\ readers' = [readers EXCEPT ![Data(t)] = @ \ {t}]
          /\ \A u \in All : u # t => drop'[u] = drop[u]
      BY <1>t, <2>2 DEF Unlock
    <3>2. \A i \in Ids : \A u \in readers'[i] : u # t /\ u \in All /\ u \in readers[i]
      BY <1>t, <3>1 DEF Reading
    <3> QED BY <3>1, <3>2 DEF Reading, Data, Dying
  <2>3. CASE Delete(t)
    <3>1. /\ readers' = readers /\ drop[t].phase = "delete"
          /\ \A u \in All : u # t => drop'[u] = drop[u]
      BY <1>t, <2>3 DEF Delete
    <3>2. \A i \in Ids : \A u \in readers[i] : u # t /\ u \in All
      BY <1>t, <3>1 DEF Reading
    <3> QED BY <3>1, <3>2 DEF Reading, Data, Dying
  <2>4. CASE TouchDeleted(t)
    BY <1>3, <2>4 DEF TouchDeleted
  <2> QED BY <1>4, <2>1, <2>2, <2>3, <2>4 DEF Destructor
<1>5. ASSUME NEW t \in Threads, Handler(t) PROVE Reading'
  <2>0. t \in All
    BY <1>o
  <2>1. CASE RemoveEntry(t)
    <3>1. CASE id[t] \in sessions
      <4>1. Entry(id[t]) \in Handle
        BY <3>1 DEF TypeOK, Control, Holding
      <4> QED BY <1>1, <2>0, <2>1, <3>1, <4>1 DEF RemoveEntry, At
    <3>2. CASE id[t] \notin sessions
      BY <1>3, <2>1, <3>2 DEF RemoveEntry
    <3> QED BY <3>1, <3>2
  <2>2. CASE EndScope(t, "returned", "session", "using")
    BY <1>2, <2>0, <2>2 DEF EndScope, At, Control, Holding
  <2>3. CASE EndScope(t, "unlocked", "param", "removed")
    BY <1>2, <2>0, <2>3 DEF EndScope, At, Control, Holding
  <2>4. CASE \E l \in {"using", "removed"} : EndScope(t, l, "result", "idle")
    BY <1>2, <2>0, <2>4 DEF EndScope, At, Control, Holding
  <2>5. CASE \/ GetSessionId(t) \/ LockStore(t) \/ Find(t) \/ SetLastAccess(t) \/ Create(t)
             \/ NotFound(t) \/ Return(t) \/ CallRemove(t) \/ UnlockStore(t)
    BY <1>3, <2>5 DEF GetSessionId, LockStore, Find, SetLastAccess, Create, NotFound, Return,
       CallRemove, UnlockStore, Copy
  <2> QED BY <1>5, <2>1, <2>2, <2>3, <2>4, <2>5 DEF Handler
<1>6. ASSUME TimerStep PROVE Reading'
  <2>1. CASE Erase
    <3>1. Entry(id[Timer]) \in Handle
      BY <2>1 DEF Erase, At, Control, Looping, Holding, TypeOK
    <3> QED BY <1>1, <1>o, <2>1, <3>1 DEF Erase, At
  <2>2. CASE EndScope(Timer, "next", "session", "loop")
    BY <1>2, <1>o, <2>2 DEF EndScope, At, Control, Holding
  <2>3. CASE NextSession \/ Check \/ EndTimerEvent
    BY <1>3, <2>3 DEF NextSession, Check, EndTimerEvent, Copy
  <2> QED BY <1>6, <2>1, <2>2, <2>3 DEF TimerStep
<1>7. CASE (\E t \in Threads : Request(t)) \/ TimerEvent \/ Advance \/ UNCHANGED vars
  BY <1>3, <1>7 DEF Request, TimerEvent, Advance, vars
<1> QED BY <1>4, <1>5, <1>6, <1>7 DEF Next, Working

(* A session is born of a request, and a request that has one asks for no  *)
(* other.                                                                  *)
LEMMA BirthsKept ==
  ASSUME TypeOK, TypeOK', Births, Placed, [Next]_vars
  PROVE  Births'
<1> DEFINE B == Born   A == Asking
           C == Born'  D == Asking'
<1>t. /\ pc \in [All -> Places] /\ create \in [Threads -> BOOLEAN]
      /\ data \in [Ids -> {"unborn", "alive", "deleted"}]
      /\ requests \in Nat /\ MaxRequests \in Nat
  BY BoundsAssumption DEF TypeOK
<1>o. Timer \in All /\ Timer \notin Threads /\ Threads \subseteq All
  BY OwnersAssumption DEF All
<1>f. /\ IsFiniteSet(B) /\ IsFiniteSet(A)
      /\ Cardinality(B) \in Nat /\ Cardinality(A) \in Nat
      /\ Cardinality(B) + Cardinality(A) <= requests /\ requests <= MaxRequests
  BY FS_CardinalityType DEF Births
(* Three kinds of steps.                                                   *)
<1>1. ASSUME NEW t, C = B, D \subseteq A \cup {t}, requests' = requests + 1,
             requests < MaxRequests
      PROVE  Births'
  <2> HIDE DEF A, B, C, D
  <2>1. /\ IsFiniteSet(A \cup {t})
        /\ Cardinality(A \cup {t}) = IF t \in A THEN Cardinality(A) ELSE Cardinality(A) + 1
    BY <1>f, FS_AddElement
  <2>2. IsFiniteSet(D) /\ Cardinality(D) <= Cardinality(A \cup {t})
    BY <1>1, <2>1, FS_Subset
  <2>3. Cardinality(D) \in Nat /\ Cardinality(D) <= Cardinality(A) + 1
    BY <1>f, <2>1, <2>2, FS_CardinalityType
  <2>4. /\ IsFiniteSet(C) /\ IsFiniteSet(D)
        /\ Cardinality(C) + Cardinality(D) <= requests' /\ requests' <= MaxRequests
    BY <1>f, <1>t, <1>1, <2>2, <2>3
  <2> QED BY <2>4 DEF Births, C, D
<1>2. ASSUME C = B, D \subseteq A, requests' = requests
      PROVE  Births'
  <2> HIDE DEF A, B, C, D
  <2>1. IsFiniteSet(D) /\ Cardinality(D) <= Cardinality(A)
    BY <1>f, <1>2, FS_Subset
  <2>2. Cardinality(D) \in Nat
    BY <2>1, FS_CardinalityType
  <2>3. /\ IsFiniteSet(C) /\ IsFiniteSet(D)
        /\ Cardinality(C) + Cardinality(D) <= requests' /\ requests' <= MaxRequests
    BY <1>f, <1>t, <1>2, <2>1, <2>2
  <2> QED BY <2>3 DEF Births, C, D
<1>3. ASSUME NEW i, NEW t \in A, C = B \cup {i}, D \subseteq A \ {t}, requests' = requests
      PROVE  Births'
  <2> HIDE DEF A, B, C, D
  <2>1. IsFiniteSet(A \ {t}) /\ Cardinality(A \ {t}) = Cardinality(A) - 1
    BY <1>f, FS_RemoveElement
  <2>2. IsFiniteSet(D) /\ Cardinality(D) <= Cardinality(A) - 1
    BY <1>3, <2>1, FS_Subset
  <2>3. /\ IsFiniteSet(B \cup {i})
        /\ Cardinality(B \cup {i}) = IF i \in B THEN Cardinality(B) ELSE Cardinality(B) + 1
    BY <1>f, FS_AddElement
  <2>4. IsFiniteSet(C) /\ Cardinality(C) <= Cardinality(B) + 1
    BY <1>3, <1>f, <2>3
  <2>5. Cardinality(C) \in Nat /\ Cardinality(D) \in Nat
    BY <2>2, <2>4, FS_CardinalityType
  <2>6. Cardinality(C) + Cardinality(D) <= requests' /\ requests' <= MaxRequests
    BY <1>f, <1>t, <1>3, <2>2, <2>4, <2>5
  <2> QED BY <2>2, <2>4, <2>6 DEF Births, C, D
(* Which step is of which kind.                                            *)
<1>4. ASSUME NEW t \in Threads, Request(t) PROVE Births'
  <2>1. /\ data' = data /\ requests' = requests + 1 /\ requests < MaxRequests
        /\ \A u \in Threads \ {t} : pc'[u] = pc[u] /\ create'[u] = create[u]
    BY <1>4, <1>t, <1>o DEF Request, Goto, count
  <2>2. C = B
    BY <2>1 DEF Born
  <2>3. D \subseteq A \cup {t}
    BY <2>1 DEF Asking
  <2> QED BY <1>1, <2>1, <2>2, <2>3
<1>5. ASSUME NEW t \in Threads, Create(t) PROVE Births'
  <2>1. PICK i \in Unborn : data' = [data EXCEPT ![i] = "alive"]
    BY <1>5 DEF Create
  <2>2. /\ pc[t] = "locked" /\ create[t] /\ pc' = [pc EXCEPT ![t] = "return"]
        /\ create' = create /\ requests' = requests
    BY <1>5 DEF Create, At, Goto
  <2>3. C = B \cup {i}
    BY <1>t, <2>1 DEF Born, Unborn
  <2>4. t \in A /\ D \subseteq A \ {t}
    BY <1>t, <1>o, <2>2 DEF Asking
  <2> QED BY <1>3, <2>2, <2>3, <2>4
<1>6. ASSUME data' = data, requests' = requests, create' = create,
             \A u \in Threads : pc'[u] \in {"getSessionId", "getSession", "locked"}
               => pc[u] \in {"getSessionId", "getSession", "locked"}
      PROVE  Births'
  <2>1. C = B
    BY <1>6 DEF Born
  <2>2. D \subseteq A
    BY <1>6 DEF Asking
  <2> QED BY <1>2, <1>6, <2>1, <2>2
<1>7. ASSUME NEW t \in Threads, Handler(t), ~Create(t) PROVE Births'
  <2>1. data' = data /\ requests' = requests /\ create' = create
    BY <1>7 DEF Handler, GetSessionId, LockStore, Find, SetLastAccess, NotFound, Return,
       CallRemove, RemoveEntry, UnlockStore, EndScope, Copy, Destroy, InHandler, count
  <2>2. \E l \in Places : /\ pc' = [pc EXCEPT ![t] = l]
                          /\ \/ l \notin {"getSessionId", "getSession", "locked"}
                             \/ pc[t] \in {"getSessionId", "getSession", "locked"}
    BY <1>7 DEF Handler, GetSessionId, LockStore, Find, SetLastAccess, NotFound, Return,
       CallRemove, RemoveEntry, UnlockStore, EndScope, Goto, At, Places
  <2> QED BY <1>6, <1>t, <1>o, <2>1, <2>2
<1>8. ASSUME TimerStep \/ TimerEvent PROVE Births'
  <2>1. data' = data /\ requests' = requests /\ create' = create
    BY <1>8 DEF TimerStep, TimerEvent, NextSession, Check, Erase, EndTimerEvent, EndScope,
       Copy, Destroy, InTimer, count
  <2>2. \E l \in Places : pc' = [pc EXCEPT ![Timer] = l]
    BY <1>8 DEF TimerStep, TimerEvent, NextSession, Check, Erase, EndTimerEvent, EndScope,
       Goto, Places
  <2> QED BY <1>6, <1>t, <1>o, <2>1, <2>2
<1>9. ASSUME NEW t \in All, Destructor(t), UNCHANGED pc PROVE Births'
  <2>1. requests' = requests /\ create' = create
    BY <1>9 DEF Destructor, StoreCount, Reload, Unlock, Delete, TouchDeleted, OutsideDestructor
  <2>2. CASE Delete(t)
    <3>1. C = B
      BY <1>t, <2>2 DEF Delete, Born
    <3>2. D \subseteq A
      BY <1>9, <2>1 DEF Asking
    <3> QED BY <1>2, <2>1, <3>1, <3>2
  <2>3. CASE ~Delete(t)
    <3>1. data' = data
      BY <1>9, <2>3 DEF Destructor, StoreCount, Reload, Unlock, TouchDeleted, count
    <3> QED BY <1>6, <1>9, <2>1, <3>1
  <2> QED BY <2>2, <2>3
<1>10. ASSUME NEW t \in All, Destructor(t) PROVE UNCHANGED pc
  BY <1>10 DEF Destructor, StoreCount, Reload, Unlock, Delete, TouchDeleted, OutsideDestructor
<1>11. CASE Advance \/ UNCHANGED vars
  <2>1. UNCHANGED <<data, requests, create, pc>>
    BY <1>11 DEF Advance, vars, count
  <2> QED BY <1>6, <2>1
<1> QED BY <1>4, <1>5, <1>7, <1>8, <1>9, <1>10, <1>11 DEF Next, Working

(* If a destructor runs, it need not wait.  If none does, no session is    *)
(* locked, and whoever has the mutex can go on; if nobody has it, anybody  *)
(* can.                                                                    *)
LEMMA SomeoneIsReady ==
  ASSUME IInv, Placed, Owner, Reading, Births
  PROVE  NoDeadlock
<1> SUFFICES ASSUME NEW t \in All, ~At(t, "idle"), \A u \in All : drop[u].phase = "none"
             PROVE  \E u \in All : Ready(u)
  BY DEF NoDeadlock, Ready
<1>t. /\ pc \in [All -> Places] /\ id \in [All -> Ids \cup {NoId}] /\ todo \subseteq Ids
      /\ readers \in [Ids -> SUBSET All] /\ mutex \in All \cup {Nobody}
      /\ create \in [Threads -> BOOLEAN] /\ sessions \subseteq Ids /\ handles \subseteq Handle
  BY DEF IInv, TypeOK
<1>o. Timer \in All /\ Nobody \notin All /\ All = Threads \cup {Timer}
  BY NobodyAssumption DEF All
<1>1. \A i \in Ids : CanWrite(i)
  BY <1>t DEF Reading, CanWrite
<1>2. \A u \in All : pc[u] = "return" => id[u] \in Ids
  <2> SUFFICES ASSUME NEW u \in All, pc[u] = "return" PROVE id[u] \in Ids
    OBVIOUS
  <2>1. Local(u, "session", id[u]) \in Handle
    BY <1>t DEF IInv, Control, Holding
  <2> QED BY <2>1 DEF Local, Handle
<1>3. ASSUME NEW u \in Threads, pc[u] = "locked", create[u] PROVE Unborn # {}
  <2>1. u \in Asking
    BY <1>3 DEF Asking
  <2>2. Cardinality(Asking) # 0 /\ Cardinality(Asking) \in Nat /\ Cardinality(Born) \in Nat
    BY <2>1, FS_EmptySet, FS_CardinalityType DEF Births
  <2>3. requests \in Nat /\ MaxRequests \in Nat
    BY BoundsAssumption DEF IInv, TypeOK
  <2>4. Cardinality(Born) < MaxRequests
    BY <2>2, <2>3 DEF Births
  <2>5. Born # Ids
    BY <2>4, FreshIdsAssumption DEF Births, Born
  <2> QED BY <2>5 DEF Born, Unborn
<1>4. CASE mutex # Nobody
  <2>1. mutex \in All /\ pc[mutex] \in {"locked", "unlock", "loop", "expired?", "erase", "next"}
    BY <1>t, <1>4 DEF Owner
  <2>2. Ready(mutex)
    BY <1>t, <1>o, <1>1, <1>3, <2>1 DEF Ready, Placed
  <2> QED BY <2>1, <2>2
<1>5. CASE mutex = Nobody
  <2>1. pc[t] # "idle"
    BY DEF At
  <2>2. pc[t] \notin {"locked", "loop", "expired?", "erase", "next"}
    BY <1>5, <1>o DEF IInv, Control, Mutual
  <2>3. t \in Threads
    BY <1>o, <2>1, <2>2 DEF Placed
  <2>4. Ready(t)
    BY <1>t, <1>1, <1>2, <1>5, <2>1, <2>2, <2>3 DEF Ready, Places
  <2> QED BY <2>4
<1> QED BY <1>4, <1>5

(* Whatever the threads are at, one of them can go on: no return path      *)
(* keeps the mutex, and the mutex and the locks of the sessions are never  *)
(* waited for in a circle (httpsessionstore.cpp:58, 109, 114, 125).        *)
THEOREM NoThreadStuck == Spec => []NoDeadlock
<1>1. Init => Placed /\ Owner /\ Reading /\ Births
  <2> SUFFICES ASSUME Init PROVE Placed /\ Owner /\ Reading /\ Births
    OBVIOUS
  <2>1. Placed /\ Owner /\ Reading
    BY OwnersAssumption DEF Init, Placed, Owner, Reading, All
  <2>2. Born = {} /\ Asking = {}
    BY OwnersAssumption DEF Init, Born, Asking, All
  <2>3. Births
    BY <2>2, FS_EmptySet, BoundsAssumption DEF Init, Births
  <2> QED BY <2>1, <2>3
<1>2. IInv /\ IInv' /\ [Next]_vars /\ Placed /\ Owner /\ Reading /\ Births
        => (Placed /\ Owner /\ Reading /\ Births)'
  BY OwnerKept, ReadingKept, BirthsKept DEF IInv
<1>3. IInv /\ Placed /\ Owner /\ Reading /\ Births => NoDeadlock
  BY SomeoneIsReady
<1>4. Spec => []IInv
  BY Inductive, PTL
<1> QED BY <1>1, <1>2, <1>3, <1>4, PTL DEF Spec
=============================================================================
