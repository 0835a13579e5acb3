-------------------------- MODULE MapLoaderProofs ---------------------------
(***************************************************************************)
(* Proofs about MapLoader: for any number of loads, maps and records, the  *)
(* map of a load that runs alone is drawn and sent whole, the settled page *)
(* agrees with itself and the server, and roads fit their buildings.       *)
(***************************************************************************)
EXTENDS MapLoader, TLAPS

(* The loads not started yet, and what every started one has.              *)
Untouched ==
  \A l \in LoadIds : l > last =>
    kind[l] = "none" /\ \A f \in Files : phase[f][l] = "idle" /\ read[f][l] = 0
Chains ==
  \A l \in Started : kind[l] = "default" => \A f \in Files : phase[f][l] # "idle"

(* Who runs alone found nobody running and was left alone.                 *)
Alone ==
  \A l \in Started : alone[l] =>
    /\ \A k \in LoadIds : k < l => ~Running(k)
    /\ l # last => ~Running(l)

Owned == \A f \in Files : \A r \in collected[f] :
           r[1] \in Started /\ phase[f][r[1]] # "idle"

Shape == Untouched /\ Chains /\ Alone /\ Owned

-----------------------------------------------------------------------------
(* Types.                                                                  *)
LEMMA FilesTwo == "building" \in Files /\ "road" \in Files /\ "building" # "road"
  BY DEF Files

LEMMA BoxNotNo == \A l \in LoadIds, f \in Files : <<l, f>> \in Box /\ <<l, f>> # NoBox
  BY DEF Box, NoBox

LEMMA InitType == Init => TypeOK
<1> SUFFICES ASSUME Init PROVE TypeOK
  OBVIOUS
<1> USE LoaderAssumption DEF Init
<1>1. last \in 0 .. MaxLoads /\ \A f \in Files : controls[f] \in Nat
  OBVIOUS
<1>2. 0 \in 0 .. Records
  OBVIOUS
<1>3. Nothing \in [recs : SUBSET Record, box : Box \cup {NoBox}, scale : Box \cup {NoBox}]
  BY DEF Nothing
<1> QED BY <1>1, <1>2, <1>3 DEF TypeOK, Kinds, Phases

(* How a load starts.                                                      *)
LEMMA OpenFacts ==
  ASSUME TypeOK, NEW k \in Kinds, NEW m \in Maps \cup {NoMap}, NEW files \in SUBSET Files,
         Open(k, m, files)
  PROVE  /\ last + 1 \in LoadIds /\ last' = last + 1 /\ last' \in 0 .. MaxLoads
         /\ Started' = Started \cup {last + 1} /\ last + 1 \notin Started
         /\ kind' \in [LoadIds -> Kinds] /\ kind'[last + 1] = k
         /\ mapOf' \in [LoadIds -> Maps \cup {NoMap}] /\ mapOf'[last + 1] = m
         /\ phase' \in [Files -> [LoadIds -> Phases]] /\ read' = read
         /\ \A f \in Files : f \in files => phase'[f][last + 1] = "reading"
         /\ \A f \in Files : f \notin files => phase'[f][last + 1] = phase[f][last + 1]
         /\ \A l \in LoadIds : l # last + 1 =>
              kind'[l] = kind[l] /\ mapOf'[l] = mapOf[l]
              /\ \A f \in Files : phase'[f][l] = phase[f][l]
<1> USE LoaderAssumption
<1>1. last + 1 \in LoadIds /\ last' = last + 1 /\ last' \in 0 .. MaxLoads
      /\ Started' = Started \cup {last + 1} /\ last + 1 \notin Started
  BY DEF Open, TypeOK, LoadIds, Started
<1>2. kind' = [kind EXCEPT ![last + 1] = k] /\ mapOf' = [mapOf EXCEPT ![last + 1] = m]
      /\ kind \in [LoadIds -> Kinds] /\ mapOf \in [LoadIds -> Maps \cup {NoMap}]
      /\ read' = read
  BY DEF Open, TypeOK
<1>3. /\ phase \in [Files -> [LoadIds -> Phases]] /\ "reading" \in Phases
      /\ phase' = [f \in Files |->
           IF f \in files THEN [phase[f] EXCEPT ![last + 1] = "reading"] ELSE phase[f]]
  BY DEF Open, TypeOK, Phases
<1>4. phase' \in [Files -> [LoadIds -> Phases]]
  BY <1>1, <1>3
<1>5. \A f \in Files : /\ f \in files => phase'[f][last + 1] = "reading"
                       /\ f \notin files => phase'[f][last + 1] = phase[f][last + 1]
                       /\ \A l \in LoadIds : l # last + 1 => phase'[f][l] = phase[f][l]
  BY <1>1, <1>3
<1> QED BY <1>1, <1>2, <1>4, <1>5

(* The variables of the chains, all together.                              *)
ChainsOK ==
  /\ last \in 0 .. MaxLoads /\ kind \in [LoadIds -> Kinds]
  /\ mapOf \in [LoadIds -> Maps \cup {NoMap}]
  /\ phase \in [Files -> [LoadIds -> Phases]]
  /\ read \in [Files -> [LoadIds -> 0 .. Records]]
  /\ alone \in [LoadIds -> BOOLEAN]

LEMMA OpenAlone ==
  ASSUME TypeOK, NEW k, NEW m, NEW files, Open(k, m, files)
  PROVE  /\ alone' \in [LoadIds -> BOOLEAN]
         /\ last + 1 \in LoadIds =>
              (alone'[last + 1] = TRUE) <=> (\A j \in LoadIds : ~Running(j))
         /\ \A l \in LoadIds : l # last + 1 =>
              ((alone'[l] = TRUE) <=> (alone[l] = TRUE /\ ~Running(l)))
<1>1. alone \in [LoadIds -> BOOLEAN]
      /\ alone' = [l \in LoadIds |->
           IF l = last + 1 THEN \A k2 \in LoadIds : ~Running(k2)
                           ELSE alone[l] /\ ~Running(l)]
  BY DEF TypeOK, Open
<1> QED BY <1>1, Zenon

LEMMA OpenType ==
  ASSUME TypeOK, NEW k \in Kinds, NEW m \in Maps \cup {NoMap}, NEW files \in SUBSET Files,
         Open(k, m, files)
  PROVE  ChainsOK'
<1>1. alone' \in [LoadIds -> BOOLEAN]
  BY OpenAlone
<1>2. /\ last' \in 0 .. MaxLoads /\ kind' \in [LoadIds -> Kinds]
      /\ mapOf' \in [LoadIds -> Maps \cup {NoMap}]
      /\ phase' \in [Files -> [LoadIds -> Phases]] /\ read' = read
  BY OpenFacts
<1>3. read \in [Files -> [LoadIds -> 0 .. Records]]
  BY DEF TypeOK
<1> QED BY <1>1, <1>2, <1>3 DEF ChainsOK

LEMMA StartType ==
  ASSUME TypeOK, (\E m \in Maps : ParseDefaultfile(m)) \/ ParseFile \/ ParseRoadFile
  PROVE  TypeOK'
<1> USE LoaderAssumption, FilesTwo
<1>1. shown \in [Files -> SUBSET LoadIds] /\ controls \in [Files -> Nat]
      /\ collected \in [Files -> SUBSET Record]
  BY DEF TypeOK
<1>2. \A f \in Files : Hidden(f) \in SUBSET LoadIds
  BY <1>1 DEF Hidden
<1>3. ASSUME NEW m \in Maps, ParseDefaultfile(m) PROVE TypeOK'
  <2>1. Open("default", m, Files) /\ "default" \in Kinds /\ m \in Maps \cup {NoMap}
        /\ Files \in SUBSET Files
    BY <1>3 DEF ParseDefaultfile, Kinds
  <2>2. /\ shown' \in [Files -> SUBSET LoadIds] /\ controls' \in [Files -> Nat]
        /\ collected' \in [Files -> SUBSET Record]
    BY <1>1, <1>2, <1>3 DEF ParseDefaultfile, ClearPage
  <2>3. label' = m /\ UNCHANGED <<sock, box, scale, current, heard, picture>>
    BY <1>3 DEF ParseDefaultfile
  <2>4. ChainsOK'
    BY <2>1, OpenType
  <2> QED BY <2>2, <2>3, <2>4 DEF TypeOK, ChainsOK
<1>4. CASE ParseFile
  <2>1. Open("file", NoMap, {"building"}) /\ "file" \in Kinds
        /\ NoMap \in Maps \cup {NoMap} /\ {"building"} \in SUBSET Files
    BY <1>4 DEF ParseFile, Kinds
  <2>2. shown' \in [Files -> SUBSET LoadIds]
    BY <1>1, <1>2, <1>4 DEF ParseFile
  <2>3. UNCHANGED <<sock, label, collected, box, scale, current, controls, heard, picture>>
    BY <1>4 DEF ParseFile
  <2>4. ChainsOK'
    BY <2>1, OpenType
  <2> QED BY <2>2, <2>3, <2>4 DEF TypeOK, ChainsOK
<1>5. CASE ParseRoadFile
  <2>1. Open("roadFile", NoMap, {"road"}) /\ "roadFile" \in Kinds
        /\ NoMap \in Maps \cup {NoMap} /\ {"road"} \in SUBSET Files
    BY <1>5 DEF ParseRoadFile, Kinds
  <2>2. UNCHANGED <<sock, label, collected, box, scale, current, shown, controls, heard,
                    picture>>
    BY <1>5 DEF ParseRoadFile
  <2>3. ChainsOK'
    BY <2>1, OpenType
  <2> QED BY <2>2, <2>3 DEF TypeOK, ChainsOK
<1> QED BY <1>3, <1>4, <1>5

(* What a draw does, with the box and scale it leaves.                     *)
LEMMA DrawFacts ==
  ASSUME TypeOK, NEW f \in Files, NEW l \in LoadIds, Draw(f, l),
         box' \in Box \cup {NoBox}, scale' \in Box \cup {NoBox}
  PROVE  /\ phase[f][l] = "reading" /\ read[f][l] = Records
         /\ phase' \in [Files -> [LoadIds -> Phases]] /\ phase'[f][l] = "drawn"
         /\ picture' \in [Files -> [LoadIds ->
              [recs : SUBSET Record, box : Box \cup {NoBox}, scale : Box \cup {NoBox}]]]
         /\ picture'[f][l] = [recs |-> collected[f], box |-> box', scale |-> scale']
         /\ \A g \in Files, k \in LoadIds : g # f \/ k # l =>
              phase'[g][k] = phase[g][k] /\ picture'[g][k] = picture[g][k]
         /\ current' \in [Files -> LoadIds \cup {Nobody}] /\ current'[f] = l
         /\ shown' \in [Files -> SUBSET LoadIds] /\ shown'[f] = shown[f] \cup {l}
         /\ controls' \in [Files -> Nat] /\ controls'[f] = controls[f] + 1
         /\ \A g \in Files : g # f =>
              current'[g] = current[g] /\ shown'[g] = shown[g] /\ controls'[g] = controls[g]
         /\ UNCHANGED <<sock, label, collected, last, kind, mapOf, read, alone>>
<1>1. /\ phase \in [Files -> [LoadIds -> Phases]] /\ "drawn" \in Phases
      /\ phase' = [phase EXCEPT ![f][l] = "drawn"]
  BY DEF TypeOK, Draw, Phases
<1>2. phase' \in [Files -> [LoadIds -> Phases]] /\ phase'[f][l] = "drawn"
      /\ \A g \in Files, k \in LoadIds : g # f \/ k # l => phase'[g][k] = phase[g][k]
  BY <1>1
<1> DEFINE P == [recs : SUBSET Record, box : Box \cup {NoBox}, scale : Box \cup {NoBox}]
           p == [recs |-> collected[f], box |-> box', scale |-> scale']
<1>3. p \in P
  BY DEF TypeOK
<1>4. picture \in [Files -> [LoadIds -> P]] /\ picture' = [picture EXCEPT ![f][l] = p]
  BY DEF TypeOK, Draw
<1> HIDE DEF P, p
<1>5. picture' \in [Files -> [LoadIds -> P]] /\ picture'[f][l] = p
      /\ \A g \in Files, k \in LoadIds : g # f \/ k # l => picture'[g][k] = picture[g][k]
  BY <1>3, <1>4
<1>6. /\ current' \in [Files -> LoadIds \cup {Nobody}] /\ current'[f] = l
      /\ shown' \in [Files -> SUBSET LoadIds] /\ shown'[f] = shown[f] \cup {l}
      /\ controls' \in [Files -> Nat] /\ controls'[f] = controls[f] + 1
      /\ \A g \in Files : g # f =>
           current'[g] = current[g] /\ shown'[g] = shown[g] /\ controls'[g] = controls[g]
  BY DEF TypeOK, Draw
<1> QED BY <1>2, <1>5, <1>6 DEF Draw, P, p

LEMMA DrawBoxes ==
  ASSUME TypeOK, NEW l \in LoadIds
  PROVE  /\ DrawBuildings(l) => box' \in Box \cup {NoBox} /\ scale' \in Box \cup {NoBox}
         /\ DrawRoads(l) => box' \in Box \cup {NoBox} /\ scale' \in Box \cup {NoBox}
  BY BoxNotNo, FilesTwo DEF DrawBuildings, DrawRoads, TypeOK

LEMMA ChainType ==
  ASSUME TypeOK, NEW l \in LoadIds,
         \/ \E f \in Files : Read(f, l) \/ Fail(f, l)
         \/ DrawBuildings(l) \/ DrawRoads(l)
  PROVE  TypeOK'
<1> USE LoaderAssumption, FilesTwo
<1>1. ASSUME NEW f \in Files, Read(f, l) PROVE TypeOK'
  <2>1. read[f][l] + 1 \in 0 .. Records /\ read[f][l] + 1 \in 1 .. Records
        /\ read' = [read EXCEPT ![f][l] = @ + 1]
        /\ read \in [Files -> [LoadIds -> 0 .. Records]]
    BY <1>1 DEF TypeOK, Read
  <2>2. read' \in [Files -> [LoadIds -> 0 .. Records]]
    BY <2>1
  <2>3. <<l, read[f][l] + 1>> \in Record
    BY <2>1 DEF Record
  <2>4. collected' \in [Files -> SUBSET Record]
    BY <1>1, <2>3 DEF TypeOK, Read
  <2> QED BY <1>1, <2>2, <2>4 DEF TypeOK, Read
<1>2. ASSUME NEW f \in Files, Fail(f, l) PROVE TypeOK'
  <2>1. phase' \in [Files -> [LoadIds -> Phases]]
    BY <1>2 DEF TypeOK, Fail, Phases
  <2> QED BY <1>2, <2>1 DEF TypeOK, Fail
<1>3. CASE DrawBuildings(l)
  <2>1. Draw("building", l) /\ heard' \in LoadIds \cup {Nobody}
        /\ box' \in Box \cup {NoBox} /\ scale' \in Box \cup {NoBox}
    BY <1>3, DrawBoxes DEF DrawBuildings, TypeOK
  <2>2. /\ phase' \in [Files -> [LoadIds -> Phases]]
        /\ picture' \in [Files -> [LoadIds ->
             [recs : SUBSET Record, box : Box \cup {NoBox}, scale : Box \cup {NoBox}]]]
        /\ current' \in [Files -> LoadIds \cup {Nobody}]
        /\ shown' \in [Files -> SUBSET LoadIds] /\ controls' \in [Files -> Nat]
        /\ UNCHANGED <<sock, label, collected, last, kind, mapOf, read, alone>>
    BY <2>1, DrawFacts
  <2> QED BY <2>1, <2>2 DEF TypeOK
<1>4. CASE DrawRoads(l)
  <2>1. Draw("road", l) /\ heard' = heard
        /\ box' \in Box \cup {NoBox} /\ scale' \in Box \cup {NoBox}
    BY <1>4, DrawBoxes DEF DrawRoads
  <2>2. /\ phase' \in [Files -> [LoadIds -> Phases]]
        /\ picture' \in [Files -> [LoadIds ->
             [recs : SUBSET Record, box : Box \cup {NoBox}, scale : Box \cup {NoBox}]]]
        /\ current' \in [Files -> LoadIds \cup {Nobody}]
        /\ shown' \in [Files -> SUBSET LoadIds] /\ controls' \in [Files -> Nat]
        /\ UNCHANGED <<sock, label, collected, last, kind, mapOf, read, alone>>
    BY <2>1, DrawFacts
  <2> QED BY <2>1, <2>2 DEF TypeOK
<1> QED BY <1>1, <1>2, <1>3, <1>4

LEMMA NextType ==
  ASSUME TypeOK, [Next]_vars
  PROVE  TypeOK'
<1>1. CASE SockOpen \/ SockClose
  BY <1>1 DEF TypeOK, SockOpen, SockClose, chains
<1>2. CASE UNCHANGED vars
  BY <1>2 DEF TypeOK, vars, chains
<1> QED BY <1>1, <1>2, StartType, ChainType DEF Next

-----------------------------------------------------------------------------
(* What a step of a chain of load l can change at all.                     *)
ChainStep(l) ==
  \/ \E f \in Files : Read(f, l) \/ Fail(f, l)
  \/ DrawBuildings(l) \/ DrawRoads(l)

StartStep == (\E m \in Maps : ParseDefaultfile(m)) \/ ParseFile \/ ParseRoadFile

LEMMA ReadFacts ==
  ASSUME TypeOK, NEW f \in Files, NEW l \in LoadIds, Read(f, l)
  PROVE  /\ phase[f][l] = "reading" /\ read[f][l] < Records
         /\ read'[f][l] = read[f][l] + 1
         /\ \A g \in Files, k \in LoadIds : g # f \/ k # l => read'[g][k] = read[g][k]
         /\ collected'[f] = collected[f] \cup {<<l, read[f][l] + 1>>}
         /\ \A g \in Files : g # f => collected'[g] = collected[g]
         /\ UNCHANGED <<sock, label, box, scale, current, shown, controls, heard, picture,
                        last, kind, mapOf, phase, alone>>
  BY DEF Read, TypeOK

LEMMA FailFacts ==
  ASSUME TypeOK, NEW f \in Files, NEW l \in LoadIds, Fail(f, l)
  PROVE  /\ phase[f][l] = "reading" /\ phase'[f][l] = "failed"
         /\ \A g \in Files, k \in LoadIds : g # f \/ k # l => phase'[g][k] = phase[g][k]
         /\ UNCHANGED <<sock, label, collected, box, scale, current, shown, controls, heard,
                        picture, last, kind, mapOf, read, alone>>
  BY DEF Fail, TypeOK

LEMMA ChainFacts ==
  ASSUME TypeOK, NEW l \in LoadIds, ChainStep(l)
  PROVE  /\ Running(l) /\ UNCHANGED <<label, last, kind, mapOf, alone>>
         /\ \A f \in Files, k \in LoadIds :
              \/ phase'[f][k] = phase[f][k]
              \/ k = l /\ phase[f][k] = "reading" /\ phase'[f][k] \in {"drawn", "failed"}
         /\ \A f \in Files : \A r \in collected'[f] :
              r \in collected[f] \/ (r[1] = l /\ phase[f][l] = "reading")
         /\ \A f \in Files, k \in LoadIds : k # l => read'[f][k] = read[f][k]
<1> USE FilesTwo
<1> DEFINE Effect ==
         /\ Running(l) /\ UNCHANGED <<label, last, kind, mapOf, alone>>
         /\ \A f \in Files, k \in LoadIds :
              \/ phase'[f][k] = phase[f][k]
              \/ k = l /\ phase[f][k] = "reading" /\ phase'[f][k] \in {"drawn", "failed"}
         /\ \A f \in Files : \A r \in collected'[f] :
              r \in collected[f] \/ (r[1] = l /\ phase[f][l] = "reading")
         /\ \A f \in Files, k \in LoadIds : k # l => read'[f][k] = read[f][k]
<1>1. ASSUME NEW f \in Files, Read(f, l) PROVE Effect
  BY <1>1, ReadFacts DEF Running
<1>2. ASSUME NEW f \in Files, Fail(f, l) PROVE Effect
  BY <1>2, FailFacts DEF Running
<1>3. ASSUME NEW f \in Files, Draw(f, l), box' \in Box \cup {NoBox}, scale' \in Box \cup {NoBox}
      PROVE  Effect
  <2>1. /\ phase[f][l] = "reading" /\ phase' = [phase EXCEPT ![f][l] = "drawn"]
        /\ phase \in [Files -> [LoadIds -> Phases]]
        /\ UNCHANGED <<label, collected, last, kind, mapOf, read, alone>>
    BY <1>3 DEF Draw, TypeOK
  <2>2. Running(l)
    BY <2>1 DEF Running
  <2> QED BY <2>1, <2>2
<1>4. CASE DrawBuildings(l)
  BY <1>3, <1>4, DrawBoxes DEF DrawBuildings
<1>5. CASE DrawRoads(l)
  BY <1>3, <1>5, DrawBoxes DEF DrawRoads
<1> QED BY <1>1, <1>2, <1>4, <1>5 DEF ChainStep

(* What the start of a load changes.                                       *)
LEMMA StartFacts ==
  ASSUME TypeOK, StartStep
  PROVE  /\ last + 1 \in LoadIds /\ last' = last + 1
         /\ Started' = Started \cup {last + 1} /\ last + 1 \notin Started
         /\ kind'[last + 1] # "none"
         /\ kind'[last + 1] = "default" => \A f \in Files : phase'[f][last + 1] = "reading"
         /\ \A f \in Files : phase'[f][last + 1] \in {phase[f][last + 1], "reading"}
         /\ \A l \in LoadIds : l # last + 1 =>
              kind'[l] = kind[l] /\ mapOf'[l] = mapOf[l]
              /\ \A f \in Files : phase'[f][l] = phase[f][l]
         /\ read' = read /\ UNCHANGED <<sock, box, scale, current, heard, picture>>
         /\ (alone'[last + 1] = TRUE) <=> (\A j \in LoadIds : ~Running(j))
         /\ \A l \in LoadIds : l # last + 1 =>
              ((alone'[l] = TRUE) <=> (alone[l] = TRUE /\ ~Running(l)))
         /\ \A f \in Files : collected'[f] \in {collected[f], {}}
<1>1. PICK k \in Kinds \ {"none"}, m \in Maps \cup {NoMap}, files \in SUBSET Files :
        Open(k, m, files) /\ (k = "default" => files = Files)
  BY FilesTwo DEF StartStep, ParseDefaultfile, ParseFile, ParseRoadFile, Kinds
<1>2. \A f \in Files : collected'[f] \in {collected[f], {}}
  BY DEF StartStep, ParseDefaultfile, ParseFile, ParseRoadFile, ClearPage
<1>3. UNCHANGED <<sock, box, scale, current, heard, picture>>
  BY DEF StartStep, ParseDefaultfile, ParseFile, ParseRoadFile
<1> QED BY <1>1, <1>2, <1>3, OpenFacts, OpenAlone

LEMMA InitShape == Init => Shape
  BY DEF Init, Shape, Untouched, Chains, Alone, Owned, Started, Files

LEMMA StartShape ==
  ASSUME TypeOK, Shape, StartStep
  PROVE  Shape'
<1> USE LoaderAssumption, StartFacts DEF Shape
<1>1. last \in 0 .. MaxLoads /\ Started \subseteq LoadIds
  BY DEF TypeOK, Started, LoadIds
<1>2. Untouched'
  BY <1>1 DEF Untouched, LoadIds
<1>3. Chains'
  BY <1>1 DEF Chains
<1>4. \A k \in LoadIds : k # last + 1 => (Running(k)' <=> Running(k))
  BY DEF Running
<1>5. Alone'
  <2>1. ASSUME NEW l \in Started', alone'[l] = TRUE
        PROVE  /\ \A k \in LoadIds : k < l => ~Running(k)'
               /\ l # last' => ~Running(l)'
    <3>1. CASE l = last + 1
      <4>1. \A k \in LoadIds : k < l => k # last + 1
        BY <1>1, <3>1
      <4>2. \A k \in LoadIds : ~Running(k)
        BY <2>1, <3>1
      <4>3. l = last'
        BY <3>1
      <4> QED BY <1>4, <4>1, <4>2, <4>3
    <3>2. CASE l # last + 1
      <4>0. l \in Started /\ l \in LoadIds
        BY <1>1, <2>1, <3>2
      <4>1. alone[l] = TRUE /\ ~Running(l)
        BY <2>1, <3>2, <4>0
      <4>2. \A k \in LoadIds : k < l => k # last + 1
        BY <1>1, <4>0 DEF Started
      <4> QED BY <1>4, <3>2, <4>0, <4>1, <4>2 DEF Alone
    <3> QED BY <3>1, <3>2
  <2> QED BY <2>1 DEF Alone
<1>6. Owned'
  BY <1>1 DEF Owned
<1> QED BY <1>2, <1>3, <1>5, <1>6

LEMMA ChainShape ==
  ASSUME TypeOK, Shape, NEW l \in LoadIds, ChainStep(l)
  PROVE  Shape' /\ l \in Started
<1> USE LoaderAssumption, ChainFacts DEF Shape
<1>1. last \in 0 .. MaxLoads /\ Started \subseteq LoadIds /\ Started' = Started
  BY DEF TypeOK, Started, LoadIds
<1>2. l \in Started
  <2>1. ~(l > last)
    BY DEF Untouched, Running
  <2> QED BY <1>1, <2>1 DEF Started, LoadIds
<1>3. Untouched'
  <2>1. \A k \in LoadIds : k > last => k # l
    BY <1>1, <1>2 DEF Started, LoadIds
  <2> QED BY <2>1 DEF Untouched
<1>4. Chains'
  BY <1>1 DEF Chains
<1>5. \A k \in LoadIds : Running(k)' => Running(k)
  BY DEF Running
<1>6. Alone'
  BY <1>1, <1>5 DEF Alone
<1>7. Owned'
  BY <1>1, <1>2 DEF Owned
<1> QED BY <1>2, <1>3, <1>4, <1>6, <1>7

LEMMA NextShape ==
  ASSUME TypeOK, Shape, [Next]_vars
  PROVE  Shape'
<1>1. CASE SockOpen \/ SockClose \/ UNCHANGED vars
  BY <1>1 DEF SockOpen, SockClose, vars, chains, Shape, Untouched, Chains, Alone, Owned,
              Started, Running
<1> QED BY <1>1, StartShape, ChainShape DEF Next, StartStep, ChainStep

-----------------------------------------------------------------------------
(* The page.  What the last load did to it if it was one of the maps and   *)
(* runs alone.                                                             *)
LastAlone == last > 0 /\ kind[last] = "default" /\ alone[last]

BoxKept ==
  LastAlone /\ Drawn("building", last) =>
    /\ box = <<last, "building">> /\ scale = <<last, "building">>
    /\ current["building"] = last /\ (sock = "open" => heard \in {Nobody, last})
OneControl ==
  LastAlone => /\ label = mapOf[last]
               /\ phase["building"][last] = "reading" => controls["building"] = 0
               /\ Drawn("building", last) => controls["building"] = 1
NotYetHeard == sock = "connecting" => heard = Nobody
PictureBoxes ==
  \A l \in Started : Drawn("building", l) =>
    /\ picture["building"][l].box = <<l, "building">>
    /\ kind[l] = "default" => picture["building"][l].scale = <<l, "building">>

Page == BoxKept /\ OneControl /\ NotYetHeard /\ PictureBoxes

(* While the last load runs alone, any step of a chain is one of its own.  *)
LEMMA OnlyLast ==
  ASSUME TypeOK, Shape, NEW l \in LoadIds, ChainStep(l), last > 0, alone[last]
  PROVE  l = last
<1>1. last \in Started /\ l \in Started /\ Running(l)
  BY ChainShape, ChainFacts, LoaderAssumption DEF TypeOK, Started
<1>2. \A k \in LoadIds : k < last => ~Running(k)
  BY <1>1 DEF Shape, Alone
<1>3. ~(l < last)
  BY <1>1, <1>2
<1> QED BY <1>1, <1>3, LoaderAssumption DEF Started, TypeOK

LEMMA InitPage == Init => Page
  BY DEF Init, Page, LastAlone, BoxKept, OneControl, NotYetHeard, PictureBoxes, Started

LEMMA StartPage ==
  ASSUME TypeOK, Shape, Page, StartStep
  PROVE  Page'
<1> USE LoaderAssumption, FilesTwo
<1>1. /\ last \in 0 .. MaxLoads /\ last' = last + 1 /\ last + 1 \in LoadIds
      /\ Started' = Started \cup {last + 1}
      /\ kind'[last + 1] = "default" => \A f \in Files : phase'[f][last + 1] = "reading"
      /\ \A l \in LoadIds : l # last + 1 =>
           kind'[l] = kind[l] /\ \A f \in Files : phase'[f][l] = phase[f][l]
      /\ UNCHANGED <<sock, box, scale, current, heard, picture>>
  BY StartFacts DEF TypeOK
<1>2. \A f \in Files : phase'[f][last + 1] \in {"idle", "reading"}
  <2>1. \A f \in Files : phase[f][last + 1] = "idle"
    BY <1>1 DEF Shape, Untouched
  <2> QED BY <2>1, StartFacts
<1>3. BoxKept'
  BY <1>1, <1>2 DEF BoxKept, LastAlone, Drawn
<1>4. OneControl'
  <2>1. ASSUME LastAlone' PROVE label' = mapOf'[last'] /\ controls'["building"] = 0
    <3>1. PICK m \in Maps : ParseDefaultfile(m)
      <4>1. ASSUME ParseFile \/ ParseRoadFile PROVE kind'[last + 1] # "default"
        <5>1. kind \in [LoadIds -> Kinds]
          BY DEF TypeOK
        <5> QED BY <1>1, <4>1, <5>1 DEF ParseFile, ParseRoadFile, Open
      <4> QED BY <1>1, <2>1, <4>1 DEF StartStep, LastAlone
    <3>2. label' = m /\ ClearPage /\ Open("default", m, Files)
      BY <3>1 DEF ParseDefaultfile
    <3>3. mapOf'[last + 1] = m
      BY <1>1, <3>2 DEF Open, TypeOK
    <3>4. controls \in [Files -> Nat]
      BY DEF TypeOK
    <3>5. controls'["building"] = 0
      BY <3>2, <3>4 DEF ClearPage, SomethingDrawn
    <3> QED BY <1>1, <3>2, <3>3, <3>5
  <2>2. LastAlone' => ~Drawn("building", last)'
    BY <1>1, <1>2 DEF Drawn
  <2> QED BY <2>1, <2>2 DEF OneControl
<1>5. NotYetHeard'
  BY <1>1 DEF Page, NotYetHeard
<1>6. PictureBoxes'
  <2>1. ASSUME NEW l \in Started', Drawn("building", l)'
        PROVE  l \in Started /\ l \in LoadIds /\ l # last + 1
    BY <1>1, <1>2, <2>1 DEF Drawn, Started, LoadIds
  <2> QED BY <1>1, <2>1 DEF Page, PictureBoxes, Drawn
<1> QED BY <1>3, <1>4, <1>5, <1>6 DEF Page

LEMMA DrawPage ==
  ASSUME TypeOK, Shape, Page, NEW l \in LoadIds, DrawBuildings(l) \/ DrawRoads(l)
  PROVE  Page'
<1> USE LoaderAssumption, FilesTwo
<1>1. ChainStep(l)
  BY DEF ChainStep
<1>2. l \in Started /\ Started \subseteq LoadIds
  <2>1. l \in Started
    BY <1>1, ChainShape
  <2>2. Started \subseteq LoadIds
    BY DEF TypeOK, Started, LoadIds
  <2> QED BY <2>1, <2>2
<1>3. PICK f \in Files :
        /\ Draw(f, l) /\ box' \in Box \cup {NoBox} /\ scale' \in Box \cup {NoBox}
        /\ f = "building" => DrawBuildings(l)
        /\ f = "road" => DrawRoads(l)
  BY DrawBoxes DEF DrawBuildings, DrawRoads
<1>4. /\ phase[f][l] = "reading" /\ phase'[f][l] = "drawn"
      /\ \A g \in Files, k \in LoadIds : g # f \/ k # l =>
           phase'[g][k] = phase[g][k] /\ picture'[g][k] = picture[g][k]
      /\ picture'[f][l].box = box' /\ picture'[f][l].scale = scale'
      /\ current'[f] = l /\ controls'[f] = controls[f] + 1
      /\ \A g \in Files : g # f => current'[g] = current[g] /\ controls'[g] = controls[g]
  <2>1. /\ phase \in [Files -> [LoadIds -> Phases]]
        /\ phase[f][l] = "reading" /\ phase' = [phase EXCEPT ![f][l] = "drawn"]
    BY <1>3 DEF Draw, TypeOK
  <2>2. /\ current' = [current EXCEPT ![f] = l]
        /\ controls' = [controls EXCEPT ![f] = @ + 1]
        /\ current \in [Files -> LoadIds \cup {Nobody}] /\ controls \in [Files -> Nat]
    BY <1>3 DEF Draw, TypeOK
  <2>3. picture'[f][l] = [recs |-> collected[f], box |-> box', scale |-> scale']
        /\ \A g \in Files, k \in LoadIds : g # f \/ k # l => picture'[g][k] = picture[g][k]
    BY <1>3 DEF Draw, TypeOK
  <2>4. picture'[f][l].box = box' /\ picture'[f][l].scale = scale'
    BY <2>3
  <2> QED BY <2>1, <2>2, <2>3, <2>4
<1>5. UNCHANGED <<sock, label, last, kind, mapOf, alone>>
  BY <1>3 DEF Draw
<1>6. Started' = Started /\ (LastAlone' <=> LastAlone) /\ (LastAlone => l = last)
  <2>1. LastAlone => l = last
    BY <1>1, OnlyLast DEF LastAlone
  <2>2. Started' = Started
    BY <1>5 DEF Started
  <2>3. LastAlone' <=> LastAlone
    BY <1>5, Zenon DEF LastAlone
  <2> QED BY <2>1, <2>2, <2>3
<1>7. CASE f = "building"
  <2>1. box' = <<l, "building">> /\ (kind[l] = "default" => scale' = <<l, "building">>)
        /\ heard' = IF sock = "open" THEN l ELSE heard
    BY <1>3, <1>7 DEF DrawBuildings
  <2>2. BoxKept'
    BY <1>4, <1>5, <1>6, <1>7, <2>1 DEF BoxKept, LastAlone
  <2>3. OneControl'
    BY <1>4, <1>5, <1>6, <1>7 DEF Page, OneControl, Drawn
  <2>4. NotYetHeard'
    BY <1>5, <2>1 DEF Page, NotYetHeard
  <2>5. PictureBoxes'
    BY <1>2, <1>4, <1>5, <1>6, <1>7, <2>1 DEF Page, PictureBoxes, Drawn
  <2> QED BY <2>2, <2>3, <2>4, <2>5 DEF Page
<1>8. CASE f = "road"
  <2>1. /\ box # NoBox => box' = box /\ scale' = scale
        /\ heard' = heard
    BY <1>3, <1>8 DEF DrawRoads
  <2>2. BoxKept'
    <3>1. ASSUME LastAlone, Drawn("building", last)'
          PROVE  Drawn("building", last) /\ <<last, "building">> # NoBox
      <4>1. last \in LoadIds /\ last' = last
        BY <1>5, <1>6, <3>1
      <4>2. phase'["building"][last] = phase["building"][last]
        BY <1>4, <1>8, <4>1
      <4> QED BY <3>1, <4>1, <4>2, BoxNotNo DEF Drawn
    <3> QED BY <1>4, <1>5, <1>6, <1>8, <2>1, <3>1 DEF Page, BoxKept
  <2>3. OneControl'
    BY <1>2, <1>4, <1>5, <1>6, <1>8 DEF Page, OneControl, Drawn
  <2>4. NotYetHeard'
    BY <1>5, <2>1 DEF Page, NotYetHeard
  <2>5. PictureBoxes'
    BY <1>2, <1>4, <1>5, <1>6, <1>8 DEF Page, PictureBoxes, Drawn
  <2> QED BY <2>2, <2>3, <2>4, <2>5 DEF Page
<1> QED BY <1>7, <1>8 DEF Files

LEMMA QuietPage ==
  ASSUME TypeOK, Shape, Page, NEW l \in LoadIds, NEW f \in Files, Read(f, l) \/ Fail(f, l)
  PROVE  Page'
<1> USE LoaderAssumption, FilesTwo
<1>1. UNCHANGED <<sock, label, box, scale, current, controls, heard, picture, last, kind,
                  mapOf, alone>>
  BY DEF Read, Fail
<1>2. \A g \in Files, k \in LoadIds :
        phase'[g][k] = phase[g][k] \/ phase'[g][k] = "failed"
  BY ReadFacts, FailFacts
<1>3. Started' = Started /\ (LastAlone' <=> LastAlone) /\ Started \subseteq LoadIds
      /\ (LastAlone => last \in LoadIds)
  <2>1. Started' = Started /\ Started \subseteq LoadIds /\ (last > 0 => last \in LoadIds)
    BY <1>1 DEF Started, TypeOK, LoadIds
  <2>2. LastAlone' <=> LastAlone
    BY <1>1, Zenon DEF LastAlone
  <2> QED BY <2>1, <2>2 DEF LastAlone
<1>4. BoxKept' /\ OneControl'
  BY <1>1, <1>2, <1>3 DEF Page, BoxKept, OneControl, Drawn
<1>5. NotYetHeard'
  BY <1>1 DEF Page, NotYetHeard
<1>6. PictureBoxes'
  BY <1>1, <1>2, <1>3 DEF Page, PictureBoxes, Drawn
<1> QED BY <1>4, <1>5, <1>6 DEF Page

LEMMA NextPage ==
  ASSUME TypeOK, Shape, Page, [Next]_vars
  PROVE  Page'
<1>1. CASE UNCHANGED vars
  BY <1>1 DEF vars, chains, Page, LastAlone, BoxKept, OneControl, NotYetHeard, PictureBoxes,
              Started, Drawn
<1>2. CASE SockOpen \/ SockClose
  BY <1>2 DEF SockOpen, SockClose, chains, Page, LastAlone, BoxKept, OneControl, NotYetHeard,
              PictureBoxes, Started, Drawn
<1> QED BY <1>1, <1>2, StartPage, DrawPage, QuietPage DEF Next, StartStep

-----------------------------------------------------------------------------
(* The scene, as long as no two loads overlapped.                          *)
Scene ==
  NeverOverlapped =>
    /\ shown["building"] \subseteq {current["building"]}
    /\ controls["building"] = 0 => shown["building"] = {}
    /\ last > 0 /\ phase["building"][last] = "reading" => shown["building"] = {}
    /\ LastAlone /\ Drawn("building", last) => shown["building"] = {last}

LEMMA InitScene == Init => Scene
  BY FilesTwo DEF Init, Scene, LastAlone

LEMMA StartScene ==
  ASSUME TypeOK, Shape, Scene, StartStep
  PROVE  Scene'
<1> USE LoaderAssumption, FilesTwo
<1> SUFFICES ASSUME NeverOverlapped'
             PROVE  /\ shown'["building"] \subseteq {current'["building"]}
                    /\ controls'["building"] = 0 => shown'["building"] = {}
                    /\ phase'["building"][last'] = "reading" => shown'["building"] = {}
                    /\ ~Drawn("building", last)'
  BY DEF Scene
<1>1. /\ last \in 0 .. MaxLoads /\ last' = last + 1 /\ last + 1 \in LoadIds
      /\ Started' = Started \cup {last + 1} /\ last + 1 \notin Started
      /\ Started \subseteq LoadIds /\ current' = current
  <2>1. last \in 0 .. MaxLoads /\ Started \subseteq LoadIds
    BY DEF TypeOK, Started, LoadIds
  <2> QED BY <2>1, StartFacts
<1>2. NeverOverlapped
  <2>1. ASSUME NEW l \in Started PROVE alone[l] = TRUE
    <3>1. l \in LoadIds /\ l # last + 1 /\ l \in Started'
      BY <1>1, <2>1
    <3>2. alone'[l] = TRUE
      <4>1. alone' \in [LoadIds -> BOOLEAN]
        BY StartType DEF StartStep, TypeOK
      <4> QED BY <3>1, <4>1 DEF NeverOverlapped
    <3> QED BY <3>1, <3>2, StartFacts
  <2> QED BY <2>1 DEF NeverOverlapped
<1>3. shown["building"] \subseteq {current["building"]}
      /\ (controls["building"] = 0 => shown["building"] = {})
  BY <1>2 DEF Scene
<1>4. phase["building"][last + 1] = "idle" /\ phase["road"][last + 1] = "idle"
  BY <1>1 DEF Shape, Untouched
<1>5. phase'["building"][last'] \in {"idle", "reading"} /\ ~Drawn("building", last)'
  BY <1>1, <1>4, StartFacts DEF Drawn
<1>6. shown \in [Files -> SUBSET LoadIds] /\ controls \in [Files -> Nat]
  BY DEF TypeOK
<1>7. ASSUME NEW m \in Maps, ParseDefaultfile(m) PROVE shown'["building"] = {}
  BY <1>3, <1>6, <1>7 DEF ParseDefaultfile, ClearPage, SomethingDrawn, Hidden
<1>8. ASSUME ParseFile PROVE shown'["building"] = {}
  BY <1>3, <1>6, <1>8 DEF ParseFile, Hidden
<1>9. CASE ParseRoadFile
  <2>1. shown' = shown /\ controls' = controls
        /\ phase'["building"][last'] = phase["building"][last + 1]
    <3>1. phase \in [Files -> [LoadIds -> Phases]]
      BY DEF TypeOK
    <3> QED BY <1>1, <1>9, <3>1 DEF ParseRoadFile, Open
  <2> QED BY <1>1, <1>3, <1>4, <1>5, <2>1
<1> QED
  <2>1. shown'["building"] = {} \/ ParseRoadFile
    BY <1>3, <1>7, <1>8 DEF StartStep
  <2> QED BY <1>3, <1>5, <1>9, <2>1

LEMMA ChainScene ==
  ASSUME TypeOK, Shape, Scene, NEW l \in LoadIds, ChainStep(l)
  PROVE  Scene'
<1> USE LoaderAssumption, FilesTwo
<1> SUFFICES ASSUME NeverOverlapped' PROVE Scene'
  BY DEF Scene
<1>1. UNCHANGED <<last, kind, alone>> /\ Started' = Started /\ l \in Started /\ last > 0
  BY ChainFacts, ChainShape DEF Started, TypeOK
<1>2. NeverOverlapped
  BY <1>1, Zenon DEF NeverOverlapped
<1>3. l = last
  <2>1. alone[last]
    BY <1>1, <1>2 DEF NeverOverlapped, Started, TypeOK
  <2> QED BY <1>1, <2>1, OnlyLast
<1>4. /\ shown["building"] \subseteq {current["building"]}
      /\ controls["building"] = 0 => shown["building"] = {}
      /\ phase["building"][l] = "reading" => shown["building"] = {}
      /\ LastAlone /\ Drawn("building", l) => shown["building"] = {l}
  BY <1>1, <1>2, <1>3 DEF Scene
<1>5. LastAlone' <=> LastAlone
  BY <1>1, Zenon DEF LastAlone
<1>6. CASE DrawBuildings(l)
  <2>1. Draw("building", l) /\ box' \in Box \cup {NoBox} /\ scale' \in Box \cup {NoBox}
    BY <1>6, DrawBoxes DEF DrawBuildings
  <2>2. /\ phase["building"][l] = "reading" /\ shown'["building"] = shown["building"] \cup {l}
        /\ current'["building"] = l /\ controls'["building"] = controls["building"] + 1
        /\ phase'["building"][l] = "drawn"
    BY <2>1 DEF Draw, TypeOK
  <2>3. controls'["building"] # 0
    BY <2>2 DEF TypeOK
  <2> QED BY <1>1, <1>3, <1>4, <2>2, <2>3 DEF Scene
<1>7. ASSUME UNCHANGED <<shown["building"], current["building"], controls["building"]>>,
             \/ phase'["building"][l] = phase["building"][l]
             \/ phase'["building"][l] = "failed"
      PROVE  Scene'
  BY <1>1, <1>3, <1>4, <1>5, <1>7 DEF Scene, Drawn
<1>8. ASSUME NEW f \in Files, Read(f, l) \/ Fail(f, l) PROVE Scene'
  BY <1>7, <1>8, FailFacts, ReadFacts
<1>9. CASE DrawRoads(l)
  <2>1. Draw("road", l)
    BY <1>9 DEF DrawRoads
  <2> QED BY <1>7, <2>1 DEF Draw, TypeOK
<1> QED BY <1>6, <1>8, <1>9 DEF ChainStep

LEMMA NextScene ==
  ASSUME TypeOK, Shape, Scene, [Next]_vars
  PROVE  Scene'
<1>1. CASE SockOpen \/ SockClose \/ UNCHANGED vars
  BY <1>1 DEF SockOpen, SockClose, vars, chains, Scene, NeverOverlapped, LastAlone, Started,
              Drawn
<1> QED BY <1>1, StartScene, ChainScene DEF Next, StartStep, ChainStep

-----------------------------------------------------------------------------
(* The map, whole and alone.  A load of a map finds the array of buildings *)
(* empty because the last such load before it drew something, or no such   *)
(* load came before and whoever left records drew them.                    *)
LastDefault(j) ==
  j \in Started /\ kind[j] = "default" /\ \A k \in Started : kind[k] = "default" => k <= j
SomeDefault ==
  (\E k \in Started : kind[k] = "default") => \E j \in Started : LastDefault(j)
DrawnShows ==
  \A k \in Started, f \in Files :
    Drawn(f, k) /\ (\A j \in Started : j > k => kind[j] # "default") => SomethingDrawn
Clean ==
  \A l \in Started :
    kind[l] = "default" /\ alone[l] = TRUE /\ NothingLeft(l) =>
      /\ phase["building"][l] = "reading" =>
           collected["building"] = {l} \X (1 .. read["building"][l])
      /\ Drawn("building", l) => picture["building"][l].recs = {l} \X (1 .. Records)

Whole == SomeDefault /\ DrawnShows /\ Clean

LEMMA InitWhole == Init => Whole
  BY DEF Init, Whole, SomeDefault, DrawnShows, Clean, Started

(* Where a load of a map starts alone, nothing is left in the array.       *)
LEMMA ArrayEmpty ==
  ASSUME TypeOK, Shape, Whole, StartStep, kind'[last + 1] = "default",
         \A k \in LoadIds : ~Running(k),
         \A k \in 1 .. last : phase["building"][k] = "failed" => Drawn("road", k)
  PROVE  collected'["building"] = {}
<1> USE LoaderAssumption, FilesTwo
<1>1. Started \subseteq LoadIds /\ last + 1 \in LoadIds
  <2>1. Started \subseteq LoadIds
    BY DEF Started, LoadIds, TypeOK
  <2> QED BY <2>1, StartFacts
<1>2. PICK m \in Maps : ParseDefaultfile(m)
  <2>1. ASSUME ParseFile \/ ParseRoadFile PROVE kind'[last + 1] # "default"
    <3>1. kind \in [LoadIds -> Kinds]
      BY DEF TypeOK
    <3> QED BY <1>1, <2>1, <3>1 DEF ParseFile, ParseRoadFile, Open
  <2> QED BY <2>1 DEF StartStep
<1>3. ClearPage
  BY <1>2 DEF ParseDefaultfile
<1>4. CASE SomethingDrawn
  BY <1>3, <1>4 DEF ClearPage
<1>5. CASE ~SomethingDrawn
  <2>1. ASSUME NEW k \in Started, phase["building"][k] # "idle"
        PROVE  \E f \in Files : Drawn(f, k)
    <3>1. phase["building"][k] \in {"drawn", "failed"}
      BY <1>1, <2>1 DEF TypeOK, Phases, Running
    <3> QED BY <2>1, <3>1 DEF Drawn, Started
  <2>2. ASSUME NEW r \in collected["building"] PROVE FALSE
    <3>1. r[1] \in Started /\ phase["building"][r[1]] # "idle"
      BY DEF Shape, Owned
    <3>2. CASE \E k \in Started : kind[k] = "default"
      <4>1. PICK j \in Started : LastDefault(j)
        BY <3>2 DEF Whole, SomeDefault
      <4>2. \E f \in Files : Drawn(f, j)
        BY <2>1, <4>1 DEF LastDefault, Shape, Chains
      <4>3. \A k \in Started : k > j => kind[k] # "default"
        BY <4>1 DEF LastDefault, Started
      <4> QED BY <1>5, <4>2, <4>3 DEF Whole, DrawnShows
    <3>3. CASE \A k \in Started : kind[k] # "default"
      <4>1. \E f \in Files : Drawn(f, r[1])
        BY <2>1, <3>1
      <4> QED BY <1>5, <3>1, <3>3, <4>1 DEF Whole, DrawnShows
    <3> QED BY <3>2, <3>3
  <2>3. collected["building"] = {}
    BY <2>2
  <2> QED BY <1>3, <1>5, <2>3 DEF ClearPage
<1> QED BY <1>4, <1>5

LEMMA StartWhole ==
  ASSUME TypeOK, Shape, Whole, StartStep
  PROVE  Whole'
<1> USE LoaderAssumption, FilesTwo
<1>1. /\ last \in 0 .. MaxLoads /\ Started \subseteq LoadIds /\ Started = 1 .. last
      /\ last + 1 \notin Started
  BY DEF TypeOK, Started, LoadIds
<1>2. /\ last' = last + 1 /\ last + 1 \in LoadIds /\ Started' = Started \cup {last + 1}
      /\ \A l \in LoadIds : l # last + 1 =>
           kind'[l] = kind[l] /\ \A f \in Files : phase'[f][l] = phase[f][l]
      /\ UNCHANGED <<read, picture>>
  BY StartFacts
<1>3. \A f \in Files : phase'[f][last + 1] \in {"idle", "reading"}
  <2>1. \A f \in Files : phase[f][last + 1] = "idle"
    BY <1>1, <1>2 DEF Shape, Untouched
  <2> QED BY <2>1, StartFacts
<1>4. SomeDefault'
  <2>1. CASE kind'[last + 1] = "default"
    <3>1. PICK j \in LoadIds : j = last + 1
      BY <1>2
    <3>2. \A k \in Started' : k <= j
      BY <1>1, <1>2, <3>1
    <3>3. LastDefault(j)' /\ j \in Started'
      BY <1>2, <2>1, <3>1, <3>2 DEF LastDefault
    <3> QED BY <3>3 DEF SomeDefault
  <2>2. CASE kind'[last + 1] # "default"
    <3>1. ASSUME NEW k \in Started', kind'[k] = "default"
          PROVE  k \in Started /\ kind[k] = "default"
      BY <1>1, <1>2, <2>2, <3>1
    <3>2. ASSUME NEW j \in Started, LastDefault(j) PROVE LastDefault(j)'
      BY <1>1, <1>2, <3>1, <3>2 DEF LastDefault
    <3> QED BY <1>2, <3>1, <3>2 DEF Whole, SomeDefault
  <2> QED BY <2>1, <2>2
<1>5. DrawnShows'
  <2>1. ASSUME NEW k \in Started', NEW f \in Files, Drawn(f, k)',
               \A j \in Started' : j > k => kind'[j] # "default"
        PROVE  SomethingDrawn'
    <3>1. k \in Started /\ Drawn(f, k)
      BY <1>1, <1>2, <1>3, <2>1 DEF Drawn
    <3>2. kind'[last + 1] # "default"
      BY <1>1, <1>2, <2>1, <3>1
    <3>3. \A j \in Started : j > k => kind[j] # "default"
      BY <1>1, <1>2, <2>1
    <3>4. ASSUME NEW m \in Maps, ParseDefaultfile(m) PROVE kind'[last + 1] = "default"
      <4>1. kind \in [LoadIds -> Kinds]
        BY DEF TypeOK
      <4> QED BY <1>2, <3>4, <4>1 DEF ParseDefaultfile, Open
    <3>5. controls' = controls
      BY <3>2, <3>4 DEF StartStep, ParseFile, ParseRoadFile
    <3> QED BY <3>1, <3>3, <3>5 DEF Whole, DrawnShows, SomethingDrawn
  <2> QED BY <2>1 DEF DrawnShows
<1>6. Clean'
  <2>1. ASSUME NEW l \in Started', kind'[l] = "default", alone'[l] = TRUE, NothingLeft(l)'
        PROVE  /\ phase'["building"][l] = "reading" =>
                    collected'["building"] = {l} \X (1 .. read'["building"][l])
               /\ Drawn("building", l)' =>
                    picture'["building"][l].recs = {l} \X (1 .. Records)
    <3>1. CASE l = last + 1
      <4>1. \A k \in LoadIds : ~Running(k)
        BY <2>1, <3>1, StartFacts
      <4>2. \A k \in 1 .. last : phase["building"][k] = "failed" => Drawn("road", k)
        <5>1. ASSUME NEW k \in 1 .. last, phase["building"][k] = "failed"
              PROVE  Drawn("road", k)
          <6>1. k \in LoadIds /\ k # last + 1 /\ k \in 1 .. l - 1
            BY <1>1, <3>1
          <6>2. phase'["building"][k] = "failed"
            BY <1>2, <5>1, <6>1
          <6>3. Drawn("road", k)'
            BY <2>1, <6>1, <6>2 DEF NothingLeft
          <6> QED BY <1>2, <6>1, <6>3 DEF Drawn
        <5> QED BY <5>1
      <4>3. collected'["building"] = {}
        BY <2>1, <3>1, <4>1, <4>2, ArrayEmpty
      <4>4. read'["building"][l] = 0
        BY <1>1, <1>2, <3>1 DEF Shape, Untouched
      <4>5. {l} \X (1 .. 0) = {}
        OBVIOUS
      <4> QED BY <1>3, <3>1, <4>3, <4>4, <4>5 DEF Drawn
    <3>2. CASE l # last + 1
      <4>1. l \in Started /\ l \in LoadIds
        BY <1>1, <1>2, <3>2
      <4>2. alone[l] = TRUE /\ ~Running(l)
        BY <2>1, <3>2, <4>1, StartFacts
      <4>3. NothingLeft(l)
        <5>1. \A k \in 1 .. l - 1 : k \in LoadIds /\ k # last + 1
          BY <1>1, <4>1 DEF LoadIds
        <5> QED BY <1>2, <2>1, <5>1 DEF NothingLeft, Drawn
      <4>4. phase'["building"][l] # "reading" /\ (Drawn("building", l)' => Drawn("building", l))
        BY <1>2, <3>2, <4>1, <4>2 DEF Running, Drawn
      <4>5. kind[l] = "default"
        BY <1>2, <2>1, <3>2, <4>1
      <4> QED BY <1>2, <4>1, <4>2, <4>3, <4>4, <4>5 DEF Whole, Clean
    <3> QED BY <3>1, <3>2
  <2> QED BY <2>1 DEF Clean
<1> QED BY <1>4, <1>5, <1>6 DEF Whole

LEMMA DrawWhole ==
  ASSUME TypeOK, Shape, Whole, NEW l \in LoadIds, NEW f \in Files, Draw(f, l)
  PROVE  /\ SomethingDrawn' /\ SomeDefault' /\ Started' = Started
         /\ \A k \in Started : \A g \in Files :
              /\ phase'[g][k] = "reading" => phase[g][k] = "reading"
              /\ k # l \/ g # f => phase'[g][k] = phase[g][k] /\ picture'[g][k] = picture[g][k]
         /\ phase[f][l] = "reading" /\ read[f][l] = Records
         /\ picture'[f][l].recs = collected[f]
         /\ UNCHANGED <<collected, last, kind, read, alone>>
<1> USE LoaderAssumption, FilesTwo
<1>1. /\ phase \in [Files -> [LoadIds -> Phases]] /\ controls \in [Files -> Nat]
      /\ phase' = [phase EXCEPT ![f][l] = "drawn"]
      /\ controls' = [controls EXCEPT ![f] = @ + 1]
      /\ Started \subseteq LoadIds
  BY DEF Draw, TypeOK, Started, LoadIds
<1>2. SomethingDrawn'
  <2>1. controls'[f] > 0
    BY <1>1
  <2> QED BY <2>1 DEF SomethingDrawn
<1>3. UNCHANGED <<collected, last, kind, read, alone>> /\ Started' = Started
      /\ phase[f][l] = "reading" /\ read[f][l] = Records
  BY DEF Draw, Started
<1>4. SomeDefault'
  BY <1>3 DEF Whole, SomeDefault, LastDefault
<1>5. /\ picture'[f][l] = [recs |-> collected[f], box |-> box', scale |-> scale']
      /\ \A g \in Files, k \in LoadIds : g # f \/ k # l => picture'[g][k] = picture[g][k]
  BY DEF Draw, TypeOK
<1>6. picture'[f][l].recs = collected[f]
  BY <1>5
<1>7. \A k \in Started : \A g \in Files :
        /\ phase'[g][k] = "reading" => phase[g][k] = "reading"
        /\ k # l \/ g # f => phase'[g][k] = phase[g][k]
  BY <1>1
<1> QED BY <1>1, <1>2, <1>3, <1>4, <1>5, <1>6, <1>7

(* Who else is alone is not affected by load l.                            *)
LEMMA OthersLeft ==
  ASSUME TypeOK, Shape, NEW l \in LoadIds, ChainStep(l), NEW k \in Started, alone[k] = TRUE
  PROVE  /\ NothingLeft(k)' => NothingLeft(k)
         /\ k # l => ~Running(k)
<1> USE LoaderAssumption, FilesTwo
<1>1. Running(l) /\ l \in Started /\ Started \subseteq LoadIds
  <2>1. Started \subseteq LoadIds
    BY DEF TypeOK, Started, LoadIds
  <2> QED BY <2>1, ChainFacts, ChainShape
<1>2. /\ \A j \in LoadIds : j < k => ~Running(j)
      /\ k # last => ~Running(k)
  BY DEF Shape, Alone
<1>3. \A j \in 1 .. k - 1 : j \in LoadIds /\ j < k /\ k \in LoadIds
  BY <1>1 DEF LoadIds
<1>4. ASSUME NEW j \in 1 .. k - 1, NEW f \in Files PROVE phase'[f][j] = phase[f][j]
  <2>1. j \in LoadIds /\ phase[f][j] # "reading"
    BY <1>2, <1>3 DEF Running
  <2> QED BY <2>1, ChainFacts
<1>5. NothingLeft(k)' => NothingLeft(k)
  BY <1>4 DEF NothingLeft, Drawn
<1>6. k # l => ~Running(k)
  <2>1. ASSUME k # l, k = last PROVE l < k
    BY <1>1, <2>1 DEF Started, TypeOK
  <2> QED BY <1>1, <1>2, <2>1
<1> QED BY <1>5, <1>6

LEMMA ChainWhole ==
  ASSUME TypeOK, Shape, Whole, NEW l \in LoadIds, ChainStep(l)
  PROVE  Whole'
<1> USE LoaderAssumption, FilesTwo
<1>1. Started \subseteq LoadIds /\ Started' = Started
      /\ UNCHANGED <<last, kind, alone>>
  <2>1. Started \subseteq LoadIds
    BY DEF TypeOK, Started, LoadIds
  <2>2. UNCHANGED <<last, kind, alone>>
    BY ChainFacts
  <2> QED BY <2>1, <2>2 DEF Started
<1>2. SomeDefault'
  BY <1>1 DEF Whole, SomeDefault, LastDefault
<1> DEFINE Good(k) ==
      kind[k] = "default" /\ alone[k] = TRUE /\ NothingLeft(k) =>
        /\ phase'["building"][k] = "reading" =>
             collected'["building"] = {k} \X (1 .. read'["building"][k])
        /\ Drawn("building", k)' => picture'["building"][k].recs = {k} \X (1 .. Records)
<1>3. ASSUME \A k \in Started : Good(k) PROVE Clean'
  <2>1. ASSUME NEW k \in Started, alone[k] = TRUE, NothingLeft(k)' PROVE NothingLeft(k)
    BY <2>1, OthersLeft
  <2> QED BY <1>1, <1>3, <2>1 DEF Clean
<1>4. ASSUME NEW k \in Started, kind[k] = "default" /\ alone[k] = TRUE /\ NothingLeft(k)
      PROVE  /\ phase["building"][k] = "reading" =>
                  collected["building"] = {k} \X (1 .. read["building"][k])
             /\ Drawn("building", k) => picture["building"][k].recs = {k} \X (1 .. Records)
             /\ k # l => phase["building"][k] # "reading"
  <2>1. k # l => ~Running(k)
    BY <1>4, OthersLeft
  <2> QED BY <1>4, <2>1 DEF Whole, Clean, Running
<1>5. ASSUME NEW f \in Files, Draw(f, l) PROVE Whole'
  <2>1. DrawnShows'
    BY <1>5, DrawWhole DEF DrawnShows
  <2>2. ASSUME NEW k \in Started PROVE Good(k)
    <3>1. CASE k = l /\ f = "building"
      <4>1. phase["building"][k] = "reading" /\ read["building"][k] = Records
            /\ picture'["building"][k].recs = collected["building"]
        BY <1>5, <3>1, DrawWhole
      <4>2. phase'["building"][k] = "drawn"
        BY <1>1, <1>5, <3>1 DEF Draw, TypeOK
      <4> QED BY <1>4, <4>1, <4>2
    <3>2. CASE k # l \/ f # "building"
      <4>1. phase'["building"][k] = phase["building"][k]
            /\ picture'["building"][k] = picture["building"][k]
            /\ UNCHANGED <<collected, read>>
        BY <1>5, <3>2, DrawWhole
      <4> QED BY <1>4, <4>1 DEF Drawn
    <3> QED BY <3>1, <3>2
  <2> QED BY <1>2, <1>3, <2>1, <2>2 DEF Whole
<1>6. ASSUME NEW f \in Files, Fail(f, l) PROVE Whole'
  <2>1. \A g \in Files, k \in LoadIds :
          phase'[g][k] = phase[g][k] \/ phase'[g][k] = "failed"
    BY <1>6, FailFacts
  <2>2. UNCHANGED <<collected, controls, picture, read>>
    BY <1>6 DEF Fail
  <2>3. DrawnShows'
    BY <1>1, <2>1, <2>2 DEF Whole, DrawnShows, Drawn, SomethingDrawn
  <2>4. ASSUME NEW k \in Started PROVE Good(k)
    BY <1>1, <1>4, <2>1, <2>2 DEF Drawn
  <2> QED BY <1>2, <1>3, <2>3, <2>4 DEF Whole
<1>7. ASSUME NEW f \in Files, Read(f, l) PROVE Whole'
  <2>1. UNCHANGED <<controls, picture, phase>>
    BY <1>7 DEF Read
  <2>2. DrawnShows'
    BY <1>1, <2>1 DEF Whole, DrawnShows, Drawn, SomethingDrawn
  <2>3. ASSUME NEW k \in Started PROVE Good(k)
    <3>1. CASE k = l /\ f = "building"
      <4>1. /\ phase["building"][k] = "reading" /\ read["building"][k] \in Nat
            /\ read'["building"][k] = read["building"][k] + 1
            /\ collected'["building"] =
                 collected["building"] \cup {<<k, read["building"][k] + 1>>}
        BY <1>7, <3>1 DEF Read, TypeOK
      <4>2. \A n \in Nat : ({k} \X (1 .. n)) \cup {<<k, n + 1>>} = {k} \X (1 .. n + 1)
        <5>1. \A n \in Nat : 1 .. n + 1 = (1 .. n) \cup {n + 1}
          OBVIOUS
        <5> QED BY <5>1
      <4> QED BY <1>4, <2>1, <4>1, <4>2 DEF Drawn
    <3>2. CASE k # l \/ f # "building"
      <4>1. read'["building"][k] = read["building"][k]
            /\ (f # "building" => collected'["building"] = collected["building"])
        BY <1>1, <1>7, <3>2, ReadFacts
      <4>2. k # l \/ k = l
        OBVIOUS
      <4> QED BY <1>4, <2>1, <3>2, <4>1 DEF Drawn
    <3> QED BY <3>1, <3>2
  <2> QED BY <1>2, <1>3, <2>2, <2>3 DEF Whole
<1> QED BY <1>5, <1>6, <1>7 DEF ChainStep, DrawBuildings, DrawRoads

LEMMA NextWhole ==
  ASSUME TypeOK, Shape, Whole, [Next]_vars
  PROVE  Whole'
<1>1. CASE SockOpen \/ SockClose \/ UNCHANGED vars
  BY <1>1 DEF SockOpen, SockClose, vars, chains, Whole, SomeDefault, LastDefault, DrawnShows,
              Clean, Started, Drawn, NothingLeft, SomethingDrawn
<1> QED BY <1>1, StartWhole, ChainWhole DEF Next, StartStep, ChainStep

-----------------------------------------------------------------------------
(* The inductive invariant.                                                *)
IInv == TypeOK /\ Shape /\ Page /\ Scene /\ Whole

THEOREM Inductive == Spec => []IInv
<1>1. Init => IInv
  BY InitType, InitShape, InitPage, InitScene, InitWhole DEF IInv
<1>2. IInv /\ [Next]_vars => IInv'
  BY NextType, NextShape, NextPage, NextScene, NextWhole DEF IInv
<1> QED BY <1>1, <1>2, PTL DEF Spec

(* The variables of the page hold values of their kind.                    *)
THEOREM TypeCorrect == Spec => []TypeOK
<1>1. IInv => TypeOK
  BY DEF IInv
<1> QED BY <1>1, Inductive, PTL

(* A map that was loaded alone is drawn, and sent, whole and with no       *)
(* building of another (readfile.js:191-208, drawSenario).                 *)
THEOREM WholeMapAlways == Spec => []WholeMapSent
<1>1. IInv => WholeMapSent
  BY DEF IInv, Whole, Clean, WholeMapSent
<1> QED BY <1>1, Inductive, PTL

(* When a map was loaded alone and nothing is loading, label, box, scale,  *)
(* scene and server are those of that map.                                 *)
THEOREM PageSettles == Spec => []SettledPage
<1>1. IInv => SettledPage
  BY DEF IInv, Page, BoxKept, OneControl, Scene, LastAlone, SettledPage, TypeOK
<1> QED BY <1>1, Inductive, PTL

(* Roads drawn after the buildings of their map use their box and scale.   *)
THEOREM RoadsFitAlways == Spec => RoadsFit
<1> DEFINE Fit(l) ==
      DrawRoads(l) /\ kind[l] = "default" /\ alone[l] /\ Drawn("building", l)
        => picture'["road"][l].box = picture["building"][l].box
           /\ picture'["road"][l].scale = picture["building"][l].scale
<1>1. ASSUME IInv, [Next]_vars, NEW l \in LoadIds PROVE Fit(l)
  <2> SUFFICES ASSUME DrawRoads(l), kind[l] = "default", alone[l], Drawn("building", l)
               PROVE  picture'["road"][l].box = picture["building"][l].box
                      /\ picture'["road"][l].scale = picture["building"][l].scale
    OBVIOUS
  <2> USE LoaderAssumption, FilesTwo
  <2>1. TypeOK /\ Shape /\ Page /\ ChainStep(l) /\ Running(l)
    <3>1. ChainStep(l)
      BY DEF ChainStep
    <3> QED BY <1>1, <3>1, ChainFacts DEF IInv
  <2>2. l \in Started
    BY <2>1, ChainShape
  <2>3. l = last /\ LastAlone
    BY <2>1, <2>2 DEF Shape, Alone, LastAlone, Started
  <2>4. box = <<l, "building">> /\ scale = <<l, "building">>
    BY <2>1, <2>3 DEF Page, BoxKept
  <2>5. box' = box /\ scale' = scale
    BY <2>4, BoxNotNo DEF DrawRoads
  <2>6. picture'["road"][l] = [recs |-> collected["road"], box |-> box', scale |-> scale']
    BY <2>1 DEF DrawRoads, Draw, TypeOK
  <2>7. picture["building"][l].box = <<l, "building">>
        /\ picture["building"][l].scale = <<l, "building">>
    BY <2>1, <2>2 DEF Page, PictureBoxes
  <2> QED BY <2>4, <2>5, <2>6, <2>7
<1>2. IInv /\ [Next]_vars => [\A l \in LoadIds : Fit(l)]_vars
  BY <1>1
<1> QED BY <1>2, Inductive, PTL DEF Spec, RoadsFit
=============================================================================
