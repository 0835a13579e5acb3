---------------------------- MODULE SceneService ----------------------------
(***************************************************************************)
(* What the WebSocket server promises its clients, taken together: there   *)
(* is one scene (transmitter, receiver, walls), and each message is        *)
(* handled as if in one step, in the order in which its client sent it.    *)
(* A run is computed in the scene as the messages handled before it, of    *)
(* whatever client, have left it, and only the client that asked for it is *)
(* answered.                                                               *)
(***************************************************************************)
EXTENDS Integers, Sequences, SequencesExt

CONSTANTS Clients, NotSet, NoMap

VARIABLES
  status,  \* of each connection: closed, open, closing
  inbox,   \* messages of each client that are not handled yet
  outbox,  \* answers each client got on its connection
  tx, rx,  \* positions, or NotSet
  map      \* the walls of the scene, or NoMap

vars == <<status, inbox, outbox, tx, rx, map>>

Log   == [type |-> "logOutput"]
Empty == [type |-> "mapDataGet", data |-> <<>>]

(* a answers message m in the present scene.                               *)
IsAnswer(a, m) ==
  CASE m.type = "vehicle" -> a = <<Log>>
    [] m.type = "mapData" ->
         \E b \in BOOLEAN : a = <<Log, [type |-> "updateMapData", state |-> b]>>
    [] m.type = "runVPL" /\ (tx = NotSet \/ rx = NotSet) ->
         a = <<[type |-> "Rays", state |-> 0]>>
    [] m.type = "runVPL" /\ tx # NotSet /\ rx # NotSet ->
         /\ Len(a) = 1
         /\ a[1].type = "output" /\ a[1].state = 1
         /\ a[1].first = tx /\ a[1].from = tx /\ a[1].to = rx
         /\ map # NoMap => a[1].walls \subseteq ToSet(map)
    [] m.type = "runMap"         -> a = <<[type |-> "output", state |-> 0]>>
    [] m.type = "getMap"         -> a = <<[type |-> "inputMap"]>>
    [] m.type = "requireMapData" -> a = <<Empty>>
    [] OTHER -> a = <<>>

Init ==
  /\ status = [c \in Clients |-> "closed"]
  /\ inbox = [c \in Clients |-> <<>>] /\ outbox = [c \in Clients |-> <<>>]
  /\ tx = NotSet /\ rx = NotSet /\ map = NoMap

Connect(c) ==
  /\ status[c] = "closed"
  /\ status' = [status EXCEPT ![c] = "open"]
  /\ outbox' = [outbox EXCEPT ![c] = <<>>]
  /\ UNCHANGED <<inbox, tx, rx, map>>

Send(c) ==
  /\ status[c] = "open"
  /\ Len(inbox'[c]) = Len(inbox[c]) + 1 /\ IsPrefix(inbox[c], inbox'[c])
  /\ inbox' = [inbox EXCEPT ![c] = inbox'[c]]
  /\ UNCHANGED <<status, outbox, tx, rx, map>>

(* The client goes; what the server has not read may be lost.              *)
Leave(c) ==
  /\ status[c] = "open"
  /\ status' = [status EXCEPT ![c] = "closing"]
  /\ IsPrefix(inbox'[c], inbox[c])
  /\ inbox' = [inbox EXCEPT ![c] = inbox'[c]]
  /\ UNCHANGED <<outbox, tx, rx, map>>

Forget(c) ==
  /\ status[c] = "closing" /\ inbox[c] = <<>>
  /\ status' = [status EXCEPT ![c] = "closed"]
  /\ UNCHANGED <<inbox, outbox, tx, rx, map>>

(* One message is handled; who is gone gets no answer.                     *)
Handle(c) ==
  /\ inbox[c] # <<>>
  /\ LET m   == Head(inbox[c])
         old == Len(outbox[c]) IN
     /\ inbox' = [inbox EXCEPT ![c] = Tail(@)]
     /\ IF status[c] = "open"
        THEN /\ IsPrefix(outbox[c], outbox'[c])
             /\ IsAnswer(SubSeq(outbox'[c], old + 1, Len(outbox'[c])), m)
             /\ outbox' = [outbox EXCEPT ![c] = outbox'[c]]
        ELSE UNCHANGED outbox
     /\ tx'  = IF m.type = "vehicle" /\ m.who = "tx" THEN m.at ELSE tx
     /\ rx'  = IF m.type = "vehicle" /\ m.who = "rx" THEN m.at ELSE rx
     /\ map' = IF m.type \in {"mapData", "senario"} THEN m.walls ELSE map
  /\ UNCHANGED status

Next ==
  \E c \in Clients : Connect(c) \/ Send(c) \/ Leave(c) \/ Forget(c) \/ Handle(c)

Spec == Init /\ [][Next]_vars
=============================================================================
