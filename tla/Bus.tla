---------------------------------- MODULE Bus ----------------------------------
(***************************************************************************)
(* Two simulators on one serial line, alone: two instances of Bacnet.tla,  *)
(* each of which hears what the other sends and nothing else.  A node does *)
(* not hear itself (half-duplex line).                                     *)
(*                                                                         *)
(* The line delivers a frame while the loops of the nodes go on; noise or  *)
(* a collision may destroy a frame under way, MaxLost times in all.  A     *)
(* frame takes less than a tick and an iteration far less: time passes     *)
(* only when no frame is under way and each node is between two iterations *)
(* and has ended one since the last tick.  Until a frame comes a further   *)
(* one would change nothing but the refill of the list, which can wait.    *)
(***************************************************************************)
EXTENDS Integers, Sequences, FiniteSets

CONSTANTS
  Station, Broadcast, NumPoll, IndexMod,
  TokenGap, SendGap, DeviceGap,
  Batch,                  \* as in Bacnet, and the same for both nodes
  MasterA, MasterB,       \* the addresses of the two nodes
  RecvGapA, RecvGapB,     \* RecvGap of each, which depends on its address
  MaxLost,                \* bound of the model: frames lost in a behaviour
  MaxRestarts             \* bound of the model: restarts of node B

VARIABLES
  pcA, holdA, indexA, idA, listA, devicesA, tokenA, recvA, sendA,  \* node A
  pcB, holdB, indexB, idB, listB, devicesB, tokenB, recvB, sendB,  \* node B
  sent,          \* the frame sent by the last step, or NoFrame
  toA, toB,      \* the frames under way to each node
  ranA, ranB,    \* the node has ended an iteration in this tick
  faults         \* what has gone wrong so far: frames lost, restarts of B

nodeA == <<pcA, holdA, indexA, idA, listA, devicesA, tokenA, recvA, sendA, ranA>>
nodeB == <<pcB, holdB, indexB, idB, listB, devicesB, tokenB, recvB, sendB, ranB>>
vars == <<nodeA, nodeB, sent, toA, toB, faults>>

A == INSTANCE Bacnet WITH
       Master <- MasterA, RecvGap <- RecvGapA,
       Incoming <- {}, WriteMayFail <- FALSE, Preempted <- FALSE,
       pc <- pcA, tokenhold <- holdA, pollindex <- indexA, invokeid <- idA,
       instancelist <- listA, devices <- devicesA, tokentime <- tokenA,
       recvtime <- recvA, sendtime <- sendA, wire <- sent

B == INSTANCE Bacnet WITH
       Master <- MasterB, RecvGap <- RecvGapB,
       Incoming <- {}, WriteMayFail <- FALSE, Preempted <- FALSE,
       pc <- pcB, tokenhold <- holdB, pollindex <- indexB, invokeid <- idB,
       instancelist <- listB, devices <- devicesB, tokentime <- tokenB,
       recvtime <- recvB, sendtime <- sendB, wire <- sent

(* The 100 ms of sendtime are at least a tick. *)
ASSUME BusAssumption ==
  /\ A!AddressAssumption /\ A!NodeAssumption
  /\ B!AddressAssumption /\ B!NodeAssumption
  /\ MasterA # MasterB /\ SendGap > 0
  /\ MaxLost \in Nat /\ MaxRestarts \in Nat

(* What can be under way: what a node may send.                            *)
Frames == A!Sendable

TypeOK ==
  /\ A!TypeOK /\ B!TypeOK
  /\ toA \in Seq(Frames) /\ toB \in Seq(Frames)
  /\ ranA \in BOOLEAN /\ ranB \in BOOLEAN
  /\ faults \in [lost : 0 .. MaxLost, restarts : 0 .. MaxRestarts]

Init ==
  /\ A!Init /\ B!Init
  /\ toA = << >> /\ toB = << >>
  /\ ranA = FALSE /\ ranB = FALSE
  /\ faults = [lost |-> 0, restarts |-> 0]

-----------------------------------------------------------------------------
Carried(queue) == IF sent' = A!NoFrame THEN queue ELSE Append(queue, sent')

Ended(ran, pc) == ran \/ pc = "main"

(* Node A goes on in its loop; Own includes iterations in which the bytes  *)
(* of a frame are still coming in.                                         *)
RunA ==
  /\ A!Own /\ (pcA = "main" => ~ranA \/ toA # << >>)
  /\ ranA' = Ended(ranA, pcA') /\ toB' = Carried(toB)
  /\ UNCHANGED <<nodeB, toA, faults>>

DeliverA ==
  /\ toA # << >> /\ A!ProcFrame(Head(toA))
  /\ toA' = Tail(toA) /\ toB' = Carried(toB)
  /\ UNCHANGED <<ranA, nodeB, faults>>

RunB ==
  /\ B!Own /\ (pcB = "main" => ~ranB \/ toB # << >>)
  /\ ranB' = Ended(ranB, pcB') /\ toA' = Carried(toA)
  /\ UNCHANGED <<nodeA, toB, faults>>

DeliverB ==
  /\ toB # << >> /\ B!ProcFrame(Head(toB))
  /\ toB' = Tail(toB) /\ toA' = Carried(toA)
  /\ UNCHANGED <<ranB, nodeA, faults>>

Lose ==
  /\ faults.lost < MaxLost /\ faults' = [faults EXCEPT !.lost = @ + 1]
  /\ \/ toA # << >> /\ toA' = Tail(toA) /\ UNCHANGED toB
     \/ toB # << >> /\ toB' = Tail(toB) /\ UNCHANGED toA
  /\ sent' = A!NoFrame /\ UNCHANGED <<nodeA, nodeB>>

(* Node B is started anew; the constructor takes every station for alive. *)
RestartB ==
  /\ faults.restarts < MaxRestarts
  /\ faults' = [faults EXCEPT !.restarts = @ + 1]
  /\ pcB' = "main" /\ listB' = << >>
  /\ holdB' = 0 /\ indexB' = 0 /\ idB' = 0
  /\ devicesB' = [s \in Station |-> IF s = Broadcast THEN B!NoEntry ELSE 0]
  /\ tokenB' = 0 /\ recvB' = 0 /\ sendB' = 0
  /\ ranB' = FALSE /\ sent' = B!NoFrame
  /\ UNCHANGED <<nodeA, toA, toB>>

Tick ==
  /\ ranA /\ ranB /\ toA = << >> /\ toB = << >>
  /\ A!Tick /\ B!Tick
  /\ ranA' = FALSE /\ ranB' = FALSE
  /\ UNCHANGED <<toA, toB, faults>>

Next == RunA \/ DeliverA \/ RunB \/ DeliverB \/ Lose \/ RestartB \/ Tick

Spec == Init /\ [][Next]_vars

(* The loops run (test/bacnet.cpp:29), a frame is complete after finitely   *)
(* many iterations, and time passes.                                       *)
FairSpec ==
  /\ Spec
  /\ WF_vars(RunA \/ DeliverA) /\ WF_vars(RunB \/ DeliverB)
  /\ SF_vars(DeliverA) /\ SF_vars(DeliverB) /\ WF_vars(Tick)

-----------------------------------------------------------------------------
Asks(node, i) ==
  /\ sent.type = 5 /\ sent.src = node /\ sent.dst = Batch[i].dev
  /\ sent.request = A!Requested(Batch[i])

(* The bus comes to life and stays alive: each of the two nodes sends      *)
(* every one of its requests again and again, although an answered poll    *)
(* hands the token to the next poll target and not to the station that     *)
(* answered, a node stands in for others only after 10 s of silence, both  *)
(* may poll and answer at once, frames get lost and a node is restarted.   *)
BothServed ==
  \A i \in 1 .. Len(Batch) : A!Known(Batch[i]) =>
    []<>Asks(MasterA, i) /\ []<>Asks(MasterB, i)

Count(queue, type) == Cardinality({i \in DOMAIN queue : queue[i].type = type})
Polls(queue) == Count(queue, 1)
Answers(queue) == Count(queue, 2)

(* A node has at most one poll of its own open: a second is not sent while *)
(* the first or the answer to it is still on the line.                     *)
OneExchange ==
  /\ Polls(toB) + Answers(toA) <= 1
  /\ Polls(toA) + Answers(toB) <= 1

=============================================================================
