---------------------------- MODULE BacnetMonitor ----------------------------
(***************************************************************************)
(* Bacnet.tla with an observer of the line, who keeps a record of its own: *)
(* it reads the frames and the clock, never the node's variables (except   *)
(* to see a refill).  The properties compare the node with the record.     *)
(***************************************************************************)
EXTENDS Bacnet, FiniteSets

VARIABLES
  heard,     \* ticks since a frame of each station was on the line, or since
             \* the node was started
  granted,   \* the last token or poll meant for this node was a token
  asked,     \* how often each request went out since the last refill
  infos      \* the requests that went out since the last token, at most 2

monitor == <<heard, granted, asked, infos>>
monVars == <<vars, monitor>>

(* The request on the line as its receiver reads it, and the one that an   *)
(* entry of the list stands for; different entries may look alike.         *)
IsRequest(f) == f.type = 5

RequestSeen(f) ==
  IF IsRequest(f) THEN [dst |-> f.dst, request |-> f.request] ELSE NoFrame

Listed(i) ==
  IF Known(i) THEN [dst |-> i.dev, request |-> Requested(i)] ELSE NoFrame

Requests == {Listed(Batch[k]) : k \in DOMAIN Batch}

NoneAsked == [r \in Requests |-> 0]

MonInit ==
  /\ Init
  /\ heard = [s \in Station |-> 0]
  /\ granted = FALSE /\ asked = NoneAsked /\ infos = 0

(* Of what the node sends the observer records the requests. *)
NoteSent(before, infosBefore) ==
  IF IsRequest(wire')
    THEN /\ asked' = [before EXCEPT ![RequestSeen(wire')] = @ + 1]
         /\ infos' = IF infosBefore < 2 THEN infosBefore + 1 ELSE 2
    ELSE asked' = before /\ infos' = infosBefore

(* A frame is meant for this node when it is for everyone, for the node    *)
(* itself, or for a station not heard for longer than DeviceGap.           *)
MeantForNode(f) ==
  \/ f.dst \in {Broadcast, Master}
  \/ f.dst # f.src /\ heard[f.dst] > DeviceGap

NoteFrame(f) ==
  /\ heard' = [heard EXCEPT ![f.src] = 0]
  /\ granted' = IF MeantForNode(f) /\ f.type \in {0, 1} THEN f.type = 0
                ELSE granted
  /\ NoteSent(asked, IF MeantForNode(f) /\ f.type = 0 THEN 0 ELSE infos)

MonNext ==
  \/ /\ Tick
     /\ heard' = [s \in Station |-> Older(heard[s], DeviceGap + 1)]
     /\ UNCHANGED <<granted, asked, infos>>
  \/ /\ Own
     /\ NoteSent(IF pc = "main" /\ instancelist = << >> THEN NoneAsked
                  ELSE asked, infos)
     /\ UNCHANGED <<heard, granted>>
  \/ \E f \in Incoming : ProcFrame(f) /\ NoteFrame(f)

MonSpec == MonInit /\ [][MonNext]_monVars

-----------------------------------------------------------------------------
(* The node never sends in the name of a station that is alive: a source   *)
(* address other than its own is that of a station not heard for longer    *)
(* than DeviceGap (ProcFrame, PollMaster; the reset of devices[src]).      *)
NeverClaimsLiveStation ==
  wire # NoFrame /\ wire.src # Master => heard[wire.src] > DeviceGap

(* A request goes out only between a token for this node and the next poll *)
(* for it, whichever of the two senders of requests it comes from.         *)
RequestNeedsToken == IsRequest(wire) => granted

(* In a round every request goes out at most as often as the list asks for *)
(* it, counting what is still to come, although Token() and Run() both     *)
(* take from the list, writes may fail, and some entries look alike.       *)
Times(list, r) == Cardinality({k \in DOMAIN list : Listed(list[k]) = r})

AskedAsListed ==
  \A r \in Requests : asked[r] + Times(instancelist, r) <= Times(Batch, r)

(* What the observer sees of the node's requests is a Requester: rounds in *)
(* the order of the list, each request once or lost, none without a grant  *)
(* of the bus, although the node keeps its own account of the token and    *)
(* two parts of it send requests (Token, Run, DoRequest).                  *)
Seen(list) == [k \in 1 .. Len(list) |-> Listed(list[k])]

R == INSTANCE Requester WITH
       Round <- Seen(Batch), Nothing <- NoFrame,
       todo <- Seen(instancelist), said <- RequestSeen(wire)

ImplementsRequester == R!Spec

(* sendframe.h:30-37: N_max_info_frames is the number of information       *)
(* frames a node may send before it must pass the token, here 1.           *)
OneInfoFramePerToken == infos <= 1

(* sendframe.h:7-8: 255 denotes broadcast as a destination "but is not     *)
(* allowed as a value for a station": the node never sends in its name.    *)
NeverStation255 == wire # NoFrame => wire.src # Broadcast

=============================================================================
