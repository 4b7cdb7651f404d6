------------------------------- MODULE Bacnet -------------------------------
(***************************************************************************)
(* One node of mstp/bacnet.cpp, above the receiver: what Run() does with a *)
(* frame that Check() accepted, with its timers, with the token and with   *)
(* its list of requests.  The rest of the bus is an adversary that puts    *)
(* any frame of Incoming on the line, or none, in every iteration.         *)
(*                                                                         *)
(* "pc" is the position in the loop of test/bacnet.cpp:29-37: "main" is    *)
(* the refill of the list, then Run() goes through RecvCom ("recv"),       *)
(* PollDevice ("poll") and its last part ("request").                      *)
(*                                                                         *)
(* Timers are ages in ticks that stop counting where no test of the code   *)
(* can tell them apart.                                                    *)
(***************************************************************************)
EXTENDS Integers, Sequences

CONSTANTS
  Station,       \* addresses, Broadcast (0xff) among them
  Broadcast,
  Master,        \* master, this node's address
  NumPoll,       \* 128: poll targets are pollindex % 128
  IndexMod,      \* 256: pollindex is an unsigned char
  TokenGap,      \* ticks in the 3 s of tokentime, bacnet.cpp:173
  RecvGap,       \* ticks in the 10 * master ms of recvtime, :177
  SendGap,       \* ticks in the 100 ms of sendtime, :26 and :181
  DeviceGap,     \* ticks in the 10 s after which a station is silent, :124
  Batch,         \* the requests that InitBacnet() queues, test/bacnet.cpp:4-13
  Incoming,      \* the frames that the other stations may send
  WriteMayFail,  \* whether comport.Send() may fail
  Preempted      \* whether a tick may pass elsewhere than in the usleep()
                 \* between two iterations of the loop

NoEntry == -1    \* devices has no entry for the address
NoFrame == [type |-> -1]

(* class Instance: what to ask of which station, the characters mode and   *)
(* type, and the values of the writes (an analog value is a number here).  *)
Instance == [dev : Station, mode : Nat, type : Nat, instance : Nat,
             binary : Int, analog : Nat]

ASSUME AddressAssumption ==
  /\ Station \subseteq Nat /\ Broadcast \in Station
  /\ Master \in Station \ {Broadcast}
  /\ NumPoll \in Nat \ {0} /\ 0 .. NumPoll - 1 \subseteq Station \ {Broadcast}
  /\ IndexMod \in Nat \ {0} /\ IndexMod % NumPoll = 0
  /\ \A f \in Incoming :
       f.type \in 0 .. 7 /\ f.dst \in Station /\ f.src \in Station

ASSUME NodeAssumption ==
  /\ TokenGap \in Nat /\ RecvGap \in Nat /\ SendGap \in Nat /\ DeviceGap \in Nat
  /\ Batch \in Seq(Instance) /\ Batch # << >>
  /\ WriteMayFail \in BOOLEAN /\ Preempted \in BOOLEAN

VARIABLES
  pc,
  tokenhold, pollindex, invokeid,
  instancelist,                   \* the requests still to send
  devices,                        \* age of the last frame of each station
  tokentime, recvtime, sendtime,  \* ages
  wire                            \* the frame sent by the last step, or NoFrame

timers == <<tokentime, recvtime, sendtime>>
vars == <<pc, tokenhold, pollindex, invokeid, instancelist, devices,
          tokentime, recvtime, sendtime, wire>>

Age(gap) == 0 .. gap

(* What a node may send: tokens, polls and answers to polls, and requests. *)
Properties ==
  [service : {"read", "write"}, object : {"analog", "binary"},
   instance : Nat, value : Nat]
Sendable ==
  [type : 0 .. 2, dst : Station, src : Station]
    \cup [type : {5}, dst : Station, src : Station, request : Properties,
          id : 0 .. 127]

TypeOK ==
  /\ pc \in {"main", "recv", "poll", "request"}
  /\ tokenhold \in 0 .. 1
  /\ pollindex \in 0 .. IndexMod - 1
  /\ invokeid \in 0 .. 127
  /\ instancelist \in Seq(Instance)
  /\ devices \in [Station -> {NoEntry} \cup Age(DeviceGap + 1)]
  /\ tokentime \in Age(TokenGap)
  /\ recvtime \in Age(RecvGap)
  /\ sendtime \in Age(SendGap)
  /\ wire \in Sendable \cup {NoFrame}

(* devices[255] is not among the entries the constructor creates. *)
Init ==
  /\ pc = "main"
  /\ tokenhold = 0 /\ pollindex = 0 /\ invokeid = 0
  /\ instancelist = << >>
  /\ devices = [s \in Station |-> IF s = Broadcast THEN NoEntry ELSE 0]
  /\ tokentime = 0 /\ recvtime = 0 /\ sendtime = 0
  /\ wire = NoFrame

-----------------------------------------------------------------------------
(* SendCom() restarts sendtime whether or not the bytes go out, and no     *)
(* caller looks at its result.  An empty frame never goes out.             *)
SendCom(frame) ==
  /\ wire' \in {frame} \cup (IF WriteMayFail THEN {NoFrame} ELSE {})
  /\ sendtime' = 0

NoSend == wire' = NoFrame /\ UNCHANGED sendtime

Target == pollindex % NumPoll

NextIndex_NoWrap ==              \* mutant: pollindex as an int
  pollindex' = pollindex + 1
NextIndex == pollindex' = (pollindex + 1) % IndexMod

Header(type, dst, src) == [type |-> type, dst |-> dst, src |-> src]

(* DoRequest() switches on the sum of mode and type: 'r' or 'R' with 'A',  *)
(* 'B' or 'M' is one and the same read of an analog value; 'w' or 'W'      *)
(* writes an analog value with 'A' and a binary value, of eight bits, with *)
(* 'B'; other sums leave the frame empty.                                  *)
ReadKeys == {mode + type : mode \in {114, 82}, type \in {65, 66, 77}}
WriteKeys(type) == {mode + type : mode \in {119, 87}}

Property(service, object, instance, value) ==
  [service |-> service, object |-> object, instance |-> instance, value |-> value]

Requested(i) ==
  LET key == i.mode + i.type IN
    IF key \in ReadKeys THEN Property("read", "analog", i.instance, 0)
    ELSE IF key \in WriteKeys(65)
      THEN Property("write", "analog", i.instance, i.analog)
    ELSE Property("write", "binary", i.instance, i.binary % 256)

Known(i) == i.mode + i.type \in ReadKeys \cup WriteKeys(65) \cup WriteKeys(66)

RequestFrame(i) ==
  IF Known(i) THEN [type |-> 5, dst |-> i.dev, src |-> Master,
                    request |-> Requested(i), id |-> invokeid]
              ELSE NoFrame

DoRequest_NotPopped ==           \* mutant: pop_front() forgotten
  IF instancelist = << >>
    THEN NoSend /\ UNCHANGED <<instancelist, invokeid>>
    ELSE /\ SendCom(RequestFrame(Head(instancelist)))
         /\ UNCHANGED instancelist
         /\ invokeid' = IF invokeid > 127 THEN 0 ELSE invokeid
DoRequest ==
  IF instancelist = << >>
    THEN NoSend /\ UNCHANGED <<instancelist, invokeid>>
    ELSE /\ SendCom(RequestFrame(Head(instancelist)))
         /\ instancelist' = Tail(instancelist)
         /\ invokeid' = IF invokeid > 127 THEN 0 ELSE invokeid

-----------------------------------------------------------------------------
(* main(): an empty list is refilled before Run(). *)
Refill_Always ==                 \* mutant: Empty() is not asked
  /\ pc = "main" /\ pc' = "recv"
  /\ instancelist' = Batch
  /\ wire' = NoFrame
  /\ UNCHANGED <<tokenhold, pollindex, invokeid, devices>> /\ UNCHANGED timers
Refill ==
  /\ pc = "main" /\ pc' = "recv"
  /\ instancelist' = IF instancelist = << >> THEN Batch ELSE instancelist
  /\ wire' = NoFrame
  /\ UNCHANGED <<tokenhold, pollindex, invokeid, devices>> /\ UNCHANGED timers

(* No complete frame in this iteration. *)
RecvNothing ==
  /\ pc = "recv" /\ pc' = "poll" /\ NoSend
  /\ UNCHANGED <<tokenhold, pollindex, invokeid, instancelist, devices,
                 tokentime, recvtime>>

(* ProcFrame(): the sender is alive; the frame is dispatched when it is    *)
(* for everyone, for this node, or for a station silent for over 10 s,     *)
(* which the node stands in for.                                           *)
Heard_Forgotten(d, s) == d       \* mutant: ProcFrame() does not note the sender
Heard(d, s) == [d EXCEPT ![s] = 0]

(* map::operator[] creates a missing entry, of age 0. *)
Looked(d, s) == IF d[s] = NoEntry THEN Heard(d, s) ELSE d

Silent(d, s) == d[s] > DeviceGap

Addressed(f) ==
  f.dst \in {Broadcast, Master} \/ Silent(Heard(devices, f.src), f.dst)

RecvFrame(f) == pc = "recv" /\ pc' = "poll" /\ recvtime' = 0

(* Not dispatched, or dispatched to a handler that does nothing. *)
RecvOther(f) ==
  /\ RecvFrame(f) /\ (~Addressed(f) \/ f.type \notin {0, 1, 2})
  /\ devices' = Heard(devices, f.src) /\ NoSend
  /\ UNCHANGED <<tokenhold, pollindex, invokeid, instancelist, tokentime>>

Token(f) ==
  /\ RecvFrame(f) /\ Addressed(f) /\ f.type = 0
  /\ devices' = Heard(devices, f.src)
  /\ tokenhold' = 1 /\ tokentime' = 0
  /\ DoRequest
  /\ UNCHANGED pollindex

(* The poll is answered in the name of the polled station; the token is    *)
(* given up even when it is not answered.                                  *)
PollMaster_KeepToken(f) ==       \* mutant: tokenhold survives the poll
  /\ RecvFrame(f) /\ Addressed(f) /\ f.type = 1
  /\ LET d == Heard(devices, f.src) IN
       IF f.dst = Master \/ Silent(d, f.dst)
         THEN devices' = d /\ SendCom(Header(2, f.src, f.dst))
         ELSE devices' = Looked(d, f.dst) /\ NoSend
  /\ UNCHANGED <<tokenhold, pollindex, invokeid, instancelist, tokentime>>
PollMaster(f) ==
  /\ RecvFrame(f) /\ Addressed(f) /\ f.type = 1
  /\ LET d == Heard(devices, f.src) IN
       IF f.dst = Master \/ Silent(d, f.dst)
         THEN devices' = d /\ SendCom(Header(2, f.src, f.dst))
         ELSE devices' = Looked(d, f.dst) /\ NoSend
  /\ tokenhold' = 0
  /\ UNCHANGED <<pollindex, invokeid, instancelist, tokentime>>

PollMasterAck_Mute(f) ==         \* mutant: the token is prepared but not sent
  /\ RecvFrame(f) /\ Addressed(f) /\ f.type = 2
  /\ devices' = Heard(devices, f.src)
  /\ NoSend /\ NextIndex
  /\ UNCHANGED <<tokenhold, invokeid, instancelist, tokentime>>

(* The token goes to the next poll target, not to the station that         *)
(* answered, and tokenhold stays as it is.                                 *)
PollMasterAck(f) ==
  /\ RecvFrame(f) /\ Addressed(f) /\ f.type = 2
  /\ devices' = Heard(devices, f.src)
  /\ SendCom(Header(0, Target, Master)) /\ NextIndex
  /\ UNCHANGED <<tokenhold, invokeid, instancelist, tokentime>>

-----------------------------------------------------------------------------
PollDue_Hasty ==                 \* mutant: sendtime is not asked
  tokentime >= TokenGap /\ recvtime >= RecvGap
PollDue ==
  tokentime >= TokenGap /\ recvtime >= RecvGap /\ sendtime >= SendGap

PollDevice_NoStep ==             \* mutant: the same station is polled again
  /\ pc = "poll" /\ pc' = "request" /\ PollDue
  /\ SendCom(Header(1, Target, Master)) /\ UNCHANGED pollindex
  /\ UNCHANGED <<tokenhold, invokeid, instancelist, devices, tokentime, recvtime>>
PollDevice ==
  /\ pc = "poll" /\ pc' = "request" /\ PollDue
  /\ SendCom(Header(1, Target, Master)) /\ NextIndex
  /\ UNCHANGED <<tokenhold, invokeid, instancelist, devices, tokentime, recvtime>>

PollNotDue ==
  /\ pc = "poll" /\ pc' = "request" /\ ~PollDue /\ NoSend
  /\ UNCHANGED <<tokenhold, pollindex, invokeid, instancelist, devices,
                 tokentime, recvtime>>

(* The last part of Run(). *)
RequestDue == tokenhold # 0 /\ sendtime >= SendGap

Request ==
  /\ pc = "request" /\ pc' = "main" /\ RequestDue /\ DoRequest
  /\ UNCHANGED <<tokenhold, pollindex, devices, tokentime, recvtime>>

NoRequest ==
  /\ pc = "request" /\ pc' = "main" /\ ~RequestDue /\ NoSend
  /\ UNCHANGED <<tokenhold, pollindex, invokeid, instancelist, devices,
                 tokentime, recvtime>>

-----------------------------------------------------------------------------
Older(age, gap) == IF age < gap THEN age + 1 ELSE gap

Tick ==
  /\ Preempted \/ pc = "main"
  /\ tokentime' = Older(tokentime, TokenGap)
  /\ recvtime' = Older(recvtime, RecvGap)
  /\ sendtime' = Older(sendtime, SendGap)
  /\ devices' = [s \in Station |-> IF devices[s] = NoEntry THEN NoEntry
                                   ELSE Older(devices[s], DeviceGap + 1)]
  /\ wire' = NoFrame
  /\ UNCHANGED <<pc, tokenhold, pollindex, invokeid, instancelist>>

ProcFrame(f) == RecvOther(f) \/ Token(f) \/ PollMaster(f) \/ PollMasterAck(f)

Own == Refill \/ RecvNothing
         \/ PollDevice \/ PollNotDue \/ Request \/ NoRequest

Next == Tick \/ Own \/ \E f \in Incoming : ProcFrame(f)

Spec == Init /\ [][Next]_vars

(* The loop never blocks: the port is opened with O_NONBLOCK (uart.c:9)    *)
(* and every path through Run() returns; usleep(100) ends each iteration.  *)
(* Time passes, even if it only does so between two iterations.            *)
FairSpec ==
  Spec /\ SF_vars(Tick) /\ WF_vars(Own \/ \E f \in Incoming : ProcFrame(f))

-----------------------------------------------------------------------------
(* A bus that has fallen silent is searched for stations: when no frame    *)
(* arrives any more, every one of the NumPoll addresses is polled again    *)
(* and again, through every wrap of the 8-bit pollindex and in spite of    *)
(* the requests that a token held since before lets the node send.         *)
PollsEveryStation ==
  <>[][\A f \in Incoming : ~ProcFrame(f)]_vars =>
    \A s \in 0 .. NumPoll - 1 : []<>(wire = Header(1, s, Master))

(* A node that keeps receiving the token sends every one of its requests   *)
(* that DoRequest() knows again and again, in spite of the polls, refills  *)
(* and unknown requests in between.                                        *)
RequestsServed ==
  []<><<\E f \in Incoming : Token(f)>>_vars =>
    \A i \in 1 .. Len(Batch) : Known(Batch[i]) =>
      []<>(/\ wire.type = 5 /\ wire.dst = Batch[i].dev
           /\ wire.request = Requested(Batch[i]))

=============================================================================
