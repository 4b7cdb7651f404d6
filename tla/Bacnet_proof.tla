---------------------------- MODULE Bacnet_proof ----------------------------
(***************************************************************************)
(* The type invariant of Bacnet.tla, for any set of stations, frames on    *)
(* the line, requests and timer lengths.                                   *)
(***************************************************************************)
EXTENDS Bacnet, TLAPS

TimersOK ==
  /\ tokentime \in Age(TokenGap)
  /\ recvtime \in Age(RecvGap)
  /\ sendtime \in Age(SendGap)
ListOK == instancelist \in Seq(Instance)
DevicesOK == devices \in [Station -> {NoEntry} \cup Age(DeviceGap + 1)]
ControlOK ==
  /\ pc \in {"main", "recv", "poll", "request"}
  /\ tokenhold \in 0 .. 1
  /\ pollindex \in 0 .. IndexMod - 1
  /\ invokeid \in 0 .. 127

LEMMA OlderOK ==
  ASSUME NEW gap \in Nat, NEW age \in Age(gap)
  PROVE  Older(age, gap) \in Age(gap)
  BY DEF Older, Age

LEMMA ZeroAge == ASSUME NEW gap \in Nat PROVE 0 \in Age(gap)
  BY DEF Age

(* What DoRequest() does to the list and to invokeid. *)
LEMMA DoRequestOK ==
  ASSUME TypeOK, DoRequest
  PROVE  /\ ListOK' /\ invokeid' \in 0 .. 127
         /\ sendtime' = 0 \/ sendtime' = sendtime
<1>1. CASE instancelist = << >>
  BY <1>1 DEF DoRequest, NoSend, TypeOK, ListOK
<1>2. CASE instancelist # << >>
  <2>1. /\ instancelist' = Tail(instancelist) /\ sendtime' = 0
        /\ invokeid' = IF invokeid > 127 THEN 0 ELSE invokeid
    BY <1>2 DEF DoRequest, SendCom
  <2>2. ListOK'
    BY <1>2, <2>1 DEF TypeOK, ListOK
  <2> QED BY <2>1, <2>2 DEF TypeOK
<1> QED BY <1>1, <1>2

LEMMA HeardOK ==
  ASSUME DevicesOK, NEW s \in Station, NEW t \in Station
  PROVE  /\ Heard(devices, s) \in [Station -> {NoEntry} \cup Age(DeviceGap + 1)]
         /\ Looked(Heard(devices, s), t)
              \in [Station -> {NoEntry} \cup Age(DeviceGap + 1)]
<1>1. 0 \in Age(DeviceGap + 1)
  BY ZeroAge, NodeAssumption
<1> QED BY <1>1 DEF DevicesOK, Heard, Looked

LEMMA IncomingOK ==
  ASSUME NEW f \in Incoming
  PROVE  f.type \in 0 .. 7 /\ f.dst \in Station /\ f.src \in Station
  BY AddressAssumption

LEMMA InitTypeOK == Init => TypeOK
<1> SUFFICES ASSUME Init PROVE TypeOK
  OBVIOUS
<1>1. /\ DeviceGap + 1 \in Nat /\ TokenGap \in Nat /\ RecvGap \in Nat
      /\ SendGap \in Nat
  BY NodeAssumption
<1>2. TimersOK
  BY <1>1, ZeroAge DEF Init, TimersOK
<1>3. DevicesOK
  BY <1>1, ZeroAge DEF Init, DevicesOK
<1>4. ControlOK
  BY AddressAssumption DEF Init, ControlOK
<1>5. ListOK
  BY DEF Init, ListOK
<1>6. wire \in Sendable \cup {NoFrame}
  BY DEF Init
<1> QED BY <1>2, <1>3, <1>4, <1>5, <1>6
           DEF TypeOK, TimersOK, DevicesOK, ControlOK, ListOK

-----------------------------------------------------------------------------
LEMMA NextTimers == TypeOK /\ [Next]_vars => TimersOK'
<1> SUFFICES ASSUME TypeOK, [Next]_vars PROVE TimersOK'
  OBVIOUS
<1>0. TokenGap \in Nat /\ RecvGap \in Nat /\ SendGap \in Nat
  BY NodeAssumption
<1>1. 0 \in Age(TokenGap) /\ 0 \in Age(RecvGap) /\ 0 \in Age(SendGap)
  BY <1>0, ZeroAge
<1>2. CASE Tick
  BY <1>0, <1>2, OlderOK DEF Tick, TypeOK, TimersOK
<1>3. CASE \E f \in Incoming : ProcFrame(f)
  <2>1. tokentime' \in {0, tokentime} /\ recvtime' = 0
    BY <1>3 DEF ProcFrame, RecvOther, Token, PollMaster, PollMasterAck, RecvFrame
  <2>2. sendtime' \in {0, sendtime}
    BY <1>3, DoRequestOK DEF ProcFrame, RecvOther, Token, PollMaster,
       PollMasterAck, SendCom, NoSend
  <2> QED BY <1>1, <2>1, <2>2 DEF TypeOK, TimersOK
<1>4. CASE Own
  <2>1. tokentime' = tokentime /\ recvtime' = recvtime
    BY <1>4 DEF Own, Refill, RecvNothing, PollDevice, PollNotDue, Request,
       NoRequest, timers
  <2>2. sendtime' \in {0, sendtime}
    BY <1>4, DoRequestOK DEF Own, Refill, RecvNothing, PollDevice, PollNotDue,
       Request, NoRequest, SendCom, NoSend, timers
  <2> QED BY <1>1, <2>1, <2>2 DEF TypeOK, TimersOK
<1>5. CASE UNCHANGED vars
  BY <1>5 DEF vars, TypeOK, TimersOK
<1> QED BY <1>2, <1>3, <1>4, <1>5 DEF Next

LEMMA NextDevices == TypeOK /\ [Next]_vars => DevicesOK'
<1> SUFFICES ASSUME TypeOK, [Next]_vars PROVE DevicesOK'
  OBVIOUS
<1>0. DevicesOK
  BY DEF TypeOK, DevicesOK
<1>1. CASE Tick
  <2>1. DeviceGap + 1 \in Nat
    BY NodeAssumption
  <2>2. ASSUME NEW s \in Station, devices[s] # NoEntry
        PROVE  Older(devices[s], DeviceGap + 1) \in Age(DeviceGap + 1)
    BY <1>0, <2>1, <2>2, OlderOK DEF DevicesOK
  <2> QED BY <1>1, <2>2 DEF Tick, DevicesOK
<1>2. CASE \E f \in Incoming : ProcFrame(f)
  <2>1. PICK f \in Incoming : ProcFrame(f)
    BY <1>2
  <2>2. devices' \in {Heard(devices, f.src), Looked(Heard(devices, f.src), f.dst)}
    BY <2>1 DEF ProcFrame, RecvOther, Token, PollMaster, PollMasterAck
  <2> QED BY <1>0, <2>2, HeardOK, IncomingOK DEF DevicesOK
<1>3. CASE Own \/ UNCHANGED vars
  BY <1>0, <1>3 DEF Own, Refill, RecvNothing, PollDevice, PollNotDue, Request,
     NoRequest, vars, DevicesOK
<1> QED BY <1>1, <1>2, <1>3 DEF Next

LEMMA NextList == TypeOK /\ [Next]_vars => ListOK'
<1> SUFFICES ASSUME TypeOK, [Next]_vars PROVE ListOK'
  OBVIOUS
<1>0. ListOK /\ Batch \in Seq(Instance)
  BY NodeAssumption DEF TypeOK, ListOK
<1>1. CASE Refill
  BY <1>0, <1>1 DEF Refill, ListOK
<1>2. CASE DoRequest
  BY <1>2, DoRequestOK
<1>3. CASE UNCHANGED instancelist
  BY <1>0, <1>3 DEF ListOK
<1> QED
  BY <1>1, <1>2, <1>3
     DEF Next, Tick, Own, RecvNothing, PollDevice, PollNotDue, Request,
         NoRequest, ProcFrame, RecvOther, Token, PollMaster, PollMasterAck, vars

LEMMA NextControl == TypeOK /\ [Next]_vars => ControlOK'
<1> SUFFICES ASSUME TypeOK, [Next]_vars PROVE ControlOK'
  OBVIOUS
<1>0. ControlOK
  BY DEF TypeOK, ControlOK
<1>1. pc' \in {"main", "recv", "poll", "request"}
  BY <1>0 DEF ControlOK, Next, Tick, Own, Refill, RecvNothing, PollDevice,
     PollNotDue, Request, NoRequest, ProcFrame, RecvOther, Token, PollMaster,
     PollMasterAck, RecvFrame, vars
<1>2. tokenhold' \in {0, 1, tokenhold}
  BY DEF Next, Tick, Own, Refill, RecvNothing, PollDevice, PollNotDue, Request,
     NoRequest, ProcFrame, RecvOther, Token, PollMaster, PollMasterAck, vars
<1>3. pollindex' \in {pollindex, (pollindex + 1) % IndexMod}
  BY DEF Next, Tick, Own, Refill, RecvNothing, PollDevice, PollNotDue, Request,
     NoRequest, ProcFrame, RecvOther, Token, PollMaster, PollMasterAck,
     NextIndex, vars
<1>4. (pollindex + 1) % IndexMod \in 0 .. IndexMod - 1
  BY <1>0, AddressAssumption DEF ControlOK
<1>5. CASE DoRequest
  BY <1>0, <1>1, <1>2, <1>3, <1>4, <1>5, DoRequestOK DEF ControlOK
<1>6. CASE UNCHANGED invokeid
  BY <1>0, <1>1, <1>2, <1>3, <1>4, <1>6 DEF ControlOK
<1>7. DoRequest \/ UNCHANGED invokeid
  BY DEF Next, Tick, Own, Refill, RecvNothing, PollDevice, PollNotDue, Request,
     NoRequest, ProcFrame, RecvOther, Token, PollMaster, PollMasterAck, vars
<1> QED BY <1>5, <1>6, <1>7

-----------------------------------------------------------------------------
(* What a node sends.                                                      *)
LEMMA HeaderSendable ==
  ASSUME NEW t \in 0 .. 2, NEW d \in Station, NEW s \in Station
  PROVE  Header(t, d, s) \in Sendable /\ Header(t, d, s).type = t
BY DEF Header, Sendable

LEMMA TargetIsStation == TypeOK => Target \in Station
<1> SUFFICES ASSUME TypeOK PROVE Target \in Station
  OBVIOUS
<1>1. pollindex \in Int /\ NumPoll \in Nat \ {0}
  BY AddressAssumption DEF TypeOK
<1>2. Target \in 0 .. NumPoll - 1
  BY <1>1, SMT DEF Target
<1> QED BY <1>2, AddressAssumption

(* The values of a request are taken from an entry of the list, those of a *)
(* binary one modulo 2^8.                                                  *)
LEMMA RequestedOK ==
  ASSUME NEW i \in Instance
  PROVE  Requested(i) \in Properties
<1>1. /\ i.instance \in Nat /\ i.analog \in Nat /\ i.binary \in Int
      /\ 0 \in Nat
  BY DEF Instance
<1>2. i.binary % 256 \in Nat
  <2>1. \A b \in Int : b % 256 \in Nat
    BY SMT
  <2> QED BY <1>1, <2>1
<1>3. /\ \A v \in Nat : Property("read", "analog", i.instance, v) \in Properties
      /\ \A v \in Nat : Property("write", "analog", i.instance, v) \in Properties
      /\ \A v \in Nat : Property("write", "binary", i.instance, v) \in Properties
  BY <1>1 DEF Property, Properties
<1> QED BY <1>1, <1>2, <1>3 DEF Requested

LEMMA RequestFrameOK ==
  ASSUME NEW i \in Instance, TypeOK
  PROVE  RequestFrame(i) = NoFrame
           \/ (RequestFrame(i) \in Sendable /\ RequestFrame(i).type = 5)
<1>1. /\ i.dev \in Station /\ Master \in Station /\ invokeid \in 0 .. 127
      /\ Requested(i) \in Properties
  BY RequestedOK, AddressAssumption DEF Instance, TypeOK
<1> HIDE DEF Known, Requested, Properties
<1> QED BY <1>1 DEF RequestFrame, Sendable

(* A request goes out as type 5, or as nothing.                            *)
LEMMA RequestSent ==
  TypeOK /\ DoRequest =>
    \/ wire' = NoFrame /\ sendtime' \in {0, sendtime}
    \/ wire' \in Sendable /\ wire'.type = 5 /\ sendtime' = 0
<1> SUFFICES ASSUME TypeOK, DoRequest
    PROVE  \/ wire' = NoFrame /\ sendtime' \in {0, sendtime}
           \/ wire' \in Sendable /\ wire'.type = 5 /\ sendtime' = 0
  OBVIOUS
<1>1. CASE instancelist = << >>
  BY <1>1 DEF DoRequest, NoSend
<1>2. CASE instancelist # << >>
  <2> DEFINE i == Head(instancelist)
  <2>1. i \in Instance
    <3>1. ASSUME NEW R, instancelist \in Seq(R) PROVE i \in R
      BY <1>2, <3>1
    <3> QED BY <3>1 DEF TypeOK
  <2>2. wire' \in {RequestFrame(i), NoFrame} /\ sendtime' = 0
    BY <1>2 DEF DoRequest, SendCom
  <2>3. RequestFrame(i) = NoFrame
          \/ (RequestFrame(i) \in Sendable /\ RequestFrame(i).type = 5)
    BY <2>1, RequestFrameOK
  <2> HIDE DEF i
  <2> QED BY <2>2, <2>3
<1> QED BY <1>1, <1>2

(* On its own a node sends polls and requests, a poll only when nothing    *)
(* has been sent for the 100 ms of sendtime.                               *)
LEMMA OwnSends ==
  TypeOK /\ Own =>
    \/ wire' = NoFrame /\ sendtime' \in {0, sendtime}
    \/ /\ wire' \in Sendable /\ wire'.type \in {1, 5} /\ sendtime' = 0
       /\ wire'.type = 1 => sendtime >= SendGap
<1> SUFFICES ASSUME TypeOK, Own
    PROVE  \/ wire' = NoFrame /\ sendtime' \in {0, sendtime}
           \/ /\ wire' \in Sendable /\ wire'.type \in {1, 5} /\ sendtime' = 0
              /\ wire'.type = 1 => sendtime >= SendGap
  OBVIOUS
<1>1. CASE Refill \/ RecvNothing \/ PollNotDue \/ NoRequest
  BY <1>1 DEF Refill, RecvNothing, PollNotDue, NoRequest, NoSend, timers
<1>2. CASE PollDevice
  <2> DEFINE poll == Header(1, Target, Master)
  <2>1. poll \in Sendable /\ poll.type = 1
    <3>1. Target \in Station /\ Master \in Station /\ 1 \in 0 .. 2
      BY TargetIsStation, AddressAssumption
    <3> QED BY <3>1, HeaderSendable
  <2>2. wire' \in {poll, NoFrame} /\ sendtime' = 0 /\ sendtime >= SendGap
    BY <1>2 DEF PollDevice, SendCom, PollDue
  <2> HIDE DEF poll
  <2> QED BY <2>1, <2>2
<1>3. CASE Request
  BY <1>3, RequestSent DEF Request
<1> QED BY <1>1, <1>2, <1>3 DEF Own

(* A frame is followed by an answer to a poll when it is a poll, and never *)
(* by a poll.                                                              *)
LEMMA ProcFrameSends ==
  ASSUME NEW f, f.dst \in Station, f.src \in Station
  PROVE  TypeOK /\ ProcFrame(f) =>
           /\ sendtime' \in {0, sendtime}
           /\ \/ wire' = NoFrame
              \/ /\ wire' \in Sendable /\ wire'.type \in {0, 2, 5} /\ sendtime' = 0
                 /\ wire'.type = 2 => f.type = 1
<1> SUFFICES ASSUME TypeOK, ProcFrame(f)
    PROVE  /\ sendtime' \in {0, sendtime}
           /\ \/ wire' = NoFrame
              \/ /\ wire' \in Sendable /\ wire'.type \in {0, 2, 5} /\ sendtime' = 0
                 /\ wire'.type = 2 => f.type = 1
  OBVIOUS
<1>1. CASE RecvOther(f)
  BY <1>1 DEF RecvOther, NoSend
<1>2. CASE Token(f)
  BY <1>2, RequestSent DEF Token
<1>3. CASE PollMaster(f)
  <2> DEFINE ack == Header(2, f.src, f.dst)
  <2>1. ack \in Sendable /\ ack.type = 2
    BY HeaderSendable
  <2>2. /\ f.type = 1 /\ sendtime' \in {0, sendtime}
        /\ wire' = NoFrame \/ (wire' = ack /\ sendtime' = 0)
    BY <1>3 DEF PollMaster, SendCom, NoSend
  <2> HIDE DEF ack
  <2> QED BY <2>1, <2>2
<1>4. CASE PollMasterAck(f)
  <2> DEFINE token == Header(0, Target, Master)
  <2>1. token \in Sendable /\ token.type = 0
    <3>1. Target \in Station /\ Master \in Station /\ 0 \in 0 .. 2
      BY TargetIsStation, AddressAssumption
    <3> QED BY <3>1, HeaderSendable
  <2>2. sendtime' = 0 /\ wire' \in {token, NoFrame}
    BY <1>4 DEF PollMasterAck, SendCom
  <2> HIDE DEF token
  <2> QED BY <2>1, <2>2
<1> QED BY <1>1, <1>2, <1>3, <1>4 DEF ProcFrame

-----------------------------------------------------------------------------
LEMMA NextWireOK == TypeOK /\ [Next]_vars => wire' \in Sendable \cup {NoFrame}
<1> SUFFICES ASSUME TypeOK, [Next]_vars
             PROVE  wire' \in Sendable \cup {NoFrame}
  OBVIOUS
<1>1. CASE Tick
  BY <1>1 DEF Tick
<1>2. CASE Own
  BY <1>2, OwnSends
<1>3. CASE \E f \in Incoming : ProcFrame(f)
  BY <1>3, IncomingOK, ProcFrameSends
<1>4. CASE UNCHANGED vars
  BY <1>4 DEF vars, TypeOK
<1> QED BY <1>1, <1>2, <1>3, <1>4 DEF Next

LEMMA NextTypeOK == TypeOK /\ [Next]_vars => TypeOK'
  BY NextTimers, NextDevices, NextList, NextControl, NextWireOK
     DEF TypeOK, TimersOK, DevicesOK, ListOK, ControlOK

(* The node's variables keep their types; in particular invokeid and       *)
(* pollindex stay within an unsigned char, and whatever frame comes in,    *)
(* what goes out is a token, a poll, an answer to one, or a request.       *)
THEOREM TypeCorrect == Spec => []TypeOK
  BY InitTypeOK, NextTypeOK, PTL DEF Spec

=============================================================================
