------------------------- MODULE BacnetMonitor_proof -------------------------
(***************************************************************************)
(* What the node claims on the line and when it sends requests, proved for *)
(* any stations, frames and timer lengths.                                 *)
(*                                                                         *)
(* The argument: the node's map of devices is the observer's record, with  *)
(* one exception, the entry of the broadcast address, which is created     *)
(* late and is therefore never older than the record.  So the node and the *)
(* observer agree on which frames are meant for the node, hence on the     *)
(* token, and a station silent for the node is silent for the observer.    *)
(* Hence the node implements a Requester; and an entry of its list that    *)
(* goes out is counted once among those asked and no longer among those    *)
(* left, so that nothing is asked more often than it is listed.            *)
(***************************************************************************)
EXTENDS BacnetMonitor, Bacnet_proof, FiniteSetTheorems, FunctionTheorems

DevicesAreHeard ==
  /\ heard \in [Station -> Age(DeviceGap + 1)]
  /\ \A s \in Station \ {Broadcast} : devices[s] = heard[s]
  /\ devices[Broadcast] <= heard[Broadcast]

HoldIsGrant == granted \in BOOLEAN /\ (tokenhold # 0 <=> granted)

MonInv ==
  /\ TypeOK
  /\ DevicesAreHeard
  /\ HoldIsGrant
  /\ NeverClaimsLiveStation
  /\ RequestNeedsToken

LEMMA Addresses ==
  /\ Broadcast \in Station /\ Master \in Station /\ Master # Broadcast
  /\ DeviceGap \in Nat
  BY AddressAssumption, NodeAssumption

(* The node dispatches exactly the frames meant for it. *)
LEMMA AddressedIsMeant ==
  ASSUME TypeOK, DevicesAreHeard, NEW f \in Incoming
  PROVE  Addressed(f) <=> MeantForNode(f)
<1>1. f.dst \in Station /\ f.src \in Station
  BY IncomingOK
<1>2. CASE f.dst = Broadcast
  BY <1>2 DEF Addressed, MeantForNode
<1>3. CASE f.dst # Broadcast /\ f.dst = f.src
  <2>1. Heard(devices, f.src)[f.dst] = 0
    BY <1>1, <1>3 DEF Heard, TypeOK
  <2> QED BY <1>3, <2>1, Addresses DEF Addressed, MeantForNode, Silent
<1>4. CASE f.dst # Broadcast /\ f.dst # f.src
  <2>1. Heard(devices, f.src)[f.dst] = heard[f.dst]
    BY <1>1, <1>4 DEF Heard, TypeOK, DevicesAreHeard
  <2> QED BY <1>4, <2>1 DEF Addressed, MeantForNode, Silent
<1> QED BY <1>2, <1>3, <1>4

LEMMA InitMonInv == MonInit => MonInv
<1> SUFFICES ASSUME MonInit PROVE MonInv
  OBVIOUS
<1>1. TypeOK
  BY InitTypeOK DEF MonInit
<1>2. 0 \in Age(DeviceGap + 1)
  BY Addresses, ZeroAge
<1>3. DevicesAreHeard
  BY <1>2, Addresses DEF MonInit, Init, DevicesAreHeard, NoEntry
<1>4. granted = FALSE /\ tokenhold = 0 /\ wire = NoFrame
  BY DEF MonInit, Init
<1>5. HoldIsGrant
  BY <1>4 DEF HoldIsGrant
<1>6. NeverClaimsLiveStation /\ RequestNeedsToken
  BY <1>4 DEF NeverClaimsLiveStation, RequestNeedsToken, IsRequest, NoFrame
<1> QED BY <1>1, <1>3, <1>5, <1>6 DEF MonInv

-----------------------------------------------------------------------------
(* A step of the observed node is a step of the node. *)
LEMMA MonNextNext == [MonNext]_monVars => [Next]_vars
  BY DEF MonNext, Next, monVars

LEMMA NextDevicesAreHeard ==
  MonInv /\ [MonNext]_monVars => DevicesAreHeard'
<1> SUFFICES ASSUME MonInv, [MonNext]_monVars PROVE DevicesAreHeard'
  OBVIOUS
<1>0. /\ TypeOK /\ DevicesAreHeard
      /\ devices \in [Station -> {NoEntry} \cup Age(DeviceGap + 1)]
      /\ DeviceGap + 1 \in Nat
  BY Addresses DEF MonInv, TypeOK
<1>1. CASE Tick /\ heard' = [s \in Station |-> Older(heard[s], DeviceGap + 1)]
  <2>1. ASSUME NEW s \in Station
        PROVE  Older(heard[s], DeviceGap + 1) \in Age(DeviceGap + 1)
    BY <1>0, OlderOK DEF DevicesAreHeard
  <2>2. ASSUME NEW s \in Station \ {Broadcast}
        PROVE  devices'[s] = heard'[s]
    <3>1. devices[s] = heard[s] /\ devices[s] # NoEntry
      BY <1>0 DEF DevicesAreHeard, Age, NoEntry
    <3> QED BY <1>1, <3>1 DEF Tick
  <2>3. devices'[Broadcast] <= heard'[Broadcast]
    <3>1. heard[Broadcast] \in 0 .. DeviceGap + 1
      BY <1>0, Addresses DEF DevicesAreHeard, Age
    <3>3. devices[Broadcast] \in {NoEntry} \cup Age(DeviceGap + 1)
      BY <1>0, Addresses
    <3>4. devices[Broadcast] = -1 \/ devices[Broadcast] \in 0 .. DeviceGap + 1
      BY <3>3 DEF Age, NoEntry
    <3>5. devices[Broadcast] <= heard[Broadcast]
      BY <1>0 DEF DevicesAreHeard
    <3>2. /\ heard'[Broadcast] = Older(heard[Broadcast], DeviceGap + 1)
          /\ devices'[Broadcast] = IF devices[Broadcast] = -1 THEN -1
                                   ELSE Older(devices[Broadcast], DeviceGap + 1)
      BY <1>1, Addresses DEF Tick, NoEntry
    <3> QED BY <3>1, <3>2, <3>4, <3>5, <1>0 DEF Older
  <2> QED BY <1>1, <2>1, <2>2, <2>3 DEF DevicesAreHeard
<1>2. CASE \E f \in Incoming : ProcFrame(f) /\ NoteFrame(f)
  <2>1. PICK f \in Incoming : ProcFrame(f) /\ NoteFrame(f)
    BY <1>2
  <2>2. f.src \in Station /\ f.dst \in Station
    BY IncomingOK
  <2>3. heard' = [heard EXCEPT ![f.src] = 0]
    BY <2>1 DEF NoteFrame
  <2>4. 0 \in Age(DeviceGap + 1)
    BY <1>0, ZeroAge
  <2>5. heard' \in [Station -> Age(DeviceGap + 1)]
    BY <1>0, <2>3, <2>4 DEF DevicesAreHeard
  <2> DEFINE d == Heard(devices, f.src)
  <2>6. /\ d \in [Station -> {NoEntry} \cup Age(DeviceGap + 1)]
        /\ \A s \in Station \ {Broadcast} : d[s] = heard'[s]
        /\ d[Broadcast] <= heard'[Broadcast]
    <3>1. d \in [Station -> {NoEntry} \cup Age(DeviceGap + 1)]
      BY <1>0, <2>4 DEF Heard
    <3>2. \A s \in Station \ {Broadcast} : d[s] = heard'[s]
      BY <1>0, <2>2, <2>3 DEF Heard, DevicesAreHeard
    <3>3. d[Broadcast] <= heard'[Broadcast]
      BY <1>0, <2>2, <2>3, Addresses DEF Heard, DevicesAreHeard
    <3> QED BY <3>1, <3>2, <3>3
  <2>7. devices' = d \/ (devices' = [d EXCEPT ![f.dst] = 0] /\ d[f.dst] = NoEntry)
    BY <2>1 DEF ProcFrame, RecvOther, Token, PollMaster, PollMasterAck, Looked,
       Heard
  <2>8. CASE devices' = d
    BY <2>5, <2>6, <2>8 DEF DevicesAreHeard
  <2>9. CASE devices' = [d EXCEPT ![f.dst] = 0] /\ d[f.dst] = NoEntry
    <3>1. f.dst = Broadcast
      BY <2>2, <2>5, <2>6, <2>9 DEF NoEntry, Age
    <3>2. devices'[Broadcast] = 0
      BY <2>6, <2>9, <3>1, Addresses
    <3>3. heard'[Broadcast] >= 0
      BY <2>5, Addresses DEF Age
    <3>4. \A s \in Station \ {Broadcast} : devices'[s] = heard'[s]
      BY <2>6, <2>9, <3>1
    <3> QED BY <2>5, <3>2, <3>3, <3>4 DEF DevicesAreHeard
  <2> QED BY <2>7, <2>8, <2>9
<1>3. CASE UNCHANGED <<devices, heard>>
  BY <1>0, <1>3 DEF DevicesAreHeard
<1>4. Own => UNCHANGED devices
  BY DEF Own, Refill, RecvNothing, PollDevice, PollNotDue, Request, NoRequest
<1> QED BY <1>1, <1>2, <1>3, <1>4 DEF MonNext, monVars, monitor, vars

LEMMA NextHoldIsGrant == MonInv /\ [MonNext]_monVars => HoldIsGrant'
<1> SUFFICES ASSUME MonInv, [MonNext]_monVars PROVE HoldIsGrant'
  OBVIOUS
<1>0. TypeOK /\ DevicesAreHeard /\ HoldIsGrant
  BY DEF MonInv
<1>1. CASE UNCHANGED <<tokenhold, granted>>
  BY <1>0, <1>1 DEF HoldIsGrant
<1>2. CASE \E f \in Incoming : ProcFrame(f) /\ NoteFrame(f)
  <2>1. PICK f \in Incoming : ProcFrame(f) /\ NoteFrame(f)
    BY <1>2
  <2>2. granted' = IF MeantForNode(f) /\ f.type \in {0, 1} THEN f.type = 0
                   ELSE granted
    BY <2>1 DEF NoteFrame
  <2>3. Addressed(f) <=> MeantForNode(f)
    BY <1>0, AddressedIsMeant
  <2>4. CASE Token(f)
    <3>1. tokenhold' = 1 /\ granted' = TRUE
      BY <2>2, <2>3, <2>4 DEF Token
    <3> QED BY <3>1 DEF HoldIsGrant
  <2>5. CASE PollMaster(f)
    <3>1. tokenhold' = 0 /\ f.type # 0 /\ f.type \in {0, 1} /\ Addressed(f)
      BY <2>5 DEF PollMaster
    <3>2. granted' = (f.type = 0)
      BY <2>2, <2>3, <3>1, Zenon
    <3>3. granted' = FALSE
      BY <3>1, <3>2, Zenon
    <3> QED BY <3>1, <3>3, Zenon DEF HoldIsGrant
  <2>6. CASE RecvOther(f) \/ PollMasterAck(f)
    <3>1. tokenhold' = tokenhold
      BY <2>6 DEF RecvOther, PollMasterAck
    <3>2. ~(MeantForNode(f) /\ f.type \in {0, 1})
      BY <2>3, <2>6 DEF RecvOther, PollMasterAck
    <3> QED BY <1>0, <2>2, <3>1, <3>2 DEF HoldIsGrant
  <2> QED BY <2>1, <2>4, <2>5, <2>6 DEF ProcFrame
<1>3. Tick \/ Own => UNCHANGED tokenhold
  BY DEF Tick, Own, Refill, RecvNothing, PollDevice, PollNotDue, Request,
     NoRequest
<1> QED BY <1>1, <1>2, <1>3 DEF MonNext, monVars, monitor, vars

-----------------------------------------------------------------------------
(* What DoRequest() sends is nothing, or a frame from this node.           *)
LEMMA DoRequestSends ==
  ASSUME DoRequest PROVE wire' = NoFrame \/ wire'.src = Master
<1>1. CASE instancelist = << >>
  BY <1>1 DEF DoRequest, NoSend
<1>2. CASE instancelist # << >>
  <2>1. wire' \in {RequestFrame(Head(instancelist)), NoFrame}
    BY <1>2 DEF DoRequest, SendCom
  <2> QED BY <2>1 DEF RequestFrame
<1> QED BY <1>1, <1>2

(* Every other send is that of a header of type 0, 1 or 2. *)
LEMMA HeaderSends ==
  ASSUME NEW t, NEW d, NEW s, SendCom(Header(t, d, s))
  PROVE  wire' = NoFrame \/ (wire'.type = t /\ wire'.src = s)
  BY DEF SendCom, Header

LEMMA NextWire ==
  ASSUME MonInv, MonNext, DevicesAreHeard', HoldIsGrant'
  PROVE  (NeverClaimsLiveStation /\ RequestNeedsToken)'
<1> USE DEF NeverClaimsLiveStation, RequestNeedsToken, IsRequest
<1>0. HoldIsGrant /\ NoFrame.type # 5
  BY DEF MonInv, NoFrame
<1>1. CASE wire' = NoFrame
  BY <1>0, <1>1
<1>2. CASE \E f \in Incoming : ProcFrame(f) /\ NoteFrame(f)
  <2>1. PICK f \in Incoming : ProcFrame(f)
    BY <1>2
  <2>2. CASE RecvOther(f)
    BY <1>1, <2>2 DEF RecvOther, NoSend
  <2>3. CASE Token(f)
    <3>1. DoRequest /\ tokenhold' = 1
      BY <2>3 DEF Token
    <3>2. granted'
      BY <3>1 DEF HoldIsGrant
    <3> QED BY <1>0, <3>1, <3>2, DoRequestSends
  <2>4. CASE PollMaster(f)
    <3>1. CASE f.dst = Master \/ Silent(Heard(devices, f.src), f.dst)
      <4>1. SendCom(Header(2, f.src, f.dst)) /\ devices' = Heard(devices, f.src)
        BY <2>4, <3>1 DEF PollMaster
      <4>2. wire' = NoFrame \/ (wire'.type = 2 /\ wire'.src = f.dst)
        BY <4>1, HeaderSends
      <4>3. f.dst = Master \/ heard'[f.dst] > DeviceGap
        <5>1. devices' \in [Station -> {NoEntry} \cup Age(DeviceGap + 1)]
          BY NextDevices, MonNextNext DEF MonInv, DevicesOK
        <5>2. heard'[f.dst] \in Int /\ devices'[f.dst] \in Int
              /\ devices'[f.dst] <= heard'[f.dst]
          BY <5>1, IncomingOK, Addresses DEF DevicesAreHeard, Age, NoEntry
        <5> QED BY <3>1, <4>1, <5>2, Addresses DEF Silent
      <4> QED BY <1>1, <4>2, <4>3
    <3>2. CASE ~(f.dst = Master \/ Silent(Heard(devices, f.src), f.dst))
      BY <1>1, <2>4, <3>2 DEF PollMaster, NoSend
    <3> QED BY <3>1, <3>2
  <2>5. CASE PollMasterAck(f)
    <3>1. wire' = NoFrame \/ (wire'.type = 0 /\ wire'.src = Master)
      BY <2>5, HeaderSends DEF PollMasterAck
    <3> QED BY <1>1, <3>1
  <2> QED BY <2>1, <2>2, <2>3, <2>4, <2>5 DEF ProcFrame
<1>3. CASE PollDevice
  <2>1. wire' = NoFrame \/ (wire'.type = 1 /\ wire'.src = Master)
    BY <1>3, HeaderSends DEF PollDevice
  <2> QED BY <1>1, <2>1
<1>4. CASE Request
  <2>1. DoRequest /\ tokenhold' = tokenhold /\ tokenhold # 0
    BY <1>4 DEF Request, RequestDue
  <2>2. granted'
    BY <2>1 DEF HoldIsGrant
  <2> QED BY <1>0, <2>1, <2>2, DoRequestSends
<1>5. CASE Tick \/ Refill \/ RecvNothing \/ PollNotDue \/ NoRequest
  BY <1>1, <1>5 DEF Tick, Refill, RecvNothing, PollNotDue, NoRequest, NoSend
<1> QED BY <1>2, <1>3, <1>4, <1>5 DEF MonNext, Own

LEMMA NextMonInv == MonInv /\ [MonNext]_monVars => MonInv'
<1> SUFFICES ASSUME MonInv, [MonNext]_monVars PROVE MonInv'
  OBVIOUS
<1>1. TypeOK'
  BY NextTypeOK, MonNextNext DEF MonInv
<1>2. DevicesAreHeard' /\ HoldIsGrant'
  BY NextDevicesAreHeard, NextHoldIsGrant
<1>3. CASE MonNext
  BY <1>1, <1>2, <1>3, NextWire DEF MonInv
<1>4. CASE UNCHANGED monVars
  <2>1. UNCHANGED <<wire, heard, granted>>
    BY <1>4 DEF monVars, vars, monitor
  <2>2. (NeverClaimsLiveStation /\ RequestNeedsToken)'
    BY <2>1 DEF MonInv, NeverClaimsLiveStation, RequestNeedsToken, IsRequest
  <2> QED BY <1>1, <1>2, <2>2 DEF MonInv
<1> QED BY <1>3, <1>4

(* The invariant holds of every behaviour. *)
THEOREM MonInvariance == MonSpec => []MonInv
  BY InitMonInv, NextMonInv, PTL DEF MonSpec

(* The node never sends in the name of a station that the line has carried *)
(* a frame of within the last 10 s.                                        *)
THEOREM NeverClaimsLiveStationCorrect == MonSpec => []NeverClaimsLiveStation
<1>1. MonInv => NeverClaimsLiveStation  BY DEF MonInv
<1> QED BY <1>1, MonInvariance, PTL

(* A request goes out only between a token for this node and the next poll *)
(* for it.                                                                 *)
THEOREM RequestNeedsTokenCorrect == MonSpec => []RequestNeedsToken
<1>1. MonInv => RequestNeedsToken  BY DEF MonInv
<1> QED BY <1>1, MonInvariance, PTL

-----------------------------------------------------------------------------
(* The node's requests, as the observer sees them, are those of a          *)
(* Requester: one lemma for each way a step can send something.            *)
LEMMA SeenNothing == RequestSeen(NoFrame) = NoFrame
  BY DEF RequestSeen, IsRequest, NoFrame

(* The frame of an entry is seen as what the entry stands for.             *)
LEMMA SeenListed ==
  ASSUME NEW i
  PROVE  /\ RequestSeen(RequestFrame(i)) = Listed(i)
         /\ ~IsRequest(RequestFrame(i)) => Listed(i) = NoFrame
  BY DEF RequestFrame, RequestSeen, Listed, IsRequest, NoFrame

LEMMA SeenTail ==
  ASSUME NEW S, NEW s \in Seq(S), s # << >>
  PROVE  /\ Seen(s) # << >>
         /\ Head(Seen(s)) = Listed(Head(s))
         /\ Tail(Seen(s)) = Seen(Tail(s))
<1>1. /\ Len(s) \in Nat /\ Len(s) # 0 /\ Head(s) = s[1]
      /\ Tail(s) \in Seq(S) /\ Len(Tail(s)) = Len(s) - 1
      /\ \A k \in 1 .. Len(Tail(s)) : Tail(s)[k] = s[k + 1]
  OBVIOUS
<1>2. PICK T : \A k \in 1 .. Len(s) : Listed(s[k]) \in T
  <2>1. \A k \in 1 .. Len(s) : Listed(s[k]) \in {Listed(s[m]) : m \in 1 .. Len(s)}
    OBVIOUS
  <2> QED BY <2>1
<1> DEFINE n == Len(s)
           g == [k \in 1 .. n |-> Listed(s[k])]
<1>3. g \in Seq(T) /\ Len(g) = n
  BY <1>1, <1>2
<1>4. g = Seen(s)
  BY DEF Seen
<1>5. g # << >> /\ Head(g) = g[1] /\ g[1] = Listed(s[1])
  BY <1>1, <1>3
<1>6. /\ Tail(g) \in Seq(T) /\ Len(Tail(g)) = n - 1
      /\ \A k \in 1 .. n - 1 : Tail(g)[k] = g[k + 1]
  <2> HIDE DEF g
  <2> QED BY <1>1, <1>3
<1>7. \A k \in 1 .. n - 1 : g[k + 1] = Listed(Tail(s)[k])
  BY <1>1
<1>8. Tail(g) = [k \in 1 .. n - 1 |-> Listed(Tail(s)[k])]
  <2>1. PICK u : u = Tail(g)
    OBVIOUS
  <2>2. /\ u \in Seq(T) /\ Len(u) = n - 1
        /\ \A k \in 1 .. n - 1 : u[k] = Listed(Tail(s)[k])
    <3> HIDE DEF g
    <3> QED BY <1>6, <1>7, <2>1
  <2>3. DOMAIN u = 1 .. n - 1
    BY <2>2
  <2>4. u = [k \in DOMAIN u |-> u[k]]
    BY <2>2
  <2> HIDE DEF g
  <2>5. u = [k \in 1 .. n - 1 |-> Listed(Tail(s)[k])]
    BY <2>2, <2>3, <2>4
  <2> QED BY <2>1, <2>5
<1> HIDE DEF g
<1> QED BY <1>1, <1>4, <1>5, <1>8 DEF Seen

LEMMA HeadOfList ==
  ASSUME NEW S, NEW s \in Seq(S), s # << >>
  PROVE  Head(s) \in S
<1>1. Len(s) \in Nat /\ Len(s) # 0
  OBVIOUS
<1>2. s[1] \in S
  BY <1>1
<1> QED BY <1>2

LEMMA DoRequestAsks ==
  ASSUME TypeOK, DoRequest
  PROVE  R!Ask \/ R!Quiet
<1>1. CASE instancelist = << >>
  BY <1>1, SeenNothing DEF DoRequest, NoSend, R!Quiet, RequestSeen, Seen
<1>2. CASE instancelist # << >>
  <2> DEFINE i == Head(instancelist)
  <2>1. /\ Seen(instancelist) # << >>
        /\ Head(Seen(instancelist)) = Listed(i)
        /\ Tail(Seen(instancelist)) = Seen(Tail(instancelist))
    <3>1. instancelist \in Seq(Instance)
      BY DEF TypeOK
    <3> QED BY <1>2, <3>1, SeenTail
  <2>2. wire' \in {RequestFrame(i), NoFrame} /\ instancelist' = Tail(instancelist)
    BY <1>2 DEF DoRequest, SendCom
  <2>3. RequestSeen(wire') \in {Listed(i), NoFrame}
    BY <2>2, SeenListed, SeenNothing
  <2>4. RequestSeen(wire)' = RequestSeen(wire')
    BY DEF RequestSeen, IsRequest
  <2>5. Seen(instancelist)' = Seen(Tail(instancelist))
    BY <2>2 DEF Seen
  <2> HIDE DEF i
  <2> QED BY <2>1, <2>3, <2>4, <2>5 DEF R!Ask
<1> QED BY <1>1, <1>2

LEMMA HeaderIsQuiet ==
  ASSUME NEW t \in {0, 1, 2}, NEW d, NEW s, SendCom(Header(t, d, s)),
         UNCHANGED instancelist
  PROVE  R!Quiet
<1>1. wire' = NoFrame \/ wire'.type = t
  BY HeaderSends
<1>2. RequestSeen(wire)' = NoFrame
  BY <1>1, SeenNothing DEF RequestSeen, IsRequest
<1> QED BY <1>2 DEF R!Quiet, Seen

LEMMA SilenceIsQuiet ==
  ASSUME wire' = NoFrame, UNCHANGED instancelist
  PROVE  R!Quiet
  BY SeenNothing DEF R!Quiet, RequestSeen, IsRequest, Seen

(* Whatever a received frame does besides, it asks or it is quiet; and it  *)
(* asks only as a grant.                                                   *)
LEMMA FrameRefines ==
  ASSUME MonInv, HoldIsGrant', NEW f \in Incoming, ProcFrame(f), NoteFrame(f)
  PROVE  R!Next
<1>0. TypeOK /\ HoldIsGrant /\ HoldIsGrant'
  BY DEF MonInv
<1>1. CASE Token(f)
  <2>1. DoRequest /\ tokenhold' = 1
    BY <1>1 DEF Token
  <2>2. granted' = TRUE
    BY <1>0, <2>1 DEF HoldIsGrant
  <2> QED BY <1>0, <2>1, <2>2, DoRequestAsks DEF R!Next, R!Granted
<1>2. CASE PollMaster(f)
  <2>1. R!Quiet
    <3>1. wire' = NoFrame \/ SendCom(Header(2, f.src, f.dst))
      BY <1>2 DEF PollMaster, NoSend
    <3>2. UNCHANGED instancelist
      BY <1>2 DEF PollMaster
    <3> QED BY <3>1, <3>2, HeaderIsQuiet, SilenceIsQuiet
  <2>2. granted' = FALSE
    BY <1>0, <1>2 DEF PollMaster, HoldIsGrant
  <2> QED BY <2>1, <2>2 DEF R!Next, R!Revoked
<1>3. CASE RecvOther(f) \/ PollMasterAck(f)
  <2>1. R!Quiet
    <3>1. wire' = NoFrame \/ SendCom(Header(0, Target, Master))
      BY <1>3 DEF RecvOther, PollMasterAck, NoSend
    <3>2. UNCHANGED instancelist
      BY <1>3 DEF RecvOther, PollMasterAck
    <3> QED BY <3>1, <3>2, HeaderIsQuiet, SilenceIsQuiet
  <2>2. UNCHANGED granted
    <3>1. tokenhold' = tokenhold
      BY <1>3 DEF RecvOther, PollMasterAck
    <3>2. granted \in BOOLEAN /\ granted' \in BOOLEAN /\ (granted <=> granted')
      BY <1>0, <3>1 DEF HoldIsGrant
    <3> QED BY <3>2, Zenon
  <2> QED BY <2>1, <2>2 DEF R!Next
<1> QED BY <1>1, <1>2, <1>3 DEF ProcFrame

LEMMA StepRefines ==
  MonInv /\ HoldIsGrant' /\ [MonNext]_monVars => [R!Next]_(R!reqVars)
<1> SUFFICES ASSUME MonInv, HoldIsGrant', [MonNext]_monVars
             PROVE  [R!Next]_(R!reqVars)
  OBVIOUS
<1>0. TypeOK /\ HoldIsGrant
  BY DEF MonInv
<1>1. CASE \E f \in Incoming : ProcFrame(f) /\ NoteFrame(f)
  BY <1>1, FrameRefines
<1>2. CASE Tick /\ UNCHANGED granted
  <2>1. R!Quiet
    BY <1>2, SilenceIsQuiet DEF Tick
  <2> QED BY <1>2, <2>1 DEF R!Next
<1>3. CASE Own /\ UNCHANGED granted
  <2>1. CASE RecvNothing \/ PollNotDue \/ NoRequest
    <3>1. R!Quiet
      BY <2>1, SilenceIsQuiet DEF RecvNothing, PollNotDue, NoRequest, NoSend
    <3> QED BY <1>3, <3>1 DEF R!Next
  <2>2. CASE PollDevice
    <3>1. R!Quiet
      BY <2>2, HeaderIsQuiet DEF PollDevice
    <3> QED BY <1>3, <3>1 DEF R!Next
  <2>3. CASE Request
    <3>1. DoRequest /\ tokenhold # 0
      BY <2>3 DEF Request, RequestDue
    <3>2. granted
      BY <1>0, <3>1 DEF HoldIsGrant
    <3> QED BY <1>0, <1>3, <3>1, <3>2, DoRequestAsks DEF R!Next, R!AskOn
  <2>4. CASE Refill
    <3>1. /\ wire' = NoFrame
          /\ instancelist' = IF instancelist = << >> THEN Batch ELSE instancelist
      BY <2>4 DEF Refill
    <3>2. CASE instancelist = << >>
      <4>1. RequestSeen(wire)' = NoFrame
        BY <3>1, SeenNothing DEF RequestSeen, IsRequest
      <4>2. Seen(instancelist) = << >> /\ Seen(instancelist)' = Seen(Batch)
        BY <3>1, <3>2 DEF Seen
      <4> QED BY <1>3, <4>1, <4>2 DEF R!Next, R!NewRound
    <3>3. CASE instancelist # << >>
      <4>1. R!Quiet
        BY <3>1, <3>3, SilenceIsQuiet
      <4> QED BY <1>3, <4>1 DEF R!Next
    <3> QED BY <3>2, <3>3
  <2> QED BY <1>3, <2>1, <2>2, <2>3, <2>4 DEF Own
<1>4. CASE UNCHANGED monVars
  <2>1. UNCHANGED <<granted, instancelist, wire>>
    BY <1>4 DEF monVars, vars, monitor
  <2>2. RequestSeen(wire)' = RequestSeen(wire)
    BY <2>1 DEF RequestSeen, IsRequest
  <2>3. Seen(instancelist)' = Seen(instancelist)
    BY <2>1 DEF Seen
  <2> QED BY <2>1, <2>2, <2>3 DEF R!reqVars
<1> QED BY <1>1, <1>2, <1>3, <1>4 DEF MonNext

(* The observed node implements the Requester.                             *)
THEOREM ImplementsRequesterCorrect == MonSpec => ImplementsRequester
<1>1. MonInit => R!Init
  BY SeenNothing DEF MonInit, Init, R!Init, RequestSeen, IsRequest, Seen
<1>2. MonInv => HoldIsGrant
  BY DEF MonInv
<1> QED BY <1>1, <1>2, MonInvariance, StepRefines, PTL
    DEF MonSpec, ImplementsRequester, R!Spec

-----------------------------------------------------------------------------
(* What a round has asked and what it still has to ask, entry by entry:    *)
(* the entries of a list that look like r on the line.                     *)
Alike(list, r) == {k \in DOMAIN list : Listed(list[k]) = r}

CountedOK ==
  /\ asked \in [Requests -> Nat]
  /\ \A k \in DOMAIN instancelist : Listed(instancelist[k]) \in Requests

Counted == CountedOK /\ AskedAsListed

LEMMA AlikeFinite ==
  ASSUME NEW S, NEW s \in Seq(S), NEW r
  PROVE  /\ IsFiniteSet(Alike(s, r)) /\ Times(s, r) = Cardinality(Alike(s, r))
         /\ Times(s, r) \in Nat
<1>1. Len(s) \in Nat /\ DOMAIN s = 1 .. Len(s)
  OBVIOUS
<1>2. IsFiniteSet(1 .. Len(s))
  BY <1>1, FS_Interval
<1>3. IsFiniteSet(Alike(s, r))
  BY <1>1, <1>2, FS_Subset DEF Alike
<1>4. Times(s, r) = Cardinality(Alike(s, r))
  BY DEF Times, Alike
<1> QED BY <1>3, <1>4, FS_CardinalityType

(* The rest of a list has one entry less of its first request. *)
LEMMA TimesTail ==
  ASSUME NEW S, NEW s \in Seq(S), s # << >>, NEW r
  PROVE  Times(s, r) = Times(Tail(s), r) + (IF Listed(Head(s)) = r THEN 1 ELSE 0)
<1> DEFINE A == Alike(s, r)
           B == Alike(Tail(s), r)
           Shifted == {k \in A : k # 1}
           f == [k \in B |-> k + 1]
<1>1. /\ Len(s) \in Nat /\ Len(s) # 0 /\ Head(s) = s[1]
      /\ Tail(s) \in Seq(S) /\ Len(Tail(s)) = Len(s) - 1
      /\ \A k \in 1 .. Len(Tail(s)) : Tail(s)[k] = s[k + 1]
      /\ DOMAIN s = 1 .. Len(s) /\ DOMAIN Tail(s) = 1 .. Len(Tail(s))
  OBVIOUS
<1>2. /\ IsFiniteSet(A) /\ Times(s, r) = Cardinality(A)
      /\ IsFiniteSet(B) /\ Times(Tail(s), r) = Cardinality(B)
      /\ Cardinality(B) \in Nat
  BY <1>1, AlikeFinite
<1>3. \A k \in B : k \in Nat /\ k + 1 \in Shifted
  BY <1>1 DEF Alike
<1>4. \A m \in Shifted : m - 1 \in B /\ (m - 1) + 1 = m
  BY <1>1 DEF Alike
<1>5. f \in Bijection(B, Shifted)
  <2> HIDE DEF B, Shifted
  <2>1. f \in [B -> Shifted]
    BY <1>3
  <2>2. ASSUME NEW a \in B, NEW b \in B, f[a] = f[b] PROVE a = b
    BY <1>3, <2>2
  <2>3. \A m \in Shifted : \E k \in B : f[k] = m
    BY <1>4
  <2> HIDE DEF f
  <2> QED BY <2>1, <2>2, <2>3, Fun_IsBij
<1>6. IsFiniteSet(Shifted)
  <2> HIDE DEF A
  <2> QED BY <1>2, FS_Subset
<1>7. Cardinality(Shifted) = Cardinality(B)
  <2> HIDE DEF B, Shifted, f
  <2>1. ExistsBijection(B, Shifted)
    BY <1>5 DEF ExistsBijection
  <2> QED BY <1>2, <1>6, <2>1, FS_Bijection
<1>8. CASE Listed(Head(s)) = r
  <2>1. A = Shifted \cup {1} /\ 1 \notin Shifted
    BY <1>1, <1>8 DEF Alike
  <2>2. Cardinality(Shifted \cup {1}) = Cardinality(Shifted) + 1
    <3> HIDE DEF Shifted
    <3> QED BY <1>6, <2>1, FS_AddElement
  <2> HIDE DEF A, B, Shifted
  <2> QED BY <1>2, <1>7, <1>8, <2>1, <2>2
<1>9. CASE Listed(Head(s)) # r
  <2>1. A = Shifted
    BY <1>1, <1>9 DEF Alike
  <2> HIDE DEF A, B, Shifted
  <2> QED BY <1>2, <1>7, <1>9, <2>1
<1> QED BY <1>8, <1>9

(* DoRequest() takes from the list what it puts on the line. *)
LEMMA DoRequestCounted ==
  ASSUME TypeOK, Counted, DoRequest, NEW n, NoteSent(asked, n)
  PROVE  Counted'
<1>0. instancelist \in Seq(Instance) /\ CountedOK /\ Batch \in Seq(Instance)
  BY NodeAssumption DEF TypeOK, Counted
<1>1. CASE instancelist = << >>
  <2>1. wire' = NoFrame /\ UNCHANGED instancelist
    BY <1>1 DEF DoRequest, NoSend
  <2>2. asked' = asked
    BY <2>1 DEF NoteSent, IsRequest, NoFrame
  <2> QED BY <2>1, <2>2 DEF Counted, CountedOK, AskedAsListed, Times
<1>2. CASE instancelist # << >>
  <2>1. PICK r : r = Listed(Head(instancelist))
    OBVIOUS
  <2>2. /\ instancelist' = Tail(instancelist)
        /\ wire' \in {RequestFrame(Head(instancelist)), NoFrame}
    BY <1>2 DEF DoRequest, SendCom
  <2>3. PICK rest : rest = Tail(instancelist)
    OBVIOUS
  <2>4. /\ rest \in Seq(Instance) /\ Head(instancelist) = instancelist[1]
        /\ 1 \in DOMAIN instancelist
        /\ \A k \in DOMAIN rest : k + 1 \in DOMAIN instancelist
                                  /\ rest[k] = instancelist[k + 1]
    <3>1. /\ Len(instancelist) \in Nat /\ Len(instancelist) # 0
          /\ Head(instancelist) = instancelist[1]
          /\ DOMAIN instancelist = 1 .. Len(instancelist)
      BY <1>0, <1>2
    <3>2. /\ rest \in Seq(Instance) /\ Len(rest) = Len(instancelist) - 1
          /\ DOMAIN rest = 1 .. Len(rest)
          /\ \A k \in 1 .. Len(rest) : rest[k] = instancelist[k + 1]
      BY <1>0, <1>2, <2>3
    <3> QED BY <3>1, <3>2
  <2>5. r \in Requests
    BY <1>0, <2>1, <2>4 DEF CountedOK
  <2>6. asked' = asked \/ asked' = [asked EXCEPT ![r] = @ + 1]
    <3>1. CASE IsRequest(wire')
      <4>1. wire' = RequestFrame(Head(instancelist))
        BY <2>2, <3>1 DEF IsRequest, NoFrame
      <4>2. RequestSeen(wire') = r
        BY <2>1, <4>1, SeenListed
      <4>3. asked' = [asked EXCEPT ![RequestSeen(wire')] = @ + 1]
        BY <3>1 DEF NoteSent
      <4> QED BY <4>2, <4>3
    <3>2. CASE ~IsRequest(wire')
      BY <3>2 DEF NoteSent
    <3> QED BY <3>1, <3>2
  <2>7. /\ asked \in [Requests -> Nat] /\ asked' \in [Requests -> Nat]
        /\ \A q \in Requests : asked'[q] <= asked[q] + (IF r = q THEN 1 ELSE 0)
    BY <1>0, <2>5, <2>6 DEF CountedOK
  <2>8. ASSUME NEW q \in Requests
        PROVE  asked'[q] + Times(rest, q) <= Times(Batch, q)
    <3>1. Times(instancelist, q) = Times(rest, q) + (IF r = q THEN 1 ELSE 0)
      BY <1>0, <1>2, <2>1, <2>3, TimesTail
    <3>2. asked[q] + Times(instancelist, q) <= Times(Batch, q)
      BY DEF Counted, AskedAsListed
    <3>3. Times(rest, q) \in Nat /\ Times(Batch, q) \in Nat
      BY <1>0, <2>4, AlikeFinite
    <3>4. /\ asked[q] \in Nat /\ asked'[q] \in Nat
          /\ asked'[q] <= asked[q] + (IF r = q THEN 1 ELSE 0)
      BY <2>7
    <3> QED BY <3>1, <3>2, <3>3, <3>4
  <2>9. \A k \in DOMAIN rest : Listed(rest[k]) \in Requests
    BY <1>0, <2>4 DEF CountedOK
  <2>10. instancelist' = rest
    BY <2>2, <2>3
  <2> QED BY <2>7, <2>8, <2>9, <2>10 DEF Counted, CountedOK, AskedAsListed, Times
<1> QED BY <1>1, <1>2

LEMMA QuietCounted ==
  ASSUME Counted, UNCHANGED instancelist, asked' = asked
  PROVE  Counted'
  BY DEF Counted, CountedOK, AskedAsListed, Times

(* A new round starts with nothing asked and the whole batch to come. *)
LEMMA RoundCounted ==
  /\ \A r \in Requests : NoneAsked[r] + Times(Batch, r) <= Times(Batch, r)
  /\ \A r \in Requests : NoneAsked[r] + Times(<< >>, r) <= Times(Batch, r)
  /\ NoneAsked \in [Requests -> Nat]
  /\ \A k \in DOMAIN Batch : Listed(Batch[k]) \in Requests
<1>1. ASSUME NEW r \in Requests PROVE Times(Batch, r) \in Nat /\ Times(<< >>, r) = 0
  <2>1. Batch \in Seq(Instance) /\ << >> \in Seq(Instance)
    BY NodeAssumption
  <2>2. Alike(<< >>, r) = {}
    BY DEF Alike
  <2> QED BY <2>1, <2>2, AlikeFinite, FS_EmptySet
<1>2. \A r \in Requests : NoneAsked[r] = 0
  BY DEF NoneAsked
<1>3. NoneAsked \in [Requests -> Nat]
  BY DEF NoneAsked
<1>4. \A k \in DOMAIN Batch : Listed(Batch[k]) \in Requests
  BY DEF Requests
<1> QED BY <1>1, <1>2, <1>3, <1>4

LEMMA NotRequest ==
  ASSUME NEW t \in {0, 1, 2}, NEW d, NEW s,
         wire' = NoFrame \/ SendCom(Header(t, d, s))
  PROVE  ~IsRequest(wire')
  BY HeaderSends DEF IsRequest, NoFrame

LEMMA NextCounted ==
  ASSUME TypeOK, Counted, [MonNext]_monVars
  PROVE  Counted'
<1>1. ASSUME NEW f \in Incoming, ProcFrame(f), NoteFrame(f)
      PROVE  Counted'
  <2>1. PICK n : NoteSent(asked, n)
    BY <1>1 DEF NoteFrame
  <2>2. CASE Token(f)
    <3>1. DoRequest
      BY <2>2 DEF Token
    <3> QED BY <2>1, <3>1, DoRequestCounted
  <2>3. CASE RecvOther(f) \/ PollMaster(f) \/ PollMasterAck(f)
    <3>1. UNCHANGED instancelist
      BY <2>3 DEF RecvOther, PollMaster, PollMasterAck
    <3>2. \/ wire' = NoFrame
          \/ SendCom(Header(2, f.src, f.dst))
          \/ SendCom(Header(0, Target, Master))
      BY <2>3 DEF RecvOther, PollMaster, PollMasterAck, NoSend
    <3>3. ~IsRequest(wire')
      BY <3>2, NotRequest
    <3> QED BY <2>1, <3>1, <3>3, QuietCounted DEF NoteSent
  <2> QED BY <1>1, <2>2, <2>3 DEF ProcFrame
<1>2. CASE Tick /\ UNCHANGED asked
  BY <1>2, QuietCounted DEF Tick
<1>3. ASSUME Own,
             NoteSent(IF pc = "main" /\ instancelist = << >> THEN NoneAsked ELSE asked, infos)
      PROVE  Counted'
  <2>1. CASE RecvNothing \/ PollDevice \/ PollNotDue \/ NoRequest
    <3>1. UNCHANGED instancelist /\ pc # "main"
      BY <2>1 DEF RecvNothing, PollDevice, PollNotDue, NoRequest
    <3>2. wire' = NoFrame \/ SendCom(Header(1, Target, Master))
      BY <2>1 DEF RecvNothing, PollDevice, PollNotDue, NoRequest, NoSend
    <3>3. ~IsRequest(wire')
      BY <3>2, NotRequest
    <3>4. asked' = asked
      BY <1>3, <3>1, <3>3 DEF NoteSent
    <3> QED BY <3>1, <3>4, QuietCounted
  <2>2. CASE Request
    <3>1. DoRequest /\ pc # "main"
      BY <2>2 DEF Request
    <3>2. NoteSent(asked, infos)
      BY <1>3, <3>1
    <3> QED BY <3>1, <3>2, DoRequestCounted
  <2>3. CASE Refill
    <3>1. ~IsRequest(wire')
      BY <2>3 DEF Refill, IsRequest, NoFrame
    <3>2. CASE instancelist = << >>
      <4>1. instancelist' = Batch /\ asked' = NoneAsked
        BY <1>3, <2>3, <3>1, <3>2 DEF Refill, NoteSent
      <4> HIDE DEF NoneAsked
      <4> QED BY <4>1, RoundCounted DEF Counted, CountedOK, AskedAsListed, Times
    <3>3. CASE instancelist # << >>
      <4>1. UNCHANGED instancelist /\ asked' = asked
        BY <1>3, <2>3, <3>1, <3>3 DEF Refill, NoteSent
      <4> QED BY <4>1, QuietCounted
    <3> QED BY <3>2, <3>3
  <2> QED BY <1>3, <2>1, <2>2, <2>3 DEF Own
<1>4. CASE UNCHANGED monVars
  BY <1>4, QuietCounted DEF monVars, vars, monitor
<1> QED BY <1>1, <1>2, <1>3, <1>4 DEF MonNext

(* In a round no request goes out more often than the list asks for it,    *)
(* whichever of its two senders takes it, whatever writes fail, and though *)
(* different entries of the list may look alike on the line.               *)
THEOREM AskedAsListedCorrect == MonSpec => []AskedAsListed
<1>1. MonInit => Counted
  <2> SUFFICES ASSUME MonInit PROVE Counted
    OBVIOUS
  <2>1. asked = NoneAsked /\ instancelist = << >>
    BY DEF MonInit, Init
  <2>2. DOMAIN instancelist = {}
    BY <2>1
  <2> HIDE DEF NoneAsked
  <2> QED BY <2>1, <2>2, RoundCounted DEF Counted, CountedOK, AskedAsListed
<1>2. TypeOK /\ Counted /\ [MonNext]_monVars => Counted'
  BY NextCounted
<1>3. MonInv => TypeOK
  BY DEF MonInv
<1>4. Counted => AskedAsListed
  BY DEF Counted
<1> QED BY <1>1, <1>2, <1>3, <1>4, MonInvariance, PTL DEF MonSpec

=============================================================================
