------------------------------ MODULE RecvFrame ------------------------------
(***************************************************************************)
(* The receiver of mstp/recvframe.cpp with the bytes in its buffer, driven *)
(* by the loop of Bacnet::RecvCom (bacnet.cpp:92-108) and by a serial line *)
(* that carries transmissions: whole frames, noise, pieces of frames.      *)
(* Bytes arrive in order, one per iteration at most, with any pauses.      *)
(*                                                                         *)
(* The positions are those of RecvWindow.tla, which this module implements *)
(* (RecvWindowSpec).  The two CRCs are parameters.                         *)
(***************************************************************************)
EXTENDS Integers, Sequences

CONSTANTS
  Byte,            \* the values of an unsigned char, or those that can occur
  Size,            \* sizeof(buffer)
  FrameMaxLen,     \* the longest frame accepted
  OffBound,        \* bound of the model: as in RecvWindow
  MaxLulls,        \* bound of the model: silences of 500 ms in a behaviour
  CalcHeadCrc(_),  \* of the five header bytes from FrameType to FrameDataLenL
  CalcDataCrc(_),  \* of the data bytes
  Traffic,         \* the transmissions that the line may carry, again and again
  First,           \* what it may carry before them
  Master,          \* this node's address, written into frames sent on
  PollTargets      \* values of pollindex % 128

HeadLen == 8                          \* FrameNpdu

ASSUME LineAssumption ==
  /\ Byte \subseteq 0 .. 255 /\ {0, 1, 2} \subseteq Byte
  /\ Traffic \subseteq Seq(Byte) \ {<< >>} /\ First \subseteq Seq(Byte)
  /\ Master \in Byte /\ PollTargets \subseteq Byte
  /\ \A a, b, c, d, e \in Byte : CalcHeadCrc(<<a, b, c, d, e>>) \in Byte

ASSUME BufferAssumption ==
  /\ Size \in Nat /\ FrameMaxLen \in Nat /\ OffBound \in Nat
  /\ MaxLulls \in Nat /\ HeadLen <= FrameMaxLen
  /\ 1 <= Size \div 5 /\ 2 * (Size \div 5) + FrameMaxLen < Size

VARIABLES
  pc, off, idx, quiet, lull,  \* as in RecvWindow
  buf,       \* buffer
  cur, pos,  \* the transmission on the line, and how much of it has arrived
  lulls,     \* history: the silences of 500 ms so far, at most MaxLulls
  fresh,     \* history: the last iteration received a byte
  rx,        \* history: the bytes received since the last clear(), until one
             \* of them is dropped
  skipped    \* history: Check() advanced start since the last clear()

recvVars == <<pc, off, idx, quiet, lull>>
history == <<lulls, fresh, rx, skipped>>
vars == <<pc, off, idx, quiet, lull, buf, cur, pos, lulls, fresh, rx, skipped>>

RW == INSTANCE RecvWindow
Length == idx - off

TypeOK ==
  /\ RW!TypeOK
  /\ buf \in [0 .. Size - 1 -> Byte]
  /\ cur \in Traffic \/ cur \in First
  /\ pos \in 0 .. Len(cur)
  /\ lulls \in 0 .. MaxLulls
  /\ fresh \in BOOLEAN /\ skipped \in BOOLEAN
  /\ rx \in Seq(Byte)

Init ==
  /\ RW!Init
  /\ buf = [i \in 0 .. Size - 1 |-> 0]
  /\ cur \in First /\ pos = 0
  /\ lulls = 0 /\ fresh = FALSE /\ rx = << >> /\ skipped = FALSE

-----------------------------------------------------------------------------
(* What Check() looks at, in a window of at least a header.                *)
At(k) == buf[off + k]                               \* start[k]

GetFrameDataLen == At(5) * 256 + At(6)
GetFrameDataCrc == At(Length - 2) + At(Length - 1) * 256
FrameData == [k \in 1 .. Length - HeadLen - 2 |-> At(HeadLen + k - 1)]

HeadGood ==                                         \* CheckHead()
  /\ At(0) = 85 /\ At(1) = 255
  /\ CalcHeadCrc(<<At(2), At(3), At(4), At(5), At(6)>>) = At(7)
  /\ Length <= FrameMaxLen

DataComplete ==                                     \* CheckData(), by length
  IF Length = HeadLen THEN GetFrameDataLen = 0
  ELSE Length - HeadLen - 2 = GetFrameDataLen

(* GetFrameDataCrc() answers 0 for a frame without data. *)
DataGood ==                                         \* CheckData(), by content
  Length > HeadLen =>
    CalcDataCrc(FrameData) = IF GetFrameDataLen = 0 THEN 0 ELSE GetFrameDataCrc

Waiting == Length < HeadLen \/ (HeadGood /\ ~DataComplete)

-----------------------------------------------------------------------------
Elapse ==
  /\ ~quiet /\ lulls < MaxLulls
  /\ RW!Elapse /\ lulls' = lulls + 1
  /\ UNCHANGED <<buf, cur, pos, fresh, rx, skipped>>

NoByte ==
  /\ RW!NoByte /\ fresh' = FALSE
  /\ UNCHANGED <<buf, cur, pos, lulls, rx, skipped>>

(* push(c) stores c at start[index], after moving a drifted window back to *)
(* the beginning of the buffer.                                            *)
Stored_AtIndex(c) ==             \* mutant: start ignored, buffer[index - 1]
  IF Size - idx < 1 THEN buf
  ELSE [buf EXCEPT ![IF idx > 0 THEN idx - 1 ELSE 0] = c]
Stored(c) ==
  IF Size - idx < 1 THEN buf
  ELSE IF off <= Size \div 5
         THEN IF off + idx < Size THEN [buf EXCEPT ![off + idx] = c] ELSE buf
  ELSE IF Length < 1 THEN buf
  ELSE [i \in 0 .. Size - 1 |->
          IF i = Length - 1 THEN c
          ELSE IF i < Length THEN buf[off + i] ELSE buf[i]]

(* The next byte on the line arrives: of the transmission under way, or    *)
(* the first byte of a new one.                                            *)
Arrivals ==
  IF pos < Len(cur) THEN {<<cur, pos + 1>>} ELSE {<<t, 1>> : t \in Traffic}

Push ==
  /\ RW!Push
  /\ \E a \in Arrivals :
       /\ cur' = a[1] /\ pos' = a[2]
       /\ buf' = Stored(a[1][a[2]])
       /\ rx' = IF skipped THEN rx ELSE Append(rx, a[1][a[2]])
  /\ fresh' = TRUE
  /\ UNCHANGED <<lulls, skipped>>

-----------------------------------------------------------------------------
CheckAccept_Early ==             \* mutant: the data length is not compared
  /\ RW!CheckAccept /\ HeadGood
  /\ UNCHANGED <<buf, cur, pos>> /\ UNCHANGED history
CheckAccept ==
  /\ pc = "check" /\ Length >= HeadLen
  /\ HeadGood /\ DataComplete /\ DataGood
  /\ pc' = "accepted" /\ UNCHANGED <<off, idx, quiet, lull>>
  /\ UNCHANGED <<buf, cur, pos>> /\ UNCHANGED history

(* A byte is dropped: rx has served its purpose. *)
Dropped == skipped' = TRUE /\ rx' = << >> /\ UNCHANGED <<buf, cur, pos, lulls, fresh>>

ContentSkip_Premature ==         \* mutant: an incomplete frame is bad data
  /\ pc = "check" /\ Length >= HeadLen
  /\ ~HeadGood \/ ~DataComplete \/ ~DataGood
  /\ pc' = "recv" /\ off' = off + 1 /\ quiet' = FALSE
  /\ UNCHANGED <<idx, lull>> /\ Dropped
ContentSkip ==
  /\ pc = "check" /\ Length >= HeadLen
  /\ ~HeadGood \/ (DataComplete /\ ~DataGood)
  /\ pc' = "recv" /\ off' = off + 1 /\ quiet' = FALSE
  /\ UNCHANGED <<idx, lull>> /\ Dropped

TimedSkip_Eager ==               \* mutant: the 500 ms are not waited for
  /\ pc = "check" /\ Waiting
  /\ pc' = "recv" /\ off' = off + 1 /\ quiet' = FALSE
  /\ lull' = (lull \/ Length < HeadLen)
  /\ UNCHANGED idx /\ Dropped
TimedSkip ==
  /\ pc = "check" /\ Waiting /\ quiet
  /\ pc' = "recv" /\ off' = off + 1 /\ quiet' = FALSE
  /\ lull' = (lull \/ Length < HeadLen)
  /\ UNCHANGED idx /\ Dropped

CheckWait ==
  /\ pc = "check" /\ Waiting /\ ~quiet
  /\ pc' = "recv" /\ UNCHANGED <<off, idx, quiet, lull>>
  /\ UNCHANGED <<buf, cur, pos>> /\ UNCHANGED history

-----------------------------------------------------------------------------
(* ProcFrame() may rewrite the accepted header in place before clear():    *)
(* PollMaster() turns a poll into its answer, PollMasterAck() an answer    *)
(* into a token for the next poll target; other frames stay as they are.   *)
HeadersAfter(type, dst, src) ==
  {<<type, dst, src>>}
    \cup (IF type = 1 THEN {<<2, src, dst>>} ELSE {})
    \cup (IF type = 2 THEN {<<0, p, Master>> : p \in PollTargets} ELSE {})

Rewritten(h) ==
  [buf EXCEPT ![off + 2] = h[1], ![off + 3] = h[2], ![off + 4] = h[3],
              ![off + 7] = CalcHeadCrc(<<h[1], h[2], h[3], At(5), At(6)>>)]

Clear_KeepIndex ==               \* mutant: start is reset, index is not
  /\ pc = "accepted"
  /\ pc' = "recv" /\ off' = 0 /\ lull' = FALSE /\ UNCHANGED <<idx, quiet>>
  /\ \E h \in HeadersAfter(At(2), At(3), At(4)) : buf' = Rewritten(h)
  /\ fresh' = FALSE /\ rx' = << >> /\ skipped' = FALSE
  /\ UNCHANGED <<cur, pos, lulls>>
Clear ==
  /\ RW!Clear
  /\ \E h \in HeadersAfter(At(2), At(3), At(4)) : buf' = Rewritten(h)
  /\ fresh' = FALSE /\ rx' = << >> /\ skipped' = FALSE
  /\ UNCHANGED <<cur, pos, lulls>>

Check == CheckAccept \/ ContentSkip \/ TimedSkip \/ CheckWait

Next == Elapse \/ NoByte \/ Push \/ Check \/ Clear

Spec == Init /\ [][Next]_vars

(* The loop runs forever (test/bacnet.cpp:29) and the line keeps carrying  *)
(* transmissions: of the iterations, infinitely many receive a byte.       *)
FairSpec == Spec /\ SF_vars(Push) /\ WF_vars(Check) /\ WF_vars(Clear)

-----------------------------------------------------------------------------
(* A frame written down independently of the receiver, from the layout in  *)
(* recvframe.h:6-19: preamble, header, header CRC, data, data CRC.         *)
FrameOf(type, dst, src, data) ==
  LET head == <<type, dst, src, Len(data) \div 256, Len(data) % 256>>
      crc == CalcDataCrc(data)
  IN  <<85, 255>> \o head \o <<CalcHeadCrc(head)>>
        \o IF data = << >> THEN << >> ELSE data \o <<crc % 256, crc \div 256>>

WholeFrame(s) ==
  /\ HeadLen <= Len(s) /\ Len(s) <= FrameMaxLen
  /\ s = FrameOf(s[3], s[4], s[5], SubSeq(s, HeadLen + 1, Len(s) - 2))

(* As long as nothing has been dropped, what Check() sees is exactly what  *)
(* was received since the last clear(), whatever older frames and the      *)
(* rewriting of their headers have left in the buffer.                     *)
WindowIsStream ==
  ~skipped => /\ off = 0 /\ idx = Len(rx)
              /\ \A i \in 1 .. Len(rx) : buf[i - 1] = rx[i]

(* As long as nothing has been dropped, a frame is accepted the moment its *)
(* last byte is in, and nothing else is: neither a part of a frame, nor a  *)
(* frame with bytes behind it.                                             *)
AcceptExactly ==
  ~skipped => /\ pc = "accepted" => WholeFrame(rx)
              /\ pc = "recv" => ~WholeFrame(rx)

(* A frame whose last byte has just been received is accepted in the same  *)
(* iteration: not if the line carries anything but frames, or falls silent *)
(* for 500 ms (the bounds of the run exclude both).                        *)
FrameDelivered ==
  pc = "recv" /\ fresh /\ pos = Len(cur) => ~WholeFrame(cur)

(* On a line that keeps carrying frames the receiver never stops accepting *)
(* frames: skipping bytes (recvframe.cpp:113-126) is there to find them.   *)
KeepsAccepting == []<>(pc = "accepted")

(* The receiver keeps its positions as RecvWindow describes. *)
RecvWindowSpec == RW!Spec

=============================================================================
