----------------------------- MODULE Bus_proof -----------------------------
(***************************************************************************)
(* The types of the bus and the number of its open exchanges, for any two  *)
(* addresses, any requests and timer lengths, and any number of losses and *)
(* restarts.                                                               *)
(***************************************************************************)
EXTENDS Bus, FiniteSetTheorems, TLAPS

(* The lemmas about a node, to which the other one is its bus.             *)
AP == INSTANCE Bacnet_proof WITH
       Master <- MasterA, RecvGap <- RecvGapA,
       Incoming <- Frames, WriteMayFail <- FALSE, Preempted <- FALSE,
       pc <- pcA, tokenhold <- holdA, pollindex <- indexA, invokeid <- idA,
       instancelist <- listA, devices <- devicesA, tokentime <- tokenA,
       recvtime <- recvA, sendtime <- sendA, wire <- sent

BP == INSTANCE Bacnet_proof WITH
       Master <- MasterB, RecvGap <- RecvGapB,
       Incoming <- Frames, WriteMayFail <- FALSE, Preempted <- FALSE,
       pc <- pcB, tokenhold <- holdB, pollindex <- indexB, invokeid <- idB,
       instancelist <- listB, devices <- devicesB, tokentime <- tokenB,
       recvtime <- recvB, sendtime <- sendB, wire <- sent

LEMMA SameFrames ==
  AP!Sendable = Frames /\ BP!Sendable = Frames /\ B!Sendable = Frames
BY DEF AP!Sendable, BP!Sendable, A!Sendable, B!Sendable, Frames,
       AP!Properties, BP!Properties, A!Properties, B!Properties

LEMMA FrameFields ==
  ASSUME NEW f \in Frames
  PROVE  f.type \in 0 .. 7 /\ f.dst \in Station /\ f.src \in Station
BY DEF Frames, A!Sendable

LEMMA SameNothing ==
  AP!NoFrame = A!NoFrame /\ BP!NoFrame = A!NoFrame /\ B!NoFrame = A!NoFrame
BY DEF AP!NoFrame, BP!NoFrame, A!NoFrame, B!NoFrame

LEMMA SameInstance ==
  /\ AP!Instance = A!Instance /\ BP!Instance = A!Instance
  /\ B!Instance = A!Instance
BY DEF AP!Instance, BP!Instance, A!Instance, B!Instance

(* The frames of an entry of the list are the same in all of them.         *)
LEMMA SameRequests ==
  /\ \A i : A!Known(i) <=> AP!Known(i)
  /\ \A i : B!Known(i) <=> BP!Known(i)
  /\ \A i : A!Requested(i) = AP!Requested(i)
  /\ \A i : B!Requested(i) = BP!Requested(i)
<1>1. /\ A!ReadKeys = AP!ReadKeys /\ B!ReadKeys = BP!ReadKeys
      /\ \A t : A!WriteKeys(t) = AP!WriteKeys(t)
      /\ \A t : B!WriteKeys(t) = BP!WriteKeys(t)
  BY DEF A!ReadKeys, AP!ReadKeys, B!ReadKeys, BP!ReadKeys,
         A!WriteKeys, AP!WriteKeys, B!WriteKeys, BP!WriteKeys
<1>2. /\ \A s, o, n, v : A!Property(s, o, n, v) = AP!Property(s, o, n, v)
      /\ \A s, o, n, v : B!Property(s, o, n, v) = BP!Property(s, o, n, v)
  BY DEF A!Property, AP!Property, B!Property, BP!Property
<1> QED BY <1>1, <1>2
    DEF A!Known, AP!Known, B!Known, BP!Known,
        A!Requested, AP!Requested, B!Requested, BP!Requested

(* Its definitions say the same of a node as those of Bacnet do.           *)
LEMMA SameNodeA ==
  /\ A!Init <=> AP!Init
  /\ A!TypeOK <=> AP!TypeOK
  /\ A!Own <=> AP!Own
  /\ A!Tick <=> AP!Tick
  /\ \A f \in Frames : A!ProcFrame(f) <=> AP!ProcFrame(f)
<1>1. A!Init <=> AP!Init
  BY DEF
         A!Init, AP!Init, A!NoEntry, AP!NoEntry, A!NoFrame, AP!NoFrame
<1>2. A!TypeOK <=> AP!TypeOK
  BY SameFrames, SameNothing, SameInstance DEF Frames,
         A!TypeOK, AP!TypeOK, A!NoEntry, AP!NoEntry, A!Age, AP!Age
<1>3. A!Own <=> AP!Own
  BY SameRequests DEF
         A!Own, AP!Own, A!Refill, AP!Refill, A!RecvNothing, AP!RecvNothing,
         A!PollDevice, AP!PollDevice, A!PollNotDue, AP!PollNotDue, A!Request,
         AP!Request, A!NoRequest, AP!NoRequest, A!timers, AP!timers,
         A!NoSend, AP!NoSend, A!SendCom, AP!SendCom, A!NextIndex,
         AP!NextIndex, A!Target, AP!Target, A!Header, AP!Header, A!PollDue,
         AP!PollDue, A!RequestDue, AP!RequestDue, A!DoRequest, AP!DoRequest,
         A!RequestFrame, AP!RequestFrame, A!NoFrame, AP!NoFrame
<1>4. A!Tick <=> AP!Tick
  BY DEF
         A!Tick, AP!Tick, A!Older, AP!Older, A!NoEntry, AP!NoEntry,
         A!NoFrame, AP!NoFrame
<1>5. ASSUME NEW f \in Frames PROVE A!ProcFrame(f) <=> AP!ProcFrame(f)
  BY SameRequests DEF
         A!ProcFrame, AP!ProcFrame, A!RecvOther, AP!RecvOther, A!Token,
         AP!Token, A!PollMaster, AP!PollMaster, A!PollMasterAck,
         AP!PollMasterAck, A!RecvFrame, AP!RecvFrame, A!Addressed,
         AP!Addressed, A!Silent, AP!Silent, A!Heard, AP!Heard, A!Looked,
         AP!Looked, A!NoSend, AP!NoSend, A!SendCom, AP!SendCom, A!NextIndex,
         AP!NextIndex, A!Target, AP!Target, A!Header, AP!Header, A!DoRequest,
         AP!DoRequest, A!RequestFrame, AP!RequestFrame, A!NoFrame,
         AP!NoFrame, A!NoEntry, AP!NoEntry
<1> QED BY <1>1, <1>2, <1>3, <1>4, <1>5

LEMMA SameNodeB ==
  /\ B!Init <=> BP!Init
  /\ B!TypeOK <=> BP!TypeOK
  /\ B!Own <=> BP!Own
  /\ B!Tick <=> BP!Tick
  /\ \A f \in Frames : B!ProcFrame(f) <=> BP!ProcFrame(f)
<1>1. B!Init <=> BP!Init
  BY DEF
         B!Init, BP!Init, B!NoEntry, BP!NoEntry, B!NoFrame, BP!NoFrame
<1>2. B!TypeOK <=> BP!TypeOK
  BY SameFrames, SameNothing, SameInstance DEF
         B!TypeOK, BP!TypeOK, B!NoEntry, BP!NoEntry, B!Age, BP!Age
<1>3. B!Own <=> BP!Own
  BY SameRequests DEF
         B!Own, BP!Own, B!Refill, BP!Refill, B!RecvNothing, BP!RecvNothing,
         B!PollDevice, BP!PollDevice, B!PollNotDue, BP!PollNotDue, B!Request,
         BP!Request, B!NoRequest, BP!NoRequest, B!timers, BP!timers,
         B!NoSend, BP!NoSend, B!SendCom, BP!SendCom, B!NextIndex,
         BP!NextIndex, B!Target, BP!Target, B!Header, BP!Header, B!PollDue,
         BP!PollDue, B!RequestDue, BP!RequestDue, B!DoRequest, BP!DoRequest,
         B!RequestFrame, BP!RequestFrame, B!NoFrame, BP!NoFrame
<1>4. B!Tick <=> BP!Tick
  BY DEF
         B!Tick, BP!Tick, B!Older, BP!Older, B!NoEntry, BP!NoEntry,
         B!NoFrame, BP!NoFrame
<1>5. ASSUME NEW f \in Frames PROVE B!ProcFrame(f) <=> BP!ProcFrame(f)
  BY SameRequests DEF
         B!ProcFrame, BP!ProcFrame, B!RecvOther, BP!RecvOther, B!Token,
         BP!Token, B!PollMaster, BP!PollMaster, B!PollMasterAck,
         BP!PollMasterAck, B!RecvFrame, BP!RecvFrame, B!Addressed,
         BP!Addressed, B!Silent, BP!Silent, B!Heard, BP!Heard, B!Looked,
         BP!Looked, B!NoSend, BP!NoSend, B!SendCom, BP!SendCom, B!NextIndex,
         BP!NextIndex, B!Target, BP!Target, B!Header, BP!Header, B!DoRequest,
         BP!DoRequest, B!RequestFrame, BP!RequestFrame, B!NoFrame,
         BP!NoFrame, B!NoEntry, BP!NoEntry
<1> QED BY <1>1, <1>2, <1>3, <1>4, <1>5

LEMMA Nodes ==
  /\ AP!AddressAssumption /\ AP!NodeAssumption
  /\ BP!AddressAssumption /\ BP!NodeAssumption
<1>1. \A f \in Frames : f.type \in 0 .. 7 /\ f.dst \in Station /\ f.src \in Station
  BY FrameFields
<1> QED
  BY <1>1, BusAssumption, SameInstance
     DEF A!AddressAssumption, AP!AddressAssumption, A!NodeAssumption,
         AP!NodeAssumption, B!AddressAssumption, BP!AddressAssumption,
         B!NodeAssumption, BP!NodeAssumption

-----------------------------------------------------------------------------
(* A poll is open while it or the answer to it is on the line; "out" are   *)
(* the frames on their way from the node, "back" those on their way to it, *)
(* and age is its sendtime.                                                *)
Has(q, t) == \E i \in 1 .. Len(q) : q[i].type = t
AtMostOne(q, t) ==
  \A i, j \in 1 .. Len(q) : q[i].type = t /\ q[j].type = t => i = j

Exchange(out, back, age) ==
  /\ AtMostOne(out, 1) /\ AtMostOne(back, 2)
  /\ ~(Has(out, 1) /\ Has(back, 2))
  /\ Has(out, 1) \/ Has(back, 2) => age = 0

LineOK ==
  /\ toA \in Seq(Frames) /\ toB \in Seq(Frames)
  /\ sent \in Frames \cup {A!NoFrame}

(* What a node sends restarts its sendtime, which stands still as long as  *)
(* something is under way.                                                 *)
IInv ==
  /\ TypeOK
  /\ Exchange(toB, toA, sendA) /\ Exchange(toA, toB, sendB)

LEMMA NodeTypes ==
  TypeOK => /\ AP!TypeOK /\ BP!TypeOK /\ LineOK
            /\ ranA \in BOOLEAN /\ ranB \in BOOLEAN
            /\ faults \in [lost : 0 .. MaxLost, restarts : 0 .. MaxRestarts]
BY SameNodeA, SameNodeB DEF TypeOK, LineOK, A!TypeOK, Frames

-----------------------------------------------------------------------------
LEMMA TailHas ==
  ASSUME NEW q \in Seq(Frames), q # << >>, NEW t
  PROVE  /\ Tail(q) \in Seq(Frames) /\ Head(q) \in Frames
         /\ Has(Tail(q), t) => Has(q, t)
         /\ AtMostOne(q, t) => AtMostOne(Tail(q), t)
         /\ Head(q).type = t => Has(q, t)
         /\ AtMostOne(q, t) /\ Head(q).type = t => ~Has(Tail(q), t)
<1>1. /\ Len(q) \in Nat /\ Len(q) > 0 /\ Len(Tail(q)) = Len(q) - 1
      /\ Head(q) = q[1] /\ Tail(q) \in Seq(Frames) /\ Head(q) \in Frames
  OBVIOUS
<1>2. ASSUME NEW i \in 1 .. Len(Tail(q))
      PROVE  /\ i + 1 \in 1 .. Len(q) /\ i + 1 # 1 /\ Tail(q)[i] = q[i + 1]
  BY <1>1
<1>3. 1 \in 1 .. Len(q)
  BY <1>1
<1>4. Has(Tail(q), t) => Has(q, t)
  BY <1>2 DEF Has
<1>5. ASSUME AtMostOne(q, t), NEW i \in 1 .. Len(Tail(q)), NEW j \in 1 .. Len(Tail(q)),
             Tail(q)[i].type = t, Tail(q)[j].type = t
      PROVE  i = j
  <2>1. i + 1 = j + 1
    BY <1>2, <1>5 DEF AtMostOne
  <2> QED BY <2>1
<1>6. Head(q).type = t => Has(q, t)
  BY <1>1, <1>3 DEF Has
<1>7. AtMostOne(q, t) /\ Head(q).type = t => ~Has(Tail(q), t)
  BY <1>1, <1>2, <1>3 DEF Has, AtMostOne
<1> QED BY <1>1, <1>4, <1>5, <1>6, <1>7 DEF AtMostOne

LEMMA AppendHas ==
  ASSUME NEW q \in Seq(Frames), NEW g \in Frames, NEW t
  PROVE  /\ Append(q, g) \in Seq(Frames)
         /\ g.type # t => /\ Has(Append(q, g), t) => Has(q, t)
                          /\ AtMostOne(q, t) => AtMostOne(Append(q, g), t)
         /\ ~Has(q, t) => AtMostOne(Append(q, g), t)
<1> DEFINE p == Append(q, g)
<1>1. /\ Len(q) \in Nat /\ Len(p) = Len(q) + 1 /\ p[Len(q) + 1] = g
      /\ p \in Seq(Frames)
  OBVIOUS
<1>2. ASSUME NEW i \in 1 .. Len(p)
      PROVE  i = Len(q) + 1 \/ (i \in 1 .. Len(q) /\ p[i] = q[i])
  <2>1. i = Len(q) + 1 \/ i \in 1 .. Len(q)
    BY <1>1
  <2>2. ASSUME i \in 1 .. Len(q) PROVE p[i] = q[i]
    BY <2>2
  <2> QED BY <2>1, <2>2
<1> HIDE DEF p
<1>3. ASSUME g.type # t, Has(p, t) PROVE Has(q, t)
  BY <1>1, <1>2, <1>3 DEF Has
<1>4. ASSUME g.type # t, AtMostOne(q, t) PROVE AtMostOne(p, t)
  BY <1>1, <1>2, <1>4 DEF AtMostOne
<1>5. ASSUME ~Has(q, t) PROVE AtMostOne(p, t)
  BY <1>1, <1>2, <1>5 DEF AtMostOne, Has
<1> QED BY <1>1, <1>3, <1>4, <1>5 DEF p

(* One exchange at most, in numbers.                                       *)
LEMMA CountOf ==
  ASSUME NEW q \in Seq(Frames), NEW t, AtMostOne(q, t)
  PROVE  Count(q, t) = IF Has(q, t) THEN 1 ELSE 0
<1> DEFINE S == {i \in DOMAIN q : q[i].type = t}
<1>0. DOMAIN q = 1 .. Len(q)
  OBVIOUS
<1>1. CASE Has(q, t)
  <2>1. PICK i \in 1 .. Len(q) : q[i].type = t
    BY <1>1 DEF Has
  <2>2. S = {i}
    BY <1>0, <2>1 DEF AtMostOne
  <2> QED BY <1>1, <2>2, FS_Singleton DEF Count
<1>2. CASE ~Has(q, t)
  <2>1. S = {}
    BY <1>0, <1>2 DEF Has
  <2> QED BY <1>2, <2>1, FS_EmptySet DEF Count
<1> QED BY <1>1, <1>2

LEMMA ExchangeIsOne ==
  ASSUME NEW out \in Seq(Frames), NEW back \in Seq(Frames), NEW age,
         Exchange(out, back, age)
  PROVE  Polls(out) + Answers(back) <= 1
<1>1. /\ Polls(out) = IF Has(out, 1) THEN 1 ELSE 0
      /\ Answers(back) = IF Has(back, 2) THEN 1 ELSE 0
  BY CountOf DEF Exchange, Polls, Answers
<1> QED BY <1>1 DEF Exchange

-----------------------------------------------------------------------------
(* A node sends frame g on its own, a poll only if its sendtime has passed. *)
LEMMA OwnKeeps ==
  ASSUME NEW out \in Seq(Frames), NEW back \in Seq(Frames), NEW g \in Frames,
         NEW age, NEW other,
         Exchange(out, back, age), Exchange(back, out, other),
         g.type \in {1, 5}, g.type = 1 => age # 0
  PROVE  /\ Exchange(Append(out, g), back, 0)
         /\ Exchange(back, Append(out, g), other)
<1> DEFINE sending == Append(out, g)
<1>1. AtMostOne(sending, 1) /\ ~(Has(sending, 1) /\ Has(back, 2))
  <2>1. CASE g.type = 1
    <3>1. ~Has(out, 1) /\ ~Has(back, 2)
      BY <2>1 DEF Exchange
    <3> QED BY <3>1, AppendHas
  <2>2. CASE g.type = 5
    <3>1. AtMostOne(sending, 1) /\ (Has(sending, 1) => Has(out, 1))
      BY <2>2, AppendHas DEF Exchange
    <3> QED BY <3>1 DEF Exchange
  <2> QED BY <2>1, <2>2
<1>2. AtMostOne(sending, 2) /\ (Has(sending, 2) => Has(out, 2))
  BY AppendHas DEF Exchange
<1> HIDE DEF sending
<1>3. Exchange(sending, back, 0) /\ Exchange(back, sending, other)
  BY <1>1, <1>2 DEF Exchange
<1> QED BY <1>3 DEF sending

(* A node deals with the first frame on its way to it, without an answer.  *)
LEMMA TakeKeeps ==
  ASSUME NEW out \in Seq(Frames), NEW back \in Seq(Frames), back # << >>,
         NEW age, NEW other, NEW later \in {0, age},
         Exchange(out, back, age), Exchange(back, out, other)
  PROVE  /\ Exchange(out, Tail(back), later)
         /\ Exchange(Tail(back), out, other)
<1>1. /\ AtMostOne(Tail(back), 1) /\ AtMostOne(Tail(back), 2)
      /\ Has(Tail(back), 1) => Has(back, 1)
      /\ Has(Tail(back), 2) => Has(back, 2)
  BY TailHas DEF Exchange
<1> QED BY <1>1 DEF Exchange

(* And with an answer, which is one to a poll only if the frame is a poll. *)
LEMMA AnswerKeeps ==
  ASSUME NEW out \in Seq(Frames), NEW back \in Seq(Frames), back # << >>,
         NEW g \in Frames, NEW age, NEW other,
         Exchange(out, back, age), Exchange(back, out, other),
         g.type \in {0, 2, 5}, g.type = 2 => Head(back).type = 1
  PROVE  /\ Exchange(Append(out, g), Tail(back), 0)
         /\ Exchange(Tail(back), Append(out, g), other)
<1> DEFINE sending == Append(out, g)
           rest == Tail(back)
<1>1. /\ AtMostOne(rest, 1) /\ AtMostOne(rest, 2)
      /\ Has(rest, 1) => Has(back, 1)
      /\ Has(rest, 2) => Has(back, 2)
      /\ Head(back).type = 1 => Has(back, 1) /\ ~Has(rest, 1)
  BY TailHas DEF Exchange
<1>2. AtMostOne(sending, 1) /\ (Has(sending, 1) => Has(out, 1))
  BY AppendHas DEF Exchange
<1>3. AtMostOne(sending, 2) /\ (Has(sending, 2) => Has(out, 2) \/ g.type = 2)
  <2>1. CASE g.type = 2
    <3>1. ~Has(out, 2)
      BY <1>1, <2>1 DEF Exchange
    <3> QED BY <2>1, <3>1, AppendHas
  <2>2. CASE g.type # 2
    BY <2>2, AppendHas DEF Exchange
  <2> QED BY <2>1, <2>2
<1> HIDE DEF sending, rest
<1>4. Exchange(sending, rest, 0)
  BY <1>1, <1>2 DEF Exchange
<1>5. Exchange(rest, sending, other)
  BY <1>1, <1>3 DEF Exchange
<1> QED BY <1>4, <1>5 DEF sending, rest

-----------------------------------------------------------------------------
LEMMA Bounds == MaxLost \in Nat /\ MaxRestarts \in Nat
BY BusAssumption

LEMMA CarriedIs ==
  ASSUME NEW q \in Seq(Frames)
  PROVE  /\ sent' \in {AP!NoFrame, BP!NoFrame} => Carried(q) = q
         /\ sent' \in Frames => Carried(q) = Append(q, sent')
<1>1. \A g \in Frames : g # A!NoFrame
  <2>1. ASSUME NEW g \in Frames PROVE g.type # -1
    BY FrameFields
  <2> QED BY <2>1 DEF A!NoFrame
<1> QED BY <1>1, SameNothing DEF Carried

LEMMA KeptA ==
  AP!TypeOK /\ UNCHANGED nodeA /\ sent' \in Frames \cup {A!NoFrame} =>
    AP!TypeOK' /\ ranA' = ranA /\ sendA' = sendA
BY SameFrames, SameNothing DEF nodeA, AP!TypeOK

LEMMA SentA == AP!TypeOK => sent \in Frames \cup {A!NoFrame}
BY SameFrames, SameNothing DEF AP!TypeOK

LEMMA KeptB ==
  BP!TypeOK /\ UNCHANGED nodeB /\ sent' \in Frames \cup {A!NoFrame} =>
    BP!TypeOK' /\ ranB' = ranB /\ sendB' = sendB
BY SameFrames, SameNothing DEF nodeB, BP!TypeOK

LEMMA SentB == BP!TypeOK => sent \in Frames \cup {A!NoFrame}
BY SameFrames, SameNothing DEF BP!TypeOK

LEMMA EndedOK ==
  ASSUME NEW ran \in BOOLEAN, NEW pc PROVE Ended(ran, pc) \in BOOLEAN
BY DEF Ended

(* The queue is empty, and sendtime may be anything.                       *)
LEMMA NothingOpen ==
  ASSUME NEW age PROVE Exchange(<< >>, << >>, age)
BY DEF Exchange, Has, AtMostOne

(* Less under way, or a node whose sendtime starts anew.                   *)
LEMMA Restarted ==
  ASSUME NEW out, NEW back, NEW age, Exchange(out, back, age)
  PROVE  Exchange(out, back, 0)
BY DEF Exchange

LEMMA Lost ==
  ASSUME NEW out \in Seq(Frames), out # << >>, NEW back \in Seq(Frames),
         NEW age, NEW other,
         Exchange(out, back, age), Exchange(back, out, other)
  PROVE  Exchange(Tail(out), back, age) /\ Exchange(back, Tail(out), other)
BY TakeKeeps

-----------------------------------------------------------------------------
Types ==
  /\ AP!TypeOK /\ BP!TypeOK
  /\ ranA \in BOOLEAN /\ ranB \in BOOLEAN
  /\ faults \in [lost : 0 .. MaxLost, restarts : 0 .. MaxRestarts]

(* IInv of the instances that the lemmas are about.                        *)
Inv ==
  /\ Types /\ LineOK
  /\ Exchange(toB, toA, sendA) /\ Exchange(toA, toB, sendB)

LEMMA InvIsIInv == Inv <=> IInv
BY SameNodeA, SameNodeB, SentA DEF Inv, IInv, Types, TypeOK, LineOK

LEMMA StepRunA == Inv /\ RunA => Inv'
<1> SUFFICES ASSUME Inv, RunA PROVE Inv'
  OBVIOUS
<1>1. /\ AP!Own /\ toB' = Carried(toB) /\ toA' = toA /\ UNCHANGED nodeB
      /\ ranA' = Ended(ranA, pcA') /\ faults' = faults
  BY SameNodeA DEF RunA
<1>2. AP!TypeOK' /\ BP!TypeOK' /\ ranB' = ranB /\ sendB' = sendB
  <2>1. AP!TypeOK'
    BY <1>1, Nodes, AP!NextTypeOK DEF AP!Next, Inv, Types
  <2>2. sent' \in Frames \cup {A!NoFrame}
    BY <2>1, SameFrames, SameNothing DEF AP!TypeOK
  <2> QED BY <1>1, <2>1, <2>2, KeptB DEF Inv, Types
<1>3. Types'
  BY <1>1, <1>2, EndedOK DEF Inv, Types
<1>4. \/ sent' = AP!NoFrame /\ sendA' \in {0, sendA}
      \/ /\ sent' \in Frames /\ sent'.type \in {1, 5} /\ sendA' = 0
         /\ sent'.type = 1 => sendA # 0
  <2>1. sendA \in Nat /\ SendGap \in Nat /\ SendGap > 0
    BY BusAssumption, Nodes DEF Inv, Types, AP!TypeOK, AP!Age, AP!NodeAssumption
  <2> QED BY <1>1, <2>1, Nodes, SameFrames, AP!OwnSends DEF Inv, Types
<1>5. CASE sent' = AP!NoFrame /\ sendA' \in {0, sendA}
  <2>1. toB' = toB
    BY <1>1, <1>5, CarriedIs DEF Inv, LineOK
  <2>2. Exchange(toB, toA, sendA')
    BY <1>5, Restarted DEF Inv
  <2> QED BY <1>1, <1>2, <1>3, <1>5, <2>1, <2>2, SameNothing DEF Inv, LineOK
<1>6. CASE /\ sent' \in Frames /\ sent'.type \in {1, 5} /\ sendA' = 0
           /\ sent'.type = 1 => sendA # 0
  <2>1. toB' = Append(toB, sent')
    BY <1>1, <1>6, CarriedIs DEF Inv, LineOK
  <2>2. /\ Exchange(Append(toB, sent'), toA, 0)
        /\ Exchange(toA, Append(toB, sent'), sendB)
    BY <1>6, OwnKeeps DEF Inv, LineOK
  <2>3. LineOK'
    BY <1>1, <1>6, <2>1 DEF Inv, LineOK
  <2> QED BY <1>1, <1>2, <1>3, <1>6, <2>1, <2>2, <2>3 DEF Inv
<1> QED BY <1>4, <1>5, <1>6

LEMMA StepDeliverA == Inv /\ DeliverA => Inv'
<1> SUFFICES ASSUME Inv, DeliverA PROVE Inv'
  OBVIOUS
<1> DEFINE f == Head(toA)
<1>1. /\ toA # << >> /\ f \in Frames
      /\ Tail(toA) \in Seq(Frames)
  BY TailHas DEF Inv, LineOK, DeliverA
<1>2. /\ AP!ProcFrame(f) /\ toA' = Tail(toA) /\ toB' = Carried(toB)
      /\ UNCHANGED nodeB /\ ranA' = ranA /\ faults' = faults
  BY <1>1, SameNodeA DEF DeliverA
<1>3. f.dst \in Station /\ f.src \in Station
  BY <1>1, FrameFields
<1>4. AP!TypeOK' /\ BP!TypeOK' /\ ranB' = ranB /\ sendB' = sendB
  <2>1. AP!TypeOK'
    BY <1>1, <1>2, Nodes, AP!NextTypeOK DEF AP!Next, Inv, Types
  <2>2. sent' \in Frames \cup {A!NoFrame}
    BY <2>1, SameFrames, SameNothing DEF AP!TypeOK
  <2> QED BY <1>2, <2>1, <2>2, KeptB DEF Inv, Types
<1>5. Types'
  BY <1>2, <1>4 DEF Inv, Types
<1>6. /\ sendA' \in {0, sendA}
      /\ \/ sent' = AP!NoFrame
         \/ /\ sent' \in Frames /\ sent'.type \in {0, 2, 5} /\ sendA' = 0
            /\ sent'.type = 2 => f.type = 1
  <2> HIDE DEF f
  <2> QED BY <1>2, <1>3, Nodes, SameFrames, AP!ProcFrameSends DEF Inv, Types
<1>7. CASE sent' = AP!NoFrame
  <2>1. toB' = toB
    BY <1>2, <1>7, CarriedIs DEF Inv, LineOK
  <2>2. /\ Exchange(toB, Tail(toA), sendA')
        /\ Exchange(Tail(toA), toB, sendB)
    BY <1>1, <1>6, TakeKeeps DEF Inv, LineOK
  <2>3. LineOK'
    BY <1>1, <1>2, <1>7, <2>1, SameNothing DEF Inv, LineOK
  <2> QED BY <1>2, <1>4, <1>5, <2>1, <2>2, <2>3 DEF Inv
<1>8. CASE /\ sent' \in Frames /\ sent'.type \in {0, 2, 5} /\ sendA' = 0
           /\ sent'.type = 2 => f.type = 1
  <2>1. toB' = Append(toB, sent')
    BY <1>2, <1>8, CarriedIs DEF Inv, LineOK
  <2>2. /\ Exchange(Append(toB, sent'), Tail(toA), 0)
        /\ Exchange(Tail(toA), Append(toB, sent'), sendB)
    BY <1>1, <1>8, AnswerKeeps DEF Inv, LineOK
  <2>3. LineOK'
    BY <1>1, <1>2, <1>8, <2>1 DEF Inv, LineOK
  <2> QED BY <1>2, <1>4, <1>5, <1>8, <2>1, <2>2, <2>3 DEF Inv
<1> QED BY <1>6, <1>7, <1>8

(* And the same with the nodes exchanged.                                 *)
LEMMA StepRunB == Inv /\ RunB => Inv'
<1> SUFFICES ASSUME Inv, RunB PROVE Inv'
  OBVIOUS
<1>1. /\ BP!Own /\ toA' = Carried(toA) /\ toB' = toB /\ UNCHANGED nodeA
      /\ ranB' = Ended(ranB, pcB') /\ faults' = faults
  BY SameNodeB DEF RunB
<1>2. BP!TypeOK' /\ AP!TypeOK' /\ ranA' = ranA /\ sendA' = sendA
  <2>1. BP!TypeOK'
    BY <1>1, Nodes, BP!NextTypeOK DEF BP!Next, Inv, Types
  <2>2. sent' \in Frames \cup {A!NoFrame}
    BY <2>1, SameFrames, SameNothing DEF BP!TypeOK
  <2> QED BY <1>1, <2>1, <2>2, KeptA DEF Inv, Types
<1>3. Types'
  BY <1>1, <1>2, EndedOK DEF Inv, Types
<1>4. \/ sent' = BP!NoFrame /\ sendB' \in {0, sendB}
      \/ /\ sent' \in Frames /\ sent'.type \in {1, 5} /\ sendB' = 0
         /\ sent'.type = 1 => sendB # 0
  <2>1. sendB \in Nat /\ SendGap \in Nat /\ SendGap > 0
    BY BusAssumption, Nodes DEF Inv, Types, BP!TypeOK, BP!Age, BP!NodeAssumption
  <2> QED BY <1>1, <2>1, Nodes, SameFrames, BP!OwnSends DEF Inv, Types
<1>5. CASE sent' = BP!NoFrame /\ sendB' \in {0, sendB}
  <2>1. toA' = toA
    BY <1>1, <1>5, CarriedIs DEF Inv, LineOK
  <2>2. Exchange(toA, toB, sendB')
    BY <1>5, Restarted DEF Inv
  <2> QED BY <1>1, <1>2, <1>3, <1>5, <2>1, <2>2, SameNothing DEF Inv, LineOK
<1>6. CASE /\ sent' \in Frames /\ sent'.type \in {1, 5} /\ sendB' = 0
           /\ sent'.type = 1 => sendB # 0
  <2>1. toA' = Append(toA, sent')
    BY <1>1, <1>6, CarriedIs DEF Inv, LineOK
  <2>2. /\ Exchange(Append(toA, sent'), toB, 0)
        /\ Exchange(toB, Append(toA, sent'), sendA)
    BY <1>6, OwnKeeps DEF Inv, LineOK
  <2>3. LineOK'
    BY <1>1, <1>6, <2>1 DEF Inv, LineOK
  <2> QED BY <1>1, <1>2, <1>3, <1>6, <2>1, <2>2, <2>3 DEF Inv
<1> QED BY <1>4, <1>5, <1>6

LEMMA StepDeliverB == Inv /\ DeliverB => Inv'
<1> SUFFICES ASSUME Inv, DeliverB PROVE Inv'
  OBVIOUS
<1> DEFINE f == Head(toB)
<1>1. /\ toB # << >> /\ f \in Frames
      /\ Tail(toB) \in Seq(Frames)
  BY TailHas DEF Inv, LineOK, DeliverB
<1>2. /\ BP!ProcFrame(f) /\ toB' = Tail(toB) /\ toA' = Carried(toA)
      /\ UNCHANGED nodeA /\ ranB' = ranB /\ faults' = faults
  BY <1>1, SameNodeB DEF DeliverB
<1>3. f.dst \in Station /\ f.src \in Station
  BY <1>1, FrameFields
<1>4. BP!TypeOK' /\ AP!TypeOK' /\ ranA' = ranA /\ sendA' = sendA
  <2>1. BP!TypeOK'
    BY <1>1, <1>2, Nodes, BP!NextTypeOK DEF BP!Next, Inv, Types
  <2>2. sent' \in Frames \cup {A!NoFrame}
    BY <2>1, SameFrames, SameNothing DEF BP!TypeOK
  <2> QED BY <1>2, <2>1, <2>2, KeptA DEF Inv, Types
<1>5. Types'
  BY <1>2, <1>4 DEF Inv, Types
<1>6. /\ sendB' \in {0, sendB}
      /\ \/ sent' = BP!NoFrame
         \/ /\ sent' \in Frames /\ sent'.type \in {0, 2, 5} /\ sendB' = 0
            /\ sent'.type = 2 => f.type = 1
  <2> HIDE DEF f
  <2> QED BY <1>2, <1>3, Nodes, SameFrames, BP!ProcFrameSends DEF Inv, Types
<1>7. CASE sent' = BP!NoFrame
  <2>1. toA' = toA
    BY <1>2, <1>7, CarriedIs DEF Inv, LineOK
  <2>2. /\ Exchange(toA, Tail(toB), sendB')
        /\ Exchange(Tail(toB), toA, sendA)
    BY <1>1, <1>6, TakeKeeps DEF Inv, LineOK
  <2>3. LineOK'
    BY <1>1, <1>2, <1>7, <2>1, SameNothing DEF Inv, LineOK
  <2> QED BY <1>2, <1>4, <1>5, <2>1, <2>2, <2>3 DEF Inv
<1>8. CASE /\ sent' \in Frames /\ sent'.type \in {0, 2, 5} /\ sendB' = 0
           /\ sent'.type = 2 => f.type = 1
  <2>1. toA' = Append(toA, sent')
    BY <1>2, <1>8, CarriedIs DEF Inv, LineOK
  <2>2. /\ Exchange(Append(toA, sent'), Tail(toB), 0)
        /\ Exchange(Tail(toB), Append(toA, sent'), sendA)
    BY <1>1, <1>8, AnswerKeeps DEF Inv, LineOK
  <2>3. LineOK'
    BY <1>1, <1>2, <1>8, <2>1 DEF Inv, LineOK
  <2> QED BY <1>2, <1>4, <1>5, <1>8, <2>1, <2>2, <2>3 DEF Inv
<1> QED BY <1>6, <1>7, <1>8

LEMMA StepLose == Inv /\ Lose => Inv'
<1> SUFFICES ASSUME Inv, Lose PROVE Inv'
  OBVIOUS
<1>0. sent' \in Frames \cup {A!NoFrame}
  BY DEF Lose
<1>1. /\ AP!TypeOK' /\ ranA' = ranA /\ sendA' = sendA
      /\ BP!TypeOK' /\ ranB' = ranB /\ sendB' = sendB
  BY <1>0, KeptA, KeptB DEF Lose, Inv, Types
<1>2. faults' \in [lost : 0 .. MaxLost, restarts : 0 .. MaxRestarts]
  <2>1. PICK l \in 0 .. MaxLost, r \in 0 .. MaxRestarts :
               faults = [lost |-> l, restarts |-> r]
    BY DEF Inv, Types
  <2>2. l + 1 \in 0 .. MaxLost /\ faults' = [lost |-> l + 1, restarts |-> r]
    BY <2>1, Bounds DEF Lose
  <2> QED BY <2>2
<1>3. CASE toA # << >> /\ toA' = Tail(toA) /\ toB' = toB
  <2>1. /\ Exchange(Tail(toA), toB, sendB) /\ Exchange(toB, Tail(toA), sendA)
        /\ Tail(toA) \in Seq(Frames)
    BY <1>3, Lost, TailHas DEF Inv, LineOK
  <2> QED BY <1>0, <1>1, <1>2, <1>3, <2>1 DEF Inv, Types, LineOK
<1>4. CASE toB # << >> /\ toB' = Tail(toB) /\ toA' = toA
  <2>1. /\ Exchange(Tail(toB), toA, sendA) /\ Exchange(toA, Tail(toB), sendB)
        /\ Tail(toB) \in Seq(Frames)
    BY <1>4, Lost, TailHas DEF Inv, LineOK
  <2> QED BY <1>0, <1>1, <1>2, <1>4, <2>1 DEF Inv, Types, LineOK
<1> QED BY <1>3, <1>4 DEF Lose

LEMMA StepRestartB == Inv /\ RestartB => Inv'
<1> SUFFICES ASSUME Inv, RestartB PROVE Inv'
  OBVIOUS
<1>0. sent' \in Frames \cup {A!NoFrame}
  BY SameNothing DEF RestartB
<1>1. /\ AP!TypeOK' /\ ranA' = ranA /\ sendA' = sendA
      /\ toA' = toA /\ toB' = toB /\ sendB' = 0 /\ ranB' = FALSE
  BY <1>0, KeptA DEF RestartB, Inv, Types
<1>2. BP!TypeOK'
  <2>1. BP!Init'
    BY DEF RestartB, BP!Init, B!NoEntry, BP!NoEntry, B!NoFrame, BP!NoFrame
  <2>2. (BP!Init => BP!TypeOK)'
    BY Nodes, BP!InitTypeOK, PTL
  <2> QED BY <2>1, <2>2
<1>3. faults' \in [lost : 0 .. MaxLost, restarts : 0 .. MaxRestarts]
  <2>1. PICK l \in 0 .. MaxLost, r \in 0 .. MaxRestarts :
               faults = [lost |-> l, restarts |-> r]
    BY DEF Inv, Types
  <2>2. r + 1 \in 0 .. MaxRestarts /\ faults' = [lost |-> l, restarts |-> r + 1]
    BY <2>1, Bounds DEF RestartB
  <2> QED BY <2>2
<1>4. Exchange(toA, toB, 0)
  BY Restarted DEF Inv
<1> QED BY <1>0, <1>1, <1>2, <1>3, <1>4 DEF Inv, Types, LineOK

LEMMA StepTick == Inv /\ Tick => Inv'
<1> SUFFICES ASSUME Inv, Tick PROVE Inv'
  OBVIOUS
<1>1. AP!Tick /\ BP!Tick
  BY SameNodeA, SameNodeB DEF Tick
<1>2. AP!TypeOK' /\ BP!TypeOK'
  BY <1>1, Nodes, AP!NextTypeOK, BP!NextTypeOK DEF AP!Next, BP!Next, Inv, Types
<1>3. /\ toA' = << >> /\ toB' = << >> /\ ranA' = FALSE /\ ranB' = FALSE
      /\ faults' = faults /\ LineOK'
  BY <1>1, SameNothing DEF Tick, Inv, LineOK, AP!Tick
<1> QED BY <1>2, <1>3, NothingOpen DEF Inv, Types

LEMMA StepNothing == Inv /\ UNCHANGED vars => Inv'
<1> SUFFICES ASSUME Inv, UNCHANGED vars PROVE Inv'
  OBVIOUS
<1>0. sent' \in Frames \cup {A!NoFrame}
  BY DEF vars, Inv, LineOK
<1>1. /\ AP!TypeOK' /\ ranA' = ranA /\ sendA' = sendA
      /\ BP!TypeOK' /\ ranB' = ranB /\ sendB' = sendB
  BY <1>0, KeptA, KeptB DEF vars, Inv, Types
<1> QED BY <1>0, <1>1 DEF vars, Inv, Types, LineOK

LEMMA InitInv == Init => Inv
<1> SUFFICES ASSUME Init PROVE Inv
  OBVIOUS
<1>1. AP!TypeOK /\ BP!TypeOK
  BY SameNodeA, SameNodeB, Nodes, AP!InitTypeOK, BP!InitTypeOK DEF Init
<1>2. faults \in [lost : 0 .. MaxLost, restarts : 0 .. MaxRestarts]
  <2>1. 0 \in 0 .. MaxLost /\ 0 \in 0 .. MaxRestarts
    BY Bounds
  <2>2. faults = [lost |-> 0, restarts |-> 0]
    BY DEF Init
  <2> QED BY <2>1, <2>2
<1>3. Types
  BY <1>1, <1>2 DEF Init, Types
<1>4. toA = << >> /\ toB = << >> /\ LineOK
  BY DEF Init, LineOK, A!Init
<1>5. Exchange(toB, toA, sendA) /\ Exchange(toA, toB, sendB)
  BY <1>4, NothingOpen
<1> QED BY <1>3, <1>4, <1>5 DEF Inv

LEMMA NextInv == Inv /\ [Next]_vars => Inv'
BY StepRunA, StepDeliverA, StepRunB, StepDeliverB, StepLose, StepRestartB,
   StepTick, StepNothing DEF Next

LEMMA Invariance == Spec => []IInv
<1>1. Spec => []Inv
  BY InitInv, NextInv, PTL DEF Spec
<1> QED BY <1>1, InvIsIInv, PTL

(* Both nodes keep their types whatever the other sends them, and through  *)
(* losses and restarts.                                                    *)
THEOREM TypeCorrect == Spec => []TypeOK
BY Invariance, PTL DEF IInv

(* A second poll of a node never goes out while its first, or the answer   *)
(* to it, is on the line: sendtime (bacnet.cpp:26, :187) is restarted by   *)
(* all that is sent, and a frame takes less than its 100 ms.               *)
THEOREM OneExchangeCorrect == Spec => []OneExchange
<1>1. IInv => OneExchange
  BY ExchangeIsOne DEF IInv, TypeOK, OneExchange
<1> QED BY <1>1, Invariance, PTL

=============================================================================
