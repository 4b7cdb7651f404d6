-------------------------- MODULE RecvFrame_proof --------------------------
(***************************************************************************)
(* Proofs about RecvFrame.tla, for every traffic on the line and for all   *)
(* checksums: it implements RecvWindow, its variables keep their types, an *)
(* undisturbed window holds exactly the bytes received, a frame and        *)
(* nothing else is accepted from it, and on a line that carries frames     *)
(* only every frame is.  The bounds of the window come from                *)
(* RecvWindow_proof, through the refinement.                               *)
(***************************************************************************)
EXTENDS RecvFrame, TLAPS

RWP == INSTANCE RecvWindow_proof

(* The constants of this module satisfy the assumption of RecvWindow. *)
LEMMA Sizes == RWP!SizeAssumption
  BY BufferAssumption DEF RWP!SizeAssumption, RWP!Compact, HeadLen

(* The two instances of RecvWindow have the same steps. *)
LEMMA SameNext == RW!Next <=> RWP!Next
<1>1. RW!Elapse <=> RWP!Elapse            BY DEF RW!Elapse, RWP!Elapse
<1>2. RW!NoByte <=> RWP!NoByte            BY DEF RW!NoByte, RWP!NoByte
<1>3. RW!Push <=> RWP!Push
  <2>1. RW!StoreInPlace <=> RWP!StoreInPlace
    BY DEF RW!StoreInPlace, RWP!StoreInPlace
  <2>2. RW!StoreCompacted <=> RWP!StoreCompacted
    BY DEF RW!StoreCompacted, RWP!StoreCompacted, RW!Length, RWP!Length
  <2> QED BY <2>1, <2>2 DEF RW!Push, RWP!Push, RW!Compact, RWP!Compact
<1>4. RW!CheckAccept <=> RWP!CheckAccept
  BY DEF RW!CheckAccept, RWP!CheckAccept, RW!Length, RWP!Length
<1>5. RW!ContentSkip <=> RWP!ContentSkip
  BY DEF RW!ContentSkip, RWP!ContentSkip, RW!Length, RWP!Length
<1>6. RW!TimedSkip <=> RWP!TimedSkip
  BY DEF RW!TimedSkip, RWP!TimedSkip, RW!Length, RWP!Length
<1>7. RW!CheckWait <=> RWP!CheckWait
  BY DEF RW!CheckWait, RWP!CheckWait, RW!Length, RWP!Length
<1>8. RW!Clear <=> RWP!Clear              BY DEF RW!Clear, RWP!Clear
<1> QED
  BY <1>1, <1>2, <1>3, <1>4, <1>5, <1>6, <1>7, <1>8 DEF RW!Next, RWP!Next

-----------------------------------------------------------------------------
BufferOK == buf \in [0 .. Size - 1 -> Byte]
LineOK ==
  /\ cur \in Traffic \/ cur \in First
  /\ pos \in 0 .. Len(cur)
  /\ rx \in Seq(Byte)
  /\ lulls \in 0 .. MaxLulls
MarksOK == fresh \in BOOLEAN /\ skipped \in BOOLEAN

(* An accepted window holds a header, so that rewriting it stays within.   *)
Accepted == pc = "accepted" => HeadLen <= Length

IInv ==
  RWP!IInv /\ BufferOK /\ LineOK /\ MarksOK /\ Accepted /\ WindowIsStream

(* What IInv says of the positions. *)
LEMMA Positions ==
  ASSUME IInv
  PROVE  /\ off \in Nat /\ idx \in Nat /\ Length \in Int
         /\ idx < Size
         /\ pc = "check" => Length <= FrameMaxLen + 1
         /\ pc = "recv" => Length <= FrameMaxLen
<1>1. off \in Nat /\ idx \in Nat
  BY DEF IInv, RWP!IInv, RWP!TypeOK
<1>2. Size \in Nat /\ FrameMaxLen \in Nat /\ 1 <= Size \div 5
      /\ 2 * (Size \div 5) + FrameMaxLen < Size
  BY BufferAssumption
<1>3. Size \div 5 \in Int
  BY <1>2
<1>4. idx <= Size \div 5 + FrameMaxLen + 1
  BY DEF IInv, RWP!IInv, RWP!WindowBound, RWP!Compact
<1>5. idx < Size
  BY <1>1, <1>2, <1>3, <1>4
<1>6. (pc = "check" => Length <= FrameMaxLen + 1)
      /\ (pc = "recv" => Length <= FrameMaxLen)
  BY DEF IInv, RWP!IInv, RWP!WindowBound, RWP!Length, Length
<1> QED BY <1>1, <1>5, <1>6 DEF Length

(* Two bytes of the header, the announced length among them, are bytes. *)
LEMMA HeaderBytes ==
  ASSUME IInv, HeadLen <= Length, NEW k \in 0 .. 7
  PROVE  At(k) \in Byte /\ At(k) \in Nat
<1>1. off + k \in 0 .. Size - 1
  BY Positions, BufferAssumption DEF HeadLen, Length
<1>2. buf[off + k] \in Byte
  BY <1>1 DEF IInv, BufferOK
<1>3. Byte \subseteq 0 .. 255
  BY LineAssumption
<1>4. buf[off + k] \in 0 .. 255
  BY <1>2, <1>3
<1>5. buf[off + k] \in Nat
  BY <1>4
<1> QED BY <1>2, <1>5 DEF At

LEMMA InitIInv == Init => IInv
<1> SUFFICES ASSUME Init PROVE IInv
  OBVIOUS
<1>1. RWP!IInv
  <2>1. RWP!Init  BY DEF Init, RW!Init, RWP!Init
  <2> QED BY <2>1, Sizes, RWP!InitIInv
<1>2. BufferOK
  BY LineAssumption DEF Init, BufferOK
<1>3. LineOK
  <2>1. cur \in First /\ cur \in Seq(Byte) /\ pos = 0 /\ rx = << >> /\ lulls = 0
    BY LineAssumption DEF Init
  <2> QED BY <2>1, BufferAssumption DEF LineOK
<1>4. MarksOK
  BY Zenon DEF Init, MarksOK
<1>5. Accepted /\ WindowIsStream
  BY DEF Init, RW!Init, Accepted, WindowIsStream
<1> QED BY <1>1, <1>2, <1>3, <1>4, <1>5 DEF IInv

-----------------------------------------------------------------------------
(* Every step of the receiver is a step of RecvWindow, or leaves it alone. *)
LEMMA StepRefines == IInv /\ [Next]_vars => [RW!Next]_(RW!vars)
<1> SUFFICES ASSUME IInv, [Next]_vars PROVE [RW!Next]_(RW!vars)
  OBVIOUS
<1>0. off \in Nat /\ idx \in Nat /\ Length \in Int  BY Positions
<1>1. CASE Elapse  BY <1>1 DEF Elapse, RW!Next
<1>2. CASE NoByte  BY <1>2 DEF NoByte, RW!Next
<1>3. CASE Push    BY <1>3 DEF Push, RW!Next
<1>4. CASE CheckAccept
  <2>1. HeadLen <= Length /\ Length <= FrameMaxLen
    BY <1>4 DEF CheckAccept, HeadGood
  <2>2. GetFrameDataLen \in Nat
    BY <2>1, HeaderBytes DEF GetFrameDataLen
  <2>3. Length # HeadLen + 1
    BY <1>0, <1>4, <2>2 DEF CheckAccept, DataComplete, HeadLen
  <2>4. RW!CheckAccept
    BY <1>4, <2>1, <2>3 DEF CheckAccept, RW!CheckAccept, RW!Length, Length
  <2> QED BY <2>4 DEF RW!Next
<1>5. CASE ContentSkip
  <2>1. RW!ContentSkip
    BY <1>5 DEF ContentSkip, RW!ContentSkip, RW!Length, Length
  <2> QED BY <2>1 DEF RW!Next
<1>6. Waiting => Length <= FrameMaxLen
  BY <1>0, BufferAssumption DEF Waiting, HeadGood, HeadLen
<1>7. CASE TimedSkip
  <2>1. RW!TimedSkip
    BY <1>6, <1>7, Zenon DEF TimedSkip, RW!TimedSkip, RW!Length, Length
  <2> QED BY <2>1 DEF RW!Next
<1>8. CASE CheckWait
  <2>1. RW!CheckWait
    BY <1>6, <1>8 DEF CheckWait, RW!CheckWait, RW!Length, Length
  <2> QED BY <2>1 DEF RW!Next
<1>9. CASE Clear   BY <1>9 DEF Clear, RW!Next
<1>10. CASE UNCHANGED vars  BY <1>10 DEF vars, RW!vars
<1> QED
  BY <1>1, <1>2, <1>3, <1>4, <1>5, <1>7, <1>8, <1>9, <1>10 DEF Next, Check

LEMMA NextWindow == IInv /\ [Next]_vars => RWP!IInv'
<1> SUFFICES ASSUME IInv, [Next]_vars PROVE RWP!IInv'
  OBVIOUS
<1>1. [RWP!Next]_(RWP!vars)
  BY StepRefines, SameNext DEF RW!vars, RWP!vars
<1> QED BY <1>1, Sizes, RWP!NextIInv DEF IInv
-----------------------------------------------------------------------------
(* Whatever arrives next is a byte of a transmission of the line.          *)
LEMMA ArrivalsOK ==
  ASSUME LineOK, NEW a \in Arrivals
  PROVE  /\ a[1] \in Traffic \/ a[1] \in First
         /\ a[2] \in 1 .. Len(a[1])
         /\ a[1][a[2]] \in Byte
<1>1. /\ a[1] \in Traffic \/ a[1] \in First
      /\ a[2] \in 1 .. Len(a[1])
  <2>1. CASE pos < Len(cur)
    <3>1. a = <<cur, pos + 1>>  BY <2>1 DEF Arrivals
    <3>2. cur \in Seq(Byte)     BY LineAssumption DEF LineOK
    <3> QED BY <2>1, <3>1, <3>2 DEF LineOK
  <2>2. CASE ~(pos < Len(cur))
    <3>1. PICK t \in Traffic : a = <<t, 1>>  BY <2>2 DEF Arrivals
    <3>2. t \in Seq(Byte) /\ t # << >>       BY LineAssumption
    <3>3. Len(t) >= 1                        BY <3>2
    <3> QED BY <3>1, <3>2, <3>3
  <2> QED BY <2>1, <2>2
<1>2. a[1] \in Seq(Byte)
  BY <1>1, LineAssumption
<1> QED BY <1>1, <1>2

(* Storing a byte keeps the buffer a buffer. *)
LEMMA StoredOK ==
  ASSUME IInv, NEW c \in Byte
  PROVE  Stored(c) \in [0 .. Size - 1 -> Byte]
<1>1. buf \in [0 .. Size - 1 -> Byte]
  BY DEF IInv, BufferOK
<1>2. [buf EXCEPT ![off + idx] = c] \in [0 .. Size - 1 -> Byte]
  BY <1>1
<1>3. ASSUME ~(Length < 1), NEW i \in 0 .. Size - 1, i < Length
      PROVE  buf[off + i] \in Byte
  <2>1. off + i \in 0 .. Size - 1
    BY <1>3, Positions, BufferAssumption DEF Length
  <2> QED BY <1>1, <2>1
<1>4. ~(Length < 1) =>
        [i \in 0 .. Size - 1 |->
           IF i = Length - 1 THEN c
           ELSE IF i < Length THEN buf[off + i] ELSE buf[i]]
          \in [0 .. Size - 1 -> Byte]
  BY <1>1, <1>3
<1> QED BY <1>1, <1>2, <1>4 DEF Stored

LEMMA RewrittenOK ==
  ASSUME IInv, pc = "accepted", NEW h \in HeadersAfter(At(2), At(3), At(4))
  PROVE  Rewritten(h) \in [0 .. Size - 1 -> Byte]
<1>1. HeadLen <= Length
  BY DEF IInv, Accepted
<1>2. \A k \in 0 .. 7 : At(k) \in Byte
  BY <1>1, HeaderBytes
<1>3. At(2) \in Byte /\ At(3) \in Byte /\ At(4) \in Byte /\ At(5) \in Byte
      /\ At(6) \in Byte
  BY <1>2
<1>4. h[1] \in Byte /\ h[2] \in Byte /\ h[3] \in Byte
  <2>1. {0, 1, 2} \subseteq Byte /\ Master \in Byte /\ PollTargets \subseteq Byte
    BY LineAssumption
  <2>2. CASE h = <<At(2), At(3), At(4)>>
    BY <1>3, <2>2
  <2>3. CASE h = <<2, At(4), At(3)>>
    BY <1>3, <2>1, <2>3
  <2>4. CASE \E p \in PollTargets : h = <<0, p, Master>>
    BY <2>1, <2>4
  <2> QED BY <2>2, <2>3, <2>4 DEF HeadersAfter
<1>5. CalcHeadCrc(<<h[1], h[2], h[3], At(5), At(6)>>) \in Byte
  BY <1>3, <1>4, LineAssumption
<1>6. buf \in [0 .. Size - 1 -> Byte]
  BY DEF IInv, BufferOK
<1> QED BY <1>4, <1>5, <1>6 DEF Rewritten

LEMMA NextTypes ==
  IInv /\ [Next]_vars => BufferOK' /\ LineOK' /\ MarksOK' /\ Accepted'
<1> SUFFICES ASSUME IInv, [Next]_vars
             PROVE  BufferOK' /\ LineOK' /\ MarksOK' /\ Accepted'
  OBVIOUS
<1>1. BufferOK'
  <2> USE DEF IInv, BufferOK
  <2>1. CASE Push
    <3>1. PICK a \in Arrivals : buf' = Stored(a[1][a[2]])
      BY <2>1 DEF Push
    <3> QED BY <3>1, ArrivalsOK, StoredOK DEF IInv
  <2>2. CASE Clear
    <3>1. PICK h \in HeadersAfter(At(2), At(3), At(4)) : buf' = Rewritten(h)
      BY <2>2 DEF Clear
    <3>2. pc = "accepted"
      BY <2>2 DEF Clear, RW!Clear
    <3> QED BY <3>1, <3>2, RewrittenOK
  <2>3. CASE Elapse \/ NoByte \/ Check \/ UNCHANGED vars
    BY <2>3 DEF Elapse, NoByte, Check, CheckAccept, ContentSkip, TimedSkip,
                CheckWait, Dropped, vars
  <2> QED BY <2>1, <2>2, <2>3 DEF Next
<1>2. LineOK'
  <2> USE DEF IInv, LineOK
  <2>1. CASE Push
    <3>1. PICK a \in Arrivals :
            /\ cur' = a[1] /\ pos' = a[2]
            /\ rx' = IF skipped THEN rx ELSE Append(rx, a[1][a[2]])
      BY <2>1 DEF Push
    <3>2. /\ a[1] \in Traffic \/ a[1] \in First
          /\ a[2] \in 1 .. Len(a[1]) /\ a[1][a[2]] \in Byte
      BY <3>1, ArrivalsOK
    <3>3. rx' \in Seq(Byte)
      BY <3>1, <3>2
    <3>4. lulls' = lulls
      BY <2>1 DEF Push
    <3>5. pos' \in 0 .. Len(cur')
      BY <3>1, <3>2
    <3> QED BY <3>1, <3>2, <3>3, <3>4, <3>5
  <2>2. CASE Elapse
    BY <2>2, BufferAssumption DEF Elapse
  <2>3. CASE Clear \/ NoByte \/ Check \/ UNCHANGED vars
    <3>1. cur' = cur /\ pos' = pos /\ lulls' = lulls
          /\ (rx' = rx \/ rx' = << >>)
      BY <2>3, Zenon
         DEF Clear, NoByte, Check, CheckAccept, ContentSkip, TimedSkip,
             CheckWait, Dropped, history, vars
    <3>2. rx' \in Seq(Byte)
      <4>1. << >> \in Seq(Byte)  OBVIOUS
      <4> QED BY <3>1, <4>1, Zenon
    <3>3. pos' \in 0 .. Len(cur')
      BY <3>1
    <3>4. cur' \in Traffic \/ cur' \in First
      BY <3>1
    <3> QED BY <3>1, <3>2, <3>3, <3>4
  <2> QED BY <2>1, <2>2, <2>3 DEF Next
<1>3. MarksOK'
  BY Zenon DEF IInv, MarksOK, Next, Push, Clear, Elapse, NoByte, Check,
     CheckAccept, ContentSkip, TimedSkip, CheckWait, Dropped, history, vars
<1>4. Accepted'
  <2> USE DEF IInv, Accepted, Length
  <2>1. CASE CheckAccept
    BY <2>1 DEF CheckAccept
  <2>2. CASE Elapse
    BY <2>2 DEF Elapse, RW!Elapse
  <2>3. CASE NoByte \/ Push \/ ContentSkip \/ TimedSkip \/ CheckWait \/ Clear
    <3>1. pc' # "accepted"
      BY <2>3 DEF NoByte, RW!NoByte, Push, RW!Push, RW!StoreInPlace,
                  RW!StoreCompacted, ContentSkip, TimedSkip, CheckWait,
                  Clear, RW!Clear
    <3> QED BY <3>1
  <2>4. CASE UNCHANGED vars
    BY <2>4 DEF vars
  <2> QED BY <2>1, <2>2, <2>3, <2>4 DEF Next, Check
<1> QED BY <1>1, <1>2, <1>3, <1>4

-----------------------------------------------------------------------------
(* An undisturbed window after a push: it starts at the buffer's first     *)
(* byte, so that off + idx is the place behind the bytes received.         *)
LEMMA PushStream ==
  ASSUME IInv, Push, ~skipped
  PROVE  /\ off' = 0 /\ idx' = Len(rx')
         /\ \A i \in 1 .. Len(rx') : buf'[i - 1] = rx'[i]
<1>1. PICK a \in Arrivals :
        buf' = Stored(a[1][a[2]]) /\ rx' = Append(rx, a[1][a[2]])
  BY DEF Push
<1> DEFINE c == a[1][a[2]]
<1>2. c \in Byte
  BY ArrivalsOK DEF IInv
<1>3. rx \in Seq(Byte) /\ buf \in [0 .. Size - 1 -> Byte]
  BY DEF IInv, LineOK, BufferOK
<1>4. /\ off = 0 /\ idx = Len(rx)
      /\ \A i \in 1 .. Len(rx) : buf[i - 1] = rx[i]
  BY DEF IInv, WindowIsStream
<1>5. idx \in Nat /\ idx < Size /\ Size \in Nat /\ 1 <= Size \div 5
  BY Positions, BufferAssumption
<1>6. buf' = [buf EXCEPT ![idx] = c]
  BY <1>1, <1>4, <1>5 DEF Stored
<1>7. off' = 0 /\ idx' = idx + 1
  BY <1>4, <1>5 DEF Push, RW!Push, RW!StoreInPlace, RW!Compact
<1>8. Len(rx') = Len(rx) + 1
      /\ \A i \in 1 .. Len(rx') : rx'[i] = IF i = Len(rx) + 1 THEN c ELSE rx[i]
  BY <1>1, <1>2, <1>3
<1>9. ASSUME NEW i \in 1 .. Len(rx') PROVE buf'[i - 1] = rx'[i]
  <2>1. i - 1 \in 0 .. Size - 1
    BY <1>4, <1>5, <1>8
  <2>2. CASE i = Len(rx) + 1
    BY <1>3, <1>4, <1>6, <1>8, <2>1, <2>2
  <2>3. CASE i # Len(rx) + 1
    <3>1. i \in 1 .. Len(rx) /\ i - 1 # idx
      BY <1>3, <1>4, <1>8, <2>3
    <3> QED BY <1>3, <1>4, <1>6, <1>8, <2>1, <2>3, <3>1
  <2> QED BY <2>2, <2>3
<1> QED BY <1>4, <1>7, <1>8, <1>9

LEMMA NextStream == IInv /\ [Next]_vars => WindowIsStream'
<1> SUFFICES ASSUME IInv, [Next]_vars PROVE WindowIsStream'
  OBVIOUS
<1>1. CASE Push
  <2>1. skipped' = skipped  BY <1>1 DEF Push
  <2> QED BY <1>1, <2>1, PushStream DEF WindowIsStream
<1>2. CASE Clear
  <2>1. off' = 0 /\ idx' = 0 /\ rx' = << >>
    BY <1>2 DEF Clear, RW!Clear
  <2> QED BY <2>1 DEF WindowIsStream
<1>3. CASE ContentSkip \/ TimedSkip
  BY <1>3 DEF ContentSkip, TimedSkip, Dropped, WindowIsStream
<1>4. CASE Elapse \/ NoByte \/ CheckAccept \/ CheckWait \/ UNCHANGED vars
  <2>1. UNCHANGED <<off, idx, buf, rx, skipped>>
    BY <1>4 DEF Elapse, RW!Elapse, NoByte, RW!NoByte, CheckAccept, CheckWait,
                history, vars
  <2> QED BY <2>1 DEF IInv, WindowIsStream
<1> QED BY <1>1, <1>2, <1>3, <1>4 DEF Next, Check

(* The invariant holds of every behaviour. *)
THEOREM Invariance == Spec => []IInv
<1>1. IInv /\ [Next]_vars => IInv'
  BY NextWindow, NextTypes, NextStream DEF IInv
<1> QED BY <1>1, InitIInv, PTL DEF Spec

(* The receiver's variables keep their types; no byte of the buffer, read  *)
(* or rewritten, is outside the range of unsigned char.                    *)
THEOREM TypeCorrect == Spec => []TypeOK
<1>1. IInv => TypeOK
  BY DEF IInv, RWP!IInv, RWP!TypeOK, RWP!Faults, BufferOK, LineOK, MarksOK,
         TypeOK, RW!TypeOK, RW!Faults
<1> QED BY <1>1, Invariance, PTL

(* Until a byte is dropped, Check() sees exactly what was received since   *)
(* the last clear().                                                       *)
THEOREM WindowIsStreamCorrect == Spec => []WindowIsStream
<1>1. IInv => WindowIsStream  BY DEF IInv
<1> QED BY <1>1, Invariance, PTL

(* The receiver implements RecvWindow: what is proved of the positions     *)
(* there holds of the receiver with its bytes.                             *)
THEOREM ImplementsRecvWindow == Spec => RecvWindowSpec
<1>1. Init => RW!Init  BY DEF Init
<1> QED BY <1>1, Invariance, StepRefines, PTL DEF Spec, RecvWindowSpec, RW!Spec

-----------------------------------------------------------------------------
(* Sequences: equality by elements, concatenation, wider element sets.     *)
LEMMA SameElements ==
  ASSUME NEW S, NEW p \in Seq(S), NEW q \in Seq(S), Len(p) = Len(q),
         \A i \in 1 .. Len(p) : p[i] = q[i]
  PROVE  p = q
BY SMT

IsJoin(f, p, q) ==
  /\ Len(f) = Len(p) + Len(q)
  /\ \A i \in 1 .. Len(p) : f[i] = p[i]
  /\ \A i \in 1 .. Len(q) : f[Len(p) + i] = q[i]

LEMMA Joined ==
  ASSUME NEW S, NEW p \in Seq(S), NEW q \in Seq(S)
  PROVE  p \o q \in Seq(S) /\ IsJoin(p \o q, p, q)
BY SMT DEF IsJoin

LEMMA NothingBehind ==
  ASSUME NEW S, NEW q \in Seq(S)
  PROVE  q \o << >> = q
BY SMT

(* Eight elements q, any number d, and two more.                           *)
IsFrame(f, q, d, z) ==
  /\ Len(f) = Len(d) + 10
  /\ \A i \in 1 .. 8 : f[i] = q[i]
  /\ \A i \in 1 .. Len(d) : f[8 + i] = d[i]
  /\ f[Len(d) + 9] = z[1] /\ f[Len(d) + 10] = z[2]

LEMMA ThreeParts ==
  ASSUME NEW S, NEW q \in Seq(S), NEW d \in Seq(S), NEW z \in Seq(S)
  PROVE  Len(q) = 8 /\ Len(z) = 2 =>
           q \o (d \o z) \in Seq(S) /\ IsFrame(q \o (d \o z), q, d, z)
<1>1. SUFFICES ASSUME Len(q) = 8, Len(z) = 2
               PROVE  q \o (d \o z) \in Seq(S) /\ IsFrame(q \o (d \o z), q, d, z)
  OBVIOUS
<1>2. PICK r : r = d \o z
  OBVIOUS
<1>3. r \in Seq(S) /\ IsJoin(r, d, z)
  BY <1>2, Joined, Zenon
<1>4. PICK f : f = q \o r
  OBVIOUS
<1>5. f \in Seq(S) /\ IsJoin(f, q, r)
  BY <1>3, <1>4, Joined, Zenon
<1>6. Len(d) \in Nat
  OBVIOUS
<1>7. IsFrame(f, q, d, z)
  <2>1. /\ Len(r) = Len(d) + 2
        /\ \A i \in 1 .. Len(d) : r[i] = d[i]
        /\ \A i \in 1 .. 2 : r[Len(d) + i] = z[i]
    BY <1>1, <1>3, Zenon DEF IsJoin
  <2>2. /\ Len(f) = 8 + Len(r)
        /\ \A i \in 1 .. 8 : f[i] = q[i]
        /\ \A i \in 1 .. Len(r) : f[8 + i] = r[i]
    BY <1>1, <1>5, Zenon DEF IsJoin
  <2>3. PICK n \in Nat : n = Len(d)
    BY <1>6
  <2>4. /\ Len(r) = n + 2
        /\ \A i \in 1 .. n : r[i] = d[i]
        /\ \A i \in 1 .. 2 : r[n + i] = z[i]
    BY <2>1, <2>3, Zenon
  <2>5. /\ Len(f) = n + 10
        /\ \A i \in 1 .. n + 2 : f[8 + i] = r[i]
    BY <2>2, <2>4, SMT
  <2>6. \A i \in 1 .. n : f[8 + i] = d[i]
    BY <2>4, <2>5, SMT
  <2>7. f[n + 9] = r[n + 1] /\ f[n + 10] = r[n + 2]
    <3>1. n + 1 \in 1 .. n + 2 /\ n + 2 \in 1 .. n + 2
          /\ 8 + (n + 1) = n + 9 /\ 8 + (n + 2) = n + 10
      OBVIOUS
    <3>2. f[8 + (n + 1)] = r[n + 1] /\ f[8 + (n + 2)] = r[n + 2]
      BY <2>5, <3>1, Zenon
    <3> QED BY <3>1, <3>2, Zenon
  <2>8. r[n + 1] = z[1] /\ r[n + 2] = z[2]
    BY <2>4, SMT
  <2> QED BY <2>2, <2>3, <2>5, <2>6, <2>7, <2>8, Zenon DEF IsFrame
<1> QED BY <1>2, <1>4, <1>5, <1>7, Zenon

LEMMA SeqWider ==
  ASSUME NEW A, NEW B, A \subseteq B, NEW s \in Seq(A)
  PROVE  s \in Seq(B)
BY SMT

(* The eight octets in front of n octets of data, and the same octets as   *)
(* FrameOf puts them together.                                             *)
Octets8(t, u, v, n) ==
  <<85, 255, t, u, v, n \div 256, n % 256,
    CalcHeadCrc(<<t, u, v, n \div 256, n % 256>>)>>

Glued(c) == <<c[1], c[2]>> \o <<c[3], c[4], c[5], c[6], c[7]>> \o <<c[8]>>

Opening(t, u, v, n) ==
  <<85, 255>> \o <<t, u, v, n \div 256, n % 256>>
    \o <<CalcHeadCrc(<<t, u, v, n \div 256, n % 256>>)>>

Closing(data) == <<CalcDataCrc(data) % 256, CalcDataCrc(data) \div 256>>

LEMMA GluedOctets ==
  ASSUME NEW S, NEW c \in [1 .. 8 -> S]
  PROVE  /\ Glued(c) \in Seq(S) /\ Len(Glued(c)) = 8
         /\ \A i \in 1 .. 8 : Glued(c)[i] = c[i]
<1>1. /\ c[1] \in S /\ c[2] \in S /\ c[3] \in S /\ c[4] \in S /\ c[5] \in S
      /\ c[6] \in S /\ c[7] \in S /\ c[8] \in S
  OBVIOUS
<1>2. PICK f : f = Glued(c)
  OBVIOUS
<1>3. /\ f \in Seq(S) /\ Len(f) = 8
      /\ f[1] = c[1] /\ f[2] = c[2] /\ f[3] = c[3] /\ f[4] = c[4] /\ f[5] = c[5]
      /\ f[6] = c[6] /\ f[7] = c[7] /\ f[8] = c[8]
  BY <1>1, <1>2, SMT DEF Glued
<1>4. \A i \in 1 .. 8 : i \in {1, 2, 3, 4, 5, 6, 7, 8}
  OBVIOUS
<1>5. \A i \in 1 .. 8 : f[i] = c[i]
  BY <1>3, <1>4, Zenon
<1> QED BY <1>2, <1>3, <1>5, Zenon

LEMMA OpeningGlued ==
  ASSUME NEW t, NEW u, NEW v, NEW n
  PROVE  Opening(t, u, v, n) = Glued(Octets8(t, u, v, n))
<1>1. PICK c : c = Octets8(t, u, v, n)
  OBVIOUS
<1>2. /\ c[1] = 85 /\ c[2] = 255 /\ c[3] = t /\ c[4] = u /\ c[5] = v
      /\ c[6] = n \div 256 /\ c[7] = n % 256
      /\ c[8] = CalcHeadCrc(<<t, u, v, n \div 256, n % 256>>)
  BY <1>1 DEF Octets8
<1>3. Opening(t, u, v, n) = Glued(c)
  BY <1>2, Zenon DEF Opening, Glued
<1> QED BY <1>1, <1>3, Zenon

LEMMA NoData ==
  ASSUME NEW t, NEW u, NEW v
  PROVE  FrameOf(t, u, v, << >>) = Opening(t, u, v, Len(<< >>)) \o << >>
BY DEF FrameOf, Opening

LEMMA WithData ==
  ASSUME NEW t, NEW u, NEW v, NEW data, data # << >>
  PROVE  FrameOf(t, u, v, data)
           = Opening(t, u, v, Len(data)) \o (data \o Closing(data))
BY DEF FrameOf, Opening, Closing

(* What FrameOf builds, octet by octet. *)
IsHead(f, c) == Len(f) = 8 /\ \A i \in 1 .. 8 : f[i] = c[i]

LEMMA ShortFrame ==
  ASSUME NEW S, NEW t, NEW u, NEW v, NEW c \in [1 .. 8 -> S]
  PROVE  c = Octets8(t, u, v, Len(<< >>)) =>
           FrameOf(t, u, v, << >>) \in Seq(S) /\ IsHead(FrameOf(t, u, v, << >>), c)
<1>1. SUFFICES ASSUME c = Octets8(t, u, v, Len(<< >>))
               PROVE  /\ FrameOf(t, u, v, << >>) \in Seq(S)
                      /\ IsHead(FrameOf(t, u, v, << >>), c)
  OBVIOUS
<1>2. PICK q : q = Glued(c)
  OBVIOUS
<1>3. q \in Seq(S) /\ Len(q) = 8 /\ \A i \in 1 .. 8 : q[i] = c[i]
  BY <1>2, GluedOctets, Zenon
<1>4. q \o << >> = q
  BY <1>3, NothingBehind, Zenon
<1>5. FrameOf(t, u, v, << >>) = q
  BY <1>1, <1>2, <1>4, NoData, OpeningGlued, Zenon
<1> QED BY <1>3, <1>5, Zenon DEF IsHead

LEMMA LongFrame ==
  ASSUME NEW S, NEW t, NEW u, NEW v, NEW d \in Seq(S), NEW c \in [1 .. 8 -> S]
  PROVE  c = Octets8(t, u, v, Len(d)) /\ d # << >> /\ Closing(d) \in Seq(S) =>
           /\ FrameOf(t, u, v, d) \in Seq(S)
           /\ IsFrame(FrameOf(t, u, v, d), c, d, Closing(d))
<1>1. SUFFICES ASSUME c = Octets8(t, u, v, Len(d)), d # << >>, Closing(d) \in Seq(S)
               PROVE  /\ FrameOf(t, u, v, d) \in Seq(S)
                      /\ IsFrame(FrameOf(t, u, v, d), c, d, Closing(d))
  OBVIOUS
<1>2. PICK q, z : q = Glued(c) /\ z = Closing(d)
  OBVIOUS
<1>3. q \in Seq(S) /\ Len(q) = 8 /\ \A i \in 1 .. 8 : q[i] = c[i]
  BY <1>2, GluedOctets, Zenon
<1>4. z \in Seq(S) /\ Len(z) = 2
  BY <1>1, <1>2 DEF Closing
<1>5. PICK f : f = FrameOf(t, u, v, d)
  OBVIOUS
<1>6. f = q \o (d \o z)
  BY <1>1, <1>2, <1>5, WithData, OpeningGlued, Zenon
<1>7. f \in Seq(S) /\ IsFrame(f, q, d, z)
  BY <1>3, <1>4, <1>6, ThreeParts, Zenon
<1>8. IsFrame(f, c, d, z)
  BY <1>3, <1>7, Zenon DEF IsFrame
<1> QED BY <1>2, <1>5, <1>7, <1>8, Zenon

-----------------------------------------------------------------------------
LEMMA ByteRange == \A b \in Byte : b \in 0 .. 255
BY LineAssumption

(* The data length that a header announces, and the data in a frame.       *)
Announced(s) == 256 * s[6] + s[7]
DataOf(s) == SubSeq(s, HeadLen + 1, Len(s) - 2)

LEMMA DataOfLength ==
  ASSUME NEW s \in Seq(Byte)
  PROVE  /\ DataOf(s) \in Seq(Byte) /\ Len(DataOf(s)) \in Nat
         /\ 10 <= Len(s) => Len(DataOf(s)) = Len(s) - 10
         /\ Len(s) < 10 => Len(DataOf(s)) = 0
         /\ \A i \in 1 .. Len(DataOf(s)) : DataOf(s)[i] = s[8 + i]
<1>1. PICK n \in Nat : n = Len(s)
  OBVIOUS
<1>2. PICK d : d = SubSeq(s, 9, n - 2)
  OBVIOUS
<1>3. d = DataOf(s)
  BY <1>1, <1>2 DEF DataOf, HeadLen
<1>4. d \in Seq(Byte)
  BY <1>1, <1>2
<1>5. Len(d) = IF 9 <= n - 2 THEN (n - 2) - 9 + 1 ELSE 0
  BY <1>2
<1>6. \A i \in 1 .. Len(d) : d[i] = s[8 + i]
  BY <1>1, <1>2
<1>7. Len(d) \in Nat
  BY <1>4
<1>8. (10 <= n => Len(d) = n - 10) /\ (n < 10 => Len(d) = 0)
  BY <1>5
<1> QED BY <1>1, <1>3, <1>4, <1>6, <1>7, <1>8, Zenon

(* What makes a sequence of bytes a frame. *)
FrameShape(s) ==
  /\ s[1] = 85 /\ s[2] = 255
  /\ CalcHeadCrc(<<s[3], s[4], s[5], s[6], s[7]>>) = s[8]
  /\ \/ Len(s) = 8 /\ Announced(s) = 0
     \/ /\ Len(s) = Announced(s) + 10 /\ Announced(s) > 0
        /\ s[Len(s) - 1] = Closing(DataOf(s))[1]
        /\ s[Len(s)] = Closing(DataOf(s))[2]

LEMMA HighLow ==
  ASSUME NEW n \in Nat
  PROVE  256 * (n \div 256) + (n % 256) = n
OBVIOUS

LEMMA ShapeOfFrame ==
  ASSUME NEW s \in Seq(Byte), WholeFrame(s)
  PROVE  FrameShape(s)
<1>1. PICK d : d = DataOf(s)
  OBVIOUS
<1>2. PICK n \in Nat : n = Len(d)
  BY <1>1, DataOfLength
<1>3. PICK c : c = Octets8(s[3], s[4], s[5], n)
  OBVIOUS
<1>4. /\ c[1] = 85 /\ c[2] = 255 /\ c[6] = n \div 256 /\ c[7] = n % 256
      /\ c[3] = s[3] /\ c[4] = s[4] /\ c[5] = s[5]
      /\ c[8] = CalcHeadCrc(<<s[3], s[4], s[5], c[6], c[7]>>)
  BY <1>3 DEF Octets8
<1>5. s = FrameOf(s[3], s[4], s[5], d)
  BY <1>1, Zenon DEF WholeFrame, DataOf
<1> DEFINE S == Byte \cup {c[i] : i \in 1 .. 8} \cup {Closing(d)[1], Closing(d)[2]}
<1>6. c \in [1 .. 8 -> S]
  BY <1>3 DEF Octets8
<1>7. d \in Seq(S)
  <2>1. d \in Seq(Byte) /\ Byte \subseteq S
    BY <1>1, DataOfLength
  <2> HIDE DEF S
  <2> QED BY <2>1, SeqWider
<1>8. Closing(d) \in Seq(S)
  <2>1. Closing(d)[1] \in S /\ Closing(d)[2] \in S
    OBVIOUS
  <2> HIDE DEF S
  <2>2. PICK x, y : x = CalcDataCrc(d) % 256 /\ y = CalcDataCrc(d) \div 256
    OBVIOUS
  <2>3. Closing(d) = <<x, y>>
    BY <2>2, Zenon DEF Closing
  <2>4. x \in S /\ y \in S
    BY <2>1, <2>3
  <2> QED BY <2>3, <2>4
<1> HIDE DEF S
<1>8a. d = << >> => IsHead(s, c)
  <2>1. SUFFICES ASSUME d = << >> PROVE IsHead(s, c)
    OBVIOUS
  <2>2. c = Octets8(s[3], s[4], s[5], Len(<< >>)) /\ s = FrameOf(s[3], s[4], s[5], << >>)
    BY <1>2, <1>3, <1>5, <2>1
  <2>3. IsHead(FrameOf(s[3], s[4], s[5], << >>), c)
    BY <1>6, <2>2, ShortFrame, Zenon
  <2> QED BY <2>2, <2>3, Zenon
<1>8b. d # << >> => IsFrame(s, c, d, Closing(d))
  <2>1. SUFFICES ASSUME d # << >> PROVE IsFrame(s, c, d, Closing(d))
    OBVIOUS
  <2>2. c = Octets8(s[3], s[4], s[5], Len(d))
    BY <1>2, <1>3, Zenon
  <2>3. IsFrame(FrameOf(s[3], s[4], s[5], d), c, d, Closing(d))
    <3>1. c = Octets8(s[3], s[4], s[5], Len(d)) /\ d # << >> /\ Closing(d) \in Seq(S)
          => /\ FrameOf(s[3], s[4], s[5], d) \in Seq(S)
             /\ IsFrame(FrameOf(s[3], s[4], s[5], d), c, d, Closing(d))
      BY <1>6, <1>7, LongFrame, Zenon
    <3> QED BY <1>8, <2>1, <2>2, <3>1, Zenon
  <2> QED BY <1>5, <2>3, Zenon
<1>9. \A i \in 1 .. 8 : s[i] = c[i]
  <2>1. CASE d = << >>
    BY <1>8a, <2>1, Zenon DEF IsHead
  <2>2. CASE d # << >>
    BY <1>8b, <2>2, Zenon DEF IsFrame
  <2> QED BY <2>1, <2>2
<1>10. /\ s[1] = c[1] /\ s[2] = c[2] /\ s[6] = c[6] /\ s[7] = c[7] /\ s[8] = c[8]
  BY <1>9
<1>11. Announced(s) = n
  <2>1. Announced(s) = 256 * (n \div 256) + (n % 256)
    BY <1>4, <1>10, Zenon DEF Announced
  <2> QED BY <2>1, HighLow, Zenon
<1>11a. /\ s[1] = 85 /\ s[2] = 255
        /\ CalcHeadCrc(<<s[3], s[4], s[5], s[6], s[7]>>) = s[8]
  BY <1>4, <1>10
<1>12. CASE d = << >>
  <2>1. Len(s) = 8
    BY <1>8a, <1>12, Zenon DEF IsHead
  <2>2. n = 0
    BY <1>2, <1>12
  <2> QED BY <1>11, <1>11a, <2>1, <2>2, Zenon DEF FrameShape
<1>13. CASE d # << >>
  <2>1. IsFrame(s, c, d, Closing(d))
    BY <1>8b, <1>13, Zenon
  <2>2. Len(s) = n + 10 /\ s[n + 9] = Closing(d)[1] /\ s[n + 10] = Closing(d)[2]
    BY <1>2, <2>1, Zenon DEF IsFrame
  <2>3. n > 0
    BY <1>1, <1>2, <1>13, DataOfLength
  <2>4. PICK k : k = n + 10
    OBVIOUS
  <2>5. n + 9 = k - 1
    BY <2>4
  <2>6. /\ Len(s) = n + 10 /\ n > 0
        /\ s[Len(s) - 1] = Closing(d)[1] /\ s[Len(s)] = Closing(d)[2]
    BY <2>2, <2>3, <2>4, <2>5, Zenon
  <2>7. /\ Len(s) = Announced(s) + 10 /\ Announced(s) > 0
        /\ s[Len(s) - 1] = Closing(DataOf(s))[1]
        /\ s[Len(s)] = Closing(DataOf(s))[2]
    BY <1>1, <1>11, <2>6, Zenon
  <2> QED BY <1>11a, <2>7, Zenon DEF FrameShape
<1> QED BY <1>12, <1>13

LEMMA FrameOfShape ==
  ASSUME NEW s \in Seq(Byte), HeadLen <= Len(s), Len(s) <= FrameMaxLen,
         FrameShape(s)
  PROVE  WholeFrame(s)
<1>1. PICK d : d = DataOf(s)
  OBVIOUS
<1>2. PICK n \in Nat : n = Len(d)
  BY <1>1, DataOfLength
<1>3. PICK l \in Nat : l = Len(s) /\ l >= 8
  BY DEF HeadLen
<1>4. \A i \in 1 .. 8 : s[i] \in Byte
  BY <1>3
<1>5. s[6] \in 0 .. 255 /\ s[7] \in 0 .. 255
  BY <1>4, ByteRange
<1>6. Announced(s) \in Nat
  <2>1. \A a, b \in 0 .. 255 : 256 * a + b \in Nat
    OBVIOUS
  <2> QED BY <1>5, <2>1, Zenon DEF Announced
<1>7. Announced(s) = n /\ (n = 0 => l = 8) /\ (n > 0 => l = n + 10)
  <2>1. /\ 10 <= l => n = l - 10
        /\ l < 10 => n = 0
    BY <1>1, <1>2, <1>3, DataOfLength, Zenon
  <2>2. (l = 8 /\ Announced(s) = 0) \/ (l = Announced(s) + 10 /\ Announced(s) > 0)
    BY <1>3, Zenon DEF FrameShape
  <2> QED BY <1>6, <2>1, <2>2
<1>8. s[6] = n \div 256 /\ s[7] = n % 256
  <2>1. PICK a, b : a = s[6] /\ b = s[7]
    OBVIOUS
  <2>2. a \in 0 .. 255 /\ b \in 0 .. 255 /\ 256 * a + b = n
    BY <1>5, <1>7, <2>1, Zenon DEF Announced
  <2>3. a = n \div 256 /\ b = n % 256
    BY <2>2
  <2> QED BY <2>1, <2>3, Zenon
<1>9. PICK c : c = Octets8(s[3], s[4], s[5], n)
  OBVIOUS
<1>10. \A i \in 1 .. 8 : c[i] = s[i]
  <2>1. /\ c[1] = 85 /\ c[2] = 255 /\ c[6] = n \div 256 /\ c[7] = n % 256
        /\ c[3] = s[3] /\ c[4] = s[4] /\ c[5] = s[5]
        /\ c[8] = CalcHeadCrc(<<s[3], s[4], s[5], n \div 256, n % 256>>)
    BY <1>9 DEF Octets8
  <2>2. s[1] = 85 /\ s[2] = 255
        /\ s[8] = CalcHeadCrc(<<s[3], s[4], s[5], s[6], s[7]>>)
    BY Zenon DEF FrameShape
  <2>3. /\ c[1] = s[1] /\ c[2] = s[2] /\ c[3] = s[3] /\ c[4] = s[4]
        /\ c[5] = s[5] /\ c[6] = s[6] /\ c[7] = s[7] /\ c[8] = s[8]
    <3>1. c[8] = s[8]
      BY <1>8, <2>1, <2>2
    <3>2. c[6] = s[6] /\ c[7] = s[7]
      BY <1>8, <2>1
    <3>3. c[1] = s[1] /\ c[2] = s[2] /\ c[3] = s[3] /\ c[4] = s[4] /\ c[5] = s[5]
      BY <2>1, <2>2
    <3> QED BY <3>1, <3>2, <3>3
  <2>4. \A i \in 1 .. 8 : i \in {1, 2, 3, 4, 5, 6, 7, 8}
    OBVIOUS
  <2> QED BY <2>3, <2>4, Zenon
<1>11. c \in [1 .. 8 -> Byte]
  <2>1. \A i \in 1 .. 8 : c[i] \in Byte
    BY <1>4, <1>10, Zenon
  <2> QED BY <1>9, <2>1 DEF Octets8
<1>12. PICK f : f = FrameOf(s[3], s[4], s[5], d)
  OBVIOUS
<1>13. f \in Seq(Byte) /\ Len(f) = l /\ \A i \in 1 .. l : f[i] = s[i]
  <2>1. CASE d = << >>
    <3>1. n = 0
      BY <1>2, <2>1
    <3>2. c = Octets8(s[3], s[4], s[5], Len(<< >>))
          /\ f = FrameOf(s[3], s[4], s[5], << >>)
      BY <1>2, <1>9, <1>12, <2>1
    <3>3. f \in Seq(Byte) /\ IsHead(f, c)
      BY <1>11, <3>2, ShortFrame, Zenon
    <3>4. l = 8
      BY <1>7, <3>1
    <3> QED BY <1>10, <3>3, <3>4, Zenon DEF IsHead
  <2>2. CASE d # << >>
    <3>1. d \in Seq(Byte)
      BY <1>1, DataOfLength, Zenon
    <3>2. n > 0 /\ l = n + 10
      <4>1. n > 0
        BY <1>2, <2>2, <3>1
      <4> QED BY <1>7, <4>1
    <3>3. s[l - 1] = Closing(d)[1] /\ s[l] = Closing(d)[2]
      <4>1. Announced(s) # 0
        BY <1>7, <3>2
      <4> QED BY <1>1, <1>3, <4>1, Zenon DEF FrameShape
    <3>4. Closing(d) \in Seq(Byte)
      <4>1. PICK x, y : x = CalcDataCrc(d) % 256 /\ y = CalcDataCrc(d) \div 256
        OBVIOUS
      <4>2. Closing(d) = <<x, y>>
        BY <4>1, Zenon DEF Closing
      <4>3. s[l - 1] \in Byte /\ s[l] \in Byte
        <5>1. l - 1 \in 1 .. Len(s) /\ l \in 1 .. Len(s)
          BY <1>3, <3>2
        <5> QED BY <5>1
      <4>4. x \in Byte /\ y \in Byte
        BY <3>3, <4>2, <4>3
      <4> QED BY <4>2, <4>4
    <3>5. f \in Seq(Byte) /\ IsFrame(f, c, d, Closing(d))
      <4>1. c = Octets8(s[3], s[4], s[5], Len(d))
        BY <1>2, <1>9, Zenon
      <4> QED BY <1>11, <1>12, <2>2, <3>1, <3>4, <4>1, LongFrame, Zenon
    <3>6. /\ Len(f) = n + 10 /\ \A i \in 1 .. 8 : f[i] = c[i]
          /\ \A i \in 1 .. n : f[8 + i] = d[i]
          /\ f[n + 9] = Closing(d)[1] /\ f[n + 10] = Closing(d)[2]
      BY <1>2, <3>5, Zenon DEF IsFrame
    <3>7. \A i \in 1 .. n : d[i] = s[8 + i]
      BY <1>1, <1>2, DataOfLength, Zenon
    <3>8. l - 1 = n + 9
      BY <3>2
    <3>9. f[n + 9] = s[n + 9] /\ f[n + 10] = s[n + 10]
      BY <3>2, <3>3, <3>6, <3>8, Zenon
    <3>10. ASSUME NEW i \in 1 .. n + 10 PROVE f[i] = s[i]
      <4>1. i \in 1 .. 8 \/ (\E j \in 1 .. n : i = 8 + j) \/ i = n + 9 \/ i = n + 10
        <5>1. i > 8 /\ i <= 8 + n => i - 8 \in 1 .. n /\ i = 8 + (i - 8)
          OBVIOUS
        <5> QED BY <5>1
      <4>2. i \in 1 .. 8 => f[i] = s[i]
        BY <1>10, <3>6, Zenon
      <4>3. \A j \in 1 .. n : f[8 + j] = s[8 + j]
        BY <3>6, <3>7, Zenon
      <4> QED BY <3>9, <4>1, <4>2, <4>3, Zenon
    <3> QED BY <3>2, <3>5, <3>6, <3>10, Zenon
  <2> QED BY <2>1, <2>2
<1>14. f = s
  BY <1>3, <1>13, SameElements, Zenon
<1> QED BY <1>1, <1>12, <1>14, Zenon DEF WholeFrame, DataOf

-----------------------------------------------------------------------------
(* What is known of an undisturbed window besides that it holds rx: as     *)
(* long as no frame is recognised, the bytes received are too few for the  *)
(* frame that the header announces, and a header that announces no data is *)
(* never followed by another byte.                                         *)
Undecided ==
  ~skipped =>
    /\ (pc = "recv" /\ HeadLen <= Len(rx)) =>
         Announced(rx) # 0 /\ Len(rx) < Announced(rx) + 10
    /\ (pc = "check" /\ HeadLen < Len(rx)) =>
         Announced(rx) # 0 /\ Len(rx) <= Announced(rx) + 10
    /\ pc = "accepted" => WholeFrame(rx)

(* The window read through At is rx.                                       *)
LEMMA WindowRead ==
  ASSUME IInv, ~skipped
  PROVE  /\ rx \in Seq(Byte) /\ Len(rx) \in Nat /\ Length = Len(rx)
         /\ \A k \in 0 .. Len(rx) - 1 : At(k) = rx[k + 1]
<1>1. rx \in Seq(Byte)
  BY DEF IInv, LineOK
<1>2. /\ off = 0 /\ idx = Len(rx)
      /\ \A i \in 1 .. Len(rx) : buf[i - 1] = rx[i]
  BY DEF IInv, WindowIsStream
<1>3. PICK n \in Nat : n = Len(rx)
  BY <1>1
<1>4. Length = n
  BY <1>2, <1>3 DEF Length
<1>5. \A k \in 0 .. n - 1 : At(k) = rx[k + 1]
  <2>1. SUFFICES ASSUME NEW k \in 0 .. n - 1 PROVE At(k) = rx[k + 1]
    OBVIOUS
  <2>2. k + 1 \in 1 .. n /\ (k + 1) - 1 = k /\ 0 + k = k
    OBVIOUS
  <2>3. buf[k] = rx[k + 1]
    BY <1>2, <1>3, <2>2, Zenon
  <2> QED BY <1>2, <2>2, <2>3, Zenon DEF At
<1> QED BY <1>1, <1>3, <1>4, <1>5, Zenon

LEMMA HeadRead ==
  ASSUME IInv, ~skipped, HeadLen <= Len(rx)
  PROVE  /\ At(0) = rx[1] /\ At(1) = rx[2] /\ At(2) = rx[3] /\ At(3) = rx[4]
         /\ At(4) = rx[5] /\ At(5) = rx[6] /\ At(6) = rx[7] /\ At(7) = rx[8]
         /\ GetFrameDataLen = Announced(rx) /\ Announced(rx) \in Nat
<1>1. PICK n \in Nat : n = Len(rx)
  BY WindowRead
<1>2. \A k \in 0 .. 7 : k \in 0 .. n - 1 /\ k + 1 \in 1 .. n
  BY <1>1 DEF HeadLen
<1>3. \A k \in 0 .. 7 : At(k) = rx[k + 1]
  BY <1>1, <1>2, WindowRead, Zenon
<1>4. /\ At(0) = rx[1] /\ At(1) = rx[2] /\ At(2) = rx[3] /\ At(3) = rx[4]
      /\ At(4) = rx[5] /\ At(5) = rx[6] /\ At(6) = rx[7] /\ At(7) = rx[8]
  BY <1>3
<1>5. rx[6] \in 0 .. 255 /\ rx[7] \in 0 .. 255
  <2>1. rx[6] \in Byte /\ rx[7] \in Byte
    BY WindowRead, <1>1 DEF HeadLen
  <2> QED BY <2>1, ByteRange, Zenon
<1>6. PICK a, b \in 0 .. 255 : a = rx[6] /\ b = rx[7]
  BY <1>5, Zenon
<1>7. GetFrameDataLen = a * 256 + b /\ Announced(rx) = 256 * a + b
  BY <1>4, <1>6, Zenon DEF GetFrameDataLen, Announced
<1>8. a * 256 + b = 256 * a + b /\ 256 * a + b \in Nat
  OBVIOUS
<1> QED BY <1>4, <1>7, <1>8, Zenon

LEMMA DataRead ==
  ASSUME IInv, ~skipped, 10 <= Len(rx)
  PROVE  FrameData = DataOf(rx)
<1>1. PICK n \in Nat : n = Len(rx) /\ 10 <= n
  BY WindowRead
<1>2. PICK d : d = DataOf(rx)
  OBVIOUS
<1>3. /\ d \in Seq(Byte) /\ Len(d) = n - 10
      /\ \A i \in 1 .. n - 10 : d[i] = rx[8 + i]
  <2>1. /\ d \in Seq(Byte) /\ Len(d) \in Nat
        /\ 10 <= Len(rx) => Len(d) = Len(rx) - 10
        /\ \A i \in 1 .. Len(d) : d[i] = rx[8 + i]
    BY WindowRead, DataOfLength, <1>2, Zenon
  <2> QED BY <1>1, <2>1, Zenon
<1>4. FrameData = [k \in 1 .. n - 10 |-> At(8 + k - 1)]
  <2>1. Length - HeadLen - 2 = n - 10
    BY <1>1, WindowRead DEF HeadLen
  <2> QED BY <2>1, Zenon DEF FrameData, HeadLen
<1>5. \A k \in 1 .. n - 10 : At(8 + k - 1) = d[k]
  <2>1. SUFFICES ASSUME NEW k \in 1 .. n - 10 PROVE At(8 + k - 1) = d[k]
    OBVIOUS
  <2>2. 8 + k - 1 \in 0 .. n - 1 /\ (8 + k - 1) + 1 = 8 + k
    BY <1>1
  <2>3. At(8 + k - 1) = rx[8 + k]
    BY <1>1, <2>2, WindowRead, Zenon
  <2> QED BY <1>3, <2>3, Zenon
<1>6. d = [k \in 1 .. n - 10 |-> d[k]]
  BY <1>3
<1> QED BY <1>2, <1>4, <1>5, <1>6

LEMMA AcceptedIsFrame ==
  ASSUME IInv, Undecided, ~skipped, CheckAccept
  PROVE  WholeFrame(rx)
<1>1. PICK n \in Nat : n = Len(rx) /\ n = Length
  BY WindowRead
<1>2. 8 <= n /\ n <= FrameMaxLen /\ pc = "check"
  BY <1>1 DEF CheckAccept, HeadGood, HeadLen
<1>3. /\ At(0) = rx[1] /\ At(1) = rx[2] /\ At(2) = rx[3] /\ At(3) = rx[4]
      /\ At(4) = rx[5] /\ At(5) = rx[6] /\ At(6) = rx[7] /\ At(7) = rx[8]
      /\ GetFrameDataLen = Announced(rx) /\ Announced(rx) \in Nat
  BY <1>1, <1>2, HeadRead, Zenon DEF HeadLen
<1>4. /\ rx[1] = 85 /\ rx[2] = 255
      /\ CalcHeadCrc(<<rx[3], rx[4], rx[5], rx[6], rx[7]>>) = rx[8]
  BY <1>3, Zenon DEF CheckAccept, HeadGood
<1>5. \/ n = 8 /\ Announced(rx) = 0
      \/ /\ n = Announced(rx) + 10 /\ Announced(rx) > 0
         /\ rx[n - 1] = Closing(DataOf(rx))[1]
         /\ rx[n] = Closing(DataOf(rx))[2]
  <2>1. CASE n = 8
    BY <1>1, <1>3, <2>1, Zenon DEF CheckAccept, DataComplete, HeadLen
  <2>2. CASE n # 8
    <3>1. n > 8
      BY <1>2, <2>2
    <3>2. Announced(rx) # 0
      BY <1>1, <1>2, <3>1, Zenon DEF Undecided, HeadLen
    <3>3. n - 8 - 2 = Announced(rx)
      BY <1>1, <1>3, <2>2, Zenon DEF CheckAccept, DataComplete, HeadLen
    <3>4. n = Announced(rx) + 10 /\ Announced(rx) > 0 /\ n > 10
      BY <1>3, <3>2, <3>3
    <3>5. CalcDataCrc(FrameData) = GetFrameDataCrc
      <4>1. Length > HeadLen
        BY <1>1, <3>1 DEF HeadLen
      <4> QED BY <1>3, <3>2, <4>1, Zenon DEF CheckAccept, DataGood
    <3>6. PICK a, b : a = rx[n - 1] /\ b = rx[n]
      OBVIOUS
    <3>7. a \in 0 .. 255 /\ b \in 0 .. 255
      <4>1. n - 1 \in 1 .. n /\ n \in 1 .. n
        BY <3>4
      <4>2. \A i \in 1 .. n : rx[i] \in Byte
        <5>1. rx \in Seq(Byte)
          BY WindowRead
        <5>2. \A i \in 1 .. Len(rx) : rx[i] \in Byte
          BY <5>1, SMT
        <5> QED BY <1>1, <5>2, Zenon
      <4> QED BY <3>6, <4>1, <4>2, ByteRange, Zenon
    <3>8. GetFrameDataCrc = a + b * 256
      <4>1. n - 2 \in 0 .. n - 1 /\ n - 1 \in 0 .. n - 1
            /\ (n - 2) + 1 = n - 1 /\ (n - 1) + 1 = n
        BY <3>4
      <4>2. At(n - 2) = rx[n - 1] /\ At(n - 1) = rx[n]
        BY <1>1, <4>1, WindowRead, Zenon
      <4> QED BY <1>1, <3>6, <4>2, Zenon DEF GetFrameDataCrc
    <3>9. PICK e : e = CalcDataCrc(DataOf(rx))
      OBVIOUS
    <3>10. e = a + b * 256
      <4>1. FrameData = DataOf(rx)
        BY <1>1, <3>4, DataRead
      <4> QED BY <3>5, <3>8, <3>9, <4>1, Zenon
    <3>11. e % 256 = a /\ e \div 256 = b
      BY <3>7, <3>10
    <3>12. Closing(DataOf(rx)) = <<a, b>>
      BY <3>9, <3>11, Zenon DEF Closing
    <3> QED BY <3>4, <3>6, <3>12
  <2> QED BY <2>1, <2>2
<1>6. FrameShape(rx)
  BY <1>1, <1>4, <1>5, Zenon DEF FrameShape
<1>7. HeadLen <= Len(rx) /\ Len(rx) <= FrameMaxLen
  BY <1>1, <1>2 DEF HeadLen
<1> QED BY <1>6, <1>7, WindowRead, FrameOfShape

LEMMA NextUndecided == IInv /\ Undecided /\ [Next]_vars => Undecided'
<1> SUFFICES ASSUME IInv, Undecided, [Next]_vars PROVE Undecided'
  OBVIOUS
<1>1. CASE Elapse \/ UNCHANGED vars
  <2>1. pc' = pc /\ rx' = rx /\ skipped' = skipped
    BY <1>1, Zenon DEF Elapse, RW!Elapse, vars
  <2> QED BY <2>1 DEF Undecided, Announced
<1>2. CASE NoByte
  <2>1. pc = "recv" /\ pc' = "check" /\ rx' = rx /\ skipped' = skipped
    BY <1>2, Zenon DEF NoByte, RW!NoByte
  <2>2. SUFFICES ASSUME ~skipped, HeadLen < Len(rx)
                 PROVE  Announced(rx) # 0 /\ Len(rx) <= Announced(rx) + 10
    BY <2>1 DEF Undecided, Announced
  <2>3. HeadLen <= Len(rx) /\ Len(rx) \in Nat
    BY <2>2, WindowRead DEF HeadLen
  <2>4. Announced(rx) # 0 /\ Len(rx) < Announced(rx) + 10
    BY <2>1, <2>2, <2>3, Zenon DEF Undecided
  <2>5. Announced(rx) \in Nat
    BY <2>2, <2>3, HeadRead
  <2> QED BY <2>3, <2>4, <2>5
<1>3. CASE Push
  <2>1. /\ pc = "recv" /\ skipped' = skipped
        /\ pc' # "recv" /\ pc' # "accepted"
    BY <1>3 DEF Push, RW!Push, RW!StoreInPlace, RW!StoreCompacted
  <2>2. SUFFICES ASSUME ~skipped, HeadLen < Len(rx')
                 PROVE  Announced(rx') # 0 /\ Len(rx') <= Announced(rx') + 10
    BY <2>1 DEF Undecided, Announced
  <2>3. PICK c \in Byte : rx' = Append(rx, c)
    <3>1. PICK a \in Arrivals : rx' = Append(rx, a[1][a[2]])
      BY <1>3, <2>2 DEF Push
    <3> QED BY <3>1, ArrivalsOK DEF IInv
  <2>4. PICK n \in Nat : n = Len(rx)
    BY <2>2, WindowRead
  <2>5. rx \in Seq(Byte)
    BY <2>2, WindowRead
  <2>6. Len(rx') = n + 1 /\ \A i \in 1 .. n : rx'[i] = rx[i]
    BY <2>3, <2>4, <2>5
  <2>7. 8 <= n
    BY <2>2, <2>6 DEF HeadLen
  <2>8. rx'[6] = rx[6] /\ rx'[7] = rx[7]
    BY <2>6, <2>7
  <2>9. Announced(rx') = Announced(rx)
    BY <2>8, Zenon DEF Announced
  <2>10. HeadLen <= Len(rx)
    BY <2>4, <2>7 DEF HeadLen
  <2>11. Announced(rx) # 0 /\ n < Announced(rx) + 10
    BY <2>1, <2>2, <2>4, <2>10, Zenon DEF Undecided
  <2>12. Announced(rx) \in Nat
    BY <2>2, <2>10, HeadRead
  <2> QED BY <2>6, <2>9, <2>11, <2>12
<1>4. CASE CheckAccept
  <2>1. pc' = "accepted" /\ rx' = rx /\ skipped' = skipped
    BY <1>4, Zenon DEF CheckAccept, history
  <2>2. ~skipped => WholeFrame(rx)
    BY <1>4, AcceptedIsFrame
  <2>3. WholeFrame(rx)' <=> WholeFrame(rx)
    BY <2>1
  <2> QED BY <2>1, <2>2, <2>3 DEF Undecided
<1>5. CASE ContentSkip \/ TimedSkip
  BY <1>5, Zenon DEF ContentSkip, TimedSkip, Dropped, Undecided
<1>6. CASE CheckWait
  <2>1. pc = "check" /\ pc' = "recv" /\ rx' = rx /\ skipped' = skipped
    BY <1>6, Zenon DEF CheckWait, history
  <2>2. SUFFICES ASSUME ~skipped, HeadLen <= Len(rx)
                 PROVE  Announced(rx) # 0 /\ Len(rx) < Announced(rx) + 10
    BY <2>1 DEF Undecided, Announced
  <2>3. PICK n \in Nat : n = Len(rx) /\ n = Length /\ 8 <= n
    BY <2>2, WindowRead DEF HeadLen
  <2>4. GetFrameDataLen = Announced(rx) /\ Announced(rx) \in Nat
    BY <2>2, HeadRead
  <2>5. ~DataComplete
    <3>1. ~(Length < HeadLen)
      BY <2>3 DEF HeadLen
    <3> QED BY <1>6, <3>1, Zenon DEF CheckWait, Waiting
  <2>6. CASE n = 8
    BY <2>3, <2>4, <2>5, <2>6 DEF DataComplete, HeadLen
  <2>7. CASE n # 8
    <3>1. HeadLen < Len(rx)
      BY <2>3, <2>7 DEF HeadLen
    <3>2. Announced(rx) # 0 /\ n <= Announced(rx) + 10
      BY <2>1, <2>2, <2>3, <3>1, Zenon DEF Undecided
    <3>3. n - 8 - 2 # Announced(rx)
      BY <2>3, <2>4, <2>5, <2>7, Zenon DEF DataComplete, HeadLen
    <3> QED BY <2>3, <2>4, <3>2, <3>3
  <2> QED BY <2>6, <2>7
<1>7. CASE Clear
  <2>1. pc' = "recv" /\ rx' = << >>
    BY <1>7 DEF Clear, RW!Clear
  <2>2. ~(HeadLen <= Len(rx'))
    BY <2>1 DEF HeadLen
  <2> QED BY <2>1, <2>2 DEF Undecided
<1> QED BY <1>1, <1>2, <1>3, <1>4, <1>5, <1>6, <1>7 DEF Next, Check

LEMMA InitUndecided == Init => Undecided
<1>1. Init => pc = "recv" /\ rx = << >>
  BY DEF Init, RW!Init
<1>2. ~(HeadLen <= Len(<< >>))
  BY DEF HeadLen
<1> QED BY <1>1, <1>2 DEF Undecided

LEMMA UndecidedExact ==
  ASSUME IInv, Undecided, ~skipped, pc = "recv", WholeFrame(rx)
  PROVE  FALSE
<1>1. rx \in Seq(Byte) /\ Len(rx) \in Nat
  BY WindowRead
<1>2. FrameShape(rx) /\ HeadLen <= Len(rx)
  BY <1>1, ShapeOfFrame DEF WholeFrame
<1>3. Announced(rx) # 0 /\ Len(rx) < Announced(rx) + 10
  BY <1>2, Zenon DEF Undecided
<1>4. Len(rx) = Announced(rx) + 10
  BY <1>2, <1>3, Zenon DEF FrameShape
<1> QED BY <1>1, <1>3, <1>4

(* Until a byte is dropped, a frame is accepted the moment its last byte   *)
(* is in, and nothing but a frame is.                                      *)
THEOREM AcceptExactlyCorrect == Spec => []AcceptExactly
<1>1. IInv /\ Undecided => AcceptExactly
  BY UndecidedExact, Zenon DEF AcceptExactly, Undecided
<1> QED BY <1>1, InitUndecided, NextUndecided, Invariance, PTL DEF Spec

-----------------------------------------------------------------------------
(* A line that carries frames only, from the first byte on, without a      *)
(* silence of 500 ms, and data checksums that are numbers.                 *)
CleanLine ==
  /\ \A t \in Traffic : WholeFrame(t)
  /\ First = {<< >>}
  /\ MaxLulls = 0
  /\ \A d \in Seq(Byte) : CalcDataCrc(d) \in Nat

(* What has arrived of the transmission under way is what was received     *)
(* since the last clear(), unless the transmission is over and dealt with. *)
Arrived == Len(rx) = pos /\ \A i \in 1 .. pos : rx[i] = cur[i]
DealtWith == rx = << >> /\ pos = Len(cur) /\ pc \in {"recv", "check"} /\ ~fresh
InStep == ~skipped /\ ~quiet /\ (Arrived \/ DealtWith)

CleanInv == IInv /\ Undecided /\ InStep

LEMMA LineState ==
  ASSUME CleanLine, CleanInv
  PROVE  /\ cur \in Seq(Byte) /\ rx \in Seq(Byte) /\ Len(cur) \in Nat
         /\ pos \in 0 .. Len(cur)
         /\ cur # << >> => WholeFrame(cur)
<1>1. cur \in Traffic \/ cur \in First
  BY DEF CleanInv, IInv, LineOK
<1>2. cur \in Seq(Byte)
  BY <1>1, LineAssumption
<1>3. cur # << >> => WholeFrame(cur)
  <2>1. cur \in First => cur = << >>
    <3>1. First = {<< >>}
      BY Zenon DEF CleanLine
    <3> QED BY <3>1
  <2> QED BY <1>1, <2>1, Zenon DEF CleanLine
<1>4. rx \in Seq(Byte) /\ pos \in 0 .. Len(cur)
  BY DEF CleanInv, IInv, LineOK
<1> QED BY <1>2, <1>3, <1>4

(* The part of a frame that has arrived looks as the frame does.           *)
LEMMA HeadArrived ==
  ASSUME CleanLine, CleanInv, HeadLen <= Len(rx)
  PROVE  /\ Arrived /\ WholeFrame(cur) /\ FrameShape(cur)
         /\ Announced(rx) = Announced(cur)
         /\ \A i \in 1 .. 8 : rx[i] = cur[i]
         /\ Len(rx) <= Len(cur)
<1>1. Len(rx) # 0 /\ Len(rx) \in Nat
  BY LineState DEF HeadLen
<1>2. rx # << >>
  BY <1>1
<1>3. Arrived
  BY <1>2, Zenon DEF CleanInv, InStep, DealtWith
<1>4. Len(rx) = pos /\ pos <= Len(cur) /\ 8 <= pos /\ pos \in Nat
  BY <1>3, LineState DEF Arrived, HeadLen
<1>5. cur # << >>
  BY <1>4
<1>6. WholeFrame(cur) /\ FrameShape(cur)
  BY <1>5, LineState, ShapeOfFrame
<1>7. \A i \in 1 .. 8 : i \in 1 .. pos
  BY <1>4
<1>8. \A i \in 1 .. 8 : rx[i] = cur[i]
  BY <1>3, <1>7, Zenon DEF Arrived
<1>9. rx[6] = cur[6] /\ rx[7] = cur[7]
  BY <1>8
<1>10. Announced(rx) = Announced(cur)
  BY <1>9, Zenon DEF Announced
<1> QED BY <1>3, <1>4, <1>6, <1>8, <1>10

(* So does its header: CheckHead() finds nothing wrong with it.            *)
LEMMA HeadIsGood ==
  ASSUME CleanLine, CleanInv, HeadLen <= Length
  PROVE  HeadGood
<1>1. ~skipped /\ IInv /\ Length = Len(rx) /\ HeadLen <= Len(rx)
  BY WindowRead DEF CleanInv, InStep
<1>2. /\ At(0) = rx[1] /\ At(1) = rx[2] /\ At(2) = rx[3] /\ At(3) = rx[4]
      /\ At(4) = rx[5] /\ At(5) = rx[6] /\ At(6) = rx[7] /\ At(7) = rx[8]
  BY <1>1, HeadRead, Zenon
<1>3. FrameShape(cur) /\ WholeFrame(cur) /\ Len(rx) <= Len(cur)
      /\ \A i \in 1 .. 8 : rx[i] = cur[i]
  BY <1>1, HeadArrived, Zenon
<1>4. /\ rx[1] = cur[1] /\ rx[2] = cur[2] /\ rx[3] = cur[3] /\ rx[4] = cur[4]
      /\ rx[5] = cur[5] /\ rx[6] = cur[6] /\ rx[7] = cur[7] /\ rx[8] = cur[8]
  BY <1>3
<1>5. /\ At(0) = 85 /\ At(1) = 255
      /\ CalcHeadCrc(<<At(2), At(3), At(4), At(5), At(6)>>) = At(7)
  <2>1. /\ cur[1] = 85 /\ cur[2] = 255
        /\ CalcHeadCrc(<<cur[3], cur[4], cur[5], cur[6], cur[7]>>) = cur[8]
    BY <1>3, Zenon DEF FrameShape
  <2> QED BY <1>2, <1>4, <2>1
<1>6. Length <= FrameMaxLen
  <2>1. Len(cur) <= FrameMaxLen
    BY <1>3, Zenon DEF WholeFrame
  <2> QED BY <1>1, <1>3, <2>1, LineState, BufferAssumption
<1> QED BY <1>5, <1>6, Zenon DEF HeadGood

(* And CheckData(), once all of the frame is there.                        *)
LEMMA DataIsGood ==
  ASSUME CleanLine, CleanInv, pc = "check", HeadLen <= Length, DataComplete
  PROVE  DataGood
<1>1. ~skipped /\ IInv /\ Undecided
  BY DEF CleanInv, InStep
<1>2. PICK n \in Nat : n = Length /\ n = Len(rx) /\ 8 <= n
  BY <1>1, WindowRead DEF HeadLen
<1>3. HeadLen <= Len(rx)
  BY <1>2 DEF HeadLen
<1>4. GetFrameDataLen = Announced(rx) /\ Announced(rx) \in Nat
  BY <1>1, <1>3, HeadRead, Zenon
<1>5. CASE n = 8
  BY <1>2, <1>5 DEF DataGood, HeadLen
<1>6. CASE n # 8
  <2>1. Announced(rx) # 0
    <3>1. HeadLen < Len(rx)
      BY <1>2, <1>6 DEF HeadLen
    <3> QED BY <1>1, <3>1, Zenon DEF Undecided
  <2>2. n = Announced(rx) + 10 /\ n > 10
    <3>1. n - 8 - 2 = Announced(rx)
      BY <1>2, <1>4, <1>6, Zenon DEF DataComplete, HeadLen
    <3> QED BY <1>4, <2>1, <3>1
  <2>3. /\ Arrived /\ WholeFrame(cur) /\ FrameShape(cur)
        /\ Announced(rx) = Announced(cur)
    BY <1>3, HeadArrived, Zenon
  <2>4. Len(cur) = n
    BY <2>1, <2>2, <2>3, Zenon DEF FrameShape
  <2>5. rx = cur
    <3>1. rx \in Seq(Byte) /\ cur \in Seq(Byte)
      BY LineState
    <3>2. Len(rx) = Len(cur) /\ \A i \in 1 .. Len(rx) : rx[i] = cur[i]
      BY <1>2, <2>3, <2>4, Zenon DEF Arrived
    <3> QED BY <3>1, <3>2, SameElements, Zenon
  <2>6. FrameShape(rx)
    BY <2>3, <2>5, Zenon
  <2>7. rx[n - 1] = Closing(DataOf(rx))[1] /\ rx[n] = Closing(DataOf(rx))[2]
    BY <1>2, <2>1, <2>6, Zenon DEF FrameShape
  <2>8. PICK e : e = CalcDataCrc(DataOf(rx))
    OBVIOUS
  <2>9. e \in Nat
    <3>1. DataOf(rx) \in Seq(Byte)
      BY LineState, DataOfLength, Zenon
    <3> QED BY <2>8, <3>1, Zenon DEF CleanLine
  <2>10. rx[n - 1] = e % 256 /\ rx[n] = e \div 256
    BY <2>7, <2>8 DEF Closing
  <2>11. GetFrameDataCrc = rx[n - 1] + rx[n] * 256
    <3>1. n - 2 \in 0 .. n - 1 /\ n - 1 \in 0 .. n - 1
          /\ (n - 2) + 1 = n - 1 /\ (n - 1) + 1 = n
      BY <2>2
    <3>2. At(n - 2) = rx[n - 1] /\ At(n - 1) = rx[n]
      BY <1>1, <1>2, <3>1, WindowRead, Zenon
    <3> QED BY <1>2, <3>2, Zenon DEF GetFrameDataCrc
  <2>12. (e % 256) + (e \div 256) * 256 = e
    BY <2>9
  <2>13. GetFrameDataCrc = e
    BY <2>10, <2>11, <2>12, Zenon
  <2>14. FrameData = DataOf(rx)
    BY <1>1, <1>2, <2>2, DataRead
  <2> QED BY <1>4, <2>1, <2>8, <2>13, <2>14, Zenon DEF DataGood
<1> QED BY <1>5, <1>6

LEMMA PushInStep ==
  ASSUME CleanLine, CleanInv, Push
  PROVE  ~skipped' /\ ~quiet' /\ Arrived'
<1>1. ~skipped /\ ~quiet /\ IInv /\ Undecided /\ pc = "recv"
  BY DEF CleanInv, InStep, Push, RW!Push
<1>2. ~skipped' /\ ~quiet'
  BY <1>1 DEF Push, RW!Push, RW!StoreInPlace, RW!StoreCompacted
<1>3. PICK a \in Arrivals :
        cur' = a[1] /\ pos' = a[2] /\ rx' = Append(rx, a[1][a[2]])
  BY <1>1 DEF Push
<1>4. rx \in Seq(Byte) /\ cur \in Seq(Byte) /\ Len(cur) \in Nat /\ pos \in 0 .. Len(cur)
  BY LineState
<1>5. a[1][a[2]] \in Byte
  BY ArrivalsOK DEF CleanInv, IInv
<1>6. PICK n \in Nat : n = Len(rx)
  BY <1>4
<1>7. Len(rx') = n + 1 /\ rx'[n + 1] = a[1][a[2]] /\ \A i \in 1 .. n : rx'[i] = rx[i]
  BY <1>3, <1>4, <1>5, <1>6
<1>8. CASE pos < Len(cur)
  <2>1. a[1] = cur /\ a[2] = pos + 1
    BY <1>8 DEF Arrivals
  <2>2. pos # Len(cur)
    BY <1>4, <1>8
  <2>3. n = pos /\ \A i \in 1 .. n : rx[i] = cur[i]
    BY <1>6, <2>2, Zenon DEF CleanInv, InStep, Arrived, DealtWith
  <2>4. \A i \in 1 .. n + 1 : rx'[i] = cur[i]
    <3>1. \A i \in 1 .. n + 1 : i \in 1 .. n \/ i = n + 1
      OBVIOUS
    <3>2. rx'[n + 1] = cur[n + 1]
      BY <1>7, <2>1, <2>3
    <3> QED BY <1>7, <2>3, <3>1, <3>2, Zenon
  <2>5. cur' = cur /\ pos' = n + 1
    BY <1>3, <2>1, <2>3
  <2> QED BY <1>2, <1>7, <2>4, <2>5, Zenon DEF Arrived
<1>9. CASE ~(pos < Len(cur))
  <2>1. PICK t \in Traffic : a = <<t, 1>>
    BY <1>9 DEF Arrivals
  <2>2. n = 0
    <3>1. CASE DealtWith
      BY <1>6, <3>1 DEF DealtWith
    <3>2. CASE Arrived
      <4>1. pos = Len(cur) /\ n = Len(cur)
        BY <1>4, <1>6, <1>9, <3>2 DEF Arrived
      <4>2. SUFFICES ASSUME n # 0 PROVE FALSE
        OBVIOUS
      <4>3. cur # << >>
        BY <4>1, <4>2
      <4>4. rx = cur
        <5>1. Len(rx) = Len(cur) /\ \A i \in 1 .. Len(rx) : rx[i] = cur[i]
          BY <1>6, <3>2, <4>1, Zenon DEF Arrived
        <5> QED BY <1>4, <5>1, SameElements, Zenon
      <4>5. WholeFrame(rx)
        BY <4>3, <4>4, LineState, Zenon
      <4> QED BY <1>1, <1>4, <4>5, UndecidedExact, Zenon
    <3> QED BY <3>1, <3>2 DEF CleanInv, InStep
  <2>3. cur' = t /\ pos' = 1 /\ rx'[1] = t[1] /\ Len(rx') = 1
    BY <1>3, <1>7, <2>1, <2>2
  <2>4. \A i \in 1 .. 1 : rx'[i] = t[i]
    BY <2>3
  <2> QED BY <1>2, <2>3, <2>4, Zenon DEF Arrived
<1> QED BY <1>8, <1>9

LEMMA ClearInStep ==
  ASSUME CleanLine, CleanInv, Clear
  PROVE  ~skipped' /\ ~quiet' /\ DealtWith'
<1>1. ~skipped /\ ~quiet /\ IInv /\ Undecided /\ pc = "accepted"
  BY DEF CleanInv, InStep, Clear, RW!Clear
<1>2. WholeFrame(rx) /\ rx \in Seq(Byte) /\ Len(rx) \in Nat
  BY <1>1, LineState DEF Undecided
<1>3. HeadLen <= Len(rx) /\ FrameShape(rx)
  BY <1>2, ShapeOfFrame DEF WholeFrame
<1>4. /\ Arrived /\ FrameShape(cur) /\ Announced(rx) = Announced(cur)
  BY <1>3, HeadArrived, Zenon
<1>5. Announced(rx) \in Nat
  BY <1>1, <1>3, HeadRead
<1>6. Len(cur) = Len(rx)
  <2>1. /\ \/ Len(rx) = 8 /\ Announced(rx) = 0
           \/ Len(rx) = Announced(rx) + 10 /\ Announced(rx) > 0
        /\ \/ Len(cur) = 8 /\ Announced(rx) = 0
           \/ Len(cur) = Announced(rx) + 10 /\ Announced(rx) > 0
    BY <1>3, <1>4, Zenon DEF FrameShape
  <2> QED BY <1>5, <2>1
<1>7. pos = Len(cur)
  BY <1>4, <1>6 DEF Arrived
<1>8. /\ cur' = cur /\ pos' = pos /\ rx' = << >> /\ ~fresh' /\ pc' = "recv"
      /\ ~skipped' /\ quiet' = quiet
  BY DEF Clear, RW!Clear
<1> QED BY <1>1, <1>7, <1>8 DEF DealtWith

LEMMA NextInStep ==
  ASSUME CleanLine, CleanInv, [Next]_vars
  PROVE  InStep'
<1>1. ~skipped /\ ~quiet /\ IInv /\ Undecided
  BY DEF CleanInv, InStep
<1>2. CASE Elapse
  <2>1. lulls \in 0 .. MaxLulls /\ lulls < MaxLulls
    BY <1>1, <1>2, Zenon DEF Elapse, IInv, LineOK
  <2>2. MaxLulls = 0
    BY Zenon DEF CleanLine
  <2> QED BY <2>1, <2>2
<1>3. CASE Push
  BY <1>3, PushInStep DEF InStep
<1>4. CASE ContentSkip
  <2>1. pc = "check" /\ HeadLen <= Length
        /\ (~HeadGood \/ (DataComplete /\ ~DataGood))
    BY <1>4 DEF ContentSkip
  <2> QED BY <2>1, HeadIsGood, DataIsGood
<1>5. CASE TimedSkip
  BY <1>1, <1>5 DEF TimedSkip
<1>6. CASE Clear
  BY <1>6, ClearInStep DEF InStep
<1>7. CASE CheckAccept
  <2>1. /\ HeadLen <= Length
        /\ skipped' = skipped /\ quiet' = quiet /\ rx' = rx /\ cur' = cur
        /\ pos' = pos
    BY <1>7 DEF CheckAccept, history
  <2>2. HeadLen <= Len(rx)
    BY <1>1, <2>1, WindowRead
  <2>3. Arrived
    BY <2>2, HeadArrived
  <2> QED BY <1>1, <2>1, <2>3 DEF InStep, Arrived
<1>8. CASE NoByte \/ CheckWait \/ UNCHANGED vars
  <2>1. /\ skipped' = skipped /\ quiet' = quiet /\ rx' = rx /\ cur' = cur
        /\ pos' = pos
        /\ pc \in {"recv", "check"} => pc' \in {"recv", "check"}
        /\ ~fresh => ~fresh'
    BY <1>8 DEF NoByte, RW!NoByte, CheckWait, history, vars
  <2> QED BY <1>1, <2>1 DEF CleanInv, InStep, Arrived, DealtWith
<1> QED BY <1>2, <1>3, <1>4, <1>5, <1>6, <1>7, <1>8 DEF Next, Check

(* On a line that carries frames only, without a silence of 500 ms, every  *)
(* frame is accepted in the iteration that receives its last byte.         *)
THEOREM FrameDeliveredCorrect ==
  ASSUME CleanLine
  PROVE  Spec => []FrameDelivered
<1>1. Init => InStep
  <2>1. SUFFICES ASSUME Init PROVE InStep
    OBVIOUS
  <2>2. First = {<< >>}
    BY Zenon DEF CleanLine
  <2>3. cur = << >> /\ pos = 0 /\ rx = << >> /\ ~skipped /\ ~quiet
    BY <2>1, <2>2 DEF Init, RW!Init
  <2> QED BY <2>3 DEF InStep, Arrived
<1>2. CleanInv /\ [Next]_vars => InStep'
  BY NextInStep
<1>3. CleanInv => FrameDelivered
  <2>1. SUFFICES ASSUME CleanInv, pc = "recv", fresh, pos = Len(cur), WholeFrame(cur)
                 PROVE  FALSE
    BY Zenon DEF FrameDelivered
  <2>2. ~skipped /\ Arrived /\ IInv /\ Undecided
    BY <2>1, Zenon DEF CleanInv, InStep, DealtWith
  <2>3. rx \in Seq(Byte) /\ cur \in Seq(Byte)
    BY <2>1, LineState
  <2>4. rx = cur
    <3>1. Len(rx) = Len(cur) /\ \A i \in 1 .. Len(rx) : rx[i] = cur[i]
      BY <2>1, <2>2, Zenon DEF Arrived
    <3> QED BY <2>3, <3>1, SameElements, Zenon
  <2> QED BY <2>1, <2>2, <2>4, UndecidedExact, Zenon
<1> QED
  BY <1>1, <1>2, <1>3, InitUndecided, NextUndecided, Invariance, PTL DEF Spec, CleanInv

=============================================================================
