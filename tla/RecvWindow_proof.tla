-------------------------- MODULE RecvWindow_proof --------------------------
(***************************************************************************)
(* Proofs about RecvWindow.tla, for every buffer size, header length and   *)
(* frame limit that SizeAssumption allows.                                 *)
(***************************************************************************)
EXTENDS RecvWindow, TLAPS

(* The window is bounded above at every point of the loop, CheckHead()     *)
(* seeing at most one byte more than it lets pass.                         *)
WindowBound ==
  /\ pc = "recv" => Length <= FrameMaxLen
  /\ pc = "check" => Length <= FrameMaxLen + 1
  /\ idx <= Compact + FrameMaxLen + 1

(* Without a lull the window is never negative, and once bytes have been   *)
(* dropped all of a header but one byte is always in it.                   *)
WindowFloor ==
  ~lull => /\ Length >= 0
           /\ off > 0 => Length >= HeadLen - 1

IInv == TypeOK /\ EveryByteFits /\ FaultNeedsLull /\ WindowBound /\ WindowFloor

LEMMA CompactFacts == Compact \in Nat
  BY SizeAssumption DEF Compact

(* The timer's reading and the lull mark are Booleans after every step. *)
FlagsOK == quiet \in BOOLEAN /\ lull \in BOOLEAN

LEMMA NextFlags == FlagsOK /\ [Next]_vars => FlagsOK'
<1> SUFFICES ASSUME FlagsOK, [Next]_vars PROVE FlagsOK'
  OBVIOUS
<1>1. CASE Elapse       BY <1>1, Zenon DEF Elapse, FlagsOK
<1>2. CASE NoByte       BY <1>2, Zenon DEF NoByte, FlagsOK
<1>3. CASE Push
  BY <1>3, Zenon DEF Push, StoreInPlace, StoreCompacted, FlagsOK
<1>4. CASE CheckAccept  BY <1>4, Zenon DEF CheckAccept, FlagsOK
<1>5. CASE ContentSkip  BY <1>5, Zenon DEF ContentSkip, FlagsOK
<1>6. CASE TimedSkip    BY <1>6, Zenon DEF TimedSkip, FlagsOK
<1>7. CASE CheckWait    BY <1>7, Zenon DEF CheckWait, FlagsOK
<1>8. CASE Clear        BY <1>8, Zenon DEF Clear, FlagsOK
<1>9. CASE UNCHANGED vars  BY <1>9, Zenon DEF vars, FlagsOK
<1> QED
  BY <1>1, <1>2, <1>3, <1>4, <1>5, <1>6, <1>7, <1>8, <1>9, Zenon DEF Next

(* The inductive invariant holds initially. *)
LEMMA InitIInv == Init => IInv
<1> SUFFICES ASSUME Init PROVE IInv
  OBVIOUS
<1>1. FlagsOK
  BY Zenon DEF Init, FlagsOK
<1> QED
  BY <1>1, SizeAssumption, CompactFacts
     DEF Init, IInv, TypeOK, EveryByteFits, FaultNeedsLull, WindowBound,
         WindowFloor, Length, FlagsOK

(* Storing a byte at off + idx keeps it: below the threshold off + idx is  *)
(* at most twice the threshold plus a frame.                               *)
LEMMA StoreInPlaceIInv ==
  ASSUME IInv, pc = "recv", off <= Compact, StoreInPlace, FlagsOK'
  PROVE  IInv'
<1> USE SizeAssumption, CompactFacts
<1>1. off \in Nat /\ idx \in Nat /\ idx - off <= FrameMaxLen
  BY DEF IInv, TypeOK, WindowBound, Length
<1>2. off + idx < Size /\ pc' = "check" /\ idx' = idx + 1 /\ off' = off
      /\ quiet' = FALSE /\ lull' = lull
  BY <1>1 DEF StoreInPlace
<1>3. TypeOK'
  BY <1>1, <1>2 DEF IInv, TypeOK, FlagsOK
<1>4. (EveryByteFits /\ FaultNeedsLull)'
  BY <1>2 DEF EveryByteFits, FaultNeedsLull
<1>5. WindowBound'
  BY <1>1, <1>2 DEF WindowBound, Length
<1>6. WindowFloor'
  BY <1>1, <1>2 DEF IInv, WindowFloor, Length
<1> QED BY <1>3, <1>4, <1>5, <1>6 DEF IInv

(* Compacting keeps it: without a lull a drifted window is never empty.    *)
LEMMA StoreCompactedIInv ==
  ASSUME IInv, pc = "recv", off > Compact, StoreCompacted, FlagsOK'
  PROVE  IInv'
<1> USE SizeAssumption, CompactFacts
<1>1. off \in Nat /\ idx \in Nat /\ Length \in Int /\ Length <= FrameMaxLen
  BY DEF IInv, TypeOK, WindowBound, Length
<1>2. CASE Length >= 1
  <2>1. pc' = "check" /\ off' = 0 /\ idx' = Length /\ quiet' = FALSE
        /\ lull' = lull
    BY <1>2 DEF StoreCompacted
  <2>2. TypeOK'
    BY <1>1, <1>2, <2>1 DEF IInv, TypeOK, FlagsOK
  <2>3. (EveryByteFits /\ FaultNeedsLull)'
    BY <2>1 DEF EveryByteFits, FaultNeedsLull
  <2>4. WindowBound' /\ WindowFloor'
    BY <1>1, <1>2, <2>1 DEF WindowBound, WindowFloor, Length
  <2> QED BY <2>2, <2>3, <2>4 DEF IInv
<1>3. CASE ~(Length >= 1)
  <2>1. pc' \in {"underrun", "crashed"} /\ UNCHANGED <<off, idx, quiet, lull>>
    BY <1>3 DEF StoreCompacted
  <2>2. lull
    BY <1>1, <1>3 DEF IInv, WindowFloor
  <2>3. TypeOK'
    BY <2>1 DEF IInv, TypeOK, Faults
  <2>4. (EveryByteFits /\ FaultNeedsLull)'
    BY <2>1, <2>2 DEF EveryByteFits, FaultNeedsLull
  <2>5. WindowBound' /\ WindowFloor'
    BY <2>1, <2>2 DEF IInv, WindowBound, WindowFloor, Length
  <2> QED BY <2>3, <2>4, <2>5 DEF IInv
<1> QED BY <1>2, <1>3

(* Every step preserves the inductive invariant. *)
LEMMA NextIInv == IInv /\ [Next]_vars => IInv'
<1> USE SizeAssumption, CompactFacts
<1> SUFFICES ASSUME IInv, [Next]_vars PROVE IInv'
  OBVIOUS
<1>0. off \in Nat /\ idx \in Nat /\ Length \in Int
  BY DEF IInv, TypeOK, Length
<1>f. FlagsOK'
  BY NextFlags DEF IInv, TypeOK, FlagsOK
<1>1. CASE Elapse
  BY <1>0, <1>f, <1>1 DEF FlagsOK, Elapse, IInv, TypeOK, EveryByteFits, FaultNeedsLull,
              WindowBound, WindowFloor, Length
<1>2. CASE NoByte
  BY <1>0, <1>f, <1>2 DEF FlagsOK, NoByte, IInv, TypeOK, EveryByteFits, FaultNeedsLull,
              WindowBound, WindowFloor, Length
<1>3. CASE Push
  <2>1. pc = "recv" /\ Size - idx >= 1
    BY <1>0, <1>3 DEF Push, IInv, EveryByteFits
  <2>2. CASE off > Compact
    BY <2>1, <2>2, <1>0, <1>f, <1>3, StoreCompactedIInv DEF Push
  <2>3. CASE ~(off > Compact)
    BY <2>1, <2>3, <1>0, <1>f, <1>3, StoreInPlaceIInv DEF Push
  <2> QED BY <2>2, <2>3
<1>4. CASE CheckAccept
  BY <1>0, <1>f, <1>4 DEF FlagsOK, CheckAccept, IInv, TypeOK, EveryByteFits, FaultNeedsLull,
              WindowBound, WindowFloor, Length
<1>5. CASE ContentSkip
  <2>1. TypeOK'
    BY <1>f, <1>5 DEF ContentSkip, IInv, TypeOK, FlagsOK
  <2>2. (EveryByteFits /\ FaultNeedsLull)'
    BY <1>0, <1>5 DEF ContentSkip, IInv, EveryByteFits, FaultNeedsLull,
                      WindowBound
  <2>3. WindowBound' /\ WindowFloor'
    BY <1>0, <1>5 DEF ContentSkip, IInv, WindowBound, WindowFloor, Length
  <2> QED BY <2>1, <2>2, <2>3 DEF IInv
<1>6. CASE TimedSkip
  <2>1. /\ pc = "check" /\ Length <= FrameMaxLen
        /\ pc' = "recv" /\ off' = off + 1 /\ idx' = idx
    BY <1>6 DEF TimedSkip
  <2>2. ~lull' => ~lull /\ ~(Length < HeadLen)
    BY <1>6, Zenon DEF TimedSkip
  <2>3. TypeOK'
    BY <1>f, <2>1 DEF IInv, TypeOK, FlagsOK
  <2>4. (EveryByteFits /\ FaultNeedsLull)'
    BY <1>0, <2>1 DEF IInv, EveryByteFits, FaultNeedsLull, WindowBound
  <2>5. WindowBound' /\ WindowFloor'
    BY <1>0, <2>1, <2>2 DEF IInv, WindowBound, WindowFloor, Length
  <2> QED BY <2>3, <2>4, <2>5 DEF IInv
<1>7. CASE CheckWait
  BY <1>0, <1>f, <1>7 DEF FlagsOK, CheckWait, IInv, TypeOK, EveryByteFits, FaultNeedsLull,
              WindowBound, WindowFloor, Length
<1>8. CASE Clear
  BY <1>0, <1>f, <1>8 DEF FlagsOK, Clear, IInv, TypeOK, EveryByteFits, FaultNeedsLull,
              WindowBound, WindowFloor, Length
<1>9. CASE UNCHANGED vars
  BY <1>0, <1>f, <1>9 DEF FlagsOK, vars, IInv, TypeOK, EveryByteFits, FaultNeedsLull,
              WindowBound, WindowFloor, Length
<1> QED
  BY <1>1, <1>2, <1>3, <1>4, <1>5, <1>6, <1>7, <1>8, <1>9 DEF Next

(* The invariant holds of every behaviour. *)
THEOREM Invariance == Spec => []IInv
  BY InitIInv, NextIInv, PTL DEF Spec

(* The bookkeeping variables keep their types; in particular index never   *)
(* becomes negative outside a fault.                                       *)
THEOREM TypeCorrect == Spec => []TypeOK
<1>1. IInv => TypeOK  BY DEF IInv
<1> QED BY <1>1, Invariance, PTL

(* push() never writes beyond the buffer and never refuses a byte.         *)
THEOREM EveryByteFitsCorrect == Spec => []EveryByteFits
<1>1. IInv => EveryByteFits  BY DEF IInv
<1> QED BY <1>1, Invariance, PTL

(* Only a silence with less than a header in the window can lead push() to *)
(* compact an empty window.                                                *)
THEOREM FaultNeedsLullCorrect == Spec => []FaultNeedsLull
<1>1. IInv => FaultNeedsLull  BY DEF IInv
<1> QED BY <1>1, Invariance, PTL

=============================================================================
