----------------------------- MODULE RecvWindow -----------------------------
(***************************************************************************)
(* The receive buffer of mstp/recvframe.cpp reduced to its bookkeeping:    *)
(* where the window of unread bytes starts and ends inside the buffer.     *)
(* What the bytes say is left open: a complete header may turn out good or *)
(* bad, a complete frame may turn out acceptable or not.  RecvFrame.tla    *)
(* fills in the bytes and implements this module.                          *)
(*                                                                         *)
(* One iteration of the receive loop (Bacnet::RecvCom, bacnet.cpp:92-108)  *)
(* is: push at most one byte, Check() once, and when Check() succeeds      *)
(* process the frame and clear() the buffer.  "pc" is the position in it.  *)
(***************************************************************************)
EXTENDS Integers

CONSTANTS
  Size,         \* sizeof(buffer), 1024 in recvframe.h:39
  HeadLen,      \* FrameNpdu, the length of a frame header, 8
  FrameMaxLen,  \* FrameMaxLen, the longest frame accepted, 256
  OffBound      \* bound of the model: no further lull once off reaches it

Compact == Size \div 5     \* size() / 5, recvframe.cpp:65

ASSUME SizeAssumption ==
  /\ Size \in Nat /\ HeadLen \in Nat /\ FrameMaxLen \in Nat /\ OffBound \in Nat
  /\ 2 <= HeadLen /\ HeadLen <= FrameMaxLen
  /\ 1 <= Compact /\ 2 * Compact + FrameMaxLen < Size

VARIABLES
  pc,     \* "recv", "check", "accepted", or one of Faults
  off,    \* start - buffer
  idx,    \* index, the end of the window as an offset into the buffer
  quiet,  \* t.mdiff() > 500
  lull    \* history: since the last clear(), Check() advanced start on its
          \* timer while fewer than HeadLen bytes were in the window

vars == <<pc, off, idx, quiet, lull>>

Length == idx - off        \* RecvFrame::length()

(* A byte stored outside the buffer ("overrun" above it, "underrun" below) *)
(* and a memmove of a negative length ("crashed") have no defined          *)
(* continuation: the model stops there.                                    *)
Faults == {"overrun", "underrun", "crashed"}

TypeOK ==
  /\ pc \in {"recv", "check", "accepted"} \cup Faults
  /\ off \in Nat
  /\ idx \in Nat
  /\ quiet \in BOOLEAN
  /\ lull \in BOOLEAN

Init == pc = "recv" /\ off = 0 /\ idx = 0 /\ quiet = FALSE /\ lull = FALSE

-----------------------------------------------------------------------------
(* 500 ms pass since the timer was last restarted. *)
Elapse ==
  /\ pc \in {"recv", "check"} /\ off < OffBound
  /\ quiet' = TRUE
  /\ UNCHANGED <<pc, off, idx, lull>>

(* No byte is available: RecvCom goes on to Check(). *)
NoByte == pc = "recv" /\ pc' = "check" /\ UNCHANGED <<off, idx, quiet, lull>>

(* The byte is stored at start[index]: at offset off + idx of the buffer,  *)
(* not at idx.                                                             *)
StoreInPlace ==
  /\ pc' = IF off + idx < Size THEN "check" ELSE "overrun"
  /\ idx' = idx + 1 /\ quiet' = FALSE
  /\ UNCHANGED <<off, lull>>

(* A start that has drifted is moved back to the buffer's beginning, and   *)
(* index becomes length() - 1: the new byte overwrites the last one.       *)
StoreCompacted_Unguarded ==      \* mutant: no care for an empty window
  /\ pc' = "check" /\ off' = 0 /\ idx' = Length /\ quiet' = FALSE
  /\ UNCHANGED lull
StoreCompacted ==
  /\ IF Length >= 1
       THEN pc' = "check" /\ off' = 0 /\ idx' = Length /\ quiet' = FALSE
       ELSE /\ pc' = IF Length = 0 THEN "underrun" ELSE "crashed"
            /\ UNCHANGED <<off, idx, quiet>>
  /\ UNCHANGED lull

(* push(c); on a full buffer it returns false and the byte is lost. *)
Push_HalfBuffer ==               \* mutant: compaction put off for too long
  /\ pc = "recv"
  /\ IF Size - idx < 1 THEN pc' = "check" /\ UNCHANGED <<off, idx, quiet, lull>>
     ELSE IF off > Size \div 2 THEN StoreCompacted ELSE StoreInPlace
Push ==
  /\ pc = "recv"
  /\ IF Size - idx < 1 THEN pc' = "check" /\ UNCHANGED <<off, idx, quiet, lull>>
     ELSE IF off > Compact THEN StoreCompacted ELSE StoreInPlace

-----------------------------------------------------------------------------
(* Check(), by its outcome.  A frame is accepted when its header and its   *)
(* data are good; a frame with data carries at least the two CRC bytes.    *)
CheckAccept ==
  /\ pc = "check"
  /\ HeadLen <= Length /\ Length <= FrameMaxLen /\ Length # HeadLen + 1
  /\ pc' = "accepted" /\ UNCHANGED <<off, idx, quiet, lull>>

(* CheckHead() or CheckData() found something wrong: one byte is dropped.  *)
ContentSkip_Header ==            \* mutant: the whole header is dropped
  /\ pc = "check" /\ HeadLen <= Length
  /\ pc' = "recv" /\ off' = off + HeadLen /\ quiet' = FALSE
  /\ UNCHANGED <<idx, lull>>
ContentSkip ==
  /\ pc = "check" /\ HeadLen <= Length
  /\ pc' = "recv" /\ off' = off + 1 /\ quiet' = FALSE
  /\ UNCHANGED <<idx, lull>>

(* Nothing wrong, more bytes expected, none for 500 ms: a byte is dropped, *)
(* whether or not there is one.                                            *)
TimedSkip ==
  /\ pc = "check" /\ quiet /\ Length <= FrameMaxLen
  /\ pc' = "recv" /\ off' = off + 1 /\ quiet' = FALSE
  /\ lull' = (lull \/ Length < HeadLen)
  /\ UNCHANGED idx

CheckWait ==
  /\ pc = "check" /\ ~quiet /\ Length <= FrameMaxLen
  /\ pc' = "recv" /\ UNCHANGED <<off, idx, quiet, lull>>

(* The accepted frame is processed and the buffer cleared. *)
Clear ==
  /\ pc = "accepted"
  /\ pc' = "recv" /\ off' = 0 /\ idx' = 0 /\ lull' = FALSE
  /\ UNCHANGED quiet

Next ==
  \/ Elapse \/ NoByte \/ Push
  \/ CheckAccept \/ ContentSkip \/ TimedSkip \/ CheckWait
  \/ Clear

Spec == Init /\ [][Next]_vars

-----------------------------------------------------------------------------
(* Every byte fits: push() never stores beyond the end of the buffer, even *)
(* though it stores at off + idx, and never refuses a byte.  It needs the  *)
(* compaction threshold of push() and the length limit of CheckHead().     *)
EveryByteFits == pc # "overrun" /\ (pc = "recv" => idx < Size)

(* push() compacts an empty window, storing its byte below the buffer or   *)
(* passing memmove a negative length, only after Check() advanced start    *)
(* during a silence with less than a header in the window: garbage on the  *)
(* line alone never does it.                                               *)
FaultNeedsLull == pc \in {"underrun", "crashed"} => lull

(* What the guard of push() (recvframe.cpp:61) and the endless loop around *)
(* Run() (test/bacnet.cpp:29) say: no push leaves the buffer.              *)
NeverFaults == pc \notin Faults

=============================================================================
