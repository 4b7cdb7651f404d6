------------------------------ MODULE Segment ------------------------------
(***************************************************************************)
(* A long answer sent in segments: segmented_c_ack_pdu() of                *)
(* mstp/make_apdu.cpp, called with one sequence number after the other.    *)
(* The octets of the answer are their positions in it; the first three are *)
(* its head, which every segment repeats in five octets.                   *)
(*                                                                         *)
(* The program that steps the sequence number is external.                 *)
(***************************************************************************)
EXTENDS Integers, Bacdcode

CONSTANT Answers     \* the answers, [data_len, segment_size]

Half == 32768
Word16(n) == n % (2 * Half)              \* unsigned short
HeadOctets == 3                          \* of a ComplexACK without segments
SegmentHead == 5                         \* of a segment of one

(* An answer is longer than its head.  The program asks for segments that  *)
(* hold some of it and that an APDU may have: the packet's buffer is not   *)
(* longer, and nothing here keeps a larger segment out of what is behind.  *)
ASSUME AnswersAssumption ==
  \A a \in Answers :
    /\ a.data_len \in Nat /\ HeadOctets < a.data_len /\ a.data_len < 2 * Half
    /\ a.segment_size \in Nat
    /\ SegmentHead < a.segment_size /\ a.segment_size <= MaxApduLen

(* No position of a segment wraps, nor does the sequence number, an octet. *)
NoWrap(A) ==
  \A a \in A :
    /\ a.data_len + a.segment_size < 2 * Half
    /\ a.data_len - HeadOctets <= 256 * (a.segment_size - SegmentHead)
AnswersFit == NoWrap(Answers)

VARIABLES
  answer,    \* the answer that is being sent, if any
  seq,       \* sequence_number of the next segment
  size,      \* npdu->data_len of the last segment
  joined,    \* how much of the answer the receiver has put together
  whole,     \* the last segment that was sent says that no more follow
  torn       \* a segment did not begin where the one before it ended

segment == <<answer, seq, size, joined, whole, torn>>

SegmentDataSize(a) == Word16(a.segment_size - SegmentHead)

DataStart_NoHead(a, n) ==                \* mutant: the head is counted twice
  Word16(n * SegmentDataSize(a))
DataStart(a, n) == Word16(n * SegmentDataSize(a) + HeadOctets)

DataEnd(a, n) ==
  LET end == Word16((n + 1) * SegmentDataSize(a) + HeadOctets)
  IN  IF end > a.data_len THEN a.data_len ELSE end

SegmentInit ==
  answer = << >> /\ seq = 0 /\ size = 0 /\ joined = 0 /\ whole = FALSE /\ torn = FALSE

Begin(a) ==
  /\ answer = << >>
  /\ answer' = <<a>> /\ seq' = 0 /\ size' = 0 /\ joined' = HeadOctets
  /\ whole' = FALSE /\ torn' = FALSE

(* Without the bit for "more segments" the answer is complete; where       *)
(* data_start is behind the data there is no segment.                      *)
segmented_c_ack_pdu ==
  /\ answer # << >> /\ ~whole
  /\ LET from == DataStart(answer[1], seq)
         to == DataEnd(answer[1], seq)
         copied == IF to > from THEN to - from ELSE 0
     IN  /\ from < answer[1].data_len
         /\ size' = SegmentHead + copied /\ joined' = joined + copied
         /\ whole' = (to >= answer[1].data_len)
         /\ torn' = (torn \/ from # joined)
  /\ seq' = (seq + 1) % 256
  /\ UNCHANGED answer

End ==
  /\ whole
  /\ answer' = << >> /\ seq' = 0 /\ size' = 0 /\ joined' = 0
  /\ whole' = FALSE /\ torn' = FALSE

SegmentNext == (\E a \in Answers : Begin(a)) \/ segmented_c_ack_pdu \/ End

-----------------------------------------------------------------------------
(* The segments of an answer carry each octet of it once and in order: one *)
(* begins where the one before it ended, there is one as long as something *)
(* is left, the segment that announces no more is the one that ends with   *)
(* the answer, and each of them fits into the buffer of its packet.        *)
SegmentsJoin ==
  answer # << >> =>
    /\ ~torn
    /\ whole <=> joined = answer[1].data_len
    /\ ~whole => DataStart(answer[1], seq) < answer[1].data_len
    /\ size <= MaxApduLen

=============================================================================
