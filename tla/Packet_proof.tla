---------------------------- MODULE Packet_proof ----------------------------
(***************************************************************************)
(* A message and its octets, for every message: the segments of an answer, *)
(* the settings of the port, the network header, the frame around it, and  *)
(* the fields in it.                                                       *)
(***************************************************************************)
EXTENDS Packet, Bacdcode_proof, WellFoundedInduction

Contents(a) == a.segment_size - SegmentHead        \* octets of data in a full segment

(* What has been sent are seq full segments, or all of the answer.         *)
AnswerSent ==
  /\ answer = << >> \/ \E a \in Answers : answer = <<a>>
  /\ seq \in 0 .. 255 /\ joined \in Nat /\ size <= MaxApduLen
  /\ answer # << >> =>
       /\ torn = FALSE
       /\ whole = TRUE => joined = answer[1].data_len
       /\ whole # TRUE => /\ joined = seq * Contents(answer[1]) + HeadOctets
                          /\ joined < answer[1].data_len

LEMMA WordSmall ==
  ASSUME NEW n \in Nat, n < 2 * Half
  PROVE  Word16(n) = n
BY SMT DEF Word16, Half

LEMMA AnswerBounds ==
  ASSUME AnswersFit, NEW a \in Answers
  PROVE  /\ Contents(a) \in Nat /\ Contents(a) > 0
         /\ Contents(a) + SegmentHead <= MaxApduLen
         /\ a.data_len \in Nat /\ a.data_len > HeadOctets
         /\ a.data_len + Contents(a) < 2 * Half
         /\ a.data_len - HeadOctets <= 256 * Contents(a)
         /\ SegmentDataSize(a) = Contents(a)
<1>1. /\ a.segment_size \in Nat /\ SegmentHead < a.segment_size
      /\ a.segment_size <= MaxApduLen /\ a.data_len \in Nat
      /\ HeadOctets < a.data_len /\ a.data_len + a.segment_size < 2 * Half
      /\ a.data_len - HeadOctets <= 256 * (a.segment_size - SegmentHead)
  BY AnswersAssumption DEF AnswersFit, NoWrap
<1>2. Contents(a) \in Nat /\ Contents(a) > 0 /\ Contents(a) < 2 * Half
  BY <1>1, SMT DEF Contents, Half, SegmentHead
<1>3. SegmentDataSize(a) = Contents(a)
  BY <1>2, WordSmall DEF SegmentDataSize, Contents
<1> QED BY <1>1, <1>2, <1>3, SMT DEF Contents, HeadOctets, Half, SegmentHead, MaxApduLen

LEMMA Product ==
  ASSUME NEW n \in Nat, NEW k \in Nat
  PROVE  /\ n * k \in Nat /\ (n + 1) * k \in Nat
         /\ (n + 1) * k = n * k + k
         /\ n >= 256 => n * k >= 256 * k
<1>1. n * k \in Nat /\ (n + 1) * k = n * k + k
  BY SMT
<1>2. n >= 256 => n * k >= 256 * k
  BY SMT
<1> QED BY <1>1, <1>2, SMT

(* Up to here nothing wraps: the positions of a segment are those of the   *)
(* integers.                                                               *)
LEMMA SegmentPositions ==
  ASSUME AnswersFit, NEW a \in Answers, NEW n \in 0 .. 255,
         n * Contents(a) + HeadOctets < a.data_len
  PROVE  /\ DataStart(a, n) = n * Contents(a) + HeadOctets
         /\ DataEnd(a, n) = IF (n + 1) * Contents(a) + HeadOctets > a.data_len
                              THEN a.data_len
                              ELSE (n + 1) * Contents(a) + HeadOctets
<1> DEFINE k == Contents(a)
<1>1. /\ k \in Nat /\ a.data_len \in Nat /\ a.data_len + k < 2 * Half
      /\ SegmentDataSize(a) = k
  BY AnswerBounds
<1>2. n * k \in Nat /\ (n + 1) * k \in Nat /\ (n + 1) * k = n * k + k
  BY <1>1, Product
<1> DEFINE from == n * k + HeadOctets
           to == (n + 1) * k + HeadOctets
<1> HIDE DEF k
<1>3. from \in Nat /\ from < 2 * Half /\ to \in Nat /\ to < 2 * Half
  <2>1. from < a.data_len
    BY DEF k
  <2> QED BY <1>1, <1>2, <2>1, SMT DEF HeadOctets, Half
<1>4. Word16(from) = from /\ Word16(to) = to
  <2> HIDE DEF from, to
  <2> QED BY <1>3, WordSmall
<1>5. DataStart(a, n) = from
  BY <1>1, <1>4 DEF DataStart
<1>6. DataEnd(a, n) = IF to > a.data_len THEN a.data_len ELSE to
  BY <1>1, <1>4 DEF DataEnd
<1> QED BY <1>5, <1>6 DEF k

(* Behind the assumption of SegmentsJoinCorrect: where the end of the last *)
(* segment wraps (data_end, make_apdu.cpp:440), that segment carries       *)
(* nothing and announces more.                                             *)
THEOREM WrappedSegmentEmpty ==
  ASSUME NEW a \in Answers, NEW n \in Nat,
         n * Contents(a) + HeadOctets < a.data_len,
         (n + 1) * Contents(a) + HeadOctets >= 2 * Half
  PROVE  DataEnd(a, n) < DataStart(a, n) /\ DataEnd(a, n) < a.data_len
<1> DEFINE k == Contents(a)
<1>1. /\ k \in Nat /\ k < 2 * Half /\ a.data_len \in Nat /\ a.data_len < 2 * Half
  BY AnswersAssumption, SMT DEF Contents, Half, MaxApduLen, SegmentHead
<1>2. SegmentDataSize(a) = k
  BY <1>1, WordSmall DEF SegmentDataSize, Contents
<1>3. n * k \in Nat /\ (n + 1) * k \in Nat /\ (n + 1) * k = n * k + k
  BY <1>1, Product
<1> DEFINE from == n * k + HeadOctets
           to == (n + 1) * k + HeadOctets
<1>4. from < a.data_len /\ to >= 2 * Half
  BY Zenon
<1> HIDE DEF k
<1>5. from \in Nat /\ to \in Nat /\ to = from + k
  <2>1. PICK x \in Nat : x = n * k
    BY <1>3
  <2>2. PICK y \in Nat : y = (n + 1) * k
    BY <1>3
  <2>3. y = x + k
    BY <1>3, <2>1, <2>2
  <2>4. x + HeadOctets \in Nat /\ y + HeadOctets \in Nat
        /\ y + HeadOctets = x + HeadOctets + k
    BY <1>1, <2>3, SMT DEF HeadOctets
  <2> QED BY <2>1, <2>2, <2>4
<1>6. Word16(from) = from
  <2> HIDE DEF from, to
  <2>1. from < 2 * Half
    BY <1>1, <1>4, <1>5, SMT DEF Half
  <2> QED BY <1>5, <2>1, WordSmall
<1>7. Word16(to) < from /\ Word16(to) \in Nat
  <2> HIDE DEF from, to
  <2> QED BY <1>1, <1>4, <1>5, SMT DEF Word16, Half
<1>8. DataStart(a, n) = from
  BY <1>2, <1>6 DEF DataStart
<1>9. DataEnd(a, n) = IF Word16(to) > a.data_len THEN a.data_len ELSE Word16(to)
  BY <1>2 DEF DataEnd
<1> HIDE DEF from, to
<1>10. DataEnd(a, n) = Word16(to)
  BY <1>1, <1>4, <1>5, <1>7, <1>9, SMT
<1> QED BY <1>1, <1>4, <1>5, <1>7, <1>8, <1>10, SMT

LEMMA InitAnswer == SegmentInit => AnswerSent
BY SMT DEF SegmentInit, AnswerSent, MaxApduLen

LEMMA SegmentSent ==
  ASSUME AnswersFit, AnswerSent, segmented_c_ack_pdu
  PROVE  AnswerSent'
<1>1. PICK a \in Answers : answer = <<a>>
  BY DEF AnswerSent, segmented_c_ack_pdu
<1> DEFINE k == Contents(a)
           from == DataStart(a, seq)
           to == DataEnd(a, seq)
<1>2. /\ k \in Nat /\ k > 0 /\ a.data_len \in Nat
      /\ a.data_len - HeadOctets <= 256 * k /\ k + SegmentHead <= MaxApduLen
  BY AnswerBounds
<1>3. answer[1] = a /\ answer # << >>
  BY <1>1
<1>4. whole # TRUE
  BY DEF segmented_c_ack_pdu
<1>5. /\ seq \in 0 .. 255 /\ torn = FALSE /\ joined \in Nat
      /\ joined = seq * k + HeadOctets /\ joined < a.data_len
  BY <1>3, <1>4 DEF AnswerSent
<1>6. from = joined
  BY <1>5, SegmentPositions
<1>7. to = IF (seq + 1) * k + HeadOctets > a.data_len THEN a.data_len
           ELSE (seq + 1) * k + HeadOctets
  BY <1>5, SegmentPositions
<1>8. /\ joined' = joined + (IF to > from THEN to - from ELSE 0)
      /\ size' = SegmentHead + (IF to > from THEN to - from ELSE 0)
      /\ whole' = (to >= a.data_len) /\ torn' = (torn \/ from # joined)
      /\ seq' = (seq + 1) % 256 /\ answer' = answer
  BY <1>3 DEF segmented_c_ack_pdu
<1>9. seq * k \in Nat /\ (seq + 1) * k \in Nat /\ (seq + 1) * k = seq * k + k
  BY <1>2, <1>5, Product, SMT
<1>0. /\ whole' = TRUE => to >= a.data_len
      /\ whole' # TRUE => ~(to >= a.data_len)
  BY <1>8, Zenon
<1> HIDE DEF k, from, to
<1>10. seq' \in 0 .. 255
  BY <1>5, <1>8, SMT
<1>11. torn' = FALSE
  BY <1>5, <1>6, <1>8
<1>12. /\ to > from /\ to \in Nat /\ joined' = to
  <2>1. to \in Nat /\ to > joined
    BY <1>2, <1>5, <1>7, <1>9, SMT DEF HeadOctets
  <2> QED BY <2>1, <1>5, <1>6, <1>8, SMT
<1>13. whole' = TRUE => joined' = a.data_len
  <2> SUFFICES ASSUME whole' = TRUE PROVE joined' = a.data_len
    OBVIOUS
  <2>1. to >= a.data_len
    BY <1>0
  <2> QED BY <1>2, <1>7, <1>9, <1>12, <2>1, SMT DEF HeadOctets
<1>14. whole' # TRUE => joined' < a.data_len /\ joined' = seq' * k + HeadOctets
  <2> SUFFICES ASSUME whole' # TRUE
               PROVE  joined' < a.data_len /\ joined' = seq' * k + HeadOctets
    OBVIOUS
  <2>1. to < a.data_len
    <3>1. ~(to >= a.data_len)
      BY <1>0
    <3> QED BY <1>2, <1>12, <3>1, SMT
  <2>2. to = (seq + 1) * k + HeadOctets
    BY <1>2, <1>7, <1>9, <2>1, SMT DEF HeadOctets
  <2>3. (seq + 1) * k < 256 * k
    BY <1>2, <1>9, <2>1, <2>2, SMT DEF HeadOctets
  <2>4. seq + 1 < 256
    <3>1. seq + 1 \in Nat
      BY <1>5, SMT
    <3>2. seq + 1 >= 256 => (seq + 1) * k >= 256 * k
      BY <1>2, <3>1, Product
    <3>3. 256 * k \in Nat
      BY <1>2, SMT
    <3> QED BY <1>9, <2>3, <3>1, <3>2, <3>3, SMT
  <2>5. seq' = seq + 1
    BY <1>5, <1>8, <2>4, SMT
  <2> QED BY <1>12, <2>1, <2>2, <2>5
<1>15. joined' \in Nat /\ size' <= MaxApduLen
  <2>1. to <= (seq + 1) * k + HeadOctets
    BY <1>2, <1>7, <1>9, SMT DEF HeadOctets
  <2>2. to - from <= k
    BY <1>2, <1>5, <1>6, <1>9, <1>12, <2>1, SMT DEF HeadOctets
  <2>3. size' = SegmentHead + (to - from)
    BY <1>8, <1>12
  <2> QED BY <1>2, <1>5, <1>6, <1>12, <2>2, <2>3, SMT DEF SegmentHead, MaxApduLen
<1>16. answer' = <<a>> /\ answer'[1] = a
  BY <1>1, <1>8
<1> QED BY <1>10, <1>11, <1>13, <1>14, <1>15, <1>16 DEF AnswerSent, k

LEMMA NextAnswer ==
  ASSUME AnswersFit, AnswerSent, [SegmentNext]_segment
  PROVE  AnswerSent'
<1>1. ASSUME NEW a \in Answers, Begin(a) PROVE AnswerSent'
  <2>1. /\ answer' = <<a>> /\ answer'[1] = a /\ seq' = 0 /\ joined' = HeadOctets
        /\ whole' = FALSE /\ torn' = FALSE /\ size' <= MaxApduLen
    BY <1>1, SMT DEF Begin, MaxApduLen
  <2>2. Contents(a) \in Nat /\ a.data_len \in Nat /\ a.data_len > HeadOctets
    BY AnswerBounds
  <2>3. 0 * Contents(a) + HeadOctets = HeadOctets /\ HeadOctets \in Nat
    BY <2>2, SMT DEF HeadOctets
  <2>4. HeadOctets < a.data_len
    BY <2>2, <2>3, SMT
  <2>5. 0 \in 0 .. 255
    BY SMT
  <2> QED BY <2>1, <2>3, <2>4, <2>5, Zenon DEF AnswerSent
<1>2. CASE segmented_c_ack_pdu
  BY <1>2, SegmentSent
<1>3. CASE End
  BY <1>3, SMT DEF End, AnswerSent, MaxApduLen
<1>4. CASE UNCHANGED segment
  BY <1>4 DEF segment, AnswerSent
<1> QED BY <1>1, <1>2, <1>3, <1>4 DEF SegmentNext

LEMMA AnswerJoins ==
  ASSUME AnswersFit, AnswerSent
  PROVE  SegmentsJoin
<1> SUFFICES ASSUME answer # << >>
             PROVE  /\ ~torn
                    /\ whole <=> joined = answer[1].data_len
                    /\ ~whole => DataStart(answer[1], seq) < answer[1].data_len
  BY DEF SegmentsJoin, AnswerSent
<1>1. PICK a \in Answers : answer = <<a>>
  BY DEF AnswerSent
<1>2. answer[1] = a /\ a.data_len \in Nat
  BY <1>1, AnswerBounds
<1>3. CASE whole = TRUE
  BY <1>3 DEF AnswerSent
<1>4. CASE whole # TRUE
  <2>1. /\ seq \in 0 .. 255 /\ torn = FALSE /\ joined \in Nat
        /\ joined = seq * Contents(a) + HeadOctets /\ joined < a.data_len
    BY <1>2, <1>4 DEF AnswerSent
  <2>2. DataStart(a, seq) = joined
    BY <2>1, SegmentPositions
  <2>3. joined # a.data_len
    BY <1>2, <2>1, SMT
  <2> QED BY <1>2, <1>4, <2>1, <2>2, <2>3
<1> QED BY <1>3, <1>4
(* Set() starts from cleared flags: what a device has is a function of the *)
(* last arguments alone.                                                   *)
LastSet ==
  /\ fd = NotOpen \/ fd \in Paths
  /\ tty = [p \in Paths |-> tty[p]] /\ asked = [p \in Paths |-> asked[p]]
  /\ \A p \in Paths, a \in Settings : asked[p] = <<a>> => tty[p] = Config(a)

Flags == {"CBAUD", "CSIZE", "CSTOPB", "PARENB", "PARODD", "CREAD", "CRTSCTS"}

(* Each setter writes its own fields and leaves the others as they are.    *)
LEMMA SetSpeed ==
  ASSUME NEW b, b \in Rates, NEW s, s = [Cleared EXCEPT !.CBAUD = speed_to_baud(b)]
  PROVE  DOMAIN s = Flags /\ s.CBAUD = b
<1>1. speed_to_baud(b) = b
  BY DEF speed_to_baud
<1>2. s = [Cleared EXCEPT !.CBAUD = b]
  BY <1>1
<1> QED BY <1>2, SMT DEF Cleared, Flags

LEMMA SetParity ==
  ASSUME NEW s, DOMAIN s = Flags, NEW l \in {"N", "O", "E"},
         NEW r, r = set_parity(s, l)
  PROVE  /\ DOMAIN r = Flags /\ r.CBAUD = s.CBAUD
         /\ r.PARENB = (l # "N")
         /\ l # "N" => r.PARODD = (l = "O")
<1>1. CASE l = "N"
  <2>1. r = [s EXCEPT !.PARENB = FALSE]
    BY <1>1 DEF set_parity
  <2> QED BY <2>1, <1>1 DEF Flags
<1>2. CASE l # "N"
  <2>1. r = [s EXCEPT !.PARENB = TRUE, !.PARODD = (l = "O")]
    BY <1>2 DEF set_parity
  <2> QED BY <2>1, <1>2 DEF Flags
<1> QED BY <1>1, <1>2

LEMMA SetBsize ==
  ASSUME NEW s, DOMAIN s = Flags, NEW b \in 5 .. 8, NEW r, r = set_bsize(s, b)
  PROVE  /\ DOMAIN r = Flags /\ r.CSIZE = b /\ r.CBAUD = s.CBAUD
         /\ r.PARENB = s.PARENB /\ r.PARODD = s.PARODD
<1>1. r = [s EXCEPT !.CSIZE = b]
  BY DEF set_bsize
<1> QED BY <1>1 DEF Flags

LEMMA SetStop ==
  ASSUME NEW s, DOMAIN s = Flags, NEW n, NEW r, r = set_stop(s, n)
  PROVE  /\ DOMAIN r = Flags /\ r.CSTOPB = (n # 1) /\ r.CBAUD = s.CBAUD
         /\ r.CSIZE = s.CSIZE /\ r.PARENB = s.PARENB /\ r.PARODD = s.PARODD
<1>1. r = [s EXCEPT !.CSTOPB = (n # 1)]
  BY DEF set_stop
<1> QED BY <1>1 DEF Flags

LEMMA Enable ==
  ASSUME NEW s, DOMAIN s = Flags,
         NEW r, r = [s EXCEPT !.CREAD = TRUE, !.CRTSCTS = FALSE]
  PROVE  /\ r.CBAUD = s.CBAUD /\ r.CSIZE = s.CSIZE /\ r.CSTOPB = s.CSTOPB
         /\ r.PARENB = s.PARENB /\ r.PARODD = s.PARODD
BY DEF Flags

LEMMA ConfigFields ==
  ASSUME NEW a, Supported(a), NEW r, r = Config(a)
  PROVE  /\ r.CBAUD = a.baud /\ r.CSIZE = a.bsize /\ r.CSTOPB = (a.stop # 1)
         /\ r.PARENB = (Letter(a.parity) # "N")
         /\ Letter(a.parity) # "N" => r.PARODD = (Letter(a.parity) = "O")
<1>1. a.baud \in Rates /\ a.bsize \in 5 .. 8 /\ Letter(a.parity) \in {"N", "O", "E"}
  BY DEF Supported
<1>2. PICK s1 : s1 = [Cleared EXCEPT !.CBAUD = speed_to_baud(a.baud)]
  OBVIOUS
<1>3. PICK s2 : s2 = set_parity(s1, Letter(a.parity))
  OBVIOUS
<1>4. PICK s3 : s3 = set_bsize(s2, a.bsize)
  OBVIOUS
<1>5. PICK s4 : s4 = set_stop(s3, a.stop)
  OBVIOUS
<1>6. r = [s4 EXCEPT !.CREAD = TRUE, !.CRTSCTS = FALSE]
  BY <1>2, <1>3, <1>4, <1>5, Zenon DEF Config
<1>7. DOMAIN s1 = Flags /\ s1.CBAUD = a.baud
  BY <1>1, <1>2, SetSpeed, Zenon
<1>8. /\ DOMAIN s2 = Flags /\ s2.CBAUD = s1.CBAUD
      /\ s2.PARENB = (Letter(a.parity) # "N")
      /\ Letter(a.parity) # "N" => s2.PARODD = (Letter(a.parity) = "O")
  BY <1>1, <1>3, <1>7, SetParity
<1>9. /\ DOMAIN s3 = Flags /\ s3.CSIZE = a.bsize /\ s3.CBAUD = s2.CBAUD
      /\ s3.PARENB = s2.PARENB /\ s3.PARODD = s2.PARODD
  BY <1>1, <1>4, <1>8, SetBsize
<1>10. /\ DOMAIN s4 = Flags /\ s4.CSTOPB = (a.stop # 1) /\ s4.CBAUD = s3.CBAUD
       /\ s4.CSIZE = s3.CSIZE /\ s4.PARENB = s3.PARENB /\ s4.PARODD = s3.PARODD
  BY <1>5, <1>9, SetStop
<1>11. /\ r.CBAUD = s4.CBAUD /\ r.CSIZE = s4.CSIZE /\ r.CSTOPB = s4.CSTOPB
       /\ r.PARENB = s4.PARENB /\ r.PARODD = s4.PARODD
  BY <1>6, <1>10, Enable, Zenon
<1> QED BY <1>7, <1>8, <1>9, <1>10, <1>11, Zenon

LEMMA GettersAgree ==
  ASSUME NEW a, NEW s, Supported(a), s = Config(a)
  PROVE  /\ get_speed(s) = a.baud /\ get_bsize(s) = a.bsize
         /\ get_stop(s) = a.stop /\ get_parity(s) = Letter(a.parity)
<1> DEFINE L == Letter(a.parity)
<1>1. /\ a.baud \in Rates /\ a.bsize \in 5 .. 8 /\ a.stop \in {1, 2}
      /\ L \in {"N", "O", "E"}
  BY DEF Supported
<1>2. /\ s.CBAUD = a.baud /\ s.CSIZE = a.bsize /\ s.CSTOPB = (a.stop # 1)
      /\ s.PARENB = (L # "N")
      /\ L # "N" => s.PARODD = (L = "O")
  BY ConfigFields, Zenon
<1> HIDE DEF L
<1>3. get_speed(s) = a.baud /\ get_bsize(s) = a.bsize
  BY <1>1, <1>2 DEF get_speed, get_bsize
<1>4. get_stop(s) = a.stop
  <2>1. CASE a.stop = 1  BY <2>1, <1>2 DEF get_stop
  <2>2. CASE a.stop = 2  BY <2>2, <1>2 DEF get_stop
  <2> QED BY <2>1, <2>2, <1>1
<1>5. get_parity(s) = L
  <2>1. CASE L = "N"
    <3>1. s.PARENB = FALSE
      BY <2>1, <1>2
    <3> QED BY <3>1, <2>1 DEF get_parity
  <2>2. CASE L = "O"
    <3>1. s.PARENB = TRUE /\ s.PARODD = TRUE
      BY <2>2, <1>2
    <3> QED BY <3>1, <2>2 DEF get_parity
  <2>3. CASE L = "E"
    <3>1. s.PARENB = TRUE /\ s.PARODD = FALSE
      BY <2>3, <1>2
    <3> QED BY <3>1, <2>3 DEF get_parity
  <2> QED BY <2>1, <2>2, <2>3, <1>1
<1> QED BY <1>3, <1>4, <1>5 DEF L

LEMMA SettingsLast == LastSet => SettingsHold
<1> SUFFICES ASSUME LastSet, NEW p \in Paths, NEW a \in Settings,
                    asked[p] = <<a>>, Supported(a)
             PROVE  /\ get_speed(tty[p]) = a.baud /\ get_bsize(tty[p]) = a.bsize
                    /\ get_stop(tty[p]) = a.stop
                    /\ get_parity(tty[p]) = Letter(a.parity)
  BY DEF SettingsHold
<1>1. tty[p] = Config(a)
  BY DEF LastSet
<1> QED BY <1>1, GettersAgree

LEMMA InitLast == PortInit => LastSet
BY DEF PortInit, LastSet

LEMMA NextLast == LastSet /\ [PortNext]_port => LastSet'
<1> SUFFICES ASSUME LastSet, [PortNext]_port PROVE LastSet'
  OBVIOUS
<1>1. ASSUME NEW a \in Settings, Set(a) PROVE LastSet'
  <2>1. fd \in Paths /\ fd' = fd
    BY <1>1 DEF LastSet, Set
  <2>2. /\ tty' = [tty EXCEPT ![fd] = Config(a)]
        /\ asked' = [asked EXCEPT ![fd] = <<a>>]
    BY <1>1 DEF Set
  <2>3. tty' = [p \in Paths |-> tty'[p]] /\ asked' = [p \in Paths |-> asked'[p]]
    BY <2>2 DEF LastSet
  <2>4. ASSUME NEW p \in Paths, NEW b \in Settings, asked'[p] = <<b>>
        PROVE  tty'[p] = Config(b)
    <3>1. CASE p = fd
      <4>1. asked'[p] = <<a>> /\ tty'[p] = Config(a)
        BY <3>1, <2>2 DEF LastSet
      <4>2. a = b
        BY <4>1, <2>4
      <4> QED BY <4>1, <4>2
    <3>2. CASE p # fd
      <4>1. asked'[p] = asked[p] /\ tty'[p] = tty[p]
        BY <3>2, <2>2 DEF LastSet
      <4> QED BY <4>1, <2>4 DEF LastSet
    <3> QED BY <3>1, <3>2
  <2> QED BY <2>1, <2>3, <2>4 DEF LastSet
<1>2. ASSUME NEW p \in Paths, Open(p) PROVE LastSet'
  BY <1>2 DEF LastSet, Open
<1>3. CASE Close
  BY <1>3 DEF LastSet, Close
<1>4. ASSUME fd' = fd, tty' = tty, asked' = asked
      PROVE  LastSet'
  BY <1>4 DEF LastSet
<1>5. ASSUME NEW b \in BOOLEAN, Block(b) PROVE LastSet'
  BY <1>5, <1>4 DEF Block
<1>6. CASE SetMode
  BY <1>6, <1>4 DEF SetMode
<1>7. CASE UNCHANGED port
  BY <1>7, <1>4 DEF port
<1> QED BY <1>1, <1>2, <1>3, <1>5, <1>6, <1>7 DEF PortNext
-----------------------------------------------------------------------------
(* Induction over the numbers up to N: a set of them that has 0, and with  *)
(* each number the next one, has all.                                      *)
LEMMA LeastOne ==
  ASSUME NEW T \in SUBSET Nat, T # {}
  PROVE  \E m \in T : \A k \in T : m <= k
<1>1. PICK R : R = OpToRel(<, Nat)
  OBVIOUS
<1>2. IsWellFoundedOn(R, Nat)
  BY <1>1, NatLessThanWellFounded
<1>3. PICK m \in T : \A k \in T : ~ (<<k, m>> \in R)
  BY <1>2, WFMin
<1>4. \A k \in T : k < m => <<k, m>> \in R
  BY <1>1 DEF OpToRel
<1>5. ASSUME NEW k \in T PROVE m <= k
  <2>1. ~ (k < m)
    BY <1>3, <1>4
  <2> QED BY <2>1
<1> QED BY <1>5

LEMMA Upwards ==
  ASSUME NEW S \in SUBSET Nat, 0 \in S, \A n \in S : n + 1 \in S
  PROVE  S = Nat
<1> SUFFICES ASSUME Nat \ S # {} PROVE FALSE
  OBVIOUS
<1>1. PICK m \in Nat \ S : \A k \in Nat \ S : m <= k
  BY LeastOne
<1>2. m # 0 /\ m - 1 \in Nat /\ m - 1 + 1 = m
  BY <1>1
<1> QED BY <1>1, <1>2

-----------------------------------------------------------------------------
(* The check sums after each of the first k octets.                        *)
IsRun(g, first, octets, next, k) ==
  \A n \in 0 .. k : g[n] = IF n = 0 THEN first ELSE next[octets[n]][g[n - 1]]

LEMMA RunExists ==
  ASSUME NEW V, NEW first \in V, NEW octets \in Seq(Octet),
         NEW next \in [Octet -> [V -> V]]
  PROVE  \A k \in Nat : k <= Len(octets) =>
           \E g \in [0 .. k -> V] : IsRun(g, first, octets, next, k)
<1> DEFINE S == {k \in Nat : k <= Len(octets) =>
                   \E g \in [0 .. k -> V] : IsRun(g, first, octets, next, k)}
<1>1. 0 \in S
  <2>1. [n \in 0 .. 0 |-> first] \in [0 .. 0 -> V]
    OBVIOUS
  <2>2. IsRun([n \in 0 .. 0 |-> first], first, octets, next, 0)
    BY DEF IsRun
  <2> QED BY <2>1, <2>2
<1>2. ASSUME NEW k \in S PROVE k + 1 \in S
  <2> SUFFICES ASSUME k + 1 <= Len(octets)
               PROVE  \E g \in [0 .. k + 1 -> V] : IsRun(g, first, octets, next, k + 1)
    OBVIOUS
  <2>1. PICK g \in [0 .. k -> V] : IsRun(g, first, octets, next, k)
    OBVIOUS
  <2>2. PICK l \in V : l = next[octets[k + 1]][g[k]]
    <3>1. octets[k + 1] \in Octet /\ g[k] \in V
      OBVIOUS
    <3>2. next[octets[k + 1]][g[k]] \in V
      BY <3>1, Zenon
    <3> QED BY <3>2, Zenon
  <2>3. PICK h : h = [n \in 0 .. k + 1 |-> IF n = k + 1 THEN l ELSE g[n]]
    OBVIOUS
  <2>4. h \in [0 .. k + 1 -> V]
    BY <2>3
  <2>5. ASSUME NEW n \in 0 .. k + 1
        PROVE  h[n] = IF n = 0 THEN first ELSE next[octets[n]][h[n - 1]]
    <3>1. CASE n = k + 1
      <4>1. h[n] = l /\ n # 0 /\ n - 1 = k /\ k \in 0 .. k + 1 /\ k # k + 1
        BY <2>3, <3>1
      <4>2. h[k] = g[k]
        BY <2>3, <4>1, Zenon
      <4> QED BY <2>2, <3>1, <4>1, <4>2, Zenon
    <3>2. CASE n # k + 1
      <4>1. n \in 0 .. k /\ h[n] = g[n] /\ (n # 0 => h[n - 1] = g[n - 1])
        BY <2>3, <3>2
      <4> QED BY <2>1, <4>1 DEF IsRun
    <3> QED BY <3>1, <3>2
  <2> QED BY <2>4, <2>5 DEF IsRun
<1>3. S = Nat
  <2> HIDE DEF S
  <2>1. S \in SUBSET Nat
    BY DEF S
  <2> QED BY <1>1, <1>2, <2>1, Upwards
<1> QED BY <1>3

(* What Through() makes of w octets, from what it makes of the lower and    *)
(* the upper half of them.                                                 *)
Span(V, octets, next, w, lower, upper) ==
  [n \in 0 .. Len(octets) |-> [v \in V |->
     IF w = 0 THEN v ELSE IF w = 1 THEN next[octets[n + 1]][v]
     ELSE upper[n + w \div 2][lower[n][v]]]]

IsSpan(V, octets, next, f, k) ==
  f = [w \in 0 .. k |->
         Span(V, octets, next, w, f[w \div 2], f[w - w \div 2])]

LEMMA Halves ==
  \A w \in Nat : /\ w \div 2 \in 0 .. w /\ w - w \div 2 \in 0 .. w
                 /\ w # 0 /\ w # 1 => w \div 2 \in 0 .. w - 1 /\ w - w \div 2 \in 0 .. w - 1
OBVIOUS

LEMMA SpanExists ==
  ASSUME NEW V, NEW octets, NEW next
  PROVE  \A k \in Nat : \E f : IsSpan(V, octets, next, f, k)
<1> DEFINE S == {k \in Nat : \E f : IsSpan(V, octets, next, f, k)}
           At(w, l, u) == Span(V, octets, next, w, l, u)
<1>1. \A l, u, m, o : At(0, l, u) = At(0, m, o) /\ At(1, l, u) = At(1, m, o)
  BY DEF Span
<1> HIDE DEF At
<1>2. 0 \in S
  <2>1. PICK f : f = [w \in 0 .. 0 |-> At(0, 0, 0)]
    OBVIOUS
  <2>2. f = [w \in 0 .. 0 |-> At(w, f[w \div 2], f[w - w \div 2])]
    BY <1>1, <2>1
  <2>3. IsSpan(V, octets, next, f, 0)
    BY <2>2, Zenon DEF IsSpan, At
  <2> QED BY <2>3
<1>3. ASSUME NEW k \in S PROVE k + 1 \in S
  <2>1. PICK f : IsSpan(V, octets, next, f, k)
    OBVIOUS
  <2>2. f = [w \in 0 .. k |-> At(w, f[w \div 2], f[w - w \div 2])]
    BY <2>1, Zenon DEF IsSpan, At
  <2>3. PICK j : j = k + 1
    OBVIOUS
  <2>4. k \in Nat /\ j \in Nat /\ j # 0
    BY <2>3
  <2>5. PICK g : g = [w \in 0 .. j |-> IF w = j THEN At(j, f[j \div 2], f[j - j \div 2])
                                      ELSE f[w]]
    OBVIOUS
  <2>6. \A w \in 0 .. j : w # j => w \in 0 .. k /\ g[w] = f[w]
    BY <2>3, <2>4, <2>5
  <2>7. ASSUME NEW w \in 0 .. j PROVE g[w] = At(w, g[w \div 2], g[w - w \div 2])
    <3>1. CASE w = j
      <4>1. g[w] = At(w, f[w \div 2], f[w - w \div 2])
        BY <2>5, <3>1
      <4>2. CASE w = 1
        BY <1>1, <4>1, <4>2
      <4>3. CASE w # 1
        <5>1. /\ w \div 2 \in 0 .. j /\ w \div 2 # j
              /\ w - w \div 2 \in 0 .. j /\ w - w \div 2 # j
          BY <2>4, <3>1, <4>3, Halves
        <5> QED BY <2>6, <4>1, <5>1, Zenon
      <4> QED BY <4>2, <4>3
    <3>2. CASE w # j
      <4>1. w \in 0 .. k /\ g[w] = f[w]
        BY <2>6, <3>2, Zenon
      <4>2. f[w] = At(w, f[w \div 2], f[w - w \div 2])
        BY <2>2, <4>1
      <4>3. /\ w \div 2 \in 0 .. j /\ w \div 2 # j
            /\ w - w \div 2 \in 0 .. j /\ w - w \div 2 # j
        <5>1. w \in Nat /\ w < j
          BY <2>3, <2>4, <4>1
        <5> QED BY <2>4, <5>1, Halves
      <4> QED BY <2>6, <4>1, <4>2, <4>3, Zenon
    <3> QED BY <3>1, <3>2
  <2>8. g = [w \in 0 .. j |-> g[w]]
    BY <2>5
  <2>9. g = [w \in 0 .. j |-> At(w, g[w \div 2], g[w - w \div 2])]
    BY <2>7, <2>8
  <2>10. IsSpan(V, octets, next, g, j)
    BY <2>9, Zenon DEF IsSpan, At
  <2> QED BY <2>3, <2>4, <2>10
<1>4. S = Nat
  <2> HIDE DEF S
  <2>1. S \in SUBSET Nat
    BY DEF S
  <2> QED BY <1>2, <1>3, <2>1, Upwards
<1> QED BY <1>4

IsComputed(V, first, octets, next) ==
  \E g \in [0 .. Len(octets) -> V] :
    /\ IsRun(g, first, octets, next, Len(octets))
    /\ Through(first, octets, next) = g[Len(octets)]

(* Through() goes through the octets one after the other.                  *)
LEMMA ThroughRun ==
  ASSUME NEW V, NEW first \in V, NEW octets \in Seq(Octet),
         NEW next \in [Octet -> [V -> V]]
  PROVE  IsComputed(V, first, octets, next)
<1>1. PICK N \in Nat : N = Len(octets)
  OBVIOUS
<1>2. PICK g \in [0 .. N -> V] : IsRun(g, first, octets, next, N)
  <2>1. N <= Len(octets)
    BY <1>1
  <2> QED BY <2>1, RunExists, Zenon
<1> DEFINE Spans(f) == IsSpan(V, octets, next, f, N)
           crc == CHOOSE f : Spans(f)
<1>3. Spans(crc)
  <2>1. \E f : Spans(f)
    BY <1>1, SpanExists, Zenon
  <2> HIDE DEF Spans
  <2> QED BY <2>1
<1>4. Through(first, octets, next) = crc[N][0][first]
  <2>1. DOMAIN next[0] = V
    <3>1. 0 \in Octet
      BY DEF Octet
    <3> QED BY <3>1
  <2> QED BY <1>1, <2>1 DEF Through, IsSpan, Span
<1> HIDE DEF crc, Spans
<1>5. ASSUME NEW w \in 0 .. N
      PROVE  crc[w] = Span(V, octets, next, w, crc[w \div 2], crc[w - w \div 2])
  BY <1>3 DEF Spans, IsSpan
<1>10. ASSUME NEW n \in 0 .. N, NEW v \in V PROVE crc[0][n][v] = v
  <2>1. PICK l, u : crc[0] = Span(V, octets, next, 0, l, u)
    <3>1. 0 \in 0 .. N
      OBVIOUS
    <3> QED BY <1>5, <3>1, Zenon
  <2> QED BY <1>1, <2>1 DEF Span
<1>11. ASSUME NEW n \in 0 .. N, NEW v \in V, 1 \in 0 .. N
       PROVE  crc[1][n][v] = next[octets[n + 1]][v]
  <2>1. PICK l, u : crc[1] = Span(V, octets, next, 1, l, u)
    BY <1>5, <1>11, Zenon
  <2> QED BY <1>1, <2>1 DEF Span
<1>12. ASSUME NEW w \in 0 .. N, w # 0, w # 1, NEW n \in 0 .. N, NEW v \in V
       PROVE  crc[w][n][v] = crc[w - w \div 2][n + w \div 2][crc[w \div 2][n][v]]
  <2>1. PICK l, u : /\ l = crc[w \div 2] /\ u = crc[w - w \div 2]
                    /\ crc[w] = Span(V, octets, next, w, l, u)
    BY <1>5, Zenon
  <2>2. crc[w][n][v] = u[n + w \div 2][l[n][v]]
    BY <1>1, <1>12, <2>1 DEF Span
  <2> QED BY <2>1, <2>2, Zenon
<1> DEFINE Right(w) == \A n \in 0 .. N : n + w <= N => crc[w][n][g[n]] = g[n + w]
           S == {k \in Nat : \A w \in 0 .. k : Right(w)}
<1>6. 0 \in S
  <2>1. ASSUME NEW n \in 0 .. N PROVE crc[0][n][g[n]] = g[n + 0]
    <3>1. 0 \in 0 .. N /\ g[n] \in V /\ n + 0 = n
      OBVIOUS
    <3>2. crc[0][n][g[n]] = g[n]
      BY <1>10, <3>1, Zenon
    <3> QED BY <3>1, <3>2, Zenon
  <2>2. \A w \in 0 .. 0 : w = 0
    OBVIOUS
  <2> QED BY <2>1, <2>2, Zenon
<1>7. ASSUME NEW k \in S PROVE k + 1 \in S
  <2>1. PICK w \in Nat : w = k + 1 /\ w # 0
    OBVIOUS
  <2>2. ASSUME NEW n \in 0 .. N, n + w <= N PROVE crc[w][n][g[n]] = g[n + w]
    <3>1. w \in 0 .. N /\ g[n] \in V
      BY <2>1, <2>2
    <3>2. CASE w = 1
      <4>1. PICK m \in 0 .. N : m = n + 1
        BY <2>2, <3>2
      <4>2. g[m] = next[octets[m]][g[n]]
        <5>1. m # 0 /\ m - 1 = n
          BY <4>1
        <5> QED BY <1>2, <5>1, Zenon DEF IsRun
      <4>3. crc[w][n][g[n]] = next[octets[n + 1]][g[n]]
        <5>1. 1 \in 0 .. N
          BY <3>1, <3>2
        <5>2. crc[1][n][g[n]] = next[octets[n + 1]][g[n]]
          BY <1>11, <3>1, <5>1, Zenon
        <5> QED BY <3>2, <5>2, Zenon
      <4> QED BY <3>2, <4>1, <4>2, <4>3, Zenon
    <3>3. CASE w # 1
      <4>1. PICK l \in Nat : l = w \div 2 /\ l \in 0 .. w - 1 /\ w - l \in 0 .. w - 1
        BY <2>1, <3>3, Halves
      <4>2. PICK u \in Nat : u = w - l
        BY <4>1
      <4>3. PICK m \in 0 .. N : m = n + l
        BY <2>2, <4>1
      <4>4. Right(l) /\ Right(u)
        <5>1. l \in 0 .. k /\ u \in 0 .. k
          BY <2>1, <4>1, <4>2
        <5> QED BY <5>1
      <4>5. n + l <= N /\ m + u <= N /\ m + u = n + w
        BY <2>2, <4>1, <4>2, <4>3
      <4> HIDE DEF S
      <4>6. crc[l][n][g[n]] = g[m] /\ crc[u][m][g[m]] = g[n + w]
        BY <4>3, <4>4, <4>5, Zenon
      <4>7. crc[w][n][g[n]] = crc[w - w \div 2][n + w \div 2][crc[w \div 2][n][g[n]]]
        BY <1>12, <2>1, <3>1, <3>3, Zenon
      <4> QED BY <4>1, <4>2, <4>3, <4>6, <4>7, Zenon
    <3> QED BY <3>2, <3>3
  <2>3. \A m \in 0 .. k + 1 : m \in 0 .. k \/ m = k + 1
    OBVIOUS
  <2> HIDE DEF Right
  <2>4. Right(k + 1)
    BY <2>1, <2>2 DEF Right
  <2> QED BY <2>3, <2>4
<1>8. S = Nat
  <2> HIDE DEF S
  <2>1. S \in SUBSET Nat
    BY DEF S
  <2> QED BY <1>6, <1>7, <2>1, Upwards
<1>9. crc[N][0][first] = g[N]
  <2>1. Right(N)
    <3> HIDE DEF Right
    <3>1. N \in 0 .. N
      OBVIOUS
    <3>2. N \in S
      <4> HIDE DEF S
      <4> QED BY <1>8
    <3> QED BY <3>1, <3>2
  <2>2. 0 \in 0 .. N /\ 0 + N <= N /\ 0 + N = N
    OBVIOUS
  <2>3. g[0] = first
    BY <1>2, <2>2, Zenon DEF IsRun
  <2> QED BY <2>1, <2>2, <2>3, Zenon
<1> QED BY <1>1, <1>2, <1>4, <1>9, Zenon DEF IsComputed

LEMMA ThroughType ==
  ASSUME NEW V, NEW first \in V, NEW octets \in Seq(Octet),
         NEW next \in [Octet -> [V -> V]]
  PROVE  Through(first, octets, next) \in V
<1>1. PICK N \in Nat : N = Len(octets)
  OBVIOUS
<1>2. PICK g \in [0 .. N -> V] : Through(first, octets, next) = g[N]
  <2>1. IsComputed(V, first, octets, next)
    BY ThroughRun, Zenon
  <2> QED BY <1>1, <2>1, Zenon DEF IsComputed
<1>3. g[N] \in V
  OBVIOUS
<1> QED BY <1>2, <1>3, Zenon

(* Two sequences that differ in a single octet: the check sums differ from *)
(* there on, when the step is one to one in the octet and in what was      *)
(* before.                                                                 *)
OneToOne(next, V) ==
  /\ \A c \in Octet : \A v, w \in V : next[c][v] = next[c][w] => v = w
  /\ \A c, d \in Octet : \A v \in V : next[c][v] = next[d][v] => c = d

DifferAt(x, y, i) ==
  /\ Len(x) = Len(y) /\ i \in 1 .. Len(x)
  /\ x[i] # y[i]
  /\ \A j \in 1 .. Len(x) : j # i => x[j] = y[j]

LEMMA ThroughDiffers ==
  ASSUME NEW V, NEW first \in V, NEW next \in [Octet -> [V -> V]], OneToOne(next, V),
         NEW x \in Seq(Octet), NEW y \in Seq(Octet), NEW i, DifferAt(x, y, i)
  PROVE  Through(first, x, next) # Through(first, y, next)
<1>1. PICK N \in Nat : N = Len(x) /\ N = Len(y)
  BY DEF DifferAt
<1>2. PICK g \in [0 .. N -> V] :
        IsRun(g, first, x, next, N) /\ Through(first, x, next) = g[N]
  <2>1. IsComputed(V, first, x, next)
    BY ThroughRun, Zenon
  <2> QED BY <1>1, <2>1, Zenon DEF IsComputed
<1>3. PICK h \in [0 .. N -> V] :
        IsRun(h, first, y, next, N) /\ Through(first, y, next) = h[N]
  <2>1. IsComputed(V, first, y, next)
    BY ThroughRun, Zenon
  <2> QED BY <1>1, <2>1, Zenon DEF IsComputed
<1>4. i \in 1 .. N /\ x[i] # y[i] /\ \A j \in 1 .. N : j # i => x[j] = y[j]
  BY <1>1, Zenon DEF DifferAt
<1>5. \A n \in 1 .. N : x[n] \in Octet /\ y[n] \in Octet
  BY <1>1, ElementOfSeq, Zenon
<1> DEFINE S == {n \in Nat : n <= N => (n < i <=> g[n] = h[n])}
<1>6. 0 \in S
  <2>1. 0 \in 0 .. N /\ 0 < i
    BY <1>4
  <2>2. g[0] = first /\ h[0] = first
    BY <1>2, <1>3, <2>1, Zenon DEF IsRun
  <2> QED BY <2>1, <2>2
<1>7. ASSUME NEW n \in S PROVE n + 1 \in S
  <2> SUFFICES ASSUME n + 1 <= N PROVE n + 1 < i <=> g[n + 1] = h[n + 1]
    OBVIOUS
  <2>1. PICK m \in 1 .. N : m = n + 1
    OBVIOUS
  <2>2. m \in 0 .. N /\ m # 0 /\ m - 1 = n /\ n \in 0 .. N
    BY <2>1
  <2>3. g[m] = next[x[m]][g[n]] /\ h[m] = next[y[m]][h[n]]
    BY <1>2, <1>3, <2>2, Zenon DEF IsRun
  <2>4. n < i <=> g[n] = h[n]
    BY <2>2
  <2> HIDE DEF S
  <2>5. g[n] \in V /\ h[n] \in V /\ x[m] \in Octet /\ y[m] \in Octet
    BY <1>5, <2>2
  <2>6. CASE m < i
    <3>1. m # i /\ n < i
      BY <1>4, <2>1, <2>2, <2>6
    <3>2. x[m] = y[m] /\ g[n] = h[n]
      BY <1>4, <2>4, <3>1, Zenon
    <3>3. g[m] = h[m]
      BY <2>3, <3>2, Zenon
    <3> QED BY <2>1, <2>6, <3>3, Zenon
  <2>7. CASE m = i
    <3>1. n < i /\ ~ (m < i)
      BY <1>4, <2>1, <2>2, <2>7
    <3>2. g[n] = h[n] /\ x[m] # y[m]
      BY <1>4, <2>4, <2>7, <3>1, Zenon
    <3>3. g[m] # h[m]
      BY <2>3, <2>5, <3>2 DEF OneToOne
    <3> QED BY <2>1, <3>1, <3>3, Zenon
  <2>8. CASE m > i
    <3>1. ~ (n < i) /\ ~ (m < i) /\ m # i
      BY <1>4, <2>1, <2>2, <2>8
    <3>2. g[n] # h[n] /\ x[m] = y[m]
      BY <1>4, <2>4, <3>1, Zenon
    <3>3. g[m] # h[m]
      BY <2>3, <2>5, <3>2 DEF OneToOne
    <3> QED BY <2>1, <3>1, <3>3, Zenon
  <2> QED BY <1>4, <2>6, <2>7, <2>8
<1>8. S = Nat
  <2> HIDE DEF S
  <2>1. S \in SUBSET Nat
    BY DEF S
  <2> QED BY <1>6, <1>7, <2>1, Upwards
<1>9. g[N] # h[N]
  <2>1. N \in S /\ N <= N /\ ~ (N < i)
    BY <1>4, <1>8, SMTT(60)
  <2> QED BY <2>1
<1> QED BY <1>2, <1>3, <1>9, Zenon

-----------------------------------------------------------------------------
(* 0 .. 65535 is kept closed: no prover takes the range with its numbers.  *)
LEMMA SixteenBits ==
  \A n : n \in Bits16 <=> n \in Nat /\ n <= USHRT_MAX
<1>1. USHRT_MAX \in Nat
  BY SMT DEF USHRT_MAX
<1> QED BY <1>1, SMT DEF Bits16

LEMMA HighLow ==
  ASSUME NEW n \in Bits16
  PROVE  /\ n \div 256 \in Octet /\ n % 256 \in Octet
         /\ 256 * (n \div 256) + (n % 256) = n
<1>1. n \in Nat /\ n <= 65535
  BY SixteenBits, SMT DEF USHRT_MAX
<1>2. /\ n \div 256 \in Nat /\ n \div 256 <= 255
      /\ n % 256 \in Nat /\ n % 256 <= 255
      /\ 256 * (n \div 256) + (n % 256) = n
  BY <1>1, SMT
<1>3. \A k \in Nat : k <= 255 => k \in Octet
  BY SMT DEF Octet
<1>4. n \div 256 \in Octet /\ n % 256 \in Octet
  BY <1>2, <1>3, Zenon
<1> QED BY <1>2, <1>4, Zenon

LEMMA JoinHighLow ==
  ASSUME NEW m \in Octet, NEW n \in Octet
  PROVE  256 * m + n \in Bits16
<1>1. 256 * m + n \in Nat /\ 256 * m + n <= USHRT_MAX
  BY SMT DEF Octet, USHRT_MAX
<1> QED BY <1>1, SixteenBits, Zenon

LEMMA DigitOfDigits ==
  ASSUME NEW i \in 0 .. 15, NEW j \in 0 .. 15
  PROVE  XorDigit[i][j] \in 0 .. 15
<1>1. 2^0 = 1 /\ 2^1 = 2 /\ 2^2 = 4 /\ 2^3 = 8
  OBVIOUS
<1>2. \A k \in 0 .. 3 : (Bit(i, k) + Bit(j, k)) % 2 \in {0, 1}
  BY <1>1 DEF Bit
<1>3. /\ XorBit(i, j, 0) \in 0 .. 1 /\ XorBit(i, j, 1) \in 0 .. 2
      /\ XorBit(i, j, 2) \in 0 .. 4 /\ XorBit(i, j, 3) \in 0 .. 8
  BY <1>1, <1>2 DEF XorBit
<1>4. XorDigit[i][j] =
        XorBit(i, j, 0) + XorBit(i, j, 1) + XorBit(i, j, 2) + XorBit(i, j, 3)
  BY DEF XorDigit
<1> QED BY <1>3, <1>4

LEMMA XorOctet ==
  ASSUME NEW m \in Octet, NEW n \in Octet
  PROVE  Xor(m, n) \in Octet
<1>2. /\ m \div 16 \in 0 .. 15 /\ n \div 16 \in 0 .. 15
      /\ m % 16 \in 0 .. 15 /\ n % 16 \in 0 .. 15
  BY SMT DEF Octet
<1>3. PICK h \in 0 .. 15 : h = XorDigit[m \div 16][n \div 16]
  BY <1>2, DigitOfDigits
<1>4. PICK l \in 0 .. 15 : l = XorDigit[m % 16][n % 16]
  BY <1>2, DigitOfDigits
<1>5. Xor(m, n) = 16 * h + l
  BY <1>3, <1>4 DEF Xor
<1> QED BY <1>5 DEF Octet

LEMMA HeadTable == \A n \in Octet : MSTPHeaderCRC_table[n + 1] \in Octet
BY DEF MSTPHeaderCRC_table, Octet

LEMMA DataTable == \A n \in Octet : MSTPDataCRC_table[n + 1] \in Bits16
<1>1. \A n \in 1 .. 256 : MSTPDataCRC_table[n] \in Nat
  BY SMTT(100) DEF MSTPDataCRC_table
<1>2. \A n \in 1 .. 256 : MSTPDataCRC_table[n] <= USHRT_MAX
  BY SMTT(100) DEF MSTPDataCRC_table, USHRT_MAX
<1>3. \A n \in Octet : n + 1 \in 1 .. 256
  BY DEF Octet
<1> QED BY <1>1, <1>2, <1>3, SixteenBits, Zenon

(* The check sum of the header is an octet, that of the data has 16 bits,  *)
(* whatever they are made of.                                              *)
LEMMA HeadCrcOctet ==
  ASSUME NEW d \in Seq(Octet)
  PROVE  HeadCrc(d) \in Octet
<1>1. PICK next : next = [c \in 0 .. 255 |-> [crc \in 0 .. 255 |-> CRC_Calc_Header(c, crc)]]
  OBVIOUS
<1>2. ASSUME NEW c \in Octet, NEW crc \in Octet PROVE CRC_Calc_Header(c, crc) \in Octet
  BY XorOctet, HeadTable, Zenon DEF CRC_Calc_Header
<1>3. next \in [Octet -> [Octet -> Octet]]
  BY <1>1, <1>2 DEF Octet
<1>4. PICK v \in Octet : v = Through(255, d, next)
  <2>1. 255 \in Octet
    BY DEF Octet
  <2> QED BY <1>3, <2>1, ThroughType, Zenon
<1>5. HeadCrc(d) = 255 - v
  BY <1>1, <1>4, Zenon DEF HeadCrc
<1> QED BY <1>5 DEF Octet

LEMMA DataCrcWord ==
  ASSUME NEW d \in Seq(Octet)
  PROVE  DataCrc(d) \in Bits16
<1>1. PICK next : next = [c \in 0 .. 255 |-> [crc \in Bits16 |-> CRC_Calc_Data(c, crc)]]
  OBVIOUS
<1>2. ASSUME NEW c \in Octet, NEW crc \in Bits16 PROVE CRC_Calc_Data(c, crc) \in Bits16
  <2>1. crc % 256 \in Octet /\ crc \div 256 \in Octet
    BY HighLow
  <2>2. PICK e \in Bits16 : e = MSTPDataCRC_table[Xor(c, crc % 256) + 1]
    BY <2>1, XorOctet, DataTable, Zenon
  <2>3. e % 256 \in Octet /\ e \div 256 \in Octet
    BY HighLow
  <2>4. PICK x \in Octet : x = Xor(crc \div 256, e % 256)
    BY <2>1, <2>3, XorOctet, Zenon
  <2>5. CRC_Calc_Data(c, crc) = 256 * (e \div 256) + x
    BY <2>2, <2>4, ZenonT(60) DEF CRC_Calc_Data
  <2>6. PICK q \in Octet : q = e \div 256
    BY <2>3
  <2>7. 256 * q + x \in Bits16
    BY JoinHighLow
  <2> QED BY <2>5, <2>6, <2>7, Zenon
<1>3. next \in [Octet -> [Bits16 -> Bits16]]
  BY <1>1, <1>2 DEF Octet
<1>4. PICK m \in Bits16 : m = 65535
  <2>1. USHRT_MAX \in Nat /\ USHRT_MAX <= USHRT_MAX
    BY SMT DEF USHRT_MAX
  <2>2. USHRT_MAX \in Bits16
    BY <2>1, SixteenBits, Zenon
  <2> QED BY <2>2, SMT DEF USHRT_MAX
<1>5. PICK v \in Bits16 : v = Through(m, d, next)
  BY <1>3, ThroughType, Zenon
<1>6. DataCrc(d) = m - v
  BY <1>1, <1>4, <1>5, SMT DEF DataCrc
<1>7. m - v \in Bits16
  <2>1. v \in Nat /\ v <= m /\ m \in Nat /\ m = USHRT_MAX
    BY <1>4, SixteenBits, SMT DEF USHRT_MAX
  <2>2. m - v \in Nat /\ m - v <= USHRT_MAX
    BY <2>1, SMT
  <2> QED BY <2>2, SixteenBits, Zenon
<1> QED BY <1>6, <1>7, Zenon

-----------------------------------------------------------------------------
IsAddress(a) ==
  a = << >> \/ \E n \in Bits16, mac \in Seq(Octet) :
                 a = <<[net |-> n, mac |-> mac]>> /\ Len(mac) <= MacSizeMax

AddressRead(s, at) ==
  <<[net |-> 256 * s[at] + s[at + 1],
     mac |-> SubSeq(s, at + 3, at + 2 + s[at + 2])]>>

LEMMA MacLength ==
  ASSUME NEW l \in Nat, l <= MacSizeMax PROVE l \in 0 .. MacSizeMax /\ l \in Octet
BY DEF MacSizeMax, Octet

LEMMA AddressSpace ==
  ASSUME NEW a, IsAddress(a)
  PROVE  /\ AddressOctets(a) \in Seq(Octet)
         /\ Len(AddressOctets(a)) = IF a = << >> THEN 0 ELSE 3 + Len(a[1].mac)
         /\ a # << >> => Len(a[1].mac) \in 0 .. MacSizeMax
         /\ Short(a)
<1>1. CASE a = << >>
  BY <1>1 DEF AddressOctets, Short
<1>2. CASE a # << >>
  <2>1. PICK n \in Bits16, mac \in Seq(Octet) :
               a = <<[net |-> n, mac |-> mac]>> /\ Len(mac) <= MacSizeMax
    BY <1>2 DEF IsAddress
  <2>2. PICK l \in Nat : l = Len(mac)
    OBVIOUS
  <2>3. l \in 0 .. MacSizeMax /\ l \in Octet
    BY <2>1, <2>2, MacLength
  <2>4. PICK front : front = <<n \div 256, n % 256, l>>
    OBVIOUS
  <2>5. front \in Seq(Octet) /\ Len(front) = 3
    <3>1. n \div 256 \in Octet /\ n % 256 \in Octet
      BY HighLow
    <3> QED BY <2>3, <2>4, <3>1
  <2>6. a[1].net = n /\ a[1].mac = mac
    BY <2>1
  <2>7. AddressOctets(a) = front \o mac
    BY <1>2, <2>2, <2>4, <2>6, Zenon DEF AddressOctets
  <2>8. front \o mac \in Seq(Octet) /\ Len(front \o mac) = Len(front) + Len(mac)
    BY <2>5, ConcatProperties, Zenon
  <2>9. Len(AddressOctets(a)) = 3 + Len(a[1].mac)
    BY <2>5, <2>6, <2>7, <2>8, Zenon
  <2>10. Short(a)
    BY <2>1 DEF Short
  <2> QED BY <1>2, <2>2, <2>3, <2>6, <2>7, <2>8, <2>9, <2>10, Zenon
<1> QED BY <1>1, <1>2

(* What parse_npdu() reads where add_npdu_header() has put an address.     *)
LEMMA AddressUnderstood ==
  ASSUME NEW s \in Seq(Octet), NEW at \in Nat \ {0}, NEW a, IsAddress(a),
         a # << >>, IsAt(s, at, AddressOctets(a))
  PROVE  /\ AddressRead(s, at) = a
         /\ s[at + 2] = Len(a[1].mac)
<1>1. PICK n \in Bits16, mac \in Seq(Octet) :
             a = <<[net |-> n, mac |-> mac]>> /\ Len(mac) <= MacSizeMax
  BY DEF IsAddress
<1>2. a[1].net = n /\ a[1].mac = mac
  BY <1>1
<1>3. PICK l \in Nat : l = Len(mac)
  OBVIOUS
<1>4. PICK front : front = <<n \div 256, n % 256, l>>
  OBVIOUS
<1>5. Len(front) = 3 /\ front[1] = n \div 256 /\ front[2] = n % 256 /\ front[3] = l
  BY <1>4
<1>6. front \in Seq(Octet)
  <2>1. l \in Octet
    BY <1>1, <1>3, MacLength
  <2>2. n \div 256 \in Octet /\ n % 256 \in Octet
    BY HighLow
  <2> QED BY <1>4, <2>1, <2>2
<1>7. AddressOctets(a) = front \o mac
  BY <1>2, <1>3, <1>4, Zenon DEF AddressOctets
<1>8. PICK all : all = front \o mac
  OBVIOUS
<1>9. /\ Len(all) = 3 + l
      /\ all[1] = n \div 256 /\ all[2] = n % 256 /\ all[3] = l
      /\ \A i \in 1 .. l : all[3 + i] = mac[i]
  <2>1. /\ Len(all) = Len(front) + Len(mac)
        /\ \A i \in 1 .. Len(front) + Len(mac) :
             all[i] = IF i <= Len(front) THEN front[i] ELSE mac[i - Len(front)]
    BY <1>6, <1>8, ConcatProperties, Zenon
  <2>2. /\ Len(all) = 3 + l
        /\ \A i \in 1 .. 3 + l : all[i] = IF i <= 3 THEN front[i] ELSE mac[i - 3]
    BY <1>3, <1>5, <2>1, ZenonT(60)
  <2>4. ASSUME NEW i \in 1 .. l PROVE all[3 + i] = mac[i]
    <3>1. PICK j \in 1 .. 3 + l : j = 3 + i
      OBVIOUS
    <3>2. all[j] = IF j <= 3 THEN front[j] ELSE mac[j - 3]
      BY <2>2, Zenon
    <3>3. ~(j <= 3) /\ j - 3 = i
      BY <3>1
    <3> QED BY <3>1, <3>2, <3>3, Zenon
  <2>5. all[1] = front[1] /\ all[2] = front[2] /\ all[3] = front[3]
    <3>1. /\ 1 \in 1 .. 3 + l /\ 2 \in 1 .. 3 + l /\ 3 \in 1 .. 3 + l
          /\ 1 <= 3 /\ 2 <= 3 /\ 3 <= 3
      OBVIOUS
    <3> QED BY <2>2, <3>1, Zenon
  <2> QED BY <1>5, <2>2, <2>4, <2>5, Zenon
<1>10. IsAt(s, at, all)
  BY <1>7, <1>8
<1>11. s[at] = n \div 256 /\ s[at + 1] = n % 256 /\ s[at + 2] = l
  <2>1. 1 \in 1 .. Len(all) /\ 2 \in 1 .. Len(all) /\ 3 \in 1 .. Len(all)
    BY <1>9
  <2>2. s[at - 1 + 1] = all[1] /\ s[at - 1 + 2] = all[2] /\ s[at - 1 + 3] = all[3]
    BY <1>10, <2>1 DEF IsAt
  <2>3. at - 1 + 1 = at /\ at - 1 + 2 = at + 1 /\ at - 1 + 3 = at + 2
    OBVIOUS
  <2> QED BY <1>9, <2>2, <2>3
<1>12. IsAt(s, at + 3, mac)
  <2>1. at + 3 - 1 + Len(mac) <= Len(s)
    BY <1>3, <1>9, <1>10 DEF IsAt
  <2>2. ASSUME NEW i \in 1 .. Len(mac) PROVE s[at + 3 - 1 + i] = mac[i]
    <3>1. 3 + i \in 1 .. Len(all) /\ at - 1 + (3 + i) = at + 3 - 1 + i
      BY <1>3, <1>9
    <3>2. s[at - 1 + (3 + i)] = all[3 + i]
      BY <1>10, <3>1 DEF IsAt
    <3> QED BY <1>3, <1>9, <3>1, <3>2
  <2> QED BY <2>1, <2>2 DEF IsAt
<1>13. SubSeq(s, at + 3, at + 2 + s[at + 2]) = mac
  <2>1. at + 3 \in Nat \ {0} /\ at + 2 + s[at + 2] = (at + 3) - 1 + Len(mac)
    BY <1>3, <1>11
  <2> QED BY <1>12, <2>1, Whole
<1>14. 256 * s[at] + s[at + 1] = n
  BY <1>11, HighLow
<1>15. AddressRead(s, at) = a
  BY <1>1, <1>13, <1>14, ZenonT(60) DEF AddressRead
<1>16. s[at + 2] = Len(a[1].mac)
  BY <1>2, <1>3, <1>11, Zenon
<1> QED BY <1>15, <1>16

-----------------------------------------------------------------------------
(* The control octet and what parse_npdu() reads from it.                  *)
FlagsOK(h) == h.reply \in BOOLEAN /\ h.priority \in 0 .. 3
FlagsRead(h, c) ==
  /\ (c \div 128) % 2 # 1
  /\ (c \div 32) % 2 = 1 <=> h.dest # << >>
  /\ (c \div 8) % 2 = 1 <=> h.src # << >>
  /\ (c \div 4) % 2 = 1 <=> h.reply = TRUE
  /\ c % 4 = h.priority

LEMMA ControlBits ==
  ASSUME NEW h, FlagsOK(h)
  PROVE  Control(h) \in Octet /\ FlagsRead(h, Control(h))
<1>0. h.reply \in BOOLEAN /\ h.priority \in 0 .. 3
  BY DEF FlagsOK
<1>1. PICK d \in {0, 1} : d = (IF h.dest # << >> THEN 1 ELSE 0)
  OBVIOUS
<1>2. PICK e \in {0, 1} : e = (IF h.src # << >> THEN 1 ELSE 0)
  OBVIOUS
<1>3. PICK r \in {0, 1} : r = (IF h.reply THEN 1 ELSE 0)
  OBVIOUS
<1>4. PICK p \in 0 .. 3 : p = h.priority
  BY <1>0
<1>5. PICK c : c = 32 * d + 8 * e + 4 * r + p
  OBVIOUS
<1>6. /\ (IF h.dest # << >> THEN 32 ELSE 0) = 32 * d
      /\ (IF h.src # << >> THEN 8 ELSE 0) = 8 * e
      /\ (IF h.reply THEN 4 ELSE 0) = 4 * r
  BY <1>1, <1>2, <1>3
<1>7. Control(h) = c
  BY <1>4, <1>5, <1>6 DEF Control
<1>8. /\ c \in 0 .. 255 /\ c \div 128 = 0 /\ 0 % 2 # 1
      /\ (c \div 32) % 2 = d /\ (c \div 8) % 2 = e /\ (c \div 4) % 2 = r
      /\ c % 4 = p
  BY <1>5, SMT
<1>9. /\ d = 1 <=> h.dest # << >>
      /\ e = 1 <=> h.src # << >>
      /\ r = 1 <=> h.reply = TRUE
  BY <1>1, <1>2, <1>3
<1>10. c \in Octet
  BY <1>8 DEF Octet
<1>11. FlagsRead(h, c)
  BY <1>4, <1>8, <1>9 DEF FlagsRead
<1> QED BY <1>7, <1>10, <1>11, Zenon



-----------------------------------------------------------------------------
(* A header that add_npdu_header() accepts, as MessagesAssumption has it.  *)
HeaderOK(h) ==
  /\ IsAddress(h.dest) /\ IsAddress(h.src)
  /\ FlagsOK(h)

Hops(h) == IF h.dest # << >> THEN <<255>> ELSE << >>

(* The space made for the header is what it takes.                         *)
LEMMA HeaderFits ==
  ASSUME NEW h, HeaderOK(h)
  PROVE  /\ HeaderOctets(h) \in Seq(Octet)
         /\ Len(HeaderOctets(h)) = HeaderSize(h)
         /\ HeaderSize(h) \in 2 .. HeaderMax
<1>1. IsAddress(h.dest) /\ IsAddress(h.src) /\ FlagsOK(h)
  BY Zenon DEF HeaderOK
<1> DEFINE d == AddressOctets(h.dest)
           e == AddressOctets(h.src)
           c == <<1, Control(h)>>
           k == IF h.dest # << >> THEN 1 ELSE 0
<1>2. d \in Seq(Octet) /\ e \in Seq(Octet)
  BY <1>1, AddressSpace, Zenon
<1>3. c \in Seq(Octet) /\ Len(c) = 2
  <2>1. Control(h) \in Octet
    BY <1>1, ControlBits, Zenon
  <2>2. 1 \in Octet
    BY DEF Octet
  <2> QED BY <2>1, <2>2
<1>4. Hops(h) \in Seq(Octet) /\ Len(Hops(h)) = k
  <2>1. 255 \in Octet
    BY DEF Octet
  <2>2. CASE h.dest # << >>
    BY <2>1, <2>2 DEF Hops
  <2>3. CASE h.dest = << >>
    BY <2>3 DEF Hops
  <2> QED BY <2>2, <2>3
<1>0. PICK f : f = Hops(h)
  OBVIOUS
<1>5. HeaderOctets(h) = ((c \o d) \o e) \o f
  BY <1>0, Zenon DEF HeaderOctets, Hops
<1>6. PICK m \in Nat : m = Len(d)
  BY <1>2
<1>7. PICK n \in Nat : n = Len(e)
  BY <1>2
<1> HIDE DEF c, d, e, k
<1>8. /\ HeaderOctets(h) \in Seq(Octet)
      /\ Len(HeaderOctets(h)) = Len(c) + Len(d) + Len(e) + Len(f)
  <2>1. c \o d \in Seq(Octet) /\ Len(c \o d) = Len(c) + Len(d)
    BY <1>2, <1>3, ConcatProperties, Zenon
  <2>2. /\ (c \o d) \o e \in Seq(Octet)
        /\ Len((c \o d) \o e) = Len(c \o d) + Len(e)
    BY <1>2, <2>1, ConcatProperties, Zenon
  <2>3. f \in Seq(Octet)
    BY <1>0, <1>4, Zenon
  <2>4. /\ ((c \o d) \o e) \o f \in Seq(Octet)
        /\ Len(((c \o d) \o e) \o f) = Len((c \o d) \o e) + Len(f)
    BY <2>2, <2>3, ConcatProperties, Zenon
  <2> QED BY <1>5, <2>1, <2>2, <2>4, Zenon
<1>9. /\ HeaderOctets(h) \in Seq(Octet)
      /\ Len(HeaderOctets(h)) = 2 + m + n + k
  BY <1>0, <1>3, <1>4, <1>6, <1>7, <1>8, Zenon
<1>10. PICK x \in 0 .. MacSizeMax :
         IF h.dest = << >> THEN m = 0
         ELSE m = 3 + x /\ x = Len(h.dest[1].mac)
  <2>1. 0 \in 0 .. MacSizeMax
    BY DEF MacSizeMax
  <2> QED BY <1>1, <1>6, <2>1, AddressSpace, Zenon DEF d
<1>11. PICK y \in 0 .. MacSizeMax :
         IF h.src = << >> THEN n = 0
         ELSE n = 3 + y /\ y = Len(h.src[1].mac)
  <2>1. 0 \in 0 .. MacSizeMax
    BY DEF MacSizeMax
  <2> QED BY <1>1, <1>7, <2>1, AddressSpace, Zenon DEF e
<1>12. x \in 0 .. 7 /\ y \in 0 .. 7
  BY DEF MacSizeMax
<1>13. (IF h.dest # << >> THEN 4 + Len(h.dest[1].mac) ELSE 0) = m + k
  BY <1>10, <1>12 DEF k
<1>14. (IF h.src # << >> THEN 3 + Len(h.src[1].mac) ELSE 0) = n
  BY <1>11
<1>15. HeaderSize(h) = 2 + (m + k) + n
  BY <1>13, <1>14, Zenon DEF HeaderSize
<1>16. m <= 10 /\ n <= 10 /\ k \in {0, 1}
  BY <1>10, <1>11, <1>12 DEF k
<1>17. 2 + m + n + k = 2 + (m + k) + n /\ 2 + (m + k) + n \in 2 .. HeaderMax
  BY <1>16 DEF HeaderMax
<1> QED BY <1>9, <1>15, <1>17, Zenon
-----------------------------------------------------------------------------
(* The parts of a header (the first two octets, the addresses and the hop  *)
(* count) and what follows it lie one behind the other.                    *)
Joint(c, d, e, f, u) == (((c \o d) \o e) \o f) \o u

InOrder(c, d, e, f, u) ==
  LET s == Joint(c, d, e, f, u)
  IN  /\ s \in Seq(Octet)
      /\ Len(s) = Len(c) + Len(d) + Len(e) + Len(f) + Len(u)
      /\ IsAt(s, 1, c)
      /\ IsAt(s, Len(c) + 1, d)
      /\ IsAt(s, Len(c) + Len(d) + 1, e)
      /\ IsAt(s, Len(c) + Len(d) + Len(e) + 1, f)
      /\ IsAt(s, Len(c) + Len(d) + Len(e) + Len(f) + 1, u)

LEMMA OneBehindTheOther ==
  ASSUME NEW c \in Seq(Octet), NEW d \in Seq(Octet), NEW e \in Seq(Octet),
         NEW f \in Seq(Octet), NEW u \in Seq(Octet)
  PROVE  InOrder(c, d, e, f, u)
<1>1. PICK p2 : p2 = c \o d
  OBVIOUS
<1>2. PICK p3 : p3 = p2 \o e
  OBVIOUS
<1>3. PICK p4 : p4 = p3 \o f
  OBVIOUS
<1>4. PICK s : s = p4 \o u
  OBVIOUS
<1>5. s = Joint(c, d, e, f, u)
  BY <1>1, <1>2, <1>3, <1>4, Zenon DEF Joint
<1>6. PICK lc \in Nat : lc = Len(c)
  OBVIOUS
<1>7. PICK ld \in Nat : ld = Len(d)
  OBVIOUS
<1>8. PICK le \in Nat : le = Len(e)
  OBVIOUS
<1>9. PICK lf \in Nat : lf = Len(f)
  OBVIOUS
<1>10. /\ lc + 1 \in Nat \ {0} /\ lc + ld + 1 \in Nat \ {0}
       /\ lc + ld + le + 1 \in Nat \ {0} /\ 1 \in Nat \ {0}
  OBVIOUS
<1>11. /\ p2 \in Seq(Octet) /\ Len(p2) = lc + ld
       /\ IsAt(p2, lc + 1, d)
  BY <1>1, <1>6, <1>7, Appended, Zenon
<1>12. /\ p3 \in Seq(Octet) /\ Len(p3) = lc + ld + le
       /\ IsAt(p3, lc + ld + 1, e)
  <2>1. /\ p3 \in Seq(Octet) /\ Len(p3) = Len(p2) + Len(e)
        /\ IsAt(p3, Len(p2) + 1, e)
    BY <1>2, <1>11, Appended, Zenon
  <2> QED BY <1>8, <1>11, <2>1, Zenon
<1>13. /\ p4 \in Seq(Octet) /\ Len(p4) = lc + ld + le + lf
       /\ IsAt(p4, lc + ld + le + 1, f)
  <2>1. /\ p4 \in Seq(Octet) /\ Len(p4) = Len(p3) + Len(f)
        /\ IsAt(p4, Len(p3) + 1, f)
    BY <1>3, <1>12, Appended, Zenon
  <2> QED BY <1>9, <1>12, <2>1, Zenon
<1>14. /\ s \in Seq(Octet) /\ Len(s) = lc + ld + le + lf + Len(u)
       /\ IsAt(s, lc + ld + le + lf + 1, u)
  <2>1. /\ s \in Seq(Octet) /\ Len(s) = Len(p4) + Len(u)
        /\ IsAt(s, Len(p4) + 1, u)
    BY <1>4, <1>13, Appended, Zenon
  <2> QED BY <1>13, <2>1, Zenon
<1>15. IsAt(c, 1, c)
  BY DEF IsAt
<1>16. IsAt(p2, 1, c)
  BY <1>1, <1>10, <1>15, StaysAt, Zenon
<1>17. IsAt(p3, 1, c) /\ IsAt(p3, lc + 1, d)
  BY <1>2, <1>10, <1>11, <1>16, StaysAt, Zenon
<1>18. IsAt(p4, 1, c) /\ IsAt(p4, lc + 1, d) /\ IsAt(p4, lc + ld + 1, e)
  BY <1>3, <1>10, <1>12, <1>17, StaysAt, Zenon
<1>19. /\ IsAt(s, 1, c) /\ IsAt(s, lc + 1, d) /\ IsAt(s, lc + ld + 1, e)
       /\ IsAt(s, lc + ld + le + 1, f)
  BY <1>4, <1>10, <1>13, <1>18, StaysAt, Zenon
<1> QED
  BY <1>5, <1>6, <1>7, <1>8, <1>9, <1>14, <1>19, Zenon DEF InOrder

LEMMA HeaderParts ==
  ASSUME NEW h, HeaderOK(h), NEW u \in Seq(Octet)
  PROVE  /\ AddHeader(h, u) = Joint(<<1, Control(h)>>, AddressOctets(h.dest),
                                    AddressOctets(h.src), Hops(h), u)
         /\ InOrder(<<1, Control(h)>>, AddressOctets(h.dest),
                    AddressOctets(h.src), Hops(h), u)
<1>1. PICK front : front = HeaderOctets(h)
  OBVIOUS
<1>2. 1 + Len(front) - HeaderSize(h) = 1
  <2>1. PICK n \in Nat : n = Len(front) /\ n = HeaderSize(h)
    BY <1>1, HeaderFits, LenProperties, Zenon
  <2>2. 1 + n - n = 1
    OBVIOUS
  <2> QED BY <2>1, <2>2, Zenon
<1>3. AddHeader(h, u) = front \o SubSeq(u, 1, Len(u))
  BY <1>1, <1>2, Zenon DEF AddHeader
<1>4. SubSeq(u, 1, Len(u)) = u
  BY SubSeqFull, Zenon
<1>5. AddHeader(h, u) = Joint(<<1, Control(h)>>, AddressOctets(h.dest),
                              AddressOctets(h.src), Hops(h), u)
  BY <1>1, <1>3, <1>4, Zenon DEF HeaderOctets, Joint, Hops
<1>6. <<1, Control(h)>> \in Seq(Octet)
  <2>1. FlagsOK(h)
    BY Zenon DEF HeaderOK
  <2>2. Control(h) \in Octet
    BY <2>1, ControlBits, Zenon
  <2>3. 1 \in Octet
    BY DEF Octet
  <2> QED BY <2>2, <2>3
<1>7. AddressOctets(h.dest) \in Seq(Octet) /\ AddressOctets(h.src) \in Seq(Octet)
  BY AddressSpace, Zenon DEF HeaderOK
<1>8. Hops(h) \in Seq(Octet)
  <2>1. 255 \in Octet
    BY DEF Octet
  <2> QED BY <2>1 DEF Hops
<1> QED BY <1>5, <1>6, <1>7, <1>8, OneBehindTheOther, Zenon
-----------------------------------------------------------------------------
(* What parse_npdu() reads, part by part.                                  *)
Flag(s, bit) == (s[2] \div bit) % 2 = 1
DestRead(s) == IF Flag(s, 32) THEN AddressRead(s, 3) ELSE << >>
SourceAt(s) == IF Flag(s, 32) THEN 6 + s[5] ELSE 3
SourceRead(s) == IF Flag(s, 8) THEN AddressRead(s, SourceAt(s)) ELSE << >>
HopAt(s) == IF Flag(s, 8) THEN SourceAt(s) + 3 + s[SourceAt(s) + 2] ELSE SourceAt(s)
TailAt(s) == IF Flag(s, 32) THEN HopAt(s) + 1 ELSE HopAt(s)

LEMMA ParseRead ==
  ASSUME NEW s
  PROVE  ParseNpdu(s) =
           IF Flag(s, 128) THEN [err |-> 16]
           ELSE IF ~Short(DestRead(s)) \/ ~Short(SourceRead(s)) THEN [err |-> 3]
           ELSE [err |-> 0, dest |-> DestRead(s), src |-> SourceRead(s),
                 reply |-> Flag(s, 4), priority |-> s[2] % 4,
                 hops |-> IF Flag(s, 32) THEN <<s[HopAt(s)]>> ELSE << >>,
                 apdu |-> SubSeq(s, TailAt(s), Len(s))]
BY DEF ParseNpdu, Flag, DestRead, SourceAt, SourceRead, HopAt, TailAt, AddressRead

LEMMA FlagsOfHeader ==
  ASSUME NEW h, HeaderOK(h), NEW s, s[2] = Control(h)
  PROVE  /\ ~Flag(s, 128)
         /\ Flag(s, 32) <=> h.dest # << >>
         /\ Flag(s, 8) <=> h.src # << >>
         /\ Flag(s, 4) = h.reply
         /\ s[2] % 4 = h.priority
<1>1. FlagsOK(h)
  BY Zenon DEF HeaderOK
<1>2. FlagsRead(h, s[2])
  BY <1>1, ControlBits, Zenon
<1>3. h.reply \in BOOLEAN /\ Flag(s, 4) \in BOOLEAN
  BY <1>1, Zenon DEF FlagsOK, Flag
<1>4. Flag(s, 4) <=> h.reply = TRUE
  BY <1>2, Zenon DEF FlagsRead, Flag
<1>5. Flag(s, 4) = h.reply
  BY <1>3, <1>4
<1> QED BY <1>2, <1>5, Zenon DEF FlagsRead, Flag

Understood(h, u, r) ==
  /\ r.err = 0
  /\ r.dest = h.dest /\ r.src = h.src
  /\ r.reply = h.reply /\ r.priority = h.priority
  /\ r.apdu = u

(* What add_npdu_header() writes is what parse_npdu() reads.               *)
LEMMA ParseUnderstood ==
  ASSUME NEW h, HeaderOK(h), NEW u \in Seq(Octet)
  PROVE  Understood(h, u, ParseNpdu(AddHeader(h, u)))
<1>1. PICK c : c = <<1, Control(h)>>
  OBVIOUS
<1>2. PICK d : d = AddressOctets(h.dest)
  OBVIOUS
<1>3. PICK e : e = AddressOctets(h.src)
  OBVIOUS
<1>4. PICK f : f = Hops(h)
  OBVIOUS
<1>5. PICK s : s = AddHeader(h, u)
  OBVIOUS
<1>6. IsAddress(h.dest) /\ IsAddress(h.src)
  BY Zenon DEF HeaderOK
<1>7. d \in Seq(Octet) /\ e \in Seq(Octet)
  BY <1>2, <1>3, <1>6, AddressSpace, Zenon
<1>8. PICK ld \in Nat : ld = Len(d)
  BY <1>7
<1>9. PICK le \in Nat : le = Len(e)
  BY <1>7
<1>10. PICK lf \in {0, 1} : lf = Len(f) /\ (lf = 1 <=> h.dest # << >>)
  BY <1>4 DEF Hops
<1>11. Len(c) = 2
  BY <1>1
<1>12. PICK lu \in Nat : lu = Len(u)
  OBVIOUS
<1>13. s = Joint(c, d, e, f, u) /\ InOrder(c, d, e, f, u)
  BY <1>1, <1>2, <1>3, <1>4, <1>5, HeaderParts, Zenon
<1>14. /\ s \in Seq(Octet)
       /\ Len(s) = 2 + ld + le + lf + lu
       /\ IsAt(s, 1, c)
       /\ IsAt(s, 2 + 1, d)
       /\ IsAt(s, 2 + ld + 1, e)
       /\ IsAt(s, 2 + ld + le + lf + 1, u)
  BY <1>8, <1>9, <1>10, <1>11, <1>12, <1>13, Zenon DEF InOrder
<1>15. s[2] = Control(h)
  <2>1. 2 \in 1 .. Len(c) /\ c[2] = Control(h) /\ 1 - 1 + 2 = 2
    BY <1>1
  <2>2. s[1 - 1 + 2] = c[2]
    BY <1>14, <2>1, Zenon DEF IsAt
  <2> QED BY <2>1, <2>2, Zenon
<1>16. DestRead(s) = h.dest /\ SourceAt(s) = 3 + ld
  <2>1. CASE h.dest = << >>
    <3>1. ~Flag(s, 32)
      BY <1>15, <2>1, FlagsOfHeader, Zenon
    <3>2. ld = 0
      BY <1>2, <1>8, <2>1 DEF AddressOctets
    <3> QED BY <2>1, <3>1, <3>2 DEF DestRead, SourceAt
  <2>2. CASE h.dest # << >>
    <3>1. Flag(s, 32)
      BY <1>15, <2>2, FlagsOfHeader, ZenonT(60)
    <3>2. ld = 3 + Len(h.dest[1].mac) /\ Len(h.dest[1].mac) \in 0 .. MacSizeMax
      BY <1>2, <1>6, <1>8, <2>2, AddressSpace, Zenon
    <3>3. 2 + 1 = 3 /\ 3 + 2 = 5 /\ 3 \in Nat \ {0}
      OBVIOUS
    <3>4. IsAt(s, 3, AddressOctets(h.dest))
      BY <1>2, <1>14, <3>3, Zenon
    <3>5. AddressRead(s, 3) = h.dest /\ s[3 + 2] = Len(h.dest[1].mac)
      BY <1>6, <1>14, <2>2, <3>3, <3>4, AddressUnderstood, Zenon
    <3>6. PICK n \in 0 .. MacSizeMax : n = Len(h.dest[1].mac) /\ s[5] = n /\ ld = 3 + n
      BY <3>2, <3>3, <3>5, Zenon
    <3>7. 6 + s[5] = 3 + ld
      BY <3>6 DEF MacSizeMax
    <3> QED BY <3>1, <3>5, <3>7, Zenon DEF DestRead, SourceAt
  <2> QED BY <2>1, <2>2
<1>17. SourceRead(s) = h.src /\ HopAt(s) = 3 + ld + le
  <2>1. CASE h.src = << >>
    <3>1. ~Flag(s, 8)
      BY <1>15, <2>1, FlagsOfHeader, Zenon
    <3>2. le = 0
      BY <1>3, <1>9, <2>1 DEF AddressOctets
    <3> QED BY <1>16, <2>1, <3>1, <3>2 DEF SourceRead, HopAt
  <2>2. CASE h.src # << >>
    <3>1. Flag(s, 8)
      BY <1>15, <2>2, FlagsOfHeader, ZenonT(60)
    <3>2. le = 3 + Len(h.src[1].mac) /\ Len(h.src[1].mac) \in 0 .. MacSizeMax
      BY <1>3, <1>6, <1>9, <2>2, AddressSpace, Zenon
    <3>3. PICK at \in Nat \ {0} : at = 3 + ld /\ at = 2 + ld + 1
      OBVIOUS
    <3>4. IsAt(s, at, AddressOctets(h.src))
      BY <1>3, <1>14, <3>3, Zenon
    <3>5. AddressRead(s, at) = h.src /\ s[at + 2] = Len(h.src[1].mac)
      BY <1>6, <1>14, <2>2, <3>4, AddressUnderstood, Zenon
    <3>6. PICK n \in 0 .. MacSizeMax :
            n = Len(h.src[1].mac) /\ s[at + 2] = n /\ le = 3 + n
      BY <3>2, <3>5, Zenon
    <3>7. at + 3 + s[at + 2] = 3 + ld + le
      <4>1. le = 3 + n
        BY <3>6, Zenon
      <4>2. at + 3 + n = 3 + ld + le
        BY <3>3, <4>1
      <4> QED BY <3>6, <4>2, Zenon
    <3>8. SourceAt(s) = at
      BY <1>16, <3>3, Zenon
    <3> QED BY <3>1, <3>5, <3>7, <3>8, Zenon DEF SourceRead, HopAt
  <2> QED BY <2>1, <2>2
<1>18. TailAt(s) = 2 + ld + le + lf + 1
  <2>1. Flag(s, 32) <=> h.dest # << >>
    BY <1>15, FlagsOfHeader, Zenon
  <2>2. TailAt(s) = IF h.dest # << >> THEN 3 + ld + le + 1 ELSE 3 + ld + le
    BY <1>17, <2>1, Zenon DEF TailAt
  <2>3. CASE lf = 1
    BY <1>10, <2>2, <2>3
  <2>4. CASE lf = 0
    BY <1>10, <2>2, <2>4
  <2> QED BY <2>3, <2>4
<1>19. SubSeq(s, TailAt(s), Len(s)) = u
  <2>1. PICK n \in Nat \ {0} : n = 2 + ld + le + lf + 1
    OBVIOUS
  <2>6. s \in Seq(Octet) /\ u \in Seq(Octet) /\ n \in Nat \ {0}
    BY <1>14, <2>1, Zenon
  <2>2. 2 + ld + le + lf + lu = n - 1 + lu
    BY <2>1
  <2>3. Len(s) = n - 1 + Len(u)
    BY <1>12, <1>14, <2>2, Zenon
  <2>4. IsAt(s, n, u)
    BY <1>14, <2>1, Zenon
  <2>5. SubSeq(s, n, Len(s)) = u
    <3>1. PICK m : m = Len(s)
      OBVIOUS
    <3>2. m = n - 1 + Len(u)
      BY <2>3, <3>1, Zenon
    <3>3. SubSeq(s, n, m) = u
      BY <2>4, <2>6, <3>2, Whole
    <3> QED BY <3>1, <3>3, Zenon
  <2> QED BY <1>18, <2>1, <2>5, Zenon
<1>20. ~Flag(s, 128) /\ Flag(s, 4) = h.reply /\ s[2] % 4 = h.priority
  BY <1>15, FlagsOfHeader
<1>21. Short(h.dest) /\ Short(h.src)
  BY <1>6, AddressSpace, Zenon
<1>22. PICK hops : hops = IF Flag(s, 32) THEN <<s[HopAt(s)]>> ELSE << >>
  OBVIOUS
<1>23. ParseNpdu(s) = [err |-> 0, dest |-> h.dest, src |-> h.src, reply |-> h.reply,
                       priority |-> h.priority, hops |-> hops, apdu |-> u]
  BY <1>16, <1>17, <1>19, <1>20, <1>21, <1>22, ParseRead, Zenon
<1>24. PICK r : r = ParseNpdu(s)
  OBVIOUS
<1>25. /\ r.err = 0 /\ r.dest = h.dest /\ r.src = h.src /\ r.reply = h.reply
       /\ r.priority = h.priority /\ r.apdu = u
  BY <1>23, <1>24
<1> QED BY <1>5, <1>24, <1>25, Zenon DEF Understood
-----------------------------------------------------------------------------
(* The frame around a packet, as MakeFrame() builds it and as RecvFrame    *)
(* reads it: f[i + 1] is start[i].                                         *)
IsFrame(d, f) ==
  /\ f \in Seq(Octet)
  /\ Len(d) >= 8 /\ Len(f) = Len(d) + 10 /\ Len(f) <= FrameBuffer
  /\ f[1] = 85 /\ f[2] = 255
  /\ HeadCrc(<<f[3], f[4], f[5], f[6], f[7]>>) = f[8]
  /\ 256 * f[6] + f[7] = Len(d)
  /\ IsAt(f, 9, d) /\ SubSeq(f, 9, Len(f) - 2) = d
  /\ f[Len(f) - 1] + 256 * f[Len(f)] = DataCrc(d)

LEMMA FrameParts ==
  ASSUME NEW d \in Seq(Octet), NEW f,
         f = MakeFrame(DataExpectingReply, 1, 0, d), f # << >>
  PROVE  IsFrame(d, f)
<1>1. PICK ld \in Nat : ld = Len(d)
  OBVIOUS
<1>2. ~ (ld < MinFrameData \/ ld + Overhead > FrameBuffer)
  BY <1>1, Zenon DEF MakeFrame
<1>3. ld >= 8 /\ ld + 10 <= FrameBuffer /\ ld <= 502
  BY <1>2 DEF MinFrameData, Overhead, FrameBuffer
<1>4. PICK h : h = <<DataExpectingReply, 1, 0, ld \div 256, ld % 256>>
  OBVIOUS
<1>5. ld \in Bits16
  <2>1. ld <= USHRT_MAX
    BY <1>3, SMT DEF USHRT_MAX
  <2> QED BY <2>1, SixteenBits, Zenon
<1>6. /\ h \in Seq(Octet) /\ Len(h) = 5
      /\ 256 * h[4] + h[5] = ld
      /\ h = <<h[1], h[2], h[3], h[4], h[5]>>
  <2>1. PICK q \in Octet : q = ld \div 256
    BY <1>5, HighLow, Zenon
  <2>2. PICK r \in Octet : r = ld % 256
    BY <1>5, HighLow, Zenon
  <2>3. h = <<DataExpectingReply, 1, 0, q, r>>
    BY <1>4, <2>1, <2>2, Zenon
  <2>4. DataExpectingReply \in Octet /\ 1 \in Octet /\ 0 \in Octet
    BY DEF DataExpectingReply, Octet
  <2>5. 256 * q + r = ld
    BY <1>5, <2>1, <2>2, HighLow, Zenon
  <2> QED BY <2>3, <2>4, <2>5
<1>7. PICK hc \in Octet : hc = HeadCrc(h)
  BY <1>6, HeadCrcOctet
<1>8. PICK dc \in Bits16 : dc = DataCrc(d)
  BY DataCrcWord
<1>9. PICK lo \in Octet : lo = dc % 256
  BY HighLow
<1>10. PICK hi \in Octet : hi = dc \div 256
  BY HighLow
<1>11. PICK b : b = <<85, 255>>
  OBVIOUS
<1>12. PICK e : e = <<hc>>
  OBVIOUS
<1>13. PICK t : t = <<lo, hi>>
  OBVIOUS
<1>14. f = Joint(b, h, e, d, t)
  <2>1. f = Joint(<<85, 255>>, <<DataExpectingReply, 1, 0, Len(d) \div 256, Len(d) % 256>>,
                  <<HeadCrc(<<DataExpectingReply, 1, 0, Len(d) \div 256, Len(d) % 256>>)>>,
                  d, <<DataCrc(d) % 256, DataCrc(d) \div 256>>)
    BY Zenon DEF MakeFrame, Joint
  <2> QED BY <1>1, <1>4, <1>7, <1>8, <1>9, <1>10, <1>11, <1>12, <1>13, <2>1, ZenonT(60)
<1>15. /\ b \in Seq(Octet) /\ Len(b) = 2 /\ e \in Seq(Octet) /\ Len(e) = 1
       /\ t \in Seq(Octet) /\ Len(t) = 2
  <2>1. 85 \in Octet /\ 255 \in Octet
    BY DEF Octet
  <2> QED BY <1>11, <1>12, <1>13, <2>1
<1>16. InOrder(b, h, e, d, t)
  BY <1>6, <1>15, OneBehindTheOther, Zenon
<1>17. /\ f \in Seq(Octet)
       /\ Len(f) = 2 + 5 + 1 + ld + 2
       /\ IsAt(f, 1, b)
       /\ IsAt(f, 2 + 1, h)
       /\ IsAt(f, 2 + 5 + 1, e)
       /\ IsAt(f, 2 + 5 + 1 + 1, d)
       /\ IsAt(f, 2 + 5 + 1 + ld + 1, t)
  BY <1>1, <1>6, <1>14, <1>15, <1>16, Zenon DEF InOrder
<1>18. /\ 2 + 1 = 3 /\ 2 + 5 + 1 = 8 /\ 2 + 5 + 1 + 1 = 9
       /\ 2 + 5 + 1 + ld + 1 = ld + 9 /\ 2 + 5 + 1 + ld + 2 = ld + 10
  OBVIOUS
<1>19. /\ f \in Seq(Octet) /\ Len(f) = ld + 10
       /\ IsAt(f, 1, b) /\ IsAt(f, 3, h) /\ IsAt(f, 8, e)
       /\ IsAt(f, 9, d) /\ IsAt(f, ld + 9, t)
  BY <1>17, <1>18, Zenon
<1>20. f[1] = 85 /\ f[2] = 255
  <2>1. b[1] = 85 /\ b[2] = 255 /\ Len(b) = 2
    BY <1>11
  <2>2. \A i \in 1 .. 2 : f[1 - 1 + i] = b[i]
    BY <1>19, <2>1, Zenon DEF IsAt
  <2>3. \A i \in 1 .. 2 : 1 - 1 + i = i
    OBVIOUS
  <2>4. 1 \in 1 .. 2 /\ 2 \in 1 .. 2
    OBVIOUS
  <2>5. f[1] = b[1] /\ f[2] = b[2]
    BY <2>2, <2>3, <2>4, Zenon
  <2> QED BY <2>1, <2>5, ZenonT(60)
<1>21. f[3] = h[1] /\ f[4] = h[2] /\ f[5] = h[3] /\ f[6] = h[4] /\ f[7] = h[5]
  <2>1. \A i \in 1 .. 5 : f[3 - 1 + i] = h[i]
    BY <1>6, <1>19, Zenon DEF IsAt
  <2>2. \A i \in 1 .. 5 : f[i + 2] = h[i]
    <3>1. \A i \in 1 .. 5 : 3 - 1 + i = i + 2
      OBVIOUS
    <3> QED BY <2>1, <3>1, Zenon
  <2>3. /\ 1 \in 1 .. 5 /\ 2 \in 1 .. 5 /\ 3 \in 1 .. 5 /\ 4 \in 1 .. 5 /\ 5 \in 1 .. 5
        /\ 1 + 2 = 3 /\ 2 + 2 = 4 /\ 3 + 2 = 5 /\ 4 + 2 = 6 /\ 5 + 2 = 7
    OBVIOUS
  <2> QED BY <2>2, <2>3, Zenon
<1>22. f[8] = hc
  <2>1. e[1] = hc /\ 8 - 1 + 1 = 8 /\ 1 \in 1 .. 1
    BY <1>12
  <2>2. f[8 - 1 + 1] = e[1]
    BY <1>15, <1>19, <2>1, Zenon DEF IsAt
  <2> QED BY <2>1, <2>2, Zenon
<1>23. f[ld + 9] = lo /\ f[ld + 10] = hi
  <2>1. t[1] = lo /\ t[2] = hi /\ 1 \in 1 .. 2 /\ 2 \in 1 .. 2
    BY <1>13
  <2>2. PICK n : n = ld + 9
    OBVIOUS
  <2>3. IsAt(f, n, t) /\ Len(t) = 2
    BY <1>15, <1>19, <2>2, Zenon
  <2>4. \A i \in 1 .. 2 : f[n - 1 + i] = t[i]
    BY <2>3, Zenon DEF IsAt
  <2>5. f[n - 1 + 1] = t[1] /\ f[n - 1 + 2] = t[2]
    BY <2>1, <2>4, Zenon
  <2>6. n - 1 + 1 = ld + 9 /\ n - 1 + 2 = ld + 10
    BY <2>2
  <2> QED BY <2>1, <2>5, <2>6, Zenon
<1>24. lo + 256 * hi = dc
  <2>1. 256 * hi + lo = dc
    BY <1>9, <1>10, HighLow, Zenon
  <2>2. 256 * hi + lo = lo + 256 * hi
    BY SMT DEF Octet
  <2> QED BY <2>1, <2>2, Zenon
<1>25. Len(f) - 1 = ld + 9 /\ Len(f) - 2 = 9 - 1 + ld
  <2>1. PICK n : n = Len(f) /\ n = ld + 10
    BY <1>19, Zenon
  <2>2. n - 1 = ld + 9 /\ n - 2 = 9 - 1 + ld
    BY <2>1
  <2> QED BY <2>1, <2>2, Zenon
<1>26. SubSeq(f, 9, Len(f) - 2) = d
  <2>1. PICK m : m = Len(f) - 2
    OBVIOUS
  <2>2. m = 9 - 1 + Len(d)
    BY <1>1, <1>25, <2>1, Zenon
  <2>3. SubSeq(f, 9, m) = d
    BY <1>19, <2>2, Whole
  <2> QED BY <2>1, <2>3, Zenon
<1>27. HeadCrc(<<f[3], f[4], f[5], f[6], f[7]>>) = f[8]
  BY <1>6, <1>7, <1>21, <1>22, Zenon
<1>28. 256 * f[6] + f[7] = Len(d)
  BY <1>1, <1>6, <1>21, Zenon
<1>29. f[Len(f) - 1] + 256 * f[Len(f)] = DataCrc(d)
  BY <1>8, <1>19, <1>23, <1>24, <1>25, Zenon
<1>30. Len(d) >= 8 /\ Len(f) = Len(d) + 10 /\ Len(f) <= FrameBuffer
  BY <1>1, <1>3, <1>19, Zenon
<1> QED BY <1>19, <1>20, <1>26, <1>27, <1>28, <1>29, <1>30, Zenon DEF IsFrame
-----------------------------------------------------------------------------
(* An octet is known from its exclusive or with another one.               *)
LEMMA FourBits ==
  ASSUME NEW j \in 0 .. 15
  PROVE  /\ Bit(j, 0) \in {0, 1} /\ Bit(j, 1) \in {0, 1}
         /\ Bit(j, 2) \in {0, 1} /\ Bit(j, 3) \in {0, 1}
         /\ j = Bit(j, 0) + 2 * Bit(j, 1) + 4 * Bit(j, 2) + 8 * Bit(j, 3)
<1>1. 2^0 = 1 /\ 2^1 = 2 /\ 2^2 = 4 /\ 2^3 = 8
  OBVIOUS
<1>2. /\ Bit(j, 0) = (j \div 1) % 2 /\ Bit(j, 1) = (j \div 2) % 2
      /\ Bit(j, 2) = (j \div 4) % 2 /\ Bit(j, 3) = (j \div 8) % 2
  BY <1>1 DEF Bit
<1>3. /\ (j \div 1) % 2 \in {0, 1} /\ (j \div 2) % 2 \in {0, 1}
      /\ (j \div 4) % 2 \in {0, 1} /\ (j \div 8) % 2 \in {0, 1}
      /\ j = ((j \div 1) % 2) + 2 * ((j \div 2) % 2)
               + 4 * ((j \div 4) % 2) + 8 * ((j \div 8) % 2)
  BY SMT
<1> QED BY <1>2, <1>3, Zenon

DigitSum(i, j) ==
  ((Bit(i, 0) + Bit(j, 0)) % 2) + 2 * ((Bit(i, 1) + Bit(j, 1)) % 2)
    + 4 * ((Bit(i, 2) + Bit(j, 2)) % 2) + 8 * ((Bit(i, 3) + Bit(j, 3)) % 2)

LEMMA DigitXor ==
  ASSUME NEW i \in 0 .. 15, NEW j \in 0 .. 15
  PROVE  XorDigit[i][j] = DigitSum(i, j)
<1>1. 2^0 = 1 /\ 2^1 = 2 /\ 2^2 = 4 /\ 2^3 = 8
  OBVIOUS
<1>2. XorDigit[i][j] =
        XorBit(i, j, 0) + XorBit(i, j, 1) + XorBit(i, j, 2) + XorBit(i, j, 3)
  BY DEF XorDigit
<1>3. PICK a, b, c, d \in {0, 1} :
        /\ a = (Bit(i, 0) + Bit(j, 0)) % 2 /\ b = (Bit(i, 1) + Bit(j, 1)) % 2
        /\ c = (Bit(i, 2) + Bit(j, 2)) % 2 /\ d = (Bit(i, 3) + Bit(j, 3)) % 2
  BY FourBits
<1>4. /\ XorBit(i, j, 0) = a * 1 /\ XorBit(i, j, 1) = b * 2
      /\ XorBit(i, j, 2) = c * 4 /\ XorBit(i, j, 3) = d * 8
  BY <1>1, <1>3, Zenon DEF XorBit
<1>5. a * 1 + b * 2 + c * 4 + d * 8 = a + 2 * b + 4 * c + 8 * d
  OBVIOUS
<1> QED BY <1>2, <1>3, <1>4, <1>5, Zenon DEF DigitSum

LEMMA DigitCancels ==
  ASSUME NEW i \in 0 .. 15, NEW j \in 0 .. 15, NEW k \in 0 .. 15,
         XorDigit[i][j] = XorDigit[i][k]
  PROVE  j = k
<1>1. PICK a0, a1, a2, a3 \in {0, 1} :
        a0 = Bit(i, 0) /\ a1 = Bit(i, 1) /\ a2 = Bit(i, 2) /\ a3 = Bit(i, 3)
  BY FourBits
<1>2. PICK b0, b1, b2, b3 \in {0, 1} :
        /\ b0 = Bit(j, 0) /\ b1 = Bit(j, 1) /\ b2 = Bit(j, 2) /\ b3 = Bit(j, 3)
        /\ j = b0 + 2 * b1 + 4 * b2 + 8 * b3
  BY FourBits
<1>3. PICK c0, c1, c2, c3 \in {0, 1} :
        /\ c0 = Bit(k, 0) /\ c1 = Bit(k, 1) /\ c2 = Bit(k, 2) /\ c3 = Bit(k, 3)
        /\ k = c0 + 2 * c1 + 4 * c2 + 8 * c3
  BY FourBits
<1>4. DigitSum(i, j) = DigitSum(i, k)
  BY DigitXor, Zenon
<1>5. ((a0 + b0) % 2) + 2 * ((a1 + b1) % 2) + 4 * ((a2 + b2) % 2) + 8 * ((a3 + b3) % 2)
        = ((a0 + c0) % 2) + 2 * ((a1 + c1) % 2) + 4 * ((a2 + c2) % 2) + 8 * ((a3 + c3) % 2)
  BY <1>1, <1>2, <1>3, <1>4, Zenon DEF DigitSum
<1>6. \A a, b, c \in {0, 1} :
        /\ (a + b) % 2 \in {0, 1} /\ (a + c) % 2 \in {0, 1}
        /\ (a + b) % 2 = (a + c) % 2 => b = c
  BY SMT
<1>7. PICK p0, p1, p2, p3 \in {0, 1} :
        /\ p0 = (a0 + b0) % 2 /\ p1 = (a1 + b1) % 2
        /\ p2 = (a2 + b2) % 2 /\ p3 = (a3 + b3) % 2
  BY <1>6
<1>8. PICK q0, q1, q2, q3 \in {0, 1} :
        /\ q0 = (a0 + c0) % 2 /\ q1 = (a1 + c1) % 2
        /\ q2 = (a2 + c2) % 2 /\ q3 = (a3 + c3) % 2
  BY <1>6
<1>10. p0 + 2 * p1 + 4 * p2 + 8 * p3 = q0 + 2 * q1 + 4 * q2 + 8 * q3
  BY <1>5, <1>7, <1>8, Zenon
<1>11. p0 = q0 /\ p1 = q1 /\ p2 = q2 /\ p3 = q3
  BY <1>10
<1>12. /\ (a0 + b0) % 2 = (a0 + c0) % 2 /\ (a1 + b1) % 2 = (a1 + c1) % 2
       /\ (a2 + b2) % 2 = (a2 + c2) % 2 /\ (a3 + b3) % 2 = (a3 + c3) % 2
  BY <1>7, <1>8, <1>11, Zenon
<1>9. b0 = c0 /\ b1 = c1 /\ b2 = c2 /\ b3 = c3
  BY <1>6, <1>12
<1> QED BY <1>2, <1>3, <1>9, Zenon

LEMMA XorSwaps ==
  ASSUME NEW m \in Octet, NEW n \in Octet
  PROVE  Xor(m, n) = Xor(n, m)
<1>1. ASSUME NEW i \in 0 .. 15, NEW j \in 0 .. 15 PROVE XorDigit[i][j] = XorDigit[j][i]
  <2>1. DigitSum(i, j) = DigitSum(j, i)
    <3>1. \A a, b \in {0, 1} : a + b = b + a
      OBVIOUS
    <3> QED BY <3>1, FourBits, Zenon DEF DigitSum
  <2> QED BY <2>1, DigitXor, Zenon
<1>2. /\ m \div 16 \in 0 .. 15 /\ n \div 16 \in 0 .. 15
      /\ m % 16 \in 0 .. 15 /\ n % 16 \in 0 .. 15
  BY SMT DEF Octet
<1> QED BY <1>1, <1>2, Zenon DEF Xor

LEMMA XorCancels ==
  ASSUME NEW m \in Octet, NEW n \in Octet, NEW k \in Octet, Xor(m, n) = Xor(m, k)
  PROVE  n = k
<1>1. PICK mh, ml \in 0 .. 15 : mh = m \div 16 /\ ml = m % 16
  BY SMT DEF Octet
<1>2. PICK nh, nl \in 0 .. 15 : nh = n \div 16 /\ nl = n % 16 /\ n = 16 * nh + nl
  BY SMT DEF Octet
<1>3. PICK kh, kl \in 0 .. 15 : kh = k \div 16 /\ kl = k % 16 /\ k = 16 * kh + kl
  BY SMT DEF Octet
<1>4. PICK a, b, c, d \in 0 .. 15 :
        /\ a = XorDigit[mh][nh] /\ b = XorDigit[ml][nl]
        /\ c = XorDigit[mh][kh] /\ d = XorDigit[ml][kl]
  BY DigitOfDigits, Zenon
<1>5. 16 * a + b = 16 * c + d
  BY <1>1, <1>2, <1>3, <1>4, Zenon DEF Xor
<1>6. a = c /\ b = d
  BY <1>5
<1>7. nh = kh /\ nl = kl
  BY <1>4, <1>6, DigitCancels, Zenon
<1> QED BY <1>2, <1>3, <1>7, Zenon

(* Turning over at least one bit changes the octet.                        *)
LEMMA XorChanges ==
  ASSUME NEW m \in Octet, NEW n \in Octet, n # 0
  PROVE  Xor(m, n) # m
<1>1. 0 \in Octet
  BY DEF Octet
<1>2. Xor(m, 0) = m
  <2>1. ASSUME NEW i \in 0 .. 15 PROVE XorDigit[i][0] = i
    <3>1. Bit(0, 0) = 0 /\ Bit(0, 1) = 0 /\ Bit(0, 2) = 0 /\ Bit(0, 3) = 0
      <4>1. 2^0 = 1 /\ 2^1 = 2 /\ 2^2 = 4 /\ 2^3 = 8
        OBVIOUS
      <4>2. /\ (0 \div 1) % 2 = 0 /\ (0 \div 2) % 2 = 0
            /\ (0 \div 4) % 2 = 0 /\ (0 \div 8) % 2 = 0
        BY SMT
      <4> QED BY <4>1, <4>2, Zenon DEF Bit
    <3>2. PICK a, b, c, d \in {0, 1} :
            /\ a = Bit(i, 0) /\ b = Bit(i, 1) /\ c = Bit(i, 2) /\ d = Bit(i, 3)
            /\ i = a + 2 * b + 4 * c + 8 * d
      BY FourBits
    <3>3. \A x \in {0, 1} : (x + 0) % 2 = x
      BY SMT
    <3>4. DigitSum(i, 0) = a + 2 * b + 4 * c + 8 * d
      BY <3>1, <3>2, <3>3, Zenon DEF DigitSum
    <3>5. 0 \in 0 .. 15
      OBVIOUS
    <3> QED BY <3>2, <3>4, <3>5, DigitXor, Zenon
  <2>2. PICK h, l \in 0 .. 15 : h = m \div 16 /\ l = m % 16 /\ m = 16 * h + l
    BY SMT DEF Octet
  <2>3. 0 \div 16 = 0 /\ 0 % 16 = 0
    BY SMT
  <2>4. XorDigit[h][0] = h /\ XorDigit[l][0] = l
    BY <2>1, Zenon
  <2> QED BY <2>2, <2>3, <2>4, Zenon DEF Xor
<1>3. Xor(m, n) # Xor(m, 0)
  BY <1>1, XorCancels, Zenon
<1> QED BY <1>2, <1>3, Zenon

-----------------------------------------------------------------------------
(* No two octets have the same entry; of the entries for the data, no two  *)
(* have the same high octet.                                               *)
LEMMA HeadEntries ==
  \A m, n \in Octet : MSTPHeaderCRC_table[m + 1] = MSTPHeaderCRC_table[n + 1] => m = n
<1>1. \A m, n \in 1 .. 256 : MSTPHeaderCRC_table[m] = MSTPHeaderCRC_table[n] => m = n
  BY SMTT(200) DEF MSTPHeaderCRC_table
<1>2. \A n \in Octet : n + 1 \in 1 .. 256
  BY DEF Octet
<1>3. \A m, n \in Octet : m + 1 = n + 1 => m = n
  BY DEF Octet
<1> QED BY <1>1, <1>2, <1>3, Zenon

LEMMA DataEntries ==
  \A m, n \in Octet :
    MSTPDataCRC_table[m + 1] \div 256 = MSTPDataCRC_table[n + 1] \div 256 => m = n
<1>1. \A m, n \in 1 .. 256 :
        MSTPDataCRC_table[m] \div 256 = MSTPDataCRC_table[n] \div 256 => m = n
  BY SMTT(400) DEF MSTPDataCRC_table
<1>2. \A n \in Octet : n + 1 \in 1 .. 256
  BY DEF Octet
<1>3. \A m, n \in Octet : m + 1 = n + 1 => m = n
  BY DEF Octet
<1> QED BY <1>1, <1>2, <1>3, ZenonT(60)

HeadStep == [c \in 0 .. 255 |-> [crc \in 0 .. 255 |-> CRC_Calc_Header(c, crc)]]
DataStep == [c \in 0 .. 255 |-> [crc \in Bits16 |-> CRC_Calc_Data(c, crc)]]

LEMMA HeadStepType ==
  /\ HeadStep \in [Octet -> [Octet -> Octet]]
  /\ \A c, crc \in Octet : HeadStep[c][crc] = CRC_Calc_Header(c, crc)
<1>1. \A c, crc \in Octet : CRC_Calc_Header(c, crc) \in Octet
  BY XorOctet, HeadTable, Zenon DEF CRC_Calc_Header
<1> QED BY <1>1, ZenonT(60) DEF Octet, HeadStep

LEMMA HeadOneToOne == OneToOne(HeadStep, Octet)
<1>1. ASSUME NEW c \in Octet, NEW v \in Octet, NEW w \in Octet,
             HeadStep[c][v] = HeadStep[c][w]
      PROVE  v = w
  <2>1. MSTPHeaderCRC_table[Xor(c, v) + 1] = MSTPHeaderCRC_table[Xor(c, w) + 1]
    BY <1>1, HeadStepType, Zenon DEF CRC_Calc_Header
  <2>2. Xor(c, v) = Xor(c, w)
    BY <2>1, HeadEntries, XorOctet, Zenon
  <2> QED BY <2>2, XorCancels, Zenon
<1>2. ASSUME NEW c \in Octet, NEW d \in Octet, NEW v \in Octet,
             HeadStep[c][v] = HeadStep[d][v]
      PROVE  c = d
  <2>1. MSTPHeaderCRC_table[Xor(c, v) + 1] = MSTPHeaderCRC_table[Xor(d, v) + 1]
    BY <1>2, HeadStepType, Zenon DEF CRC_Calc_Header
  <2>2. Xor(c, v) = Xor(d, v)
    BY <2>1, HeadEntries, XorOctet, Zenon
  <2>3. Xor(v, c) = Xor(v, d)
    BY <2>2, XorSwaps, Zenon
  <2> QED BY <2>3, XorCancels, Zenon
<1> QED BY <1>1, <1>2, Zenon DEF OneToOne

(* A number of 16 bits and its octets; the provers need not see how they   *)
(* are made.                                                               *)
High(n) == n \div 256
Low(n) == n % 256
Both(h, l) == 256 * h + l
DataEntry(n) == MSTPDataCRC_table[n + 1]

LEMMA BothParts ==
  ASSUME NEW n \in Bits16
  PROVE  High(n) \in Octet /\ Low(n) \in Octet /\ n = Both(High(n), Low(n))
BY HighLow DEF High, Low, Both

LEMMA BothType ==
  ASSUME NEW h \in Octet, NEW l \in Octet PROVE Both(h, l) \in Bits16
BY JoinHighLow DEF Both

LEMMA EntryType ==
  ASSUME NEW n \in Octet PROVE DataEntry(n) \in Bits16
BY DataTable, Zenon DEF DataEntry

LEMMA EntryKnown ==
  ASSUME NEW m \in Octet, NEW n \in Octet, High(DataEntry(m)) = High(DataEntry(n))
  PROVE  m = n
BY DataEntries, Zenon DEF DataEntry, High

EntryFor(c, crc) == DataEntry(Xor(c, Low(crc)))

LEMMA DataStepIs ==
  ASSUME NEW c \in Octet, NEW crc \in Bits16
  PROVE  CRC_Calc_Data(c, crc) =
           Both(High(EntryFor(c, crc)), Xor(High(crc), Low(EntryFor(c, crc))))
BY Zenon DEF CRC_Calc_Data, Both, High, Low, DataEntry, EntryFor

LEMMA EntryForType ==
  ASSUME NEW c \in Octet, NEW crc \in Bits16
  PROVE  /\ EntryFor(c, crc) \in Bits16
         /\ High(EntryFor(c, crc)) \in Octet /\ Low(EntryFor(c, crc)) \in Octet
         /\ Xor(c, Low(crc)) \in Octet
         /\ Xor(High(crc), Low(EntryFor(c, crc))) \in Octet
<1>1. Low(crc) \in Octet /\ High(crc) \in Octet
  BY BothParts, Zenon
<1>2. Xor(c, Low(crc)) \in Octet
  BY <1>1, XorOctet, Zenon
<1>3. EntryFor(c, crc) \in Bits16
  BY <1>2, EntryType, Zenon DEF EntryFor
<1>4. High(EntryFor(c, crc)) \in Octet /\ Low(EntryFor(c, crc)) \in Octet
  BY <1>3, BothParts, Zenon
<1> QED BY <1>1, <1>2, <1>3, <1>4, XorOctet, Zenon

LEMMA DataStepType ==
  /\ DataStep \in [Octet -> [Bits16 -> Bits16]]
  /\ \A c \in Octet : \A crc \in Bits16 : DataStep[c][crc] = CRC_Calc_Data(c, crc)
<1>1. ASSUME NEW c \in Octet, NEW crc \in Bits16
      PROVE  CRC_Calc_Data(c, crc) \in Bits16
  <2>1. PICK h \in Octet : h = High(EntryFor(c, crc))
    BY EntryForType, Zenon
  <2>2. PICK l \in Octet : l = Xor(High(crc), Low(EntryFor(c, crc)))
    BY EntryForType, Zenon
  <2>3. CRC_Calc_Data(c, crc) = Both(h, l)
    BY <2>1, <2>2, DataStepIs, Zenon
  <2> QED BY <2>3, BothType, Zenon
<1> QED BY <1>1 DEF Octet, DataStep

LEMMA DataStepKnown ==
  ASSUME NEW c \in Octet, NEW d \in Octet, NEW v \in Bits16, NEW w \in Bits16,
         CRC_Calc_Data(c, v) = CRC_Calc_Data(d, w)
  PROVE  Xor(c, Low(v)) = Xor(d, Low(w)) /\ High(v) = High(w)
<1>1. Both(High(EntryFor(c, v)), Xor(High(v), Low(EntryFor(c, v))))
        = Both(High(EntryFor(d, w)), Xor(High(w), Low(EntryFor(d, w))))
  BY DataStepIs, Zenon
<1>2. /\ High(EntryFor(c, v)) \in Octet /\ Low(EntryFor(c, v)) \in Octet
      /\ Xor(c, Low(v)) \in Octet /\ Xor(High(v), Low(EntryFor(c, v))) \in Octet
  BY EntryForType, Zenon
<1>3. /\ High(EntryFor(d, w)) \in Octet /\ Low(EntryFor(d, w)) \in Octet
      /\ Xor(d, Low(w)) \in Octet /\ Xor(High(w), Low(EntryFor(d, w))) \in Octet
  BY EntryForType, Zenon
<1>4. /\ High(EntryFor(c, v)) = High(EntryFor(d, w))
      /\ Xor(High(v), Low(EntryFor(c, v))) = Xor(High(w), Low(EntryFor(d, w)))
  <2>1. PICK a \in Octet : a = High(EntryFor(c, v))
    BY <1>2, Zenon
  <2>2. PICK b \in Octet : b = Xor(High(v), Low(EntryFor(c, v)))
    BY <1>2, Zenon
  <2>3. PICK e \in Octet : e = High(EntryFor(d, w))
    BY <1>3, Zenon
  <2>4. PICK f \in Octet : f = Xor(High(w), Low(EntryFor(d, w)))
    BY <1>3, Zenon
  <2>5. Both(a, b) = Both(e, f)
    BY <1>1, <2>1, <2>2, <2>3, <2>4, Zenon
  <2>6. a = e /\ b = f
    BY <2>5, SMT DEF Octet, Both
  <2> QED BY <2>1, <2>2, <2>3, <2>4, <2>6, Zenon
<1>5. Xor(c, Low(v)) = Xor(d, Low(w))
  BY <1>2, <1>3, <1>4, EntryKnown, Zenon DEF EntryFor
<1>6. EntryFor(c, v) = EntryFor(d, w)
  BY <1>5, Zenon DEF EntryFor
<1>7. High(v) \in Octet /\ High(w) \in Octet
  BY BothParts, Zenon
<1>8. Xor(Low(EntryFor(c, v)), High(v)) = Xor(Low(EntryFor(c, v)), High(w))
  BY <1>2, <1>4, <1>6, <1>7, XorSwaps, Zenon
<1>9. High(v) = High(w)
  BY <1>2, <1>7, <1>8, XorCancels, Zenon
<1> QED BY <1>5, <1>9

LEMMA DataOneToOne == OneToOne(DataStep, Bits16)
<1>1. ASSUME NEW c \in Octet, NEW v \in Bits16, NEW w \in Bits16,
             DataStep[c][v] = DataStep[c][w]
      PROVE  v = w
  <2>1. CRC_Calc_Data(c, v) = CRC_Calc_Data(c, w)
    BY <1>1, DataStepType, Zenon
  <2>2. Xor(c, Low(v)) = Xor(c, Low(w)) /\ High(v) = High(w)
    BY <2>1, DataStepKnown, ZenonT(60)
  <2>3. Low(v) \in Octet /\ Low(w) \in Octet
    BY BothParts, Zenon
  <2>4. Low(v) = Low(w)
    BY <2>2, <2>3, XorCancels, Zenon
  <2>5. v = Both(High(v), Low(v)) /\ w = Both(High(w), Low(w))
    BY BothParts, Zenon
  <2> QED BY <2>2, <2>4, <2>5, Zenon
<1>2. ASSUME NEW c \in Octet, NEW d \in Octet, NEW v \in Bits16,
             DataStep[c][v] = DataStep[d][v]
      PROVE  c = d
  <2>1. CRC_Calc_Data(c, v) = CRC_Calc_Data(d, v)
    BY <1>2, DataStepType, Zenon
  <2>2. Xor(c, Low(v)) = Xor(d, Low(v))
    BY <2>1, DataStepKnown, Zenon
  <2>3. Low(v) \in Octet
    BY BothParts, Zenon
  <2>4. Xor(Low(v), c) = Xor(Low(v), d)
    BY <2>2, <2>3, XorSwaps, Zenon
  <2> QED BY <2>3, <2>4, XorCancels, Zenon
<1> QED BY <1>1, <1>2, Zenon DEF OneToOne

(* A frame that differs in one octet has another check sum.                *)
LEMMA HeadDetects ==
  ASSUME NEW x \in Seq(Octet), NEW y \in Seq(Octet), NEW i, DifferAt(x, y, i)
  PROVE  HeadCrc(x) # HeadCrc(y)
<1>1. PICK m \in Octet : m = 255
  BY DEF Octet
<1>2. Through(m, x, HeadStep) # Through(m, y, HeadStep)
  BY HeadStepType, HeadOneToOne, ThroughDiffers, Zenon
<1>3. PICK v \in Octet : v = Through(m, x, HeadStep)
  BY HeadStepType, ThroughType, Zenon
<1>4. PICK w \in Octet : w = Through(m, y, HeadStep)
  BY HeadStepType, ThroughType, Zenon
<1>5. HeadCrc(x) = 255 - v /\ HeadCrc(y) = 255 - w
  <2>1. /\ HeadCrc(x) = 255 - Through(255, x, HeadStep)
        /\ HeadCrc(y) = 255 - Through(255, y, HeadStep)
    BY Zenon DEF HeadCrc, HeadStep
  <2> QED BY <1>1, <1>3, <1>4, <2>1, Zenon
<1>6. v # w
  BY <1>2, <1>3, <1>4, Zenon
<1>7. 255 - v # 255 - w
  BY <1>6 DEF Octet
<1> QED BY <1>5, <1>7, Zenon

LEMMA DataDetects ==
  ASSUME NEW x \in Seq(Octet), NEW y \in Seq(Octet), NEW i, DifferAt(x, y, i)
  PROVE  DataCrc(x) # DataCrc(y)
<1>1. PICK m \in Bits16 : m = 65535
  <2>1. USHRT_MAX \in Nat /\ USHRT_MAX <= USHRT_MAX
    BY SMT DEF USHRT_MAX
  <2>2. USHRT_MAX \in Bits16
    BY <2>1, SixteenBits, Zenon
  <2> QED BY <2>2, SMT DEF USHRT_MAX
<1>2. Through(m, x, DataStep) # Through(m, y, DataStep)
  BY DataStepType, DataOneToOne, ThroughDiffers, Zenon
<1>3. PICK v \in Bits16 : v = Through(m, x, DataStep)
  BY DataStepType, ThroughType, Zenon
<1>4. PICK w \in Bits16 : w = Through(m, y, DataStep)
  BY DataStepType, ThroughType, Zenon
<1>5. DataCrc(x) = m - v /\ DataCrc(y) = m - w
  BY <1>1, <1>3, <1>4, SMT DEF DataCrc, DataStep
<1>6. v # w
  BY <1>2, <1>3, <1>4, Zenon
<1>7. m - v # m - w
  <2>1. m \in Nat /\ v \in Nat /\ w \in Nat
    BY SixteenBits, Zenon
  <2> QED BY <1>6, <2>1, SMT
<1> QED BY <1>5, <1>7, Zenon
-----------------------------------------------------------------------------
(* What RecvFrame makes of the octets s in its window.                     *)
HeadSeen(s) ==
  /\ s[1] = 85 /\ s[2] = 255
  /\ HeadCrc(<<s[3], s[4], s[5], s[6], s[7]>>) = s[8]
  /\ Len(s) <= FrameMaxLen
LenSeen(s) == s[6] * 256 + s[7]
LenFits(s) == IF Len(s) = 8 THEN LenSeen(s) = 0 ELSE Len(s) - 8 - 2 = LenSeen(s)
DataSeen(s) == [k \in 1 .. Len(s) - 8 - 2 |-> s[8 + k]]
CrcSeen(s) == s[Len(s) - 1] + s[Len(s)] * 256
CrcFits(s) ==
  Len(s) > 8 => DataCrc(DataSeen(s)) = IF LenSeen(s) = 0 THEN 0 ELSE CrcSeen(s)

LEMMA ReceiverReads ==
  ASSUME NEW s \in Seq(Octet), Len(s) >= 8
  PROVE  /\ Receiver(s)!HeadGood <=> HeadSeen(s)
         /\ Receiver(s)!DataComplete <=> LenFits(s)
         /\ Receiver(s)!DataGood <=> CrcFits(s)
         /\ Receiver(s)!Waiting <=> HeadSeen(s) /\ ~LenFits(s)
<1>1. PICK n \in Nat : n = Len(s) /\ n >= 8
  OBVIOUS
<1>2. Receiver(s)!Length = n /\ Receiver(s)!HeadLen = 8
  BY <1>1 DEF Receiver!Length, Receiver!HeadLen
<1>3. \A k \in 0 .. n - 1 : Receiver(s)!At(k) = s[k + 1]
  BY <1>1 DEF Receiver!At
<1>4. /\ Receiver(s)!At(0) = s[1] /\ Receiver(s)!At(1) = s[2]
      /\ Receiver(s)!At(2) = s[3] /\ Receiver(s)!At(3) = s[4]
      /\ Receiver(s)!At(4) = s[5] /\ Receiver(s)!At(5) = s[6]
      /\ Receiver(s)!At(6) = s[7] /\ Receiver(s)!At(7) = s[8]
  <2>1. /\ 0 \in 0 .. n - 1 /\ 1 \in 0 .. n - 1 /\ 2 \in 0 .. n - 1 /\ 3 \in 0 .. n - 1
        /\ 4 \in 0 .. n - 1 /\ 5 \in 0 .. n - 1 /\ 6 \in 0 .. n - 1 /\ 7 \in 0 .. n - 1
        /\ 0 + 1 = 1 /\ 1 + 1 = 2 /\ 2 + 1 = 3 /\ 3 + 1 = 4
        /\ 4 + 1 = 5 /\ 5 + 1 = 6 /\ 6 + 1 = 7 /\ 7 + 1 = 8
    BY <1>1
  <2> QED BY <1>3, <2>1, Zenon
<1>5. Receiver(s)!HeadGood <=> HeadSeen(s)
  BY <1>1, <1>2, <1>4, Zenon DEF Receiver!HeadGood, HeadSeen
<1>6. Receiver(s)!GetFrameDataLen = LenSeen(s)
  BY <1>4, Zenon DEF Receiver!GetFrameDataLen, LenSeen
<1>7. Receiver(s)!DataComplete <=> LenFits(s)
  BY <1>1, <1>2, <1>6, Zenon DEF Receiver!DataComplete, LenFits
<1>8. Receiver(s)!GetFrameDataCrc = CrcSeen(s)
  <2>1. n - 2 \in 0 .. n - 1 /\ n - 1 \in 0 .. n - 1 /\ n - 2 + 1 = n - 1 /\ n - 1 + 1 = n
    BY <1>1
  <2>2. Receiver(s)!At(n - 2) = s[n - 1] /\ Receiver(s)!At(n - 1) = s[n]
    BY <1>3, <2>1, Zenon
  <2> QED BY <1>1, <1>2, <2>2, Zenon DEF Receiver!GetFrameDataCrc, CrcSeen
<1>9. Receiver(s)!FrameData = DataSeen(s)
  <2>1. Receiver(s)!FrameData = [k \in 1 .. n - 8 - 2 |-> Receiver(s)!At(8 + k - 1)]
    BY <1>2, Zenon DEF Receiver!FrameData
  <2>2. \A k \in 1 .. n - 8 - 2 : 8 + k - 1 \in 0 .. n - 1 /\ 8 + k - 1 + 1 = 8 + k
    BY <1>1
  <2>3. \A k \in 1 .. n - 8 - 2 : Receiver(s)!At(8 + k - 1) = s[8 + k]
    BY <1>3, <2>2, Zenon
  <2> QED BY <1>1, <2>1, <2>3, Zenon DEF DataSeen
<1>10. Receiver(s)!DataGood <=> CrcFits(s)
  BY <1>1, <1>2, <1>6, <1>8, <1>9, Zenon DEF Receiver!DataGood, CrcFits
<1>11. Receiver(s)!Waiting <=> HeadSeen(s) /\ ~LenFits(s)
  <2>1. ~ (n < 8)
    BY <1>1
  <2> QED BY <1>2, <1>5, <1>7, <2>1, Zenon DEF Receiver!Waiting
<1> QED BY <1>5, <1>7, <1>10, <1>11
-----------------------------------------------------------------------------
(* The receiver's Check() after every octet of the line l.                 *)
Begun(l, n) == SubSeq(l, 1, n)
Agrees(l, n) ==
  HeadSeen(Begun(l, n)) /\ LenFits(Begun(l, n)) /\ CrcFits(Begun(l, n))
Goes(l, n) == HeadSeen(Begun(l, n)) /\ ~LenFits(Begun(l, n))
Takes(l) == \E n \in 8 .. Len(l) : Agrees(l, n) /\ \A k \in 8 .. n - 1 : Goes(l, k)

LEMMA BegunParts ==
  ASSUME NEW l \in Seq(Octet), NEW n \in 1 .. Len(l)
  PROVE  /\ Begun(l, n) \in Seq(Octet) /\ Len(Begun(l, n)) = n
         /\ \A i \in 1 .. n : Begun(l, n)[i] = l[i]
BY DEF Begun

LEMMA LineTakes ==
  ASSUME line \in Seq(Octet)
  PROVE  (\E n \in 8 .. Len(line) : Accepts(n) /\ \A k \in 8 .. n - 1 : Waits(k))
           <=> Takes(line)
<1>1. PICK m \in Nat : m = Len(line)
  OBVIOUS
<1>2. ASSUME NEW n \in 8 .. m
      PROVE  (Accepts(n) <=> Agrees(line, n)) /\ (Waits(n) <=> Goes(line, n))
  <2>1. PICK s : s = SubSeq(line, 1, n)
    OBVIOUS
  <2>2. n \in 1 .. Len(line) /\ n >= 8
    BY <1>1
  <2>3. s \in Seq(Octet) /\ Len(s) >= 8
    BY <2>1, <2>2, BegunParts DEF Begun
  <2>4. /\ Receiver(s)!HeadGood <=> HeadSeen(s)
        /\ Receiver(s)!DataComplete <=> LenFits(s)
        /\ Receiver(s)!DataGood <=> CrcFits(s)
        /\ Receiver(s)!Waiting <=> HeadSeen(s) /\ ~LenFits(s)
    BY <2>3, ReceiverReads
  <2>5. Accepts(n) <=> Agrees(line, n)
    BY <2>1, <2>4 DEF Accepts, Agrees, Begun
  <2>6. Waits(n) <=> Goes(line, n)
    BY <2>1, <2>4 DEF Waits, Goes, Begun
  <2> QED BY <2>5, <2>6
<1>3. \A n \in 8 .. m : \A k \in 8 .. n - 1 : k \in 8 .. m
  OBVIOUS
<1> QED BY <1>1, <1>2, <1>3, Zenon DEF Takes

HeadOf(l) ==
  l[1] = 85 /\ l[2] = 255 /\ HeadCrc(<<l[3], l[4], l[5], l[6], l[7]>>) = l[8]

(* What Check() has seen so far is what is on the line.                    *)
LEMMA BegunReads ==
  ASSUME NEW l \in Seq(Octet), NEW n \in 8 .. Len(l)
  PROVE  /\ HeadSeen(Begun(l, n)) <=> HeadOf(l) /\ n <= FrameMaxLen
         /\ LenFits(Begun(l, n)) <=>
              IF n = 8 THEN LenSeen(l) = 0 ELSE n - 8 - 2 = LenSeen(l)
<1>1. PICK s : s = Begun(l, n)
  OBVIOUS
<1>2. n \in 1 .. Len(l)
  OBVIOUS
<1>3. Len(s) = n /\ \A i \in 1 .. n : s[i] = l[i]
  BY <1>1, <1>2, BegunParts, Zenon
<1>4. /\ 1 \in 1 .. n /\ 2 \in 1 .. n /\ 3 \in 1 .. n /\ 4 \in 1 .. n
      /\ 5 \in 1 .. n /\ 6 \in 1 .. n /\ 7 \in 1 .. n /\ 8 \in 1 .. n
  OBVIOUS
<1>5. /\ s[1] = l[1] /\ s[2] = l[2] /\ s[3] = l[3] /\ s[4] = l[4]
      /\ s[5] = l[5] /\ s[6] = l[6] /\ s[7] = l[7] /\ s[8] = l[8]
  BY <1>3, <1>4, Zenon
<1>6. HeadSeen(s) <=> HeadOf(l) /\ n <= FrameMaxLen
  <2>1. HeadSeen(s) <=> HeadOf(s) /\ Len(s) <= FrameMaxLen
    BY Zenon DEF HeadSeen, HeadOf
  <2>2. HeadCrc(<<s[3], s[4], s[5], s[6], s[7]>>)
          = HeadCrc(<<l[3], l[4], l[5], l[6], l[7]>>)
    BY <1>5, Zenon
  <2>3. HeadOf(s) <=> HeadOf(l)
    BY <1>5, <2>2 DEF HeadOf
  <2> QED BY <1>3, <2>1, <2>3, Zenon
<1>7. LenSeen(s) = LenSeen(l)
  BY <1>5, Zenon DEF LenSeen
<1>8. LenFits(s) <=> IF n = 8 THEN LenSeen(l) = 0 ELSE n - 8 - 2 = LenSeen(l)
  BY <1>3, <1>7, Zenon DEF LenFits
<1> QED BY <1>1, <1>6, <1>8, Zenon

(* With the octets of the length as MakeFrame() wrote them, no length but  *)
(* that of the whole frame fits.                                           *)
LEMMA OnlyWholeFits ==
  ASSUME NEW l \in Seq(Octet), NEW n \in 8 .. Len(l), NEW ld \in Nat, ld >= 8,
         LenSeen(l) = ld
  PROVE  LenFits(Begun(l, n)) <=> n = ld + 10
<1>1. LenFits(Begun(l, n)) <=> IF n = 8 THEN ld = 0 ELSE n - 8 - 2 = ld
  BY BegunReads, Zenon
<1>2. n \in Nat
  OBVIOUS
<1> QED BY <1>1, <1>2

LEMMA LenWritten ==
  ASSUME NEW d \in Seq(Octet), NEW f, IsFrame(d, f)
  PROVE  /\ LenSeen(f) = Len(d) /\ f \in Seq(Octet)
         /\ Len(d) >= 8 /\ Len(f) = Len(d) + 10
<1>1. f \in Seq(Octet) /\ Len(f) >= 10 /\ 256 * f[6] + f[7] = Len(d)
  BY DEF IsFrame
<1>2. f[6] \in Octet /\ f[7] \in Octet
  BY <1>1
<1>3. f[6] * 256 + f[7] = 256 * f[6] + f[7]
  <2>1. PICK a \in Octet, b \in Octet : a = f[6] /\ b = f[7]
    BY <1>2
  <2>2. a * 256 + b = 256 * a + b
    BY SMT DEF Octet
  <2> QED BY <2>1, <2>2, SMT
<1> QED BY <1>1, <1>3 DEF IsFrame, LenSeen

(* A frame that arrives as it was sent is accepted when it is not too      *)
(* long, and only then.                                                    *)
LEMMA WholeTaken ==
  ASSUME NEW d \in Seq(Octet), NEW f, IsFrame(d, f)
  PROVE  Takes(f) <=> Len(f) <= FrameMaxLen
<1>1. /\ LenSeen(f) = Len(d) /\ f \in Seq(Octet)
      /\ Len(d) >= 8 /\ Len(f) = Len(d) + 10
  BY LenWritten, Zenon
<1>2. PICK ld \in Nat : ld = Len(d) /\ ld >= 8
  BY <1>1
<1>3. PICK m \in Nat : m = Len(f) /\ m = ld + 10
  BY <1>1, <1>2
<1>4. HeadOf(f)
  BY Zenon DEF IsFrame, HeadOf
<1>5. ASSUME NEW n \in 8 .. m
      PROVE  /\ HeadSeen(Begun(f, n)) <=> n <= FrameMaxLen
             /\ LenFits(Begun(f, n)) <=> n = m
  <2>1. n \in 8 .. Len(f)
    BY <1>3
  <2>2. HeadSeen(Begun(f, n)) <=> n <= FrameMaxLen
    BY <1>1, <1>4, <2>1, BegunReads, Zenon
  <2>3. LenFits(Begun(f, n)) <=> n = ld + 10
    BY <1>1, <1>2, <2>1, OnlyWholeFits, Zenon
  <2> QED BY <1>3, <2>2, <2>3, Zenon
<1>6. m \in 8 .. m
  BY <1>2, <1>3
<1>7. CrcFits(Begun(f, m))
  <2>1. Begun(f, m) = f
    BY <1>1, <1>3, SubSeqFull, Zenon DEF Begun
  <2>2. DataSeen(f) = d
    <3>1. DataSeen(f) = [k \in 1 .. ld |-> f[8 + k]]
      <4>1. m - 8 - 2 = ld
        BY <1>3
      <4> QED BY <1>3, <4>1, Zenon DEF DataSeen
    <3>2. \A k \in 1 .. ld : f[8 + k] = d[k]
      <4>1. \A k \in 1 .. ld : f[9 - 1 + k] = d[k]
        BY <1>2, Zenon DEF IsFrame, IsAt
      <4>2. \A k \in 1 .. ld : 9 - 1 + k = 8 + k
        OBVIOUS
      <4> QED BY <4>1, <4>2, Zenon
    <3>3. d = [k \in 1 .. ld |-> d[k]]
      BY <1>2
    <3> QED BY <3>1, <3>2, <3>3
  <2>3. CrcSeen(f) = DataCrc(d)
    <3>1. f[m - 1] + 256 * f[m] = DataCrc(d)
      BY <1>3, Zenon DEF IsFrame
    <3>2. f[m] \in Octet
      BY <1>1, <1>3, <1>6
    <3>3. \A a \in Octet : a * 256 = 256 * a
      BY SMT DEF Octet
    <3> QED BY <1>3, <3>1, <3>2, <3>3, ZenonT(60) DEF CrcSeen
  <2>4. LenSeen(f) # 0
    BY <1>1, <1>2
  <2> QED BY <2>1, <2>2, <2>3, <2>4, Zenon DEF CrcFits
<1>8. ASSUME Takes(f) PROVE m <= FrameMaxLen
  BY <1>3, <1>5, <1>8, Zenon DEF Takes, Agrees
<1>9. ASSUME m <= FrameMaxLen PROVE Takes(f)
  <2>1. \A k \in 8 .. m - 1 : k \in 8 .. m /\ k # m /\ k <= FrameMaxLen
    BY <1>9, LineAssumption
  <2>2. \A k \in 8 .. m - 1 : Goes(f, k)
    BY <1>5, <2>1, Zenon DEF Goes
  <2>3. Agrees(f, m)
    BY <1>5, <1>6, <1>7, <1>9, Zenon DEF Agrees
  <2> QED BY <1>3, <1>6, <2>2, <2>3, Zenon DEF Takes
<1> QED BY <1>3, <1>8, <1>9, Zenon

(* A frame of which only the beginning arrives is not accepted.            *)
LEMMA CutNotTaken ==
  ASSUME NEW d \in Seq(Octet), NEW f, IsFrame(d, f),
         NEW c \in 1 .. Len(f) - 1
  PROVE  SubSeq(f, 1, c) # f /\ ~Takes(SubSeq(f, 1, c))
<1>1. /\ LenSeen(f) = Len(d) /\ f \in Seq(Octet)
      /\ Len(d) >= 8 /\ Len(f) = Len(d) + 10
  BY LenWritten, Zenon
<1>2. PICK ld \in Nat : ld = Len(d) /\ ld >= 8
  BY <1>1
<1>3. PICK m \in Nat : m = Len(f) /\ m = ld + 10
  BY <1>1, <1>2
<1>4. c \in 1 .. m - 1 /\ c \in 1 .. m /\ c # m
  BY <1>3
<1>5. PICK l : l = SubSeq(f, 1, c)
  OBVIOUS
<1>6. l \in Seq(Octet) /\ Len(l) = c /\ \A i \in 1 .. c : l[i] = f[i]
  BY <1>1, <1>3, <1>4, <1>5, BegunParts, Zenon DEF Begun
<1>7. ASSUME NEW n \in 8 .. c PROVE ~LenFits(Begun(l, n))
  <2>1. 6 \in 1 .. c /\ 7 \in 1 .. c
    BY <1>4
  <2>2. LenSeen(l) = ld
    BY <1>1, <1>2, <1>6, <2>1, Zenon DEF LenSeen
  <2>3. n # ld + 10
    BY <1>3, <1>4
  <2> QED BY <1>2, <1>6, <2>2, <2>3, OnlyWholeFits, Zenon
<1>8. ~Takes(l)
  BY <1>6, <1>7, Zenon DEF Takes, Agrees
<1>9. l # f
  BY <1>3, <1>4, <1>6, Zenon
<1> QED BY <1>5, <1>8, <1>9, Zenon

(* A frame with one octet changed is not accepted: one of the check sums,  *)
(* or the preamble, tells.                                                 *)
LEMMA ChangedNotTaken ==
  ASSUME NEW d \in Seq(Octet), NEW f, IsFrame(d, f),
         NEW l \in Seq(Octet), NEW i, DifferAt(f, l, i)
  PROVE  l # f /\ ~Takes(l)
<1>1. /\ LenSeen(f) = Len(d) /\ f \in Seq(Octet)
      /\ Len(d) >= 8 /\ Len(f) = Len(d) + 10
  BY LenWritten, Zenon
<1>2. PICK ld \in Nat : ld = Len(d) /\ ld >= 8
  BY <1>1
<1>3. PICK m \in Nat : m = Len(f) /\ m = ld + 10
  BY <1>1, <1>2
<1>4. /\ Len(l) = m /\ i \in 1 .. m /\ f[i] # l[i]
      /\ \A j \in 1 .. m : j # i => f[j] = l[j]
  BY <1>3, Zenon DEF DifferAt
<1>5. l # f
  BY <1>4, Zenon
<1>6. /\ 1 \in 1 .. m /\ 2 \in 1 .. m /\ 3 \in 1 .. m /\ 4 \in 1 .. m
      /\ 5 \in 1 .. m /\ 6 \in 1 .. m /\ 7 \in 1 .. m /\ 8 \in 1 .. m
  BY <1>2, <1>3
<1>7. \A j \in 1 .. m : f[j] \in Octet /\ l[j] \in Octet
  BY <1>1, <1>3, <1>4, ElementOfSeq, Zenon
<1> SUFFICES ASSUME Takes(l) PROVE FALSE
  BY <1>5
<1>8. PICK n \in 8 .. m : HeadSeen(Begun(l, n)) /\ LenFits(Begun(l, n)) /\ CrcFits(Begun(l, n))
  BY <1>4, Zenon DEF Takes, Agrees
<1>9. HeadOf(l)
  BY <1>4, <1>8, BegunReads, Zenon
<1>10. HeadOf(f)
  BY Zenon DEF IsFrame, HeadOf
<1>11. CASE i \in {1, 2}
  <2>1. f[1] = l[1] /\ f[2] = l[2]
    BY <1>9, <1>10 DEF HeadOf
  <2> QED BY <1>4, <1>11, <2>1
<1>12. CASE i \in 3 .. 8
  <2>1. PICK x : x = <<f[3], f[4], f[5], f[6], f[7]>>
    OBVIOUS
  <2>2. PICK y : y = <<l[3], l[4], l[5], l[6], l[7]>>
    OBVIOUS
  <2>3. /\ x \in Seq(Octet) /\ Len(x) = 5
        /\ x[1] = f[3] /\ x[2] = f[4] /\ x[3] = f[5] /\ x[4] = f[6] /\ x[5] = f[7]
    BY <1>6, <1>7, <2>1
  <2>4. /\ y \in Seq(Octet) /\ Len(y) = 5
        /\ y[1] = l[3] /\ y[2] = l[4] /\ y[3] = l[5] /\ y[4] = l[6] /\ y[5] = l[7]
    BY <1>6, <1>7, <2>2
  <2>5. HeadCrc(x) = f[8] /\ HeadCrc(y) = l[8]
    BY <1>9, <1>10, <2>1, <2>2, Zenon DEF HeadOf
  <2>6. CASE i = 8
    <3>1. 3 # i /\ 4 # i /\ 5 # i /\ 6 # i /\ 7 # i
      BY <2>6
    <3>2. x = y
      BY <1>4, <1>6, <2>1, <2>2, <3>1, Zenon
    <3> QED BY <1>4, <2>5, <2>6, <3>2, Zenon
  <2>7. CASE i # 8
    <3>1. PICK k \in 1 .. 5 : i = k + 2
      BY <1>12, <2>7
    <3>2. \A j \in 1 .. 5 : x[j] = f[j + 2] /\ y[j] = l[j + 2]
      <4>1. \A j \in 1 .. 5 : j = 1 \/ j = 2 \/ j = 3 \/ j = 4 \/ j = 5
        OBVIOUS
      <4>2. 1 + 2 = 3 /\ 2 + 2 = 4 /\ 3 + 2 = 5 /\ 4 + 2 = 6 /\ 5 + 2 = 7
        OBVIOUS
      <4> QED BY <2>3, <2>4, <4>1, <4>2, Zenon
    <3>3. \A j \in 1 .. 5 : j + 2 \in 1 .. m /\ (j + 2 = k + 2 => j = k)
      BY <1>2, <1>3
    <3>4. x[k] # y[k] /\ \A j \in 1 .. 5 : j # k => x[j] = y[j]
      BY <1>4, <3>1, <3>2, <3>3, Zenon
    <3>5. DifferAt(x, y, k)
      BY <2>3, <2>4, <3>4, Zenon DEF DifferAt
    <3>6. HeadCrc(x) # HeadCrc(y)
      BY <2>3, <2>4, <3>5, HeadDetects, Zenon
    <3>7. 8 # i
      BY <2>7
    <3>8. f[8] = l[8]
      BY <1>4, <1>6, <3>7, Zenon
    <3> QED BY <2>5, <3>6, <3>8, Zenon
  <2> QED BY <2>6, <2>7
<1>13. CASE i \in 9 .. m
  <2>1. 6 # i /\ 7 # i
    BY <1>13
  <2>2. LenSeen(l) = ld
    BY <1>1, <1>2, <1>4, <1>6, <2>1, Zenon DEF LenSeen
  <2>3. n = m
    <3>1. n \in 8 .. Len(l)
      BY <1>4
    <3>2. n = ld + 10
      BY <1>2, <1>8, <2>2, <3>1, OnlyWholeFits, Zenon
    <3> QED BY <1>3, <3>2
  <2>4. Begun(l, n) = l
    BY <1>4, <2>3, SubSeqFull, Zenon DEF Begun
  <2>5. DataCrc(DataSeen(l)) = CrcSeen(l)
    <3>1. m > 8 /\ ~ (ld = 0)
      BY <1>2, <1>3
    <3> QED BY <1>4, <1>8, <2>2, <2>4, <3>1, Zenon DEF CrcFits
  <2>6. PICK e : e = DataSeen(l)
    OBVIOUS
  <2>7. e = [k \in 1 .. ld |-> l[8 + k]]
    <3>1. m - 8 - 2 = ld
      BY <1>3
    <3> QED BY <1>4, <2>6, <3>1, Zenon DEF DataSeen
  <2>8. \A k \in 1 .. ld : 8 + k \in 1 .. m /\ 9 - 1 + k = 8 + k
    BY <1>3
  <2>9. e \in Seq(Octet) /\ Len(e) = ld
    <3>1. \A k \in 1 .. ld : l[8 + k] \in Octet
      BY <1>7, <2>8, Zenon
    <3> QED BY <2>7, <3>1
  <2>10. \A k \in 1 .. ld : e[k] = l[8 + k]
    BY <2>7
  <2>11. \A k \in 1 .. ld : d[k] = f[8 + k]
    <3>1. \A k \in 1 .. ld : f[9 - 1 + k] = d[k]
      BY <1>2, Zenon DEF IsFrame, IsAt
    <3> QED BY <2>8, <3>1, Zenon
  <2>12. f[m - 1] + 256 * f[m] = DataCrc(d)
    BY <1>3, Zenon DEF IsFrame
  <2>13. m - 1 \in 1 .. m /\ m \in 1 .. m
    BY <1>2, <1>3
  <2>14. l[m - 1] + 256 * l[m] = DataCrc(e)
    <3>1. \A a \in Octet : a * 256 = 256 * a
      BY SMT DEF Octet
    <3> QED BY <1>4, <1>7, <2>5, <2>6, <2>13, <3>1, ZenonT(60) DEF CrcSeen
  <2>15. CASE i \in 9 .. m - 2
    <3>1. PICK k \in 1 .. ld : i = 8 + k
      BY <1>3, <2>15
    <3>2. \A j \in 1 .. ld : 8 + j = 8 + k => j = k
      OBVIOUS
    <3>3. d[k] # e[k] /\ \A j \in 1 .. ld : j # k => d[j] = e[j]
      BY <1>4, <2>8, <2>10, <2>11, <3>1, <3>2, Zenon
    <3>4. DifferAt(d, e, k)
      BY <1>2, <2>9, <3>3, Zenon DEF DifferAt
    <3>5. DataCrc(d) # DataCrc(e)
      BY <2>9, <3>4, DataDetects, Zenon
    <3>6. m - 1 # i /\ m # i
      BY <2>15
    <3>7. f[m - 1] = l[m - 1] /\ f[m] = l[m]
      BY <1>4, <2>13, <3>6, Zenon
    <3> QED BY <2>12, <2>14, <3>5, <3>7, Zenon
  <2>16. CASE i \in {m - 1, m}
    <3>1. \A j \in 1 .. ld : 8 + j # i
      BY <1>3, <2>16
    <3>2. \A j \in 1 .. ld : d[j] = e[j]
      BY <1>4, <2>8, <2>10, <2>11, <3>1, Zenon
    <3>3. d = e
      BY <1>2, <2>9, <3>2
    <3>4. PICK a, b, p, q \in Octet :
            a = f[m - 1] /\ b = f[m] /\ p = l[m - 1] /\ q = l[m]
      BY <1>7, <2>13
    <3>5. a + 256 * b = p + 256 * q
      BY <2>12, <2>14, <3>3, <3>4, Zenon
    <3>6. a = p /\ b = q
      BY <3>5 DEF Octet
    <3> QED BY <1>4, <2>16, <3>4, <3>6
  <2> QED BY <1>13, <2>15, <2>16
<1> QED BY <1>2, <1>3, <1>4, <1>11, <1>12, <1>13

-----------------------------------------------------------------------------
(* The message on its way.  Carried: what Send() made of it.  Arrived: what *)
(* Damage can have made of the frame.                                      *)
Octets == ApduOctets(apdu)
Carried ==
  /\ HeaderOK(header) /\ Octets \in Seq(Octet)
  /\ data = AddHeader(header, Octets) /\ data \in Seq(Octet)
  /\ IsFrame(data, frame)
Changed == line \in Seq(Octet) /\ \E i \in 1 .. Len(frame) : DifferAt(frame, line, i)
Cut == \E n \in 1 .. Len(frame) - 1 : line = SubSeq(frame, 1, n)
Arrived == line = frame \/ Changed \/ Cut
Decided == taken <=> line = frame /\ Len(frame) <= FrameMaxLen

OnTheWay ==
  /\ phase \in {"idle", "sent", "heard", "parsed"}
  /\ phase # "idle" => Carried
  /\ phase \in {"sent", "heard"} => Arrived
  /\ phase = "heard" => Decided
  /\ phase = "parsed" => Understood(header, Octets, peer)

LEMMA IsMessage ==
  ASSUME NEW m \in Messages, HeaderLegal(m.header)
  PROVE  HeaderOK(m.header) /\ ApduOctets(m.apdu) \in Seq(Octet)
<1>1. PICK h : h = m.header
  OBVIOUS
<1>2. /\ ApduOctets(m.apdu) \in Seq(Octet) /\ h.reply \in BOOLEAN
      /\ \A a \in {h.dest, h.src} :
           Len(a) <= 1 /\ a \in Seq([net : Bits16, mac : Seq(Octet)])
  BY <1>1, MessagesAssumption, Zenon
<1>3. h.priority \in 0 .. 3 /\ Short(h.dest) /\ Short(h.src)
  BY <1>1, Zenon DEF HeaderLegal
<1>4. ASSUME NEW a \in {h.dest, h.src} PROVE IsAddress(a)
  <2>1. Len(a) <= 1 /\ a \in Seq([net : Bits16, mac : Seq(Octet)])
    BY <1>2, Zenon
  <2>2. CASE a = << >>
    BY <2>2, Zenon DEF IsAddress
  <2>3. CASE a # << >>
    <3>1. Len(a) = 1 /\ a[1] \in [net : Bits16, mac : Seq(Octet)] /\ a = <<a[1]>>
      <4>1. PICK R : R = [net : Bits16, mac : Seq(Octet)]
        OBVIOUS
      <4>2. a \in Seq(R) /\ Len(a) <= 1
        BY <2>1, <4>1, Zenon
      <4>3. Len(a) = 1
        <5>1. Len(a) \in Nat /\ Len(a) # 0
          BY <2>3, <4>2, EmptySeq, LenProperties, Zenon
        <5>2. PICK n : n = Len(a)
          OBVIOUS
        <5>3. n \in Nat /\ n # 0 /\ n <= 1
          BY <4>2, <5>1, <5>2, Zenon
        <5>4. n = 1
          BY <5>3
        <5> QED BY <5>2, <5>4, Zenon
      <4>4. a[1] \in R
        <5>1. 1 \in 1 .. Len(a)
          BY <4>3
        <5> QED BY <4>2, <5>1, ElementOfSeq, Zenon
      <4>5. a = <<a[1]>>
        <5>1. PICK x \in R : x = a[1]
          BY <4>4
        <5>2. <<x>> \in Seq(R) /\ Len(<<x>>) = 1 /\ <<x>>[1] = x
          OBVIOUS
        <5>3. \A i \in 1 .. 1 : i = 1
          OBVIOUS
        <5> QED BY <4>2, <4>3, <5>1, <5>2, <5>3, SeqEqual, Zenon
      <4> QED BY <4>1, <4>3, <4>4, <4>5, Zenon
    <3>2. PICK n \in Bits16, mac \in Seq(Octet) : a[1] = [net |-> n, mac |-> mac]
      BY <3>1
    <3>3. Len(a[1].mac) <= MacSizeMax
      <4>1. Short(a)
        BY <1>3, Zenon
      <4>2. 1 \in DOMAIN a
        BY <3>1
      <4> QED BY <4>1, <4>2, Zenon DEF Short
    <3>4. a = <<[net |-> n, mac |-> mac]>>
      BY <3>1, <3>2, Zenon
    <3>5. Len(mac) <= MacSizeMax
      BY <3>2, <3>3
    <3> QED BY <3>4, <3>5, Zenon DEF IsAddress
  <2> QED BY <2>2, <2>3, Zenon
<1>5. IsAddress(h.dest) /\ IsAddress(h.src)
  BY <1>4, Zenon
<1> QED BY <1>1, <1>2, <1>3, <1>5, Zenon DEF HeaderOK, FlagsOK

LEMMA HeaderAdded ==
  ASSUME NEW h, HeaderOK(h), NEW u \in Seq(Octet)
  PROVE  AddHeader(h, u) \in Seq(Octet)
BY HeaderParts, Zenon DEF InOrder

LEMMA SendOnTheWay ==
  ASSUME NEW m \in Messages, Send(m.apdu, m.header)
  PROVE  OnTheWay'
<1>1. /\ HeaderLegal(m.header) /\ phase' = "sent"
      /\ apdu' = m.apdu /\ header' = m.header
      /\ data' = AddHeader(m.header, ApduOctets(m.apdu))
      /\ frame' = MakeFrame(DataExpectingReply, 1, 0, data') /\ frame' # << >>
      /\ line' = frame'
  BY DEF Send
<1>2. HeaderOK(m.header) /\ ApduOctets(m.apdu) \in Seq(Octet)
  BY <1>1, IsMessage, Zenon
<1>3. data' \in Seq(Octet)
  BY <1>1, <1>2, HeaderAdded, Zenon
<1>4. IsFrame(data', frame')
  BY <1>1, <1>3, FrameParts, Zenon
<1>5. Carried' /\ Arrived'
  BY <1>1, <1>2, <1>3, <1>4, Zenon DEF Carried, Arrived, Octets
<1> QED BY <1>1, <1>5 DEF OnTheWay

LEMMA DamageOnTheWay ==
  ASSUME OnTheWay, Damage PROVE OnTheWay'
<1>1. /\ phase = "sent" /\ line = frame /\ Carried
      /\ phase' = "sent" /\ frame' = frame /\ Carried'
  BY DEF OnTheWay, Damage, Carried, Octets
<1>2. PICK m \in Nat : m = Len(frame)
  BY <1>1 DEF Carried, IsFrame
<1>3. frame \in Seq(Octet)
  BY <1>1, Zenon DEF Carried, IsFrame
<1>4. ASSUME NEW i \in DOMAIN line, NEW mask \in Masks,
             line' = [line EXCEPT ![i] = Xor(line[i], mask)]
      PROVE  Changed'
  <2>1. i \in 1 .. m
    BY <1>1, <1>2, <1>3
  <2>2. mask \in Octet /\ mask # 0
    BY LineAssumption DEF Octet
  <2>3. PICK x \in Octet : x = frame[i]
    BY <1>2, <1>3, <2>1
  <2>4. PICK y \in Octet : y = Xor(x, mask)
    BY <2>2, XorOctet
  <2>5. y # x
    BY <2>2, <2>4, XorChanges, Zenon
  <2>6. line' = [frame EXCEPT ![i] = y]
    BY <1>1, <1>4, <2>3, <2>4, Zenon
  <2>7. PICK l : l = line'
    OBVIOUS
  <2>8. /\ l \in Seq(Octet) /\ Len(l) = m /\ l[i] = y
        /\ \A j \in 1 .. m : j # i => l[j] = frame[j]
    BY <1>2, <1>3, <2>1, <2>6, <2>7
  <2>9. DifferAt(frame, l, i)
    BY <1>2, <2>1, <2>3, <2>5, <2>8, Zenon DEF DifferAt
  <2> QED BY <1>1, <1>2, <2>1, <2>7, <2>8, <2>9, Zenon DEF Changed
<1>5. ASSUME NEW n \in 1 .. Len(line) - 1, line' = SubSeq(line, 1, n)
      PROVE  Cut'
  BY <1>1, <1>5, Zenon DEF Cut
<1>6. Changed' \/ Cut'
  BY <1>4, <1>5, Zenon DEF Damage
<1> QED BY <1>1, <1>6 DEF OnTheWay, Arrived

LEMMA HearOnTheWay ==
  ASSUME OnTheWay, Hear PROVE OnTheWay'
<1>1. /\ phase = "sent" /\ Carried /\ Arrived /\ phase' = "heard"
      /\ Carried' /\ Arrived' /\ line' = line /\ frame' = frame
  BY DEF OnTheWay, Hear, Carried, Arrived, Changed, Cut, Octets
<1>2. data \in Seq(Octet) /\ IsFrame(data, frame)
  BY <1>1, Zenon DEF Carried
<1>3. frame \in Seq(Octet)
  BY <1>2, Zenon DEF IsFrame
<1>4. /\ line \in Seq(Octet)
      /\ Takes(line) <=> line = frame /\ Len(frame) <= FrameMaxLen
  <2>1. CASE line = frame
    BY <1>2, <1>3, <2>1, WholeTaken, Zenon
  <2>2. CASE Changed
    <3>1. PICK i \in 1 .. Len(frame) : DifferAt(frame, line, i)
      BY <2>2, Zenon DEF Changed
    <3>2. line \in Seq(Octet)
      BY <2>2, Zenon DEF Changed
    <3>3. line # frame /\ ~Takes(line)
      BY <1>2, <3>1, <3>2, ChangedNotTaken, Zenon
    <3> QED BY <3>2, <3>3, Zenon
  <2>3. CASE Cut
    <3>1. PICK n \in 1 .. Len(frame) - 1 : line = SubSeq(frame, 1, n)
      BY <2>3, Zenon DEF Cut
    <3>2. line \in Seq(Octet)
      BY <1>3, <3>1
    <3>3. line # frame /\ ~Takes(line)
      BY <1>2, <3>1, CutNotTaken, Zenon
    <3> QED BY <3>2, <3>3, Zenon
  <2> QED BY <1>1, <2>1, <2>2, <2>3, Zenon DEF Arrived
<1>5. taken' <=> Takes(line)
  <2>1. taken' = \E n \in 8 .. Len(line) : Accepts(n) /\ \A k \in 8 .. n - 1 : Waits(k)
    BY Zenon DEF Hear
  <2> QED BY <1>4, <2>1, LineTakes, Zenon
<1>6. Decided'
  BY <1>1, <1>4, <1>5, Zenon DEF Decided
<1> QED BY <1>1, <1>6 DEF OnTheWay

LEMMA ParseOnTheWay ==
  ASSUME OnTheWay, Parse PROVE OnTheWay'
<1>1. /\ phase \in {"sent", "heard"} /\ phase' = "parsed"
      /\ Carried /\ Carried' /\ header' = header /\ Octets' = Octets
  BY DEF OnTheWay, Parse, Carried, Octets
<1>2. line = frame
  BY DEF OnTheWay, Parse, Decided
<1>3. SubSeq(line, 9, Len(line) - 2) = data
  BY <1>1, <1>2, Zenon DEF Carried, IsFrame
<1>4. peer' = ParseNpdu(AddHeader(header, Octets))
  BY <1>1, <1>3, Zenon DEF Parse, Carried
<1>5. Understood(header, Octets, peer')
  BY <1>1, <1>4, ParseUnderstood, Zenon DEF Carried
<1> QED BY <1>1, <1>5 DEF OnTheWay

LEMMA OnTheWayInductive == OnTheWay /\ [Next]_vars => OnTheWay'
<1> SUFFICES ASSUME OnTheWay, [Next]_vars PROVE OnTheWay'
  OBVIOUS
<1>1. ASSUME NEW m \in Messages, Send(m.apdu, m.header) PROVE OnTheWay'
  BY <1>1, SendOnTheWay
<1>2. CASE Damage
  BY <1>2, DamageOnTheWay
<1>3. CASE Hear
  BY <1>3, HearOnTheWay
<1>4. CASE Parse
  BY <1>4, ParseOnTheWay
<1>5. CASE Read
  <2>1. /\ phase = "parsed" /\ phase' = "parsed" /\ header' = header
        /\ Octets' = Octets /\ peer' = peer /\ Carried' = Carried
    BY <1>5 DEF Read, Carried, Octets
  <2> QED BY <2>1 DEF OnTheWay
<1>6. CASE Finish
  BY <1>6 DEF Finish, OnTheWay
<1>7. CASE UNCHANGED packet
  BY <1>7 DEF packet, OnTheWay, Carried, Arrived, Changed, Cut, Decided, Octets
<1> QED BY <1>1, <1>2, <1>3, <1>4, <1>5, <1>6, <1>7, Zenon DEF Next, vars

LEMMA AlwaysOnTheWay == Spec => []OnTheWay
<1>1. Init => OnTheWay
  BY DEF Init, OnTheWay
<1> QED BY <1>1, OnTheWayInductive, PTL DEF Spec

(* Whatever happens to one octet of a frame, and wherever write() stops,   *)
(* IsFrameComplete() and the check sums tell: of what arrives, exactly the *)
(* whole frames that are not too long are accepted.  For every message,    *)
(* every way to turn over bits of an octet, and every frame_max_len.       *)
THEOREM FrameTakenCorrect == Spec => []FrameTaken
<1>1. OnTheWay => FrameTaken
  BY DEF OnTheWay, FrameTaken, Decided
<1> QED BY <1>1, AlwaysOnTheWay, PTL

(* parse_npdu() finds what add_npdu_header() was given: for every message, *)
(* whatever parts its header has.                                          *)
THEOREM HeaderUnderstoodCorrect == Spec => []HeaderUnderstood
<1>1. OnTheWay => HeaderUnderstood
  BY DEF OnTheWay, HeaderUnderstood, Understood, Octets
<1> QED BY <1>1, AlwaysOnTheWay, PTL

-----------------------------------------------------------------------------
LEMMA NextParts ==
  [Next]_vars => /\ [SegmentNext]_segment
                 /\ [PortNext]_port
BY DEF Next, vars

(* An answer is carried once and in order by its segments, each of them    *)
(* fits into its packet, and the last of them says so: for every length and*)
(* segment size that does not make a position or the sequence number wrap. *)
THEOREM SegmentsJoinCorrect ==
  ASSUME AnswersFit
  PROVE  Spec => []SegmentsJoin
<1>1. Init => AnswerSent
  BY InitAnswer DEF Init
<1>2. AnswerSent /\ [Next]_vars => AnswerSent'
  BY NextAnswer, NextParts
<1>3. AnswerSent => SegmentsJoin
  BY AnswerJoins
<1> QED BY <1>1, <1>2, <1>3, PTL DEF Spec

(* No sequence of calls leaves a field of an earlier setting behind: what  *)
(* the getters read from a device is what Set() was last asked for there   *)
(* (uart_config() and the setters and getters of accesstermios.c).         *)
THEOREM SettingsHoldCorrect == Spec => []SettingsHold
<1>1. Init => LastSet
  BY InitLast DEF Init
<1>2. LastSet /\ [Next]_vars => LastSet'
  BY NextLast, NextParts
<1>3. Spec => []LastSet
  BY <1>1, <1>2, PTL DEF Spec
<1> QED BY <1>3, SettingsLast, PTL

-----------------------------------------------------------------------------
LEMMA EmptyJoins ==
  ASSUME NEW x \in Seq(Octet)
  PROVE  << >> \o x = x /\ x \o << >> = x
BY SMT

LEMMA JoinType ==
  ASSUME NEW p \in Seq(Octet), NEW q \in Seq(Octet)
  PROVE  p \o q \in Seq(Octet)
BY SMT

Associates(p, q, r) == (p \o q) \o r = p \o (q \o r)

LEMMA JoinsAssociate ==
  ASSUME NEW p \in Seq(Octet), NEW q \in Seq(Octet), NEW r \in Seq(Octet)
  PROVE  Associates(p, q, r)
BY SMT DEF Associates

(* What the first k of the sequences make, put one behind the other.       *)
IsJoined(g, s, k) ==
  \A n \in 0 .. k : g[n] = IF n = 0 THEN << >> ELSE g[n - 1] \o s[n]

LEMMA JoinedExists ==
  ASSUME NEW s \in Seq(Seq(Octet))
  PROVE  \A k \in Nat : k <= Len(s) =>
           \E g \in [0 .. k -> Seq(Octet)] : IsJoined(g, s, k)
<1> DEFINE S == {k \in Nat : k <= Len(s) =>
                   \E g \in [0 .. k -> Seq(Octet)] : IsJoined(g, s, k)}
<1>1. 0 \in S
  <2>1. << >> \in Seq(Octet)
    OBVIOUS
  <2>2. PICK g : g = [n \in 0 .. 0 |-> << >>]
    OBVIOUS
  <2>3. g \in [0 .. 0 -> Seq(Octet)]
    BY <2>1, <2>2
  <2>4. \A n \in 0 .. 0 : n = 0 /\ g[n] = << >>
    BY <2>2
  <2>5. IsJoined(g, s, 0)
    BY <2>4, Zenon DEF IsJoined
  <2> QED BY <2>3, <2>5
<1>2. ASSUME NEW k \in S PROVE k + 1 \in S
  <2> SUFFICES ASSUME k + 1 <= Len(s)
               PROVE  \E g \in [0 .. k + 1 -> Seq(Octet)] : IsJoined(g, s, k + 1)
    OBVIOUS
  <2>1. PICK g \in [0 .. k -> Seq(Octet)] : IsJoined(g, s, k)
    OBVIOUS
  <2>2. PICK l \in Seq(Octet) : l = g[k] \o s[k + 1]
    <3>1. PICK p \in Seq(Octet), q \in Seq(Octet) : p = g[k] /\ q = s[k + 1]
      OBVIOUS
    <3>2. p \o q \in Seq(Octet)
      BY JoinType, Zenon
    <3> QED BY <3>1, <3>2, Zenon
  <2>3. PICK h : h = [n \in 0 .. k + 1 |-> IF n = k + 1 THEN l ELSE g[n]]
    OBVIOUS
  <2>4. h \in [0 .. k + 1 -> Seq(Octet)]
    BY <2>3
  <2>5. ASSUME NEW n \in 0 .. k + 1
        PROVE  h[n] = IF n = 0 THEN << >> ELSE h[n - 1] \o s[n]
    <3>1. CASE n = k + 1
      <4>1. h[n] = l /\ n # 0 /\ n - 1 = k /\ k \in 0 .. k + 1 /\ k # k + 1
        BY <2>3, <3>1
      <4>2. h[k] = g[k]
        BY <2>3, <4>1, Zenon
      <4> QED BY <2>2, <3>1, <4>1, <4>2, Zenon
    <3>2. CASE n # k + 1
      <4>1. n \in 0 .. k /\ h[n] = g[n] /\ (n # 0 => h[n - 1] = g[n - 1])
        BY <2>3, <3>2
      <4> QED BY <2>1, <4>1, Zenon DEF IsJoined
    <3> QED BY <3>1, <3>2
  <2> QED BY <2>4, <2>5, Zenon DEF IsJoined
<1>3. S = Nat
  <2> HIDE DEF S
  <2>1. S \in SUBSET Nat
    BY DEF S
  <2> QED BY <1>1, <1>2, <2>1, Upwards
<1> QED BY <1>3

(* FlattenSeq() of the community modules makes the last of them.           *)
LEMMA FlattenJoins ==
  ASSUME NEW s \in Seq(Seq(Octet)), NEW g \in [0 .. Len(s) -> Seq(Octet)],
         IsJoined(g, s, Len(s))
  PROVE  FlattenSeq(s) = g[Len(s)]
<1>1. PICK N \in Nat : N = Len(s)
  OBVIOUS
<1>2. CASE N = 0
  <2>1. s = << >>
    BY <1>1, <1>2, EmptySeq, Zenon
  <2>5. FlattenSeq(s) = s
    BY <1>1, <1>2, Zenon DEF FlattenSeq
  <2>2. g[0] = << >>
    <3>1. 0 \in 0 .. N
      OBVIOUS
    <3> QED BY <1>1, <3>1, Zenon DEF IsJoined
  <2> QED BY <1>1, <1>2, <2>1, <2>2, <2>5, Zenon
<1>3. CASE N # 0
  <2> DEFINE Flattens(f) == f = [i \in 1 .. N |-> IF i = 1 THEN s[i] ELSE f[i - 1] \o s[i]]
             flatten == CHOOSE f : Flattens(f)
  <2>1. FlattenSeq(s) = flatten[N]
    BY <1>1, <1>3, Zenon DEF FlattenSeq
  <2>2. \A n \in 1 .. N : g[n] = g[n - 1] \o s[n]
    <3> SUFFICES ASSUME NEW n \in 1 .. N PROVE g[n] = g[n - 1] \o s[n]
      OBVIOUS
    <3>1. n \in 0 .. N /\ n # 0
      OBVIOUS
    <3> QED BY <1>1, <3>1, Zenon DEF IsJoined
  <2>3. g[0] = << >>
    <3>1. 0 \in 0 .. N
      OBVIOUS
    <3> QED BY <1>1, <3>1, Zenon DEF IsJoined
  <2>4. g[1] = s[1]
    <3>1. 1 \in 1 .. N /\ s[1] \in Seq(Octet) /\ 1 - 1 = 0
      BY <1>1, <1>3
    <3>2. g[1] = << >> \o s[1]
      BY <2>2, <2>3, <3>1, Zenon
    <3> QED BY <3>1, <3>2, EmptyJoins, Zenon
  <2>5. PICK h : h = [i \in 1 .. N |-> g[i]]
    OBVIOUS
  <2>6. Flattens(h)
    <3>1. ASSUME NEW i \in 1 .. N
          PROVE  h[i] = IF i = 1 THEN s[i] ELSE h[i - 1] \o s[i]
      <4>1. h[i] = g[i] /\ (i # 1 => i - 1 \in 1 .. N /\ h[i - 1] = g[i - 1])
        BY <2>5
      <4> QED BY <2>2, <2>4, <4>1, Zenon
    <3>2. h = [i \in 1 .. N |-> h[i]]
      BY <2>5
    <3> QED BY <3>1, <3>2, Zenon
  <2>7. Flattens(flatten)
    <3> HIDE DEF Flattens
    <3> QED BY <2>6
  <2> HIDE DEF flatten
  <2>8. PICK f : f = flatten /\ Flattens(f)
    BY <2>7
  <2>9. \A i \in 1 .. N : f[i] = IF i = 1 THEN s[i] ELSE f[i - 1] \o s[i]
    BY <2>8
  <2> HIDE DEF Flattens
  <2> DEFINE S == {k \in Nat : k \in 1 .. N => f[k] = g[k]}
  <2>10. 0 \in S
    OBVIOUS
  <2>11. ASSUME NEW k \in S PROVE k + 1 \in S
    <3> SUFFICES ASSUME k + 1 \in 1 .. N PROVE f[k + 1] = g[k + 1]
      OBVIOUS
    <3>1. CASE k = 0
      <4>1. k + 1 = 1
        BY <3>1
      <4> QED BY <2>4, <2>9, <4>1, Zenon
    <3>2. CASE k # 0
      <4>1. k \in 1 .. N /\ k + 1 # 1 /\ (k + 1) - 1 = k
        BY <3>2
      <4>2. f[k] = g[k]
        BY <4>1
      <4>3. f[k + 1] = f[k] \o s[k + 1]
        BY <2>9, <4>1, Zenon
      <4>4. g[k + 1] = g[k] \o s[k + 1]
        BY <2>2, <4>1, Zenon
      <4> QED BY <4>2, <4>3, <4>4, Zenon
    <3> QED BY <3>1, <3>2, Zenon
  <2>12. S = Nat
    <3> HIDE DEF S
    <3>1. S \in SUBSET Nat
      BY DEF S
    <3> QED BY <2>10, <2>11, <3>1, Upwards
  <2>13. f[N] = g[N]
    <3>1. N \in 1 .. N
      BY <1>3
    <3>2. N \in S
      <4> HIDE DEF S
      <4> QED BY <2>12
    <3> QED BY <3>1, <3>2
  <2> QED BY <1>1, <2>1, <2>8, <2>13, Zenon
<1> QED BY <1>2, <1>3, Zenon

(* Behind the first i of the sequences are the others.                     *)
LEMMA RestOf ==
  ASSUME NEW s \in Seq(Seq(Octet)), NEW g \in [0 .. Len(s) -> Seq(Octet)],
         IsJoined(g, s, Len(s))
  PROVE  \A k \in Nat : k <= Len(s) =>
           \A i \in 0 .. k : \E r \in Seq(Octet) : g[k] = g[i] \o r
<1> DEFINE Rest(k, i) == \E r \in Seq(Octet) : g[k] = g[i] \o r
           S == {k \in Nat : k <= Len(s) => \A i \in 0 .. k : Rest(k, i)}
<1>0. ASSUME NEW k \in 0 .. Len(s) PROVE Rest(k, k)
  <2>1. g[k] = g[k] \o << >> /\ << >> \in Seq(Octet)
    BY EmptyJoins
  <2> QED BY <2>1
<1>1. 0 \in S
  <2>1. \A i \in 0 .. 0 : i = 0
    OBVIOUS
  <2>2. 0 \in 0 .. Len(s)
    OBVIOUS
  <2> HIDE DEF Rest
  <2>3. \A i \in 0 .. 0 : Rest(0, i)
    BY <1>0, <2>1, <2>2, Zenon
  <2> QED BY <2>3
<1>2. ASSUME NEW k \in S PROVE k + 1 \in S
  <2> HIDE DEF Rest
  <2> SUFFICES ASSUME k + 1 <= Len(s), NEW i \in 0 .. k + 1 PROVE Rest(k + 1, i)
    OBVIOUS
  <2>1. CASE i = k + 1
    <3>1. k + 1 \in 0 .. Len(s)
      OBVIOUS
    <3> QED BY <1>0, <2>1, <3>1, Zenon
  <2>2. CASE i # k + 1
    <3>1. PICK r \in Seq(Octet) : g[k] = g[i] \o r
      <4>1. i \in 0 .. k /\ k <= Len(s)
        BY <2>2
      <4> QED BY <4>1 DEF Rest
    <3>2. PICK e \in Seq(Octet) : e = s[k + 1]
      OBVIOUS
    <3>3. g[k + 1] = g[k] \o e
      <4>1. k + 1 \in 0 .. Len(s) /\ k + 1 # 0 /\ (k + 1) - 1 = k
        OBVIOUS
      <4> QED BY <3>2, <4>1, Zenon DEF IsJoined
    <3>4. PICK p \in Seq(Octet) : p = g[i]
      <4>1. i \in 0 .. Len(s)
        OBVIOUS
      <4> QED BY <4>1
    <3>5. Associates(p, r, e) /\ r \o e \in Seq(Octet)
      BY JoinsAssociate, JoinType, Zenon
    <3> QED BY <3>1, <3>3, <3>4, <3>5, Zenon DEF Rest, Associates
  <2> QED BY <2>1, <2>2, Zenon
<1>3. S = Nat
  <2> HIDE DEF S
  <2>1. S \in SUBSET Nat
    BY DEF S
  <2> QED BY <1>1, <1>2, <2>1, Upwards
<1> QED BY <1>3

-----------------------------------------------------------------------------
(* The octets of the fields of an APDU.                                    *)
Encoded(fields) == [i \in DOMAIN fields |-> Encode(fields[i])]
FieldValue == {f.val : f \in DecodableField}

LEMMA EncodedType ==
  ASSUME NEW fields \in Seq(DecodableField)
  PROVE  /\ Encoded(fields) \in Seq(Seq(Octet)) /\ Len(Encoded(fields)) = Len(fields)
         /\ \A i \in 1 .. Len(fields) : Encoded(fields)[i] = Encode(fields[i])
<1>1. PICK N \in Nat : N = Len(fields)
  OBVIOUS
<1>2. DOMAIN fields = 1 .. N
  BY <1>1
<1>3. ASSUME NEW i \in 1 .. N PROVE Encode(fields[i]) \in Seq(Octet)
  <2>1. PICK f \in DecodableField : f = fields[i]
    BY <1>1
  <2>2. << >> \in Seq(Octet)
    OBVIOUS
  <2>3. ComesBack(f, << >>)
    BY <2>2, FieldUnderstood, Zenon
  <2> QED BY <2>1, <2>3, Zenon DEF ComesBack
<1>4. Encoded(fields) = [i \in 1 .. N |-> Encode(fields[i])]
  BY <1>2, Zenon DEF Encoded
<1>5. PICK s : s = [i \in 1 .. N |-> Encode(fields[i])]
  OBVIOUS
<1>6. s \in [1 .. N -> Seq(Octet)]
  BY <1>3, <1>5, Zenon
<1>7. s \in Seq(Seq(Octet)) /\ Len(s) = N
  BY <1>6
<1>8. \A i \in 1 .. N : s[i] = Encode(fields[i])
  BY <1>5, Zenon
<1> QED BY <1>1, <1>4, <1>5, <1>7, <1>8, Zenon

(* What the first k of the sequences make goes on with those behind them.  *)
GoesOn(g, i, k) == \E r \in Seq(Octet) : g[k] = g[i] \o r

(* The values v are those of the first fields of the APDU a, and end in    *)
(* front of octet n + 1.                                                   *)
IsWay(g, a) ==
  /\ g \in [0 .. Len(a.fields) -> Seq(Octet)]
  /\ IsJoined(g, Encoded(a.fields), Len(a.fields))
ReadSoFar(a, v, n) ==
  /\ v \in Seq(FieldValue) /\ Len(v) <= Len(a.fields)
  /\ \A i \in 1 .. Len(v) : v[i] = a.fields[i].val
  /\ \E g : IsWay(g, a) /\ n = Len(a.head) + Len(g[Len(v)])

LEMMA WayIs ==
  ASSUME NEW a, Fits(a), NEW g, IsWay(g, a)
  PROVE  /\ g[0] = << >>
         /\ ApduOctets(a) = a.head \o g[Len(a.fields)]
         /\ \A i \in 0 .. Len(a.fields) - 1 :
              /\ g[i] \in Seq(Octet) /\ g[i + 1] \in Seq(Octet)
              /\ g[i + 1] = g[i] \o Encode(a.fields[i + 1])
              /\ GoesOn(g, i + 1, Len(a.fields))
<1>1. PICK fields \in Seq(DecodableField) : fields = a.fields
  BY DEF Fits
<1>2. PICK N \in Nat : N = Len(fields)
  OBVIOUS
<1>3. PICK s \in Seq(Seq(Octet)) : s = Encoded(fields)
  BY EncodedType, Zenon
<1>4. Len(s) = N /\ \A i \in 1 .. N : s[i] = Encode(fields[i])
  BY <1>2, <1>3, EncodedType, Zenon
<1>5. g \in [0 .. N -> Seq(Octet)] /\ IsJoined(g, s, N)
  BY <1>1, <1>2, <1>3, Zenon DEF IsWay
<1>6. FlattenSeq(s) = g[N]
  BY <1>4, <1>5, FlattenJoins, Zenon
<1>7. ApduOctets(a) = a.head \o g[N]
  BY <1>1, <1>3, <1>6, Zenon DEF ApduOctets, Encoded
<1>8. g[0] = << >>
  <2>1. 0 \in 0 .. N
    OBVIOUS
  <2> QED BY <1>5, <2>1, Zenon DEF IsJoined
<1>9. ASSUME NEW i \in 0 .. N - 1
      PROVE  /\ g[i] \in Seq(Octet) /\ g[i + 1] \in Seq(Octet)
             /\ g[i + 1] = g[i] \o Encode(fields[i + 1])
             /\ GoesOn(g, i + 1, N)
  <2>1. /\ i \in 0 .. N /\ i + 1 \in 0 .. N /\ i + 1 \in 1 .. N /\ i + 1 # 0
        /\ (i + 1) - 1 = i /\ N <= N
    OBVIOUS
  <2>2. g[i] \in Seq(Octet) /\ g[i + 1] \in Seq(Octet)
    BY <1>5, <2>1, Zenon
  <2>3. g[i + 1] = g[i] \o s[i + 1]
    BY <1>5, <2>1, Zenon DEF IsJoined
  <2>4. GoesOn(g, i + 1, N)
    BY <1>4, <1>5, <2>1, RestOf, Zenon DEF GoesOn
  <2> QED BY <1>4, <2>1, <2>2, <2>3, <2>4, Zenon
<1> QED BY <1>1, <1>2, <1>7, <1>8, <1>9, Zenon

(* The receiver begins behind the fixed octets, with no value.             *)
LEMMA ReadingBegins ==
  ASSUME NEW a, Fits(a)
  PROVE  ReadSoFar(a, << >>, Len(a.head))
<1>1. PICK N \in Nat : N = Len(a.fields)
  BY DEF Fits
<1>2. Encoded(a.fields) \in Seq(Seq(Octet)) /\ Len(Encoded(a.fields)) = N
  BY <1>1, EncodedType, Zenon DEF Fits
<1>3. N <= N
  OBVIOUS
<1>4. PICK g \in [0 .. N -> Seq(Octet)] : IsJoined(g, Encoded(a.fields), N)
  BY <1>2, <1>3, JoinedExists, Zenon
<1>5. IsWay(g, a)
  BY <1>1, <1>4, Zenon DEF IsWay
<1>6. g[0] = << >>
  BY <1>5, WayIs, Zenon
<1>7. PICK h \in Nat : h = Len(a.head)
  BY DEF Fits
<1>8. /\ << >> \in Seq(FieldValue) /\ Len(<< >>) = 0 /\ 0 <= N /\ h = h + 0
      /\ 1 .. 0 = {}
  OBVIOUS
<1>9. Len(a.head) = Len(a.head) + Len(g[Len(<< >>)])
  BY <1>6, <1>7, <1>8, Zenon
<1>10. \A i \in 1 .. Len(<< >>) : << >>[i] = a.fields[i].val
  BY <1>8, Zenon
<1>11. << >> \in Seq(FieldValue) /\ Len(<< >>) <= Len(a.fields)
  BY <1>1, <1>8, Zenon
<1> QED BY <1>5, <1>9, <1>10, <1>11, Zenon DEF ReadSoFar

LEMMA ReadingEnds ==
  ASSUME NEW a, Fits(a), NEW v, NEW n, ReadSoFar(a, v, n), Len(v) = Len(a.fields)
  PROVE  n = Len(ApduOctets(a))
<1>1. PICK g : IsWay(g, a) /\ n = Len(a.head) + Len(g[Len(a.fields)])
  BY Zenon DEF ReadSoFar
<1>2. PICK N \in Nat : N = Len(a.fields)
  BY DEF Fits
<1>3. ApduOctets(a) = a.head \o g[N]
  BY <1>1, <1>2, WayIs, Zenon
<1>4. g[N] \in Seq(Octet)
  <2>1. N \in 0 .. N
    OBVIOUS
  <2> QED BY <1>1, <1>2, <2>1, Zenon DEF IsWay
<1>5. a.head \in Seq(Octet)
  BY Zenon DEF Fits
<1>6. Len(a.head \o g[N]) = Len(a.head) + Len(g[N])
  BY <1>4, <1>5, Appended, Zenon
<1> QED BY <1>1, <1>2, <1>3, <1>6, Zenon

(* What is left of the octets u behind octet n.                            *)
RestIs(u, n, q) == SubSeq(u, n + 1, Len(u)) = q

LEMMA RestCut ==
  ASSUME NEW u \in Seq(Octet), NEW q \in Seq(Octet), NEW n \in Nat,
         IsAt(u, n + 1, q), Len(u) = n + Len(q)
  PROVE  RestIs(u, n, q)
<1>1. PICK k \in Nat \ {0}, m \in Nat : k = n + 1 /\ m = Len(u)
  OBVIOUS
<1>2. m = k - 1 + Len(q)
  BY <1>1
<1>3. IsAt(u, k, q)
  BY <1>1, Zenon
<1>4. \A s \in Seq(Octet), x \in Seq(Octet) :
          IsAt(s, k, x) /\ m = k - 1 + Len(x) => SubSeq(s, k, m) = x
  BY Whole
<1> QED BY <1>1, <1>2, <1>3, <1>4, Zenon DEF RestIs

(* Octets in four pieces, the last three or the last two put together.     *)
LastThree(h, x, e, r, u) == u = h \o ((x \o e) \o r)
LastTwo(h, x, e, r, u) == u = (h \o x) \o (e \o r)

LEMMA Regrouped ==
  ASSUME NEW h \in Seq(Octet), NEW x \in Seq(Octet), NEW e \in Seq(Octet),
         NEW r \in Seq(Octet), NEW u, LastThree(h, x, e, r, u)
  PROVE  LastTwo(h, x, e, r, u)
<1>1. PICK q \in Seq(Octet) : q = e \o r
  BY JoinType, Zenon
<1>2. Associates(x, e, r) /\ Associates(h, x, q)
  BY JoinsAssociate, Zenon
<1> QED BY <1>1, <1>2, Zenon DEF Associates, LastThree, LastTwo

(* What the receiver makes of the octets that begin with those of a field. *)
FoundThere(f, u, n) ==
  /\ n < Len(u) /\ Len(Encode(f)) \in Nat \ {0}
  /\ Decode(f.kind, f.tag, SubSeq(u, n + 1, Len(u)))
       = [len |-> Len(Encode(f)), val |-> f.val]

LEMMA DecodedThere ==
  ASSUME NEW p \in Seq(Octet), NEW f \in DecodableField, NEW r \in Seq(Octet),
         NEW u, u = p \o (Encode(f) \o r), NEW n, n = Len(p)
  PROVE  FoundThere(f, u, n)
<1>1. PICK e \in Seq(Octet) : e = Encode(f)
  BY FieldUnderstood, Zenon DEF ComesBack
<1>2. Len(e) >= 1 /\ Decode(f.kind, f.tag, e \o r) = [len |-> Len(e), val |-> f.val]
  BY <1>1, FieldUnderstood, Zenon DEF ComesBack
<1>3. PICK q \in Seq(Octet) : q = e \o r
  BY JoinType, Zenon
<1>4. Len(q) = Len(e) + Len(r)
  BY <1>3, Appended, Zenon
<1>5. u = p \o q
  BY <1>1, <1>3, Zenon
<1>6. u \in Seq(Octet) /\ Len(u) = n + Len(q) /\ IsAt(u, n + 1, q)
  BY <1>5, Appended, Zenon
<1>7. n \in Nat /\ n + 1 \in Nat \ {0} /\ Len(u) = (n + 1) - 1 + Len(q)
  BY <1>6
<1>8. RestIs(u, n, q)
  BY <1>6, <1>7, RestCut, Zenon
<1>9. n < Len(u) /\ Len(e) \in Nat \ {0}
  BY <1>2, <1>4, <1>6, <1>7
<1> QED BY <1>1, <1>2, <1>3, <1>8, <1>9, Zenon DEF FoundThere, RestIs

(* The next field is there, and its value is the one that was encoded.     *)
FieldSeen(a, v, n) ==
  LET f == a.fields[Len(v) + 1]
  IN  Decode(f.kind, f.tag, SubSeq(ApduOctets(a), n + 1, Len(ApduOctets(a))))
ReadsOn(a, v, n, d) ==
  /\ n < Len(ApduOctets(a)) /\ d.len > 0
  /\ ReadSoFar(a, Append(v, d.val), n + d.len)

LEMMA AppendedValue ==
  ASSUME NEW V, NEW v \in Seq(V), NEW x \in V
  PROVE  /\ Append(v, x) \in Seq(V) /\ Len(Append(v, x)) = Len(v) + 1
         /\ Append(v, x)[Len(v) + 1] = x
         /\ \A i \in 1 .. Len(v) : Append(v, x)[i] = v[i]
BY SMT

LEMMA ReadingGoesOn ==
  ASSUME NEW a, Fits(a), NEW v, NEW n, ReadSoFar(a, v, n), Len(v) < Len(a.fields)
  PROVE  ReadsOn(a, v, n, FieldSeen(a, v, n))
<1>1. PICK fields \in Seq(DecodableField) : fields = a.fields
  BY Zenon DEF Fits
<1>2. PICK N \in Nat : N = Len(fields)
  OBVIOUS
<1>3. PICK h \in Seq(Octet) : h = a.head
  BY Zenon DEF Fits
<1>4. PICK g : IsWay(g, a) /\ n = Len(h) + Len(g[Len(v)])
  BY <1>3, Zenon DEF ReadSoFar
<1>5. v \in Seq(FieldValue)
  BY Zenon DEF ReadSoFar
<1>6. PICK k \in Nat : k = Len(v)
  BY <1>5
<1>7. k < N
  BY <1>1, <1>2, <1>6, Zenon
<1>8. PICK j \in Nat : j = k + 1
  OBVIOUS
<1>9. k \in 0 .. N - 1 /\ j \in 1 .. N /\ j <= N
  BY <1>7, <1>8
<1>10. PICK f \in DecodableField : f = fields[j]
  BY <1>2, <1>9
<1>11. PICK x \in Seq(Octet), y \in Seq(Octet) : x = g[k] /\ y = g[j]
  BY <1>1, <1>2, <1>4, <1>8, <1>9, WayIs, Zenon
<1>12. PICK e \in Seq(Octet) : e = Encode(f)
  BY FieldUnderstood, Zenon DEF ComesBack
<1>13. y = x \o e
  BY <1>1, <1>2, <1>4, <1>8, <1>9, <1>10, <1>11, <1>12, WayIs, Zenon
<1>14. PICK r \in Seq(Octet) : g[N] = y \o r
  <2>1. GoesOn(g, k + 1, Len(a.fields))
    BY <1>1, <1>2, <1>4, <1>9, WayIs, Zenon
  <2> QED BY <1>1, <1>2, <1>8, <1>11, <2>1, Zenon DEF GoesOn
<1>15. PICK p \in Seq(Octet) : p = h \o x
  BY JoinType, Zenon
<1>16. PICK u : u = ApduOctets(a)
  OBVIOUS
<1>17. u = p \o (e \o r)
  <2>1. u = h \o g[N]
    BY <1>1, <1>2, <1>3, <1>4, <1>16, WayIs, Zenon
  <2>2. LastThree(h, x, e, r, u)
    BY <1>13, <1>14, <2>1, Zenon DEF LastThree
  <2>3. LastTwo(h, x, e, r, u)
    BY <2>2, Regrouped, Zenon
  <2> QED BY <1>15, <2>3, Zenon DEF LastTwo
<1>18. n = Len(p)
  <2>1. Len(p) = Len(h) + Len(x)
    BY <1>15, Appended, Zenon
  <2> QED BY <1>4, <1>6, <1>11, <2>1, Zenon
<1>19. PICK d : d = Decode(f.kind, f.tag, SubSeq(u, n + 1, Len(u)))
  OBVIOUS
<1>20. n < Len(u) /\ Len(e) \in Nat \ {0} /\ d = [len |-> Len(e), val |-> f.val]
  <2>1. u = p \o (Encode(f) \o r)
    BY <1>12, <1>17, Zenon
  <2>2. FoundThere(f, u, n)
    BY <1>18, <2>1, DecodedThere
  <2> QED BY <1>12, <1>19, <2>2, Zenon DEF FoundThere
<1>21. d.len = Len(e) /\ d.val = f.val /\ d.len > 0
  BY <1>20
<1>22. f.val \in FieldValue
  BY Zenon DEF FieldValue
<1>23. PICK w \in Seq(FieldValue) : w = Append(v, d.val)
  BY <1>5, <1>21, <1>22, AppendedValue, Zenon
<1>24. Len(w) = j /\ w[j] = f.val /\ \A i \in 1 .. k : w[i] = v[i]
  <2>1. w = Append(v, f.val)
    BY <1>21, <1>23, Zenon
  <2>2. /\ Len(Append(v, f.val)) = Len(v) + 1
        /\ Append(v, f.val)[Len(v) + 1] = f.val
        /\ \A i \in 1 .. Len(v) : Append(v, f.val)[i] = v[i]
    BY <1>5, <1>22, AppendedValue
  <2> QED BY <1>6, <1>8, <2>1, <2>2, Zenon
<1>25. \A i \in 1 .. j : i = j \/ i \in 1 .. k
  BY <1>8
<1>26. \A i \in 1 .. k : v[i] = fields[i].val
  BY <1>1, <1>6, Zenon DEF ReadSoFar
<1>27. \A i \in 1 .. Len(w) : w[i] = a.fields[i].val
  BY <1>1, <1>10, <1>24, <1>25, <1>26, Zenon
<1>28. n + d.len = Len(h) + Len(y)
  <2>1. Len(y) = Len(x) + Len(e)
    BY <1>13, Appended, Zenon
  <2>2. Len(p) = Len(h) + Len(x)
    BY <1>15, Appended, Zenon
  <2>3. PICK l1 \in Nat, l2 \in Nat, l3 \in Nat : l1 = Len(h) /\ l2 = Len(x) /\ l3 = Len(e)
    OBVIOUS
  <2>4. (l1 + l2) + l3 = l1 + (l2 + l3)
    OBVIOUS
  <2> QED BY <1>18, <1>21, <2>1, <2>2, <2>3, <2>4, Zenon
<1>29. ReadSoFar(a, w, n + d.len)
  <2>1. Len(w) <= Len(a.fields)
    BY <1>1, <1>2, <1>9, <1>24, Zenon
  <2>2. n + d.len = Len(a.head) + Len(g[Len(w)])
    BY <1>3, <1>11, <1>24, <1>28, Zenon
  <2> QED BY <1>4, <1>27, <2>1, <2>2, Zenon DEF ReadSoFar
<1>30. FieldSeen(a, v, n) = d
  BY <1>1, <1>6, <1>8, <1>10, <1>16, <1>19, Zenon DEF FieldSeen
<1> QED BY <1>16, <1>20, <1>21, <1>23, <1>29, <1>30, Zenon DEF ReadsOn

-----------------------------------------------------------------------------
(* The fields of the message on its way.                                   *)
BeingRead ==
  /\ phase # "idle" => Fits(apdu)
  /\ phase \in {"sent", "heard"} => got = << >>
  /\ phase = "parsed" => ReadSoFar(apdu, got, pos)

(* What the receiver decodes is the packet that add_npdu_header() made.    *)
LEMMA DecodedIs ==
  ASSUME OnTheWay, phase = "parsed"
  PROVE  /\ peer.err = 0 /\ peer.apdu = ApduOctets(apdu)
         /\ Decoded = FieldSeen(apdu, got, pos)
<1>1. peer.err = 0 /\ peer.apdu = ApduOctets(apdu)
  BY Zenon DEF OnTheWay, Understood, Octets
<1> QED BY <1>1, Zenon DEF Decoded, FieldSeen

LEMMA BeingReadInductive ==
  ASSUME FieldsFit, OnTheWay, BeingRead, [Next]_vars
  PROVE  BeingRead'
<1>1. ASSUME NEW m \in Messages, Send(m.apdu, m.header) PROVE BeingRead'
  <2>1. phase' = "sent" /\ apdu' = m.apdu /\ got' = << >>
    BY <1>1, Zenon DEF Send
  <2>2. Fits(apdu')
    BY <2>1, Zenon DEF FieldsFit, Fit
  <2> QED BY <2>1, <2>2 DEF BeingRead
<1>2. CASE Damage
  BY <1>2 DEF Damage, BeingRead
<1>3. CASE Hear
  BY <1>3 DEF Hear, BeingRead
<1>4. CASE Parse
  <2>1. /\ phase \in {"heard", "sent"} /\ phase' = "parsed" /\ apdu' = apdu
        /\ got' = got /\ pos' = Len(apdu.head)
    BY <1>4 DEF Parse
  <2>2. Fits(apdu) /\ got = << >>
    BY <2>1 DEF BeingRead
  <2>3. ReadSoFar(apdu, << >>, Len(apdu.head))
    BY <2>2, ReadingBegins, Zenon
  <2>4. ReadSoFar(apdu', got', pos')
    BY <2>1, <2>2, <2>3, Zenon
  <2> QED BY <2>1, <2>2, <2>4 DEF BeingRead
<1>5. CASE Read
  <2>1. /\ phase = "parsed" /\ phase' = phase /\ apdu' = apdu
        /\ Len(got) < Len(apdu.fields)
        /\ pos' = pos + Decoded.len /\ got' = Append(got, Decoded.val)
    BY <1>5, Zenon DEF Read
  <2>2. Fits(apdu) /\ ReadSoFar(apdu, got, pos)
    BY <2>1 DEF BeingRead
  <2>3. ReadsOn(apdu, got, pos, Decoded)
    BY <2>1, <2>2, DecodedIs, ReadingGoesOn, Zenon
  <2>4. ReadSoFar(apdu', got', pos')
    BY <2>1, <2>3, Zenon DEF ReadsOn
  <2> QED BY <2>1, <2>2, <2>4 DEF BeingRead
<1>6. CASE Finish
  BY <1>6 DEF Finish, BeingRead
<1>7. CASE UNCHANGED packet
  BY <1>7 DEF packet, BeingRead
<1> QED BY <1>1, <1>2, <1>3, <1>4, <1>5, <1>6, <1>7, Zenon DEF Next, vars

LEMMA AlwaysBeingRead ==
  ASSUME FieldsFit
  PROVE  Spec => [](OnTheWay /\ BeingRead)
<1>1. Init => BeingRead
  BY DEF Init, BeingRead
<1>2. OnTheWay /\ BeingRead /\ [Next]_vars => BeingRead'
  BY BeingReadInductive
<1> QED BY <1>1, <1>2, AlwaysOnTheWay, PTL DEF Spec

(* Every field of every message is decoded to the value that was encoded,  *)
(* whatever stands in front of it and behind it: the decoders of           *)
(* bacdcode.cpp take exactly the octets that the encoders wrote, none      *)
(* refuses its field, and the last field ends with the packet.  For all    *)
(* messages whose fields are of DecodableField.                            *)
THEOREM FieldsUnderstoodCorrect ==
  ASSUME FieldsFit
  PROVE  Spec => []FieldsUnderstood
<1>1. OnTheWay /\ BeingRead => FieldsUnderstood
  <2> SUFFICES ASSUME OnTheWay, BeingRead, phase = "parsed" PROVE FieldsUnderstood
    BY DEF FieldsUnderstood
  <2>1. Fits(apdu) /\ ReadSoFar(apdu, got, pos)
    BY DEF BeingRead
  <2>2. \A i \in DOMAIN got : got[i] = apdu.fields[i].val
    <3>1. got \in Seq(FieldValue) /\ \A i \in 1 .. Len(got) : got[i] = apdu.fields[i].val
      BY <2>1, Zenon DEF ReadSoFar
    <3>2. DOMAIN got = 1 .. Len(got)
      BY <3>1
    <3> QED BY <3>1, <3>2, Zenon
  <2>3. Len(got) = Len(apdu.fields) => pos = Len(peer.apdu)
    BY <2>1, DecodedIs, ReadingEnds, Zenon
  <2>4. Len(got) < Len(apdu.fields) => pos < Len(peer.apdu) /\ Decoded.len > 0
    BY <2>1, DecodedIs, ReadingGoesOn, Zenon DEF ReadsOn
  <2> QED BY <2>2, <2>3, <2>4, Zenon DEF FieldsUnderstood
<1> QED BY <1>1, AlwaysBeingRead, PTL

-----------------------------------------------------------------------------
(* What the other variables hold in each phase.                            *)
Kept ==
  /\ start \in 0 .. HeaderMax /\ taken \in BOOLEAN
  /\ phase = "idle" => data = << >> /\ frame = << >> /\ line = << >>
  /\ phase # "parsed" => pos = 0
  /\ phase = "parsed" => line = frame

LEMMA StartSpace ==
  ASSUME NEW n \in 2 .. HeaderMax
  PROVE  HeaderMax - n \in 0 .. HeaderMax
BY SMT DEF HeaderMax

LEMMA KeptInductive ==
  ASSUME OnTheWay, Kept, [Next]_vars
  PROVE  Kept'
<1>1. ASSUME NEW m \in Messages, Send(m.apdu, m.header) PROVE Kept'
  <2>1. /\ HeaderLegal(m.header) /\ phase' = "sent"
        /\ start' = HeaderMax - HeaderSize(m.header) /\ taken' = FALSE /\ pos' = 0
    BY <1>1, Zenon DEF Send
  <2>2. HeaderOK(m.header)
    BY <2>1, IsMessage, Zenon
  <2>3. HeaderSize(m.header) \in 2 .. HeaderMax
    BY <2>2, HeaderFits, Zenon
  <2>4. start' \in 0 .. HeaderMax
    BY <2>1, <2>3, StartSpace, Zenon
  <2> QED BY <2>1, <2>4 DEF Kept
<1>2. CASE Damage
  BY <1>2 DEF Damage, Kept
<1>3. CASE Hear
  <2>1. taken' \in BOOLEAN
    BY <1>3, Zenon DEF Hear
  <2> QED BY <1>3, <2>1 DEF Hear, Kept
<1>4. CASE Parse
  <2>1. line = frame
    BY <1>4 DEF OnTheWay, Parse, Decided
  <2>2. /\ phase \in {"heard", "sent"} /\ phase' = "parsed" /\ line' = line /\ frame' = frame
        /\ start' = start /\ taken' = taken
    BY <1>4 DEF Parse
  <2> QED BY <2>1, <2>2 DEF Kept
<1>5. CASE Read
  BY <1>5 DEF Read, Kept
<1>6. CASE Finish
  <2>1. HeaderMax \in 0 .. HeaderMax
    BY DEF HeaderMax
  <2> QED BY <1>6, <2>1 DEF Finish, Kept
<1>7. CASE UNCHANGED packet
  BY <1>7 DEF packet, Kept
<1> QED BY <1>1, <1>2, <1>3, <1>4, <1>5, <1>6, <1>7, Zenon DEF Next, vars

LEMMA ReadingInside ==
  ASSUME NEW a, Fits(a), NEW v, NEW n, ReadSoFar(a, v, n)
  PROVE  n \in Nat /\ n <= Len(ApduOctets(a))
<1>1. PICK g : IsWay(g, a) /\ n = Len(a.head) + Len(g[Len(v)])
  BY Zenon DEF ReadSoFar
<1>2. PICK N \in Nat : N = Len(a.fields)
  BY DEF Fits
<1>3. PICK k \in Nat : k = Len(v) /\ k <= N
  BY <1>2, LenProperties, Zenon DEF ReadSoFar
<1>4. g[k] \in Seq(Octet)
  <2>1. k \in 0 .. N
    BY <1>3
  <2> QED BY <1>1, <1>2, <2>1, Zenon DEF IsWay
<1>5. n \in Nat
  <2>1. a.head \in Seq(Octet)
    BY Zenon DEF Fits
  <2>2. PICK l1 \in Nat, l2 \in Nat : l1 = Len(a.head) /\ l2 = Len(g[k])
    BY <1>4, <2>1, LenProperties, Zenon
  <2>3. l1 + l2 \in Nat
    OBVIOUS
  <2> QED BY <1>1, <1>3, <2>2, <2>3, Zenon
<1>6. CASE k = N
  <2>1. n = Len(ApduOctets(a))
    BY <1>2, <1>3, <1>6, ReadingEnds, Zenon
  <2> QED BY <1>5, <2>1
<1>7. CASE k # N
  <2>1. k < N
    BY <1>3, <1>7
  <2>2. Len(v) < Len(a.fields)
    BY <1>2, <1>3, <2>1, Zenon
  <2>3. PICK l : l = Len(ApduOctets(a)) /\ n < l
    BY <2>2, ReadingGoesOn, Zenon DEF ReadsOn
  <2>4. l \in Nat
    <3>1. ApduOctets(a) \in Seq(Octet)
      <4>1. a.head \in Seq(Octet) /\ g[N] \in Seq(Octet)
        <5>1. N \in 0 .. N
          OBVIOUS
        <5> QED BY <1>1, <1>2, <5>1, Zenon DEF IsWay, Fits
      <4>2. ApduOctets(a) = a.head \o g[N]
        BY <1>1, <1>2, WayIs, Zenon
      <4> QED BY <4>1, <4>2, JoinType, Zenon
    <3> QED BY <2>3, <3>1, LenProperties, Zenon
  <2>5. n <= l
    BY <1>5, <2>3, <2>4
  <2> QED BY <1>5, <2>3, <2>5, Zenon
<1> QED BY <1>6, <1>7, Zenon

(* The packet is not shorter than the APDU in it.                          *)
LEMMA PacketLonger ==
  ASSUME NEW h, HeaderOK(h), NEW u \in Seq(Octet)
  PROVE  Len(u) <= Len(AddHeader(h, u))
<1>1. PICK c, d, e, f :
        /\ c = <<1, Control(h)>> /\ d = AddressOctets(h.dest)
        /\ e = AddressOctets(h.src) /\ f = Hops(h)
  OBVIOUS
<1>2. InOrder(c, d, e, f, u) /\ AddHeader(h, u) = Joint(c, d, e, f, u)
  BY <1>1, HeaderParts, Zenon
<1>3. PICK s : s = AddHeader(h, u)
  OBVIOUS
<1>4. s \in Seq(Octet) /\ IsAt(s, Len(c) + Len(d) + Len(e) + Len(f) + 1, u)
  BY <1>2, <1>3, Zenon DEF InOrder
<1>5. PICK l : l = Len(c) + Len(d) + Len(e) + Len(f)
  OBVIOUS
<1>6. Len(s) = l + Len(u)
  BY <1>2, <1>3, <1>5, Zenon DEF InOrder
<1>7. l \in Nat
  <2>1. /\ Len(d) \in Nat /\ Len(e) \in Nat
    BY <1>1, AddressSpace, LenProperties, Zenon DEF HeaderOK
  <2>2. Len(c) = 2
    BY <1>1
  <2>3. Len(f) \in Nat
    BY <1>1 DEF Hops
  <2> QED BY <1>5, <2>1, <2>2, <2>3
<1>8. Len(u) \in Nat
  OBVIOUS
<1>9. Len(u) <= Len(s)
  BY <1>6, <1>7, <1>8
<1> QED BY <1>3, <1>9, Zenon

(* Every variable keeps its type: the header fits in the space in front of *)
(* the data, the frame in the buffer, and the receiver never reads past    *)
(* the packet.  For all messages whose fields are of DecodableField.       *)
THEOREM TypeCorrect ==
  ASSUME FieldsFit
  PROVE  Spec => []TypeOK
<1>1. Init => Kept
  <2>1. HeaderMax \in 0 .. HeaderMax
    BY DEF HeaderMax
  <2> QED BY <2>1 DEF Init, Kept
<1>2. OnTheWay /\ BeingRead /\ Kept => TypeOK
  <2> SUFFICES ASSUME OnTheWay, BeingRead, Kept PROVE TypeOK
    OBVIOUS
  <2>1. CASE phase = "idle"
    <3>1. /\ << >> \in Seq(Octet) /\ Len(<< >>) = 0
      OBVIOUS
    <3>2. data = << >> /\ frame = << >> /\ line = << >> /\ pos = 0
      BY <2>1 DEF Kept
    <3>3. Len(frame) <= FrameBuffer /\ pos \in 0 .. Len(data)
      BY <3>1, <3>2 DEF FrameBuffer
    <3> QED BY <2>1, <3>1, <3>2, <3>3, Zenon DEF TypeOK, Kept
  <2>2. CASE phase # "idle"
    <3>1. Carried /\ Fits(apdu)
      BY <2>2 DEF OnTheWay, BeingRead
    <3>2. /\ data \in Seq(Octet) /\ frame \in Seq(Octet) /\ Len(frame) <= FrameBuffer
          /\ HeaderOK(header) /\ Octets \in Seq(Octet) /\ data = AddHeader(header, Octets)
      BY <3>1, Zenon DEF Carried, IsFrame
    <3>3. phase \in {"sent", "heard", "parsed"}
      BY <2>2 DEF OnTheWay
    <3>4. line \in Seq(Octet)
      <4>1. CASE line = frame
        BY <3>2, <4>1
      <4>2. CASE Changed
        BY <4>2, Zenon DEF Changed
      <4>3. CASE Cut
        <5>1. PICK n \in 1 .. Len(frame) - 1 : line = SubSeq(frame, 1, n)
          BY <4>3, Zenon DEF Cut
        <5> QED BY <3>2, <5>1
      <4> QED BY <3>3, <4>1, <4>2, <4>3, Zenon DEF OnTheWay, Arrived, Kept
    <3>5. pos \in 0 .. Len(data)
      <4>1. PICK l \in Nat : l = Len(data)
        BY <3>2
      <4>2. CASE phase = "parsed"
        <5>1. ReadSoFar(apdu, got, pos)
          BY <4>2 DEF BeingRead
        <5>2. pos \in Nat /\ pos <= Len(Octets)
          BY <3>1, <5>1, ReadingInside, Zenon DEF Octets
        <5>3. PICK k \in Nat : k = Len(Octets)
          BY <3>2, LenProperties, Zenon
        <5>4. k <= l
          BY <3>2, <4>1, <5>3, PacketLonger, Zenon
        <5>5. pos \in 0 .. l
          BY <5>2, <5>3, <5>4
        <5> QED BY <4>1, <5>5, Zenon
      <4>3. CASE phase # "parsed"
        <5>1. pos = 0
          BY <4>3 DEF Kept
        <5> QED BY <4>1, <5>1
      <4> QED BY <4>2, <4>3, Zenon
    <3> QED BY <3>2, <3>3, <3>4, <3>5, Zenon DEF TypeOK, Kept
  <2> QED BY <2>1, <2>2, Zenon
<1>3. OnTheWay /\ Kept /\ [Next]_vars => Kept'
  BY KeptInductive
<1> QED BY <1>1, <1>2, <1>3, AlwaysBeingRead, PTL DEF Spec

-----------------------------------------------------------------------------
(* The exclusive or of digits, from their bits.                            *)
BitsOf(a, b, c, d) == a + 2 * b + 4 * c + 8 * d

LEMMA BitsKnown ==
  ASSUME NEW a \in {0, 1}, NEW b \in {0, 1}, NEW c \in {0, 1}, NEW d \in {0, 1},
         NEW n, n = BitsOf(a, b, c, d)
  PROVE  /\ n \in 0 .. 15
         /\ Bit(n, 0) = a /\ Bit(n, 1) = b /\ Bit(n, 2) = c /\ Bit(n, 3) = d
<1>1. 2^0 = 1 /\ 2^1 = 2 /\ 2^2 = 4 /\ 2^3 = 8
  OBVIOUS
<1>2. /\ Bit(n, 0) = (n \div 1) % 2 /\ Bit(n, 1) = (n \div 2) % 2
      /\ Bit(n, 2) = (n \div 4) % 2 /\ Bit(n, 3) = (n \div 8) % 2
  BY <1>1 DEF Bit
<1>3. /\ n \in 0 .. 15
      /\ (n \div 1) % 2 = a /\ (n \div 2) % 2 = b
      /\ (n \div 4) % 2 = c /\ (n \div 8) % 2 = d
  BY SMT DEF BitsOf
<1> QED BY <1>2, <1>3, Zenon

LEMMA XorOfBits ==
  ASSUME NEW i \in 0 .. 15, NEW j \in 0 .. 15
  PROVE  XorDigit[i][j] = BitsOf((Bit(i, 0) + Bit(j, 0)) % 2, (Bit(i, 1) + Bit(j, 1)) % 2,
                                 (Bit(i, 2) + Bit(j, 2)) % 2, (Bit(i, 3) + Bit(j, 3)) % 2)
BY DigitXor, Zenon DEF DigitSum, BitsOf

(* With the digits of the two polynomials.                                 *)
LEMMA DigitWith ==
  ASSUME NEW n \in 0 .. 15
  PROVE  /\ XorDigit[n][0] = n
         /\ XorDigit[n][1] = n + 1 - 2 * (n % 2)
         /\ XorDigit[n][4] = n + 4 - 8 * ((n \div 4) % 2)
         /\ XorDigit[n][8] = n + 8 - 16 * ((n \div 8) % 2)
<1>1. PICK a, b, c, d \in {0, 1} :
        /\ a = Bit(n, 0) /\ b = Bit(n, 1) /\ c = Bit(n, 2) /\ d = Bit(n, 3)
        /\ n = a + 2 * b + 4 * c + 8 * d
  BY FourBits
<1>2. /\ 0 = BitsOf(0, 0, 0, 0) /\ 1 = BitsOf(1, 0, 0, 0)
      /\ 4 = BitsOf(0, 0, 1, 0) /\ 8 = BitsOf(0, 0, 0, 1)
  BY DEF BitsOf
<1>3. 0 \in 0 .. 15 /\ 1 \in 0 .. 15 /\ 4 \in 0 .. 15 /\ 8 \in 0 .. 15 /\ 0 \in {0, 1} /\ 1 \in {0, 1}
  OBVIOUS
<1>4. /\ Bit(0, 0) = 0 /\ Bit(0, 1) = 0 /\ Bit(0, 2) = 0 /\ Bit(0, 3) = 0
      /\ Bit(1, 0) = 1 /\ Bit(1, 1) = 0 /\ Bit(1, 2) = 0 /\ Bit(1, 3) = 0
  BY <1>2, <1>3, BitsKnown, Zenon
<1>5. /\ Bit(4, 0) = 0 /\ Bit(4, 1) = 0 /\ Bit(4, 2) = 1 /\ Bit(4, 3) = 0
      /\ Bit(8, 0) = 0 /\ Bit(8, 1) = 0 /\ Bit(8, 2) = 0 /\ Bit(8, 3) = 1
  BY <1>2, <1>3, BitsKnown, Zenon
<1>6. \A x \in {0, 1} : x + 0 = x /\ x % 2 = x /\ (x + 1) % 2 = 1 - x
  BY SMT
<1>7. /\ XorDigit[n][0] = BitsOf((a + 0) % 2, (b + 0) % 2, (c + 0) % 2, (d + 0) % 2)
      /\ XorDigit[n][1] = BitsOf((a + 1) % 2, (b + 0) % 2, (c + 0) % 2, (d + 0) % 2)
      /\ XorDigit[n][4] = BitsOf((a + 0) % 2, (b + 0) % 2, (c + 1) % 2, (d + 0) % 2)
      /\ XorDigit[n][8] = BitsOf((a + 0) % 2, (b + 0) % 2, (c + 0) % 2, (d + 1) % 2)
  BY <1>1, <1>3, <1>4, <1>5, XorOfBits, Zenon
<1>8. /\ XorDigit[n][0] = BitsOf(a, b, c, d)
      /\ XorDigit[n][1] = BitsOf(1 - a, b, c, d)
      /\ XorDigit[n][4] = BitsOf(a, b, 1 - c, d)
      /\ XorDigit[n][8] = BitsOf(a, b, c, 1 - d)
  BY <1>6, <1>7, Zenon
<1>9. n % 2 = a /\ (n \div 4) % 2 = c /\ (n \div 8) % 2 = d
  <2>1. a = 0 \/ a = 1
    OBVIOUS
  <2>2. b = 0 \/ b = 1
    OBVIOUS
  <2>3. c = 0 \/ c = 1
    OBVIOUS
  <2>4. d = 0 \/ d = 1
    OBVIOUS
  <2>5. n = a + 2 * b + 4 * c + 8 * d
    BY <1>1
  <2> QED BY <2>1, <2>2, <2>3, <2>4, <2>5, SMT
<1>10. /\ n = BitsOf(a, b, c, d)
       /\ n + 1 - 2 * a = BitsOf(1 - a, b, c, d)
       /\ n + 4 - 8 * c = BitsOf(a, b, 1 - c, d)
       /\ n + 8 - 16 * d = BitsOf(a, b, c, 1 - d)
  <2>1. n = a + 2 * b + 4 * c + 8 * d
    BY <1>1
  <2> QED BY <2>1, SMT DEF BitsOf
<1> QED BY <1>8, <1>9, <1>10, Zenon

(* Numbers of four digits.                                                 *)
LEMMA XorDigits ==
  ASSUME NEW h \in 0 .. 15, NEW l \in 0 .. 15, NEW i \in 0 .. 15, NEW k \in 0 .. 15
  PROVE  Xor(16 * h + l, 16 * i + k) = 16 * XorDigit[h][i] + XorDigit[l][k]
<1>1. /\ (16 * h + l) \div 16 = h /\ (16 * h + l) % 16 = l
      /\ (16 * i + k) \div 16 = i /\ (16 * i + k) % 16 = k
  BY SMT
<1> QED BY <1>1, Zenon DEF Xor

(* One octet with another of which the two digits are known.               *)
LEMMA XorWith ==
  ASSUME NEW n \in Octet
  PROVE  /\ Xor(n, 0) = n
         /\ Xor(n, 129) = n + 129 - 2 * (n % 2) - 256 * ((n \div 128) % 2)
         /\ Xor(n, 132) = n + 132 - 8 * ((n \div 4) % 2) - 256 * ((n \div 128) % 2)
         /\ Xor(n, 8) = n + 8 - 16 * ((n \div 8) % 2)
<1>1. PICK h, l \in 0 .. 15 : h = n \div 16 /\ l = n % 16 /\ n = 16 * h + l
  BY SMT DEF Octet
<1>2. 0 \in 0 .. 15 /\ 1 \in 0 .. 15 /\ 4 \in 0 .. 15 /\ 8 \in 0 .. 15
  OBVIOUS
<1>3. /\ 16 * 0 + 0 = 0 /\ 16 * 8 + 1 = 129 /\ 16 * 8 + 4 = 132 /\ 16 * 0 + 8 = 8
  OBVIOUS
<1>4. /\ Xor(n, 16 * 0 + 0) = 16 * XorDigit[h][0] + XorDigit[l][0]
      /\ Xor(n, 16 * 8 + 1) = 16 * XorDigit[h][8] + XorDigit[l][1]
      /\ Xor(n, 16 * 8 + 4) = 16 * XorDigit[h][8] + XorDigit[l][4]
      /\ Xor(n, 16 * 0 + 8) = 16 * XorDigit[h][0] + XorDigit[l][8]
  <2>1. \A i, j \in 0 .. 15 :
          Xor(16 * h + l, 16 * i + j) = 16 * XorDigit[h][i] + XorDigit[l][j]
    BY XorDigits
  <2>2. \A i, j \in 0 .. 15 : Xor(n, 16 * i + j) = 16 * XorDigit[h][i] + XorDigit[l][j]
    BY <1>1, <2>1, Zenon
  <2> QED BY <1>2, <2>2, Zenon
<1>5. /\ XorDigit[h][0] = h /\ XorDigit[h][8] = h + 8 - 16 * ((h \div 8) % 2)
      /\ XorDigit[l][0] = l /\ XorDigit[l][1] = l + 1 - 2 * (l % 2)
      /\ XorDigit[l][4] = l + 4 - 8 * ((l \div 4) % 2)
      /\ XorDigit[l][8] = l + 8 - 16 * ((l \div 8) % 2)
  BY DigitWith, Zenon
<1>6. /\ n % 2 = l % 2 /\ (n \div 4) % 2 = (l \div 4) % 2
      /\ (n \div 8) % 2 = (l \div 8) % 2 /\ (n \div 128) % 2 = (h \div 8) % 2
  BY <1>1, SMT
<1>7. PICK p, q, r, s \in {0, 1} :
         p = l % 2 /\ q = (l \div 4) % 2 /\ r = (l \div 8) % 2 /\ s = (h \div 8) % 2
  BY SMT
<1>8. /\ Xor(n, 16 * 0 + 0) = 16 * h + l
      /\ Xor(n, 16 * 8 + 1) = 16 * (h + 8 - 16 * s) + (l + 1 - 2 * p)
      /\ Xor(n, 16 * 8 + 4) = 16 * (h + 8 - 16 * s) + (l + 4 - 8 * q)
      /\ Xor(n, 16 * 0 + 8) = 16 * h + (l + 8 - 16 * r)
  BY <1>4, <1>5, <1>7, Zenon
<1>9. PICK k : k = n
  OBVIOUS
<1>10. /\ k = 16 * h + l
      /\ k + 129 - 2 * p - 256 * s = 16 * (h + 8 - 16 * s) + (l + 1 - 2 * p)
      /\ k + 132 - 8 * q - 256 * s = 16 * (h + 8 - 16 * s) + (l + 4 - 8 * q)
      /\ k + 8 - 16 * r = 16 * h + (l + 8 - 16 * r)
  BY <1>1, <1>9, SMT
<1>11. /\ Xor(n, 16 * 0 + 0) = n
       /\ Xor(n, 16 * 8 + 1) = n + 129 - 2 * p - 256 * s
       /\ Xor(n, 16 * 8 + 4) = n + 132 - 8 * q - 256 * s
       /\ Xor(n, 16 * 0 + 8) = n + 8 - 16 * r
  BY <1>8, <1>9, <1>10
<1> QED BY <1>3, <1>6, <1>7, <1>11

(* One bit of the division.                                                *)
LEMMA HalvedIs ==
  ASSUME NEW r, NEW poly
  PROVE  /\ r % 2 = 0 => Halved(r, poly) = r \div 2
         /\ r % 2 # 0 => Halved(r, poly) = Xor16(r \div 2, poly)
BY Zenon DEF Halved

(* One step of the division, by each polynomial: the bits that are turned  *)
(* over when a one is carried out.                                         *)
LEMMA HeadHalves ==
  ASSUME NEW r \in Nat, r < 256
  PROVE  Halved(r, HeadPoly) =
           IF r % 2 = 0 THEN r \div 2 ELSE r \div 2 + 129 - 2 * ((r \div 2) % 2)
<1>1. PICK q \in Octet : q = r \div 2 /\ q < 128
  BY SMT DEF Octet
<1>2. CASE r % 2 = 0
  BY <1>2, HalvedIs
<1>3. CASE r % 2 # 0
  <2>1. q \div 256 = 0 /\ q % 256 = q /\ 129 \div 256 = 0 /\ 129 % 256 = 129
        /\ (q \div 128) % 2 = 0 /\ 0 \in Octet /\ q % 2 \in Int
    BY <1>1, SMT DEF Octet
  <2>2. Halved(r, 129) = 256 * Xor(0, 0) + Xor(q, 129)
    BY <1>1, <1>3, <2>1 DEF Halved, Xor16
  <2>3. /\ Xor(0, 0) = 0
        /\ Xor(q, 129) = q + 129 - 2 * (q % 2) - 256 * ((q \div 128) % 2)
    BY <2>1, XorWith
  <2>4. Halved(r, 129) = q + 129 - 2 * (q % 2)
    <3>1. PICK x \in Int : x = q % 2
      BY <2>1
    <3>2. PICK y : y = Xor(q, 129)
      OBVIOUS
    <3>3. y = q + 129 - 2 * x - 256 * 0
      BY <2>1, <2>3, <3>1, <3>2
    <3>4. Halved(r, 129) = 256 * 0 + y
      BY <2>2, <2>3, <3>2
    <3>5. 256 * 0 + y = q + 129 - 2 * x
      BY <3>3 DEF Octet
    <3> QED BY <3>1, <3>4, <3>5
  <2> QED BY <1>1, <1>3, <2>4 DEF HeadPoly
<1> QED BY <1>2, <1>3

LEMMA DataHalves ==
  ASSUME NEW r \in Nat, r < 65536
  PROVE  Halved(r, DataPoly) =
           IF r % 2 = 0 THEN r \div 2
           ELSE r \div 2 + 33800 - 16 * ((r \div 16) % 2) - 2048 * ((r \div 2048) % 2)
<1>1. PICK h, l \in Octet : /\ r \div 2 = 256 * h + l /\ h < 128
                            /\ h = (r \div 2) \div 256 /\ l = (r \div 2) % 256
  <2>1. PICK q \in Nat : q = r \div 2 /\ q < 32768
    BY SMT
  <2>2. PICK h, l \in Nat : h = q \div 256 /\ l = q % 256 /\ q = 256 * h + l
    BY SMT
  <2>3. h < 128 /\ l < 256
    BY <2>1, <2>2, SMT
  <2>4. h \in Octet /\ l \in Octet
    BY <2>3, SMT DEF Octet
  <2> QED BY <2>1, <2>2, <2>3, <2>4
<1>2. CASE r % 2 = 0
  <2>1. \A poly : Halved(r, poly) = r \div 2
    BY <1>2, HalvedIs
  <2> QED BY <1>2, <2>1
<1>3. CASE r % 2 # 0
  <2>1. 33800 \div 256 = 132 /\ 33800 % 256 = 8 /\ (h \div 128) % 2 = 0
    BY <1>1, SMT DEF Octet
  <2>2. Halved(r, 33800) = 256 * Xor(h, 132) + Xor(l, 8)
    BY <1>1, <1>3, <2>1 DEF Halved, Xor16
  <2>3. /\ Xor(h, 132) = h + 132 - 8 * ((h \div 4) % 2) - 256 * ((h \div 128) % 2)
        /\ Xor(l, 8) = l + 8 - 16 * ((l \div 8) % 2)
    BY XorWith
  <2>4. (h \div 4) % 2 = (r \div 2048) % 2
    <3>1. r = 512 * h + 2 * l + 1 /\ h \in Nat /\ l \in Nat /\ l < 256
      BY <1>1, <1>3, SMT DEF Octet
    <3> QED BY <3>1, SMT
  <2>5. (l \div 8) % 2 = (r \div 16) % 2
    <3>1. r = 512 * h + 2 * l + 1 /\ h \in Nat /\ l \in Nat
      BY <1>1, <1>3, SMT DEF Octet
    <3> QED BY <3>1, SMT
  <2>6. PICK x, y \in Int : x = (r \div 16) % 2 /\ y = (r \div 2048) % 2
    BY SMT
  <2>7. PICK q \in Int : q = r \div 2 /\ q = 256 * h + l
    BY <1>1, SMT DEF Octet
  <2>8. Halved(r, 33800) = q + 33800 - 16 * x - 2048 * y
    <3>1. Xor(h, 132) = h + 132 - 8 * y /\ Xor(l, 8) = l + 8 - 16 * x
      BY <2>1, <2>3, <2>4, <2>5, <2>6 DEF Octet
    <3> QED BY <2>2, <2>7, <3>1, SMT DEF Octet
  <2> QED BY <1>3, <2>6, <2>7, <2>8 DEF DataPoly
<1> QED BY <1>2, <1>3

(* Numbers from their bits, the lowest one first.                          *)
Sum8(a, b, c, d, e, f, g, h) ==
  a + 2 * b + 4 * c + 8 * d + 16 * e + 32 * f + 64 * g + 128 * h

LEMMA EightBits ==
  ASSUME NEW n \in Octet
  PROVE  \E a, b, c, d, e, f, g, h \in {0, 1} : n = Sum8(a, b, c, d, e, f, g, h)
<1>1. n = Sum8(n % 2, (n \div 2) % 2, (n \div 4) % 2, (n \div 8) % 2,
               (n \div 16) % 2, (n \div 32) % 2, (n \div 64) % 2, (n \div 128) % 2)
  BY SMT DEF Octet, Sum8
<1>2. /\ n % 2 \in {0, 1} /\ (n \div 2) % 2 \in {0, 1} /\ (n \div 4) % 2 \in {0, 1}
      /\ (n \div 8) % 2 \in {0, 1} /\ (n \div 16) % 2 \in {0, 1}
      /\ (n \div 32) % 2 \in {0, 1} /\ (n \div 64) % 2 \in {0, 1}
      /\ (n \div 128) % 2 \in {0, 1}
  BY SMT DEF Octet
<1> QED BY <1>1, <1>2

IsParity(x, a, b) == x \in {0, 1} /\ x = (a + b) % 2
OctetIs(r, b0, b1, b2, b3, b4, b5, b6, b7) ==
  /\ b0 \in {0, 1} /\ b1 \in {0, 1} /\ b2 \in {0, 1} /\ b3 \in {0, 1}
  /\ b4 \in {0, 1} /\ b5 \in {0, 1} /\ b6 \in {0, 1} /\ b7 \in {0, 1}
  /\ r = Sum8(b0, b1, b2, b3, b4, b5, b6, b7)
WordIs(r, b0, b1, b2, b3, b4, b5, b6, b7, c0, c1, c2, c3, c4, c5, c6, c7) ==
  \E h, l : /\ r = Both(h, l)
            /\ OctetIs(l, b0, b1, b2, b3, b4, b5, b6, b7)
            /\ OctetIs(h, c0, c1, c2, c3, c4, c5, c6, c7)

LEMMA HeadShifts ==
  ASSUME NEW b0, NEW b1, NEW b2, NEW b3, NEW b4, NEW b5, NEW b6, NEW b7,
         NEW x, IsParity(x, b1, b0),
         NEW r, OctetIs(r, b0, b1, b2, b3, b4, b5, b6, b7),
         NEW t, OctetIs(t, x, b2, b3, b4, b5, b6, b7, b0)
  PROVE  Halved(r, HeadPoly) = t
<1>1. /\ b0 \in {0, 1} /\ b1 \in {0, 1} /\ b2 \in {0, 1} /\ b3 \in {0, 1}
      /\ b4 \in {0, 1} /\ b5 \in {0, 1} /\ b6 \in {0, 1} /\ b7 \in {0, 1}
      /\ x \in {0, 1} /\ x = (b1 + b0) % 2
  BY Zenon DEF OctetIs, IsParity
<1>2. r = Sum8(b0, b1, b2, b3, b4, b5, b6, b7)
  BY Zenon DEF OctetIs
<1>3. t = Sum8(x, b2, b3, b4, b5, b6, b7, b0)
  BY Zenon DEF OctetIs
<1>4. PICK q : q = Sum8(b1, b2, b3, b4, b5, b6, b7, 0)
  OBVIOUS
<1>5. r \in Nat /\ r < 256 /\ q \in Nat /\ r = b0 + 2 * q
  BY <1>1, <1>2, <1>4, SMT DEF Sum8
<1>6. r % 2 = b0 /\ r \div 2 = q /\ q % 2 = b1
  <2>1. r % 2 = b0 /\ r \div 2 = q
    BY <1>1, <1>5, SMT
  <2>2. q = b1 + 2 * (b2 + 2 * b3 + 4 * b4 + 8 * b5 + 16 * b6 + 32 * b7)
    BY <1>1, <1>4, SMT DEF Sum8
  <2> QED BY <1>1, <2>1, <2>2, SMT
<1>7. Halved(r, HeadPoly) = IF b0 = 0 THEN q ELSE q + 129 - 2 * b1
  BY <1>5, <1>6, HeadHalves
<1>8. b0 = 0 => t = q
  <2> SUFFICES ASSUME b0 = 0 PROVE t = q
    OBVIOUS
  <2>1. x = b1
    BY <1>1, SMT
  <2>2. t = q
    BY <1>1, <1>3, <1>4, <2>1, SMT DEF Sum8
  <2> QED BY <2>2
<1>9. b0 = 1 => t = q + 129 - 2 * b1
  <2> SUFFICES ASSUME b0 = 1 PROVE t = q + 129 - 2 * b1
    OBVIOUS
  <2>1. x = 1 - b1
    BY <1>1, SMT
  <2>2. t = q + 129 - 2 * b1
    BY <1>1, <1>3, <1>4, <2>1, SMT DEF Sum8
  <2> QED BY <2>2
<1>10. Halved(r, HeadPoly) = t
  BY <1>1, <1>7, <1>8, <1>9
<1> QED BY <1>10

LEMMA DataShifts ==
  ASSUME NEW b0, NEW b1, NEW b2, NEW b3, NEW b4, NEW b5, NEW b6, NEW b7,
         NEW c0, NEW c1, NEW c2, NEW c3, NEW c4, NEW c5, NEW c6, NEW c7,
         NEW x, IsParity(x, b4, b0), NEW y, IsParity(y, c3, b0),
         NEW r, WordIs(r, b0, b1, b2, b3, b4, b5, b6, b7, c0, c1, c2, c3, c4, c5, c6, c7),
         NEW t, WordIs(t, b1, b2, b3, x, b5, b6, b7, c0, c1, c2, y, c4, c5, c6, c7, b0)
  PROVE  Halved(r, DataPoly) = t
<1>1. /\ b0 \in {0, 1} /\ b1 \in {0, 1} /\ b2 \in {0, 1} /\ b3 \in {0, 1}
      /\ b4 \in {0, 1} /\ b5 \in {0, 1} /\ b6 \in {0, 1} /\ b7 \in {0, 1}
      /\ c0 \in {0, 1} /\ c1 \in {0, 1} /\ c2 \in {0, 1} /\ c3 \in {0, 1}
      /\ c4 \in {0, 1} /\ c5 \in {0, 1} /\ c6 \in {0, 1} /\ c7 \in {0, 1}
      /\ x \in {0, 1} /\ x = (b4 + b0) % 2 /\ y \in {0, 1} /\ y = (c3 + b0) % 2
  BY Zenon DEF WordIs, OctetIs, IsParity
<1>2. r = Both(Sum8(c0, c1, c2, c3, c4, c5, c6, c7), Sum8(b0, b1, b2, b3, b4, b5, b6, b7))
  BY Zenon DEF WordIs, OctetIs
<1>3. t = Both(Sum8(c1, c2, y, c4, c5, c6, c7, b0), Sum8(b1, b2, b3, x, b5, b6, b7, c0))
  BY Zenon DEF WordIs, OctetIs
<1>4. PICK q : q = Both(Sum8(c1, c2, c3, c4, c5, c6, c7, 0),
                        Sum8(b1, b2, b3, b4, b5, b6, b7, c0))
  OBVIOUS
<1>5. r \in Nat /\ r < 65536 /\ q \in Nat /\ r = b0 + 2 * q
  BY <1>1, <1>2, <1>4, SMT DEF Both, Sum8
<1>6. r % 2 = b0 /\ r \div 2 = q /\ (r \div 16) % 2 = b4 /\ (r \div 2048) % 2 = c3
  <2>1. r % 2 = b0 /\ r \div 2 = q
    BY <1>1, <1>5, SMT
  <2>2. PICK h \in Nat : h = b5 + 2 * b6 + 4 * b7 + 8 * Sum8(c0, c1, c2, c3, c4, c5, c6, c7)
    BY <1>1, SMT DEF Sum8
  <2>3. r = (b0 + 2 * b1 + 4 * b2 + 8 * b3) + 16 * (b4 + 2 * h)
    BY <1>1, <1>2, <2>2, SMT DEF Both, Sum8
  <2>4. r \div 16 = b4 + 2 * h
    BY <1>1, <2>3, SMT
  <2>5. (r \div 16) % 2 = b4
    BY <1>1, <2>4, SMT
  <2>6. PICK m \in Nat : /\ m < 2048
          /\ m = Sum8(b0, b1, b2, b3, b4, b5, b6, b7) + 256 * (c0 + 2 * c1 + 4 * c2)
    BY <1>1, SMT DEF Sum8
  <2>7. PICK u \in Nat : u = c4 + 2 * c5 + 4 * c6 + 8 * c7
    BY <1>1
  <2>8. r = m + 2048 * (c3 + 2 * u)
    BY <1>1, <1>2, <2>6, <2>7, SMT DEF Both, Sum8
  <2>9. r \div 2048 = c3 + 2 * u
    BY <1>1, <2>6, <2>8, SMT
  <2>10. (r \div 2048) % 2 = c3
    BY <1>1, <2>9, SMT
  <2> QED BY <2>1, <2>5, <2>10
<1>7. Halved(r, DataPoly) = IF b0 = 0 THEN q ELSE q + 33800 - 16 * b4 - 2048 * c3
  BY <1>5, <1>6, DataHalves
<1>8. b0 = 0 => t = q
  <2> SUFFICES ASSUME b0 = 0 PROVE t = q
    OBVIOUS
  <2>1. x = b4 /\ y = c3
    BY <1>1, SMT
  <2>2. t = q
    BY <1>1, <1>3, <1>4, <2>1, SMT DEF Both, Sum8
  <2> QED BY <2>2
<1>9. b0 = 1 => t = q + 33800 - 16 * b4 - 2048 * c3
  <2> SUFFICES ASSUME b0 = 1 PROVE t = q + 33800 - 16 * b4 - 2048 * c3
    OBVIOUS
  <2>1. x = 1 - b4 /\ y = 1 - c3
    BY <1>1, SMT
  <2>2. t = q + 33800 - 16 * b4 - 2048 * c3
    BY <1>1, <1>3, <1>4, <2>1, SMT DEF Both, Sum8
  <2> QED BY <2>2
<1>10. Halved(r, DataPoly) = t
  BY <1>1, <1>7, <1>8, <1>9
<1> QED BY <1>10

(* The entries, from the bits of their octet.                              *)
LEMMA HeadEntryBits ==
  ASSUME NEW b0 \in {0, 1}, NEW b1 \in {0, 1}, NEW b2 \in {0, 1}, NEW b3 \in {0, 1},
         NEW b4 \in {0, 1}, NEW b5 \in {0, 1}, NEW b6 \in {0, 1}, NEW b7 \in {0, 1}
  PROVE  MSTPHeaderCRC_table[1 + b0 + 2 * b1 + 4 * b2 + 8 * b3 + 16 * b4 + 32 * b5
                               + 64 * b6 + 128 * b7]
           = ((b1 + b2 + b3 + b4 + b5 + b6 + b7) % 2)
             + 2 * ((b0 + b1) % 2)
             + 4 * ((b0 + b1 + b2) % 2)
             + 8 * ((b0 + b1 + b2 + b3) % 2)
             + 16 * ((b0 + b1 + b2 + b3 + b4) % 2)
             + 32 * ((b0 + b1 + b2 + b3 + b4 + b5) % 2)
             + 64 * ((b0 + b1 + b2 + b3 + b4 + b5 + b6) % 2)
             + 128 * ((b0 + b1 + b2 + b3 + b4 + b5 + b6 + b7) % 2)
BY SMTT(600) DEF MSTPHeaderCRC_table

LEMMA DataEntryBits ==
  ASSUME NEW b0 \in {0, 1}, NEW b1 \in {0, 1}, NEW b2 \in {0, 1}, NEW b3 \in {0, 1},
         NEW b4 \in {0, 1}, NEW b5 \in {0, 1}, NEW b6 \in {0, 1}, NEW b7 \in {0, 1}
  PROVE  MSTPDataCRC_table[1 + b0 + 2 * b1 + 4 * b2 + 8 * b3 + 16 * b4 + 32 * b5
                             + 64 * b6 + 128 * b7]
           = ((b0 + b4) % 2)
             + 2 * ((b1 + b5) % 2)
             + 4 * ((b2 + b6) % 2)
             + 8 * ((b0 + b3 + b7) % 2)
             + 16 * b1 + 32 * b2 + 64 * b3
             + 128 * ((b0 + b4) % 2)
             + 256 * ((b0 + b1 + b5) % 2)
             + 512 * ((b1 + b2 + b6) % 2)
             + 1024 * ((b2 + b3 + b7) % 2)
             + 2048 * b3
             + 4096 * ((b0 + b4) % 2)
             + 8192 * ((b1 + b5) % 2)
             + 16384 * ((b2 + b6) % 2)
             + 32768 * ((b3 + b7) % 2)
BY SMTT(600) DEF MSTPDataCRC_table

LEMMA TwoBits == \A x, y \in {0, 1} : \E z \in {0, 1} : IsParity(z, x, y)
BY SMT DEF IsParity

(* Eight steps of the division.                                            *)
LEMMA HeadEntryRight ==
  ASSUME NEW n \in Octet
  PROVE  MSTPHeaderCRC_table[n + 1] = Remainder(n, HeadPoly)
<1>1. PICK b0, b1, b2, b3, b4, b5, b6, b7 \in {0, 1} : n = Sum8(b0, b1, b2, b3, b4, b5, b6, b7)
  BY EightBits
<1>2. PICK p1 \in {0, 1} : IsParity(p1, b1, b0)
  BY TwoBits, Zenon
<1>3. PICK p2 \in {0, 1} : IsParity(p2, b2, p1)
  BY TwoBits, Zenon
<1>4. PICK p3 \in {0, 1} : IsParity(p3, b3, p2)
  BY TwoBits, Zenon
<1>5. PICK p4 \in {0, 1} : IsParity(p4, b4, p3)
  BY TwoBits, Zenon
<1>6. PICK p5 \in {0, 1} : IsParity(p5, b5, p4)
  BY TwoBits, Zenon
<1>7. PICK p6 \in {0, 1} : IsParity(p6, b6, p5)
  BY TwoBits, Zenon
<1>8. PICK p7 \in {0, 1} : IsParity(p7, b7, p6)
  BY TwoBits, Zenon
<1>9. PICK p8 \in {0, 1} : IsParity(p8, b0, p7)
  BY TwoBits, Zenon
<1>10. PICK r0 : OctetIs(r0, b0, b1, b2, b3, b4, b5, b6, b7)
  BY Zenon DEF IsParity, OctetIs
<1>11. PICK r1 : OctetIs(r1, p1, b2, b3, b4, b5, b6, b7, b0)
  BY <1>2, Zenon DEF IsParity, OctetIs
<1>12. PICK r2 : OctetIs(r2, p2, b3, b4, b5, b6, b7, b0, p1)
  BY <1>2, <1>3, Zenon DEF IsParity, OctetIs
<1>13. PICK r3 : OctetIs(r3, p3, b4, b5, b6, b7, b0, p1, p2)
  BY <1>2, <1>3, <1>4, Zenon DEF IsParity, OctetIs
<1>14. PICK r4 : OctetIs(r4, p4, b5, b6, b7, b0, p1, p2, p3)
  BY <1>2, <1>3, <1>4, <1>5, Zenon DEF IsParity, OctetIs
<1>15. PICK r5 : OctetIs(r5, p5, b6, b7, b0, p1, p2, p3, p4)
  BY <1>2, <1>3, <1>4, <1>5, <1>6, Zenon DEF IsParity, OctetIs
<1>16. PICK r6 : OctetIs(r6, p6, b7, b0, p1, p2, p3, p4, p5)
  BY <1>2, <1>3, <1>4, <1>5, <1>6, <1>7, Zenon DEF IsParity, OctetIs
<1>17. PICK r7 : OctetIs(r7, p7, b0, p1, p2, p3, p4, p5, p6)
  BY <1>2, <1>3, <1>4, <1>5, <1>6, <1>7, <1>8, Zenon DEF IsParity, OctetIs
<1>18. PICK r8 : OctetIs(r8, p8, p1, p2, p3, p4, p5, p6, p7)
  BY <1>2, <1>3, <1>4, <1>5, <1>6, <1>7, <1>8, <1>9, Zenon DEF IsParity, OctetIs
<1>19. Halved(r0, HeadPoly) = r1
  BY <1>2, <1>10, <1>11, HeadShifts
<1>20. Halved(r1, HeadPoly) = r2
  BY <1>3, <1>11, <1>12, HeadShifts
<1>21. Halved(r2, HeadPoly) = r3
  BY <1>4, <1>12, <1>13, HeadShifts
<1>22. Halved(r3, HeadPoly) = r4
  BY <1>5, <1>13, <1>14, HeadShifts
<1>23. Halved(r4, HeadPoly) = r5
  BY <1>6, <1>14, <1>15, HeadShifts
<1>24. Halved(r5, HeadPoly) = r6
  BY <1>7, <1>15, <1>16, HeadShifts
<1>25. Halved(r6, HeadPoly) = r7
  BY <1>8, <1>16, <1>17, HeadShifts
<1>26. Halved(r7, HeadPoly) = r8
  BY <1>9, <1>17, <1>18, HeadShifts
<1>27. n = r0
  BY <1>1, <1>10, Zenon DEF OctetIs
<1>28. Remainder(n, HeadPoly) = r8
  BY <1>19, <1>20, <1>21, <1>22, <1>23, <1>24, <1>25, <1>26, <1>27, Zenon DEF Remainder
<1>29. p1 = (b0 + b1) % 2
  BY <1>2, SMT DEF IsParity
<1>30. p2 = (b0 + b1 + b2) % 2
  BY <1>3, <1>29, SMT DEF IsParity
<1>31. p3 = (b0 + b1 + b2 + b3) % 2
  BY <1>4, <1>30, SMT DEF IsParity
<1>32. p4 = (b0 + b1 + b2 + b3 + b4) % 2
  BY <1>5, <1>31, SMT DEF IsParity
<1>33. p5 = (b0 + b1 + b2 + b3 + b4 + b5) % 2
  BY <1>6, <1>32, SMT DEF IsParity
<1>34. p6 = (b0 + b1 + b2 + b3 + b4 + b5 + b6) % 2
  BY <1>7, <1>33, SMT DEF IsParity
<1>35. p7 = (b0 + b1 + b2 + b3 + b4 + b5 + b6 + b7) % 2
  BY <1>8, <1>34, SMT DEF IsParity
<1>36. p8 = (b1 + b2 + b3 + b4 + b5 + b6 + b7) % 2
  BY <1>9, <1>35, SMT DEF IsParity
<1>37. n + 1 = 1 + b0 + 2 * b1 + 4 * b2 + 8 * b3 + 16 * b4 + 32 * b5 + 64 * b6 + 128 * b7
  BY <1>1, SMT DEF Sum8
<1>38. MSTPHeaderCRC_table[n + 1]
         = p8 + 2 * p1 + 4 * p2 + 8 * p3 + 16 * p4 + 32 * p5 + 64 * p6 + 128 * p7
  BY <1>29, <1>30, <1>31, <1>32, <1>33, <1>34, <1>35, <1>36, <1>37, HeadEntryBits
<1>39. r8 = p8 + 2 * p1 + 4 * p2 + 8 * p3 + 16 * p4 + 32 * p5 + 64 * p6 + 128 * p7
  BY <1>18, ZenonT(60) DEF OctetIs, Sum8
<1> QED BY <1>28, <1>38, <1>39, Zenon

LEMMA DataEntryRight ==
  ASSUME NEW n \in Octet
  PROVE  MSTPDataCRC_table[n + 1] = Remainder(n, DataPoly)
<1>1. PICK b0, b1, b2, b3, b4, b5, b6, b7 \in {0, 1} : n = Sum8(b0, b1, b2, b3, b4, b5, b6, b7)
  BY EightBits
<1>2. PICK c4 \in {0, 1} : IsParity(c4, b4, b0)
  BY TwoBits, Zenon
<1>3. PICK c5 \in {0, 1} : IsParity(c5, b5, b1)
  BY TwoBits, Zenon
<1>4. PICK c6 \in {0, 1} : IsParity(c6, b6, b2)
  BY TwoBits, Zenon
<1>5. PICK c7 \in {0, 1} : IsParity(c7, b7, b3)
  BY TwoBits, Zenon
<1>6. PICK e0 \in {0, 1} : IsParity(e0, b0, c5)
  BY TwoBits, Zenon
<1>7. PICK e1 \in {0, 1} : IsParity(e1, b1, c6)
  BY TwoBits, Zenon
<1>8. PICK e2 \in {0, 1} : IsParity(e2, b2, c7)
  BY TwoBits, Zenon
<1>9. PICK e3 \in {0, 1} : IsParity(e3, b0, c7)
  BY TwoBits, Zenon
<1>10. 0 \in {0, 1} /\ \A z \in {0, 1} : IsParity(z, 0, z)
  BY SMT DEF IsParity
<1>11. PICK r0 :
  WordIs(r0, b0, b1, b2, b3, b4, b5, b6, b7,
             0, 0, 0, 0, 0, 0, 0, 0)
  BY <1>2, <1>3, <1>4, <1>5, <1>6, <1>7, <1>8, <1>9, <1>10, Zenon DEF IsParity, OctetIs, WordIs
<1>12. PICK r1 :
  WordIs(r1, b1, b2, b3, c4, b5, b6, b7, 0,
             0, 0, b0, 0, 0, 0, 0, b0)
  BY <1>2, <1>3, <1>4, <1>5, <1>6, <1>7, <1>8, <1>9, <1>10, Zenon DEF IsParity, OctetIs, WordIs
<1>13. PICK r2 :
  WordIs(r2, b2, b3, c4, c5, b6, b7, 0, 0,
             0, b0, b1, 0, 0, 0, b0, b1)
  BY <1>2, <1>3, <1>4, <1>5, <1>6, <1>7, <1>8, <1>9, <1>10, Zenon DEF IsParity, OctetIs, WordIs
<1>14. PICK r3 :
  WordIs(r3, b3, c4, c5, c6, b7, 0, 0, 0,
             b0, b1, b2, 0, 0, b0, b1, b2)
  BY <1>2, <1>3, <1>4, <1>5, <1>6, <1>7, <1>8, <1>9, <1>10, Zenon DEF IsParity, OctetIs, WordIs
<1>15. PICK r4 :
  WordIs(r4, c4, c5, c6, c7, 0, 0, 0, b0,
             b1, b2, b3, 0, b0, b1, b2, b3)
  BY <1>2, <1>3, <1>4, <1>5, <1>6, <1>7, <1>8, <1>9, <1>10, Zenon DEF IsParity, OctetIs, WordIs
<1>16. PICK r5 :
  WordIs(r5, c5, c6, c7, c4, 0, 0, b0, b1,
             b2, b3, c4, b0, b1, b2, b3, c4)
  BY <1>2, <1>3, <1>4, <1>5, <1>6, <1>7, <1>8, <1>9, <1>10, Zenon DEF IsParity, OctetIs, WordIs
<1>17. PICK r6 :
  WordIs(r6, c6, c7, c4, c5, 0, b0, b1, b2,
             b3, c4, e0, b1, b2, b3, c4, c5)
  BY <1>2, <1>3, <1>4, <1>5, <1>6, <1>7, <1>8, <1>9, <1>10, Zenon DEF IsParity, OctetIs, WordIs
<1>18. PICK r7 :
  WordIs(r7, c7, c4, c5, c6, b0, b1, b2, b3,
             c4, e0, e1, b2, b3, c4, c5, c6)
  BY <1>2, <1>3, <1>4, <1>5, <1>6, <1>7, <1>8, <1>9, <1>10, Zenon DEF IsParity, OctetIs, WordIs
<1>19. PICK r8 :
  WordIs(r8, c4, c5, c6, e3, b1, b2, b3, c4,
             e0, e1, e2, b3, c4, c5, c6, c7)
  BY <1>2, <1>3, <1>4, <1>5, <1>6, <1>7, <1>8, <1>9, <1>10, Zenon DEF IsParity, OctetIs, WordIs
<1>20. Halved(r0, DataPoly) = r1
  BY <1>11, <1>12, <1>10, <1>2, DataShifts
<1>21. Halved(r1, DataPoly) = r2
  BY <1>12, <1>13, <1>10, <1>3, DataShifts
<1>22. Halved(r2, DataPoly) = r3
  BY <1>13, <1>14, <1>10, <1>4, DataShifts
<1>23. Halved(r3, DataPoly) = r4
  BY <1>14, <1>15, <1>10, <1>5, DataShifts
<1>24. Halved(r4, DataPoly) = r5
  BY <1>15, <1>16, <1>10, DataShifts
<1>25. Halved(r5, DataPoly) = r6
  BY <1>16, <1>17, <1>10, <1>6, DataShifts
<1>26. Halved(r6, DataPoly) = r7
  BY <1>17, <1>18, <1>10, <1>7, DataShifts
<1>27. Halved(r7, DataPoly) = r8
  BY <1>18, <1>19, <1>10, <1>9, <1>8, DataShifts
<1>28. n = r0
  <2>1. n = Both(Sum8(0, 0, 0, 0, 0, 0, 0, 0),
       Sum8(b0, b1, b2, b3, b4, b5, b6, b7))
    BY <1>1, SMT DEF Sum8, Both
  <2> QED BY <1>11, <2>1, Zenon DEF WordIs, OctetIs
<1>29. Remainder(n, DataPoly) = r8
  BY <1>20, <1>21, <1>22, <1>23, <1>24, <1>25, <1>26, <1>27, <1>28, Zenon DEF Remainder
<1>30. /\ c4 = (b0 + b4) % 2 /\ c5 = (b1 + b5) % 2 /\ c6 = (b2 + b6) % 2
       /\ c7 = (b3 + b7) % 2
  BY <1>2, <1>3, <1>4, <1>5, SMT DEF IsParity
<1>31. /\ e0 = (b0 + b1 + b5) % 2 /\ e1 = (b1 + b2 + b6) % 2
       /\ e2 = (b2 + b3 + b7) % 2 /\ e3 = (b0 + b3 + b7) % 2
  BY <1>6, <1>7, <1>8, <1>9, <1>30, SMT DEF IsParity
<1>32. n + 1 = 1 + b0 + 2 * b1 + 4 * b2 + 8 * b3 + 16 * b4 + 32 * b5 + 64 * b6 + 128 * b7
  BY <1>1, SMT DEF Sum8
<1>33. MSTPDataCRC_table[n + 1] =
         c4 + 2 * c5 + 4 * c6 + 8 * e3 + 16 * b1 + 32 * b2 + 64 * b3 + 128
         * c4 + 256 * e0 + 512 * e1 + 1024 * e2 + 2048 * b3 + 4096 * c4 +
         8192 * c5 + 16384 * c6 + 32768 * c7
  BY <1>30, <1>31, <1>32, DataEntryBits
<1>34. r8 = Both(Sum8(e0, e1, e2, b3, c4, c5, c6, c7),
       Sum8(c4, c5, c6, e3, b1, b2, b3, c4))
  BY <1>19, Zenon DEF WordIs, OctetIs
<1>35. r8 =
         c4 + 2 * c5 + 4 * c6 + 8 * e3 + 16 * b1 + 32 * b2 + 64 * b3 + 128
         * c4 + 256 * e0 + 512 * e1 + 1024 * e2 + 2048 * b3 + 4096 * c4 +
         8192 * c5 + 16384 * c6 + 32768 * c7
  BY <1>2, <1>3, <1>4, <1>5, <1>6, <1>7, <1>8, <1>9, <1>34, SMT DEF Sum8, Both, IsParity
<1> QED BY <1>29, <1>33, <1>35

(* What the tables are made of is what they hold.                          *)
LEMMA HeadTableRight == \A n \in Octet : HeadRemainder[n] = MSTPHeaderCRC_table[n + 1]
<1>1. ASSUME NEW n \in Octet PROVE HeadRemainder[n] = Remainder(n, HeadPoly)
  BY DEF HeadRemainder, Octet
<1> QED BY <1>1, HeadEntryRight, Zenon

LEMMA DataTableRight == \A n \in Octet : DataRemainder[n] = DataEntry(n)
<1>1. ASSUME NEW n \in Octet PROVE DataRemainder[n] = Remainder(n, DataPoly)
  BY DEF DataRemainder, Octet
<1> QED BY <1>1, DataEntryRight, Zenon DEF DataEntry

(* A step by the table is a step by the polynomial.                        *)
LEMMA HeadStepRight ==
  HeadStep = [c \in 0 .. 255 |-> [crc \in 0 .. 255 |-> HeadRemainder[Xor(c, crc)]]]
<1>1. ASSUME NEW c \in Octet, NEW crc \in Octet
      PROVE  CRC_Calc_Header(c, crc) = HeadRemainder[Xor(c, crc)]
  BY XorOctet, HeadTableRight, Zenon DEF CRC_Calc_Header
<1> QED BY <1>1 DEF HeadStep, Octet

LEMMA XorFromZero ==
  ASSUME NEW n \in Octet PROVE Xor(0, n) = n
<1>1. 0 \in Octet
  BY DEF Octet
<1> QED BY <1>1, XorWith, XorSwaps

LEMMA DataStepRight ==
  DataStep = [c \in 0 .. 255 |-> [crc \in Bits16 |->
                Xor16(crc \div 256, DataRemainder[Xor(c, crc % 256)])]]
<1>1. ASSUME NEW c \in Octet, NEW crc \in Bits16
      PROVE  CRC_Calc_Data(c, crc) = Xor16(crc \div 256, DataRemainder[Xor(c, crc % 256)])
  <2>1. PICK h \in Octet : h = crc \div 256
    BY HighLow
  <2>2. PICK e \in Bits16 : e = EntryFor(c, crc)
    BY EntryForType
  <2>3. DataRemainder[Xor(c, crc % 256)] = e
    <3>1. Xor(c, Low(crc)) \in Octet
      BY EntryForType
    <3> QED BY <2>2, <3>1, DataTableRight, Zenon DEF EntryFor, Low
  <2>4. PICK p, q \in Octet : p = High(e) /\ q = Low(e)
    BY BothParts
  <2>5. CRC_Calc_Data(c, crc) = Both(p, Xor(h, q))
    <3>1. h = High(crc)
      BY <2>1 DEF High
    <3> QED BY <2>2, <2>4, <3>1, DataStepIs, Zenon
  <2>6. h \div 256 = 0 /\ h % 256 = h
    BY SMT DEF Octet
  <2>7. Xor16(h, e) = Both(Xor(0, p), Xor(h, q))
    BY <2>4, <2>6, ZenonT(60) DEF Xor16, Both, High, Low
  <2> QED BY <2>1, <2>3, <2>5, <2>7, XorFromZero, Zenon
<1> QED BY <1>1 DEF DataStep, Octet

(* One more octet is one more step.                                        *)
LEMMA ThroughOneMore ==
  ASSUME NEW V, NEW first \in V, NEW octets \in Seq(Octet), NEW c \in Octet,
         NEW next \in [Octet -> [V -> V]]
  PROVE  Through(first, Append(octets, c), next) = next[c][Through(first, octets, next)]
<1>1. PICK N \in Nat : N = Len(octets)
  OBVIOUS
<1>2. PICK more \in Seq(Octet) : more = Append(octets, c)
  <2>1. Append(octets, c) \in Seq(Octet)
    BY Zenon, AppendProperties
  <2> QED BY <2>1, Zenon
<1>3. PICK M \in Nat : M = Len(more) /\ M = N + 1 /\ M # 0 /\ M - 1 = N
  BY <1>1, <1>2
<1>4. more[M] = c /\ \A n \in 1 .. N : more[n] = octets[n]
  BY <1>1, <1>2, <1>3
<1>5. PICK g \in [0 .. N -> V] :
        IsRun(g, first, octets, next, N) /\ Through(first, octets, next) = g[N]
  <2>1. IsComputed(V, first, octets, next)
    BY ThroughRun, Zenon
  <2> QED BY <1>1, <2>1, Zenon DEF IsComputed
<1>6. PICK h \in [0 .. M -> V] :
        IsRun(h, first, more, next, M) /\ Through(first, more, next) = h[M]
  <2>1. IsComputed(V, first, more, next)
    BY ThroughRun, Zenon
  <2> QED BY <1>3, <2>1, Zenon DEF IsComputed
<1> DEFINE S == {n \in Nat : n <= N => g[n] = h[n]}
<1>7. 0 \in S
  <2>1. 0 \in 0 .. N /\ 0 \in 0 .. M
    BY <1>3
  <2>2. g[0] = first /\ h[0] = first
    BY <1>5, <1>6, <2>1, Zenon DEF IsRun
  <2> QED BY <2>2
<1>8. ASSUME NEW n \in S PROVE n + 1 \in S
  <2> SUFFICES ASSUME n + 1 <= N PROVE g[n + 1] = h[n + 1]
    OBVIOUS
  <2>1. PICK m \in 1 .. N : m = n + 1
    OBVIOUS
  <2>2. m \in 0 .. N /\ m \in 0 .. M /\ m # 0 /\ m - 1 = n /\ n <= N
    BY <1>3, <2>1
  <2>3. g[n] = h[n]
    BY <2>2
  <2> HIDE DEF S
  <2>4. g[m] = next[octets[m]][g[n]] /\ h[m] = next[more[m]][h[n]]
    BY <1>5, <1>6, <2>2, Zenon DEF IsRun
  <2> QED BY <1>4, <2>1, <2>3, <2>4, Zenon
<1>9. S = Nat
  <2> HIDE DEF S
  <2>1. S \in SUBSET Nat
    BY DEF S
  <2> QED BY <1>7, <1>8, <2>1, Upwards
<1>10. g[N] = h[N]
  <2>1. N \in S /\ N <= N
    BY <1>9, SMTT(60)
  <2> QED BY <2>1
<1>11. h[M] = next[c][h[N]]
  <2>1. M \in 0 .. M
    OBVIOUS
  <2> QED BY <1>3, <1>4, <1>6, <2>1, Zenon DEF IsRun
<1> QED BY <1>2, <1>5, <1>6, <1>10, <1>11, Zenon

(* What an octet and its complement leave.                                 *)
LEMMA DigitComplement ==
  ASSUME NEW i \in 0 .. 15, NEW k \in 0 .. 15
  PROVE  XorDigit[15 - i][XorDigit[i][k]] = 15 - k
<1>1. PICK a, b, c, d \in {0, 1} :
        /\ a = Bit(i, 0) /\ b = Bit(i, 1) /\ c = Bit(i, 2) /\ d = Bit(i, 3)
        /\ i = a + 2 * b + 4 * c + 8 * d
  BY FourBits
<1>2. PICK p, q, r, s \in {0, 1} :
        /\ p = Bit(k, 0) /\ q = Bit(k, 1) /\ r = Bit(k, 2) /\ s = Bit(k, 3)
        /\ k = p + 2 * q + 4 * r + 8 * s
  BY FourBits
<1>3. \A x, y \in {0, 1} : /\ (x + y) % 2 \in {0, 1} /\ 1 - x \in {0, 1}
                           /\ ((1 - x) + ((x + y) % 2)) % 2 = 1 - y
  BY SMT
<1>4. PICK e, f, g, h \in {0, 1} :
        /\ e = (a + p) % 2 /\ f = (b + q) % 2 /\ g = (c + r) % 2 /\ h = (d + s) % 2
  BY <1>3
<1>5. PICK j \in 0 .. 15 : j = XorDigit[i][k] /\ j = BitsOf(e, f, g, h)
  BY <1>1, <1>2, <1>4, XorOfBits, DigitOfDigits, Zenon
<1>6. PICK t, u, v, w \in {0, 1} : t = 1 - a /\ u = 1 - b /\ v = 1 - c /\ w = 1 - d
  BY <1>3
<1>7. PICK z \in 0 .. 15 : z = 15 - i /\ z = BitsOf(t, u, v, w)
  <2>1. 15 - i \in 0 .. 15
    OBVIOUS
  <2>2. 15 - (a + 2 * b + 4 * c + 8 * d) = t + 2 * u + 4 * v + 8 * w
    BY <1>6
  <2>3. 15 - i = BitsOf(t, u, v, w)
    BY <1>1, <2>2, Zenon DEF BitsOf
  <2> QED BY <2>1, <2>3, Zenon
<1>8. Bit(j, 0) = e /\ Bit(j, 1) = f /\ Bit(j, 2) = g /\ Bit(j, 3) = h
  BY <1>5, BitsKnown
<1>9. Bit(z, 0) = t /\ Bit(z, 1) = u /\ Bit(z, 2) = v /\ Bit(z, 3) = w
  BY <1>7, BitsKnown
<1>10. XorDigit[z][j] = BitsOf((t + e) % 2, (u + f) % 2, (v + g) % 2, (w + h) % 2)
  BY <1>8, <1>9, XorOfBits, Zenon
<1>11. /\ (t + e) % 2 = 1 - p /\ (u + f) % 2 = 1 - q
       /\ (v + g) % 2 = 1 - r /\ (w + h) % 2 = 1 - s
  <2>1. (t + e) % 2 = 1 - p
    BY <1>4, <1>6, SMT
  <2>2. (u + f) % 2 = 1 - q
    BY <1>4, <1>6, SMT
  <2>3. (v + g) % 2 = 1 - r
    BY <1>4, <1>6, SMT
  <2>4. (w + h) % 2 = 1 - s
    BY <1>4, <1>6, SMT
  <2> QED BY <2>1, <2>2, <2>3, <2>4
<1>12. BitsOf(1 - p, 1 - q, 1 - r, 1 - s) = 15 - k
  BY <1>2, SMT DEF BitsOf
<1> QED BY <1>5, <1>7, <1>10, <1>11, <1>12, Zenon

LEMMA XorComplement ==
  ASSUME NEW m \in Octet, NEW n \in Octet
  PROVE  255 - m \in Octet /\ Xor(255 - m, Xor(m, n)) = 255 - n
<1>1. PICK h, l \in 0 .. 15 : h = m \div 16 /\ l = m % 16 /\ m = 16 * h + l
  BY SMT DEF Octet
<1>2. PICK i, k \in 0 .. 15 : i = n \div 16 /\ k = n % 16 /\ n = 16 * i + k
  BY SMT DEF Octet
<1>3. PICK a, b \in 0 .. 15 : a = XorDigit[h][i] /\ b = XorDigit[l][k]
  BY DigitOfDigits
<1>4. PICK c, d \in 0 .. 15 : c = 15 - h /\ d = 15 - l
  OBVIOUS
<1>5. Xor(m, n) = 16 * a + b
  BY <1>1, <1>2, <1>3, Zenon DEF Xor
<1>6. 255 - m = 16 * c + d
  BY <1>1, <1>4, SMT
<1>7. Xor(16 * c + d, 16 * a + b) = 16 * XorDigit[c][a] + XorDigit[d][b]
  <2>1. \A x, y \in 0 .. 15 :
          Xor(16 * c + d, 16 * x + y) = 16 * XorDigit[c][x] + XorDigit[d][y]
    BY XorDigits
  <2> QED BY <2>1, Zenon
<1>8. XorDigit[c][a] = 15 - i /\ XorDigit[d][b] = 15 - k
  BY <1>3, <1>4, DigitComplement, Zenon
<1>9. 16 * (15 - i) + (15 - k) = 255 - n /\ 16 * c + d \in Octet
  BY <1>2, SMT DEF Octet
<1> QED BY <1>5, <1>6, <1>7, <1>8, <1>9

LEMMA XorItsComplement ==
  ASSUME NEW m \in Octet
  PROVE  Xor(255 - m, m) = 255
<1>1. 0 \in Octet
  BY DEF Octet
<1>2. Xor(m, 0) = m
  BY XorWith
<1>3. Xor(255 - m, Xor(m, 0)) = 255 - 0
  BY <1>1, XorComplement
<1> QED BY <1>2, <1>3

(* The octets and behind them their check sum leave one remainder, whatever*)
(* the octets are: the last entry looked up is always the same.            *)
LEMMA HeadLeaves ==
  ASSUME NEW d \in Seq(Octet), NEW c, c = HeadCrc(d)
  PROVE  HeadResidue(Append(d, c)) = 85
<1>1. HeadStep \in [Octet -> [Octet -> Octet]]
  BY HeadStepType
<1>2. PICK m \in Octet : m = 255
  BY DEF Octet
<1>3. PICK v \in Octet : v = Through(m, d, HeadStep)
  BY <1>1, ThroughType, Zenon
<1>4. c = m - v
  BY <1>2, <1>3 DEF HeadCrc, HeadStep
<1>5. c \in Octet /\ Xor(c, v) = m
  BY <1>2, <1>4, XorComplement, XorItsComplement
<1>6. Through(m, Append(d, c), HeadStep) = HeadStep[c][v]
  <2>1. c \in Octet
    BY <1>5
  <2>2. Through(m, Append(d, c), HeadStep) = HeadStep[c][Through(m, d, HeadStep)]
    BY <1>1, <2>1, ThroughOneMore
  <2> QED BY <1>3, <2>2
<1>7. HeadStep[c][v] = MSTPHeaderCRC_table[m + 1]
  <2>1. HeadStep[c][v] = CRC_Calc_Header(c, v)
    BY <1>5, HeadStepType
  <2> QED BY <1>5, <2>1, Zenon DEF CRC_Calc_Header
<1>8. MSTPHeaderCRC_table[m + 1] = 85
  <2>1. MSTPHeaderCRC_table[256] = 85
    BY SMTT(100) DEF MSTPHeaderCRC_table
  <2> QED BY <1>2, <2>1
<1>9. HeadResidue(Append(d, c)) = Through(m, Append(d, c), HeadStep)
  BY <1>2, HeadStepRight DEF HeadResidue
<1> QED BY <1>6, <1>7, <1>8, <1>9

(* The last two entries that are looked up, and their octets.              *)
LEMMA LastEntries ==
  /\ 255 \in Octet /\ DataEntry(255) = Both(15, 120)
  /\ 135 \in Octet /\ DataEntry(135) = Both(240, 183)
<1>1. MSTPDataCRC_table[256] = 3960 /\ MSTPDataCRC_table[136] = 61623
  BY SMTT(100) DEF MSTPDataCRC_table
<1>2. 255 + 1 = 256 /\ 135 + 1 = 136 /\ 256 * 15 + 120 = 3960 /\ 256 * 240 + 183 = 61623
  OBVIOUS
<1> QED BY <1>1, <1>2 DEF DataEntry, Both, Octet

(* What the last two entries have in common in the lower octet.            *)
LEMMA LastXor == Xor(15, 183) = 184
<1>1. /\ 0 = BitsOf(0, 0, 0, 0) /\ 15 = BitsOf(1, 1, 1, 1)
      /\ 11 = BitsOf(1, 1, 0, 1) /\ 7 = BitsOf(1, 1, 1, 0)
      /\ 0 \in 0 .. 15 /\ 15 \in 0 .. 15 /\ 11 \in 0 .. 15 /\ 7 \in 0 .. 15
      /\ 0 \in {0, 1} /\ 1 \in {0, 1}
  BY DEF BitsOf
<1>2. /\ Bit(0, 0) = 0 /\ Bit(0, 1) = 0 /\ Bit(0, 2) = 0 /\ Bit(0, 3) = 0
      /\ Bit(15, 0) = 1 /\ Bit(15, 1) = 1 /\ Bit(15, 2) = 1 /\ Bit(15, 3) = 1
  BY <1>1, BitsKnown, Zenon
<1>3. /\ Bit(11, 0) = 1 /\ Bit(11, 1) = 1 /\ Bit(11, 2) = 0 /\ Bit(11, 3) = 1
      /\ Bit(7, 0) = 1 /\ Bit(7, 1) = 1 /\ Bit(7, 2) = 1 /\ Bit(7, 3) = 0
  BY <1>1, BitsKnown, Zenon
<1>4. XorDigit[0][11] = 11
  <2>1. XorDigit[0][11] = BitsOf((Bit(0, 0) + Bit(11, 0)) % 2, (Bit(0, 1) + Bit(11, 1)) % 2,
                                 (Bit(0, 2) + Bit(11, 2)) % 2, (Bit(0, 3) + Bit(11, 3)) % 2)
    BY <1>1, XorOfBits
  <2>2. XorDigit[0][11] = BitsOf((0 + 1) % 2, (0 + 1) % 2, (0 + 0) % 2, (0 + 1) % 2)
    BY <1>2, <1>3, <2>1
  <2> QED BY <2>2, SMT DEF BitsOf
<1>5. XorDigit[15][7] = 8
  <2>1. XorDigit[15][7] = BitsOf((Bit(15, 0) + Bit(7, 0)) % 2, (Bit(15, 1) + Bit(7, 1)) % 2,
                                 (Bit(15, 2) + Bit(7, 2)) % 2, (Bit(15, 3) + Bit(7, 3)) % 2)
    BY <1>1, XorOfBits
  <2>2. XorDigit[15][7] = BitsOf((1 + 1) % 2, (1 + 1) % 2, (1 + 1) % 2, (1 + 0) % 2)
    BY <1>2, <1>3, <2>1
  <2> QED BY <2>2, SMT DEF BitsOf
<1>6. 15 \div 16 = 0 /\ 15 % 16 = 15 /\ 183 \div 16 = 11 /\ 183 % 16 = 7
  BY SMT
<1> QED BY <1>4, <1>5, <1>6 DEF Xor

(* Sixteen bits of two octets, and the octets again.                       *)
LEMMA PartsOfBoth ==
  ASSUME NEW h \in Octet, NEW l \in Octet
  PROVE  Both(h, l) \in Bits16 /\ High(Both(h, l)) = h /\ Low(Both(h, l)) = l
<1>1. (256 * h + l) \div 256 = h /\ (256 * h + l) % 256 = l
  BY SMT DEF Octet
<1> QED BY <1>1, BothType, Zenon DEF Both, High, Low

(* The two octets of the check sum, one after the other.                   *)
LEMMA LastTwoSteps ==
  ASSUME NEW v \in Bits16, NEW a \in Octet, NEW b \in Octet,
         a = 255 - Low(v), b = 255 - High(v)
  PROVE  /\ CRC_Calc_Data(a, v) \in Bits16
         /\ CRC_Calc_Data(b, CRC_Calc_Data(a, v)) = 61624
<1>1. PICK h, l \in Octet : h = High(v) /\ l = Low(v)
  BY BothParts
<1>2. PICK e, f, s, t \in Octet : e = 15 /\ f = 120 /\ s = 240 /\ t = 183
  BY DEF Octet
<1>3. EntryFor(a, v) = Both(e, f)
  <2>1. Xor(a, l) = 255
    BY <1>1, XorItsComplement
  <2> QED BY <1>1, <1>2, <2>1, LastEntries DEF EntryFor
<1>4. PICK x \in Octet : x = Xor(h, f)
  BY XorOctet
<1>5. PICK w \in Bits16 : w = Both(e, x) /\ High(w) = e /\ Low(w) = x
  BY PartsOfBoth, Zenon
<1>6. CRC_Calc_Data(a, v) = w
  <2>1. High(Both(e, f)) = e /\ Low(Both(e, f)) = f
    BY PartsOfBoth
  <2>2. CRC_Calc_Data(a, v) = Both(e, Xor(h, f))
    BY <1>1, <1>3, <2>1, DataStepIs
  <2> QED BY <1>4, <1>5, <2>2
<1>7. EntryFor(b, w) = Both(s, t)
  <2>1. Xor(b, x) = 135
    <3>1. Xor(255 - h, Xor(h, f)) = 255 - f
      BY XorComplement
    <3>2. b = 255 - h /\ 255 - f = 135
      BY <1>1, <1>2
    <3> QED BY <1>4, <3>1, <3>2
  <2> QED BY <1>2, <1>5, <2>1, LastEntries DEF EntryFor
<1>8. CRC_Calc_Data(b, w) = Both(s, Xor(e, t))
  <2>1. High(Both(s, t)) = s /\ Low(Both(s, t)) = t
    BY PartsOfBoth
  <2> QED BY <1>5, <1>7, <2>1, DataStepIs
<1>9. Both(s, Xor(e, t)) = 61624
  BY <1>2, LastXor, SMT DEF Both
<1> QED BY <1>6, <1>8, <1>9

(* The same for the two octets of the check sum of the data.               *)
LEMMA DataLeaves ==
  ASSUME NEW d \in Seq(Octet), NEW a \in Octet, NEW b \in Octet,
         a + 256 * b = DataCrc(d)
  PROVE  DataResidue(Append(Append(d, a), b)) = 61624
<1>1. PICK m \in Bits16 : m = 65535
  <2>1. USHRT_MAX \in Nat /\ USHRT_MAX <= USHRT_MAX
    BY SMT DEF USHRT_MAX
  <2>2. USHRT_MAX \in Bits16
    BY <2>1, SixteenBits, Zenon
  <2> QED BY <2>2, SMT DEF USHRT_MAX
<1>2. DataStep \in [Octet -> [Bits16 -> Bits16]]
  BY DataStepType
<1>3. PICK v \in Bits16 : v = Through(m, d, DataStep)
  BY <1>2, ThroughType, Zenon
<1>4. DataCrc(d) = m - v
  BY <1>1, <1>3 DEF DataCrc, DataStep
<1>5. PICK h, l \in Octet : h = High(v) /\ l = Low(v) /\ v = Both(h, l)
  BY BothParts
<1>6. a = 255 - l /\ b = 255 - h
  <2>1. a + 256 * b = 65535 - (256 * h + l)
    BY <1>1, <1>4, <1>5 DEF Both
  <2>2. /\ a \in Nat /\ a <= 255 /\ b \in Nat /\ b <= 255
        /\ h \in Nat /\ h <= 255 /\ l \in Nat /\ l <= 255
    BY DEF Octet
  <2> QED BY <2>1, <2>2, SMT
<1>7. PICK w \in Bits16 : w = CRC_Calc_Data(a, v) /\ CRC_Calc_Data(b, w) = 61624
  <2>1. a = 255 - Low(v) /\ b = 255 - High(v)
    BY <1>5, <1>6
  <2> QED BY <2>1, LastTwoSteps
<1>8. PICK more \in Seq(Octet) : more = Append(d, a)
  <2>1. Append(d, a) \in Seq(Octet)
    BY Zenon, AppendProperties
  <2> QED BY <2>1, Zenon
<1>9. Through(m, more, DataStep) = w
  <2>1. Through(m, more, DataStep) = DataStep[a][v]
    <3>1. Through(m, Append(d, a), DataStep) = DataStep[a][Through(m, d, DataStep)]
      BY <1>2, ThroughOneMore
    <3> QED BY <1>3, <1>8, <3>1
  <2>2. DataStep[a][v] = CRC_Calc_Data(a, v)
    BY DataStepType
  <2> QED BY <1>7, <2>1, <2>2
<1>10. Through(m, Append(more, b), DataStep) = DataStep[b][w]
  <2>1. Through(m, Append(more, b), DataStep) = DataStep[b][Through(m, more, DataStep)]
    BY <1>2, ThroughOneMore
  <2> QED BY <1>9, <2>1
<1>11. DataStep[b][w] = CRC_Calc_Data(b, w)
  BY DataStepType
<1>12. DataResidue(Append(more, b)) = Through(m, Append(more, b), DataStep)
  BY <1>1, DataStepRight DEF DataResidue
<1> QED BY <1>7, <1>8, <1>10, <1>11, <1>12

(* The header of a frame with its check sum, and the data with theirs.     *)
LEMMA FrameEnds ==
  ASSUME NEW d \in Seq(Octet), NEW f, IsFrame(d, f)
  PROVE  /\ SubSeq(f, 3, 8) = Append(<<f[3], f[4], f[5], f[6], f[7]>>, f[8])
         /\ SubSeq(f, 9, Len(f)) = Append(Append(d, f[Len(f) - 1]), f[Len(f)])
         /\ <<f[3], f[4], f[5], f[6], f[7]>> \in Seq(Octet)
         /\ f[Len(f) - 1] \in Octet /\ f[Len(f)] \in Octet
<1>1. /\ f \in Seq(Octet) /\ Len(d) >= 8 /\ Len(f) = Len(d) + 10 /\ IsAt(f, 9, d)
  BY Zenon DEF IsFrame
<1>2. PICK k \in Nat : k = Len(d)
  OBVIOUS
<1>3. PICK n \in Nat : n = Len(f) /\ n = k + 10 /\ n >= 18
  BY <1>1, <1>2
<1>4. \A i \in 1 .. n : f[i] \in Octet
  BY <1>1, <1>3, ElementOfSeq, Zenon
<1>5. PICK p, q \in Octet : p = f[n - 1] /\ q = f[n]
  BY <1>3, <1>4
<1>6. <<f[3], f[4], f[5], f[6], f[7]>> \in Seq(Octet)
  <2>1. f[3] \in Octet /\ f[4] \in Octet /\ f[5] \in Octet /\ f[6] \in Octet /\ f[7] \in Octet
    BY <1>3, <1>4
  <2> QED BY <2>1
<1>7. SubSeq(f, 3, 8) = Append(<<f[3], f[4], f[5], f[6], f[7]>>, f[8])
  <2>1. PICK h \in Seq(Octet) : h = <<f[3], f[4], f[5], f[6], f[7]>>
    BY <1>6
  <2>2. PICK c \in Octet : c = f[8]
    BY <1>3, <1>4
  <2>3. PICK x \in Seq(Octet) : x = Append(h, c)
    <3>1. Append(h, c) \in Seq(Octet)
      BY AppendProperties, Zenon
    <3> QED BY <3>1, Zenon
  <2>4. /\ Len(x) = 6 /\ x[6] = c
        /\ x[1] = h[1] /\ x[2] = h[2] /\ x[3] = h[3] /\ x[4] = h[4] /\ x[5] = h[5]
    <3>1. Len(h) = 5
      BY <2>1
    <3>2. /\ Len(Append(h, c)) = Len(h) + 1 /\ Append(h, c)[Len(h) + 1] = c
          /\ \A i \in 1 .. Len(h) : Append(h, c)[i] = h[i]
      BY AppendProperties
    <3>3. /\ Len(x) = 6 /\ x[6] = c /\ \A i \in 1 .. 5 : x[i] = h[i]
      BY <2>3, <3>1, <3>2
    <3> QED BY <3>3
  <2>5. \A i \in 1 .. 6 : x[i] = f[2 + i]
    <3>1. h[1] = f[3] /\ h[2] = f[4] /\ h[3] = f[5] /\ h[4] = f[6] /\ h[5] = f[7]
      BY <2>1
    <3> QED BY <2>2, <2>4, <3>1
  <2>6. IsAt(f, 3, x)
    BY <1>3, <2>4, <2>5 DEF IsAt
  <2>7. PICK m : m = 3 - 1 + Len(x) /\ m = 8
    BY <2>4
  <2>8. SubSeq(f, 3, m) = x
    <3>1. f \in Seq(Octet) /\ m = 3 - 1 + Len(x)
      BY <1>1, <2>7
    <3> QED BY <2>6, <3>1, Whole
  <2> QED BY <2>1, <2>2, <2>3, <2>7, <2>8, Zenon
<1>8. \A i \in 1 .. k : f[i + 8] = d[i]
  BY <1>1, <1>2 DEF IsAt
<1>9. SubSeq(f, 9, n) = Append(Append(d, p), q)
  <2>1. PICK e \in Seq(Octet) : e = Append(d, p)
    <3>1. Append(d, p) \in Seq(Octet)
      BY AppendProperties, Zenon
    <3> QED BY <3>1, Zenon
  <2>2. Len(e) = k + 1 /\ e[k + 1] = p /\ \A i \in 1 .. k : e[i] = d[i]
    BY <1>2, <2>1
  <2>3. PICK x \in Seq(Octet) : x = Append(e, q)
    <3>1. Append(e, q) \in Seq(Octet)
      BY AppendProperties, Zenon
    <3> QED BY <3>1, Zenon
  <2>4. Len(x) = k + 2 /\ x[k + 2] = q /\ \A i \in 1 .. k + 1 : x[i] = e[i]
    <3>1. /\ Len(x) = Len(e) + 1 /\ x[Len(e) + 1] = q
          /\ \A i \in 1 .. Len(e) : x[i] = e[i]
      BY <2>3, AppendProperties, Zenon
    <3> QED BY <2>2, <3>1
  <2>5. ASSUME NEW i \in 1 .. k + 2 PROVE f[8 + i] = x[i]
    <3>1. CASE i \in 1 .. k
      BY <1>8, <2>2, <2>4, <3>1
    <3>2. CASE i = k + 1
      BY <1>3, <1>5, <2>2, <2>4, <3>2
    <3>3. CASE i = k + 2
      BY <1>3, <1>5, <2>4, <3>3
    <3> QED BY <3>1, <3>2, <3>3
  <2>6. IsAt(f, 9, x)
    BY <1>3, <2>4, <2>5 DEF IsAt
  <2>7. f \in Seq(Octet) /\ n = 9 - 1 + Len(x)
    BY <1>1, <1>3, <2>4
  <2>8. SubSeq(f, 9, n) = x
    BY <2>6, <2>7, Whole
  <2> QED BY <2>1, <2>3, <2>8
<1> QED BY <1>3, <1>5, <1>6, <1>7, <1>9

(* The tables are those that every device on the bus has, and the check    *)
(* sums come in their places: for every message, what a frame carries      *)
(* leaves the remainders that its receivers expect.                        *)
THEOREM CheckSumsRightCorrect == Spec => []CheckSumsRight
<1>1. OnTheWay => CheckSumsRight
  <2> SUFFICES ASSUME OnTheWay, phase = "sent", line = frame
               PROVE  /\ HeadResidue(SubSeq(frame, 3, 8)) = 85
                      /\ DataResidue(SubSeq(frame, 9, Len(frame))) = 61624
    BY DEF CheckSumsRight
  <2>1. data \in Seq(Octet) /\ IsFrame(data, frame)
    BY DEF OnTheWay, Carried
  <2>2. /\ HeadCrc(<<frame[3], frame[4], frame[5], frame[6], frame[7]>>) = frame[8]
        /\ frame[Len(frame) - 1] + 256 * frame[Len(frame)] = DataCrc(data)
    BY <2>1, Zenon DEF IsFrame
  <2>3. HeadResidue(SubSeq(frame, 3, 8)) = 85
    <3>1. PICK h \in Seq(Octet) : h = <<frame[3], frame[4], frame[5], frame[6], frame[7]>>
      BY <2>1, FrameEnds, Zenon
    <3>2. SubSeq(frame, 3, 8) = Append(h, frame[8])
      BY <2>1, <3>1, FrameEnds, Zenon
    <3>3. frame[8] = HeadCrc(h)
      BY <2>2, <3>1, Zenon
    <3>4. HeadResidue(Append(h, frame[8])) = 85
      BY <3>3, HeadLeaves
    <3> QED BY <3>2, <3>4, Zenon
  <2>4. DataResidue(SubSeq(frame, 9, Len(frame))) = 61624
    <3>1. PICK a, b \in Octet : a = frame[Len(frame) - 1] /\ b = frame[Len(frame)]
      BY <2>1, FrameEnds, Zenon
    <3>2. SubSeq(frame, 9, Len(frame)) = Append(Append(data, a), b)
      BY <2>1, <3>1, FrameEnds, Zenon
    <3>3. a + 256 * b = DataCrc(data)
      BY <2>2, <3>1
    <3>4. DataResidue(Append(Append(data, a), b)) = 61624
      BY <2>1, <3>3, DataLeaves
    <3>5. DataResidue(SubSeq(frame, 9, Len(frame))) = DataResidue(Append(Append(data, a), b))
      BY <3>2
    <3> QED BY <3>4, <3>5
  <2> QED BY <2>3, <2>4
<1> QED BY <1>1, AlwaysOnTheWay, PTL

=============================================================================
