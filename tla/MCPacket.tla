------------------------------ MODULE MCPacket ------------------------------
(***************************************************************************)
(* Instances of Packet: boundary values of every parameter.                *)
(***************************************************************************)
EXTENDS Packet

(* The values around each change of length, up to three octets. *)
Words == {<<0, 0, 0, 0>>, <<0, 0, 0, 255>>, <<0, 0, 1, 0>>, <<0, 0, 255, 255>>,
          <<0, 1, 0, 0>>, <<0, 255, 254, 253>>}
WideWords == {<<1, 2, 3, 4>>}
Reals == {<<63, 128, 0, 0>>, <<0, 0, 0, 0>>, <<255, 1, 2, 3>>}
Objects == {<<0, 0>>, <<2, 1013>>, <<5, 255>>, <<8, 65536>>, <<1023, 4194303>>}

Letters(n) == [i \in 1 .. n |-> 65 + (i % 26)]
Names == {<<Letters(n)>> : n \in {0, 3, 4, 5, 252, 253, 300}}
Maybe(S) == {<< >>} \cup {<<x>> : x \in S}

Requests ==
  {apdu_read_property(127, o, 85, i, s) :
     o \in Objects, i \in Maybe({Small(0), Small(255)}), s \in {<< >>, <<7, 15>>}}
  \cup {apdu_write_prop_real(0, o, 85, v, i, p) :
     o \in Objects, v \in Maybe(Reals), i \in Maybe({Small(1)}),
     p \in Maybe({Small(16)})}
  \cup {apdu_write_prop_enum(1, o, 85, v, << >>, p) :
     o \in Objects, v \in Maybe({Small(0), Small(255)}), p \in Maybe({Small(1)})}

Others ==
  {apdu_who_is_ranged(l, h) : l, h \in Words}
  \cup {apdu_who_has(o, << >>) : o \in Objects}
  \cup {apdu_who_has_ranged(<<0, 0, 0, 1>>, h, <<5, 1>>, n) :
     h \in Words, n \in Names}
  \cup {apdu_iam(i, v) : i \in {0, 65535, 4194303}, v \in {0, 260, 65535}}
  \cup {apdu_error(1, 12, c, d) : c, d \in {0, 255}}
  \cup {apdu_simple_ack(1, 15), apdu_abort(1, 4), apdu_reject(1, 9), apdu_who_is,
        segment_ack_pdu(1, 2, 3, TRUE, FALSE)}

(* make_apdu.cpp has no acknowledgement with data; this one is put         *)
(* together with the encoders, one field of every other kind in it.        *)
Acks ==
  {Apdu(<<48, 1, 14>>,
        <<Field("boolean", Application, b), Field("time", Application, <<23, 59, 0, 1>>),
          Field("date", Application, <<104, 2, 29, 7>>),
          Field("string", Application, n[1]), Field("string", 20, n[1]),
          Field("opening", 20, << >>), Field("signed", 3, Small(5)),
          Field("closing", 20, << >>)>>) :
     b \in {0, 1}, n \in Names}
  \cup {Apdu(<<48, 1, 14>>, <<Field("bits", Application, [i \in 1 .. n |-> (i % 3) % 2])>>) :
         n \in {1, 7, 8, 9, 32, 256}}

Addresses ==
  Maybe({[net |-> 65535, mac |-> << >>], [net |-> 258, mac |-> <<1, 2, 3, 4, 5, 6, 7>>]})
AnyHeader == [dest : Addresses, src : Addresses, reply : BOOLEAN, priority : {0, 3}]
FewHeaders ==
  {ReplyExpected,
   [dest |-> << >>, src |-> <<[net |-> 258, mac |-> <<9>>]>>, reply |-> FALSE, priority |-> 2],
   [dest |-> <<[net |-> 65535, mac |-> << >>]>>, src |-> << >>, reply |-> TRUE, priority |-> 0]}

(* What DoRequest() asks for. *)
Few ==
  {ReadReal(0, i) : i \in {102, 65535}} \cup {WriteReal(0, 103, r) : r \in Reals}
  \cup {WriteEnum(0, 203, v) : v \in {0, 1, 255}}

MCMessages ==
  [apdu : Requests \cup Others \cup Acks, header : FewHeaders]
  \cup [apdu : Few, header : AnyHeader]
MCFragile ==
  [apdu : {ReadReal(0, 102), WriteReal(0, 103, <<63, 128, 0, 0>>)}, header : {ReplyExpected}]

(* The fields of MCMessages are those that FieldsUnderstoodCorrect of      *)
(* Packet_proof is about; one of WideMessages is not.                      *)
ASSUME MessagesFit == Fit(MCMessages)

WideMessages ==
  [apdu : {apdu_who_is_ranged(<<0, 0, 0, 0>>, h) : h \in Words \cup WideWords},
   header : {ReplyExpected}]

-----------------------------------------------------------------------------
(* One argument of Set() at a time differs from those of test/bacnet.cpp,  *)
(* and all differ.                                                         *)
Own == [baud |-> 9600, parity |-> "0", bsize |-> 8, stop |-> 1]
MCSettings ==
  {[Own EXCEPT !.baud = b] : b \in Rates \cup {300}}
  \cup {[Own EXCEPT !.parity = p] : p \in {"1", "2", "n", "o", "E", "x"}}
  \cup {[Own EXCEPT !.bsize = b] : b \in 5 .. 9}
  \cup {[Own EXCEPT !.stop = 2],
        [baud |-> 19200, parity |-> "O", bsize |-> 7, stop |-> 2]}

(* One segment and several, full and cut off, with one octet each, at the  *)
(* last sequence number, and at the largest positions.                     *)
MCAnswers ==
  {[data_len |-> n, segment_size |-> s] : n \in {4, 45, 46, 50, 259}, s \in {6, 48, 360}}
  \cup {[data_len |-> 65000, segment_size |-> 259], [data_len |-> 65175, segment_size |-> 360]}

(* SegmentsJoinCorrect of Packet_proof is about all of them, and not about *)
(* the answers whose last positions wrap or that need 257 segments.        *)
ASSUME MCAnswersFit == NoWrap(MCAnswers)

=============================================================================
