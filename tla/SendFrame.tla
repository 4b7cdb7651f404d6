----------------------------- MODULE SendFrame -----------------------------
(***************************************************************************)
(* The frames of mstp/sendframe.cpp: a packet between the MS/TP header and *)
(* the two octets of its check sum, and the three requests that the        *)
(* program sends.                                                          *)
(***************************************************************************)
EXTENDS MakeApdu, Npdu, Mstpcrc

MinFrameData == 8        \* sendframe.cpp:155
FrameBuffer == 512       \* sizeof(SendFrame::buffer)

DataExpectingReply == 5
Overhead == 8 + 2        \* the header in front of the data, the check sum behind

(* << >> where MakeFrame() answers false. *)
MakeFrame_DataSwapped(type, dst, src, data) ==   \* mutant: high octet first
  IF Len(data) < MinFrameData \/ Len(data) + Overhead > FrameBuffer THEN << >>
  ELSE LET head == <<type, dst, src, Len(data) \div 256, Len(data) % 256>>
           crc == DataCrc(data)
       IN  <<85, 255>> \o head \o <<HeadCrc(head)>>
             \o data \o <<crc \div 256, crc % 256>>
MakeFrame(type, dst, src, data) ==
  IF Len(data) < MinFrameData \/ Len(data) + Overhead > FrameBuffer THEN << >>
  ELSE LET head == <<type, dst, src, Len(data) \div 256, Len(data) % 256>>
           crc == DataCrc(data)
       IN  <<85, 255>> \o head \o <<HeadCrc(head)>>
             \o data \o <<crc % 256, crc \div 256>>

-----------------------------------------------------------------------------
AnalogValue == 2
BinaryValue == 5
PresentValue == 85

ReadReal(id, instance) ==
  apdu_read_property(id, <<AnalogValue, instance>>, PresentValue, << >>, << >>)

WriteReal(id, instance, value) ==
  apdu_write_prop_real(id, <<AnalogValue, instance>>, PresentValue, <<value>>,
                       << >>, << >>)

WriteEnum(id, instance, value) ==
  apdu_write_prop_enum(id, <<BinaryValue, instance>>, PresentValue,
                       <<Small(value)>>, << >>, << >>)

(* add_npdu_header(npdu, 0, 0, 1, 0) *)
ReplyExpected == [dest |-> << >>, src |-> << >>, reply |-> TRUE, priority |-> 0]

=============================================================================
