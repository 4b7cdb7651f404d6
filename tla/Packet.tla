------------------------------- MODULE Packet -------------------------------
(***************************************************************************)
(* A message on its way: an APDU is encoded (make_apdu.cpp), gets its      *)
(* network header (npdu.cpp), goes into a frame (sendframe.cpp) and out of *)
(* a port (comport.cpp).  The receiver checks the frame byte by byte       *)
(* (recvframe.cpp); a program that understands what RecvFrame hands over,  *)
(* or gets packets otherwise, takes the header off and decodes one field   *)
(* after the other with the decoders of bacdcode.cpp.                      *)
(*                                                                         *)
(* SendFrame itself sends the three requests that Bacnet::DoRequest() asks *)
(* for, without addresses; the other services, their segments and          *)
(* parse_npdu() are there for programs built on the same files.            *)
(***************************************************************************)
EXTENDS SendFrame, ComPort, Segment

CONSTANTS
  Messages,    \* what is sent: APDUs with the arguments of add_npdu_header()
  Fragile,     \* the messages whose frames may be damaged on the line
  Masks,       \* how an octet is damaged: the bits that are turned over
  FrameMaxLen  \* of RecvFrame

(* An address has a network number of 16 bits; the encoders write octets.  *)
ASSUME MessagesAssumption ==
  \A m \in Messages :
    /\ ApduOctets(m.apdu) \in Seq(Octet) /\ m.header.reply \in BOOLEAN
    /\ \A a \in {m.header.dest, m.header.src} :
         Len(a) <= 1 /\ a \in Seq([net : Bits16, mac : Seq(Octet)])

(* At least one bit of the octet is turned over. *)
ASSUME LineAssumption == FrameMaxLen \in Nat /\ Masks \subseteq 1 .. 255

(* Messages whose fields are all of those that a receiver gets back.       *)
Fits(a) == a.head \in Seq(Octet) /\ a.fields \in Seq(DecodableField)
Fit(M) == \A m \in M : Fits(m.apdu)
FieldsFit == Fit(Messages)

VARIABLES
  phase,       \* "idle", "sent", "heard" or "parsed"
  apdu,        \* history: the APDU that was asked for
  header,      \* history: the arguments of add_npdu_header()
  start,       \* npdu->data - npdu->base
  data,        \* the octets from npdu->data on, which the frame carries
  frame,       \* history: the octets that SendFrame wrote
  line,        \* the octets that the line carried
  taken,       \* RecvFrame has accepted them
  peer,        \* what the receiver's parse_npdu() made of the packet
  pos,         \* how much of peer.apdu the receiver has read
  got          \* the values of the fields it has decoded

packet == <<phase, apdu, header, start, data, frame, line, taken, peer, pos, got>>
vars == <<packet, port, segment>>

NoPacket == [err |-> -1]
NoApdu == Apdu(<< >>, << >>)
NoHeader == [dest |-> << >>, src |-> << >>, reply |-> FALSE, priority |-> 0]

(* The header fits in front of the data: start stays in the buffer.  What  *)
(* is sent are octets, and the receiver never reads past them.             *)
TypeOK ==
  /\ phase \in {"idle", "sent", "heard", "parsed"}
  /\ start \in 0 .. HeaderMax
  /\ data \in Seq(Octet) /\ frame \in Seq(Octet) /\ line \in Seq(Octet)
  /\ Len(frame) <= FrameBuffer /\ taken \in BOOLEAN
  /\ pos \in 0 .. Len(data)

Init ==
  /\ phase = "idle" /\ apdu = NoApdu /\ header = NoHeader
  /\ start = HeaderMax /\ data = << >> /\ frame = << >> /\ line = << >>
  /\ taken = FALSE /\ peer = NoPacket /\ pos = 0 /\ got = << >>
  /\ PortInit /\ SegmentInit

(* A frame goes out when MakeFrame() builds one. *)
Send(a, h) ==
  /\ phase = "idle" /\ HeaderLegal(h)
  /\ LET npdu == AddHeader(h, ApduOctets(a))
         made == MakeFrame(DataExpectingReply, 1, 0, npdu)
     IN  /\ made # << >>
         /\ phase' = "sent" /\ apdu' = a /\ header' = h
         /\ start' = HeaderMax - HeaderSize(h)
         /\ data' = npdu /\ frame' = made /\ line' = made
  /\ taken' = FALSE /\ peer' = NoPacket /\ pos' = 0 /\ got' = << >>

(* One octet of the frame is damaged, or write() takes a part of it only:  *)
(* SendCom() calls any number of octets a success and drops the rest.      *)
Damage ==
  /\ phase = "sent" /\ line = frame /\ [apdu |-> apdu, header |-> header] \in Fragile
  /\ \/ \E i \in DOMAIN line, mask \in Masks :
          line' = [line EXCEPT ![i] = Xor(line[i], mask)]
     \/ \E n \in 1 .. Len(line) - 1 : line' = SubSeq(line, 1, n)
  /\ UNCHANGED <<phase, apdu, header, start, data, frame, taken, peer, pos, got>>

-----------------------------------------------------------------------------
(* RecvFrame with these octets in its window. *)
Receiver(octets) == INSTANCE RecvFrame WITH
  Byte <- Octet, Size <- 1024, OffBound <- 0, MaxLulls <- 0,
  CalcHeadCrc <- HeadCrc, CalcDataCrc <- DataCrc,
  Traffic <- {}, First <- {}, Master <- 0, PollTargets <- {},
  pc <- "check", off <- 0, idx <- Len(octets), quiet <- FALSE, lull <- FALSE,
  buf <- [k \in 0 .. Len(octets) - 1 |-> octets[k + 1]],
  cur <- line, pos <- Len(octets), lulls <- 0, fresh <- TRUE, rx <- octets,
  skipped <- FALSE

Waits(n) == Receiver(SubSeq(line, 1, n))!Waiting
Accepts(n) ==
  /\ Receiver(SubSeq(line, 1, n))!HeadGood
  /\ Receiver(SubSeq(line, 1, n))!DataComplete
  /\ Receiver(SubSeq(line, 1, n))!DataGood

(* Check() after every byte: the receiver accepts when it has waited so    *)
(* far, and has dropped nothing.                                           *)
Hear ==
  /\ phase = "sent" /\ phase' = "heard"
  /\ taken' = \E n \in 8 .. Len(line) :
                 Accepts(n) /\ \A k \in 8 .. n - 1 : Waits(k)
  /\ UNCHANGED <<apdu, header, start, data, frame, line, peer, pos, got>>

(* The packet is parsed when RecvFrame has handed over the frame.  Packets *)
(* that are too long for it are parsed too: parse_npdu() does not depend   *)
(* on where they came from.                                                *)
Parse ==
  /\ \/ phase = "heard" /\ taken
     \/ phase = "sent" /\ line = frame /\ Len(frame) > FrameMaxLen
  /\ phase' = "parsed"
  /\ peer' = ParseNpdu(SubSeq(line, 9, Len(line) - 2))
  /\ pos' = Len(apdu.head)
  /\ UNCHANGED <<apdu, header, start, data, frame, line, taken, got>>

(* The receiver decodes the field that the service has next. *)
Decoded ==
  LET f == apdu.fields[Len(got) + 1]
  IN  Decode(f.kind, f.tag, SubSeq(peer.apdu, pos + 1, Len(peer.apdu)))

Read ==
  /\ phase = "parsed" /\ peer.err = 0
  /\ Len(got) < Len(apdu.fields) /\ pos < Len(peer.apdu)
  /\ Decoded.len > 0
  /\ pos' = pos + Decoded.len
  /\ got' = Append(got, Decoded.val)
  /\ UNCHANGED <<phase, apdu, header, start, data, frame, line, taken, peer>>

Finish ==
  /\ \/ phase = "parsed" /\ Len(got) = Len(apdu.fields)
     \/ phase = "heard" /\ ~taken
  /\ phase' = "idle" /\ apdu' = NoApdu /\ header' = NoHeader
  /\ start' = HeaderMax /\ data' = << >> /\ frame' = << >> /\ line' = << >>
  /\ taken' = FALSE /\ peer' = NoPacket /\ pos' = 0 /\ got' = << >>

(* Messages and segments are sent through a port that is set up as         *)
(* test/bacnet.cpp does it, one after the other.                           *)
Next ==
  \/ /\ \/ Ready /\ answer = << >> /\ \E m \in Messages : Send(m.apdu, m.header)
        \/ Damage \/ Hear \/ Parse \/ Read \/ Finish
     /\ UNCHANGED <<port, segment>>
  \/ phase = "idle" /\ answer = << >> /\ PortNext /\ UNCHANGED <<packet, segment>>
  \/ phase = "idle" /\ Ready /\ SegmentNext /\ UNCHANGED <<packet, port>>

Spec == Init /\ [][Next]_vars

-----------------------------------------------------------------------------
(* The receiver's parse_npdu() finds the addresses, flags and APDU that    *)
(* the sender gave to add_npdu_header(): the space made for the header is  *)
(* exactly what it takes, whichever of its parts are there.                *)
HeaderUnderstood ==
  phase = "parsed" =>
    /\ peer.err = 0
    /\ peer.dest = header.dest /\ peer.src = header.src
    /\ peer.reply = header.reply /\ peer.priority = header.priority
    /\ peer.apdu = ApduOctets(apdu)

(* Every field is decoded to the value that was encoded, and the decoders  *)
(* take exactly the octets that the encoders wrote: the last field ends    *)
(* with the packet, and none is refused.                                   *)
FieldsUnderstood ==
  phase = "parsed" /\ peer.err = 0 =>
    /\ \A i \in DOMAIN got : got[i] = apdu.fields[i].val
    /\ Len(got) = Len(apdu.fields) => pos = Len(peer.apdu)
    /\ Len(got) < Len(apdu.fields) => pos < Len(peer.apdu) /\ Decoded.len > 0

(* A frame is accepted exactly when it arrives as it was sent and fits in  *)
(* the receiver: whatever happens to one octet of it, or wherever write()  *)
(* stops, the two check sums and the length tell, and no part of a frame   *)
(* passes for a shorter one.                                               *)
FrameTaken ==
  phase = "heard" => (taken <=> line = frame /\ Len(frame) <= FrameMaxLen)

(* Sender and receiver use the same tables, so that a wrong entry would    *)
(* only be noticed by other devices on the bus: the header and the data    *)
(* leave the remainders that every device expects.                         *)
CheckSumsRight ==
  phase = "sent" /\ line = frame =>
    /\ HeadResidue(SubSeq(frame, 3, 8)) = 85
    /\ DataResidue(SubSeq(frame, 9, Len(frame))) = 61624

=============================================================================
