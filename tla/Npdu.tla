-------------------------------- MODULE Npdu --------------------------------
(***************************************************************************)
(* The network header of mstp/npdu.cpp, in front of an APDU.               *)
(*                                                                         *)
(* A header is [dest, src, reply, priority]; an address in it is << >>     *)
(* (NULL) or a sequence of one [net, mac].  hop_count is 255, what         *)
(* init_npdu() sets; the packets of SendFrame, which never calls it, have  *)
(* no destination and with it no hop count.                                *)
(***************************************************************************)
EXTENDS Integers, Sequences

MacSizeMax == 7                       \* MAC_SIZE_MAX, conf.h:8

(* The space kept in front of the data. *)
HeaderMax_Twenty == 20           \* mutant: enough for one address only
HeaderMax == 26                  \* NPDU_HEADER_MAX, conf.h:17

Short(s) == \A i \in DOMAIN s : Len(s[i].mac) <= MacSizeMax

(* add_npdu_header() goes through. *)
HeaderLegal(h) == h.priority \in 0 .. 3 /\ Short(h.dest) /\ Short(h.src)

Control(h) ==
  (IF h.dest # << >> THEN 32 ELSE 0) + (IF h.src # << >> THEN 8 ELSE 0)
    + (IF h.reply THEN 4 ELSE 0) + h.priority

(* By how much the start of the data is moved back. *)
HeaderSize_NoHopCount(h) ==      \* mutant: 3 for the destination as well
  2 + (IF h.dest # << >> THEN 3 + Len(h.dest[1].mac) ELSE 0)
    + (IF h.src # << >> THEN 3 + Len(h.src[1].mac) ELSE 0)
HeaderSize(h) ==
  2 + (IF h.dest # << >> THEN 4 + Len(h.dest[1].mac) ELSE 0)
    + (IF h.src # << >> THEN 3 + Len(h.src[1].mac) ELSE 0)

AddressOctets(a) ==
  IF a = << >> THEN << >>
  ELSE <<a[1].net \div 256, a[1].net % 256, Len(a[1].mac)>> \o a[1].mac

HeaderOctets(h) ==
  <<1, Control(h)>> \o AddressOctets(h.dest) \o AddressOctets(h.src)
    \o (IF h.dest # << >> THEN <<255>> ELSE << >>)

(* The header is written from the new start of the data on, over what it   *)
(* meets there.                                                            *)
AddHeader(h, apdu) ==
  LET header == HeaderOctets(h)
  IN  header \o SubSeq(apdu, 1 + Len(header) - HeaderSize(h), Len(apdu))

(* parse_npdu(): a network message, an address that is too long, or the    *)
(* parts of the packet.                                                    *)
ParseNpdu(s) ==
  LET Has(bit) == (s[2] \div bit) % 2 = 1
      Address(at) == <<[net |-> 256 * s[at] + s[at + 1],
                        mac |-> SubSeq(s, at + 3, at + 2 + s[at + 2])]>>
      dest == IF Has(32) THEN Address(3) ELSE << >>
      srcAt == IF Has(32) THEN 6 + s[5] ELSE 3
      src == IF Has(8) THEN Address(srcAt) ELSE << >>
      hopAt == IF Has(8) THEN srcAt + 3 + s[srcAt + 2] ELSE srcAt
  IN  IF Has(128) THEN [err |-> 16]
      ELSE IF ~Short(dest) \/ ~Short(src) THEN [err |-> 3]
      ELSE [err |-> 0, dest |-> dest, src |-> src,
            reply |-> Has(4), priority |-> s[2] % 4,
            hops |-> IF Has(32) THEN <<s[hopAt]>> ELSE << >>,
            apdu |-> SubSeq(s, IF Has(32) THEN hopAt + 1 ELSE hopAt, Len(s))]

=============================================================================
