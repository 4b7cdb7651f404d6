------------------------------ MODULE Bacdcode ------------------------------
(***************************************************************************)
(* The primitive encoding of mstp/bacdcode.cpp.  An encoder is the         *)
(* sequence of octets that it writes; its result in the code is their      *)
(* number.  A decoder is given the octets from its position on and yields  *)
(* what it takes off them and the value, or Refused (0 in the code).       *)
(*                                                                         *)
(* An unsigned int is a Word, its four octets, most significant first; a   *)
(* REAL is the Word of its bits.  A field is what one call encodes: a      *)
(* value with an application tag or with a context tag: the files have     *)
(* context encoders for integers, reals, object identifiers, strings and   *)
(* brackets.  A bit string is the sequence of its bits, first bit first.   *)
(* Booleans in a context, which cannot be decoded, are left out.           *)
(***************************************************************************)
EXTENDS Integers, Sequences

CONSTANT Stale                        \* what the packet's buffer holds before

MaxApduLen == 360                     \* MAX_APDU_LEN, conf.h:23

Octet == 0 .. 255
Word == Octet \X Octet \X Octet \X Octet

ASSUME StaleAssumption == Stale \in Octet

Application == -1                     \* "tag number" of an application field

ApplicationTag ==
  [null |-> 0, boolean |-> 1, unsigned |-> 2, signed |-> 3, real |-> 4,
   string |-> 7, bits |-> 8, enum |-> 9, date |-> 10, time |-> 11, object |-> 12]

Integer == {"unsigned", "signed", "enum"}
FourOctets == {"real", "date", "time"}

Field(kind, tag, val) == [kind |-> kind, tag |-> tag, val |-> val]

Small(n) == <<0, 0, n \div 256, n % 256>>      \* the Word of a 16-bit number

-----------------------------------------------------------------------------
(* encode_tag(): class and number of the tag and the length, or the value, *)
(* of its content.  Contents of more than 65535 octets are left out.       *)
EncodeTag_Wide254(number, context, lvt) ==     \* mutant: 254 in one octet
  <<(IF context THEN 8 ELSE 0) + 16 * (IF number <= 14 THEN number ELSE 15)
      + (IF lvt <= 4 THEN lvt ELSE 5)>>
    \o (IF number <= 14 THEN << >> ELSE <<number>>)
    \o (IF lvt <= 4 THEN << >>
        ELSE IF lvt <= 254 THEN <<lvt>>
        ELSE <<254, lvt \div 256, lvt % 256>>)
EncodeTag(number, context, lvt) ==
  <<(IF context THEN 8 ELSE 0) + 16 * (IF number <= 14 THEN number ELSE 15)
      + (IF lvt <= 4 THEN lvt ELSE 5)>>
    \o (IF number <= 14 THEN << >> ELSE <<number>>)
    \o (IF lvt <= 4 THEN << >>
        ELSE IF lvt <= 253 THEN <<lvt>>
        ELSE <<254, lvt \div 256, lvt % 256>>)

Bracket(number, low) ==               \* opening (6) and closing (7) tags
  <<8 + 16 * (IF number <= 14 THEN number ELSE 15) + low>>
    \o (IF number <= 14 THEN << >> ELSE <<number>>)

(* A value of four octets is shifted by 26 instead of 24. *)
EncodeUnsigned(w) ==
  IF w[1] # 0 THEN <<w[1] \div 4, w[2], w[3], w[4]>>
  ELSE IF w[2] # 0 THEN <<w[2], w[3], w[4]>>
  ELSE IF w[3] # 0 THEN <<w[3], w[4]>>
  ELSE <<w[4]>>

(* Ten bits of object type, 22 bits of instance; the rest is cut off. *)
EncodeObjectId(type, instance) ==
  <<(type % 1024) \div 4, 64 * (type % 4) + (instance % 4194304) \div 65536,
    (instance \div 256) % 256, instance % 256>>

(* The character set and the characters.  The tag around them announces    *)
(* them all, also when they are cut off.                                   *)
EncodeString(chars) ==
  <<0>> \o SubSeq(chars, 1, IF Len(chars) <= MaxApduLen - 6 THEN Len(chars)
                            ELSE MaxApduLen - 6)

(* set_bit_in_string() for every bit, bit 0 the most significant, into     *)
(* octets that are zero; in front of them how many bits the last octet has *)
(* that are not used.                                                      *)
EncodeBits(bits) ==
  LET last == Len(bits) - 1
      strlen == last \div 8 + 1
      Weight(i, k) == IF 8 * (i - 1) + k <= Len(bits)
                    THEN bits[8 * (i - 1) + k] * 2^(8 - k) ELSE 0
  IN  <<8 * strlen - last - 1>>
        \o [i \in 1 .. strlen |->
              Weight(i, 1) + Weight(i, 2) + Weight(i, 3) + Weight(i, 4)
                + Weight(i, 5) + Weight(i, 6) + Weight(i, 7) + Weight(i, 8)]

EncodeContent(f) ==
  CASE f.kind \in {"null", "boolean"} -> << >>
    [] f.kind \in Integer -> EncodeUnsigned(f.val)
    [] f.kind \in FourOctets -> f.val
    [] f.kind = "object" -> EncodeObjectId(f.val[1], f.val[2])
    [] f.kind = "string" -> EncodeString(f.val)
    [] f.kind = "bits" -> EncodeBits(f.val)

(* The length in the tag; the value of a boolean. *)
LengthValueType(f) ==
  CASE f.kind = "boolean" -> f.val
    [] f.kind = "string" -> Len(f.val) + 1
    [] OTHER -> Len(EncodeContent(f))

(* These context encoders write the content behind one octet and then the  *)
(* tag in front of it.  A tag number above 14 takes a second octet, the    *)
(* content's first; the field's length counts one octet more than were     *)
(* written.                                                                *)
ContentFirst == Integer \cup {"real", "object"}

Overwritten(f) ==
  EncodeTag(f.tag, TRUE, LengthValueType(f)) \o Tail(EncodeContent(f)) \o <<Stale>>

Encode(f) ==
  CASE f.kind = "opening" -> Bracket(f.tag, 6)
    [] f.kind = "closing" -> Bracket(f.tag, 7)
    [] f.tag = Application ->
         EncodeTag(ApplicationTag[f.kind], FALSE, LengthValueType(f))
           \o EncodeContent(f)
    [] f.kind \in ContentFirst /\ f.tag > 14 -> Overwritten(f)
    [] OTHER -> EncodeTag(f.tag, TRUE, LengthValueType(f)) \o EncodeContent(f)

-----------------------------------------------------------------------------
(* decode_tag_number_and_lvt(), decode_is_context_specific(). *)
DecodeTag(s) ==
  LET low == s[1] % 8
      n == IF s[1] \div 16 = 15 THEN 2 ELSE 1
  IN  [number |-> IF n = 2 THEN s[2] ELSE s[1] \div 16,
       context |-> (s[1] \div 8) % 2 = 1,
       low |-> low,
       len |-> IF low # 5 THEN n ELSE IF s[n + 1] = 254 THEN n + 3 ELSE n + 1,
       lvt |-> IF low \in {6, 7} THEN 0
               ELSE IF low # 5 THEN low
               ELSE IF s[n + 1] = 254 THEN 256 * s[n + 2] + s[n + 3]
               ELSE s[n + 1]]

(* Of four octets the first is lost: "=" where "+=" was meant. *)
DecodeUnsigned(s) ==
  IF Len(s) = 1 THEN <<0, 0, 0, s[1]>>
  ELSE IF Len(s) = 2 THEN <<0, 0, s[1], s[2]>>
  ELSE IF Len(s) = 3 THEN <<0, s[1], s[2], s[3]>>
  ELSE IF Len(s) = 4 THEN <<0, s[2], s[3], s[4]>>
  ELSE <<0, 0, 0, 0>>

DecodeObjectId(w) ==
  <<4 * w[1] + w[2] \div 64, 65536 * (w[2] % 64) + 256 * w[3] + w[4]>>

Refused == [len |-> 0, val |-> << >>]

(* decode_tagged_signed() looks for the tag of an unsigned value. *)
DecoderTag == [ApplicationTag EXCEPT !.signed = ApplicationTag.unsigned]

Content(t, n, s) == SubSeq(s, t.len + 1, t.len + n)
Taken(t, n, val) == [len |-> t.len + n, val |-> val]

DecodeBracket(t, low) == IF t.low = low THEN Taken(t, 0, << >>) ELSE Refused

DecodeBoolean(t, s) ==
  IF t.context THEN Refused ELSE [len |-> 1, val |-> s[1] % 2]

DecodeReal(t, s) == IF t.context THEN Refused ELSE Taken(t, 4, Content(t, 4, s))

DecodeInteger(t, tag, s) ==
  IF tag # Application /\ ~t.context THEN Refused
  ELSE Taken(t, t.lvt, DecodeUnsigned(Content(t, t.lvt, s)))

DecodeObject(t, s) == Taken(t, 4, DecodeObjectId(Content(t, 4, s)))

(* Into a buffer that holds all of it; another character set is skipped. *)
DecodeString(t, s) ==
  Taken(t, t.lvt, IF Content(t, 1, s) = <<0>> THEN Tail(Content(t, t.lvt, s))
                  ELSE << >>)

DecodeClock(t, s) == Taken(t, 4, Content(t, 4, s))

(* The files have no decoder for bit strings: the standard's, for a        *)
(* receiver that has one.                                                  *)
DecodeBits(t, s) ==
  LET c == Content(t, t.lvt, s)
  IN  Taken(t, t.lvt, [n \in 1 .. 8 * (Len(c) - 1) - c[1] |->
                         (c[2 + (n - 1) \div 8] \div 2^(7 - ((n - 1) % 8))) % 2])

(* Each decoder looks for its tag number.  Those of integers in a context, *)
(* of booleans and of reals look at the class of the tag too.  Before a    *)
(* null, a date or a time the receiver calls decode_tag_number() itself.   *)
Decode(kind, tag, s) ==
  LET t == DecodeTag(s)
      number == IF tag # Application THEN tag ELSE DecoderTag[kind]
  IN
  CASE t.number # number -> Refused
    [] kind = "opening" -> DecodeBracket(t, 6)
    [] kind = "closing" -> DecodeBracket(t, 7)
    [] kind = "null" -> Taken(t, 0, << >>)
    [] kind = "boolean" -> DecodeBoolean(t, s)
    [] kind \in Integer -> DecodeInteger(t, tag, s)
    [] kind = "real" -> DecodeReal(t, s)
    [] kind \in {"date", "time"} -> DecodeClock(t, s)
    [] kind = "object" -> DecodeObject(t, s)
    [] kind = "string" -> DecodeString(t, s)
    [] kind = "bits" -> DecodeBits(t, s)
-----------------------------------------------------------------------------
(* The fields that a receiver gets back: integers of three octets at most, *)
(* and those with a sign only in a context; reals, booleans and bit strings*)
(* with an application tag; strings that are not cut off; integers and     *)
(* object identifiers in a context with tag numbers of one octet.          *)
MaxBits == 256
ObjectId == {o \in Nat \X Nat : o[1] < 1024 /\ o[2] < 4194304}
OneOctetTag == 0 .. 14

DecodableField ==
  [kind : {"opening", "closing"}, tag : Octet, val : {<< >>}]
  \cup [kind : {"null"}, tag : {Application}, val : {<< >>}]
  \cup [kind : {"boolean"}, tag : {Application}, val : {0, 1}]
  \cup [kind : {"unsigned", "enum"}, tag : OneOctetTag \cup {Application},
        val : {0} \X Octet \X Octet \X Octet]
  \cup [kind : {"signed"}, tag : OneOctetTag,
        val : {0} \X Octet \X Octet \X Octet]
  \cup [kind : {"real", "date", "time"}, tag : {Application}, val : Word]
  \cup [kind : {"object"}, tag : OneOctetTag \cup {Application}, val : ObjectId]
  \cup [kind : {"string"}, tag : Octet \cup {Application},
        val : {s \in Seq(Octet) : Len(s) <= MaxApduLen - 6}]
  \cup [kind : {"bits"}, tag : {Application},
        val : {b \in Seq({0, 1}) : Len(b) \in 1 .. MaxBits}]

=============================================================================
